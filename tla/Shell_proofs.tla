---------------------------- MODULE Shell_proofs ----------------------------
(***************************************************************************)
(* Machine-checked proofs about the reminders of the shell, for any set of  *)
(* conversations and any number of arrivals and commands; and, from         *)
(* "Induction up to a number" on, about the pages of one conversation, for  *)
(* any number of rows, of times and of sizes.                               *)
(***************************************************************************)
EXTENDS MCShell, Integers, TLAPS, WellFoundedInduction, FiniteSetTheorems, SequenceTheorems

MainPcs == {"idle", "reload", "clear", "tray"}
PumpPcs == {"idle", "copy", "look", "mark", "show"}

\* The threads and the settings are records of these fields, and the event thread works on a
\* conversation.
Shape ==
    /\ main = [pc |-> main.pc, conv |-> main.conv, tray |-> main.tray]
    /\ main.pc \in MainPcs /\ main.tray \in Trays
    /\ pump = [pc |-> pump.pc, conv |-> pump.conv, by |-> pump.by,
               focused |-> pump.focused, tray |-> pump.tray]
    /\ pump.pc \in PumpPcs /\ pump.tray \in Trays
    /\ pump.pc # "idle" => pump.conv \in Conv
    /\ saved = [muted |-> saved.muted, enabled |-> saved.enabled]
    /\ unread \subseteq Conv

\* The outcomes that change the icon and have not been carried out.
PumpOwes == pump.pc = "show" /\ pump.tray # "keep"
MainOwes == main.pc = "tray" /\ main.tray # "keep"

\* What the icon will be once the outcomes that are left are carried out, the main
\* thread's first.
Coming ==
    /\ PumpOwes => (pump.tray = "dot" <=> unread # {})
    /\ ~PumpOwes /\ MainOwes => (main.tray = "dot" <=> unread # {})
    /\ ~PumpOwes /\ ~MainOwes => red = (unread # {})

TrayInv == Shape /\ (~crossed => Coming)

\* Who is muted in the cache is not unread, but for the one the main thread is about to
\* unmark; and who is looked at is not unread, unless the event of the focus is still to
\* come.
QuietInv ==
    /\ Shape
    /\ \A c \in unread \ stale : c \in cache.muted => main.pc = "clear" /\ c = main.conv
    /\ ~gained => \A c \in unread \ stale : ~(front /\ active = c)

-----------------------------------------------------------------------------
\* An outcome's tray is one of three, and keeps the icon only if nothing changed
\* between some and none.
LEMMA TransitionType ==
    ASSUME NEW before, NEW after
    PROVE  /\ Transition(before, after) \in Trays
           /\ Transition(before, after) = "keep" <=> ((before = {}) = (after = {}))
           /\ Transition(before, after) # "keep" =>
                  (Transition(before, after) = "dot" <=> after # {})
<1>1. CASE (before = {}) = (after = {})
  BY <1>1 DEF Transition, Trays
<1>2. CASE ~((before = {}) = (after = {})) /\ after = {}
  BY <1>2 DEF Transition, Trays
<1>3. CASE ~((before = {}) = (after = {})) /\ after # {}
  BY <1>3 DEF Transition, Trays
<1> QED
  BY <1>1, <1>2, <1>3

\* The main thread decides: it owes the transition, and the set shrinks.
LEMMA Decided ==
    ASSUME Shape, NEW gone, Without(gone), pump' = pump, saved' = saved
    PROVE  /\ Shape'
           /\ main'.pc = "tray" /\ main'.tray = Transition(unread, unread')
           /\ unread' = unread \ gone /\ stale' = stale \ gone
<1>1. /\ unread' = unread \ gone /\ stale' = stale \ gone
      /\ main' = [pc |-> "tray", conv |-> None, tray |-> Transition(unread, unread \ gone)]
  BY DEF Without, Leaves, Resting
<1>2. Transition(unread, unread \ gone) \in Trays
  BY TransitionType
<1> QED
  BY <1>1, <1>2 DEF Shape, MainPcs

THEOREM ShapeInit == Init => Shape
BY DEF Init, Shape, Resting, Waiting, MainPcs, PumpPcs, Trays

-----------------------------------------------------------------------------
LEMMA ShapeStep == Shape /\ [Next]_vars => Shape'
<1> SUFFICES ASSUME Shape, [Next]_vars PROVE Shape'
  OBVIOUS
<1>1. ASSUME NEW c \in Conv, Arrive(c) PROVE Shape'
  BY <1>1 DEF Shape, Arrive, state, Waiting, PumpPcs, Trays
<1>2. ASSUME Copy PROVE Shape'
  BY <1>2 DEF Shape, Copy, state, PumpPcs
<1>3. ASSUME Look PROVE Shape'
  BY <1>3 DEF Shape, Look, state, PumpPcs
<1>4. ASSUME Mark PROVE Shape'
  <2> DEFINE after == IF Unheeded(pump.conv, pump.by, pump.focused) THEN unread
                      ELSE unread \union {pump.conv}
  <2>1. /\ unread' = after /\ UNCHANGED <<main, saved>>
        /\ pump' = [pump EXCEPT !.pc = "show", !.tray = Transition(unread, after)]
    BY <1>4 DEF Mark, Leaves
  <2>2. after \subseteq Conv
    BY <1>4 DEF Shape, Mark
  <2>3. Transition(unread, after) \in Trays
    BY TransitionType
  <2> HIDE DEF after
  <2> QED
    BY <2>1, <2>2, <2>3, <1>4 DEF Shape, PumpPcs, Mark
<1>5. ASSUME Show PROVE Shape'
  BY <1>5 DEF Shape, Show, state, Waiting, PumpPcs, Trays
<1>6. ASSUME NEW c \in Conv, Elapse(c) PROVE Shape'
  BY <1>6 DEF Shape, Elapse
<1>7. ASSUME NEW c \in Conv, SetActive(c) PROVE Shape'
  BY <1>7, Decided DEF SetActive
<1>8. ASSUME NEW gone, ClearUnread(gone) PROVE Shape'
  BY <1>8, Decided DEF ClearUnread
<1>9. ASSUME NEW on \in BOOLEAN, SetSettings(on) PROVE Shape'
  BY <1>9 DEF Shape, SetSettings, state, Resting, MainPcs, Trays
<1>10. ASSUME NEW c \in Conv, NEW on \in BOOLEAN, SetMuted(c, on) PROVE Shape'
  BY <1>10 DEF Shape, SetMuted, state, Resting, MainPcs, Trays
<1>11. ASSUME SaveFails \/ OpenSettings PROVE Shape'
  BY <1>11 DEF Shape, SaveFails, OpenSettings, state, Default
<1>12. ASSUME Reload PROVE Shape'
  BY <1>12 DEF Shape, Reload, state, MainPcs
<1>13. ASSUME Unmark PROVE Shape'
  BY <1>13, Decided DEF Unmark
<1>14. ASSUME ApplyTray PROVE Shape'
  BY <1>14 DEF Shape, ApplyTray, state, Resting, MainPcs, Trays
<1>15. ASSUME Gain \/ Leave PROVE Shape'
  BY <1>15 DEF Shape, Gain, Leave, state
<1>16. ASSUME Focused PROVE Shape'
  BY <1>16, Decided DEF Focused
<1>17. ASSUME UNCHANGED vars PROVE Shape'
  BY <1>17 DEF Shape, vars
<1> QED
  BY <1>1, <1>2, <1>3, <1>4, <1>5, <1>6, <1>7, <1>8, <1>9, <1>10, <1>11, <1>12, <1>13,
     <1>14, <1>15, <1>16, <1>17 DEF Next, Pump, Main
-----------------------------------------------------------------------------
(* The icon. *)

\* Nothing the icon depends on changes.
LEMMA ComingKept ==
    ASSUME ~crossed => Coming,
           UNCHANGED <<unread, red, crossed>>, PumpOwes' = PumpOwes, MainOwes' = MainOwes,
           PumpOwes => pump'.tray = pump.tray, MainOwes => main'.tray = main.tray
    PROVE  ~crossed' => Coming'
BY DEF Coming

\* The main thread decides while it owes nothing: if that changes the icon, the event
\* thread must owe nothing either, or the two have crossed.
LEMMA ComingDecided ==
    ASSUME Shape, ~crossed => Coming, main.pc # "tray", NEW gone, Without(gone),
           pump' = pump, red' = red, saved' = saved
    PROVE  ~crossed' => Coming'
<1>1. main'.pc = "tray" /\ main'.tray = Transition(unread, unread')
  BY Decided
<1>2. crossed' = IF Transition(unread, unread') = "keep" THEN crossed ELSE PumpOwes
  BY DEF Without, Leaves, PumpOwes
<1>3. PumpOwes' = PumpOwes /\ ~MainOwes
  BY DEF PumpOwes, MainOwes
<1>4. CASE Transition(unread, unread') = "keep"
  <2>1. (unread = {}) = (unread' = {}) /\ ~MainOwes'
    BY <1>1, <1>4, TransitionType DEF MainOwes
  <2> QED
    BY <1>2, <1>3, <1>4, <2>1 DEF Coming
<1>5. CASE Transition(unread, unread') # "keep"
  <2>1. main'.tray = "dot" <=> unread' # {}
    BY <1>1, <1>5, TransitionType
  <2>2. MainOwes' /\ (~crossed' => ~PumpOwes')
    BY <1>1, <1>2, <1>3, <1>5 DEF MainOwes
  <2> QED
    BY <2>1, <2>2 DEF Coming
<1> QED
  BY <1>4, <1>5

\* The event thread decides: its outcome is carried out last.
LEMMA ComingMarked ==
    ASSUME Shape, ~crossed => Coming, Mark
    PROVE  ~crossed' => Coming'
<1> DEFINE after == IF Unheeded(pump.conv, pump.by, pump.focused) THEN unread
                    ELSE unread \union {pump.conv}
<1>1. /\ unread' = after /\ UNCHANGED <<main, red>>
      /\ pump' = [pump EXCEPT !.pc = "show", !.tray = Transition(unread, after)]
      /\ crossed' = IF Transition(unread, after) = "keep" THEN crossed ELSE FALSE
      /\ pump.pc = "mark"
  BY DEF Mark, Leaves
<1> HIDE DEF after
<1>2. pump'.pc = "show" /\ pump'.tray = Transition(unread, unread')
  BY <1>1 DEF Shape
<1>3. ~PumpOwes /\ MainOwes' = MainOwes
  BY <1>1 DEF PumpOwes, MainOwes
<1>4. CASE Transition(unread, unread') = "keep"
  <2>1. (unread = {}) = (unread' = {}) /\ ~PumpOwes' /\ crossed' = crossed
    BY <1>1, <1>2, <1>4, TransitionType DEF PumpOwes
  <2>2. (unread' # {}) = (unread # {}) /\ red' = red /\ main'.tray = main.tray
    BY <1>1, <2>1
  <2>3. SUFFICES ASSUME Coming PROVE Coming'
    BY <2>1
  <2>4. CASE MainOwes
    BY <1>3, <2>1, <2>2, <2>3, <2>4 DEF Coming
  <2>5. CASE ~MainOwes
    BY <1>3, <2>1, <2>2, <2>3, <2>5 DEF Coming
  <2> QED
    BY <2>4, <2>5
<1>5. CASE Transition(unread, unread') # "keep"
  <2>1. PumpOwes' /\ (pump'.tray = "dot" <=> unread' # {})
    BY <1>2, <1>5, TransitionType DEF PumpOwes
  <2> QED
    BY <2>1 DEF Coming
<1> QED
  BY <1>4, <1>5

LEMMA TrayStep == TrayInv /\ [Next]_vars => TrayInv'
<1> SUFFICES ASSUME Shape, ~crossed => Coming, [Next]_vars PROVE ~crossed' => Coming'
  BY ShapeStep DEF TrayInv
<1>1. ASSUME NEW c \in Conv, Arrive(c) PROVE ~crossed' => Coming'
  BY <1>1 DEF Shape, Arrive, state, Waiting, Coming, PumpOwes, MainOwes
<1>2. ASSUME Copy PROVE ~crossed' => Coming'
  BY <1>2 DEF Shape, Copy, state, Coming, PumpOwes, MainOwes
<1>3. ASSUME Look PROVE ~crossed' => Coming'
  BY <1>3 DEF Shape, Look, state, Coming, PumpOwes, MainOwes
<1>4. ASSUME Mark PROVE ~crossed' => Coming'
  BY <1>4, ComingMarked
<1>5. ASSUME Show PROVE ~crossed' => Coming'
  <2>1. CASE pump.tray = "keep"
    BY <1>5, <2>1 DEF Show, state, Waiting, Coming, PumpOwes, MainOwes
  <2>2. CASE pump.tray # "keep"
    <3>1. PumpOwes /\ ~MainOwes /\ ~PumpOwes' /\ ~MainOwes'
      BY <1>5, <2>2 DEF Show, Waiting, PumpOwes, MainOwes
    <3>2. red' = (pump.tray = "dot") /\ UNCHANGED <<unread, crossed>>
      BY <1>5, <2>2 DEF Show, state
    <3> QED
      BY <3>1, <3>2 DEF Coming
  <2> QED
    BY <2>1, <2>2
<1>6. ASSUME NEW c \in Conv, Elapse(c) PROVE ~crossed' => Coming'
  BY <1>6 DEF Elapse, Coming, PumpOwes, MainOwes
<1>7. ASSUME NEW c \in Conv, SetActive(c) PROVE ~crossed' => Coming'
  BY <1>7, ComingDecided DEF SetActive, Take
<1>8. ASSUME NEW gone, ClearUnread(gone) PROVE ~crossed' => Coming'
  BY <1>8, ComingDecided DEF ClearUnread, Take
<1>9. ASSUME NEW on \in BOOLEAN, SetSettings(on) PROVE ~crossed' => Coming'
  BY <1>9 DEF SetSettings, Take, state, Resting, Coming, PumpOwes, MainOwes
<1>10. ASSUME NEW c \in Conv, NEW on \in BOOLEAN, SetMuted(c, on) PROVE ~crossed' => Coming'
  BY <1>10 DEF SetMuted, Take, state, Resting, Coming, PumpOwes, MainOwes
<1>11. ASSUME SaveFails \/ OpenSettings PROVE ~crossed' => Coming'
  BY <1>11 DEF SaveFails, OpenSettings, state, Coming, PumpOwes, MainOwes
<1>12. ASSUME Reload PROVE ~crossed' => Coming'
  BY <1>12 DEF Shape, Reload, state, Coming, PumpOwes, MainOwes
<1>13. ASSUME Unmark PROVE ~crossed' => Coming'
  BY <1>13, ComingDecided DEF Unmark
<1>14. ASSUME ApplyTray PROVE ~crossed' => Coming'
  <2>1. ~MainOwes' /\ PumpOwes' = PumpOwes /\ UNCHANGED <<unread, crossed, pump>>
    BY <1>14 DEF ApplyTray, state, Resting, MainOwes, PumpOwes
  <2>2. CASE main.tray = "keep"
    BY <1>14, <2>1, <2>2 DEF ApplyTray, Coming, MainOwes
  <2>3. CASE main.tray # "keep"
    <3>1. MainOwes /\ red' = (main.tray = "dot")
      BY <1>14, <2>3 DEF ApplyTray, MainOwes
    <3> QED
      BY <2>1, <3>1 DEF Coming
  <2> QED
    BY <2>2, <2>3
<1>15. ASSUME Gain \/ Leave PROVE ~crossed' => Coming'
  BY <1>15 DEF Gain, Leave, state, Coming, PumpOwes, MainOwes
<1>16. ASSUME Focused PROVE ~crossed' => Coming'
  BY <1>16, ComingDecided DEF Focused
<1>17. ASSUME UNCHANGED vars PROVE ~crossed' => Coming'
  BY <1>17 DEF vars, Coming, PumpOwes, MainOwes
<1> QED
  BY <1>1, <1>2, <1>3, <1>4, <1>5, <1>6, <1>7, <1>8, <1>9, <1>10, <1>11, <1>12, <1>13,
     <1>14, <1>15, <1>16, <1>17 DEF Next, Pump, Main

\* When both threads have carried out what they decided, the icon shows the dot exactly
\* while a conversation is unread, unless the two overtook each other (apply_tray).
THEOREM TrayIsRight == Spec => []TrayRight
<1>1. Init => TrayInv
  <2>1. Init => (~crossed => Coming)
    <3> SUFFICES ASSUME Init PROVE Coming
      OBVIOUS
    <3>1. ~PumpOwes /\ ~MainOwes
      BY DEF Init, PumpOwes, MainOwes, Resting, Waiting
    <3>2. red = (unread # {})
      BY DEF Init
    <3> QED
      BY <3>1, <3>2 DEF Coming
  <2> QED
    BY <2>1, ShapeInit DEF TrayInv
<1>2. TrayInv => TrayRight
  BY DEF TrayInv, Coming, PumpOwes, MainOwes, TrayRight
<1> QED
  BY <1>1, <1>2, TrayStep, PTL DEF Spec

-----------------------------------------------------------------------------
(* Muted and looked at. *)

\* The main thread takes marks away.
LEMMA QuietDecided ==
    ASSUME QuietInv, NEW gone, Without(gone), main.pc # "reload",
           pump' = pump, UNCHANGED <<saved, cache, front>>,
           main.pc = "clear" => main.conv \in gone,
           \/ active' = active /\ gained' = gained
           \/ active' = active /\ {active} \ {None} \subseteq gone
           \/ active' \in gone /\ gained' = gained
    PROVE  QuietInv'
<1>1. /\ Shape' /\ main'.pc = "tray"
      /\ unread' = unread \ gone /\ stale' = stale \ gone
  BY Decided DEF QuietInv
<1>2. \A c \in unread' \ stale' : c \in unread \ stale /\ c \notin gone
  BY <1>1
<1>4. \A c \in unread' \ stale' : c \notin cache'.muted
  BY <1>2 DEF QuietInv
<1>5. ~gained' => \A c \in unread' \ stale' : ~(front' /\ active' = c)
  <2> SUFFICES ASSUME ~gained', NEW c \in unread' \ stale', front', active' = c PROVE FALSE
    OBVIOUS
  <2>1. c \in Conv /\ c # None
    BY <1>2, NoneAssumption DEF QuietInv, Shape
  <2> QED
    BY <1>2, <2>1 DEF QuietInv
<1> QED
  BY <1>1, <1>4, <1>5 DEF QuietInv

\* The event thread marks: if it should not have, by the cache and the focus as they are
\* now, the mark is stale.
LEMMA QuietMarked ==
    ASSUME QuietInv, Mark
    PROVE  QuietInv'
<1> DEFINE heeded == ~Unheeded(pump.conv, pump.by, pump.focused)
<1>1. /\ unread' = IF heeded THEN unread \union {pump.conv} ELSE unread
      /\ stale' = IF Unheeded(pump.conv, cache, front) /\ heeded
                  THEN stale \union {pump.conv} ELSE stale
      /\ UNCHANGED <<saved, cache, active, front, gained, main>>
  BY DEF Mark, Leaves
<1>2. Shape'
  BY ShapeStep DEF QuietInv, Next, Pump
<1>3. \A c \in unread' \ stale' :
          c \in unread \ stale \/ ~Unheeded(c, cache, front)
  BY <1>1
<1>4. \A c \in unread' \ stale' : c \in cache'.muted => main'.pc = "clear" /\ c = main'.conv
  BY <1>1, <1>3 DEF QuietInv, Unheeded
<1>5. ~gained' => \A c \in unread' \ stale' : ~(front' /\ active' = c)
  BY <1>1, <1>3 DEF QuietInv, Unheeded
<1> QED
  BY <1>1, <1>2, <1>4, <1>5 DEF QuietInv

LEMMA QuietStep == QuietInv /\ [Next]_vars => QuietInv'
<1> SUFFICES ASSUME QuietInv, [Next]_vars PROVE QuietInv'
  OBVIOUS
<1>s. Shape /\ Shape'
  BY ShapeStep DEF QuietInv
<1>1. ASSUME NEW c \in Conv, Arrive(c) PROVE QuietInv'
  BY <1>1, <1>s DEF QuietInv, Arrive, state
<1>2. ASSUME Copy \/ Look \/ Show PROVE QuietInv'
  BY <1>2, <1>s DEF QuietInv, Copy, Look, Show, state
<1>3. ASSUME Mark PROVE QuietInv'
  BY <1>3, QuietMarked
<1>4. ASSUME NEW c \in Conv, Elapse(c) PROVE QuietInv'
  BY <1>4, <1>s DEF QuietInv, Elapse
<1>5. ASSUME NEW c \in Conv, SetActive(c) PROVE QuietInv'
  BY <1>5, QuietDecided DEF SetActive, Take
<1>6. ASSUME NEW gone, ClearUnread(gone) PROVE QuietInv'
  BY <1>6, QuietDecided DEF ClearUnread, Take
<1>7. ASSUME NEW on \in BOOLEAN, SetSettings(on) PROVE QuietInv'
  BY <1>7, <1>s DEF QuietInv, Shape, SetSettings, Take, Resting, state
<1>8. ASSUME NEW c \in Conv, NEW on \in BOOLEAN, SetMuted(c, on) PROVE QuietInv'
  <2>1. main.pc = "idle" /\ UNCHANGED <<cache, active, unread, front, gained, stale>>
    BY <1>8 DEF SetMuted, Take, state
  <2> QED
    BY <1>s, <2>1 DEF QuietInv
<1>9. ASSUME SaveFails \/ OpenSettings PROVE QuietInv'
  <2>1. main.pc = "idle" /\ UNCHANGED <<cache, active, unread, front, gained, stale, main>>
    BY <1>9 DEF SaveFails, OpenSettings, Take, state
  <2> QED
    BY <1>s, <2>1 DEF QuietInv
<1>10. ASSUME Reload PROVE QuietInv'
  <2>1. /\ cache' = saved /\ saved' = saved /\ main.pc = "reload" /\ main'.conv = main.conv
        /\ main.conv # None => main'.pc = "clear"
        /\ stale' = stale \union ((unread \intersect saved.muted) \ (cache.muted \union {main.conv}))
        /\ UNCHANGED <<active, unread, front, gained>>
    BY <1>10, <1>s DEF Shape, Reload
  <2>2. \A c \in unread' \ stale' : c \in unread \ stale /\ c \in Conv /\ c # None
    BY <1>s, <2>1, NoneAssumption DEF Shape
  <2>3. \A c \in unread' \ stale' : c \in cache'.muted => main'.pc = "clear" /\ c = main'.conv
    BY <2>1, <2>2 DEF QuietInv
  <2> QED
    BY <1>s, <2>1, <2>2, <2>3 DEF QuietInv
<1>11. ASSUME Unmark PROVE QuietInv'
  BY <1>11, QuietDecided DEF Unmark
<1>12. ASSUME ApplyTray PROVE QuietInv'
  BY <1>12, <1>s DEF QuietInv, ApplyTray, state
<1>13. ASSUME Gain \/ Leave PROVE QuietInv'
  BY <1>13, <1>s DEF QuietInv, Gain, Leave, state
<1>14. ASSUME Focused PROVE QuietInv'
  BY <1>14, QuietDecided DEF Focused
<1>15. ASSUME UNCHANGED vars PROVE QuietInv'
  BY <1>15, <1>s DEF QuietInv, vars
<1> QED
  BY <1>1, <1>2, <1>3, <1>4, <1>5, <1>6, <1>7, <1>8, <1>9, <1>10, <1>11, <1>12, <1>13,
     <1>14, <1>15 DEF Next, Pump, Main

\* A conversation that is muted, or that the user looks at, is not unread, unless it was
\* marked by settings or a focus read before the change (on_incoming), or muted again by a
\* settings page that read the list before the user unmuted it (set_settings).
THEOREM QuietIsNotMarked == Spec => []QuietIsNotUnread
<1>1. Init => QuietInv
  BY ShapeInit DEF Init, QuietInv, Resting
<1>2. QuietInv => QuietIsNotUnread
  BY DEF QuietInv, QuietIsNotUnread
<1> QED
  BY <1>1, <1>2, QuietStep, PTL DEF Spec

-----------------------------------------------------------------------------
(* Induction up to a number. *)

\* The least of a set of numbers.
LEMMA Least ==
    ASSUME NEW T, T \subseteq Nat, T # {}
    PROVE  \E x \in T : \A y \in T : x <= y
  <1> DEFINE R == OpToRel(<, Nat)
  <1>1. \A x, y \in Nat : y < x => <<y, x>> \in R
    BY DEF OpToRel
  <1>2. IsWellFoundedOn(R, Nat)
    BY NatLessThanWellFounded
  <1> HIDE DEF R
  <1>3. PICK x \in T : \A y \in T : ~ (<<y, x>> \in R)
    BY <1>2, WFMin
  <1>4. \A y \in T : ~(y < x)
    BY <1>1, <1>3
  <1>. QED  BY <1>4

\* Induction up to n.
LEMMA UpTo ==
    ASSUME NEW n \in Nat, NEW G, 0 \in G, \A k \in 0 .. n - 1 : k \in G => k + 1 \in G
    PROVE  \A k \in 0 .. n : k \in G
  <1> SUFFICES ASSUME NEW k \in 0 .. n, k \notin G PROVE FALSE
    OBVIOUS
  <1> DEFINE B == {i \in 0 .. n : i \notin G}
  <1>1. PICK i \in B : \A j \in B : i <= j
    <2>1. B \subseteq Nat /\ B # {}
      OBVIOUS
    <2> HIDE DEF B
    <2>. QED  BY <2>1, Least
  <1>2. i # 0 /\ i - 1 \in 0 .. n - 1 /\ i - 1 \notin B
    BY <1>1
  <1>. QED  BY <1>1, <1>2

-----------------------------------------------------------------------------
(* Rows in their order. *)

\* The rows there can be.
Row == [id : Ids, ts : Times]

\* What a row is made of.
LEMMA RowFact ==
    \A r \in Row : r.id \in Nat /\ r.id >= 1 /\ r.id <= Cardinality(Ids)
                /\ r.ts \in Nat /\ r.ts >= 1 /\ r.ts <= Cardinality(Times)
  <1>1. Cardinality(Ids) \in Nat /\ Cardinality(Times) \in Nat
    BY RowAssumption, FS_CardinalityType
  <1>. QED  BY <1>1, RowAssumption DEF Row

\* ORDER BY ts_ms, id is a total order of the rows.
LEMMA EarlierFacts ==
    ASSUME NEW r \in Row, NEW q \in Row, NEW p \in Row
    PROVE  /\ r = q \/ Earlier(r, q) \/ Earlier(q, r)
           /\ Earlier(r, q) /\ Earlier(q, p) => Earlier(r, p)
           /\ ~Earlier(r, r)
  <1>1. /\ r.id \in Nat /\ r.ts \in Nat /\ q.id \in Nat /\ q.ts \in Nat
        /\ p.id \in Nat /\ p.ts \in Nat
    BY RowFact
  <1>2. r.id = q.id /\ r.ts = q.ts => r = q
    BY DEF Row
  <1>. QED  BY <1>1, <1>2 DEF Earlier

\* Of finitely many rows one is the latest.
LEMMA LastOne ==
    ASSUME NEW S \in SUBSET Row, IsFiniteSet(S), S # {}
    PROVE  \E x \in S : \A y \in S : y = x \/ Earlier(y, x)
  <1> DEFINE n == Cardinality(S)
             Ends(U) == \E x \in U : \A y \in U : y = x \/ Earlier(y, x)
             G == {k \in 0 .. n : \A U \in SUBSET S : Cardinality(U) = k => U = {} \/ Ends(U)}
  <1>1. n \in Nat /\ \A U \in SUBSET S : IsFiniteSet(U) /\ Cardinality(U) \in Nat
    BY FS_CardinalityType, FS_Subset
  <1>2. 0 \in G
    BY <1>1, FS_EmptySet
  <1>3. ASSUME NEW k \in 0 .. n - 1, k \in G PROVE k + 1 \in G
    <2>1. ASSUME NEW U \in SUBSET S, Cardinality(U) = k + 1, U # {} PROVE Ends(U)
      <3>1. PICK a \in U : TRUE
        BY <2>1
      <3>2. Cardinality(U \ {a}) = k
        <4>1. IsFiniteSet(U) /\ k \in Int
          BY <1>1
        <4>2. Cardinality(U \ {a}) = Cardinality(U) - 1
          BY <3>1, <4>1, FS_RemoveElement
        <4>. QED  BY <2>1, <4>1, <4>2
      <3>3. U \ {a} = {} \/ Ends(U \ {a})
        BY <1>3, <3>2
      <3>4. CASE U \ {a} = {}
        BY <3>1, <3>4
      <3>5. CASE Ends(U \ {a})
        <4>1. PICK b \in U \ {a} : \A y \in U \ {a} : y = b \/ Earlier(y, b)
          BY <3>5
        <4>2. CASE Earlier(a, b)
          <5>1. \A y \in U : y = b \/ Earlier(y, b)
            BY <4>1, <4>2
          <5>. QED  BY <4>1, <5>1
        <4>3. CASE Earlier(b, a)
          <5>1. ASSUME NEW y \in U, y # a PROVE Earlier(y, a)
            <6>1. y \in Row /\ a \in Row /\ b \in Row
              BY <3>1, <4>1
            <6>. QED  BY <4>1, <4>3, <5>1, <6>1, EarlierFacts
          <5>. QED  BY <3>1, <5>1
        <4>. QED  BY <3>1, <4>1, <4>2, <4>3, EarlierFacts
      <3>. QED  BY <3>3, <3>4, <3>5
    <2>2. k + 1 \in 0 .. n
      BY <1>1
    <2> HIDE DEF Ends, n
    <2>. QED  BY <2>1, <2>2
  <1>4. n \in G
    <2>1. \A k \in 0 .. n : k \in G
      <3> HIDE DEF G, n
      <3>. QED  BY <1>1, <1>2, <1>3, UpTo
    <2> HIDE DEF G
    <2>. QED  BY <1>1, <2>1
  <1>. QED  BY <1>4

\* Finitely many rows can be put in order.
LEMMA SortedExists ==
    ASSUME NEW S \in SUBSET Row, IsFiniteSet(S)
    PROVE  \E s \in [1 .. Cardinality(S) -> S] : Range(s) = S /\ InOrder(s)
  <1> DEFINE n == Cardinality(S)
             Done(U) == \E s \in [1 .. Cardinality(U) -> U] : Range(s) = U /\ InOrder(s)
             G == {k \in 0 .. n : \A U \in SUBSET S : Cardinality(U) = k => Done(U)}
  <1>1. n \in Nat /\ \A U \in SUBSET S : IsFiniteSet(U) /\ Cardinality(U) \in Nat
    BY FS_CardinalityType, FS_Subset
  <1>2. 0 \in G
    <2>1. \A U \in SUBSET S : Cardinality(U) = 0 => U = {}
      BY <1>1, FS_EmptySet
    <2>2. Done({})
      <3> DEFINE s == [i \in 1 .. 0 |-> 0]
      <3>1. s \in [1 .. 0 -> {}] /\ Range(s) = {} /\ InOrder(s)
        BY DEF Range, InOrder
      <3>2. Cardinality({}) = 0
        BY FS_EmptySet
      <3> HIDE DEF s
      <3>3. \E u \in [1 .. 0 -> {}] : Range(u) = {} /\ InOrder(u)
        BY <3>1
      <3>. QED  BY <3>2, <3>3
    <2>3. 0 \in 0 .. n
      BY <1>1
    <2> HIDE DEF Done, n
    <2>. QED  BY <2>1, <2>2, <2>3
  <1>3. ASSUME NEW k \in 0 .. n - 1, k \in G PROVE k + 1 \in G
    <2>1. ASSUME NEW U \in SUBSET S, Cardinality(U) = k + 1 PROVE Done(U)
      <3>1. U # {} /\ IsFiniteSet(U) /\ k \in Nat
        BY <1>1, <2>1, FS_EmptySet
      <3>2. PICK a \in U : \A y \in U : y = a \/ Earlier(y, a)
        BY <3>1, LastOne
      <3>3. Cardinality(U \ {a}) = k
        <4>1. Cardinality(U \ {a}) = Cardinality(U) - 1
          BY <3>1, <3>2, FS_RemoveElement
        <4>. QED  BY <2>1, <3>1, <4>1
      <3>4. Done(U \ {a})
        BY <1>3, <3>3
      <3>5. PICK s \in [1 .. k -> U \ {a}] : Range(s) = U \ {a} /\ InOrder(s)
        BY <3>3, <3>4
      <3> DEFINE t == [i \in 1 .. k + 1 |-> IF i = k + 1 THEN a ELSE s[i]]
      <3>6. t \in [1 .. k + 1 -> U]
        BY <3>1, <3>2, <3>5
      <3>7. Range(t) = U
        <4>1. ASSUME NEW y \in U PROVE y \in Range(t)
          <5>1. CASE y = a
            BY <3>1, <5>1 DEF Range
          <5>2. CASE y # a
            <6>1. PICK i \in 1 .. k : y = s[i]
              BY <3>5, <5>2 DEF Range
            <6>2. i \in 1 .. k + 1 /\ t[i] = y
              BY <3>1, <6>1
            <6>. QED  BY <6>2 DEF Range
          <5>. QED  BY <5>1, <5>2
        <4>2. Range(t) \subseteq U
          BY <3>6 DEF Range
        <4>. QED  BY <4>1, <4>2
      <3>8. InOrder(t)
        <4>1. ASSUME NEW i \in 1 .. k + 1, NEW j \in 1 .. k + 1, i < j PROVE Earlier(t[i], t[j])
          <5>1. i \in 1 .. k /\ t[i] = s[i] /\ s[i] \in U \ {a}
            BY <3>1, <3>5, <4>1
          <5>2. CASE j = k + 1
            BY <3>2, <5>1, <5>2
          <5>3. CASE j \in 1 .. k
            BY <3>1, <3>5, <4>1, <5>1, <5>3 DEF InOrder
          <5>. QED  BY <3>1, <5>2, <5>3
        <4>. QED  BY <4>1 DEF InOrder
      <3> HIDE DEF t
      <3>. QED  BY <2>1, <3>6, <3>7, <3>8
    <2>2. k + 1 \in 0 .. n
      BY <1>1
    <2> HIDE DEF Done, n
    <2>. QED  BY <2>1, <2>2
  <1>4. n \in G
    <2>1. \A k \in 0 .. n : k \in G
      <3> HIDE DEF G, n
      <3>. QED  BY <1>1, <1>2, <1>3, UpTo
    <2> HIDE DEF G
    <2>. QED  BY <1>1, <2>1
  <1>. QED  BY <1>4

\* Sorted does what its name says (ORDER BY ts_ms, id).
LEMMA SortedFact ==
    ASSUME NEW S \in SUBSET Row, IsFiniteSet(S)
    PROVE  /\ Sorted(S) \in Seq(Row) /\ Len(Sorted(S)) = Cardinality(S)
           /\ Range(Sorted(S)) = S /\ InOrder(Sorted(S))
  <1>1. /\ Sorted(S) \in [1 .. Cardinality(S) -> S]
        /\ Range(Sorted(S)) = S /\ InOrder(Sorted(S))
    BY SortedExists DEF Sorted
  <1>2. Cardinality(S) \in Nat
    BY FS_CardinalityType
  <1>. QED  BY <1>1, <1>2

\* A page is in order, and what it leaves out of the rows before the cursor comes before
\* the page, which is full then (history).
LEMMA PageFact ==
    ASSUME NEW S \in SUBSET Row, IsFiniteSet(S), NEW cursor, NEW limit \in Nat \ {0}
    PROVE  LET page == Page(S, cursor, limit)
           IN /\ page \in Seq(Row) /\ InOrder(page) /\ Len(page) <= limit
              /\ \A r \in Range(page) : r \in S /\ Before(r, cursor)
              /\ \A r \in S : Before(r, cursor) =>
                    \/ r \in Range(page)
                    \/ Len(page) = limit /\ \A i \in DOMAIN page : Earlier(r, page[i])
  <1> DEFINE T == {r \in S : Before(r, cursor)}
             s == Sorted(T)
             n == Len(s)
             skip == IF n > limit THEN n - limit ELSE 0
             page == SubSeq(s, skip + 1, n)
  <1>1. T \in SUBSET Row /\ IsFiniteSet(T)
    <2>1. T \in SUBSET S
      OBVIOUS
    <2> HIDE DEF T
    <2>. QED  BY <2>1, FS_Subset
  <1>2. s \in Seq(Row) /\ Range(s) = T /\ InOrder(s)
    <2> HIDE DEF T
    <2>. QED  BY <1>1, SortedFact
  <1>3. Page(S, cursor, limit) = page
    BY DEF Page
  <1> HIDE DEF s, T
  <1>4. n \in Nat /\ DOMAIN s = 1 .. n /\ skip \in 0 .. n
    BY <1>2
  <1>5. /\ page \in Seq(Row) /\ Len(page) = n - skip /\ DOMAIN page = 1 .. n - skip
        /\ \A i \in 1 .. n - skip : page[i] = s[i + skip]
    <2>1. n + 1 - (skip + 1) = n - skip /\ \A i \in 1 .. n - skip : skip + 1 + i - 1 = i + skip
      BY <1>4
    <2>2. \A i \in skip + 1 .. n : s[i] \in Row
      BY <1>2, <1>4
    <2> HIDE DEF n, skip
    <2>3. skip + 1 \in Int /\ n \in Int /\ ~(skip + 1 > n + 1)
      BY <1>4
    <2>. QED  BY <1>4, <2>1, <2>2, <2>3, SubSeqProperties
  <1>6. Len(page) <= limit /\ (skip # 0 => Len(page) = limit)
    <2> HIDE DEF page
    <2>. QED  BY <1>4, <1>5
  <1> HIDE DEF page, skip, n
  <1>7. InOrder(page)
    <2>1. ASSUME NEW i \in 1 .. n - skip, NEW j \in 1 .. n - skip, i < j
          PROVE  Earlier(page[i], page[j])
      <3>1. i + skip \in 1 .. n /\ j + skip \in 1 .. n /\ i + skip < j + skip
        BY <1>4, <2>1
      <3>. QED  BY <1>2, <1>4, <1>5, <3>1 DEF InOrder
    <2>. QED  BY <1>5, <2>1 DEF InOrder
  <1>8. ASSUME NEW r \in Range(page) PROVE r \in S /\ Before(r, cursor)
    <2>1. PICK i \in 1 .. n - skip : r = page[i]
      BY <1>5 DEF Range
    <2>2. i + skip \in 1 .. n
      BY <1>4
    <2>3. r \in T
      BY <1>2, <1>4, <1>5, <2>1, <2>2 DEF Range
    <2>. QED  BY <2>3 DEF T
  <1>9. ASSUME NEW r \in S, Before(r, cursor)
        PROVE  \/ r \in Range(page)
               \/ Len(page) = limit /\ \A i \in DOMAIN page : Earlier(r, page[i])
    <2>1. PICK k \in 1 .. n : r = s[k]
      <3>1. r \in T
        BY <1>9 DEF T
      <3>. QED  BY <1>2, <1>4, <3>1 DEF Range
    <2>2. CASE k > skip
      <3>1. k - skip \in 1 .. n - skip /\ (k - skip) + skip = k
        BY <1>4, <2>2
      <3>. QED  BY <1>5, <2>1, <3>1 DEF Range
    <2>3. CASE k <= skip
      <3>1. skip # 0
        BY <2>3
      <3>2. ASSUME NEW i \in 1 .. n - skip PROVE Earlier(r, page[i])
        <4>1. i + skip \in 1 .. n /\ k < i + skip
          BY <1>4, <2>3
        <4>. QED  BY <1>2, <1>4, <1>5, <2>1, <4>1 DEF InOrder
      <3>. QED  BY <1>5, <1>6, <3>1, <3>2
    <2>. QED  BY <1>4, <2>2, <2>3
  <1>. QED  BY <1>3, <1>5, <1>6, <1>7, <1>8, <1>9

-----------------------------------------------------------------------------
(* Rows that are stored. *)

\* Row i of a history has id i.
IsHistory(h) == \A i \in Ids : h[i].row \in Row /\ h[i].row.id = i /\ h[i].at \in Nat

\* What a history is, however the rows are stored.
LEMMA HistoryFact ==
    ASSUME NEW pages \in Nat, NEW h \in Histories(pages)
    PROVE  /\ IsHistory(h) /\ DOMAIN h = Ids
           /\ \A i \in Ids : h[i].at \in 0 .. pages \cup {Enough + 1}
  <1>1. PICK ts \in [Ids -> Times], at \in [Ids -> 0 .. pages \cup {Enough + 1}] :
            h = [i \in Ids |-> [row |-> [id |-> i, ts |-> ts[i]], at |-> at[i]]]
    BY DEF Histories
  <1>2. Enough \in Nat
    BY RowAssumption, FS_CardinalityType DEF Enough
  <1>3. ASSUME NEW i \in Ids
        PROVE  /\ h[i].row \in Row /\ h[i].row.id = i
               /\ h[i].at \in Nat /\ h[i].at \in 0 .. pages \cup {Enough + 1}
    <2>1. h[i] = [row |-> [id |-> i, ts |-> ts[i]], at |-> at[i]]
      BY <1>1
    <2>2. at[i] \in 0 .. pages \cup {Enough + 1} /\ ts[i] \in Times
      BY <1>1
    <2>3. at[i] \in Nat
      BY <1>2, <2>2
    <2>. QED  BY <2>1, <2>2, <2>3 DEF Row
  <1>. QED  BY <1>1, <1>3 DEF IsHistory

\* The rows stored are finitely many, one for an id, and none is taken back.
LEMMA StoredFact ==
    ASSUME NEW h, IsHistory(h), DOMAIN h = Ids, NEW n \in Nat
    PROVE  /\ Stored(h, n) \in SUBSET Row /\ IsFiniteSet(Stored(h, n))
           /\ \A r \in Stored(h, n) : r = h[r.id].row /\ r.id \in Ids
           /\ \A m \in 0 .. n : Stored(h, m) \subseteq Stored(h, n)
  <1> DEFINE K == {k \in Ids : h[k].at <= n}
             f == [k \in K |-> h[k].row]
  <1>1. Stored(h, n) = {h[k].row : k \in K}
    BY DEF Stored
  <1>2. IsFiniteSet(K)
    <2>1. K \in SUBSET Ids
      OBVIOUS
    <2> HIDE DEF K
    <2>. QED  BY <2>1, RowAssumption, FS_Subset
  <1>3. IsFiniteSet(Stored(h, n))
    <2> HIDE DEF K
    <2>1. f \in Surjection(K, Stored(h, n))
      BY <1>1 DEF Surjection
    <2> HIDE DEF f
    <2>. QED  BY <1>2, <2>1, FS_Surjection
  <1>4. \A r \in Stored(h, n) : r \in Row /\ r = h[r.id].row /\ r.id \in Ids
    BY <1>1 DEF IsHistory
  <1>5. ASSUME NEW m \in 0 .. n PROVE Stored(h, m) \subseteq Stored(h, n)
    <2>1. ASSUME NEW k \in Ids, h[k].at <= m PROVE h[k].at <= n
      BY <2>1 DEF IsHistory
    <2>. QED  BY <2>1 DEF Stored
  <1>. QED  BY <1>3, <1>4, <1>5

\* Rows in their order are no more than there are ids.
LEMMA LengthFact ==
    ASSUME NEW h, IsHistory(h), DOMAIN h = Ids, NEW n \in Nat,
           NEW p \in Seq(Row), InOrder(p), Range(p) \subseteq Stored(h, n)
    PROVE  Len(p) <= Cardinality(Ids)
  <1> DEFINE m == Len(p)
             f == [k \in 1 .. m |-> p[k].id]
  <1>1. m \in Nat /\ DOMAIN p = 1 .. m /\ \A k \in 1 .. m : p[k] \in Row /\ p[k] \in Range(p)
    BY DEF Range
  <1>2. \A k \in 1 .. m : p[k].id \in Ids /\ p[k] = h[p[k].id].row
    BY <1>1, StoredFact
  <1>3. f \in Injection(1 .. m, Ids)
    <2>1. ASSUME NEW k \in 1 .. m, NEW l \in 1 .. m, f[k] = f[l] PROVE k = l
      <3>1. p[k] = p[l]
        BY <1>2, <2>1
      <3>2. ~Earlier(p[k], p[l]) /\ ~Earlier(p[l], p[k])
        BY <1>1, <3>1, EarlierFacts
      <3>3. ~(k < l) /\ ~(l < k)
        BY <1>1, <3>2 DEF InOrder
      <3>. QED  BY <1>1, <3>3
    <2>2. f \in [1 .. m -> Ids]
      BY <1>2
    <2> HIDE DEF f
    <2>. QED  BY <2>1, <2>2 DEF Injection, IsInjective
  <1>4. Cardinality(1 .. m) = m
    <2> HIDE DEF m
    <2>1. 1 \in Int /\ m \in Int /\ (1 > m => m = 0) /\ m - 1 + 1 = m
      BY <1>1
    <2>. QED  BY <2>1, FS_Interval
  <1> HIDE DEF f, m
  <1>5. Cardinality(1 .. m) <= Cardinality(Ids)
    BY <1>3, RowAssumption, FS_Injection
  <1>. QED  BY <1>4, <1>5 DEF m

-----------------------------------------------------------------------------
(* Reading back. *)

\* What the user has after n more pages: the rows read back, in their order, before what
\* was there besides; of the wanted rows only some before the first are missing, and
\* none once there is no more.
Reading(h, n, st, pre, first, rest, wanted) ==
    /\ pre \in Seq(Row) /\ InOrder(pre) /\ Range(pre) \subseteq Stored(h, n)
    /\ st = [items |-> pre \o rest, more |-> st.more] /\ st.more \in BOOLEAN
    /\ st.more => /\ Len(pre) >= n + 1 /\ first # <<>>
                  /\ pre[1] = first[1] \/ Earlier(pre[1], first[1])
    /\ \A r \in wanted : r \in Range(pre) \/ (st.more /\ Earlier(r, pre[1]))
    /\ \A i \in DOMAIN pre : pre[i] \in Range(first) \/ Earlier(pre[i], first[1])

\* A page put before the rows that follow it keeps the order (loadOlder).
LEMMA PagePrepended ==
    ASSUME NEW p \in Seq(Row), NEW q \in Seq(Row), InOrder(p), InOrder(q), q # <<>>,
           \A i \in DOMAIN p : Earlier(p[i], q[1])
    PROVE  p \o q \in Seq(Row) /\ InOrder(p \o q) /\ Range(p \o q) = Range(p) \cup Range(q)
  <1> DEFINE m == Len(p)
             n == Len(q)
             s == p \o q
  <1>1. m \in Nat /\ n \in Nat /\ DOMAIN p = 1 .. m /\ DOMAIN q = 1 .. n /\ 1 \in 1 .. n
    BY EmptySeq
  <1>2. /\ s \in Seq(Row) /\ DOMAIN s = 1 .. m + n
        /\ \A k \in 1 .. m : s[k] = p[k]
        /\ \A k \in 1 .. n : s[m + k] = q[k]
    BY <1>1
  <1> HIDE DEF s, m, n
  <1>3. \A k \in 1 .. m + n : k \in 1 .. m \/ (k - m \in 1 .. n /\ m + (k - m) = k)
    BY <1>1
  <1>4. ASSUME NEW k \in 1 .. m + n, NEW l \in 1 .. m + n, k < l PROVE Earlier(s[k], s[l])
    <2>1. CASE l \in 1 .. m
      <3>1. k \in 1 .. m
        BY <1>1, <1>4, <2>1
      <3>. QED  BY <1>1, <1>2, <1>4, <2>1, <3>1 DEF InOrder
    <2>2. CASE k \in 1 .. m /\ l \notin 1 .. m
      <3>0. l - m \in 1 .. n /\ m + (l - m) = l
        BY <1>3, <2>2
      <3>1. l - m \in 1 .. n /\ s[l] = q[l - m] /\ s[k] = p[k] /\ Earlier(p[k], q[1])
        BY <1>1, <1>2, <2>2, <3>0
      <3>2. q[l - m] = q[1] \/ Earlier(q[1], q[l - m])
        <4>1. l - m = 1 \/ 1 < l - m
          BY <3>0
        <4>2. 1 < l - m => Earlier(q[1], q[l - m])
          BY <1>1, <3>0 DEF InOrder
        <4>. QED  BY <4>1, <4>2
      <3>3. p[k] \in Row /\ q[1] \in Row /\ q[l - m] \in Row
        BY <1>1, <2>2, <3>1
      <3>. QED  BY <3>1, <3>2, <3>3, EarlierFacts
    <2>3. CASE k \notin 1 .. m /\ l \notin 1 .. m
      <3>1. /\ l - m \in 1 .. n /\ s[l] = q[l - m] /\ k - m \in 1 .. n /\ s[k] = q[k - m]
            /\ k - m < l - m
        BY <1>1, <1>2, <1>3, <1>4, <2>3
      <3>. QED  BY <1>1, <3>1 DEF InOrder
    <2>4. k \in 1 .. m \/ l \notin 1 .. m
      BY <1>1, <1>4
    <2>. QED  BY <2>1, <2>2, <2>3, <2>4
  <1>5. Range(s) = Range(p) \cup Range(q)
    <2>1. ASSUME NEW k \in 1 .. m + n PROVE s[k] \in Range(p) \cup Range(q)
      BY <1>1, <1>2, <1>3 DEF Range
    <2>2. ASSUME NEW k \in 1 .. m PROVE p[k] \in Range(s)
      BY <1>1, <1>2 DEF Range
    <2>3. ASSUME NEW k \in 1 .. n PROVE q[k] \in Range(s)
      <3>1. m + k \in 1 .. m + n
        BY <1>1
      <3>. QED  BY <1>2, <3>1 DEF Range
    <2>4. Range(s) \subseteq Range(p) \cup Range(q)
      BY <1>2, <2>1 DEF Range
    <2>5. Range(p) \subseteq Range(s)
      BY <1>1, <2>2 DEF Range
    <2>6. Range(q) \subseteq Range(s)
      BY <1>1, <2>3 DEF Range
    <2>. QED  BY <2>4, <2>5, <2>6
  <1>. QED  BY <1>2, <1>4, <1>5 DEF s, InOrder

\* One more page, whatever was stored in the meantime (loadOlder).
LEMMA ReadingStep ==
    ASSUME NEW h, IsHistory(h), DOMAIN h = Ids, NEW n \in Nat, NEW limit \in Nat \ {0},
           NEW st, NEW pre, NEW first, NEW rest \in Seq(Row), NEW wanted \in SUBSET Stored(h, 0),
           first \in Seq(Row),
           Reading(h, n, st, pre, first, rest, wanted)
    PROVE  \E new : Reading(h, n + 1, LoadOlder(h, st, n + 1, limit), new, first, rest, wanted)
  <1> DEFINE next == LoadOlder(h, st, n + 1, limit)
             S == Stored(h, n + 1)
             page == Page(S, Head(pre \o rest), limit)
  <1>1. /\ pre \in Seq(Row) /\ InOrder(pre) /\ Range(pre) \subseteq Stored(h, n)
        /\ st = [items |-> pre \o rest, more |-> st.more] /\ st.more \in BOOLEAN
        /\ st.items = pre \o rest
    BY DEF Reading
  <1>2. S \in SUBSET Row /\ IsFiniteSet(S) /\ Stored(h, n) \subseteq S /\ Stored(h, 0) \subseteq S
    <2>1. n + 1 \in Nat /\ n \in 0 .. n + 1 /\ 0 \in 0 .. n + 1
      OBVIOUS
    <2>. QED  BY <2>1, StoredFact
  <1> HIDE DEF S
  <1>3. CASE ~st.more
    <2>1. next = st
      BY <1>3 DEF LoadOlder
    <2>2. Reading(h, n + 1, st, pre, first, rest, wanted)
      BY <1>1, <1>2, <1>3 DEF Reading, S
    <2>. QED  BY <2>1, <2>2
  <1>4. CASE st.more
    <2>1. Len(pre) \in Nat /\ Len(pre) >= n + 1 /\ DOMAIN pre = 1 .. Len(pre) /\ 1 \in 1 .. Len(pre)
      BY <1>1, <1>4 DEF Reading
    <2>2. pre # <<>> /\ pre \o rest # <<>> /\ Head(pre \o rest) = pre[1] /\ pre[1] \in Row
      <3>1. pre # <<>>
        BY <2>1
      <3>2. Len(pre \o rest) = Len(pre) + Len(rest) /\ (pre \o rest)[1] = pre[1]
        BY <1>1, <2>1
      <3>3. Len(pre \o rest) # 0
        BY <1>1, <2>1, <3>2
      <3>4. pre \o rest # <<>>
        BY <3>3
      <3>5. Head(pre \o rest) = (pre \o rest)[1]
        BY <3>4
      <3>. QED  BY <1>1, <2>1, <3>1, <3>2, <3>4, <3>5
    <2>3. /\ page \in Seq(Row) /\ InOrder(page) /\ Len(page) <= limit
          /\ \A r \in Range(page) : r \in S /\ Before(r, pre[1])
          /\ \A r \in S : Before(r, pre[1]) =>
                \/ r \in Range(page)
                \/ Len(page) = limit /\ \A i \in DOMAIN page : Earlier(r, page[i])
      BY <1>2, <2>2, PageFact
    <2>4. next = [items |-> page \o (pre \o rest), more |-> Len(page) = limit]
      BY <1>1, <1>4, <2>2 DEF LoadOlder, S
    <2> HIDE DEF page, next
    <2>5. \A r : Before(r, pre[1]) <=> Earlier(r, pre[1])
      BY DEF Before, Earlier
    <2>6. /\ Len(page) \in Nat /\ DOMAIN page = 1 .. Len(page)
          /\ \A i \in 1 .. Len(page) : page[i] \in Row /\ page[i] \in S /\ Earlier(page[i], pre[1])
      <3>1. \A i \in 1 .. Len(page) : page[i] \in Range(page)
        BY <2>3 DEF Range
      <3>. QED  BY <2>3, <2>5, <3>1
    <2> DEFINE new == page \o pre
    <2>7. /\ new \in Seq(Row) /\ InOrder(new) /\ Range(new) = Range(page) \cup Range(pre)
      BY <1>1, <2>2, <2>3, <2>6, PagePrepended
    <2>8. /\ Len(new) = Len(page) + Len(pre)
          /\ \A i \in 1 .. Len(page) : new[i] = page[i]
      BY <1>1, <2>3
    <2>9. page \o (pre \o rest) = new \o rest
      <3>1. page \in Seq(Row) /\ pre \in Seq(Row) /\ rest \in Seq(Row)
        BY <1>1, <2>3
      <3>2. (page \o pre) \o rest = page \o (pre \o rest)
        BY <3>1, ConcatAssociative
      <3>. QED  BY <3>2
    <2> HIDE DEF new
    <2>10. Range(new) \subseteq S
      BY <1>1, <1>2, <2>3, <2>7
    <2>11. next = [items |-> new \o rest, more |-> next.more] /\ next.more = (Len(page) = limit)
      BY <2>4, <2>9
    <2>12. ASSUME next.more PROVE Len(new) >= (n + 1) + 1
      <3>1. Len(page) >= 1
        <4>1. Len(page) = limit
          BY <2>11, <2>12
        <4>. QED  BY <4>1
      <3>. QED  BY <2>1, <2>6, <2>8, <3>1
    <2>13. ASSUME NEW r \in wanted PROVE r \in Range(new) \/ (next.more /\ Earlier(r, new[1]))
      <3>1. CASE r \in Range(pre)
        BY <2>7, <3>1
      <3>2. CASE Earlier(r, pre[1])
        <4>1. r \in S /\ Before(r, pre[1])
          BY <1>2, <2>5, <3>2
        <4>2. CASE r \in Range(page)
          BY <2>7, <4>2
        <4>3. CASE Len(page) = limit /\ \A i \in DOMAIN page : Earlier(r, page[i])
          <5>1. 1 \in 1 .. Len(page)
            BY <2>6, <4>3
          <5>. QED  BY <2>6, <2>8, <2>11, <4>3, <5>1
        <4>. QED  BY <2>3, <4>1, <4>2, <4>3
      <3>. QED  BY <3>1, <3>2 DEF Reading
    <2>15. first[1] \in Row /\ (pre[1] = first[1] \/ Earlier(pre[1], first[1]))
      <3>1. first # <<>> /\ (pre[1] = first[1] \/ Earlier(pre[1], first[1]))
        BY <1>4 DEF Reading
      <3>2. first[1] \in Row
        <4>1. first \in Seq(Row) /\ first # <<>>
          BY <3>1
        <4>2. Len(first) # 0 /\ Len(first) \in Nat
          BY <4>1, EmptySeq
        <4>. QED  BY <4>1, <4>2
      <3>. QED  BY <3>1, <3>2
    <2>14. ASSUME NEW i \in DOMAIN new
           PROVE  new[i] \in Range(first) \/ Earlier(new[i], first[1])
      <3>1. new[i] \in Range(page) \cup Range(pre)
        BY <2>7 DEF Range
      <3>2. CASE new[i] \in Range(pre)
        BY <3>2 DEF Reading, Range
      <3>3. CASE new[i] \in Range(page)
        <4>1. new[i] \in Row /\ Earlier(new[i], pre[1])
          BY <1>2, <2>3, <2>5, <3>3
        <4>. QED  BY <2>2, <2>15, <4>1, EarlierFacts
      <3>. QED  BY <3>1, <3>2, <3>3
    <2>16. ASSUME next.more
           PROVE  first # <<>> /\ (new[1] = first[1] \/ Earlier(new[1], first[1]))
      <3>1. 1 \in 1 .. Len(page)
        <4>1. Len(page) = limit
          BY <2>11, <2>16
        <4>. QED  BY <4>1
      <3>2. new[1] \in Row /\ Earlier(new[1], pre[1])
        BY <2>6, <2>8, <3>1
      <3>3. first # <<>>
        BY <1>4 DEF Reading
      <3>. QED  BY <2>2, <2>15, <3>2, <3>3, EarlierFacts
    <2>17. Reading(h, n + 1, next, new, first, rest, wanted)
      BY <2>7, <2>10, <2>11, <2>12, <2>13, <2>14, <2>16 DEF Reading, S
    <2>. QED  BY <2>17 DEF next
  <1>. QED  BY <1>1, <1>3, <1>4

\* Pages enough to read every row there can be.
EnoughType == Enough \in Nat /\ Cardinality(Ids) \in Nat /\ Enough = Cardinality(Ids) + 1

\* They are a number of pages, one more than there are ids.
LEMMA EnoughFact == EnoughType
  BY RowAssumption, FS_CardinalityType DEF Enough, EnoughType

\* The pages one after the other, as ReadBack has them.
After(f, h, items, more, limit) ==
    f = [n \in 0 .. Enough |-> IF n = 0 THEN [items |-> items, more |-> more]
                               ELSE LoadOlder(h, f[n - 1], n, limit)]

\* The pages can be read one after the other, by induction.
LEMMA AfterExists ==
    ASSUME NEW h, NEW items, NEW more, NEW limit
    PROVE  \E f : After(f, h, items, more, limit)
  <1> DEFINE start == [items |-> items, more |-> more]
             N == Enough
             Is(f, m) == f = [n \in 0 .. m |-> IF n = 0 THEN start ELSE LoadOlder(h, f[n - 1], n, limit)]
             G == {m \in 0 .. N : \E f : Is(f, m)}
  <1>1. N \in Nat
    BY EnoughFact DEF EnoughType
  <1> HIDE DEF N
  <1>2. 0 \in G
    <2> DEFINE f == [n \in 0 .. 0 |-> start]
    <2>1. Is(f, 0)
      OBVIOUS
    <2>2. 0 \in 0 .. N
      BY <1>1
    <2>. QED  BY <2>1, <2>2
  <1>3. ASSUME NEW m \in 0 .. N - 1, m \in G PROVE m + 1 \in G
    <2>1. PICK f : Is(f, m)
      BY <1>3
    <2>2. m \in Nat /\ m + 1 \in 0 .. N /\ m \in 0 .. m
      BY <1>1
    <2> DEFINE g == [n \in 0 .. m + 1 |-> IF n = m + 1 THEN LoadOlder(h, f[m], m + 1, limit) ELSE f[n]]
    <2>3. \A n \in 0 .. m : g[n] = f[n]
      BY <2>2
    <2>4. g[m + 1] = LoadOlder(h, f[m], m + 1, limit)
      BY <2>2
    <2>5. g = [n \in 0 .. m + 1 |-> g[n]]
      OBVIOUS
    <2> HIDE DEF g
    <2>6. ASSUME NEW n \in 0 .. m + 1
          PROVE  g[n] = IF n = 0 THEN start ELSE LoadOlder(h, g[n - 1], n, limit)
      <3>1. CASE n = m + 1
        BY <2>2, <2>3, <2>4, <3>1
      <3>2. CASE n # m + 1
        <4>1. n \in 0 .. m /\ (n # 0 => n - 1 \in 0 .. m)
          BY <2>2, <3>2
        <4>2. f[n] = IF n = 0 THEN start ELSE LoadOlder(h, f[n - 1], n, limit)
          BY <2>1, <4>1
        <4>. QED  BY <2>3, <4>1, <4>2
      <3>. QED  BY <3>1, <3>2
    <2>7. Is(g, m + 1)
      BY <2>5, <2>6
    <2> HIDE DEF Is
    <2>. QED  BY <2>2, <2>7
  <1>4. N \in G
    <2>1. \A n \in 0 .. N : n \in G
      <3> HIDE DEF G
      <3>. QED  BY <1>1, <1>2, <1>3, UpTo
    <2>2. N \in 0 .. N
      BY <1>1
    <2> HIDE DEF G
    <2>. QED  BY <2>1, <2>2
  <1>5. PICK f : Is(f, N)
    BY <1>4
  <1>6. After(f, h, items, more, limit)
    BY <1>5 DEF After, N
  <1>. QED  BY <1>6

\* The steps of reading back: one page after the other.
Steps(f, h, items, more, limit) ==
    /\ f[0] = [items |-> items, more |-> more]
    /\ \A n \in 1 .. Enough : f[n] = LoadOlder(h, f[n - 1], n, limit)
    /\ ReadBack(h, items, more, limit) = f[Enough].items

\* What ReadBack comes to are these steps.
LEMMA ReadBackSteps ==
    ASSUME NEW h, NEW items, NEW more, NEW limit
    PROVE  \E f : Steps(f, h, items, more, limit)
  <1> DEFINE start == [items |-> items, more |-> more]
             after == CHOOSE f : After(f, h, items, more, limit)
  <1>1. ReadBack(h, items, more, limit) = after[Enough].items
    BY DEF ReadBack, After
  <1>2. After(after, h, items, more, limit)
    BY AfterExists
  <1>3. after[0] = start /\ \A n \in 1 .. Enough : after[n] = LoadOlder(h, after[n - 1], n, limit)
    <2>1. 0 \in 0 .. Enough /\ \A n \in 1 .. Enough : n \in 0 .. Enough /\ n # 0
      BY EnoughFact DEF EnoughType
    <2>2. after = [n \in 0 .. Enough |-> IF n = 0 THEN start ELSE LoadOlder(h, after[n - 1], n, limit)]
      <3> HIDE DEF after
      <3>. QED  BY <1>2 DEF After
    <2> HIDE DEF after, start
    <2>. QED  BY <2>1, <2>2
  <1> HIDE DEF after
  <1>4. Steps(after, h, items, more, limit)
    BY <1>1, <1>3 DEF Steps
  <1>. QED  BY <1>4

\* Where reading back begins: rows in their order, before what is there besides, and of
\* the wanted rows only some before the first are missing.
Begun(h, items, first, rest, more, wanted) ==
    /\ items = first \o rest /\ rest \in Seq(Row)
    /\ first \in Seq(Row) /\ InOrder(first) /\ Range(first) \subseteq Stored(h, 0)
    /\ wanted \subseteq Stored(h, 0)
    /\ more \in BOOLEAN /\ (more => first # <<>>)
    /\ \A r \in wanted : r \in Range(first) \/ (more /\ Earlier(r, first[1]))

\* And where it ends: no wanted row is missing, and what was added comes before.
Ended(h, items, first, rest, wanted) ==
    \E pre \in Seq(Row) :
        /\ items = pre \o rest /\ InOrder(pre)
        /\ Range(pre) \subseteq Stored(h, Enough) /\ wanted \subseteq Range(pre)
        /\ \A i \in DOMAIN pre : pre[i] \in Range(first) \/ Earlier(pre[i], first[1])

\* What reading back comes to (scrolling up until there is no more).
LEMMA ReadBackFact ==
    ASSUME NEW h, IsHistory(h), DOMAIN h = Ids, NEW limit \in Nat \ {0},
           NEW items, NEW first, NEW rest, NEW more, NEW wanted,
           Begun(h, items, first, rest, more, wanted)
    PROVE  Ended(h, ReadBack(h, items, more, limit), first, rest, wanted)
  <1> DEFINE N == Enough
  <1>0. PICK f : Steps(f, h, items, more, limit)
    BY ReadBackSteps
  <1>1. /\ f[0] = [items |-> items, more |-> more]
        /\ \A n \in 1 .. N : f[n] = LoadOlder(h, f[n - 1], n, limit)
        /\ ReadBack(h, items, more, limit) = f[N].items
    BY <1>0 DEF Steps
  <1>11. /\ items = first \o rest /\ rest \in Seq(Row)
         /\ first \in Seq(Row) /\ InOrder(first) /\ Range(first) \subseteq Stored(h, 0)
         /\ wanted \in SUBSET Stored(h, 0)
         /\ more \in BOOLEAN /\ (more => first # <<>>)
         /\ \A r \in wanted : r \in Range(first) \/ (more /\ Earlier(r, first[1]))
    BY DEF Begun
  <1>2. N \in Nat /\ Cardinality(Ids) \in Nat /\ N = Cardinality(Ids) + 1
    BY EnoughFact DEF EnoughType
  <1> DEFINE G == {n \in 0 .. N : \E pre : Reading(h, n, f[n], pre, first, rest, wanted)}
  <1>3. 0 \in G
    <2>1. f[0] = [items |-> first \o rest, more |-> f[0].more] /\ f[0].more = more
      BY <1>1, <1>11
    <2>2. \A i \in DOMAIN first : first[i] \in Range(first)
      BY DEF Range
    <2>3. more => Len(first) >= 0 + 1
      <3>1. Len(first) \in Nat /\ (first # <<>> => Len(first) # 0)
        BY <1>11, EmptySeq
      <3>. QED  BY <1>11, <3>1
    <2>4. Reading(h, 0, f[0], first, first, rest, wanted)
      BY <1>11, <2>1, <2>2, <2>3 DEF Reading
    <2>5. 0 \in 0 .. N
      BY <1>2
    <2>. QED  BY <2>4, <2>5
  <1>4. ASSUME NEW n \in 0 .. N - 1, n \in G PROVE n + 1 \in G
    <2>1. n \in Nat /\ n + 1 \in 1 .. N /\ n + 1 \in 0 .. N /\ (n + 1) - 1 = n
      BY <1>2
    <2>2. f[n + 1] = LoadOlder(h, f[n], n + 1, limit)
      BY <1>1, <2>1
    <2>3. PICK pre : Reading(h, n, f[n], pre, first, rest, wanted)
      BY <1>4
    <2>4. \E new : Reading(h, n + 1, LoadOlder(h, f[n], n + 1, limit), new, first, rest, wanted)
      BY <1>11, <2>1, <2>3, ReadingStep
    <2>. QED  BY <2>1, <2>2, <2>4
  <1>5. N \in G
    <2>1. \A n \in 0 .. N : n \in G
      <3> HIDE DEF G, N
      <3>. QED  BY <1>2, <1>3, <1>4, UpTo
    <2>2. N \in 0 .. N
      BY <1>2
    <2> HIDE DEF G
    <2>. QED  BY <2>1, <2>2
  <1>6. PICK pre : Reading(h, N, f[N], pre, first, rest, wanted)
    BY <1>5
  <1> HIDE DEF N
  <1>7. pre \in Seq(Row) /\ InOrder(pre) /\ Range(pre) \subseteq Stored(h, N) /\ f[N].items = pre \o rest
    BY <1>6 DEF Reading
  <1>8. ~f[N].more
    <2>1. Len(pre) <= Cardinality(Ids)
      BY <1>2, <1>7, LengthFact
    <2>2. ASSUME f[N].more PROVE Len(pre) >= N + 1
      BY <1>6, <2>2 DEF Reading
    <2>3. Len(pre) \in Nat
      BY <1>7
    <2>. QED  BY <1>2, <2>1, <2>2, <2>3
  <1>9. wanted \subseteq Range(pre)
    BY <1>6, <1>8 DEF Reading
  <1>10. \A i \in DOMAIN pre : pre[i] \in Range(first) \/ Earlier(pre[i], first[1])
    BY <1>6 DEF Reading
  <1>. QED  BY <1>1, <1>7, <1>9, <1>10 DEF N, Ended

\* Nothing is shown that was not there or is not stored.
LEMMA ReadBackRows ==
    ASSUME NEW h, IsHistory(h), DOMAIN h = Ids, NEW limit \in Nat \ {0}, NEW more,
           NEW items \in Seq(Row), Range(items) \subseteq Stored(h, 0)
    PROVE  /\ ReadBack(h, items, more, limit) \in Seq(Row)
           /\ Range(ReadBack(h, items, more, limit)) \subseteq Stored(h, Enough)
  <1> DEFINE N == Enough
             Fine(n, st) == st.items \in Seq(Row) /\ Range(st.items) \subseteq Stored(h, n)
  <1>0. PICK f : Steps(f, h, items, more, limit)
    BY ReadBackSteps
  <1>1. /\ f[0] = [items |-> items, more |-> more]
        /\ \A n \in 1 .. N : f[n] = LoadOlder(h, f[n - 1], n, limit)
        /\ ReadBack(h, items, more, limit) = f[N].items
    BY <1>0 DEF Steps
  <1>2. N \in Nat
    BY EnoughFact DEF EnoughType
  <1> HIDE DEF N
  <1> DEFINE G == {n \in 0 .. N : Fine(n, f[n])}
  <1>3. 0 \in G
    BY <1>1, <1>2
  <1>4. ASSUME NEW n \in 0 .. N - 1, n \in G PROVE n + 1 \in G
    <2>1. n \in Nat /\ n + 1 \in 1 .. N /\ n + 1 \in 0 .. N /\ (n + 1) - 1 = n
      BY <1>2
    <2> DEFINE was == f[n]
               S == Stored(h, n + 1)
               page == Page(S, Head(was.items), limit)
    <2>2. f[n + 1] = LoadOlder(h, was, n + 1, limit)
      BY <1>1, <2>1
    <2>3. was.items \in Seq(Row) /\ Range(was.items) \subseteq S /\ S \in SUBSET Row /\ IsFiniteSet(S)
      <3>1. n + 1 \in Nat /\ n \in 0 .. n + 1
        BY <2>1
      <3>. QED  BY <1>4, <3>1, StoredFact
    <2> HIDE DEF S, was
    <2>4. page \in Seq(Row) /\ Range(page) \subseteq S
      BY <2>3, PageFact
    <2>5. f[n + 1] = was \/ f[n + 1].items = page \o was.items
      <3>1. f[n + 1] = was \/ f[n + 1] = [items |-> page \o was.items, more |-> Len(page) = limit]
        BY <2>2 DEF LoadOlder, S
      <3> HIDE DEF page
      <3>. QED  BY <3>1
    <2> HIDE DEF page
    <2>6. page \o was.items \in Seq(Row) /\ Range(page \o was.items) \subseteq S
      <3> DEFINE p == page
                 q == was.items
                 s == p \o q
      <3>1. /\ p \in Seq(Row) /\ q \in Seq(Row)
            /\ \A i \in 1 .. Len(p) : p[i] \in S
            /\ \A i \in 1 .. Len(q) : q[i] \in S
        BY <2>3, <2>4 DEF Range
      <3> HIDE DEF p, q
      <3>2. /\ s \in Seq(Row) /\ DOMAIN s = 1 .. Len(p) + Len(q)
            /\ Len(p) \in Nat /\ Len(q) \in Nat
            /\ \A i \in 1 .. Len(p) : s[i] = p[i]
            /\ \A i \in 1 .. Len(q) : s[Len(p) + i] = q[i]
        BY <3>1
      <3> HIDE DEF s
      <3>3. ASSUME NEW i \in DOMAIN s PROVE s[i] \in S
        <4>1. CASE i \in 1 .. Len(p)
          BY <3>1, <3>2, <4>1
        <4>2. CASE i \notin 1 .. Len(p)
          <5>1. i - Len(p) \in 1 .. Len(q) /\ Len(p) + (i - Len(p)) = i
            BY <3>2, <4>2
          <5>. QED  BY <3>1, <3>2, <5>1
        <4>. QED  BY <4>1, <4>2
      <3>4. s \in Seq(Row) /\ Range(s) \subseteq S
        BY <3>2, <3>3 DEF Range
      <3>. QED  BY <3>4 DEF s, p, q
    <2>7. Fine(n + 1, f[n + 1])
      BY <2>3, <2>5, <2>6 DEF S
    <2>. QED  BY <2>1, <2>7
  <1>5. N \in G
    <2>1. \A n \in 0 .. N : n \in G
      <3> HIDE DEF G
      <3>. QED  BY <1>2, <1>3, <1>4, UpTo
    <2>2. N \in 0 .. N
      BY <1>2
    <2> HIDE DEF G
    <2>. QED  BY <2>1, <2>2
  <1>. QED  BY <1>1, <1>5 DEF N

-----------------------------------------------------------------------------
(* Scrolling back, from the newest page and from a search hit. *)

\* Every row comes before the cursor that stands for none.
LEMMA NewestFact == \A r \in Row : Before(r, Newest)
  <1>1. ASSUME NEW r \in Row PROVE Before(r, Newest)
    <2>1. r.ts \in Nat /\ r.ts <= Cardinality(Times) /\ Newest.ts = Cardinality(Times) + 1
      BY RowFact DEF Newest
    <2>2. Cardinality(Times) \in Nat
      BY RowAssumption, FS_CardinalityType
    <2>. QED  BY <2>1, <2>2 DEF Before
  <1>. QED  BY <1>1

\* Scrolling back from the newest page shows every row stored when it began.
LEMMA PagesFact == PagesRight
  <1> SUFFICES ASSUME NEW h \in Histories(Reads), NEW limit \in Limits
               PROVE  LET newest == Page(Stored(h, 0), Newest, limit)
                          items  == ReadBack(h, newest, Len(newest) = limit, limit)
                      IN  InOrder(items) /\ Stored(h, 0) \subseteq Range(items)
    BY DEF PagesRight
  <1> DEFINE S == Stored(h, 0)
             newest == Page(S, Newest, limit)
             more == (Len(newest) = limit)
             items == ReadBack(h, newest, more, limit)
  <1>1. IsHistory(h) /\ DOMAIN h = Ids /\ limit \in Nat \ {0}
    BY SizeAssumption, HistoryFact
  <1>2. S \in SUBSET Row /\ IsFiniteSet(S)
    BY <1>1, StoredFact
  <1>3. /\ newest \in Seq(Row) /\ InOrder(newest) /\ Range(newest) \subseteq S
        /\ \A r \in S : \/ r \in Range(newest)
                        \/ more /\ \A i \in DOMAIN newest : Earlier(r, newest[i])
    <2> HIDE DEF S
    <2>. QED  BY <1>1, <1>2, PageFact, NewestFact
  <1> HIDE DEF newest
  <1>4. more => 1 \in DOMAIN newest /\ newest # <<>>
    BY <1>1, <1>3
  <1>5. Begun(h, newest, newest, <<>>, more, S)
    <2>1. newest = newest \o <<>> /\ <<>> \in Seq(Row)
      BY <1>3
    <2>. QED  BY <1>3, <1>4, <2>1 DEF Begun
  <1> HIDE DEF more
  <1>6. Ended(h, items, newest, <<>>, S)
    <2> HIDE DEF S
    <2>. QED  BY <1>1, <1>5, ReadBackFact
  <1> HIDE DEF items
  <1>7. PICK pre \in Seq(Row) : items = pre \o <<>> /\ InOrder(pre) /\ S \subseteq Range(pre)
    BY <1>6 DEF Ended
  <1>8. items = pre
    BY <1>7
  <1>. QED  BY <1>7, <1>8 DEF newest, more, items

\* Rows that are all stored at once stay the rows of the conversation.
LEMMA StoredAtOnce ==
    ASSUME NEW h \in Histories(0)
    PROVE  Stored(h, Enough) = Stored(h, 0)
  <1>1. DOMAIN h = Ids /\ \A i \in Ids : h[i].at \in 0 .. 0 \cup {Enough + 1}
    BY HistoryFact
  <1>2. Enough \in Nat
    BY EnoughFact DEF EnoughType
  <1>3. ASSUME NEW i \in Ids PROVE h[i].at <= Enough <=> h[i].at <= 0
    <2>1. h[i].at = 0 \/ h[i].at = Enough + 1
      BY <1>1
    <2>. QED  BY <1>2, <2>1
  <1>. QED  BY <1>1, <1>3 DEF Stored

\* A conversation is listed with the row that its newest page ends with
\* (conversation_summaries).
LEMMA SummaryFact ==
    ASSUME NEW S \in SUBSET Row, IsFiniteSet(S), S # {}
    PROVE  <<Summary(S)>> = Page(S, Newest, 1)
  <1> DEFINE page == Page(S, Newest, 1)
  <1>1. PICK x \in S : \A y \in S : y = x \/ Earlier(y, x)
    BY LastOne
  <1>2. Summary(S) = x
    <2>1. ASSUME NEW z \in S, \A y \in S : y = z \/ Earlier(y, z) PROVE z = x
      <3>1. z \in Row /\ x \in Row /\ (z = x \/ Earlier(z, x)) /\ (x = z \/ Earlier(x, z))
        BY <1>1, <2>1
      <3>. QED  BY <3>1, EarlierFacts
    <2>. QED  BY <1>1, <2>1 DEF Summary
  <1>3. /\ page \in Seq(Row) /\ Len(page) <= 1
        /\ \A r \in Range(page) : r \in S
        /\ \A r \in S : \/ r \in Range(page)
                        \/ Len(page) = 1 /\ \A i \in DOMAIN page : Earlier(r, page[i])
    <2> DEFINE k == 1
    <2>1. \A r \in S : Before(r, Newest)
      BY NewestFact
    <2>2. k \in Nat \ {0}
      OBVIOUS
    <2> HIDE DEF k
    <2>3. /\ Page(S, Newest, k) \in Seq(Row) /\ Len(Page(S, Newest, k)) <= k
          /\ \A r \in Range(Page(S, Newest, k)) : r \in S
          /\ \A r \in S : Before(r, Newest) =>
                \/ r \in Range(Page(S, Newest, k))
                \/ /\ Len(Page(S, Newest, k)) = k
                   /\ \A i \in DOMAIN Page(S, Newest, k) : Earlier(r, Page(S, Newest, k)[i])
      BY <2>2, PageFact
    <2>. QED  BY <2>1, <2>3 DEF k
  <1> HIDE DEF page
  <1>4. Len(page) \in Nat /\ DOMAIN page = 1 .. Len(page)
    BY <1>3
  <1>5. Len(page) = 1 /\ page[1] \in S
    <2>1. Len(page) # 0
      BY <1>1, <1>3, <1>4 DEF Range
    <2>2. 1 \in DOMAIN page /\ Len(page) = 1
      BY <1>3, <1>4, <2>1
    <2>. QED  BY <1>3, <2>2 DEF Range
  <1>6. page[1] = x
    <2>1. CASE x \in Range(page)
      BY <1>4, <1>5, <2>1 DEF Range
    <2>2. CASE Earlier(x, page[1])
      <3>1. page[1] \in Row /\ x \in Row /\ (page[1] = x \/ Earlier(page[1], x))
        BY <1>1, <1>5
      <3>. QED  BY <2>2, <3>1, EarlierFacts
    <2>. QED  BY <1>1, <1>3, <1>4, <1>5, <2>1, <2>2
  <1>7. page = <<x>>
    BY <1>3, <1>4, <1>5, <1>6
  <1>. QED  BY <1>2, <1>7 DEF page

\* The window around a search hit: a page of what is older, and after it some rows that
\* are not (history_around).
LEMMA WindowFact ==
    ASSUME NEW S \in SUBSET Row, IsFiniteSet(S), NEW hit \in S, NEW half \in Nat \ {0},
           NEW window \in Around(S, hit.ts, half)
    PROVE  \E after \in Seq(Row) :
              /\ window = Page(S, [ts |-> hit.ts, id |-> 0], half) \o after
              /\ after # <<>>
              /\ \A i \in DOMAIN after : after[i] \in S /\ after[i].ts >= hit.ts
  <1> DEFINE later == {r \in S : r.ts >= hit.ts}
             pre == Page(S, [ts |-> hit.ts, id |-> 0], half)
             size == IF Cardinality(later) > half THEN half + 1 ELSE Cardinality(later)
  <1>1. PICK T \in kSubset(size, later) : \E after \in SetToSeqs(T) : window = pre \o after
    BY DEF Around
  <1>0. PICK after \in SetToSeqs(T) : window = pre \o after
    BY <1>1
  <1>2. T \in SUBSET later /\ Cardinality(T) = size
    <2> HIDE DEF later, size
    <2>. QED  BY <1>1 DEF kSubset
  <1>3. after \in [1 .. Cardinality(T) -> T]
    BY <1>0 DEF SetToSeqs
  <1>4. Cardinality(later) \in Nat /\ Cardinality(later) # 0
    <2>1. later \in SUBSET S /\ hit \in later
      <3>1. hit.ts \in Nat
        BY RowFact
      <3>. QED  BY <3>1
    <2> HIDE DEF later
    <2>2. IsFiniteSet(later) /\ later # {}
      BY <2>1, FS_Subset
    <2>. QED  BY <2>2, FS_EmptySet, FS_CardinalityType
  <1>5. size \in Nat /\ size >= 1
    <2> HIDE DEF later
    <2>. QED  BY <1>4
  <1> HIDE DEF size, pre
  <1>6. after \in Seq(Row) /\ after # <<>> /\ DOMAIN after = 1 .. size
    BY <1>2, <1>3, <1>5
  <1>7. \A i \in DOMAIN after : after[i] \in S /\ after[i].ts >= hit.ts
    BY <1>2, <1>3, <1>6
  <1>. QED  BY <1>0, <1>6, <1>7 DEF pre

\* Paging back from a search hit shows what is older than it.
LEMMA AroundFact ==
    ASSUME NEW h \in Histories(0), NEW half \in Nat \ {0}, NEW limit \in Nat \ {0},
           NEW hit \in Stored(h, 0), NEW window \in Around(Stored(h, 0), hit.ts, half)
    PROVE  LET items == ReadBack(h, window, TRUE, limit)
               older == {i \in DOMAIN items : items[i].ts < hit.ts}
           IN  /\ \A i, j \in older : i < j => Earlier(items[i], items[j])
               /\ {items[i] : i \in older} = {r \in Stored(h, 0) : r.ts < hit.ts}
  <1> DEFINE S == Stored(h, 0)
             Old == {r \in S : r.ts < hit.ts}
             pre == Page(S, [ts |-> hit.ts, id |-> 0], half)
             items == ReadBack(h, window, TRUE, limit)
             older == {i \in DOMAIN items : items[i].ts < hit.ts}
  <1>1. IsHistory(h) /\ DOMAIN h = Ids /\ Stored(h, Enough) = S
    BY HistoryFact, StoredAtOnce
  <1>2. S \in SUBSET Row /\ IsFiniteSet(S)
    BY <1>1, StoredFact
  <1> HIDE DEF S
  <1>3. PICK after \in Seq(Row) :
            /\ window = pre \o after /\ after # <<>>
            /\ \A i \in DOMAIN after : after[i] \in S /\ after[i].ts >= hit.ts
    BY <1>2, WindowFact DEF S
  <1>4. \A r \in S : r.id \in Nat /\ r.ts \in Nat /\ (Before(r, [ts |-> hit.ts, id |-> 0]) <=> r.ts < hit.ts)
    <2>1. ASSUME NEW r \in S PROVE r.id \in Nat /\ r.ts \in Nat /\ ~(r.id < 0)
      BY <1>2, RowFact
    <2>. QED  BY <2>1 DEF Before
  <1>5. /\ pre \in Seq(Row) /\ InOrder(pre)
        /\ \A r \in Range(pre) : r \in S /\ r.ts < hit.ts
        /\ \A r \in Old : \/ r \in Range(pre)
                          \/ Len(pre) = half /\ \A i \in DOMAIN pre : Earlier(r, pre[i])
    <2> DEFINE cursor == [ts |-> hit.ts, id |-> 0]
    <2>1. \A r \in S : Before(r, cursor) <=> r.ts < hit.ts
      BY <1>4
    <2> HIDE DEF cursor
    <2>2. /\ Page(S, cursor, half) \in Seq(Row) /\ InOrder(Page(S, cursor, half))
          /\ \A r \in Range(Page(S, cursor, half)) : r \in S /\ Before(r, cursor)
          /\ \A r \in S : Before(r, cursor) =>
                \/ r \in Range(Page(S, cursor, half))
                \/ /\ Len(Page(S, cursor, half)) = half
                   /\ \A i \in DOMAIN Page(S, cursor, half) : Earlier(r, Page(S, cursor, half)[i])
      BY <1>2, PageFact
    <2>. QED  BY <2>1, <2>2 DEF cursor
  <1> HIDE DEF pre, items
  <1>6. CASE Old = {}
    <2>1. window \in Seq(Row) /\ Range(window) \subseteq S
      <3>1. /\ Len(pre) \in Nat /\ Len(after) \in Nat
            /\ \A i \in 1 .. Len(pre) : pre[i] \in S
            /\ \A i \in 1 .. Len(after) : after[i] \in S
        BY <1>3, <1>5 DEF Range
      <3>2. /\ window \in Seq(Row) /\ DOMAIN window = 1 .. Len(pre) + Len(after)
            /\ \A i \in 1 .. Len(pre) : window[i] = pre[i]
            /\ \A i \in 1 .. Len(after) : window[Len(pre) + i] = after[i]
        BY <1>3, <1>5
      <3>3. ASSUME NEW i \in DOMAIN window PROVE window[i] \in S
        <4>1. CASE i \in 1 .. Len(pre)
          BY <3>1, <3>2, <4>1
        <4>2. CASE i \notin 1 .. Len(pre)
          <5>1. i - Len(pre) \in 1 .. Len(after) /\ Len(pre) + (i - Len(pre)) = i
            BY <3>1, <3>2, <4>2
          <5>. QED  BY <3>1, <3>2, <5>1
        <4>. QED  BY <4>1, <4>2
      <3>. QED  BY <3>2, <3>3 DEF Range
    <2>2. items \in Seq(Row) /\ Range(items) \subseteq Stored(h, Enough)
      BY <1>1, <2>1, ReadBackRows DEF S, items
    <2>3. older = {}
      BY <1>1, <1>6, <2>2 DEF Range
    <2>. QED  BY <1>6, <2>3 DEF items, S
  <1>7. CASE Old # {}
    <2>1. pre # <<>> /\ 1 \in DOMAIN pre
      <3>1. PICK r \in Old : TRUE
        BY <1>7
      <3>2. Len(pre) \in Nat /\ DOMAIN pre = 1 .. Len(pre)
        BY <1>5
      <3>3. Len(pre) # 0
        <4>1. CASE r \in Range(pre)
          <5>1. PICK i \in DOMAIN pre : r = pre[i]
            BY <4>1 DEF Range
          <5>. QED  BY <3>2, <5>1
        <4>2. CASE Len(pre) = half
          BY <4>2
        <4>. QED  BY <1>5, <3>1, <4>1, <4>2
      <3>. QED  BY <3>2, <3>3
    <2>2. Begun(h, window, pre, after, TRUE, Old)
      <3>1. \A r \in Old : r \in Range(pre) \/ Earlier(r, pre[1])
        BY <1>5, <2>1
      <3>2. Range(pre) \subseteq S
        BY <1>5
      <3>. QED  BY <1>3, <1>5, <2>1, <3>1, <3>2 DEF Begun, S
    <2>3. Ended(h, items, pre, after, Old)
      BY <1>1, <2>2, ReadBackFact DEF items
    <2>4. PICK p \in Seq(Row) :
              /\ items = p \o after /\ InOrder(p)
              /\ Range(p) \subseteq S /\ Old \subseteq Range(p)
              /\ \A i \in DOMAIN p : p[i] \in Range(pre) \/ Earlier(p[i], pre[1])
      BY <1>1, <2>3 DEF Ended
    <2>5. /\ Len(p) \in Nat /\ Len(after) \in Nat /\ DOMAIN p = 1 .. Len(p)
          /\ DOMAIN items = 1 .. Len(p) + Len(after)
          /\ \A i \in 1 .. Len(p) : items[i] = p[i]
          /\ \A i \in 1 .. Len(after) : items[Len(p) + i] = after[i]
      BY <1>3, <2>4
    <2>6. pre[1] \in S /\ pre[1].ts < hit.ts
      BY <1>5, <2>1 DEF Range
    <2>7. ASSUME NEW i \in 1 .. Len(p) PROVE p[i] \in S /\ p[i].ts < hit.ts
      <3>1. p[i] \in S
        BY <2>4, <2>5 DEF Range
      <3>2. Earlier(p[i], pre[1]) => p[i].ts < hit.ts
        <4>1. p[i].ts \in Nat /\ pre[1].ts \in Nat /\ hit.ts \in Nat
          BY <1>4, <2>6, <3>1 DEF S
        <4>. QED  BY <2>6, <4>1 DEF Earlier
      <3>. QED  BY <1>5, <2>4, <2>5, <3>1, <3>2
    <2>8. ASSUME NEW i \in DOMAIN items, i \notin 1 .. Len(p) PROVE ~(items[i].ts < hit.ts)
      <3>1. i - Len(p) \in 1 .. Len(after) /\ Len(p) + (i - Len(p)) = i
        BY <2>5, <2>8
      <3>2. items[i] \in S /\ items[i].ts >= hit.ts
        <4> DEFINE k == i - Len(p)
        <4>1. k \in 1 .. Len(after) /\ items[Len(p) + k] = after[k] /\ Len(p) + k = i
          BY <2>5, <3>1
        <4>2. DOMAIN after = 1 .. Len(after)
          BY <1>3
        <4> HIDE DEF k
        <4>3. after[k] \in S /\ after[k].ts >= hit.ts
          BY <1>3, <4>1, <4>2
        <4>. QED  BY <4>1, <4>3
      <3>3. items[i].ts \in Nat /\ hit.ts \in Nat
        BY <1>4, <3>2 DEF S
      <3>. QED  BY <3>2, <3>3
    <2>9. older = 1 .. Len(p)
      BY <2>5, <2>7, <2>8
    <2>10. \A i, j \in older : i < j => Earlier(items[i], items[j])
      BY <2>4, <2>5, <2>9 DEF InOrder
    <2>11. {items[i] : i \in older} = Old
      <3>1. {items[i] : i \in older} \subseteq Old
        BY <2>5, <2>7, <2>9
      <3>2. ASSUME NEW r \in Old PROVE \E i \in older : r = items[i]
        BY <2>4, <2>5, <2>9 DEF Range
      <3>. QED  BY <3>1, <3>2
    <2>. QED  BY <2>10, <2>11 DEF items, S
  <1>. QED  BY <1>6, <1>7

\* A search hit and the list of conversations, whatever is stored (history_around,
\* conversation_summaries).
LEMMA SearchFact == SearchRight
  <1>1. ASSUME NEW h \in Histories(0), Stored(h, 0) # {}
        PROVE  <<Summary(Stored(h, 0))>> = Page(Stored(h, 0), Newest, 1)
    BY <1>1, HistoryFact, StoredFact, SummaryFact
  <1>2. \A half \in Limits : half \in Nat \ {0}
    BY SizeAssumption
  <1>. QED  BY <1>1, <1>2, AroundFact DEF SearchRight

\* Scrolling back shows every row once and in order, from the newest page and from a search
\* hit, for any number of rows and times and pages of any size (history, history_around).
THEOREM PagesCorrect == Spec => []PagesComplete
  <1>1. PagesComplete
    BY PagesFact, SearchFact DEF PagesComplete
  <1>. QED  BY <1>1, PTL
=============================================================================
