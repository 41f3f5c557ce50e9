-------------------------- MODULE NetPolicy_proofs --------------------------
(***************************************************************************)
(* Machine-checked proofs about NetPolicy, for any interfaces, lists and    *)
(* exclusions and any number of publications.  The first part is about the  *)
(* two threads; what a snapshot says plays no role there: Targets and       *)
(* Desired stay unexpanded.  The second part is about what a snapshot says: *)
(* the interval arithmetic of NetScope is shown to be what its set          *)
(* semantics promises, for addresses of any width, and the plans follow.    *)
(* Its folds are reasoned about by induction on the length of their         *)
(* sequence, which UpTo gives in the form tlapm can use.                    *)
(***************************************************************************)
EXTENDS NetPolicy, TLAPS, WellFoundedInduction, FiniteSetTheorems, SequenceTheorems

\* The two threads are records of four fields, whatever the fields hold.
ThreadShape(t) ==
    /\ t = [pc |-> t.pc, snap |-> t.snap, changed |-> t.changed, desired |-> t.desired]
    /\ t.pc \in {"idle", "bcast", "read", "submit"} /\ t.changed \in BOOLEAN

Shape ==
    /\ ThreadShape(settings) /\ ThreadShape(roster)
    /\ snap.generation \in Nat \ {0}
    /\ bcast.applied \in Nat /\ bcast.applied <= snap.generation
    /\ bcast = [targets |-> bcast.targets, applied |-> bcast.applied]
    /\ excused \in BOOLEAN

\* A snapshot that is still to be handed over is not of the future, and the
\* published one is the only one of its generation.
InHand(t) ==
    t.pc = "bcast" => /\ t.snap.generation \in Nat /\ t.snap.generation <= snap.generation
                      /\ t.snap.generation = snap.generation => t.snap = snap

\* The published snapshot has been applied, or a thread is about to hand it over.
Delivering(t) == t.pc = "bcast" /\ t.snap.generation = snap.generation

BcastInv ==
    /\ Shape
    /\ InHand(settings) /\ InHand(roster)
    /\ bcast.applied = snap.generation => bcast.targets = Targets(snap)
    /\ bcast.applied < snap.generation => Delivering(settings) \/ Delivering(roster)

\* While nothing excuses mDNS, one thread at most is about to tell it, and
\* what it will tell is right.
MdnsInv ==
    /\ settings.pc = "idle" => ~settings.changed
    /\ settings.pc \in {"read", "submit"} => settings.changed
    /\ ~excused =>
          /\ roster.pc # "idle" => ~settings.changed /\ roster.snap = snap
          /\ roster.pc = "submit" => roster.desired = Desired(snap)
          /\ settings.pc = "submit" => settings.desired = Desired(snap)
          /\ ~settings.changed /\ roster.pc = "idle" => disabled = Desired(snap)

-----------------------------------------------------------------------------

\* Publishing: either nothing is news, or the snapshot is the next one.
LEMMA Publication ==
    ASSUME snap.generation \in Nat \ {0}, NEW p, Publish(p)
    PROVE  \/ News(p) = NoSnap /\ snap' = snap
           \/ News(p) # NoSnap /\ snap' = News(p) /\ snap'.generation = snap.generation + 1
<1>1. CASE IsNews(Looked(os, p))
  <2>1. Looked(os, p).generation = snap.generation + 1
    BY DEF Looked
  <2>2. Looked(os, p) # NoSnap
    BY <2>1 DEF NoSnap
  <2> QED
    BY <1>1, <2>1, <2>2 DEF Publish, News
<1>2. CASE ~IsNews(Looked(os, p))
  BY <1>2 DEF Publish, News
<1> QED
  BY <1>1, <1>2

\* apply_if_newer leaves the targets of the newer of two generations.
LEMMA Applied ==
    ASSUME Shape, NEW s, s.generation \in Nat, ApplyIfNewer(s)
    PROVE  \/ s.generation > bcast.applied /\ bcast' = [targets |-> Targets(s), applied |-> s.generation]
           \/ s.generation <= bcast.applied /\ bcast' = bcast
BY DEF ApplyIfNewer, Shape

LEMMA IdleShape == ThreadShape(Idle) /\ Idle.pc = "idle" /\ ~Idle.changed
BY DEF ThreadShape, Idle

LEMMA BcastInit == Init => BcastInv
<1> SUFFICES ASSUME Init PROVE BcastInv
  OBVIOUS
<1>1. snap.generation = 1
  BY DEF Init
<1>2. /\ settings = Idle /\ roster = Idle /\ excused = FALSE
      /\ bcast = [targets |-> Targets(snap), applied |-> 1]
  BY DEF Init
<1>3. bcast.applied = 1 /\ bcast.targets = Targets(snap)
  BY <1>2
<1>4. excused \in BOOLEAN /\ ThreadShape(settings) /\ ThreadShape(roster)
  BY <1>2, IdleShape
<1>5. Shape
  BY <1>1, <1>2, <1>3, <1>4 DEF Shape
<1> QED
  BY <1>1, <1>2, <1>3, <1>5, IdleShape DEF BcastInv, InHand

LEMMA BcastStep == BcastInv /\ [Next]_vars => BcastInv'
<1> SUFFICES ASSUME BcastInv, [Next]_vars PROVE BcastInv'
  OBVIOUS
<1> USE DEF BcastInv
<1>1. ASSUME NEW excluded \in SUBSET Excludable, NEW lines \in NewLines, SetPolicy(excluded, lines)
      PROVE  BcastInv'
  <2> DEFINE new == [excluded |-> excluded, scope |-> lines]
  <2>1. /\ settings' = [pc |-> "bcast", snap |-> News(new), changed |-> ChangedPolicy(excluded, lines),
                        desired |-> {}]
        /\ roster' = roster /\ bcast' = bcast /\ settings.pc = "idle" /\ Publish(new)
        /\ excused' \in BOOLEAN
    BY <1>1 DEF SetPolicy, Idle, Shape, ThreadShape, ChangedPolicy
  <2>2. \/ News(new) = NoSnap /\ snap' = snap
        \/ News(new) # NoSnap /\ snap' = News(new) /\ snap'.generation = snap.generation + 1
    BY <2>1, Publication DEF Shape
  <2>3. ChangedPolicy(excluded, lines) \in BOOLEAN /\ NoSnap.generation = 0
    BY DEF ChangedPolicy, NoSnap
  <2> HIDE DEF new
  <2> QED
    BY <2>1, <2>2, <2>3 DEF Shape, ThreadShape, InHand, Delivering
<1>2. CASE SettingsBcast
  <2>1. PICK pc \in {"idle", "read"} :
           settings'.pc = pc /\ ThreadShape(settings') /\ settings.pc = "bcast"
    BY <1>2, IdleShape DEF SettingsBcast, Shape, ThreadShape
  <2>2. roster' = roster /\ snap' = snap /\ excused' = excused
    BY <1>2 DEF SettingsBcast
  <2>3. CASE settings.snap = NoSnap
    BY <1>2, <2>1, <2>2, <2>3 DEF SettingsBcast, Shape, InHand, Delivering, NoSnap
  <2>4. CASE settings.snap # NoSnap
    <3>1. ApplyIfNewer(settings.snap) /\ settings.snap.generation \in Nat
      BY <1>2, <2>1, <2>4 DEF SettingsBcast, InHand
    <3> QED
      BY <2>1, <2>2, <3>1, Applied DEF Shape, InHand, Delivering
  <2> QED
    BY <2>3, <2>4
<1>3. CASE SettingsRead \/ SettingsSubmit
  BY <1>3, IdleShape DEF SettingsRead, SettingsSubmit, Shape, ThreadShape, InHand, Delivering
<1>4. CASE Refresh
  <2>1. /\ roster' = [pc |-> "bcast", snap |-> News(policy), changed |-> FALSE, desired |-> {}]
        /\ settings' = settings /\ bcast' = bcast /\ roster.pc = "idle" /\ Publish(policy)
        /\ excused' \in BOOLEAN
    BY <1>4 DEF Refresh, Idle, Shape, ThreadShape
  <2>2. \/ News(policy) = NoSnap /\ snap' = snap
        \/ News(policy) # NoSnap /\ snap' = News(policy) /\ snap'.generation = snap.generation + 1
    BY <2>1, Publication DEF Shape
  <2>3. NoSnap.generation = 0
    BY DEF NoSnap
  <2> QED
    BY <2>1, <2>2, <2>3 DEF Shape, ThreadShape, InHand, Delivering
<1>5. CASE RosterBcast
  <2>1. roster'.pc = "read" /\ ThreadShape(roster') /\ roster.pc = "bcast"
    BY <1>5 DEF RosterBcast, Shape, ThreadShape
  <2>2. settings' = settings /\ snap' = snap /\ excused' = excused
    BY <1>5 DEF RosterBcast
  <2>3. ApplyIfNewer(roster.snap) /\ roster.snap.generation \in Nat
    BY <1>5, <2>1 DEF RosterBcast, InHand
  <2> QED
    BY <2>1, <2>2, <2>3, Applied DEF Shape, InHand, Delivering
<1>6. CASE RosterRead \/ RosterSubmit
  BY <1>6, IdleShape DEF RosterRead, RosterSubmit, Shape, ThreadShape, InHand, Delivering
<1>7. ASSUME NEW o \in OsStates, OsChange(o) PROVE BcastInv'
  BY <1>7 DEF OsChange, Shape, InHand, Delivering, Targets
<1>8. CASE UNCHANGED vars
  BY <1>8 DEF vars, Shape, InHand, Delivering, Targets
<1> QED
  BY <1>1, <1>2, <1>3, <1>4, <1>5, <1>6, <1>7, <1>8 DEF Next, SettingsStep, RosterStep

\* Once both threads have handed over their snapshots, IPMsg sends to the
\* targets of the published one, whoever came last (IpmsgBcastGuard).
THEOREM BcastCorrect == Spec => []BcastFollows
<1>1. BcastInv => BcastFollows
  BY DEF BcastInv, Shape, Delivering, BcastFollows
<1> QED
  BY BcastInit, BcastStep, <1>1, PTL DEF Spec

-----------------------------------------------------------------------------

LEMMA MdnsInit == Init => MdnsInv
BY IdleShape DEF Init, MdnsInv

LEMMA MdnsStep == Shape /\ MdnsInv /\ [Next]_vars => MdnsInv'
<1> SUFFICES ASSUME Shape, MdnsInv, [Next]_vars PROVE MdnsInv'
  OBVIOUS
<1> USE DEF MdnsInv
<1>1. ASSUME NEW excluded \in SUBSET Excludable, NEW lines \in NewLines, SetPolicy(excluded, lines)
      PROVE  MdnsInv'
  <2> DEFINE new == [excluded |-> excluded, scope |-> lines]
  <2>1. /\ settings' = [pc |-> "bcast", snap |-> News(new), changed |-> ChangedPolicy(excluded, lines),
                        desired |-> {}]
        /\ roster' = roster /\ settings.pc = "idle" /\ Publish(new)
        /\ policy' = new /\ disabled' = disabled
        /\ excused' = IF ChangedPolicy(excluded, lines) THEN roster.pc # "idle"
                      ELSE excused \/ News(new) # NoSnap
    BY <1>1 DEF SetPolicy, Idle
  <2>2. \/ News(new) = NoSnap /\ snap' = snap
        \/ News(new) # NoSnap /\ snap' = News(new)
    BY <2>1, Publication DEF Shape
  <2>3. ChangedPolicy(excluded, lines) \in BOOLEAN
    BY DEF ChangedPolicy
  <2>4. CASE ChangedPolicy(excluded, lines)
    BY <2>1, <2>4 DEF Shape, ThreadShape
  <2>5. CASE ~ChangedPolicy(excluded, lines)
    <3>1. policy'.excluded = policy.excluded
      BY <2>1, <2>5 DEF ChangedPolicy
    <3>2. snap' = snap => Desired(snap)' = Desired(snap)
      BY <3>1 DEF Desired
    <3> HIDE DEF new
    <3> QED
      BY <2>1, <2>2, <2>3, <2>5, <3>2 DEF Shape, ThreadShape
  <2> QED
    BY <2>4, <2>5
<1>2. CASE SettingsBcast
  <2>1. Desired(snap)' = Desired(snap)
    BY <1>2 DEF SettingsBcast, Desired
  <2> QED
    BY <1>2, <2>1, IdleShape DEF SettingsBcast, Shape, ThreadShape
<1>3. CASE SettingsRead
  <2>1. Desired(snap)' = Desired(snap)
    BY <1>3 DEF SettingsRead, Desired
  <2> QED
    BY <1>3, <2>1 DEF SettingsRead, Shape, ThreadShape
<1>4. CASE SettingsSubmit
  <2>1. Desired(snap)' = Desired(snap)
    BY <1>4 DEF SettingsSubmit, Desired
  <2> QED
    BY <1>4, <2>1, IdleShape DEF SettingsSubmit, SetDisabled, Shape, ThreadShape
<1>5. CASE Refresh
  <2>1. /\ roster' = [pc |-> "bcast", snap |-> News(policy), changed |-> FALSE, desired |-> {}]
        /\ settings' = settings /\ Publish(policy) /\ IsNews(Looked(os, policy))
        /\ excused' = settings.changed
    BY <1>5 DEF Refresh, Idle
  <2>2. snap' = News(policy)
    BY <2>1 DEF Publish, News
  <2> QED
    BY <2>1, <2>2 DEF Shape, ThreadShape
<1>6. CASE RosterBcast
  <2>1. Desired(snap)' = Desired(snap)
    BY <1>6 DEF RosterBcast, Desired
  <2> QED
    BY <1>6, <2>1 DEF RosterBcast, Shape, ThreadShape
<1>7. CASE RosterRead
  <2>1. Desired(snap)' = Desired(snap)
    BY <1>7 DEF RosterRead, Desired
  <2> QED
    BY <1>7, <2>1 DEF RosterRead, Shape, ThreadShape
<1>8. CASE RosterSubmit
  <2>1. Desired(snap)' = Desired(snap)
    BY <1>8 DEF RosterSubmit, Desired
  <2> QED
    BY <1>8, <2>1, IdleShape DEF RosterSubmit, SetDisabled, Shape, ThreadShape
<1>9. ASSUME NEW o \in OsStates, OsChange(o) PROVE MdnsInv'
  BY <1>9 DEF OsChange, Desired
<1>10. CASE UNCHANGED vars
  BY <1>10 DEF vars, Desired
<1> QED
  BY <1>1, <1>2, <1>3, <1>4, <1>5, <1>6, <1>7, <1>8, <1>9, <1>10 DEF Next, SettingsStep, RosterStep

\* mDNS leaves alone what it should, unless the last publication was one that
\* tells only IPMsg or the two threads met (core.rs:125-132, 142-154).
THEOREM MdnsCorrect == Spec => []MdnsFollowsAlone
<1>1. BcastInv => Shape
  BY DEF BcastInv
<1>2. MdnsInv => MdnsFollowsAlone
  BY DEF MdnsInv, MdnsFollowsAlone, BothIdle
<1> QED
  BY BcastInit, BcastStep, MdnsInit, MdnsStep, <1>1, <1>2, PTL DEF Spec

-----------------------------------------------------------------------------
(* Induction up to a number, and folds. *)

LEMMA Least ==
    ASSUME NEW T, T \subseteq Nat, T # {}
    PROVE  \E x \in T : \A y \in T : x <= y
<1> DEFINE R == OpToRel(<, Nat)
<1>1. \A x, y \in Nat : y < x => <<y, x>> \in R
  BY DEF OpToRel
<1>2. IsWellFoundedOn(R, Nat)
  BY NatLessThanWellFounded
<1> HIDE DEF R
<1>3. PICK x \in T : \A y \in T : ~ (<<y, x>> \in R)
  BY <1>2, WFMin
<1>4. \A y \in T : ~(y < x)
  BY <1>1, <1>3
<1> QED
  BY <1>4

\* Induction up to n.
LEMMA UpTo ==
    ASSUME NEW n \in Nat, NEW G, 0 \in G, \A k \in 0 .. n - 1 : k \in G => k + 1 \in G
    PROVE  \A k \in 0 .. n : k \in G
<1> SUFFICES ASSUME NEW k \in 0 .. n, k \notin G PROVE FALSE
  OBVIOUS
<1> DEFINE B == {i \in 0 .. n : i \notin G}
<1>1. PICK i \in B : \A j \in B : i <= j
  <2>1. B \subseteq Nat /\ B # {}
    OBVIOUS
  <2> HIDE DEF B
  <2> QED
    BY <2>1, Least
<1>2. i # 0 /\ i - 1 \in 0 .. n - 1 /\ i - 1 \notin B
  BY <1>1
<1> QED
  BY <1>1, <1>2

LEMMA MaxFact ==
    ASSUME NEW n \in Nat, NEW d, d \subseteq 1 .. n, d # {}
    PROVE  Max(d) \in d /\ \A i \in d : i <= Max(d)
<1> DEFINE T == {n - i : i \in d}
<1>1. T \subseteq Nat /\ (\A i \in d : n - i \in T) /\ (\A t \in T : \E i \in d : t = n - i)
  OBVIOUS
<1>2. T # {}
  BY <1>1
<1> HIDE DEF T
<1>3. PICK t \in T : \A u \in T : t <= u
  BY <1>1, <1>2, Least
<1>4. PICK x \in d : t = n - x
  BY <1>1
<1>5. \A y \in d : x >= y
  BY <1>1, <1>3, <1>4
<1>6. Max(d) \in d /\ \A y \in d : Max(d) >= y
  BY <1>4, <1>5 DEF Max
<1> QED
  BY <1>6

\* g folds a sequence of n elements, from what is left of its beginning.
Folds(g, n, base, step) ==
    \A d \in SUBSET (1 .. n) : g[d] = IF d = {} THEN base ELSE step[Max(d)][g[d \ {Max(d)}]]

LEMMA FoldExists ==
    ASSUME NEW n \in Nat, NEW T, NEW base \in T, NEW step \in [1 .. n -> [T -> T]]
    PROVE  \E g \in [SUBSET (1 .. n) -> T] : Folds(g, n, base, step)
<1> DEFINE Is(g, k) ==
      /\ g \in [SUBSET (1 .. k) -> T]
      /\ \A d \in SUBSET (1 .. k) :
            g[d] = IF d = {} THEN base ELSE step[Max(d)][g[d \ {Max(d)}]]
<1> DEFINE G == {k \in 0 .. n : \E g : Is(g, k)}
<1>1. 0 \in G
  <2> DEFINE g == [d \in SUBSET (1 .. 0) |-> base]
  <2>1. \A d \in SUBSET (1 .. 0) : d = {}
    OBVIOUS
  <2>2. Is(g, 0)
    BY <2>1
  <2>3. 0 \in 0 .. n
    OBVIOUS
  <2> QED
    BY <2>2, <2>3
<1>2. ASSUME NEW k \in 0 .. n - 1, k \in G PROVE k + 1 \in G
  <2>0. k \in Nat /\ k + 1 \in Nat /\ k + 1 \in 0 .. n /\ 1 .. k + 1 \subseteq 1 .. n
    OBVIOUS
  <2>1. PICK g : Is(g, k)
    BY <1>2
  <2> DEFINE h == [d \in SUBSET (1 .. k + 1) |->
                      IF d = {} THEN base ELSE step[Max(d)][g[d \ {Max(d)}]]]
  <2>2. ASSUME NEW d \in SUBSET (1 .. k + 1), d # {}
        PROVE  Max(d) \in 1 .. n /\ d \ {Max(d)} \in SUBSET (1 .. k)
    <3>1. Max(d) \in d /\ \A i \in d : i <= Max(d)
      BY <2>0, <2>2, MaxFact
    <3>2. Max(d) \in 1 .. k + 1
      BY <3>1
    <3>3. ASSUME NEW i \in d, i # Max(d) PROVE i \in 1 .. k
      BY <2>0, <3>1, <3>2, <3>3
    <3>4. d \ {Max(d)} \in SUBSET (1 .. k)
      BY <3>3
    <3> QED
      BY <2>0, <3>2, <3>4
  <2>3. h \in [SUBSET (1 .. k + 1) -> T]
    <3>1. ASSUME NEW d \in SUBSET (1 .. k + 1), d # {}
          PROVE  step[Max(d)][g[d \ {Max(d)}]] \in T
      BY <2>1, <2>2, <3>1
    <3> QED
      BY <3>1
  <2>4. \A d \in SUBSET (1 .. k) : h[d] = g[d]
    <3>1. SUBSET (1 .. k) \subseteq SUBSET (1 .. k + 1)
      BY <2>0
    <3>2. \A d \in SUBSET (1 .. k + 1) :
              h[d] = IF d = {} THEN base ELSE step[Max(d)][g[d \ {Max(d)}]]
      OBVIOUS
    <3> HIDE DEF h
    <3> QED
      BY <2>1, <3>1, <3>2
  <2>5. ASSUME NEW d \in SUBSET (1 .. k + 1), d # {}
        PROVE  h[d] = step[Max(d)][h[d \ {Max(d)}]]
    BY <2>2, <2>4, <2>5
  <2>6. h[{}] = base
    OBVIOUS
  <2> HIDE DEF h
  <2>7. Is(h, k + 1)
    BY <2>3, <2>5, <2>6
  <2>8. \E f : Is(f, k + 1)
    BY <2>7
  <2> HIDE DEF Is
  <2> QED
    BY <2>0, <2>8
<1>3. n \in G
  <2> HIDE DEF G
  <2>1. n \in 0 .. n
    OBVIOUS
  <2>2. \A k \in 0 .. n : k \in G
    BY <1>1, <1>2, UpTo
  <2> QED
    BY <2>1, <2>2
<1>4. PICK g : Is(g, n)
  BY <1>3
<1> QED
  BY <1>4 DEF Folds

-----------------------------------------------------------------------------
(* Merging. *)

Interval == Int \X Int

LEMMA Beginning ==
    ASSUME NEW n \in Nat, NEW k \in 1 .. n
    PROVE  /\ (1 .. k) \in SUBSET (1 .. n) /\ (1 .. k) # {} /\ Max(1 .. k) = k
           /\ (1 .. k - 1) \in SUBSET (1 .. n) /\ (1 .. k) \ {k} = (1 .. k - 1)
<1>1. 1 .. k \subseteq 1 .. n /\ k \in 1 .. k /\ (\A i \in 1 .. k : i <= k) /\ k \in Nat
  OBVIOUS
<1>2. Max(1 .. k) \in 1 .. k /\ \A i \in 1 .. k : i <= Max(1 .. k)
  BY <1>1, MaxFact
<1>3. Max(1 .. k) = k
  BY <1>1, <1>2
<1>4. (1 .. k) \ {k} = (1 .. k - 1)
  BY <1>1
<1>5. (1 .. k - 1) \subseteq 1 .. n
  BY <1>1
<1>6. (1 .. k) # {}
  BY <1>1
<1> QED
  BY <1>1, <1>3, <1>4, <1>5, <1>6

LEMMA MergeIntoType ==
    ASSUME NEW m \in Seq(Interval), NEW r \in Interval
    PROVE  MergeInto(m, r) \in Seq(Interval)
<1>1. CASE m # <<>>
  <2>1. Len(m) \in DOMAIN m /\ m[Len(m)] \in Interval /\ Last(m) = m[Len(m)]
    BY <1>1 DEF Last
  <2>2. Larger(m[Len(m)][2], r[2]) \in Int
    BY <2>1 DEF Interval, Larger
  <2>3. [m EXCEPT ![Len(m)][2] = Larger(@, r[2])] \in Seq(Interval)
    <3>1. [m[Len(m)] EXCEPT ![2] = Larger(m[Len(m)][2], r[2])] \in Interval
      BY <2>1, <2>2 DEF Interval
    <3> QED
      BY <2>1, <3>1
  <2> QED
    BY <1>1, <2>3 DEF MergeInto
<1>2. CASE m = <<>>
  BY <1>2 DEF MergeInto
<1> QED
  BY <1>1, <1>2

LEMMA MergeFold ==
    ASSUME NEW s \in Seq(Interval)
    PROVE  \E t :
              /\ t[0] = <<>> /\ t[Len(s)] = FoldLeft(MergeInto, <<>>, s)
              /\ \A k \in 1 .. Len(s) : t[k] = MergeInto(t[k - 1], s[k])
<1> DEFINE n == Len(s)
           T == Seq(Interval)
           step == [k \in 1 .. n |-> [m \in T |-> MergeInto(m, s[k])]]
           Is(f) == f = [d \in SUBSET (1 .. n) |->
                            IF d = {} THEN <<>> ELSE MergeInto(f[d \ {Max(d)}], s[Max(d)])]
           iter == CHOOSE f : Is(f)
<1>1. n \in Nat /\ DOMAIN s = 1 .. n /\ <<>> \in T /\ \A k \in 1 .. n : s[k] \in Interval
  OBVIOUS
<1>2. step \in [1 .. n -> [T -> T]]
  BY <1>1, MergeIntoType
<1>3. FoldLeft(MergeInto, <<>>, s) = iter[1 .. n]
  BY <1>1 DEF FoldLeft, MapThenFoldSet
<1>4. PICK g \in [SUBSET (1 .. n) -> T] : Folds(g, n, <<>>, step)
  <2> HIDE DEF step, T, n
  <2> QED
    BY <1>1, <1>2, FoldExists
<1>5. ASSUME NEW d \in SUBSET (1 .. n), d # {}
      PROVE  step[Max(d)][g[d \ {Max(d)}]] = MergeInto(g[d \ {Max(d)}], s[Max(d)])
  <2>1. Max(d) \in 1 .. n
    BY <1>1, <1>5, MaxFact
  <2>2. g[d \ {Max(d)}] \in T
    BY <1>4
  <2> QED
    BY <2>1, <2>2
<1> HIDE DEF step, T
<1>6. Is(g)
  BY <1>4, <1>5 DEF Folds
<1>7. Is(iter)
  BY <1>6
<1> DEFINE t == [k \in 0 .. n |-> iter[1 .. k]]
<1>8. t[0] = <<>> /\ t[n] = iter[1 .. n]
  <2>1. 1 .. 0 = {} /\ {} \in SUBSET (1 .. n) /\ 0 \in 0 .. n /\ n \in 0 .. n
    BY <1>1
  <2>2. iter[{}] = <<>>
    BY <1>7, <2>1
  <2> QED
    BY <2>1, <2>2
<1>9. ASSUME NEW k \in 1 .. n PROVE t[k] = MergeInto(t[k - 1], s[k])
  <2> DEFINE d == 1 .. k
  <2>0. d \in SUBSET (1 .. n) /\ d # {} /\ Max(d) = k /\ d \ {k} = 1 .. k - 1
    BY <1>1, Beginning
  <2>1. iter[1 .. k] = MergeInto(iter[1 .. k - 1], s[k])
    <3>1. iter[d] = MergeInto(iter[d \ {Max(d)}], s[Max(d)])
      <4> HIDE DEF d, n
      <4> QED
        BY <1>7, <2>0
    <3> QED
      BY <2>0, <3>1
  <2> QED
    BY <1>1, <2>1
<1> QED
  BY <1>3, <1>8, <1>9

-----------------------------------------------------------------------------
(* Sorting. *)

LEMMA BeforeFacts ==
    ASSUME NEW r \in Interval, NEW q \in Interval, NEW p \in Interval
    PROVE  /\ r = q \/ Before(r, q) \/ Before(q, r)
           /\ Before(r, q) /\ Before(q, p) => Before(r, p)
           /\ ~Before(r, r)
           /\ Before(r, q) => r[1] <= q[1]
  BY DEF Interval, Before

\* Of finitely many intervals one comes last.
LEMMA LastOne ==
    ASSUME NEW S \in SUBSET Interval, IsFiniteSet(S), S # {}
    PROVE  \E x \in S : \A y \in S : y = x \/ Before(y, x)
<1> DEFINE n == Cardinality(S)
           Ends(U) == \E x \in U : \A y \in U : y = x \/ Before(y, x)
           G == {k \in 0 .. n : \A U \in SUBSET S : Cardinality(U) = k => U = {} \/ Ends(U)}
<1>1. n \in Nat /\ \A U \in SUBSET S : IsFiniteSet(U) /\ Cardinality(U) \in Nat
  BY FS_CardinalityType, FS_Subset
<1>2. 0 \in G
  BY <1>1, FS_EmptySet
<1>3. ASSUME NEW k \in 0 .. n - 1, k \in G PROVE k + 1 \in G
  <2>1. ASSUME NEW U \in SUBSET S, Cardinality(U) = k + 1, U # {} PROVE Ends(U)
    <3>1. PICK a \in U : TRUE
      BY <2>1
    <3>2. Cardinality(U \ {a}) = k
      <4>1. IsFiniteSet(U) /\ k \in Int
        BY <1>1
      <4>2. Cardinality(U \ {a}) = Cardinality(U) - 1
        BY <3>1, <4>1, FS_RemoveElement
      <4> QED
        BY <2>1, <4>1, <4>2
    <3>3. U \ {a} = {} \/ Ends(U \ {a})
      BY <1>3, <3>2
    <3>4. CASE U \ {a} = {}
      BY <3>1, <3>4
    <3>5. CASE Ends(U \ {a})
      <4>1. PICK b \in U \ {a} : \A y \in U \ {a} : y = b \/ Before(y, b)
        BY <3>5
      <4>2. CASE Before(a, b)
        <5>1. \A y \in U : y = b \/ Before(y, b)
          BY <4>1, <4>2
        <5> QED
          BY <4>1, <5>1
      <4>3. CASE Before(b, a)
        <5>1. ASSUME NEW y \in U, y # a PROVE Before(y, a)
          <6>1. y \in Interval /\ a \in Interval /\ b \in Interval
            BY <3>1, <4>1
          <6> QED
            BY <4>1, <4>3, <5>1, <6>1, BeforeFacts
        <5> QED
          BY <3>1, <5>1
      <4> QED
        BY <3>1, <4>1, <4>2, <4>3, BeforeFacts
    <3> QED
      BY <3>3, <3>4, <3>5
  <2>2. k + 1 \in 0 .. n
    BY <1>1
  <2> HIDE DEF Ends, n
  <2> QED
    BY <2>1, <2>2
<1>4. n \in G
  <2>1. \A k \in 0 .. n : k \in G
    <3> HIDE DEF G, n
    <3> QED
      BY <1>1, <1>2, <1>3, UpTo
  <2> HIDE DEF G
  <2> QED
    BY <1>1, <2>1
<1> QED
  BY <1>4

InOrder(s) == \A i, j \in DOMAIN s : i < j => Before(s[i], s[j])

LEMMA SortedExists ==
    ASSUME NEW S \in SUBSET Interval, IsFiniteSet(S)
    PROVE  \E s \in [1 .. Cardinality(S) -> S] : ToSet(s) = S /\ InOrder(s)
<1> DEFINE n == Cardinality(S)
           Done(U) == \E s \in [1 .. Cardinality(U) -> U] : ToSet(s) = U /\ InOrder(s)
           G == {k \in 0 .. n : \A U \in SUBSET S : Cardinality(U) = k => Done(U)}
<1>1. n \in Nat /\ \A U \in SUBSET S : IsFiniteSet(U) /\ Cardinality(U) \in Nat
  BY FS_CardinalityType, FS_Subset
<1>2. 0 \in G
  <2>1. \A U \in SUBSET S : Cardinality(U) = 0 => U = {}
    BY <1>1, FS_EmptySet
  <2>2. Done({})
    <3> DEFINE s == [i \in 1 .. 0 |-> 0]
    <3>1. s \in [1 .. 0 -> {}] /\ ToSet(s) = {} /\ InOrder(s)
      BY DEF ToSet, InOrder
    <3> QED
      BY <3>1, FS_EmptySet
  <2> QED
    BY <1>1, <2>1, <2>2
<1>3. ASSUME NEW k \in 0 .. n - 1, k \in G PROVE k + 1 \in G
  <2>1. ASSUME NEW U \in SUBSET S, Cardinality(U) = k + 1 PROVE Done(U)
    <3>1. U # {} /\ IsFiniteSet(U) /\ k \in Nat
      BY <1>1, <2>1, FS_EmptySet
    <3>2. PICK a \in U : \A y \in U : y = a \/ Before(y, a)
      BY <3>1, LastOne
    <3>3. Cardinality(U \ {a}) = k
      <4>1. Cardinality(U \ {a}) = Cardinality(U) - 1
        BY <3>1, <3>2, FS_RemoveElement
      <4> QED
        BY <2>1, <3>1, <4>1
    <3>4. Done(U \ {a})
      BY <1>3, <3>3
    <3>5. PICK s \in [1 .. k -> U \ {a}] : ToSet(s) = U \ {a} /\ InOrder(s)
      BY <3>3, <3>4
    <3> DEFINE t == [i \in 1 .. k + 1 |-> IF i = k + 1 THEN a ELSE s[i]]
    <3>6. t \in [1 .. k + 1 -> U]
      BY <3>1, <3>2, <3>5
    <3>7. ToSet(t) = U
      <4>1. ASSUME NEW y \in U PROVE y \in ToSet(t)
        <5>1. CASE y = a
          BY <3>1, <5>1 DEF ToSet
        <5>2. CASE y # a
          <6>1. PICK i \in 1 .. k : y = s[i]
            BY <3>5, <5>2 DEF ToSet
          <6>2. i \in 1 .. k + 1 /\ t[i] = y
            BY <3>1, <6>1
          <6> QED
            BY <6>2 DEF ToSet
        <5> QED
          BY <5>1, <5>2
      <4>2. ToSet(t) \subseteq U
        BY <3>6 DEF ToSet
      <4> QED
        BY <4>1, <4>2
    <3>8. InOrder(t)
      <4>1. ASSUME NEW i \in 1 .. k + 1, NEW j \in 1 .. k + 1, i < j PROVE Before(t[i], t[j])
        <5>1. i \in 1 .. k /\ t[i] = s[i] /\ s[i] \in U \ {a}
          BY <3>1, <3>5, <4>1
        <5>2. CASE j = k + 1
          BY <3>2, <5>1, <5>2
        <5>3. CASE j \in 1 .. k
          BY <3>1, <3>5, <4>1, <5>1, <5>3 DEF InOrder
        <5> QED
          BY <3>1, <5>2, <5>3
      <4> QED
        BY <4>1 DEF InOrder
    <3> HIDE DEF t
    <3> QED
      BY <2>1, <3>6, <3>7, <3>8
  <2>2. k + 1 \in 0 .. n
    BY <1>1
  <2> HIDE DEF Done, n
  <2> QED
    BY <2>1, <2>2
<1>4. n \in G
  <2>1. \A k \in 0 .. n : k \in G
    <3> HIDE DEF G, n
    <3> QED
      BY <1>1, <1>2, <1>3, UpTo
  <2> HIDE DEF G
  <2> QED
    BY <1>1, <2>1
<1> QED
  BY <1>4

\* Sorted does what its name says (sort_unstable in merge_ranges).
LEMMA SortedFact ==
    ASSUME NEW S \in SUBSET Interval, IsFiniteSet(S)
    PROVE  Sorted(S) \in Seq(Interval) /\ ToSet(Sorted(S)) = S /\ InOrder(Sorted(S))
<1>1. /\ Sorted(S) \in [1 .. Cardinality(S) -> S]
      /\ ToSet(Sorted(S)) = S /\ InOrder(Sorted(S))
  BY SortedExists DEF Sorted, InOrder
<1>2. Cardinality(S) \in Nat
  BY FS_CardinalityType
<1> QED
  BY <1>1, <1>2

Proper == {r \in Interval : r[1] <= r[2]}

Tidy(m) ==
    /\ m \in Seq(Proper)
    /\ \A i, j \in DOMAIN m : i < j => m[i][2] + 1 < m[j][1]

\* x is in one of the intervals.
Covers(m, x) == \E i \in DOMAIN m : x \in Within(m[i])

\* Merging the next interval adds its addresses and keeps the list tidy (merge_ranges).
LEMMA MergeIntoFact ==
    ASSUME NEW m, Tidy(m), NEW r \in Proper, m # <<>> => Last(m)[1] <= r[1]
    PROVE  LET new == MergeInto(m, r)
           IN /\ Tidy(new) /\ new # <<>> /\ Last(new)[1] <= r[1]
              /\ \A x : Covers(new, x) <=> Covers(m, x) \/ x \in Within(r)
<1> DEFINE new == MergeInto(m, r)
           n == Len(m)
<1>1. /\ m \in Seq(Interval) /\ n \in Nat /\ DOMAIN m = 1 .. n
      /\ \A i \in 1 .. n : m[i] \in Interval /\ m[i][1] \in Int /\ m[i][2] \in Int /\ m[i][1] <= m[i][2]
  BY DEF Tidy, Proper, Interval
<1>2. r \in Interval /\ r[1] \in Int /\ r[2] \in Int /\ r[1] <= r[2]
  BY DEF Proper, Interval
<1>3. CASE m # <<>> /\ r[1] <= Last(m)[2] + 1
  <2> DEFINE last == <<m[n][1], Larger(m[n][2], r[2])>>
  <2>1. n \in 1 .. n /\ n >= 1 /\ Last(m) = m[n] /\ m[n][1] <= r[1]
    BY <1>1, <1>3 DEF Last
  <2>2. Larger(m[n][2], r[2]) \in Int /\ Larger(m[n][2], r[2]) >= m[n][2] /\ Larger(m[n][2], r[2]) >= r[2]
        /\ Larger(m[n][2], r[2]) \in {m[n][2], r[2]}
    BY <1>1, <1>2, <2>1 DEF Larger
  <2>3. last \in Proper /\ last[1] = m[n][1] /\ last[2] = Larger(m[n][2], r[2])
    BY <1>1, <2>1, <2>2 DEF Proper, Interval
  <2>4. [m[n] EXCEPT ![2] = Larger(m[n][2], r[2])] = last
    BY <1>1, <2>1 DEF Interval
  <2>5. new = [m EXCEPT ![n] = last]
    BY <1>3, <2>4 DEF MergeInto
  <2> HIDE DEF last
  <2>6. new \in Seq(Proper) /\ Len(new) = n /\ DOMAIN new = 1 .. n
    BY <1>1, <2>1, <2>3, <2>5 DEF Tidy
  <2>7. \A i \in 1 .. n : new[i] = IF i = n THEN last ELSE m[i]
    BY <1>1, <2>5
  <2> HIDE DEF new, n
  <2>8. Tidy(new)
    <3>1. ASSUME NEW i \in 1 .. n, NEW j \in 1 .. n, i < j PROVE new[i][2] + 1 < new[j][1]
      <4>1. new[i] = m[i] /\ new[j][1] = m[j][1]
        BY <1>1, <2>3, <2>7, <3>1
      <4> QED
        BY <1>1, <3>1, <4>1 DEF Tidy
    <3> QED
      BY <2>6, <3>1 DEF Tidy
  <2>9. new # <<>> /\ Last(new) = last
    BY <2>1, <2>6, <2>7 DEF Last
  <2>10. \A x : x \in Within(last) <=> x \in Within(m[n]) \/ x \in Within(r)
    <3>1. r[1] <= m[n][2] + 1
      BY <1>3, <2>1
    <3> QED
      BY <1>1, <1>2, <2>1, <2>2, <2>3, <3>1 DEF Within
  <2>11. ASSUME NEW x PROVE Covers(new, x) <=> Covers(m, x) \/ x \in Within(r)
    BY <1>1, <2>1, <2>6, <2>7, <2>10 DEF Covers
  <2> QED
    BY <2>1, <2>3, <2>8, <2>9, <2>11 DEF new
<1>4. CASE ~(m # <<>> /\ r[1] <= Last(m)[2] + 1)
  <2>1. new = Append(m, r)
    BY <1>4 DEF MergeInto
  <2>2. new \in Seq(Proper) /\ Len(new) = n + 1 /\ DOMAIN new = 1 .. n + 1
    BY <1>1, <2>1 DEF Tidy
  <2>3. \A i \in 1 .. n + 1 : new[i] = IF i = n + 1 THEN r ELSE m[i]
    BY <1>1, <1>2, <2>1
  <2>4. m # <<>> => n \in 1 .. n /\ m[n][2] + 1 < r[1]
    BY <1>1, <1>2, <1>4 DEF Last
  <2>5. n >= 1 => m # <<>>
    OBVIOUS
  <2> HIDE DEF new, n
  <2>6. Tidy(new)
    <3>1. ASSUME NEW i \in 1 .. n + 1, NEW j \in 1 .. n + 1, i < j PROVE new[i][2] + 1 < new[j][1]
      <4>1. i \in 1 .. n /\ new[i] = m[i] /\ n >= 1
        BY <1>1, <2>3, <3>1
      <4>2. CASE j \in 1 .. n
        BY <1>1, <2>3, <3>1, <4>1, <4>2 DEF Tidy
      <4>3. CASE j = n + 1
        <5>1. m[i][2] <= m[n][2]
          <6>1. i < n => m[i][2] + 1 < m[n][1]
            BY <1>1, <2>4, <2>5, <4>1 DEF Tidy
          <6> QED
            BY <1>1, <2>4, <2>5, <4>1, <6>1
        <5> QED
          BY <1>1, <1>2, <2>3, <2>4, <2>5, <4>1, <4>3, <5>1
      <4> QED
        BY <1>1, <4>2, <4>3
    <3> QED
      BY <2>2, <3>1 DEF Tidy
  <2>7. new # <<>> /\ Last(new) = r
    BY <1>1, <2>2, <2>3 DEF Last
  <2>8. ASSUME NEW x PROVE Covers(new, x) <=> Covers(m, x) \/ x \in Within(r)
    <3>1. n + 1 \in 1 .. n + 1 /\ 1 .. n + 1 = (1 .. n) \cup {n + 1}
      BY <1>1
    <3>2. new[n + 1] = r /\ \A i \in 1 .. n : new[i] = m[i]
      BY <1>1, <2>3, <3>1
    <3> QED
      BY <1>1, <2>2, <3>1, <3>2 DEF Covers
  <2> QED
    BY <1>2, <2>6, <2>7, <2>8 DEF new
<1> QED
  BY <1>3, <1>4

\* Merge returns what its elements cover, as tidy intervals.
LEMMA MergeFact ==
    ASSUME NEW S \in SUBSET Proper, IsFiniteSet(S)
    PROVE  Tidy(Merge(S)) /\ \A x : Covers(Merge(S), x) <=> \E r \in S : x \in Within(r)
<1> DEFINE s == Sorted(S)
           n == Len(s)
<1>1. S \in SUBSET Interval
  BY DEF Proper
<1>2. /\ s \in Seq(Interval) /\ ToSet(s) = S /\ InOrder(s) /\ n \in Nat /\ DOMAIN s = 1 .. n
      /\ \A i \in 1 .. n : s[i] \in S
  BY <1>1, SortedFact DEF ToSet
<1>3. PICK t : /\ t[0] = <<>> /\ t[n] = Merge(S)
               /\ \A k \in 1 .. n : t[k] = MergeInto(t[k - 1], s[k])
  BY <1>2, MergeFold DEF Merge
<1> DEFINE Good(k) == /\ Tidy(t[k])
                      /\ k > 0 => t[k] # <<>> /\ Last(t[k])[1] <= s[k][1]
                      /\ \A x : Covers(t[k], x) <=> \E j \in 1 .. k : x \in Within(s[j])
           G == {k \in 0 .. n : Good(k)}
<1> HIDE DEF s, n
<1>4. 0 \in G
  <2>1. 0 \in 0 .. n /\ 1 .. 0 = {}
    BY <1>2
  <2>2. Tidy(t[0]) /\ \A x : ~Covers(t[0], x)
    BY <1>3 DEF Tidy, Covers
  <2>3. Good(0)
    BY <2>1, <2>2
  <2> QED
    BY <2>1, <2>3
<1>5. ASSUME NEW k \in 0 .. n - 1, k \in G PROVE k + 1 \in G
  <2>1. k \in Nat /\ k + 1 \in 1 .. n /\ k + 1 > 0 /\ s[k + 1] \in Proper
    BY <1>2
  <2>2. t[k] # <<>> => Last(t[k])[1] <= s[k + 1][1]
    <3>1. CASE k = 0
      BY <1>3, <3>1
    <3>2. CASE k > 0
      <4>1. k \in 1 .. n /\ Before(s[k], s[k + 1])
        BY <1>2, <2>1, <3>2 DEF InOrder
      <4>2. s[k][1] <= s[k + 1][1] /\ s[k][1] \in Int /\ s[k + 1][1] \in Int
        BY <1>1, <1>2, <2>1, <4>1, BeforeFacts DEF Interval
      <4>3. Tidy(t[k]) /\ Last(t[k])[1] <= s[k][1] /\ t[k] # <<>>
        BY <1>5, <3>2
      <4>4. Last(t[k])[1] \in Int
        BY <4>3 DEF Tidy, Last, Proper, Interval
      <4> QED
        BY <4>2, <4>3, <4>4
    <3> QED
      BY <2>1, <3>1, <3>2
  <2>3. t[k + 1] = MergeInto(t[k], s[k + 1])
    BY <1>3, <2>1
  <2>4. Tidy(t[k]) /\ \A x : Covers(t[k], x) <=> \E j \in 1 .. k : x \in Within(s[j])
    BY <1>5
  <2>5. /\ Tidy(t[k + 1]) /\ t[k + 1] # <<>> /\ Last(t[k + 1])[1] <= s[k + 1][1]
        /\ \A x : Covers(t[k + 1], x) <=> Covers(t[k], x) \/ x \in Within(s[k + 1])
    BY <2>1, <2>2, <2>3, <2>4, MergeIntoFact
  <2>6. 1 .. k + 1 = (1 .. k) \cup {k + 1}
    BY <2>1
  <2>7. Good(k + 1)
    BY <2>4, <2>5, <2>6
  <2> QED
    BY <2>1, <2>7
<1>6. n \in G
  <2>1. \A k \in 0 .. n : k \in G
    <3> HIDE DEF G
    <3> QED
      BY <1>2, <1>4, <1>5, UpTo
  <2>2. n \in 0 .. n
    BY <1>2
  <2> HIDE DEF G
  <2> QED
    BY <2>1, <2>2
<1>7. \A x : (\E j \in 1 .. n : x \in Within(s[j])) <=> \E r \in S : x \in Within(r)
  BY <1>2 DEF ToSet
<1> QED
  BY <1>3, <1>6, <1>7

-----------------------------------------------------------------------------
(* Looking up. *)

\* The binary search finds the interval that covers x, if there is one (containing_range).
LEMMA ContainingFact ==
    ASSUME NEW m, Tidy(m), NEW x \in Int
    PROVE  LET r == ContainingRange(m, x)
           IN /\ Covers(m, x) => r # NoRange
              /\ r # NoRange => \E i \in DOMAIN m : r = m[i] /\ x \in Within(m[i])
<1> DEFINE n == Len(m)
           A == {j \in DOMAIN m : m[j][1] <= x}
           c == Cardinality(A)
<1>1. /\ n \in Nat /\ DOMAIN m = 1 .. n
      /\ \A i \in 1 .. n : m[i] \in Interval /\ m[i][1] \in Int /\ m[i][2] \in Int /\ m[i][1] <= m[i][2]
  BY DEF Tidy, Proper, Interval
<1>2. \A i \in 1 .. n, j \in 1 .. n : i < j => m[i][2] + 1 < m[j][1]
  BY <1>1 DEF Tidy
<1>3. \E k \in 0 .. n : A = 1 .. k
  <2>1. CASE A = {}
    <3>1. A = 1 .. 0
      BY <2>1
    <3> QED
      BY <1>1, <3>1
  <2>2. CASE A # {}
    <3>1. A \subseteq 1 .. n
      BY <1>1
    <3>2. Max(A) \in A /\ \A i \in A : i <= Max(A)
      BY <1>1, <2>2, <3>1, MaxFact
    <3>3. ASSUME NEW i \in 1 .. Max(A) PROVE i \in A
      <4>1. i \in 1 .. n /\ Max(A) \in 1 .. n /\ m[Max(A)][1] <= x
        BY <3>1, <3>2
      <4>2. CASE i = Max(A)
        BY <3>2, <4>2
      <4>3. CASE i < Max(A)
        BY <1>1, <1>2, <4>1, <4>3
      <4> QED
        BY <4>1, <4>2, <4>3
    <3>4. Max(A) \in 1 .. n
      BY <3>1, <3>2
    <3>5. A = 1 .. Max(A)
      BY <3>1, <3>2, <3>3, <3>4
    <3> QED
      BY <1>1, <3>4, <3>5
  <2> QED
    BY <2>1, <2>2
<1>4. c \in 0 .. n /\ A = 1 .. c
  <2>1. PICK k \in 0 .. n : A = 1 .. k
    BY <1>3
  <2>2. Cardinality(1 .. k) = k
    BY <1>1, <2>1, FS_Interval
  <2> QED
    BY <2>1, <2>2
<1>5. ContainingRange(m, x) = IF c > 0 /\ x <= m[c][2] THEN m[c] ELSE NoRange
  BY DEF ContainingRange
<1>6. \A i \in 1 .. n : m[i][1] <= x <=> i \in 1 .. c
  BY <1>1, <1>4
<1> HIDE DEF A, c
<1>7. ASSUME NEW i \in 1 .. n, x \in Within(m[i]) PROVE i = c
  <2>1. m[i][1] <= x /\ x <= m[i][2]
    BY <1>1, <1>7 DEF Within
  <2>2. i <= c /\ c \in 1 .. n /\ m[c][1] <= x
    BY <1>1, <1>4, <1>6, <2>1
  <2> QED
    BY <1>1, <1>2, <1>4, <2>1, <2>2
<1>8. c \in 1 .. n /\ x <= m[c][2] => x \in Within(m[c])
  BY <1>1, <1>4, <1>6 DEF Within
<1>9. \A i \in 1 .. n : m[i] # NoRange
  BY <1>1 DEF Interval, NoRange
<1>10. Covers(m, x) => c \in 1 .. n /\ x <= m[c][2]
  BY <1>1, <1>7 DEF Covers, Within
<1> QED
  BY <1>1, <1>4, <1>5, <1>8, <1>9, <1>10

-----------------------------------------------------------------------------
(* Subnets. *)

LEMMA PowerExists ==
    \E f : /\ f = [k \in Prefix |-> IF k = 0 THEN 1 ELSE 2 * f[k - 1]]
           /\ \A k \in Prefix : f[k] \in Nat \ {0}
<1> DEFINE Is(f, n) == /\ f \in [0 .. n -> Nat \ {0}]
                       /\ \A k \in 0 .. n : f[k] = IF k = 0 THEN 1 ELSE 2 * f[k - 1]
           G == {n \in 0 .. Bits : \E f : Is(f, n)}
<1>1. Bits \in Nat
  BY WidthAssumption
<1>2. 0 \in G
  <2> DEFINE f == [k \in 0 .. 0 |-> 1]
  <2>1. Is(f, 0)
    OBVIOUS
  <2>2. 0 \in 0 .. Bits
    BY <1>1
  <2> HIDE DEF f
  <2> QED
    BY <2>1, <2>2
<1>3. ASSUME NEW n \in 0 .. Bits - 1, n \in G PROVE n + 1 \in G
  <2>1. PICK f : Is(f, n)
    BY <1>3
  <2>2. n \in Nat /\ n + 1 \in 0 .. Bits /\ n \in 0 .. n
    BY <1>1
  <2> DEFINE g == [k \in 0 .. n + 1 |-> IF k = n + 1 THEN 2 * f[n] ELSE f[k]]
  <2>3. \A k \in 0 .. n : g[k] = f[k]
    BY <2>2
  <2>4. g[n + 1] = 2 * f[n] /\ f[n] \in Nat \ {0}
    BY <2>1, <2>2
  <2>5. g \in [0 .. n + 1 -> Nat \ {0}]
    BY <2>1, <2>2, <2>4
  <2> HIDE DEF g
  <2>6. ASSUME NEW k \in 0 .. n + 1 PROVE g[k] = IF k = 0 THEN 1 ELSE 2 * g[k - 1]
    <3>1. CASE k = n + 1
      BY <2>2, <2>3, <2>4, <3>1
    <3>2. CASE k # n + 1
      <4>1. k \in 0 .. n /\ (k # 0 => k - 1 \in 0 .. n)
        BY <2>2, <3>2
      <4> QED
        BY <2>1, <2>3, <4>1
    <3> QED
      BY <3>1, <3>2
  <2> QED
    BY <2>2, <2>5, <2>6
<1>4. Bits \in G
  <2>1. \A n \in 0 .. Bits : n \in G
    <3> HIDE DEF G
    <3> QED
      BY <1>1, <1>2, <1>3, UpTo
  <2> HIDE DEF G
  <2> QED
    BY <1>1, <2>1
<1>5. PICK f : Is(f, Bits)
  BY <1>4
<1> QED
  BY <1>5 DEF Prefix

LEMMA PowerFact ==
    /\ \A k \in Prefix : PowerOf2[k] \in Nat \ {0}
    /\ \A k \in Prefix : k # 0 => PowerOf2[k] = 2 * PowerOf2[k - 1]
<1> DEFINE Is(f) == f = [k \in Prefix |-> IF k = 0 THEN 1 ELSE 2 * f[k - 1]]
<1>1. PICK f : Is(f) /\ \A k \in Prefix : f[k] \in Nat \ {0}
  BY PowerExists
<1>2. Is(PowerOf2)
  BY <1>1 DEF PowerOf2
<1>3. \A k \in Prefix : PowerOf2[k] = IF k = 0 THEN 1 ELSE 2 * PowerOf2[k - 1]
  BY <1>2
<1> DEFINE G == {k \in 0 .. Bits : PowerOf2[k] \in Nat \ {0}}
<1>4. Bits \in Nat /\ Prefix = 0 .. Bits
  BY WidthAssumption DEF Prefix
<1>5. 0 \in G
  BY <1>3, <1>4
<1>6. ASSUME NEW k \in 0 .. Bits - 1, k \in G PROVE k + 1 \in G
  <2>1. k + 1 \in Prefix /\ k + 1 # 0 /\ (k + 1) - 1 = k
    BY <1>4
  <2>2. PowerOf2[k + 1] = 2 * PowerOf2[k]
    BY <1>3, <2>1
  <2> QED
    BY <1>4, <1>6, <2>1, <2>2
<1>7. \A k \in 0 .. Bits : k \in G
  <2> HIDE DEF G
  <2> QED
    BY <1>4, <1>5, <1>6, UpTo
<1> QED
  BY <1>3, <1>4, <1>7

\* The addresses are a whole number of subnets of any size.
LEMMA PowerDivides ==
    ASSUME NEW k \in Prefix
    PROVE  \E q \in Nat : PowerOf2[Bits] = q * PowerOf2[Bits - k]
<1> DEFINE G == {n \in 0 .. Bits : \E q \in Nat : PowerOf2[Bits] = q * PowerOf2[Bits - n]}
<1>1. Bits \in Nat /\ Prefix = 0 .. Bits
  BY WidthAssumption DEF Prefix
<1>2. 0 \in G
  <2>1. PowerOf2[Bits] \in Nat /\ Bits - 0 = Bits /\ 0 \in 0 .. Bits
    BY <1>1, PowerFact
  <2>2. PowerOf2[Bits] = 1 * PowerOf2[Bits - 0]
    BY <2>1
  <2> QED
    BY <2>1, <2>2
<1>3. ASSUME NEW n \in 0 .. Bits - 1, n \in G PROVE n + 1 \in G
  <2>1. PICK q \in Nat : PowerOf2[Bits] = q * PowerOf2[Bits - n]
    BY <1>3
  <2>2. Bits - n \in Prefix /\ Bits - n # 0 /\ (Bits - n) - 1 = Bits - (n + 1) /\ Bits - (n + 1) \in Prefix
        /\ n + 1 \in 0 .. Bits
    BY <1>1
  <2>3. PowerOf2[Bits - n] = 2 * PowerOf2[Bits - (n + 1)] /\ PowerOf2[Bits - (n + 1)] \in Nat
    BY <2>2, PowerFact
  <2>4. PowerOf2[Bits] = (q * 2) * PowerOf2[Bits - (n + 1)]
    <3> DEFINE p == PowerOf2[Bits - (n + 1)]
    <3>1. p \in Nat /\ PowerOf2[Bits] = q * (2 * p)
      BY <2>1, <2>3
    <3> HIDE DEF p
    <3>2. q * (2 * p) = (q * 2) * p
      BY <3>1
    <3> QED
      BY <3>1, <3>2 DEF p
  <2> QED
    BY <2>2, <2>4
<1>4. \A n \in 0 .. Bits : n \in G
  <2> HIDE DEF G
  <2> QED
    BY <1>1, <1>2, <1>3, UpTo
<1> QED
  BY <1>1, <1>4

\* A subnet is an interval of addresses around the one it is asked for (subnet_bounds).
LEMMA SubnetFact ==
    ASSUME NEW ip \in Addr, NEW prefix \in Prefix
    PROVE  SubnetBounds(ip, prefix) \in Range2 /\ ip \in Within(SubnetBounds(ip, prefix))
<1> DEFINE size == PowerOf2[Bits - prefix]
           all  == PowerOf2[Bits]
           low  == ip - (ip % size)
<1>1. Bits - prefix \in Prefix /\ Bits \in Prefix
  BY WidthAssumption DEF Prefix
<1>2. size \in Nat \ {0} /\ all \in Nat \ {0} /\ ip \in 0 .. all - 1
  BY <1>1, PowerFact DEF Addr
<1>3. PICK q \in Nat : all = q * size
  BY PowerDivides
<1>4. SubnetBounds(ip, prefix) = <<low, low + size - 1>> /\ Addr = 0 .. all - 1
  BY DEF SubnetBounds, Addr
<1> HIDE DEF size, all
<1>5. PICK d \in Nat, m \in 0 .. size - 1 : ip = d * size + m /\ ip % size = m
  <2>1. ip \in Nat
    BY <1>2
  <2>2. ip % size \in 0 .. size - 1
    BY <1>2, <2>1
  <2>3. ip \div size \in Nat
    BY <1>2, <2>1
  <2>4. ip = size * (ip \div size) + (ip % size)
    BY <1>2, <2>1
  <2>5. size * (ip \div size) = (ip \div size) * size
    BY <1>2, <2>3
  <2> QED
    BY <2>2, <2>3, <2>4, <2>5
<1>6. d * size \in Nat /\ low = d * size /\ low <= ip /\ ip <= low + size - 1
  BY <1>2, <1>5
<1>7. d < q
  <2>1. SUFFICES ASSUME d >= q PROVE FALSE
    OBVIOUS
  <2>2. d * size >= q * size
    BY <1>2, <2>1
  <2> QED
    BY <1>2, <1>3, <1>5, <1>6, <2>2
<1>8. low + size <= all
  <2>1. (d + 1) * size <= q * size
    BY <1>2, <1>7
  <2>2. (d + 1) * size = d * size + size
    BY <1>2
  <2> QED
    BY <1>2, <1>3, <1>6, <2>1, <2>2
<1> QED
  BY <1>2, <1>4, <1>6, <1>8 DEF Range2, Within

-----------------------------------------------------------------------------
(* What a scope says. *)

LEMMA FiniteFact ==
    ASSUME NEW E, NEW s \in Seq(E)
    PROVE  IsFiniteSet(ToSet(s)) /\ ToSet(s) \subseteq E
<1>1. Len(s) \in Nat /\ DOMAIN s = 1 .. Len(s) /\ s \in [1 .. Len(s) -> E]
  OBVIOUS
<1>2. s \in Surjection(1 .. Len(s), ToSet(s))
  BY <1>1 DEF Surjection, ToSet
<1>3. IsFiniteSet(1 .. Len(s))
  BY <1>1, FS_Interval
<1> QED
  BY <1>1, <1>2, <1>3, FS_Surjection DEF ToSet

LEMMA RangeFact == Range2 \subseteq Proper /\ \A r \in Range2 : Within(r) \subseteq Addr
<1>1. Bits \in Prefix
  BY WidthAssumption DEF Prefix
<1>2. PowerOf2[Bits] \in Nat
  BY <1>1, PowerFact
<1> QED
  BY <1>2 DEF Range2, Proper, Interval, Addr, Within

\* A restricting scope allows the addresses of its entries (allows_v4, from_entries).
LEMMA MergedFact ==
    ASSUME NEW scope \in Seq(Range2), scope # <<>>
    PROVE  Tidy(Merged(scope)) /\ \A x : Covers(Merged(scope), x) <=> x \in Allowed(scope)
<1>1. ToSet(scope) \in SUBSET Proper /\ IsFiniteSet(ToSet(scope))
  BY FiniteFact, RangeFact
<1>2. \A x : (\E r \in ToSet(scope) : x \in Within(r)) <=> x \in Allowed(scope)
  BY DEF Allowed, Unrestricted
<1>3. /\ Tidy(Merge(ToSet(scope)))
      /\ \A x : Covers(Merge(ToSet(scope)), x) <=> \E r \in ToSet(scope) : x \in Within(r)
  BY <1>1, MergeFact
<1> QED
  BY <1>2, <1>3 DEF Merged

THEOREM AllowsCorrect ==
    ASSUME NEW scope \in Seq(Range2), NEW x \in Addr
    PROVE  Allows(scope, x) <=> x \in Allowed(scope)
<1>1. CASE scope = <<>>
  BY <1>1 DEF Allows, Allowed, Unrestricted
<1>2. CASE scope # <<>>
  <2>1. x \in Int
    <3>1. Bits \in Prefix
      BY WidthAssumption DEF Prefix
    <3>2. PowerOf2[Bits] \in Nat
      BY <3>1, PowerFact
    <3> QED
      BY <3>2 DEF Addr
  <2>2. Tidy(Merged(scope)) /\ (Covers(Merged(scope), x) <=> x \in Allowed(scope))
    BY <1>2, MergedFact
  <2>3. /\ Covers(Merged(scope), x) => ContainingRange(Merged(scope), x) # NoRange
        /\ ContainingRange(Merged(scope), x) # NoRange => Covers(Merged(scope), x)
    BY <2>1, <2>2, ContainingFact DEF Covers
  <2> QED
    BY <1>2, <2>2, <2>3 DEF Allows, Unrestricted
<1> QED
  BY <1>1, <1>2

\* A subnet is covered if every address of it is allowed: then, and only then, a
\* broadcast is sent (covers_subnet).
THEOREM CoversCorrect ==
    ASSUME NEW scope \in Seq(Range2), NEW ip \in Addr, NEW prefix \in Prefix
    PROVE  CoversSubnet(scope, ip, prefix) <=> Within(SubnetBounds(ip, prefix)) \subseteq Allowed(scope)
<1> DEFINE b == SubnetBounds(ip, prefix)
           m == Merged(scope)
           r == ContainingRange(m, b[1])
<1>1. b \in Proper /\ Within(b) \subseteq Addr /\ b[1] \in Int /\ b[2] \in Int /\ b[1] <= b[2]
  BY SubnetFact, RangeFact DEF Proper, Interval
<1>2. CASE scope = <<>>
  BY <1>1, <1>2 DEF CoversSubnet, Allowed, Unrestricted
<1>3. CASE scope # <<>>
  <2>1. Tidy(m) /\ \A x : Covers(m, x) <=> x \in Allowed(scope)
    BY <1>3, MergedFact
  <2>2. /\ Covers(m, b[1]) => r # NoRange
        /\ r # NoRange => \E i \in DOMAIN m : r = m[i] /\ b[1] \in Within(m[i])
    BY <1>1, <2>1, ContainingFact
  <2>3. CoversSubnet(scope, ip, prefix) <=> r # NoRange /\ r[2] >= b[2]
    BY <1>3 DEF CoversSubnet, Unrestricted
  <2> HIDE DEF b, r
  <2>4. /\ DOMAIN m = 1 .. Len(m) /\ Len(m) \in Nat
        /\ \A i \in DOMAIN m : m[i][1] \in Int /\ m[i][2] \in Int /\ m[i][1] <= m[i][2]
    BY <2>1 DEF Tidy, Proper, Interval
  <2>5. ASSUME r # NoRange, r[2] >= b[2] PROVE Within(b) \subseteq Allowed(scope)
    <3>1. PICK i \in DOMAIN m : r = m[i] /\ b[1] \in Within(m[i])
      BY <2>2, <2>5
    <3>2. Within(b) \subseteq Within(m[i])
      BY <1>1, <2>4, <2>5, <3>1 DEF Within
    <3> QED
      BY <2>1, <3>1, <3>2 DEF Covers
  <2>6. ASSUME Within(b) \subseteq Allowed(scope) PROVE r # NoRange /\ r[2] >= b[2]
    <3>1. \A x \in b[1] .. b[2] : Covers(m, x)
      BY <2>1, <2>6 DEF Within
    <3>2. PICK i \in DOMAIN m : r = m[i] /\ m[i][1] <= b[1] /\ b[1] <= m[i][2] /\ r # NoRange
      <4>1. b[1] \in b[1] .. b[2]
        BY <1>1
      <4> QED
        BY <1>1, <2>2, <2>4, <3>1, <4>1 DEF Within
    <3>3. SUFFICES ASSUME m[i][2] < b[2] PROVE FALSE
      BY <1>1, <2>4, <3>2
    <3>4. m[i][2] + 1 \in b[1] .. b[2]
      BY <1>1, <2>4, <3>2, <3>3
    <3>5. PICK j \in DOMAIN m : m[j][1] <= m[i][2] + 1 /\ m[i][2] + 1 <= m[j][2]
      BY <2>4, <3>1, <3>4 DEF Covers, Within
    <3>6. j # i
      BY <2>4, <3>5
    <3>7. CASE i < j
      BY <2>1, <2>4, <3>5, <3>7 DEF Tidy
    <3>8. CASE j < i
      <4>1. m[j][2] + 1 < m[i][1]
        BY <2>1, <3>8 DEF Tidy
      <4> QED
        BY <2>4, <3>5, <4>1
    <3> QED
      BY <2>4, <3>6, <3>7, <3>8
  <2> QED
    BY <2>3, <2>5, <2>6 DEF b
<1> QED
  BY <1>2, <1>3

-----------------------------------------------------------------------------
(* Enumerating hosts. *)

Found == [hosts : Seq(Int), truncated : BOOLEAN]

\* What has been found after looking at `seen'.
Collected(out, seen, exclude) ==
    /\ out \in Found /\ NoRepeats(out.hosts) /\ Len(out.hosts) <= MaxHosts
    /\ ToSet(out.hosts) \subseteq seen \ exclude
    /\ ~out.truncated => seen \ exclude \subseteq ToSet(out.hosts)

LEMMA TakeHostFact ==
    ASSUME NEW out, NEW seen, NEW exclude, Collected(out, seen, exclude),
           NEW a \in Int, a \notin seen
    PROVE  Collected(TakeHost(out, a, exclude), seen \cup {a}, exclude)
<1> DEFINE new == TakeHost(out, a, exclude)
           h   == out.hosts
           n   == Len(h)
<1>1. /\ out = [hosts |-> h, truncated |-> out.truncated] /\ out.truncated \in BOOLEAN
      /\ h \in Seq(Int) /\ n \in Nat /\ DOMAIN h = 1 .. n /\ MaxHosts \in Nat /\ n <= MaxHosts
  BY WidthAssumption DEF Collected, Found
<1>2. CASE a \in exclude
  BY <1>2 DEF TakeHost, Collected
<1>3. CASE a \notin exclude /\ n = MaxHosts
  <2>1. new = [hosts |-> h, truncated |-> TRUE]
    BY <1>1, <1>3 DEF TakeHost
  <2> QED
    BY <1>1, <2>1 DEF Collected, Found
<1>4. CASE a \notin exclude /\ n # MaxHosts
  <2>1. new = [hosts |-> Append(h, a), truncated |-> out.truncated]
    BY <1>1, <1>4 DEF TakeHost
  <2> DEFINE g == Append(h, a)
  <2>2. /\ g \in Seq(Int) /\ Len(g) = n + 1 /\ DOMAIN g = 1 .. n + 1
        /\ \A i \in 1 .. n + 1 : g[i] = IF i = n + 1 THEN a ELSE h[i]
    BY <1>1
  <2>3. 1 .. n + 1 = (1 .. n) \cup {n + 1} /\ n + 1 \in 1 .. n + 1 /\ n + 1 \notin 1 .. n
    BY <1>1
  <2> HIDE DEF g, n
  <2>4. ToSet(g) = ToSet(h) \cup {a}
    BY <1>1, <2>2, <2>3 DEF ToSet
  <2>5. \A i \in 1 .. n : h[i] # a
    BY <1>1 DEF Collected, ToSet
  <2>6. NoRepeats(g)
    <3>1. ASSUME NEW i \in 1 .. n + 1, NEW j \in 1 .. n + 1, g[i] = g[j] PROVE i = j
      BY <1>1, <2>2, <2>3, <2>5, <3>1 DEF Collected, NoRepeats
    <3> QED
      BY <2>2, <3>1 DEF NoRepeats
  <2>7. n + 1 <= MaxHosts
    BY <1>1, <1>4
  <2>8. /\ ToSet(g) \subseteq (seen \cup {a}) \ exclude
        /\ ~out.truncated => (seen \cup {a}) \ exclude \subseteq ToSet(g)
    BY <1>4, <2>4 DEF Collected
  <2>9. new \in Found /\ new.hosts = g /\ new.truncated = out.truncated
    BY <1>1, <2>1, <2>2 DEF Found
  <2> QED
    BY <2>2, <2>6, <2>7, <2>8, <2>9 DEF Collected
<1> QED
  BY <1>2, <1>3, <1>4 DEF n

LEMMA TakeHostType ==
    ASSUME NEW out \in Found, NEW a \in Int, NEW exclude
    PROVE  TakeHost(out, a, exclude) \in Found
<1>1. /\ out = [hosts |-> out.hosts, truncated |-> out.truncated]
      /\ out.hosts \in Seq(Int) /\ Append(out.hosts, a) \in Seq(Int)
  BY DEF Found
<1> QED
  BY <1>1 DEF TakeHost, Found

LEMMA AddressesFact ==
    ASSUME NEW r \in Interval
    PROVE  /\ Addresses(r) \in Seq(Int) /\ ToSet(Addresses(r)) = Within(r)
           /\ NoRepeats(Addresses(r))
<1> DEFINE n == Size(r)
           s == Addresses(r)
<1>1. r[1] \in Int /\ r[2] \in Int /\ n \in Int /\ n = r[2] - r[1] + 1
  BY DEF Interval, Size
<1>2. s \in Seq(Int)
  <2>1. s \in [1 .. n -> Int]
    BY <1>1 DEF Addresses
  <2>2. CASE n >= 0
    BY <1>1, <2>1, <2>2
  <2>3. CASE n < 0
    <3>1. 1 .. n = 1 .. 0
      BY <1>1, <2>3
    <3>2. s \in [1 .. 0 -> Int]
      BY <2>1, <3>1
    <3> HIDE DEF s
    <3> QED
      BY <3>2
  <2> QED
    BY <1>1, <2>2, <2>3
<1>3. DOMAIN s = 1 .. n /\ \A i \in 1 .. n : s[i] = r[1] + i - 1
  BY DEF Addresses
<1> HIDE DEF s
<1>4. NoRepeats(s)
  BY <1>1, <1>3 DEF NoRepeats
<1>5. ASSUME NEW x \in Within(r) PROVE x \in ToSet(s)
  <2>1. x - r[1] + 1 \in 1 .. n /\ r[1] + (x - r[1] + 1) - 1 = x
    BY <1>1 DEF Within
  <2> QED
    BY <1>3, <2>1 DEF ToSet
<1>6. ToSet(s) \subseteq Within(r)
  BY <1>1, <1>3 DEF ToSet, Within
<1> QED
  BY <1>2, <1>4, <1>5, <1>6 DEF s

LEMMA TakeRangeFold ==
    ASSUME NEW out \in Found, NEW r \in Interval, NEW exclude
    PROVE  LET s == Addresses(r)
           IN \E t : /\ t[0] = out /\ t[Len(s)] = TakeRange(out, r, exclude)
                     /\ \A k \in 0 .. Len(s) : t[k] \in Found
                     /\ \A k \in 1 .. Len(s) : t[k] = TakeHost(t[k - 1], s[k], exclude)
<1> DEFINE s == Addresses(r)
           n == Len(s)
           step == [k \in 1 .. n |-> [m \in Found |-> TakeHost(m, s[k], exclude)]]
           Is(f) == f = [d \in SUBSET (1 .. n) |->
                            IF d = {} THEN out ELSE TakeHost(f[d \ {Max(d)}], s[Max(d)], exclude)]
           iter == CHOOSE f : Is(f)
<1>1. n \in Nat /\ DOMAIN s = 1 .. n /\ \A k \in 1 .. n : s[k] \in Int
  <2>1. s \in Seq(Int)
    BY AddressesFact
  <2> HIDE DEF s
  <2> QED
    BY <2>1
<1>2. step \in [1 .. n -> [Found -> Found]]
  BY <1>1, TakeHostType
<1>3. TakeRange(out, r, exclude) = iter[1 .. n]
  BY <1>1 DEF TakeRange, FoldLeft, MapThenFoldSet
<1>4. PICK g \in [SUBSET (1 .. n) -> Found] : Folds(g, n, out, step)
  <2> HIDE DEF step, n
  <2> QED
    BY <1>1, <1>2, FoldExists
<1>5. ASSUME NEW d \in SUBSET (1 .. n), d # {}
      PROVE  step[Max(d)][g[d \ {Max(d)}]] = TakeHost(g[d \ {Max(d)}], s[Max(d)], exclude)
  <2>1. Max(d) \in 1 .. n
    BY <1>1, <1>5, MaxFact
  <2>2. g[d \ {Max(d)}] \in Found
    BY <1>4
  <2> QED
    BY <2>1, <2>2
<1> HIDE DEF step, s
<1>6. Is(g)
  BY <1>4, <1>5 DEF Folds
<1>7. Is(iter)
  BY <1>6
<1> DEFINE t == [k \in 0 .. n |-> iter[1 .. k]]
<1>8. t[0] = out /\ t[n] = iter[1 .. n]
  <2>1. 1 .. 0 = {} /\ {} \in SUBSET (1 .. n) /\ 0 \in 0 .. n /\ n \in 0 .. n
    BY <1>1
  <2>2. iter[{}] = out
    BY <1>7, <2>1
  <2> QED
    BY <2>1, <2>2
<1>9. ASSUME NEW k \in 1 .. n PROVE t[k] = TakeHost(t[k - 1], s[k], exclude)
  <2> DEFINE d == 1 .. k
  <2>0. d \in SUBSET (1 .. n) /\ d # {} /\ Max(d) = k /\ d \ {k} = 1 .. k - 1
    BY <1>1, Beginning
  <2>1. iter[1 .. k] = TakeHost(iter[1 .. k - 1], s[k], exclude)
    <3>1. iter[d] = TakeHost(iter[d \ {Max(d)}], s[Max(d)], exclude)
      <4> HIDE DEF d, n
      <4> QED
        BY <1>7, <2>0
    <3> QED
      BY <2>0, <3>1
  <2> QED
    BY <1>1, <2>1
<1>10. \A k \in 0 .. n : t[k] \in Found
  <2> DEFINE G == {k \in 0 .. n : t[k] \in Found}
  <2> HIDE DEF t, n
  <2>1. 0 \in G
    BY <1>1, <1>8
  <2>2. ASSUME NEW k \in 0 .. n - 1, k \in G PROVE k + 1 \in G
    BY <1>1, <1>9, <2>2, TakeHostType
  <2>3. \A k \in 0 .. n : k \in G
    <3> HIDE DEF G
    <3> QED
      BY <1>1, <2>1, <2>2, UpTo
  <2> QED
    BY <2>3
<1> QED
  BY <1>3, <1>8, <1>9, <1>10 DEF s

\* Of one interval every address is looked at once (collect_hosts).
LEMMA TakeRangeFact ==
    ASSUME NEW out, NEW seen, NEW exclude, Collected(out, seen, exclude),
           NEW r \in Interval, Within(r) \cap seen = {}
    PROVE  Collected(TakeRange(out, r, exclude), seen \cup Within(r), exclude)
<1> DEFINE s == Addresses(r)
           n == Len(s)
<1>1. /\ n \in Nat /\ DOMAIN s = 1 .. n /\ ToSet(s) = Within(r)
      /\ \A k \in 1 .. n : s[k] \in Int
      /\ \A i, j \in 1 .. n : s[i] = s[j] => i = j
  <2>1. s \in Seq(Int) /\ ToSet(s) = Within(r) /\ NoRepeats(s)
    BY AddressesFact
  <2> HIDE DEF s
  <2> QED
    BY <2>1 DEF NoRepeats
<1>2. PICK t : /\ t[0] = out /\ t[n] = TakeRange(out, r, exclude)
               /\ \A k \in 1 .. n : t[k] = TakeHost(t[k - 1], s[k], exclude)
  BY TakeRangeFold DEF Collected
<1> DEFINE Upto(k) == seen \cup {s[j] : j \in 1 .. k}
           G == {k \in 0 .. n : Collected(t[k], Upto(k), exclude)}
<1> HIDE DEF s, n
<1>3. 0 \in G
  <2>1. 0 \in 0 .. n /\ 1 .. 0 = {}
    BY <1>1
  <2>2. Upto(0) = seen
    BY <2>1
  <2> HIDE DEF Upto
  <2> QED
    BY <1>2, <2>1, <2>2
<1>4. ASSUME NEW k \in 0 .. n - 1, k \in G PROVE k + 1 \in G
  <2>1. k + 1 \in 1 .. n /\ k + 1 \in 0 .. n /\ k \in Nat /\ 1 .. k \subseteq 1 .. n
        /\ 1 .. k + 1 = (1 .. k) \cup {k + 1} /\ k + 1 \notin 1 .. k /\ (k + 1) - 1 = k
    BY <1>1
  <2>2. s[k + 1] \in Int /\ s[k + 1] \in Within(r) /\ t[k + 1] = TakeHost(t[k], s[k + 1], exclude)
    BY <1>1, <1>2, <2>1 DEF ToSet
  <2>3. s[k + 1] \notin Upto(k)
    BY <1>1, <2>1, <2>2
  <2>4. Upto(k + 1) = Upto(k) \cup {s[k + 1]}
    BY <2>1
  <2>5. Collected(t[k], Upto(k), exclude)
    BY <1>4
  <2> HIDE DEF Upto
  <2>6. Collected(t[k + 1], Upto(k) \cup {s[k + 1]}, exclude)
    BY <2>2, <2>3, <2>5, TakeHostFact
  <2> QED
    BY <2>1, <2>4, <2>6
<1>5. n \in G
  <2>1. \A k \in 0 .. n : k \in G
    <3> HIDE DEF G
    <3> QED
      BY <1>1, <1>3, <1>4, UpTo
  <2>2. n \in 0 .. n
    BY <1>1
  <2> HIDE DEF G
  <2> QED
    BY <2>1, <2>2
<1>6. {s[j] : j \in 1 .. n} = Within(r)
  BY <1>1 DEF ToSet
<1> QED
  BY <1>2, <1>5, <1>6

Nothing == [hosts |-> <<>>, truncated |-> FALSE]

LEMMA TakeRangeType ==
    ASSUME NEW out \in Found, NEW r \in Interval, NEW exclude
    PROVE  TakeRange(out, r, exclude) \in Found
<1> DEFINE n == Len(Addresses(r))
<1>1. n \in Nat /\ n \in 0 .. n
  BY AddressesFact
<1> HIDE DEF n
<1>2. PICK t : t[n] = TakeRange(out, r, exclude) /\ \A k \in 0 .. n : t[k] \in Found
  BY TakeRangeFold DEF n
<1> QED
  BY <1>1, <1>2

LEMMA CollectFold ==
    ASSUME NEW s \in Seq(Interval), NEW exclude
    PROVE  \E t : /\ t[0] = Nothing /\ t[Len(s)] = CollectHosts(s, exclude)
                 /\ \A k \in 1 .. Len(s) : t[k] = TakeRange(t[k - 1], s[k], exclude)
<1> DEFINE n == Len(s)
           step == [k \in 1 .. n |-> [m \in Found |-> TakeRange(m, s[k], exclude)]]
           Is(f) == f = [d \in SUBSET (1 .. n) |->
                            IF d = {} THEN Nothing ELSE TakeRange(f[d \ {Max(d)}], s[Max(d)], exclude)]
           iter == CHOOSE f : Is(f)
<1>1. n \in Nat /\ DOMAIN s = 1 .. n /\ Nothing \in Found /\ \A k \in 1 .. n : s[k] \in Interval
  BY DEF Nothing, Found
<1>2. step \in [1 .. n -> [Found -> Found]]
  BY <1>1, TakeRangeType
<1>3. CollectHosts(s, exclude) = iter[1 .. n]
  BY <1>1 DEF CollectHosts, Nothing, FoldLeft, MapThenFoldSet
<1>4. PICK g \in [SUBSET (1 .. n) -> Found] : Folds(g, n, Nothing, step)
  <2> HIDE DEF step, n
  <2> QED
    BY <1>1, <1>2, FoldExists
<1>5. ASSUME NEW d \in SUBSET (1 .. n), d # {}
      PROVE  step[Max(d)][g[d \ {Max(d)}]] = TakeRange(g[d \ {Max(d)}], s[Max(d)], exclude)
  <2>1. Max(d) \in 1 .. n
    BY <1>1, <1>5, MaxFact
  <2>2. g[d \ {Max(d)}] \in Found
    BY <1>4
  <2> QED
    BY <2>1, <2>2
<1> HIDE DEF step
<1>6. Is(g)
  BY <1>4, <1>5 DEF Folds
<1>7. Is(iter)
  BY <1>6
<1> DEFINE t == [k \in 0 .. n |-> iter[1 .. k]]
<1>8. t[0] = Nothing /\ t[n] = iter[1 .. n]
  <2>1. 1 .. 0 = {} /\ {} \in SUBSET (1 .. n) /\ 0 \in 0 .. n /\ n \in 0 .. n
    BY <1>1
  <2>2. iter[{}] = Nothing
    BY <1>7, <2>1
  <2> QED
    BY <2>1, <2>2
<1>9. ASSUME NEW k \in 1 .. n PROVE t[k] = TakeRange(t[k - 1], s[k], exclude)
  <2> DEFINE d == 1 .. k
  <2>0. d \in SUBSET (1 .. n) /\ d # {} /\ Max(d) = k /\ d \ {k} = 1 .. k - 1
    BY <1>1, Beginning
  <2>1. iter[1 .. k] = TakeRange(iter[1 .. k - 1], s[k], exclude)
    <3>1. iter[d] = TakeRange(iter[d \ {Max(d)}], s[Max(d)], exclude)
      <4> HIDE DEF d, n
      <4> QED
        BY <1>7, <2>0
    <3> QED
      BY <2>0, <3>1
  <2> QED
    BY <1>1, <2>1
<1> QED
  BY <1>3, <1>8, <1>9

\* Of disjoint intervals every address is looked at once (collect_hosts).
LEMMA CollectFact ==
    ASSUME NEW s \in Seq(Interval), NEW exclude,
           \A i, j \in DOMAIN s : i < j => Within(s[i]) \cap Within(s[j]) = {}
    PROVE  Collected(CollectHosts(s, exclude), UNION {Within(s[i]) : i \in DOMAIN s}, exclude)
<1> DEFINE n == Len(s)
<1>1. n \in Nat /\ DOMAIN s = 1 .. n /\ \A k \in 1 .. n : s[k] \in Interval
  OBVIOUS
<1>2. PICK t : /\ t[0] = Nothing /\ t[n] = CollectHosts(s, exclude)
               /\ \A k \in 1 .. n : t[k] = TakeRange(t[k - 1], s[k], exclude)
  BY CollectFold
<1> DEFINE Upto(k) == UNION {Within(s[j]) : j \in 1 .. k}
           G == {k \in 0 .. n : Collected(t[k], Upto(k), exclude)}
<1> HIDE DEF n
<1>3. 0 \in G
  <2>1. 0 \in 0 .. n /\ 1 .. 0 = {}
    BY <1>1
  <2>2. Upto(0) = {}
    BY <2>1
  <2>3. Collected(Nothing, {}, exclude)
    <3>1. Nothing \in Found /\ Len(Nothing.hosts) = 0 /\ ToSet(Nothing.hosts) = {} /\ NoRepeats(Nothing.hosts)
      BY DEF Nothing, Found, ToSet, NoRepeats
    <3> QED
      BY <3>1, WidthAssumption DEF Collected
  <2> HIDE DEF Upto
  <2> QED
    BY <1>2, <2>1, <2>2, <2>3
<1>4. ASSUME NEW k \in 0 .. n - 1, k \in G PROVE k + 1 \in G
  <2>1. /\ k + 1 \in 1 .. n /\ k + 1 \in 0 .. n /\ (k + 1) - 1 = k
        /\ 1 .. k + 1 = (1 .. k) \cup {k + 1} /\ \A j \in 1 .. k : j \in 1 .. n /\ j < k + 1
    BY <1>1
  <2>2. s[k + 1] \in Interval /\ t[k + 1] = TakeRange(t[k], s[k + 1], exclude)
    BY <1>1, <1>2, <2>1
  <2>3. Within(s[k + 1]) \cap Upto(k) = {}
    <3>1. \A j \in 1 .. k : Within(s[j]) \cap Within(s[k + 1]) = {}
      BY <1>1, <2>1
    <3> QED
      BY <3>1
  <2>4. Upto(k + 1) = Upto(k) \cup Within(s[k + 1])
    BY <2>1
  <2>5. Collected(t[k], Upto(k), exclude)
    BY <1>4
  <2> HIDE DEF Upto
  <2>6. Collected(t[k + 1], Upto(k) \cup Within(s[k + 1]), exclude)
    BY <2>2, <2>3, <2>5, TakeRangeFact
  <2> QED
    BY <2>1, <2>4, <2>6
<1>5. n \in G
  <2>1. \A k \in 0 .. n : k \in G
    <3> HIDE DEF G
    <3> QED
      BY <1>1, <1>3, <1>4, UpTo
  <2>2. n \in 0 .. n
    BY <1>1
  <2> HIDE DEF G
  <2> QED
    BY <2>1, <2>2
<1> QED
  BY <1>1, <1>2, <1>5

-----------------------------------------------------------------------------
(* Taking subnets out. *)

LEMMA SubtractFact ==
    ASSUME NEW a \in Proper, NEW b \in Proper
    PROVE  /\ Subtract(a, b) \subseteq Proper /\ IsFiniteSet(Subtract(a, b))
           /\ \A x : (\E q \in Subtract(a, b) : x \in Within(q)) <=> x \in Within(a) /\ x \notin Within(b)
<1> DEFINE p == <<a[1], Smaller(a[2], b[1] - 1)>>
           q == <<Larger(a[1], b[2] + 1), a[2]>>
<1>1. /\ a[1] \in Int /\ a[2] \in Int /\ a[1] <= a[2]
      /\ b[1] \in Int /\ b[2] \in Int /\ b[1] <= b[2]
  BY DEF Proper, Interval
<1>2. p \in Interval /\ q \in Interval
  BY <1>1 DEF Interval, Smaller, Larger
<1>3. Subtract(a, b) = {r \in {p, q} : r[1] <= r[2]}
  BY DEF Subtract
<1>4. \A x : x \in Within(p) \/ x \in Within(q) <=> x \in Within(a) /\ x \notin Within(b)
  BY <1>1 DEF Within, Smaller, Larger
<1> HIDE DEF p, q
<1>5. \A x, r : x \in Within(r) /\ r \in Interval => r[1] <= r[2]
  BY DEF Within, Interval
<1>6. IsFiniteSet({p, q})
  <2>1. {p, q} = {p} \cup {q}
    OBVIOUS
  <2>2. IsFiniteSet({p}) /\ IsFiniteSet({q})
    BY FS_Singleton
  <2>3. IsFiniteSet({p} \cup {q})
    BY <2>2, FS_Union
  <2> QED
    BY <2>1, <2>3
<1>7. IsFiniteSet(Subtract(a, b))
  BY <1>3, <1>6, FS_Subset
<1> QED
  BY <1>2, <1>3, <1>4, <1>5, <1>7 DEF Proper

\* Finitely many intervals.
Pieces == {L \in SUBSET Proper : IsFiniteSet(L)}

InPieces(L, x) == \E q \in L : x \in Within(q)

LEMMA TakeOutFact ==
    ASSUME NEW L \in Pieces, NEW b \in Proper
    PROVE  /\ TakeOut(L, b) \in Pieces
           /\ \A x : InPieces(TakeOut(L, b), x) <=> InPieces(L, x) /\ x \notin Within(b)
<1> DEFINE f == [a \in L |-> Subtract(a, b)]
           T == {Subtract(a, b) : a \in L}
<1>1. \A a \in L : a \in Proper
  BY DEF Pieces
<1>2. f \in Surjection(L, T)
  BY DEF Surjection
<1>3. IsFiniteSet(T)
  <2> HIDE DEF f, T
  <2> QED
    BY <1>2, FS_Surjection DEF Pieces
<1>4. IsFiniteSet(UNION T)
  <2>1. \A t \in T : IsFiniteSet(t)
    BY <1>1, SubtractFact
  <2> HIDE DEF T
  <2> QED
    BY <1>3, <2>1, FS_UNION
<1>5. TakeOut(L, b) \in Pieces
  <2>1. UNION T \subseteq Proper
    BY <1>1, SubtractFact
  <2> QED
    BY <1>4, <2>1 DEF TakeOut, Pieces
<1>6. ASSUME NEW x PROVE InPieces(TakeOut(L, b), x) <=> InPieces(L, x) /\ x \notin Within(b)
  <2>1. InPieces(TakeOut(L, b), x) <=> \E a \in L : \E q \in Subtract(a, b) : x \in Within(q)
    BY DEF TakeOut, InPieces
  <2>2. \A a \in L : (\E q \in Subtract(a, b) : x \in Within(q)) <=> x \in Within(a) /\ x \notin Within(b)
    BY <1>1, SubtractFact
  <2> QED
    BY <2>1, <2>2 DEF InPieces
<1> QED
  BY <1>5, <1>6

LEMMA TakeOutFold ==
    ASSUME NEW s \in Seq(Proper), NEW r \in Proper
    PROVE  \E t : /\ t[0] = {r} /\ t[Len(s)] = FoldLeft(TakeOut, {r}, s)
                 /\ \A k \in 1 .. Len(s) : t[k] = TakeOut(t[k - 1], s[k])
<1> DEFINE n == Len(s)
           step == [k \in 1 .. n |-> [m \in Pieces |-> TakeOut(m, s[k])]]
           Is(f) == f = [d \in SUBSET (1 .. n) |->
                            IF d = {} THEN {r} ELSE TakeOut(f[d \ {Max(d)}], s[Max(d)])]
           iter == CHOOSE f : Is(f)
<1>1. n \in Nat /\ DOMAIN s = 1 .. n /\ {r} \in Pieces /\ \A k \in 1 .. n : s[k] \in Proper
  <2>1. IsFiniteSet({r}) /\ {r} \subseteq Proper
    BY FS_Singleton
  <2>2. {r} \in Pieces
    BY <2>1 DEF Pieces
  <2> QED
    BY <2>2
<1>2. step \in [1 .. n -> [Pieces -> Pieces]]
  BY <1>1, TakeOutFact
<1>3. FoldLeft(TakeOut, {r}, s) = iter[1 .. n]
  BY <1>1 DEF FoldLeft, MapThenFoldSet
<1>4. PICK g \in [SUBSET (1 .. n) -> Pieces] : Folds(g, n, {r}, step)
  <2> HIDE DEF step, n
  <2> QED
    BY <1>1, <1>2, FoldExists
<1>5. ASSUME NEW d \in SUBSET (1 .. n), d # {}
      PROVE  step[Max(d)][g[d \ {Max(d)}]] = TakeOut(g[d \ {Max(d)}], s[Max(d)])
  <2>1. Max(d) \in 1 .. n
    BY <1>1, <1>5, MaxFact
  <2>2. g[d \ {Max(d)}] \in Pieces
    BY <1>4
  <2> QED
    BY <2>1, <2>2
<1> HIDE DEF step
<1>6. Is(g)
  BY <1>4, <1>5 DEF Folds
<1>7. Is(iter)
  BY <1>6
<1> DEFINE t == [k \in 0 .. n |-> iter[1 .. k]]
<1>8. t[0] = {r} /\ t[n] = iter[1 .. n]
  <2>1. 1 .. 0 = {} /\ {} \in SUBSET (1 .. n) /\ 0 \in 0 .. n /\ n \in 0 .. n
    BY <1>1
  <2>2. iter[{}] = {r}
    BY <1>7, <2>1
  <2> QED
    BY <2>1, <2>2
<1>9. ASSUME NEW k \in 1 .. n PROVE t[k] = TakeOut(t[k - 1], s[k])
  <2> DEFINE d == 1 .. k
  <2>0. d \in SUBSET (1 .. n) /\ d # {} /\ Max(d) = k /\ d \ {k} = 1 .. k - 1
    BY <1>1, Beginning
  <2>1. iter[1 .. k] = TakeOut(iter[1 .. k - 1], s[k])
    <3>1. iter[d] = TakeOut(iter[d \ {Max(d)}], s[Max(d)])
      <4> HIDE DEF d, n
      <4> QED
        BY <1>7, <2>0
    <3> QED
      BY <2>0, <3>1
  <2> QED
    BY <1>1, <2>1
<1> QED
  BY <1>3, <1>8, <1>9

\* What is left of an entry lies in none of the subnets (the loop of hosts_outside).
LEMMA SubtractAllFact ==
    ASSUME NEW r \in Proper, NEW subnets \in Pieces
    PROVE  /\ SubtractAll(r, subnets) \in Pieces
           /\ \A x : InPieces(SubtractAll(r, subnets), x) <=> x \in Within(r) /\ ~InPieces(subnets, x)
<1> DEFINE s == Sorted(subnets)
           n == Len(s)
<1>1. /\ s \in Seq(Proper) /\ n \in Nat /\ DOMAIN s = 1 .. n
      /\ ToSet(s) = subnets /\ \A k \in 1 .. n : s[k] \in Proper
  <2>1. subnets \in SUBSET Interval /\ IsFiniteSet(subnets) /\ subnets \subseteq Proper
    BY DEF Pieces, Proper
  <2>2. s \in Seq(Interval) /\ ToSet(s) = subnets
    BY <2>1, SortedFact
  <2> HIDE DEF s
  <2>3. \A k \in DOMAIN s : s[k] \in Proper
    BY <2>1, <2>2 DEF ToSet
  <2> QED
    BY <2>2, <2>3
<1>2. PICK t : /\ t[0] = {r} /\ t[n] = SubtractAll(r, subnets)
               /\ \A k \in 1 .. n : t[k] = TakeOut(t[k - 1], s[k])
  BY <1>1, TakeOutFold DEF SubtractAll
<1> DEFINE Good(k) == /\ t[k] \in Pieces
                      /\ \A x : InPieces(t[k], x) <=> /\ x \in Within(r)
                                                    /\ \A j \in 1 .. k : x \notin Within(s[j])
           G == {k \in 0 .. n : Good(k)}
<1> HIDE DEF s, n
<1>3. 0 \in G
  <2>1. 0 \in 0 .. n /\ 1 .. 0 = {}
    BY <1>1
  <2>2. {r} \in Pieces /\ \A x : InPieces({r}, x) <=> x \in Within(r)
    BY FS_Singleton DEF Pieces, InPieces
  <2>3. Good(0)
    BY <1>2, <2>1, <2>2
  <2> QED
    BY <2>1, <2>3
<1>4. ASSUME NEW k \in 0 .. n - 1, k \in G PROVE k + 1 \in G
  <2>1. k + 1 \in 1 .. n /\ k + 1 \in 0 .. n /\ (k + 1) - 1 = k /\ 1 .. k + 1 = (1 .. k) \cup {k + 1}
    BY <1>1
  <2>2. s[k + 1] \in Proper /\ t[k + 1] = TakeOut(t[k], s[k + 1])
    BY <1>1, <1>2, <2>1
  <2>3. Good(k)
    BY <1>4
  <2>4. /\ t[k + 1] \in Pieces
        /\ \A x : InPieces(t[k + 1], x) <=> InPieces(t[k], x) /\ x \notin Within(s[k + 1])
    BY <2>2, <2>3, TakeOutFact
  <2>5. Good(k + 1)
    BY <2>1, <2>3, <2>4
  <2> QED
    BY <2>1, <2>5
<1>5. n \in G
  <2>1. \A k \in 0 .. n : k \in G
    <3> HIDE DEF G
    <3> QED
      BY <1>1, <1>3, <1>4, UpTo
  <2>2. n \in 0 .. n
    BY <1>1
  <2> HIDE DEF G
  <2> QED
    BY <2>1, <2>2
<1>6. \A x : (\A j \in 1 .. n : x \notin Within(s[j])) <=> ~InPieces(subnets, x)
  BY <1>1 DEF ToSet, InPieces
<1> QED
  BY <1>2, <1>5, <1>6

-----------------------------------------------------------------------------
(* The two enumerations. *)

LEMMA HostRangeFact ==
    ASSUME NEW ip \in Addr, NEW prefix \in Prefix
    PROVE  /\ HostRange(ip, prefix) \in Interval
           /\ Within(HostRange(ip, prefix)) \subseteq Within(SubnetBounds(ip, prefix))
<1> DEFINE b == SubnetBounds(ip, prefix)
<1>1. b \in Interval /\ b[1] \in Int /\ b[2] \in Int
  BY SubnetFact, RangeFact DEF Proper, Interval
<1>2. HostRange(ip, prefix) = IF b[2] - b[1] < 2 THEN b ELSE <<b[1] + 1, b[2] - 1>>
  BY DEF HostRange
<1> HIDE DEF b
<1> QED
  BY <1>1, <1>2 DEF Interval, Within, b

\* hosts_within looks at the hosts of the subnet the scope allows.
LEMMA HostsWithinFact ==
    ASSUME NEW scope \in Seq(Range2), scope # <<>>,
           NEW ip \in Addr, NEW prefix \in Prefix, NEW exclude
    PROVE  Collected(HostsWithin(scope, ip, prefix, exclude),
                     Within(HostRange(ip, prefix)) \cap Allowed(scope), exclude)
<1> DEFINE hosts == HostRange(ip, prefix)
           m     == Merged(scope)
           cut   == [i \in DOMAIN m |-> <<Larger(m[i][1], hosts[1]), Smaller(m[i][2], hosts[2])>>]
<1>1. hosts \in Interval /\ hosts[1] \in Int /\ hosts[2] \in Int
  BY HostRangeFact DEF Interval
<1>2. /\ Tidy(m) /\ \A x : Covers(m, x) <=> x \in Allowed(scope)
      /\ Len(m) \in Nat /\ DOMAIN m = 1 .. Len(m)
      /\ \A i \in DOMAIN m : m[i][1] \in Int /\ m[i][2] \in Int
  <2>1. Tidy(m) /\ \A x : Covers(m, x) <=> x \in Allowed(scope)
    BY MergedFact
  <2> HIDE DEF m
  <2> QED
    BY <2>1 DEF Tidy, Proper, Interval
<1>3. HostsWithin(scope, ip, prefix, exclude) = CollectHosts(cut, exclude)
  BY DEF HostsWithin
<1> HIDE DEF m, hosts
<1>4. \A i \in DOMAIN m : cut[i] \in Interval /\ Within(cut[i]) = Within(m[i]) \cap Within(hosts)
  <2>1. ASSUME NEW i \in DOMAIN m
        PROVE  cut[i] \in Interval /\ Within(cut[i]) = Within(m[i]) \cap Within(hosts)
    <3>1. /\ cut[i][1] = Larger(m[i][1], hosts[1]) /\ cut[i][2] = Smaller(m[i][2], hosts[2])
          /\ cut[i] = <<Larger(m[i][1], hosts[1]), Smaller(m[i][2], hosts[2])>>
      OBVIOUS
    <3>2. /\ m[i][1] \in Int /\ m[i][2] \in Int
      BY <1>2
    <3> HIDE DEF cut
    <3> QED
      BY <1>1, <3>1, <3>2 DEF Interval, Within, Larger, Smaller
  <2> QED
    BY <2>1
<1>5. DOMAIN cut = DOMAIN m
  OBVIOUS
<1> HIDE DEF cut
<1>6. cut \in Seq(Interval)
  <2>1. cut = [i \in 1 .. Len(m) |-> cut[i]]
    BY <1>2 DEF cut
  <2> QED
    BY <1>2, <1>4, <2>1
<1>7. \A i, j \in DOMAIN cut : i < j => Within(cut[i]) \cap Within(cut[j]) = {}
  <2>1. \A i, j \in DOMAIN m : i < j => Within(m[i]) \cap Within(m[j]) = {}
    BY <1>2 DEF Tidy, Within
  <2> QED
    BY <1>4, <1>5, <2>1
<1>8. UNION {Within(cut[i]) : i \in DOMAIN cut} = Within(hosts) \cap Allowed(scope)
  <2>1. \A x : (\E i \in DOMAIN cut : x \in Within(cut[i])) <=> x \in Within(hosts) /\ Covers(m, x)
    BY <1>4, <1>5 DEF Covers
  <2> QED
    BY <1>2, <2>1
<1> QED
  BY <1>3, <1>6, <1>7, <1>8, CollectFact DEF hosts

\* The addresses hosts_outside is for.
FarAddresses(scope, subnets) ==
    {x \in UNION {Within(r) : r \in {q \in ToSet(scope) : Size(q) <= MaxHosts}} : ~InPieces(subnets, x)}

LEMMA HostsOutsideFact ==
    ASSUME NEW scope \in Seq(Range2), NEW subnets \in Pieces
    PROVE  Collected(HostsOutside(scope, subnets), FarAddresses(scope, subnets), {})
<1> DEFINE small == {r \in ToSet(scope) : Size(r) <= MaxHosts}
           T     == {SubtractAll(r, subnets) : r \in small}
           left  == UNION T
           f     == [r \in small |-> SubtractAll(r, subnets)]
           m     == Merge(left)
<1>1. HostsOutside(scope, subnets) = CollectHosts(m, {})
  BY DEF HostsOutside
<1>2. IsFiniteSet(small) /\ \A r \in small : r \in Proper
  <2>1. IsFiniteSet(ToSet(scope)) /\ ToSet(scope) \subseteq Proper
    BY FiniteFact, RangeFact
  <2>2. small \subseteq ToSet(scope)
    OBVIOUS
  <2> QED
    BY <2>1, <2>2, FS_Subset
<1> HIDE DEF small
<1>3. \A r \in small : /\ SubtractAll(r, subnets) \in Pieces
                       /\ \A x : InPieces(SubtractAll(r, subnets), x)
                                    <=> x \in Within(r) /\ ~InPieces(subnets, x)
  BY <1>2, SubtractAllFact
<1>4. f \in Surjection(small, T)
  BY DEF Surjection
<1>5. IsFiniteSet(T)
  <2> HIDE DEF f, T
  <2> QED
    BY <1>2, <1>4, FS_Surjection
<1>6. \A t \in T : IsFiniteSet(t) /\ t \subseteq Proper
  BY <1>3 DEF Pieces
<1>7. left \in SUBSET Proper /\ IsFiniteSet(left)
  <2>1. IsFiniteSet(UNION T)
    <3> HIDE DEF T
    <3> QED
      BY <1>5, <1>6, FS_UNION
  <2> QED
    BY <1>6, <2>1
<1>8. ASSUME NEW x PROVE (\E q \in left : x \in Within(q)) <=> x \in FarAddresses(scope, subnets)
  <2>1. (\E q \in left : x \in Within(q)) <=> \E r \in small : InPieces(SubtractAll(r, subnets), x)
    BY DEF InPieces
  <2>2. x \in FarAddresses(scope, subnets) <=> (\E r \in small : x \in Within(r)) /\ ~InPieces(subnets, x)
    BY DEF FarAddresses, small
  <2> QED
    BY <1>3, <2>1, <2>2
<1> HIDE DEF left
<1>9. Tidy(m) /\ \A x : Covers(m, x) <=> x \in FarAddresses(scope, subnets)
  BY <1>7, <1>8, MergeFact
<1> HIDE DEF m
<1>10. m \in Seq(Interval) /\ \A i, j \in DOMAIN m : i < j => Within(m[i]) \cap Within(m[j]) = {}
  <2>1. /\ m \in Seq(Interval) /\ Len(m) \in Nat /\ DOMAIN m = 1 .. Len(m)
        /\ \A i \in DOMAIN m : m[i][1] \in Int /\ m[i][2] \in Int
    BY <1>9 DEF Tidy, Proper, Interval
  <2> QED
    BY <1>9, <2>1 DEF Tidy, Within
<1>11. UNION {Within(m[i]) : i \in DOMAIN m} = FarAddresses(scope, subnets)
  BY <1>9 DEF Covers
<1> QED
  BY <1>1, <1>10, <1>11, CollectFact

-----------------------------------------------------------------------------
(* The plans. *)

LEMMA OffLinkFact ==
    ASSUME NEW entries \in SUBSET Entry, IsFiniteSet(entries), NEW scope \in Seq(Range2), scope # <<>>
    PROVE  LET subnets == {Subnet(t) : t \in SendTargets(entries)}
           IN Collected(OffLink(entries, scope), FarAddresses(scope, subnets), {})
<1> DEFINE S == SendTargets(entries)
           subnets == {Subnet(t) : t \in S}
           f == [t \in S |-> Subnet(t)]
<1>1. S \subseteq entries /\ IsFiniteSet(S)
  <2>1. S \subseteq entries
    BY DEF SendTargets
  <2> HIDE DEF S
  <2> QED
    BY <2>1, FS_Subset
<1> HIDE DEF S
<1>2. IsFiniteSet(subnets)
  <2>1. f \in Surjection(S, subnets)
    BY DEF Surjection
  <2> HIDE DEF f, subnets
  <2> QED
    BY <1>1, <2>1, FS_Surjection
<1>3. \A t \in S : Subnet(t) \in Proper
  <2>1. \A t \in S : t.ip \in Addr /\ t.prefix \in Prefix
    BY <1>1 DEF Entry
  <2> QED
    BY <2>1, SubnetFact, RangeFact DEF Subnet
<1>4. subnets \in Pieces
  BY <1>2, <1>3 DEF Pieces
<1> HIDE DEF subnets
<1>5. Collected(HostsOutside(scope, subnets), FarAddresses(scope, subnets), {})
  BY <1>4, HostsOutsideFact
<1> QED
  BY <1>5 DEF OffLink, Unrestricted, S, subnets

-----------------------------------------------------------------------------
(* Lists of lines. *)

Line == Range2 \cup {BadLine}

LEMMA KeepLineType ==
    ASSUME NEW good \in Seq(Range2), NEW l \in Line
    PROVE  KeepLine(good, l) \in Seq(Range2)
  BY DEF KeepLine, Line

\* parse_lenient returns entries only.
LEMMA LenientType ==
    ASSUME NEW s \in Seq(Line)
    PROVE  Lenient(s) \in Seq(Range2)
<1> DEFINE n == Len(s)
           step == [k \in 1 .. n |-> [m \in Seq(Range2) |-> KeepLine(m, s[k])]]
           Is(f) == f = [d \in SUBSET (1 .. n) |->
                            IF d = {} THEN <<>> ELSE KeepLine(f[d \ {Max(d)}], s[Max(d)])]
           iter == CHOOSE f : Is(f)
<1>1. n \in Nat /\ DOMAIN s = 1 .. n /\ <<>> \in Seq(Range2) /\ \A k \in 1 .. n : s[k] \in Line
  OBVIOUS
<1>2. step \in [1 .. n -> [Seq(Range2) -> Seq(Range2)]]
  BY <1>1, KeepLineType
<1>3. Lenient(s) = iter[1 .. n]
  BY <1>1 DEF Lenient, FoldLeft, MapThenFoldSet
<1>4. PICK g \in [SUBSET (1 .. n) -> Seq(Range2)] : Folds(g, n, <<>>, step)
  <2> HIDE DEF step, n
  <2> QED
    BY <1>1, <1>2, FoldExists
<1>5. ASSUME NEW d \in SUBSET (1 .. n), d # {}
      PROVE  step[Max(d)][g[d \ {Max(d)}]] = KeepLine(g[d \ {Max(d)}], s[Max(d)])
  <2>1. Max(d) \in 1 .. n
    BY <1>1, <1>5, MaxFact
  <2>2. g[d \ {Max(d)}] \in Seq(Range2)
    BY <1>4
  <2> QED
    BY <2>1, <2>2
<1> HIDE DEF step
<1>6. Is(g)
  BY <1>4, <1>5 DEF Folds
<1>7. Is(iter)
  BY <1>6
<1> DEFINE t == [k \in 0 .. n |-> iter[1 .. k]]
<1>8. t[0] = <<>> /\ t[n] = iter[1 .. n]
  <2>1. 1 .. 0 = {} /\ {} \in SUBSET (1 .. n) /\ 0 \in 0 .. n /\ n \in 0 .. n
    BY <1>1
  <2>2. iter[{}] = <<>>
    BY <1>7, <2>1
  <2> QED
    BY <2>1, <2>2
<1>9. ASSUME NEW k \in 1 .. n PROVE t[k] = KeepLine(t[k - 1], s[k])
  <2> DEFINE d == 1 .. k
  <2>0. d \in SUBSET (1 .. n) /\ d # {} /\ Max(d) = k /\ d \ {k} = 1 .. k - 1
    BY <1>1, Beginning
  <2>1. iter[1 .. k] = KeepLine(iter[1 .. k - 1], s[k])
    <3>1. iter[d] = KeepLine(iter[d \ {Max(d)}], s[Max(d)])
      <4> HIDE DEF d, n
      <4> QED
        BY <1>7, <2>0
    <3> QED
      BY <2>0, <3>1
  <2> QED
    BY <1>1, <2>1
<1>10. n \in 0 .. n /\ t[n] = Lenient(s)
  BY <1>1, <1>3, <1>8
<1> DEFINE G == {k \in 0 .. n : t[k] \in Seq(Range2)}
<1> HIDE DEF t, n
<1>11. 0 \in G
  <2>1. 0 \in 0 .. n
    BY <1>1
  <2>2. t[0] \in Seq(Range2)
    BY <1>8
  <2> QED
    BY <2>1, <2>2
<1>12. ASSUME NEW k \in 0 .. n - 1, k \in G PROVE k + 1 \in G
  <2>1. k + 1 \in 1 .. n /\ k + 1 \in 0 .. n /\ (k + 1) - 1 = k
    BY <1>1
  <2>2. t[k + 1] = KeepLine(t[k], s[k + 1]) /\ s[k + 1] \in Line /\ t[k] \in Seq(Range2)
    BY <1>1, <1>9, <1>12, <2>1
  <2> QED
    BY <2>1, <2>2, KeepLineType
<1>13. \A k \in 0 .. n : k \in G
  <2> HIDE DEF G
  <2> QED
    BY <1>1, <1>11, <1>12, UpTo
<1> QED
  BY <1>10, <1>13

\* So does parse, if it returns any.
LEMMA ValidType ==
    ASSUME NEW s \in Seq(Line), Valid(s)
    PROVE  s \in Seq(Range2)
<1>1. \A i \in DOMAIN s : s[i] \in Range2
  BY DEF Valid, Line
<1> QED
  BY <1>1

-----------------------------------------------------------------------------
(* What is sent to, for any interfaces and any scope. *)

LEMMA EntryFact ==
    ASSUME NEW e \in Entry
    PROVE  e.ip \in Addr /\ e.prefix \in Prefix /\ Subnet(e) = SubnetBounds(e.ip, e.prefix)
  BY DEF Entry, Subnet

\* A plan is a broadcast to a subnet the scope allows as a whole, or unicasts to
\* the hosts of it the scope allows (send_plans).
LEMMA PlanFact ==
    ASSUME NEW entries \in SUBSET Entry, NEW scope \in Seq(Range2),
           NEW p \in Plans(entries, scope)
    PROVE  LET t    == p.iface
               some == Within(HostRange(t.ip, t.prefix)) \cap Allowed(scope)
           IN /\ t \in entries
              /\ p.mode = "broadcast" => Within(Subnet(t)) \subseteq Allowed(scope)
              /\ p.mode # "broadcast" =>
                    Collected([hosts |-> p.hosts, truncated |-> p.truncated], some,
                              OwnAddresses(entries, t))
<1>1. PICK t \in SendTargets(entries) : p = PlanFor(entries, scope, t)
  BY DEF Plans
<1>2. t \in entries /\ t \in Entry
  BY <1>1 DEF SendTargets
<1> DEFINE found == HostsWithin(scope, t.ip, t.prefix, OwnAddresses(entries, t))
<1>3. p.iface = t
  BY <1>1 DEF PlanFor
<1>4. CASE CoversSubnet(scope, t.ip, t.prefix)
  <2>1. p.mode = "broadcast"
    BY <1>1, <1>4 DEF PlanFor
  <2>2. Within(Subnet(t)) \subseteq Allowed(scope)
    BY <1>2, <1>4, CoversCorrect, EntryFact
  <2> QED
    BY <1>2, <1>3, <2>1, <2>2
<1>5. CASE ~CoversSubnet(scope, t.ip, t.prefix)
  <2>1. p.mode \in {"silent", "unicast"} /\ p.hosts = found.hosts /\ p.truncated = found.truncated
    BY <1>1, <1>5 DEF PlanFor
  <2>2. scope # <<>>
    BY <1>5 DEF CoversSubnet, Unrestricted
  <2>3. Collected(found, Within(HostRange(t.ip, t.prefix)) \cap Allowed(scope), OwnAddresses(entries, t))
    BY <1>2, <2>2, EntryFact, HostsWithinFact
  <2>4. found = [hosts |-> found.hosts, truncated |-> found.truncated]
    BY <2>3 DEF Collected, Found
  <2>5. Collected([hosts |-> p.hosts, truncated |-> p.truncated],
                  Within(HostRange(t.ip, t.prefix)) \cap Allowed(scope), OwnAddresses(entries, t))
    BY <2>1, <2>3, <2>4
  <2> QED
    BY <1>2, <1>3, <2>1, <2>5
<1> QED
  BY <1>4, <1>5

\* Nobody out of range hears anything.
LEMMA StealthyFact ==
    ASSUME NEW entries \in SUBSET Entry, IsFiniteSet(entries), NEW scope \in Seq(Range2)
    PROVE  Stealthy(entries, scope)
<1>1. ASSUME NEW p \in Plans(entries, scope) PROVE Heard(p) \subseteq Allowed(scope)
  <2>1. CASE p.mode = "broadcast"
    BY <2>1, PlanFact DEF Heard
  <2>2. CASE p.mode # "broadcast"
    <3>1. ToSet(p.hosts) \subseteq Allowed(scope)
      BY <2>2, PlanFact DEF Collected
    <3> QED
      BY <2>2, <3>1 DEF Heard
  <2> QED
    BY <2>1, <2>2
<1>2. ToSet(OffLink(entries, scope).hosts) \subseteq Allowed(scope)
  <2>1. CASE scope = <<>>
    BY <2>1 DEF OffLink, Unrestricted, ToSet
  <2>2. CASE scope # <<>>
    <3>1. ToSet(OffLink(entries, scope).hosts) \subseteq
             FarAddresses(scope, {Subnet(t) : t \in SendTargets(entries)})
      BY <2>2, OffLinkFact DEF Collected
    <3> QED
      BY <2>2, <3>1 DEF FarAddresses, Allowed, Unrestricted
  <2> QED
    BY <2>1, <2>2
<1>3. ASSUME NEW x \in HeardAll(entries, scope) PROVE x \in Allowed(scope)
  <2>1. \/ \E p \in Plans(entries, scope) : x \in Heard(p)
        \/ x \in ToSet(OffLink(entries, scope).hosts)
    BY <1>3 DEF HeardAll
  <2> QED
    BY <1>1, <1>2, <2>1
<1> QED
  BY <1>3 DEF Stealthy

\* Everybody in range who can be enumerated hears it.
LEMMA ReachingFact ==
    ASSUME NEW entries \in SUBSET Entry, IsFiniteSet(entries), NEW scope \in Seq(Range2)
    PROVE  Reaching(entries, scope)
<1> DEFINE own == {e.ip : e \in entries}
<1>1. ASSUME NEW p \in Plans(entries, scope)
      PROVE  p.truncated \/ (Within(HostRange(p.iface.ip, p.iface.prefix)) \cap Allowed(scope)) \ own
                               \subseteq Heard(p)
  <2> DEFINE t == p.iface
             some == Within(HostRange(t.ip, t.prefix)) \cap Allowed(scope)
  <2>1. t \in entries /\ t \in Entry
    BY PlanFact
  <2>2. CASE p.mode = "broadcast"
    <3>1. some \subseteq Within(Subnet(t))
      BY <2>1, EntryFact, HostRangeFact
    <3> QED
      BY <2>2, <3>1 DEF Heard
  <2>3. CASE p.mode # "broadcast"
    <3>1. ~p.truncated => some \ OwnAddresses(entries, t) \subseteq ToSet(p.hosts)
      BY <2>3, PlanFact DEF Collected
    <3>2. OwnAddresses(entries, t) \subseteq own
      BY DEF OwnAddresses
    <3> QED
      BY <2>3, <3>1, <3>2 DEF Heard
  <2> QED
    BY <2>2, <2>3
<1>2. ASSUME NEW r \in ToSet(scope), Size(r) <= MaxHosts, ~OffLink(entries, scope).truncated
      PROVE  Within(r) \ UNION {Within(Subnet(e)) : e \in entries} \subseteq ToSet(OffLink(entries, scope).hosts)
  <2> DEFINE subnets == {Subnet(t) : t \in SendTargets(entries)}
  <2>1. scope # <<>>
    BY <1>2 DEF ToSet
  <2>2. FarAddresses(scope, subnets) \subseteq ToSet(OffLink(entries, scope).hosts)
    BY <1>2, <2>1, OffLinkFact DEF Collected
  <2>3. ASSUME NEW x \in Within(r), \A e \in entries : x \notin Within(Subnet(e))
        PROVE  x \in FarAddresses(scope, subnets)
    <3>1. ~InPieces(subnets, x)
      BY <2>3 DEF InPieces, SendTargets
    <3> QED
      BY <1>2, <3>1 DEF FarAddresses
  <2> QED
    BY <2>2, <2>3
<1> QED
  BY <1>1, <1>2 DEF Reaching

\* Unicasts go to others, each once.
LEMMA BatchRightFact ==
    ASSUME NEW entries \in SUBSET Entry, IsFiniteSet(entries), NEW scope \in Seq(Range2)
    PROVE  BatchRight(entries, scope)
<1>1. NoRepeats(OffLink(entries, scope).hosts)
  <2>1. CASE scope = <<>>
    BY <2>1 DEF OffLink, Unrestricted, NoRepeats
  <2>2. CASE scope # <<>>
    BY <2>2, OffLinkFact DEF Collected
  <2> QED
    BY <2>1, <2>2
<1>2. ASSUME NEW p \in Plans(entries, scope), p.mode = "unicast"
      PROVE  /\ NoRepeats(p.hosts) /\ Len(p.hosts) <= MaxHosts
             /\ \A e \in entries : SameSubnet(e, p.iface) => e.ip \notin ToSet(p.hosts)
             /\ ToSet(p.hosts) \subseteq Within(HostRange(p.iface.ip, p.iface.prefix))
  <2> DEFINE t == p.iface
             some == Within(HostRange(t.ip, t.prefix)) \cap Allowed(scope)
  <2>1. Collected([hosts |-> p.hosts, truncated |-> p.truncated], some, OwnAddresses(entries, t))
    BY <1>2, PlanFact
  <2>2. /\ NoRepeats(p.hosts) /\ Len(p.hosts) <= MaxHosts
        /\ ToSet(p.hosts) \subseteq some \ OwnAddresses(entries, t)
    BY <2>1 DEF Collected
  <2>3. \A e \in entries : SameSubnet(e, t) => e.ip \in OwnAddresses(entries, t)
    BY DEF OwnAddresses
  <2> QED
    BY <2>2, <2>3
<1> QED
  BY <1>1, <1>2 DEF BatchRight

-----------------------------------------------------------------------------
(* The registry only ever publishes interfaces and entries. *)

RegistryInv ==
    /\ policy.scope \in Seq(Range2) /\ snap.scope \in Seq(Range2)
    /\ os \in OsStates /\ snap.entries \in SUBSET Entry /\ IsFiniteSet(snap.entries)

LEMMA BuildEntriesType ==
    ASSUME NEW o \in OsStates, NEW excluded
    PROVE  BuildEntries(o, excluded) \in SUBSET Entry /\ IsFiniteSet(BuildEntries(o, excluded))
<1>1. o \in SUBSET Entry /\ IsFiniteSet(o) /\ BuildEntries(o, excluded) \subseteq o
  BY OsAssumption DEF BuildEntries
<1> QED
  BY <1>1, FS_Subset

LEMMA LinesFact ==
    ASSUME NEW lines \in SavedLines \cup NewLines
    PROVE  lines \in Seq(Line)
  BY LinesAssumption DEF Line

LEMMA PublishType ==
    ASSUME RegistryInv, NEW p, p.scope \in Seq(Range2), Publish(p)
    PROVE  snap'.scope \in Seq(Range2) /\ snap'.entries \in SUBSET Entry /\ IsFiniteSet(snap'.entries)
<1>1. snap' = snap \/ snap' = Looked(os, p)
  BY DEF Publish
<1>2. Looked(os, p).scope = p.scope /\ Looked(os, p).entries = BuildEntries(os, p.excluded)
  BY DEF Looked
<1> QED
  BY <1>1, <1>2, BuildEntriesType DEF RegistryInv

LEMMA RegistryInit == Init => RegistryInv
<1> SUFFICES ASSUME Init PROVE RegistryInv
  OBVIOUS
<1>1. PICK lines \in SavedLines, excluded \in SUBSET Excludable :
          /\ policy = [excluded |-> excluded, scope |-> Lenient(lines)]
          /\ snap = [generation |-> 1, entries |-> BuildEntries(os, excluded), scope |-> Lenient(lines)]
  BY DEF Init
<1>2. Lenient(lines) \in Seq(Range2)
  BY LinesFact, LenientType
<1>3. os \in OsStates
  BY DEF Init
<1> QED
  BY <1>1, <1>2, <1>3, BuildEntriesType DEF RegistryInv

LEMMA RegistryNext == RegistryInv /\ [Next]_vars => RegistryInv'
<1> SUFFICES ASSUME RegistryInv, [Next]_vars PROVE RegistryInv'
  OBVIOUS
<1>1. ASSUME NEW o \in OsStates, OsChange(o) PROVE RegistryInv'
  BY <1>1 DEF OsChange, RegistryInv
<1>2. ASSUME NEW excluded \in SUBSET Excludable, NEW lines \in NewLines, SetPolicy(excluded, lines)
      PROVE  RegistryInv'
  <2> DEFINE new == [excluded |-> excluded, scope |-> lines]
  <2>1. policy' = new /\ Publish(new) /\ Valid(lines) /\ os' = os
    BY <1>2 DEF SetPolicy
  <2>2. new.scope \in Seq(Range2)
    BY <2>1, LinesFact, ValidType
  <2> HIDE DEF new
  <2> QED
    BY <2>1, <2>2, PublishType DEF RegistryInv
<1>3. ASSUME Refresh PROVE RegistryInv'
  <2>1. Publish(policy) /\ policy' = policy /\ os' = os
    BY <1>3 DEF Refresh
  <2>2. policy.scope \in Seq(Range2)
    BY DEF RegistryInv
  <2> QED
    BY <2>1, <2>2, PublishType DEF RegistryInv
<1>4. ASSUME UNCHANGED <<os, policy, snap>> PROVE RegistryInv'
  BY <1>4 DEF RegistryInv
<1> QED
  BY <1>1, <1>2, <1>3, <1>4
  DEF Next, SettingsStep, RosterStep, SettingsBcast, SettingsRead, SettingsSubmit,
      RosterBcast, RosterRead, RosterSubmit, vars

LEMMA RegistryCorrect == Spec => []RegistryInv
  BY RegistryInit, RegistryNext, PTL DEF Spec

LEMMA ScopesType == RegistryInv => \A scope \in Scopes : scope \in Seq(Range2)
  BY LinesAssumption DEF RegistryInv, Scopes

\* Strict stealth, for any interfaces, masks, entries and exclusions: whatever the
\* registry publishes, nobody outside the range hears an announcement.
THEOREM StealthCorrect == Spec => []Stealth
<1>1. RegistryInv => Stealth
  BY StealthyFact, ScopesType DEF RegistryInv, Stealth
<1> QED
  BY <1>1, RegistryCorrect, PTL

\* Nor is anybody in range forgotten who can be enumerated.
THEOREM ReachCorrect == Spec => []Reach
<1>1. RegistryInv => Reach
  BY ReachingFact, ScopesType DEF RegistryInv, Reach
<1> QED
  BY <1>1, RegistryCorrect, PTL

\* No batch of unicasts names an address twice, or one the device has on that subnet.
THEOREM BatchesCorrect == Spec => []BatchesAreRight
<1>1. RegistryInv => BatchesAreRight
  BY BatchRightFact, ScopesType DEF RegistryInv, BatchesAreRight
<1> QED
  BY <1>1, RegistryCorrect, PTL

=============================================================================
