----------------------------- MODULE DirStream -----------------------------
(***************************************************************************)
(* receive_dir_stream of bigpaw-ipmsg/src/filexfer.rs: a folder arrives as  *)
(* one stream of entries, each of which opens a directory, holds a file, or *)
(* returns to the parent.  Names a file system must not see (safe_basename) *)
(* are consumed and left out.  An entry may also end the reading: its header*)
(* makes no sense (malformed); it, or its header-size, cannot be read, or   *)
(* the file system refuses it (broken); its file stops short, on the way or *)
(* on the disk (partial); its header-size is more than memory holds (huge). *)
(*                                                                         *)
(* A path is the sequence of the entries, by number, whose names it is made *)
(* of: no two entries have one name.                                        *)
(***************************************************************************)
EXTENDS Naturals, SequencesExt, FiniteSets

CONSTANT MaxEntries   \* bound: entries of a stream

ASSUME EntriesAssumption == MaxEntries \in Nat

Enders == {"malformed", "broken", "partial", "huge"}

Entries ==
    [kind: {"dir", "file", "partial"}, safe: BOOLEAN]
    \cup [kind: {"return", "malformed", "broken", "huge"}, safe: {TRUE}]

Streams == UNION {[1 .. n -> Entries] : n \in 0 .. MaxEntries}

-----------------------------------------------------------------------------
(* The receiver: the stack of the directories that are open. *)

Received == [stack |-> << <<>> >>, dirs |-> {}, files |-> {}, cut |-> {}, ended |-> "no"]

\* (mutation) A directory that is not created is not entered either.
EnterSkipping(r, i, safe) ==
    LET path == Append(Last(r.stack), i)
    IN IF safe
       THEN [r EXCEPT !.stack = Append(@, path), !.dirs = @ \cup {path}]
       ELSE r

\* A directory that is not created still takes its place on the stack, so that
\* the returns match.
Enter(r, i, safe) ==
    LET path == Append(Last(r.stack), i)
    IN IF safe
       THEN [r EXCEPT !.stack = Append(@, path), !.dirs = @ \cup {path}]
       ELSE [r EXCEPT !.stack = Append(@, Last(@))]

\* The root stays.
Return(r) == IF Len(r.stack) > 1 THEN [r EXCEPT !.stack = Front(@)] ELSE r

Write(r, i, safe) ==
    IF safe THEN [r EXCEPT !.files = @ \cup {Append(Last(r.stack), i)}] ELSE r

\* What was written of a file that stops short stays where it is.
Begin(r, i, safe) ==
    IF safe THEN [r EXCEPT !.cut = @ \cup {Append(Last(r.stack), i)}] ELSE r

\* A header that makes no sense ends the loop in good order; an Err is reported as
\* a failure; and vec![0u8; remaining] panics.
Verdict(kind) ==
    CASE kind = "malformed"             -> "ok"
      [] kind \in {"broken", "partial"} -> "error"
      [] kind = "huge"                  -> "panic"

\* One turn of the loop.
Take(r, i, e) ==
    IF r.ended # "no" THEN r
    ELSE CASE e.kind = "dir"    -> Enter(r, i, e.safe)
           [] e.kind = "file"   -> Write(r, i, e.safe)
           [] e.kind = "return" -> Return(r)
           [] e.kind \in Enders -> [(IF e.kind = "partial" THEN Begin(r, i, e.safe) ELSE r)
                                        EXCEPT !.ended = Verdict(e.kind)]

Receiver(s) ==
    LET After[n \in 0 .. Len(s)] ==
            IF n = 0 THEN Received ELSE Take(After[n - 1], n, s[n])
    IN  After[Len(s)]

-----------------------------------------------------------------------------
(* What the stream describes. *)

Count(s, kind, from, to) == Cardinality({k \in from .. to : s[k].kind = kind})

\* Directory j is open at entry i: no return so far went beyond it.
OpenAt(s, j, i) ==
    /\ j < i /\ s[j].kind = "dir"
    /\ \A k \in j + 1 .. i - 1 : Count(s, "return", j + 1, k) <= Count(s, "dir", j + 1, k)

\* The numbers of S in their order.
Ascending(S) ==
    CHOOSE p \in [1 .. Cardinality(S) -> S] :
        ToSet(p) = S /\ \A k, l \in DOMAIN p : k < l => p[k] < p[l]

PathOf(s, i) == Append(Ascending({j \in 1 .. i - 1 : OpenAt(s, j, i) /\ s[j].safe}), i)

\* The entries the receiver gets to: none but the last of them ends the reading.
Reached(s) == {i \in DOMAIN s : \A j \in 1 .. i - 1 : s[j].kind \notin Enders}

Described(s, kind) == {PathOf(s, i) : i \in {j \in Reached(s) : s[j].kind = kind /\ s[j].safe}}

\* Every directory and file lands where the stream has it, whatever is left out on
\* the way and however many returns there are; nothing but the last file may be cut
\* short.  The folder is reported as done just when every file that was begun came
\* whole and no header had to be given up on, but for one that makes no sense; and a
\* thread is lost just to a header of a size no memory holds (receive_dir_stream).
DirTreeRight ==
    \A s \in Streams :
        LET r == Receiver(s)
            met(kinds) == \E i \in Reached(s) : s[i].kind \in kinds
        IN /\ r.dirs = Described(s, "dir") /\ r.files = Described(s, "file")
           /\ r.cut = Described(s, "partial")
           /\ r.ended \in {"no", "ok"} <=> ~met({"broken", "partial", "huge"})
           /\ r.ended = "panic" <=> met({"huge"})
=============================================================================
