------------------------------ MODULE History ------------------------------
(***************************************************************************)
(* The pages of a conversation (storage.rs:164-245 and 318-350, and their   *)
(* reader, get_history with store.ts): the newest rows, then page after     *)
(* page of what lies before the oldest row read, while rows of any age are  *)
(* stored in between (a text carries the time of its sender).               *)
(***************************************************************************)
EXTENDS Naturals, SequencesExt, FiniteSets

CONSTANTS
    Ids,    \* 1..n: ids of messages and transfers, in the order SQLite gives them
    Times,  \* 1..n: milliseconds
    Limits, \* sizes of a page
    Reads   \* bound: pages read while rows are still being stored

ASSUME RowAssumption ==
    /\ IsFiniteSet(Ids) /\ Ids = 1 .. Cardinality(Ids)
    /\ IsFiniteSet(Times) /\ Times = 1 .. Cardinality(Times)

ASSUME SizeAssumption == Limits \subseteq Nat \ {0} /\ Reads \in Nat

\* ORDER BY ts_ms, id.
Earlier(r, s) == r.ts < s.ts \/ (r.ts = s.ts /\ r.id < s.id)

InOrder(items) == \A i, j \in DOMAIN items : i < j => Earlier(items[i], items[j])

Sorted(rows) == CHOOSE s \in [1 .. Cardinality(rows) -> rows] : Range(s) = rows /\ InOrder(s)

\* The cursor compares times alone (mutation).
BeforeByTime(r, cursor) == r.ts < cursor.ts

\* Whether a row lies before the cursor.
Before(r, cursor) == r.ts < cursor.ts \/ (r.ts = cursor.ts /\ r.id < cursor.id)

\* The sentinels that stand for no cursor.
Newest == [id |-> Cardinality(Ids) + 1, ts |-> Cardinality(Times) + 1]

\* history: the last `limit` rows before the cursor, oldest first.
Page(rows, cursor, limit) ==
    LET sorted == Sorted({r \in rows : Before(r, cursor)})
        skip   == IF Len(sorted) > limit THEN Len(sorted) - limit ELSE 0
    IN  SubSeq(sorted, skip + 1, Len(sorted))

\* history_around: half a window before the time, and after it half a window and one
\* row, rows of the same time in any order.
Around(rows, ts, half) ==
    LET later == {r \in rows : r.ts >= ts}
        size  == IF Cardinality(later) > half THEN half + 1 ELSE Cardinality(later)
        ByTime(after) == \A i, j \in DOMAIN after : i < j => after[i].ts <= after[j].ts
        Earliest(after) == \A r \in later \ Range(after) : \A i \in DOMAIN after : after[i].ts <= r.ts
    IN  {Page(rows, [ts |-> ts, id |-> 0], half) \o after :
            after \in {s \in UNION {SetToSeqs(S) : S \in kSubset(size, later)} : ByTime(s) /\ Earliest(s)}}

\* conversation_summaries: the row a conversation is listed with.
Summary(rows) == CHOOSE r \in rows : \A s \in rows : s = r \/ Earlier(s, r)

-----------------------------------------------------------------------------
(* The reader. *)

\* The rows stored when the n-th page is read: a row is stored once and for all.
Stored(history, n) == {history[i].row : i \in {k \in DOMAIN history : history[k].at <= n}}

\* The pages that read a conversation to its end; a row stored later is never read.
Enough == Cardinality(Ids) + 1

\* Every way rows with these ids can be stored while the first pages are read.
Histories(pages) ==
    {[i \in Ids |-> [row |-> [id |-> i, ts |-> ts[i]], at |-> at[i]]] :
        ts \in [Ids -> Times], at \in [Ids -> 0..pages \union {Enough + 1}]}

\* loadOlder, the n-th time: the items, and whether there may be more.
LoadOlder(history, was, n, limit) ==
    LET page == Page(Stored(history, n), Head(was.items), limit)
    IN  IF ~was.more \/ was.items = <<>> THEN was
        ELSE [items |-> page \o was.items, more |-> Len(page) = limit]

\* The items once the user has scrolled back to the end.
ReadBack(history, items, more, limit) ==
    LET After[n \in 0 .. Enough] ==
            IF n = 0 THEN [items |-> items, more |-> more]
            ELSE LoadOlder(history, After[n - 1], n, limit)
    IN  After[Enough].items

-----------------------------------------------------------------------------
(* Properties. *)

\* Paging back from the newest row shows every row that was stored when it began, and
\* no row twice, in the order of the conversation (storage.rs:167-170: nothing is lost
\* among rows of one millisecond).
PagesRight ==
    \A h \in Histories(Reads), limit \in Limits :
        LET newest == Page(Stored(h, 0), Newest, limit)
            items  == ReadBack(h, newest, Len(newest) = limit, limit)
        IN  InOrder(items) /\ Stored(h, 0) \subseteq Range(items)

\* Paging back from a row that was searched for shows what is older than it, each row
\* once (storage.rs:213-217); and a conversation is listed with the row that its newest
\* page ends with (storage.rs:319).
SearchRight ==
    \A h \in Histories(0), half \in Limits, limit \in Limits :
        LET rows == Stored(h, 0) IN
        /\ rows # {} => <<Summary(rows)>> = Page(rows, Newest, 1)
        /\ \A hit \in rows : \A window \in Around(rows, hit.ts, half) :
              LET items == ReadBack(h, window, TRUE, limit)
                  older == {i \in DOMAIN items : items[i].ts < hit.ts}
              IN  /\ \A i, j \in older : i < j => Earlier(items[i], items[j])
                  /\ {items[i] : i \in older} = {r \in rows : r.ts < hit.ts}
=============================================================================
