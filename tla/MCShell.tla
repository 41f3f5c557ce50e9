------------------------------ MODULE MCShell ------------------------------
(* The reminders of two conversations, and the pages of one. *)
EXTENDS Shell, History

TwoTimes == 1..2
FourIds  == 1..4
OneOrTwo == {1, 2}

\* Paging shows every row once, from the newest and from a search hit: for every way
\* rows may be stored, so that it is enough to look once, at the start.
PagesComplete == Init => PagesRight /\ SearchRight
=============================================================================
