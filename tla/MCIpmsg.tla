------------------------------ MODULE MCIpmsg ------------------------------
(* One device of ours, peers of the old protocol and of our own; and the streams
   folders arrive as. *)
EXTENDS Ipmsg, DirStream

WithAndWithout == {Peer, Kin}

\* Folders arrive as their stream describes them (receive_dir_stream): for every
\* stream, so that it is enough to look once, at the start.
FoldersArrive == Init => DirTreeRight
=============================================================================
