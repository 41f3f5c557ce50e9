--------------------------- MODULE MCFileTransfer ---------------------------
(* Values for the model checker: see the .cfg files. *)
EXTENDS FileTransfer, TLC

CONSTANTS x1, x2, A, B

TwoXfers  == {x1, x2}
FirstXfer == {x1}
TwoBlocks == {A, B}

\* Two versions of a file of the same name.
Versions == x1 :> <<A, B>> @@ x2 :> <<B>>
=============================================================================
