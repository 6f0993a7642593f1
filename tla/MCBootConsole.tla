---------------------------- MODULE MCBootConsole ----------------------------
(***************************************************************************)
(* BootConsole with every kind of operation, on files of two blocks.       *)
(***************************************************************************)
EXTENDS BootConsole

Line(f, o, j, c) == [input |-> f, output |-> o, jmp |-> j, copy |-> c]

MCUpload   == {Line(TRUE, FALSE, FALSE, FALSE)}
MCFlash    == {Line(TRUE, FALSE, FALSE, TRUE)}
MCReadOnly == {Line(FALSE, TRUE, FALSE, FALSE)}

MCOptions ==
  {Line(TRUE, FALSE, j, c) : j \in BOOLEAN, c \in BOOLEAN} \cup
    {Line(TRUE, TRUE, FALSE, TRUE)} \cup MCReadOnly
=============================================================================
