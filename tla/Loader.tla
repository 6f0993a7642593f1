-------------------------------- MODULE Loader --------------------------------
(***************************************************************************)
(* What the user of the boot console relies on.  A file gets into the      *)
(* memory of the board chunk by chunk in its order, and on to the flash    *)
(* block by block in theirs, only when all of it is in memory; a program   *)
(* is started only when it is complete, and nothing writes to the board    *)
(* from then on, or behind an operation that has ended.  A download is     *)
(* saved chunk by chunk in its order.  An operation is reported as done    *)
(* only when nothing of it is left.  It may fail at any time.              *)
(*                                                                         *)
(* There are no commands, no line and no time here, and so no losses and   *)
(* no restarts: a chunk that is written again is the one it was.           *)
(***************************************************************************)
EXTENDS Integers

CONSTANTS Tasks,    \* what the console can be asked for
          File,     \* the chunks of the file, in memory
          Image,    \* its blocks, in flash
          Fresh,    \* the memory at the beginning
          OutLen    \* the chunks to download

VARIABLES
  task,
  memory, flash, started,   \* the board, and whether it runs the program
  output,                   \* the file downloaded to
  outcome                   \* "running", or how the operation ended

loaderVars == <<task, memory, flash, started, output, outcome>>

Init ==
  /\ task \in Tasks
  /\ memory = Fresh
  /\ flash = [b \in DOMAIN Image |-> <<>>]
  /\ started = FALSE
  /\ output = [i \in 0 .. OutLen - 1 |-> 0]
  /\ outcome = "running"

Loaded == \A i \in DOMAIN File : memory[i] = File[i]

Writes == outcome = "running" /\ ~started /\ ~task.output

LoadChunk(i) ==
  /\ Writes
  /\ \A j \in 0 .. i - 1 : memory[j] = File[j]
  /\ memory' = [memory EXCEPT ![i] = File[i]]
  /\ UNCHANGED <<task, flash, started, output, outcome>>

CopyBlock(b) ==
  /\ Writes /\ Loaded /\ task.copy /\ ~task.jmp
  /\ \A c \in 0 .. b - 1 : flash[c] = Image[c]
  /\ flash' = [flash EXCEPT ![b] = Image[b]]
  /\ UNCHANGED <<task, memory, started, output, outcome>>

Start ==
  /\ Writes /\ Loaded /\ task.jmp
  /\ started' = TRUE
  /\ UNCHANGED <<task, memory, flash, output, outcome>>

\* the last chunk ends the download
SaveChunk(i) ==
  /\ outcome = "running" /\ task.output
  /\ \A j \in 0 .. i - 1 : output[j] = memory[j]
  /\ output' = [output EXCEPT ![i] = memory[i]]
  /\ outcome' = IF i + 1 = OutLen THEN "done" ELSE outcome
  /\ UNCHANGED <<task, memory, flash, started>>

Complete ==
  IF task.output THEN \A i \in 0 .. OutLen - 1 : output[i] = memory[i]
  ELSE /\ Loaded /\ ~task.jmp
       /\ task.copy => \A b \in DOMAIN Image : flash[b] = Image[b]

End ==
  /\ outcome = "running"
  /\ \/ Complete /\ outcome' = "done"
     \/ started /\ outcome' = "terminal"
     \/ outcome' = "failed"
  /\ UNCHANGED <<task, memory, flash, started, output>>

Next ==
  \/ \E i \in DOMAIN File : LoadChunk(i)
  \/ \E b \in DOMAIN Image : CopyBlock(b)
  \/ Start
  \/ \E i \in 0 .. OutLen - 1 : SaveChunk(i)
  \/ End

Spec == Init /\ [][Next]_loaderVars
=============================================================================
