---------------------------- MODULE BootConsole ----------------------------
(***************************************************************************)
(* The host side of the bootloader protocol over a UART                    *)
(* (tool/bootconsole/bootconsole.c): upload of a file into the memory of   *)
(* the board, followed by a jump or by a copy into its flash, or download  *)
(* of memory into a file.                                                  *)
(*                                                                         *)
(* The console sends a command and waits for its answer.  After two        *)
(* seconds without one, or after an answer it did not expect, it goes back *)
(* to its last checkpoint.  Commands and answers carry no numbers.         *)
(*                                                                         *)
(* The line and the board's bootloader are not part of the repository.     *)
(* They are modelled by what the console takes them to be: a command is    *)
(* carried out and answered, or refused with RESP_ERR and not carried out, *)
(* or lost, or its answer is.                                              *)
(*                                                                         *)
(* Memory is counted in chunks of 16 bytes from g_mem_addr on, flash in    *)
(* blocks of 256 bytes.  The k-th chunk of the file is the number k + 1,   *)
(* and memory that was not written holds -(k + 1).                         *)
(***************************************************************************)
EXTENDS Integers, Sequences

CONSTANTS BlockLen,     \* chunks of a block (16)
          Blocks,       \* blocks of the input file, the last one filled up
          OutLen,       \* chunks asked for with -c
          Options,      \* the command lines
          Refusable,    \* the commands that the bootloader may refuse
          LateAnswers,  \* an answer may take longer than the time-out
          MaxFaults     \* bound on refused and lost messages

ASSUME BootAssumption ==
  /\ BlockLen \in Nat \ {0}
  /\ Blocks \in Nat /\ OutLen \in Nat /\ MaxFaults \in Nat
  /\ Options \subseteq [input : BOOLEAN, output : BOOLEAN, jmp : BOOLEAN,
                        copy : BOOLEAN]
  /\ Refusable \subseteq {"a", "w", "r", "W", "j"}
  /\ LateAnswers \in BOOLEAN

VARIABLES
  opts,        \* the command line: -f, -o, -j or --run-app, -J or --flash-*
  status,      \* "running", "terminal", or how the console ended
  opState,     \* g_op_state
  offset,      \* g_offset
  flashDst, flashSrc, addrSet,   \* g_flash_dst_addr, g_flash_memsrc_addr and
               \* g_flash_copy_addr_set
  checkpoint,  \* g_checkpoint
  timer,       \* the response timer is active
  restart,     \* restart_operations is "no", "scheduled", or "due"
  saved,       \* the output file
  cmds, answers,   \* the two directions of the line
  devAddr, devMem, devFlash, jumped,   \* the board
  faults       \* messages refused and lost so far

flashVars  == <<flashDst, flashSrc, addrSet>>
hostVars   == <<status, opState, offset, flashVars, checkpoint, timer, saved>>
deviceVars == <<devAddr, devMem, devFlash, jumped>>
vars == <<opts, hostVars, restart, cmds, answers, deviceVars, faults>>

(***************************************************************************)
(* g_input_len, rounded up to whole blocks; a fault variant, for testing   *)
(* the properties, rounds up what needs no rounding.                       *)
(***************************************************************************)
FileLenOver == (Blocks + 1) * BlockLen

FileLen == Blocks * BlockLen

Memory == 0 .. (IF FileLen > OutLen THEN FileLen ELSE OutLen) - 1

FileChunk(i) == i + 1
OldChunk(i)  == -(i + 1)

JmpAddr == -1    \* g_jmp_addr

ReadMode == opts.output

-----------------------------------------------------------------------------
(***************************************************************************)
(* Commands and answers.                                                   *)
(***************************************************************************)
Command(o, a, v) == [op |-> o, at |-> a, val |-> v]

SetAddress(a)  == Command("a", a, 0)
WriteMem(i)    == Command("w", 0, FileChunk(i))
ReadMem        == Command("r", 0, 0)
FlashCopyTo(b) == Command("W", b, 0)
Jump           == Command("j", 0, 0)

RespOk      == [kind |-> "O", val |-> 0]
RespErr     == [kind |-> "E", val |-> 0]
RespData(v) == [kind |-> "data", val |-> v]

-----------------------------------------------------------------------------
(***************************************************************************)
(* Fault variants, for testing the properties: the response timer is not   *)
(* enabled, and the checkpoint is made only once.                          *)
(***************************************************************************)
DeviceWriteOnly(c) == cmds' = Append(cmds, c) /\ timer' = FALSE

FirstCheckpoint(state, off, dst, src, set) ==
  IF checkpoint.valid /\ checkpoint.state = state THEN checkpoint
  ELSE [valid |-> TRUE, state |-> state, offset |-> off, flashDst |-> dst,
        flashSrc |-> src, addrSet |-> set]

(***************************************************************************)
(* device_write, which also enables the response timer.                    *)
(***************************************************************************)
DeviceWrite(c) == cmds' = Append(cmds, c) /\ timer' = TRUE

CheckpointAt(state, off, dst, src, set) ==
  [valid |-> TRUE, state |-> state, offset |-> off, flashDst |-> dst,
   flashSrc |-> src, addrSet |-> set]

DeleteCheckpoint == checkpoint' = [checkpoint EXCEPT !.valid = FALSE]

(***************************************************************************)
(* err, errx and exit.                                                     *)
(***************************************************************************)
Exit(how) ==
  /\ status' = how
  /\ timer' = FALSE
  /\ UNCHANGED <<opState, offset, flashVars, checkpoint, cmds>>

(***************************************************************************)
(* A fault variant, for testing the properties: the address set before an  *)
(* upload goes on is always that of the file's first chunk.                *)
(***************************************************************************)
SetAddrFirst(off) == DeviceWrite(SetAddress(0))

(***************************************************************************)
(* case BF_SETADDR.                                                        *)
(***************************************************************************)
SetAddr(off) == DeviceWrite(SetAddress(off))

(***************************************************************************)
(* The cases BF_READ_DATA, BF_FLASH_COPY and BF_WRITE_DATA of              *)
(* run_state_machine.                                                      *)
(***************************************************************************)
ReadData(off) ==
  IF off < OutLen
  THEN /\ offset' = off
       /\ checkpoint' = CheckpointAt("BF_SETADDR", off, flashDst, flashSrc, addrSet)
       /\ DeviceWrite(ReadMem)
       /\ opState' = "BF_READ_WAIT_OK"
       /\ UNCHANGED <<status, flashVars>>
  ELSE Exit("done")

FlashCopy(off, dst, src, set) ==
  IF off < FileLen
  THEN /\ offset' = off
       /\ flashDst' = dst /\ flashSrc' = src /\ addrSet' = set
       /\ checkpoint' = IF set THEN checkpoint
                        ELSE CheckpointAt("BF_FLASH_COPY", off, dst, src, set)
       /\ DeviceWrite(IF set THEN FlashCopyTo(dst) ELSE SetAddress(src))
       /\ opState' = "BF_FLASH_COPY_WAIT_OK"
       /\ UNCHANGED status
  ELSE Exit("done")

WriteData(off) ==
  \/ /\ off < FileLen
     /\ offset' = off
     /\ checkpoint' = IF off % BlockLen = 0
                      THEN CheckpointAt("BF_SETADDR", off, flashDst, flashSrc, addrSet)
                      ELSE checkpoint
     /\ DeviceWrite(WriteMem(off))
     /\ opState' = "BF_WRITE_WAIT_OK"
     /\ UNCHANGED <<status, flashVars>>
  \/ /\ off >= FileLen /\ opts.jmp
     /\ offset' = off
     /\ DeleteCheckpoint
     /\ DeviceWrite(SetAddress(JmpAddr))
     /\ opState' = "BF_JMP_WAIT_OK"
     /\ UNCHANGED <<status, flashVars>>
  \/ off >= FileLen /\ ~opts.jmp /\ opts.copy /\ FlashCopy(0, flashDst, flashSrc, FALSE)
  \/ off >= FileLen /\ ~opts.jmp /\ ~opts.copy /\ Exit("done")

-----------------------------------------------------------------------------
(***************************************************************************)
(* restart_operations: back to the checkpoint.  Both kinds of checkpoint   *)
(* start with an address, the flash copy's after making the same           *)
(* checkpoint again.                                                       *)
(***************************************************************************)
RestartOperations(next) ==
  IF checkpoint.valid
  THEN /\ offset' = checkpoint.offset
       /\ flashDst' = checkpoint.flashDst /\ flashSrc' = checkpoint.flashSrc
       /\ addrSet' = checkpoint.addrSet
       /\ IF checkpoint.state = "BF_SETADDR"
          THEN SetAddr(checkpoint.offset)
          ELSE DeviceWrite(SetAddress(checkpoint.flashSrc))
       /\ opState' = next
       /\ UNCHANGED <<status, checkpoint>>
  ELSE Exit("failed")

(***************************************************************************)
(* An answer that was not expected.  restart_operations stores the state   *)
(* it went back to in g_op_state, and then uart_read_cb stores there what  *)
(* run_state_machine returns: the state it was called with.                *)
(***************************************************************************)
ResponseError == RestartOperations(opState)

(***************************************************************************)
(* The cases of run_state_machine that take an answer.                     *)
(***************************************************************************)
StartAnswered(input) ==
  /\ opState = "BF_START"
  /\ DeleteCheckpoint
  /\ SetAddr(offset)
  /\ opState' = "BF_SETADDR_WAIT_OK"
  /\ UNCHANGED <<status, offset, flashVars, saved>>

SetAddrAnswered(input) ==
  /\ opState = "BF_SETADDR_WAIT_OK"
  /\ \/ input # <<RespOk>> /\ ResponseError
     \/ input = <<RespOk>> /\ ReadMode /\ ReadData(offset)
     \/ input = <<RespOk>> /\ ~ReadMode /\ WriteData(offset)
  /\ saved' = saved

WriteAnswered(input) ==
  /\ opState = "BF_WRITE_WAIT_OK"
  /\ IF input = <<RespOk>> THEN WriteData(offset + 1) ELSE ResponseError
  /\ saved' = saved

ReadAnswered(input) ==
  /\ opState = "BF_READ_WAIT_OK"
  /\ IF Len(input) = 1 /\ input[1].kind = "data"
     THEN saved' = [saved EXCEPT ![offset] = input[1].val] /\ ReadData(offset + 1)
     ELSE saved' = saved /\ ResponseError

JmpAnswered(input) ==
  /\ opState = "BF_JMP_WAIT_OK"
  /\ IF input = <<RespOk>>
     THEN /\ DeviceWrite(Jump)
          /\ opState' = "BF_DONE_WAIT_OK"
          /\ UNCHANGED <<status, offset, flashVars, checkpoint>>
     ELSE Exit("failed")
  /\ saved' = saved

(***************************************************************************)
(* The answer to the jump.  A fault variant, for testing the properties,   *)
(* takes every answer for a yes.                                           *)
(***************************************************************************)
DoneAnsweredAny(input) ==
  /\ opState = "BF_DONE_WAIT_OK"
  /\ Exit("terminal")
  /\ saved' = saved

DoneAnswered(input) ==
  /\ opState = "BF_DONE_WAIT_OK"
  /\ Exit(IF input[1] = RespOk THEN "terminal" ELSE "failed")
  /\ saved' = saved

FlashCopyAnswered(input) ==
  /\ opState = "BF_FLASH_COPY_WAIT_OK"
  /\ \/ input # <<RespOk>> /\ ResponseError
     \/ /\ input = <<RespOk>>
        /\ IF addrSet
           THEN FlashCopy(offset + BlockLen, flashDst + 1, flashSrc + BlockLen, FALSE)
           ELSE FlashCopy(offset, flashDst, flashSrc, TRUE)
  /\ saved' = saved

-----------------------------------------------------------------------------
(***************************************************************************)
(* The event loop.                                                         *)
(***************************************************************************)

(***************************************************************************)
(* uart_read_cb: everything that has arrived, or the first of it, is one   *)
(* answer to the state machine.  No command is answered in the millisecond *)
(* between a time-out and its restart, so that at most one call falls into *)
(* it, with what was late.                                                 *)
(***************************************************************************)
UartReadCb ==
  /\ status = "running"
  /\ restart # "due"
  /\ restart' = IF restart = "scheduled" THEN "due" ELSE "no"
  /\ \E n \in 1 .. Len(answers) :
       LET input == SubSeq(answers, 1, n)
       IN  /\ answers' = SubSeq(answers, n + 1, Len(answers))
           /\ \/ StartAnswered(input)
              \/ SetAddrAnswered(input)
              \/ WriteAnswered(input)
              \/ ReadAnswered(input)
              \/ JmpAnswered(input)
              \/ DoneAnswered(input)
              \/ FlashCopyAnswered(input)
  /\ UNCHANGED <<opts, deviceVars, faults>>

(***************************************************************************)
(* response_timeout_callback.  Unless an answer may be late, nothing that  *)
(* is under way takes two seconds.                                         *)
(***************************************************************************)
ResponseTimeout ==
  /\ status = "running"
  /\ timer
  /\ LateAnswers \/ (cmds = <<>> /\ answers = <<>>)
  /\ timer' = FALSE
  /\ restart' = "scheduled"
  /\ UNCHANGED <<opts, status, opState, offset, flashVars, checkpoint, saved,
                 cmds, answers, deviceVars, faults>>

(***************************************************************************)
(* restart_operations, called a millisecond after the time-out.  A fault   *)
(* variant, for testing the properties, keeps the state of the command     *)
(* that was not answered.                                                  *)
(***************************************************************************)
StateKept == opState

StateRestored ==
  IF checkpoint.state = "BF_SETADDR"
  THEN "BF_SETADDR_WAIT_OK" ELSE "BF_FLASH_COPY_WAIT_OK"

Restart ==
  /\ status \in {"running", "terminal"}
  /\ restart # "no"
  /\ restart' = "no"
  /\ RestartOperations(StateRestored)
  /\ UNCHANGED <<opts, saved, answers, deviceVars, faults>>

(***************************************************************************)
(* terminal_read_cb.  With -o and without -f init_uart_reader starts the   *)
(* terminal instead of the operation: what the user types goes to the      *)
(* board, which does not know it for a command.                            *)
(***************************************************************************)
TerminalReadCb ==
  /\ status = "running" /\ opState = "BF_START"
  /\ answers = <<>>
  /\ answers' = <<RespErr>>
  /\ UNCHANGED <<opts, hostVars, restart, cmds, deviceVars, faults>>

-----------------------------------------------------------------------------
(***************************************************************************)
(* The bootloader and the line.                                            *)
(***************************************************************************)
MemAt(a) == IF a \in Memory THEN devMem[a] ELSE 0

Answer(c) == IF c.op = "r" THEN RespData(MemAt(devAddr)) ELSE RespOk

DeviceAccept ==
  /\ ~jumped
  /\ cmds # <<>>
  /\ LET c == Head(cmds)
     IN  /\ devAddr' = CASE c.op = "a" -> c.at
                         [] c.op \in {"w", "r"} -> devAddr + 1
                         [] OTHER -> devAddr
         /\ devMem' = IF c.op = "w" /\ devAddr \in Memory
                      THEN [devMem EXCEPT ![devAddr] = c.val] ELSE devMem
         /\ devFlash' = IF c.op = "W"
                        THEN [devFlash EXCEPT ![c.at] =
                                [k \in 0 .. BlockLen - 1 |-> MemAt(devAddr + k)]]
                        ELSE devFlash
         /\ jumped' = (c.op = "j")
         /\ answers' = Append(answers, Answer(c))
  /\ cmds' = Tail(cmds)
  /\ UNCHANGED <<opts, hostVars, restart, faults>>

Fault == faults < MaxFaults /\ faults' = faults + 1

DeviceRefuse ==
  /\ Fault
  /\ ~jumped
  /\ cmds # <<>> /\ Head(cmds).op \in Refusable
  /\ cmds' = Tail(cmds)
  /\ answers' = Append(answers, RespErr)
  /\ UNCHANGED <<opts, hostVars, restart, deviceVars>>

LoseCommand ==
  /\ Fault
  /\ cmds # <<>>
  /\ cmds' = Tail(cmds)
  /\ UNCHANGED <<opts, hostVars, restart, answers, deviceVars>>

LoseAnswer ==
  /\ Fault
  /\ answers # <<>>
  /\ answers' = Tail(answers)
  /\ UNCHANGED <<opts, hostVars, restart, cmds, deviceVars>>

-----------------------------------------------------------------------------
(***************************************************************************)
(* main and init_uart_reader.                                              *)
(***************************************************************************)
Init ==
  /\ opts \in Options
  /\ status = "running"
  /\ offset = 0
  /\ flashDst = 0 /\ flashSrc = 0 /\ addrSet = FALSE
  /\ checkpoint = [valid |-> FALSE, state |-> "BF_START", offset |-> 0,
                   flashDst |-> 0, flashSrc |-> 0, addrSet |-> FALSE]
  /\ IF opts.input
     THEN opState = "BF_SETADDR_WAIT_OK" /\ cmds = <<SetAddress(0)>> /\ timer = TRUE
     ELSE opState = "BF_START" /\ cmds = <<>> /\ timer = FALSE
  /\ restart = "no"
  /\ saved = [i \in 0 .. OutLen - 1 |-> 0]
  /\ answers = <<>>
  /\ devAddr = 0
  /\ devMem = [i \in Memory |-> OldChunk(i)]
  /\ devFlash = [b \in 0 .. Blocks - 1 |-> <<>>]
  /\ jumped = FALSE
  /\ faults = 0

Next ==
  \/ UartReadCb
  \/ ResponseTimeout
  \/ Restart
  \/ TerminalReadCb
  \/ DeviceAccept
  \/ DeviceRefuse
  \/ LoseCommand
  \/ LoseAnswer

(***************************************************************************)
(* The event loop serves what is ready, and the bootloader takes commands. *)
(* Nothing makes the user type or the line lose anything.                  *)
(***************************************************************************)
Fairness ==
  /\ WF_vars(UartReadCb)
  /\ WF_vars(ResponseTimeout)
  /\ WF_vars(Restart)
  /\ WF_vars(DeviceAccept)

Spec == Init /\ [][Next]_vars /\ Fairness
-----------------------------------------------------------------------------
OpStates == {"BF_START", "BF_SETADDR_WAIT_OK", "BF_WRITE_WAIT_OK",
             "BF_READ_WAIT_OK", "BF_JMP_WAIT_OK", "BF_DONE_WAIT_OK",
             "BF_FLASH_COPY_WAIT_OK"}

Commands == [op : {"a", "w", "r", "W", "j"}, at : Int, val : Int]
Answers  == [kind : {"O", "E", "data"}, val : Int]

TypeOK ==
  /\ opts \in Options
  /\ status \in {"running", "terminal", "done", "failed"}
  /\ opState \in OpStates
  /\ offset \in 0 .. (IF ReadMode THEN OutLen ELSE FileLen)
  /\ flashDst \in {0} \cup 0 .. Blocks - 1 /\ flashSrc \in 0 .. FileLen
  /\ addrSet \in BOOLEAN
  /\ checkpoint \in [valid : BOOLEAN, state : {"BF_START", "BF_SETADDR", "BF_FLASH_COPY"},
                     offset : Nat, flashDst : Nat, flashSrc : Nat, addrSet : BOOLEAN]
  /\ timer \in BOOLEAN /\ restart \in {"no", "scheduled", "due"}
  /\ saved \in [0 .. OutLen - 1 -> Int]
  /\ cmds \in Seq(Commands) /\ answers \in Seq(Answers)
  /\ devAddr \in Int /\ devMem \in [Memory -> Int] /\ jumped \in BOOLEAN
  /\ DOMAIN devFlash = 0 .. Blocks - 1
  /\ faults \in 0 .. MaxFaults

(***************************************************************************)
(* What the console says is true.                                          *)
(*                                                                         *)
(* Before the board jumps to the program, or the console says that the     *)
(* file was written, all of the file is in memory.                         *)
(***************************************************************************)
Loaded == \A i \in 0 .. FileLen - 1 : devMem[i] = FileChunk(i)

ImageLoaded ==
  (jumped \/ status = "done") /\ ~ReadMode => Loaded

Block(b) == [k \in 0 .. BlockLen - 1 |-> FileChunk(b * BlockLen + k)]

(***************************************************************************)
(* When the console says "BLE flash copy done", all of the file is in      *)
(* flash.                                                                  *)
(***************************************************************************)
FlashCopied ==
  status = "done" /\ ~ReadMode /\ opts.copy =>
    \A b \in 0 .. Blocks - 1 : devFlash[b] = Block(b)

(***************************************************************************)
(* When the console says "BLE file read finished", the output file is what *)
(* the memory holds.                                                       *)
(***************************************************************************)
ReadBack ==
  status = "done" /\ ReadMode => \A i \in 0 .. OutLen - 1 : saved[i] = devMem[i]

(***************************************************************************)
(* The three promises together: run_state_machine ends an operation only   *)
(* when it is complete, whatever was lost on the way.                      *)
(***************************************************************************)
DoneIsTrue == ImageLoaded /\ FlashCopied /\ ReadBack

(***************************************************************************)
(* A chunk that is on its way is the one that belongs where the bootloader *)
(* will write it: every restart goes back to the checkpoint with its state *)
(* as well as its address ("restarting from last checkpoint").             *)
(***************************************************************************)
ChunkInPlace ==
  cmds # <<>> /\ Head(cmds).op = "w" => Head(cmds).val = FileChunk(devAddr)

(***************************************************************************)
(* The command whose answer a state waits for, and that answer.            *)
(***************************************************************************)
Awaited ==
  CASE opState = "BF_SETADDR_WAIT_OK"    -> SetAddress(offset)
    [] opState = "BF_WRITE_WAIT_OK"      -> WriteMem(offset)
    [] opState = "BF_READ_WAIT_OK"       -> ReadMem
    [] opState = "BF_JMP_WAIT_OK"        -> SetAddress(JmpAddr)
    [] opState = "BF_DONE_WAIT_OK"       -> Jump
    [] opState = "BF_FLASH_COPY_WAIT_OK" ->
         IF addrSet THEN FlashCopyTo(flashDst) ELSE SetAddress(flashSrc)

AwaitedAnswer ==
  IF opState = "BF_READ_WAIT_OK" THEN RespData(devMem[offset]) ELSE RespOk

PossibleAnswers ==
  CASE opState = "BF_START" -> {RespErr}
    [] opState \in {"BF_WRITE_WAIT_OK", "BF_READ_WAIT_OK"} -> {AwaitedAnswer}
    [] OTHER -> {AwaitedAnswer, RespErr}

(***************************************************************************)
(* At most one message is under way, and it is, or answers, the command    *)
(* that the state waits for.                                               *)
(***************************************************************************)
LineInv ==
  /\ cmds = <<>> \/ (answers = <<>> /\ opState # "BF_START" /\ cmds = <<Awaited>>)
  /\ answers = <<>> \/ \E a \in PossibleAnswers : answers = <<a>>
  /\ cmds # <<>> \/ answers # <<>> => status = "running" /\ restart = "no"
  /\ cmds # <<>> => timer
  /\ restart # "no" => restart = "scheduled" /\ status = "running" /\ ~timer
  /\ opState = "BF_START" => ~timer /\ restart = "no"

(***************************************************************************)
(* The bootloader is where the console takes it to be, and has done what   *)
(* it answers for.                                                         *)
(***************************************************************************)
PlaceInv ==
  /\ cmds # <<>> =>
       /\ opState \in {"BF_WRITE_WAIT_OK", "BF_READ_WAIT_OK"} => devAddr = offset
       /\ opState = "BF_FLASH_COPY_WAIT_OK" /\ addrSet => devAddr = flashSrc
  /\ answers = <<AwaitedAnswer>> =>
       /\ opState = "BF_SETADDR_WAIT_OK" => devAddr = offset
       /\ opState \in {"BF_WRITE_WAIT_OK", "BF_READ_WAIT_OK"} => devAddr = offset + 1
       /\ opState = "BF_WRITE_WAIT_OK" => devMem[offset] = FileChunk(offset)
       /\ opState = "BF_FLASH_COPY_WAIT_OK" =>
            IF addrSet THEN devFlash[flashDst] = Block(flashDst) ELSE devAddr = flashSrc
       /\ opState = "BF_DONE_WAIT_OK" => jumped

(***************************************************************************)
(* What is done when the console is in a state, and the checkpoint that it *)
(* has there.                                                              *)
(***************************************************************************)
CheckpointInv ==
  /\ opState \in {"BF_START", "BF_JMP_WAIT_OK", "BF_DONE_WAIT_OK"} => ~checkpoint.valid
  /\ opState = "BF_WRITE_WAIT_OK" /\ checkpoint.valid =>
       /\ checkpoint.state = "BF_SETADDR"
       /\ checkpoint.offset = offset - (offset % BlockLen)
  /\ opState \in {"BF_SETADDR_WAIT_OK", "BF_READ_WAIT_OK"} /\ checkpoint.valid =>
       checkpoint.state = "BF_SETADDR" /\ checkpoint.offset = offset
  /\ opState = "BF_SETADDR_WAIT_OK" /\ ~ReadMode => offset % BlockLen = 0
  /\ opState = "BF_FLASH_COPY_WAIT_OK" =>
       checkpoint = CheckpointAt("BF_FLASH_COPY", offset, flashDst, flashSrc, FALSE)
  /\ opState # "BF_FLASH_COPY_WAIT_OK" =>
       /\ flashDst = 0 /\ flashSrc = 0 /\ ~addrSet
       /\ checkpoint.flashDst = 0 /\ checkpoint.flashSrc = 0 /\ ~checkpoint.addrSet

DoneInv ==
  /\ opState = "BF_START" => offset = 0
  /\ opState = "BF_WRITE_WAIT_OK" => ~ReadMode /\ offset < FileLen
  /\ opState = "BF_READ_WAIT_OK" => ReadMode /\ offset < OutLen
  /\ opState \in {"BF_JMP_WAIT_OK", "BF_DONE_WAIT_OK"} => ~ReadMode /\ Loaded /\ opts.jmp
  /\ opState = "BF_FLASH_COPY_WAIT_OK" =>
       /\ ~ReadMode /\ Loaded /\ opts.copy /\ ~opts.jmp
       /\ flashDst < Blocks /\ flashSrc = flashDst * BlockLen /\ offset = flashSrc
       /\ \A b \in 0 .. flashDst - 1 : devFlash[b] = Block(b)
  /\ ~ReadMode => \A i \in 0 .. offset - 1 : devMem[i] = FileChunk(i)
  /\ ReadMode => \A i \in 0 .. offset - 1 : saved[i] = devMem[i]

StateInv == status = "running" => CheckpointInv /\ DoneInv

EndInv ==
  /\ DoneIsTrue
  /\ jumped => ~ReadMode /\ cmds = <<>> /\ opState = "BF_DONE_WAIT_OK"

(***************************************************************************)
(* Console and board are in step: what is on the line belongs to the state *)
(* that waits for it, the board is where the console takes it to be, and   *)
(* what the console has left behind is done (run_state_machine,            *)
(* restart_operations).                                                    *)
(***************************************************************************)
ConsoleInv == TypeOK /\ LineInv /\ PlaceInv /\ StateInv /\ EndInv

(***************************************************************************)
(* A restart repeats no more than the block that was being uploaded        *)
(* (create_restart_checkpoint at every 256 bytes).                         *)
(***************************************************************************)
RestartNearby ==
  [][offset' < offset /\ opState' # "BF_FLASH_COPY_WAIT_OK" =>
       offset' = offset - (offset % BlockLen)]_vars

(***************************************************************************)
(* An operation that was started ends, one way or the other.               *)
(***************************************************************************)
Finishes ==
  (opState # "BF_START") ~> (status # "running")

-----------------------------------------------------------------------------
(***************************************************************************)
(* The console, the line and the board together are a Loader: whatever is  *)
(* lost or refused, and wherever a restart goes back to, chunks and blocks *)
(* are written in order, none behind the end of the operation or the start *)
(* of the program, and the operation ends as it says (run_state_machine,   *)
(* restart_operations).                                                    *)
(***************************************************************************)
Loading == INSTANCE Loader WITH
             Tasks <- Options,
             File  <- [i \in 0 .. FileLen - 1 |-> FileChunk(i)],
             Image <- [b \in 0 .. Blocks - 1 |-> Block(b)],
             Fresh <- [i \in Memory |-> OldChunk(i)],
             task <- opts, memory <- devMem, flash <- devFlash, started <- jumped,
             output <- saved, outcome <- status

ConsoleIsLoader == Loading!Spec

=============================================================================
