------------------------- MODULE BootConsoleProofs -------------------------
(***************************************************************************)
(* The proofs about BootConsole: for files, blocks and downloads of every  *)
(* size, and any number of messages lost or refused, what the console says *)
(* is true, as long as no chunk is refused and no answer is late.  Without *)
(* these two it is not, see the runs boot_upload and boot_flash.           *)
(***************************************************************************)
EXTENDS BootConsole, SequenceTheorems, TLAPS

Orderly == ~LateAnswers /\ Refusable \subseteq {"a", "W", "j"}

(***************************************************************************)
(* A line with one message on it.                                          *)
(***************************************************************************)
LEMMA OneMessage ==
  ASSUME NEW x
  PROVE  /\ <<x>> # <<>> /\ Len(<<x>>) = 1 /\ <<x>>[1] = x
         /\ Head(<<x>>) = x /\ Tail(<<x>>) = <<>> /\ Append(<<>>, x) = <<x>>
         /\ SubSeq(<<x>>, 1, 1) = <<x>> /\ SubSeq(<<x>>, 2, 1) = <<>>
<1>1. <<x>> \in Seq({x}) /\ Len(<<x>>) = 1
  OBVIOUS
<1>2. SubSeq(<<x>>, 1, 1) = <<x>>
  BY <1>1, SubSeqFull
<1>3. SubSeq(<<x>>, 2, 1) = <<>>
  OBVIOUS
<1>4. /\ <<x>> # <<>> /\ <<x>>[1] = x
      /\ Head(<<x>>) = x /\ Tail(<<x>>) = <<>> /\ Append(<<>>, x) = <<x>>
  OBVIOUS
<1> QED
  BY <1>1, <1>2, <1>3, <1>4

(***************************************************************************)
(* Blocks and chunks.                                                      *)
(***************************************************************************)
LEMMA BlockOrder ==
  ASSUME NEW b \in Int, NEW c \in Int, NEW n \in Nat \ {0}
  PROVE  /\ b * n < c * n <=> b < c
         /\ (b + 1) * n = b * n + n
         /\ b * n \in Int
  OBVIOUS

LEMMA BlockChunks ==
  ASSUME NEW b \in 0 .. Blocks - 1, NEW k \in 0 .. BlockLen - 1
  PROVE  b * BlockLen + k \in 0 .. FileLen - 1
<1>1. b \in Int /\ Blocks \in Int /\ BlockLen \in Nat \ {0} /\ b >= 0 /\ b < Blocks
  BY BootAssumption
<1>2. CASE b + 1 = Blocks
  BY <1>1, <1>2 DEF FileLen
<1>3. CASE b + 1 < Blocks
  <2>1. (b + 1) * BlockLen < Blocks * BlockLen
    BY <1>1, <1>3, BlockOrder
  <2> QED
    BY <1>1, <2>1 DEF FileLen
<1> QED
  BY <1>1, <1>2, <1>3

LEMMA Division ==
  ASSUME NEW n \in Nat \ {0}, NEW a \in Nat
  PROVE  /\ a = n * (a \div n) + (a % n)
         /\ a \div n \in Int /\ a % n \in 0 .. n - 1
<1>1. a = n * (a \div n) + (a % n)
  BY Z3
<1> QED
  BY <1>1

LEMMA DivisionUnique ==
  ASSUME NEW n \in Nat \ {0}, NEW q \in Int, NEW p \in Int,
         NEW r \in 0 .. n - 1, NEW s \in 0 .. n - 1,
         n * q + r = n * p + s
  PROVE  r = s
<1>1. n * q \in Int /\ n * p \in Int
  OBVIOUS
<1>2. CASE q < p
  <2>1. n * p >= n * (q + 1)
    BY <1>2
  <2>2. n * (q + 1) = n * q + n
    OBVIOUS
  <2> QED
    BY <1>1, <2>1, <2>2
<1>3. CASE p < q
  <2>1. n * q >= n * (p + 1)
    BY <1>3
  <2>2. n * (p + 1) = n * p + n
    OBVIOUS
  <2> QED
    BY <1>1, <2>1, <2>2
<1>4. CASE q = p
  BY <1>1, <1>4
<1> QED
  BY <1>2, <1>3, <1>4

(***************************************************************************)
(* The start of the block of a chunk, and of the next chunk's.             *)
(***************************************************************************)
LEMMA BlockStart ==
  ASSUME NEW n \in Nat \ {0}, NEW a \in Nat
  PROVE  /\ a - (a % n) \in 0 .. a
         /\ (a - (a % n)) % n = 0
         /\ (a + 1) % n # 0 => (a + 1) - ((a + 1) % n) = a - (a % n)
<1>1. a - (a % n) \in 0 .. a
  OBVIOUS
<1>2. ASSUME (a + 1) % n # 0 PROVE (a + 1) - ((a + 1) % n) = a - (a % n)
  <2> DEFINE q == a \div n  r == a % n
             p == (a + 1) \div n  s == (a + 1) % n
  <2>1. a = n * q + r /\ q \in Int /\ r \in 0 .. n - 1
    BY Division
  <2>2. a + 1 = n * p + s /\ p \in Int /\ s \in 0 .. n - 1 /\ s # 0
    BY <1>2, Division
  <2>3. n * q \in Int /\ n * p \in Int
    BY <2>1, <2>2
  <2> HIDE DEF q, r, p, s
  <2>4. s - 1 \in 0 .. n - 1 /\ n * q + r = n * p + (s - 1)
    BY <2>1, <2>2, <2>3
  <2>5. r = s - 1
    BY <2>1, <2>2, <2>4, DivisionUnique
  <2>6. (a + 1) - s = a - r
    BY <2>1, <2>2, <2>5
  <2> QED
    BY <2>6 DEF r, s
<1>3. (a - (a % n)) % n = 0
  <2> DEFINE b == a - (a % n)
             q == a \div n  p == b \div n  s == b % n
  <2>1. b \in Nat /\ b = n * q /\ q \in Int
    <3>1. a = n * q + (a % n) /\ q \in Int /\ a % n \in Int /\ n * q \in Int
      BY Division
    <3>2. b = n * q
      BY <3>1
    <3> QED
      BY <1>1, <3>1, <3>2
  <2> HIDE DEF b, q
  <2>2. b = n * p + s /\ p \in Int /\ s \in 0 .. n - 1
    BY <2>1, Division
  <2> HIDE DEF p, s
  <2>3. 0 \in 0 .. n - 1 /\ n * q + 0 = n * p + s
    <3>1. n * q + 0 = n * q
      BY <2>1
    <3> QED
      BY <2>1, <2>2, <3>1
  <2>4. 0 = s
    BY <2>1, <2>2, <2>3, DivisionUnique
  <2> QED
    BY <2>4 DEF b, s
<1> QED
  BY <1>1, <1>2, <1>3

-----------------------------------------------------------------------------
(***************************************************************************)
(* What a step of the console finds: nothing is on its way to the board,   *)
(* and the board does not move.                                            *)
(***************************************************************************)
HostStep ==
  /\ status = "running" /\ cmds = <<>>
  /\ answers' = <<>> /\ restart' = "no"
  /\ opts' = opts /\ faults' = faults
  /\ devAddr' = devAddr /\ devMem' = devMem /\ devFlash' = devFlash /\ jumped' = jumped

(***************************************************************************)
(* The end of the operation: what is said must be true then.               *)
(***************************************************************************)
LEMMA ExitKeeps ==
  ASSUME ConsoleInv, HostStep, NEW how \in {"terminal", "done", "failed"}, Exit(how),
         opState # "BF_START",
         saved' \in [0 .. OutLen - 1 -> Int],
         how = "done" =>
           IF ReadMode THEN \A i \in 0 .. OutLen - 1 : saved'[i] = devMem[i]
           ELSE /\ Loaded
                /\ opts.copy => \A b \in 0 .. Blocks - 1 : devFlash[b] = Block(b)
  PROVE  ConsoleInv'
<1>1. /\ status' = how /\ timer' = FALSE /\ opState' = opState /\ offset' = offset
      /\ flashDst' = flashDst /\ flashSrc' = flashSrc /\ addrSet' = addrSet
      /\ checkpoint' = checkpoint /\ cmds' = <<>>
  BY DEF Exit, HostStep, flashVars
<1>2. ReadMode' = ReadMode /\ (Loaded' <=> Loaded)
  BY DEF HostStep, ReadMode, Loaded
<1>3. TypeOK'
  <2>1. <<>> \in Seq(Commands) /\ <<>> \in Seq(Answers)
    OBVIOUS
  <2> QED
    BY <1>1, <1>2, <2>1 DEF ConsoleInv, TypeOK, HostStep
<1>4. LineInv'
  BY <1>1 DEF LineInv, HostStep
<1>5. PlaceInv'
  BY <1>1, OneMessage DEF PlaceInv, HostStep
<1>6. StateInv'
  BY <1>1 DEF StateInv
<1>7. EndInv'
  <2>1. ImageLoaded'
    BY <1>1, <1>2 DEF ImageLoaded, ConsoleInv, EndInv, DoneIsTrue, HostStep
  <2>2. FlashCopied'
    BY <1>1, <1>2 DEF FlashCopied, HostStep, Block, FileChunk
  <2>3. ReadBack'
    BY <1>1, <1>2 DEF ReadBack, HostStep
  <2>4. (jumped => ~ReadMode /\ cmds = <<>> /\ opState = "BF_DONE_WAIT_OK")'
    BY <1>1, <1>2 DEF HostStep, ConsoleInv, EndInv
  <2> QED
    BY <2>1, <2>2, <2>3, <2>4 DEF EndInv, DoneIsTrue
<1> QED
  BY <1>3, <1>4, <1>5, <1>6, <1>7 DEF ConsoleInv

(***************************************************************************)
(* A command sent: it must be the one that the new state waits for.        *)
(***************************************************************************)
LEMMA SentKeeps ==
  ASSUME ConsoleInv, HostStep, TypeOK', ~jumped,
         status' = status, timer' = TRUE, opState' # "BF_START",
         cmds' = <<Awaited'>>,
         opState' \in {"BF_WRITE_WAIT_OK", "BF_READ_WAIT_OK"} => devAddr = offset',
         opState' = "BF_FLASH_COPY_WAIT_OK" /\ addrSet' => devAddr = flashSrc',
         CheckpointInv', DoneInv'
  PROVE  ConsoleInv'
<1>1. LineInv'
  BY OneMessage DEF LineInv, HostStep
<1>2. PlaceInv'
  BY OneMessage DEF PlaceInv, HostStep
<1>3. StateInv'
  BY DEF StateInv
<1>4. EndInv'
  BY DEF EndInv, DoneIsTrue, ImageLoaded, FlashCopied, ReadBack, HostStep
<1> QED
  BY <1>1, <1>2, <1>3, <1>4 DEF ConsoleInv

(***************************************************************************)
(* run_state_machine, case BF_READ_DATA, with the board at off.            *)
(***************************************************************************)
LEMMA ReadDataKeeps ==
  ASSUME ConsoleInv, HostStep, NEW off \in 0 .. OutLen, ReadData(off),
         ReadMode, opState \in {"BF_SETADDR_WAIT_OK", "BF_READ_WAIT_OK"},
         devAddr = off,
         saved' \in [0 .. OutLen - 1 -> Int],
         \A i \in 0 .. off - 1 : saved'[i] = devMem[i]
  PROVE  ConsoleInv'
<1>0. OutLen \in Nat
  BY BootAssumption
<1>1. CASE off < OutLen
  <2>1. /\ offset' = off /\ opState' = "BF_READ_WAIT_OK"
        /\ checkpoint' = CheckpointAt("BF_SETADDR", off, flashDst, flashSrc, addrSet)
        /\ cmds' = <<ReadMem>> /\ timer' = TRUE /\ status' = status
        /\ flashDst' = flashDst /\ flashSrc' = flashSrc /\ addrSet' = addrSet
    BY <1>1, OneMessage DEF ReadData, DeviceWrite, HostStep, flashVars
  <2>2. flashDst = 0 /\ flashSrc = 0 /\ ~addrSet /\ addrSet \in BOOLEAN
    BY DEF ConsoleInv, TypeOK, StateInv, CheckpointInv, HostStep
  <2>3. ReadMode' /\ off \in Nat
    BY <1>0 DEF HostStep, ReadMode
  <2>4. TypeOK'
    <3>1. ReadMem \in Commands
      BY DEF ReadMem, Command, Commands
    <3>2. <<ReadMem>> \in Seq(Commands) /\ <<>> \in Seq(Answers)
      BY <3>1
    <3>3. checkpoint' \in [valid : BOOLEAN, state : {"BF_START", "BF_SETADDR", "BF_FLASH_COPY"},
                           offset : Nat, flashDst : Nat, flashSrc : Nat, addrSet : BOOLEAN]
      BY <2>1, <2>2, <2>3 DEF CheckpointAt
    <3> QED
      BY <2>1, <2>2, <2>3, <3>2, <3>3 DEF ConsoleInv, TypeOK, HostStep, OpStates
  <2>5. CheckpointInv'
    BY <2>1, <2>2 DEF CheckpointInv, CheckpointAt
  <2>6. DoneInv'
    BY <1>1, <2>1, <2>3 DEF DoneInv, HostStep
  <2>7. Awaited' = ReadMem /\ ~jumped
    BY <2>1 DEF Awaited, ConsoleInv, EndInv, ReadMem, Command
  <2> QED
    BY <2>1, <2>4, <2>5, <2>6, <2>7, SentKeeps
<1>2. CASE ~(off < OutLen)
  <2>1. Exit("done") /\ off = OutLen
    BY <1>0, <1>2 DEF ReadData
  <2> QED
    BY <2>1, ExitKeeps
<1> QED
  BY <1>1, <1>2

(***************************************************************************)
(* Case BF_FLASH_COPY: the blocks before dst are done.                     *)
(***************************************************************************)
LEMMA FlashCopyKeeps ==
  ASSUME ConsoleInv, HostStep, NEW off \in Nat, NEW dst \in Nat, NEW set \in BOOLEAN,
         FlashCopy(off, dst, off, set), saved' = saved,
         ~ReadMode, Loaded, ~jumped, opState # "BF_START",
         opts.copy, ~opts.jmp, off = dst * BlockLen,
         \A b \in 0 .. dst - 1 : b < Blocks => devFlash[b] = Block(b),
         set => /\ devAddr = off
                /\ checkpoint = CheckpointAt("BF_FLASH_COPY", off, dst, off, FALSE)
  PROVE  ConsoleInv'
<1>0. Blocks \in Nat /\ BlockLen \in Nat \ {0} /\ FileLen \in Nat
  BY BootAssumption DEF FileLen
<1>1. CASE off < FileLen
  <2>1. /\ offset' = off /\ flashDst' = dst /\ flashSrc' = off /\ addrSet' = set
        /\ checkpoint' = CheckpointAt("BF_FLASH_COPY", off, dst, off, FALSE)
        /\ cmds' = <<IF set THEN FlashCopyTo(dst) ELSE SetAddress(off)>> /\ timer' = TRUE
        /\ status' = status /\ opState' = "BF_FLASH_COPY_WAIT_OK"
    BY <1>1, OneMessage DEF FlashCopy, DeviceWrite, HostStep
  <2>2. dst < Blocks
    BY <1>0, <1>1, BlockOrder DEF FileLen
  <2>3. ~ReadMode' /\ Loaded'
    BY DEF HostStep, ReadMode, Loaded
  <2>4. TypeOK'
    <3>1. (IF set THEN FlashCopyTo(dst) ELSE SetAddress(off)) \in Commands
      BY DEF FlashCopyTo, SetAddress, Command, Commands
    <3>2. cmds' \in Seq(Commands) /\ <<>> \in Seq(Answers)
      BY <2>1, <3>1
    <3>3. checkpoint' \in [valid : BOOLEAN, state : {"BF_START", "BF_SETADDR", "BF_FLASH_COPY"},
                           offset : Nat, flashDst : Nat, flashSrc : Nat, addrSet : BOOLEAN]
      BY <2>1 DEF CheckpointAt
    <3>4. offset' \in 0 .. FileLen /\ flashDst' \in 0 .. Blocks - 1 /\ flashSrc' \in 0 .. FileLen
      BY <1>0, <1>1, <2>1, <2>2
    <3> QED
      BY <2>1, <2>3, <3>2, <3>3, <3>4 DEF ConsoleInv, TypeOK, HostStep, OpStates
  <2>5. CheckpointInv'
    BY <2>1 DEF CheckpointInv, CheckpointAt
  <2>6. DoneInv'
    <3>1. \A b \in 0 .. dst - 1 : devFlash'[b] = Block(b)
      BY <1>0, <2>2 DEF HostStep
    <3>2. \A i \in 0 .. off - 1 : devMem'[i] = FileChunk(i)
      BY <1>0, <1>1, <2>3 DEF Loaded
    <3> QED
      BY <2>1, <2>2, <2>3, <3>1, <3>2 DEF DoneInv, Block, FileChunk, HostStep
  <2>7. Awaited' = IF set THEN FlashCopyTo(dst) ELSE SetAddress(off)
    BY <2>1 DEF Awaited, FlashCopyTo, SetAddress, Command
  <2> QED
    BY <2>1, <2>4, <2>5, <2>6, <2>7, SentKeeps DEF HostStep
<1>2. CASE ~(off < FileLen)
  <2>1. Exit("done")
    BY <1>2 DEF FlashCopy
  <2>2. ~(dst < Blocks)
    BY <1>0, <1>2, BlockOrder DEF FileLen
  <2>3. \A b \in 0 .. Blocks - 1 : devFlash[b] = Block(b)
    BY <1>0, <2>2
  <2>4. saved' \in [0 .. OutLen - 1 -> Int]
    BY DEF ConsoleInv, TypeOK
  <2> QED
    BY <2>1, <2>3, <2>4, ExitKeeps
<1> QED
  BY <1>1, <1>2

(***************************************************************************)
(* Case BF_WRITE_DATA, with the board at off.                              *)
(***************************************************************************)
LEMMA WriteDataKeeps ==
  ASSUME ConsoleInv, HostStep, NEW off \in 0 .. FileLen, WriteData(off), saved' = saved,
         ~ReadMode, opState \in {"BF_SETADDR_WAIT_OK", "BF_WRITE_WAIT_OK"},
         devAddr = off,
         \A i \in 0 .. off - 1 : devMem[i] = FileChunk(i),
         off % BlockLen # 0 /\ checkpoint.valid =>
           /\ checkpoint.state = "BF_SETADDR"
           /\ checkpoint.offset = off - (off % BlockLen)
  PROVE  ConsoleInv'
<1>0. Blocks \in Nat /\ BlockLen \in Nat \ {0} /\ FileLen \in Nat
  BY BootAssumption DEF FileLen
<1>1. /\ flashDst = 0 /\ flashSrc = 0 /\ ~addrSet /\ addrSet \in BOOLEAN
      /\ checkpoint.flashDst = 0 /\ checkpoint.flashSrc = 0 /\ ~checkpoint.addrSet
      /\ ~jumped
  BY DEF ConsoleInv, TypeOK, StateInv, CheckpointInv, EndInv, HostStep
<1>2. ~ReadMode' /\ off \in Nat
  BY <1>0 DEF HostStep, ReadMode
<1>3. ASSUME off < FileLen, offset' = off,
             checkpoint' = IF off % BlockLen = 0
                           THEN CheckpointAt("BF_SETADDR", off, flashDst, flashSrc, addrSet)
                           ELSE checkpoint,
             DeviceWrite(WriteMem(off)), opState' = "BF_WRITE_WAIT_OK",
             UNCHANGED <<status, flashVars>>
      PROVE  ConsoleInv'
  <2>1. /\ cmds' = <<WriteMem(off)>> /\ timer' = TRUE /\ status' = status
        /\ flashDst' = flashDst /\ flashSrc' = flashSrc /\ addrSet' = addrSet
    BY <1>3, OneMessage DEF DeviceWrite, HostStep, flashVars
  <2>2. TypeOK'
    <3>1. WriteMem(off) \in Commands
      BY <1>2 DEF WriteMem, Command, Commands, FileChunk
    <3>2. cmds' \in Seq(Commands) /\ <<>> \in Seq(Answers)
      BY <2>1, <3>1
    <3>3. checkpoint' \in [valid : BOOLEAN, state : {"BF_START", "BF_SETADDR", "BF_FLASH_COPY"},
                           offset : Nat, flashDst : Nat, flashSrc : Nat, addrSet : BOOLEAN]
      BY <1>1, <1>2, <1>3 DEF CheckpointAt, ConsoleInv, TypeOK
    <3> QED
      BY <1>2, <1>3, <2>1, <3>2, <3>3 DEF ConsoleInv, TypeOK, HostStep, OpStates
  <2>3. CheckpointInv'
    <3>1. off - 0 = off
      BY <1>2
    <3>2. CASE off % BlockLen = 0
      BY <1>1, <1>3, <2>1, <3>1, <3>2 DEF CheckpointInv, CheckpointAt
    <3>3. CASE off % BlockLen # 0
      BY <1>1, <1>3, <2>1, <3>3 DEF CheckpointInv
    <3> QED
      BY <3>2, <3>3
  <2>4. DoneInv'
    BY <1>2, <1>3, <2>1 DEF DoneInv, HostStep
  <2>5. Awaited' = WriteMem(off)
    BY <1>3 DEF Awaited, WriteMem, Command, FileChunk
  <2> QED
    BY <1>1, <1>3, <2>1, <2>2, <2>3, <2>4, <2>5, SentKeeps
<1>4. ASSUME off >= FileLen PROVE Loaded
  BY <1>0, <1>4 DEF Loaded
<1>5. ASSUME off >= FileLen, opts.jmp, offset' = off, DeleteCheckpoint,
             DeviceWrite(SetAddress(JmpAddr)), opState' = "BF_JMP_WAIT_OK",
             UNCHANGED <<status, flashVars>>
      PROVE  ConsoleInv'
  <2>1. /\ cmds' = <<SetAddress(JmpAddr)>> /\ timer' = TRUE /\ status' = status
        /\ flashDst' = flashDst /\ flashSrc' = flashSrc /\ addrSet' = addrSet
        /\ checkpoint' = [checkpoint EXCEPT !.valid = FALSE]
    BY <1>5, OneMessage DEF DeviceWrite, HostStep, flashVars, DeleteCheckpoint
  <2>2. /\ checkpoint' \in [valid : BOOLEAN, state : {"BF_START", "BF_SETADDR", "BF_FLASH_COPY"},
                            offset : Nat, flashDst : Nat, flashSrc : Nat, addrSet : BOOLEAN]
        /\ ~checkpoint'.valid /\ checkpoint'.flashDst = 0 /\ checkpoint'.flashSrc = 0
        /\ ~checkpoint'.addrSet
    BY <1>1, <2>1 DEF ConsoleInv, TypeOK
  <2>3. TypeOK'
    <3>1. SetAddress(JmpAddr) \in Commands
      BY DEF SetAddress, JmpAddr, Command, Commands
    <3>2. cmds' \in Seq(Commands) /\ <<>> \in Seq(Answers)
      BY <2>1, <3>1
    <3> QED
      BY <1>2, <1>5, <2>1, <2>2, <3>2 DEF ConsoleInv, TypeOK, HostStep, OpStates
  <2>4. CheckpointInv'
    BY <1>1, <1>5, <2>1, <2>2 DEF CheckpointInv
  <2>5. DoneInv'
    BY <1>2, <1>4, <1>5, <2>1 DEF DoneInv, HostStep, Loaded
  <2>6. Awaited' = SetAddress(JmpAddr)
    BY <1>5 DEF Awaited, SetAddress, JmpAddr, Command
  <2> QED
    BY <1>1, <1>5, <2>1, <2>3, <2>4, <2>5, <2>6, SentKeeps
<1>6. ASSUME off >= FileLen, ~opts.jmp, opts.copy, FlashCopy(0, flashDst, flashSrc, FALSE)
      PROVE  ConsoleInv'
  <2>1. FlashCopy(0, 0, 0, FALSE)
    BY <1>1, <1>6 DEF FlashCopy, DeviceWrite
  <2>2. 0 \in Nat /\ 0 = 0 * BlockLen /\ \A b \in 0 .. 0 - 1 : devFlash[b] = Block(b)
    BY <1>0
  <2>3. Loaded
    BY <1>4, <1>6
  <2> QED
    BY <1>1, <1>6, <2>1, <2>2, <2>3, FlashCopyKeeps
<1>7. ASSUME off >= FileLen, ~opts.copy, Exit("done") PROVE ConsoleInv'
  <2>1. saved' \in [0 .. OutLen - 1 -> Int]
    BY DEF ConsoleInv, TypeOK
  <2> QED
    BY <1>4, <1>7, <2>1, ExitKeeps
<1> QED
  BY <1>3, <1>5, <1>6, <1>7 DEF WriteData

(***************************************************************************)
(* restart_operations, with the state that belongs to the checkpoint.      *)
(***************************************************************************)
LEMMA RestartKeeps ==
  ASSUME ConsoleInv, HostStep, NEW next, RestartOperations(next), saved' = saved,
         opState # "BF_START",
         checkpoint.valid => next = StateRestored
  PROVE  ConsoleInv'
<1>0. OutLen \in Nat /\ FileLen \in Nat
  BY BootAssumption DEF FileLen
<1>1. CASE ~checkpoint.valid
  <2>1. Exit("failed")
    BY <1>1 DEF RestartOperations
  <2>2. saved' \in [0 .. OutLen - 1 -> Int]
    BY DEF ConsoleInv, TypeOK
  <2> QED
    BY <2>1, <2>2, ExitKeeps
<1>2. CASE checkpoint.valid
  <2>0. /\ checkpoint \in [valid : BOOLEAN, state : {"BF_START", "BF_SETADDR", "BF_FLASH_COPY"},
                           offset : Nat, flashDst : Nat, flashSrc : Nat, addrSet : BOOLEAN]
        /\ offset \in 0 .. (IF ReadMode THEN OutLen ELSE FileLen)
        /\ ReadMode' = ReadMode /\ (Loaded' <=> Loaded)
    BY DEF ConsoleInv, TypeOK, HostStep, ReadMode, Loaded
  <2>1. /\ offset' = checkpoint.offset /\ flashDst' = checkpoint.flashDst
        /\ flashSrc' = checkpoint.flashSrc /\ addrSet' = checkpoint.addrSet
        /\ opState' = next /\ status' = status /\ checkpoint' = checkpoint
        /\ timer' = TRUE
    BY <1>2 DEF RestartOperations, SetAddr, DeviceWrite
  <2>2. opState \notin {"BF_JMP_WAIT_OK", "BF_DONE_WAIT_OK"} /\ ~jumped
    BY <1>2 DEF ConsoleInv, StateInv, CheckpointInv, EndInv, HostStep
  <2>3. CASE opState = "BF_FLASH_COPY_WAIT_OK"
    <3>1. checkpoint = CheckpointAt("BF_FLASH_COPY", offset, flashDst, flashSrc, FALSE)
      BY <2>3 DEF ConsoleInv, StateInv, CheckpointInv, HostStep
    <3>2. /\ checkpoint.state = "BF_FLASH_COPY" /\ checkpoint.offset = offset
          /\ checkpoint.flashDst = flashDst /\ checkpoint.flashSrc = flashSrc
          /\ checkpoint.addrSet = FALSE
      BY <3>1 DEF CheckpointAt
    <3>3. /\ opState' = "BF_FLASH_COPY_WAIT_OK"
          /\ cmds' = <<SetAddress(flashSrc)>>
      BY <1>2, <2>1, <3>2, OneMessage DEF RestartOperations, StateRestored, DeviceWrite, HostStep
    <3>4. TypeOK'
      <4>1. SetAddress(flashSrc) \in Commands
        BY <2>0, <3>2 DEF SetAddress, Command, Commands
      <4>2. cmds' \in Seq(Commands) /\ <<>> \in Seq(Answers)
        BY <3>3, <4>1
      <4> QED
        BY <2>0, <2>1, <3>2, <3>3, <4>2 DEF ConsoleInv, TypeOK, HostStep, OpStates
    <3>5. CheckpointInv'
      BY <2>1, <3>1, <3>2, <3>3 DEF CheckpointInv, CheckpointAt
    <3>6. DoneInv'
      BY <2>0, <2>1, <2>3, <3>2, <3>3
         DEF ConsoleInv, StateInv, DoneInv, HostStep, Block, FileChunk
    <3>7. Awaited' = SetAddress(flashSrc)
      BY <2>1, <3>2, <3>3 DEF Awaited, SetAddress, Command
    <3> QED
      BY <2>1, <2>2, <3>2, <3>3, <3>4, <3>5, <3>6, <3>7, SentKeeps
  <2>4. CASE opState \in {"BF_SETADDR_WAIT_OK", "BF_WRITE_WAIT_OK", "BF_READ_WAIT_OK"}
    <3>1. /\ checkpoint.state = "BF_SETADDR"
          /\ checkpoint.flashDst = 0 /\ checkpoint.flashSrc = 0 /\ ~checkpoint.addrSet
      BY <1>2, <2>4 DEF ConsoleInv, StateInv, CheckpointInv, HostStep
    <3>2. /\ checkpoint.offset \in 0 .. offset
          /\ ~ReadMode => checkpoint.offset % BlockLen = 0
      <4>1. offset \in Nat
        BY <1>0, <2>0
      <4>2. CASE opState = "BF_WRITE_WAIT_OK"
        <5>1. checkpoint.offset = offset - (offset % BlockLen)
          BY <1>2, <4>2 DEF ConsoleInv, StateInv, CheckpointInv, HostStep
        <5> QED
          BY <4>1, <5>1, BlockStart, BootAssumption
      <4>3. CASE opState \in {"BF_SETADDR_WAIT_OK", "BF_READ_WAIT_OK"}
        <5>1. checkpoint.offset = offset
          BY <1>2, <4>3 DEF ConsoleInv, StateInv, CheckpointInv, HostStep
        <5>2. ~ReadMode => offset % BlockLen = 0
          BY <4>3 DEF ConsoleInv, StateInv, CheckpointInv, DoneInv, HostStep
        <5> QED
          BY <4>1, <5>1, <5>2
      <4> QED
        BY <2>4, <4>2, <4>3
    <3>3. /\ opState' = "BF_SETADDR_WAIT_OK"
          /\ cmds' = <<SetAddress(checkpoint.offset)>>
      BY <1>2, <2>1, <3>1, OneMessage
         DEF RestartOperations, StateRestored, SetAddr, DeviceWrite, HostStep
    <3>4. TypeOK'
      <4>1. SetAddress(checkpoint.offset) \in Commands
        BY <2>0 DEF SetAddress, Command, Commands
      <4>2. cmds' \in Seq(Commands) /\ <<>> \in Seq(Answers)
        BY <3>3, <4>1
      <4>3. offset' \in 0 .. (IF ReadMode THEN OutLen ELSE FileLen)
        BY <1>0, <2>0, <2>1, <3>2
      <4> QED
        BY <1>0, <2>0, <2>1, <3>1, <3>3, <4>2, <4>3 DEF ConsoleInv, TypeOK, HostStep, OpStates
    <3>5. CheckpointInv'
      BY <2>0, <2>1, <3>1, <3>2, <3>3 DEF CheckpointInv
    <3>6. DoneInv'
      <4>1. \A i \in 0 .. checkpoint.offset - 1 : i \in 0 .. offset - 1
        BY <1>0, <2>0, <3>2
      <4> QED
        BY <2>0, <2>1, <3>3, <4>1 DEF ConsoleInv, StateInv, DoneInv, HostStep, FileChunk
    <3>7. Awaited' = SetAddress(checkpoint.offset)
      BY <2>1, <3>3 DEF Awaited, SetAddress, Command
    <3> QED
      BY <2>1, <2>2, <3>3, <3>4, <3>5, <3>6, <3>7, SentKeeps
  <2> QED
    BY <2>2, <2>3, <2>4 DEF ConsoleInv, TypeOK, OpStates
<1> QED
  BY <1>1, <1>2

(***************************************************************************)
(* uart_read_cb takes the one answer that there is.  The arguments of the  *)
(* operators are constants in the lemmas: the state's values are named     *)
(* first where they are used.                                              *)
(***************************************************************************)
Answered(input) ==
  \/ StartAnswered(input)
  \/ SetAddrAnswered(input)
  \/ WriteAnswered(input)
  \/ ReadAnswered(input)
  \/ JmpAnswered(input)
  \/ DoneAnswered(input)
  \/ FlashCopyAnswered(input)

LEMMA AnswerTaken ==
  ASSUME ConsoleInv, UartReadCb
  PROVE  /\ HostStep
         /\ \E a \in PossibleAnswers : answers = <<a>> /\ Answered(<<a>>)
<1>1. PICK n \in 1 .. Len(answers) :
        /\ answers' = SubSeq(answers, n + 1, Len(answers))
        /\ Answered(SubSeq(answers, 1, n))
  BY DEF UartReadCb, Answered
<1>2. answers # <<>>
  BY <1>1
<1>3. PICK a \in PossibleAnswers : answers = <<a>>
  BY <1>2 DEF ConsoleInv, LineInv
<1>4. n = 1
  BY <1>1, <1>3, OneMessage
<1>5. answers' = <<>> /\ SubSeq(answers, 1, n) = <<a>>
  BY <1>1, <1>3, <1>4, OneMessage
<1>6. Answered(<<a>>)
  BY <1>1, <1>5
     DEF Answered, StartAnswered, SetAddrAnswered, WriteAnswered, ReadAnswered,
         JmpAnswered, DoneAnswered, FlashCopyAnswered
<1>7. cmds = <<>> /\ restart = "no" /\ status = "running"
  BY <1>2 DEF ConsoleInv, LineInv
<1>8. HostStep
  BY <1>5, <1>7 DEF HostStep, UartReadCb, deviceVars
<1> QED
  BY <1>3, <1>6, <1>8

LEMMA StartKeeps ==
  ASSUME ConsoleInv, HostStep, NEW input, StartAnswered(input)
  PROVE  ConsoleInv'
<1>0. OutLen \in Nat /\ FileLen \in Nat /\ BlockLen \in Nat \ {0}
  BY BootAssumption DEF FileLen
<1>1. /\ offset = 0 /\ flashDst = 0 /\ flashSrc = 0 /\ ~addrSet /\ ~jumped
      /\ checkpoint.flashDst = 0 /\ checkpoint.flashSrc = 0 /\ ~checkpoint.addrSet
  BY DEF StartAnswered, HostStep, ConsoleInv, StateInv, CheckpointInv, DoneInv, EndInv
<1>2. /\ cmds' = <<SetAddress(0)>> /\ timer' = TRUE /\ status' = status
      /\ opState' = "BF_SETADDR_WAIT_OK" /\ offset' = 0
      /\ flashDst' = flashDst /\ flashSrc' = flashSrc /\ addrSet' = addrSet
      /\ checkpoint' = [checkpoint EXCEPT !.valid = FALSE] /\ saved' = saved
  BY <1>1, OneMessage DEF StartAnswered, SetAddr, DeviceWrite, DeleteCheckpoint, HostStep, flashVars
<1>3. /\ checkpoint' \in [valid : BOOLEAN, state : {"BF_START", "BF_SETADDR", "BF_FLASH_COPY"},
                          offset : Nat, flashDst : Nat, flashSrc : Nat, addrSet : BOOLEAN]
      /\ ~checkpoint'.valid /\ checkpoint'.flashDst = 0 /\ checkpoint'.flashSrc = 0
      /\ ~checkpoint'.addrSet
  BY <1>1, <1>2 DEF ConsoleInv, TypeOK
<1>4. TypeOK'
  <2>1. SetAddress(0) \in Commands
    BY DEF SetAddress, Command, Commands
  <2>2. cmds' \in Seq(Commands) /\ <<>> \in Seq(Answers)
    BY <1>2, <2>1
  <2> QED
    BY <1>0, <1>2, <1>3, <2>2 DEF ConsoleInv, TypeOK, HostStep, OpStates
<1>5. CheckpointInv'
  BY <1>0, <1>1, <1>2, <1>3 DEF CheckpointInv
<1>6. DoneInv'
  BY <1>2 DEF DoneInv
<1>7. Awaited' = SetAddress(0)
  BY <1>2 DEF Awaited, SetAddress, Command
<1> QED
  BY <1>1, <1>2, <1>4, <1>5, <1>6, <1>7, SentKeeps

(***************************************************************************)
(* An answer that was not expected, in a state that its own checkpoint     *)
(* leads back to.                                                          *)
(***************************************************************************)
LEMMA ErrorKeeps ==
  ASSUME ConsoleInv, HostStep, ResponseError, saved' = saved,
         opState \in {"BF_SETADDR_WAIT_OK", "BF_FLASH_COPY_WAIT_OK"}
  PROVE  ConsoleInv'
<1>1. PICK next : next = opState
  OBVIOUS
<1>2. RestartOperations(next)
  BY <1>1 DEF ResponseError, RestartOperations
<1>3. checkpoint.valid => next = StateRestored
  BY <1>1 DEF ConsoleInv, StateInv, CheckpointInv, CheckpointAt, HostStep, StateRestored
<1> QED
  BY <1>2, <1>3, RestartKeeps

LEMMA RespOkIsAwaited ==
  ASSUME ConsoleInv, answers = <<RespOk>>, opState # "BF_READ_WAIT_OK"
  PROVE  answers = <<AwaitedAnswer>>
  BY DEF AwaitedAnswer

LEMMA SetAddrKeeps ==
  ASSUME ConsoleInv, HostStep, NEW a, answers = <<a>>, SetAddrAnswered(<<a>>)
  PROVE  ConsoleInv'
<1>0. OutLen \in Nat /\ FileLen \in Nat /\ BlockLen \in Nat \ {0}
  BY BootAssumption DEF FileLen
<1>1. opState = "BF_SETADDR_WAIT_OK" /\ saved' = saved
  BY DEF SetAddrAnswered
<1>2. CASE <<a>> # <<RespOk>> /\ ResponseError
  BY <1>1, <1>2, ErrorKeeps
<1>3. ASSUME <<a>> = <<RespOk>> PROVE devAddr = offset
  BY <1>1, <1>3, RespOkIsAwaited DEF ConsoleInv, PlaceInv
<1>4. PICK off : off = offset
  OBVIOUS
<1>5. off \in 0 .. (IF ReadMode THEN OutLen ELSE FileLen) /\ saved \in [0 .. OutLen - 1 -> Int]
  BY <1>4 DEF ConsoleInv, TypeOK
<1>6. CASE <<a>> = <<RespOk>> /\ ReadMode /\ ReadData(offset)
  <2>1. ReadData(off)
    BY <1>4, <1>6 DEF ReadData, DeviceWrite
  <2>2. \A i \in 0 .. off - 1 : saved[i] = devMem[i]
    BY <1>4, <1>6 DEF ConsoleInv, StateInv, DoneInv, HostStep
  <2> QED
    BY <1>1, <1>3, <1>4, <1>5, <1>6, <2>1, <2>2, ReadDataKeeps
<1>7. CASE <<a>> = <<RespOk>> /\ ~ReadMode /\ WriteData(offset)
  <2>1. WriteData(off)
    BY <1>4, <1>7 DEF WriteData, DeviceWrite
  <2>2. \A i \in 0 .. off - 1 : devMem[i] = FileChunk(i)
    BY <1>4, <1>7 DEF ConsoleInv, StateInv, DoneInv, HostStep
  <2>3. off % BlockLen = 0
    BY <1>1, <1>4, <1>7 DEF ConsoleInv, StateInv, CheckpointInv, HostStep
  <2> QED
    BY <1>1, <1>3, <1>4, <1>5, <1>7, <2>1, <2>2, <2>3, WriteDataKeeps
<1> QED
  BY <1>2, <1>6, <1>7 DEF SetAddrAnswered

LEMMA WriteKeeps ==
  ASSUME ConsoleInv, HostStep, NEW a \in PossibleAnswers, answers = <<a>>, WriteAnswered(<<a>>)
  PROVE  ConsoleInv'
<1>0. FileLen \in Nat /\ BlockLen \in Nat \ {0}
  BY BootAssumption DEF FileLen
<1>1. opState = "BF_WRITE_WAIT_OK" /\ saved' = saved /\ ~ReadMode /\ offset < FileLen
  BY DEF WriteAnswered, ConsoleInv, StateInv, DoneInv, HostStep
<1>2. a = RespOk /\ answers = <<AwaitedAnswer>>
  BY <1>1 DEF PossibleAnswers, AwaitedAnswer
<1>3. devAddr = offset + 1 /\ devMem[offset] = FileChunk(offset)
  BY <1>1, <1>2 DEF ConsoleInv, PlaceInv
<1>4. offset \in Nat
  BY <1>0, <1>1 DEF ConsoleInv, TypeOK
<1>5. PICK off : off = offset + 1
  OBVIOUS
<1>6. WriteData(off)
  BY <1>1, <1>2, <1>5 DEF WriteAnswered, WriteData, DeviceWrite
<1>7. off \in 0 .. FileLen
  BY <1>0, <1>1, <1>4, <1>5
<1>8. \A i \in 0 .. off - 1 : devMem[i] = FileChunk(i)
  <2>1. \A i \in 0 .. offset - 1 : devMem[i] = FileChunk(i)
    BY <1>1 DEF ConsoleInv, StateInv, DoneInv, HostStep
  <2>2. \A i \in 0 .. off - 1 : i \in 0 .. offset - 1 \/ i = offset
    BY <1>4, <1>5
  <2> QED
    BY <1>3, <2>1, <2>2
<1>9. off % BlockLen # 0 /\ checkpoint.valid =>
        checkpoint.state = "BF_SETADDR" /\ checkpoint.offset = off - (off % BlockLen)
  <2>1. checkpoint.valid =>
          checkpoint.state = "BF_SETADDR" /\ checkpoint.offset = offset - (offset % BlockLen)
    BY <1>1 DEF ConsoleInv, StateInv, CheckpointInv, HostStep
  <2> QED
    BY <1>0, <1>4, <1>5, <2>1, BlockStart
<1> QED
  BY <1>1, <1>3, <1>5, <1>6, <1>7, <1>8, <1>9, WriteDataKeeps

LEMMA ReadKeeps ==
  ASSUME ConsoleInv, HostStep, NEW a \in PossibleAnswers, answers = <<a>>, ReadAnswered(<<a>>)
  PROVE  ConsoleInv'
<1>0. OutLen \in Nat
  BY BootAssumption
<1>1. opState = "BF_READ_WAIT_OK" /\ ReadMode /\ offset < OutLen
  BY DEF ReadAnswered, ConsoleInv, StateInv, DoneInv, HostStep
<1>2. a = RespData(devMem[offset]) /\ answers = <<AwaitedAnswer>>
  BY <1>1 DEF PossibleAnswers, AwaitedAnswer
<1>3. devAddr = offset + 1
  BY <1>1, <1>2 DEF ConsoleInv, PlaceInv
<1>4. offset \in Nat /\ saved \in [0 .. OutLen - 1 -> Int] /\ devMem \in [Memory -> Int]
  BY <1>0, <1>1 DEF ConsoleInv, TypeOK
<1>5. PICK off : off = offset + 1
  OBVIOUS
<1>6. saved' = [saved EXCEPT ![offset] = devMem[offset]] /\ ReadData(offset + 1)
  <2>1. Len(<<a>>) = 1 /\ <<a>>[1] = a /\ a.kind = "data" /\ a.val = devMem[offset]
    BY <1>2, OneMessage DEF RespData
  <2> QED
    BY <2>1 DEF ReadAnswered
<1>7. ReadData(off)
  BY <1>5, <1>6 DEF ReadData, DeviceWrite
<1>8. off \in 0 .. OutLen
  BY <1>0, <1>1, <1>4, <1>5
<1>9. saved' \in [0 .. OutLen - 1 -> Int]
  <2>1. offset \in Memory
    BY <1>0, <1>1, <1>4, BootAssumption DEF Memory, FileLen
  <2> QED
    BY <1>4, <1>6, <2>1
<1>10. \A i \in 0 .. off - 1 : saved'[i] = devMem[i]
  <2>1. \A i \in 0 .. offset - 1 : saved[i] = devMem[i]
    BY <1>1 DEF ConsoleInv, StateInv, DoneInv, HostStep
  <2>2. \A i \in 0 .. off - 1 : i \in 0 .. OutLen - 1 /\ (i \in 0 .. offset - 1 \/ i = offset)
    BY <1>0, <1>1, <1>4, <1>5
  <2> QED
    BY <1>4, <1>6, <2>1, <2>2
<1> QED
  BY <1>1, <1>3, <1>5, <1>7, <1>8, <1>9, <1>10, ReadDataKeeps

LEMMA JmpKeeps ==
  ASSUME ConsoleInv, HostStep, NEW input, JmpAnswered(input)
  PROVE  ConsoleInv'
<1>1. opState = "BF_JMP_WAIT_OK" /\ saved' = saved
  BY DEF JmpAnswered
<1>2. /\ ~jumped /\ ~ReadMode /\ Loaded /\ opts.jmp /\ ~checkpoint.valid
      /\ flashDst = 0 /\ flashSrc = 0 /\ ~addrSet
      /\ checkpoint.flashDst = 0 /\ checkpoint.flashSrc = 0 /\ ~checkpoint.addrSet
  BY <1>1 DEF ConsoleInv, StateInv, CheckpointInv, DoneInv, EndInv, HostStep
<1>3. CASE input = <<RespOk>>
  <2>1. /\ cmds' = <<Jump>> /\ timer' = TRUE /\ status' = status
        /\ opState' = "BF_DONE_WAIT_OK" /\ offset' = offset
        /\ flashDst' = flashDst /\ flashSrc' = flashSrc /\ addrSet' = addrSet
        /\ checkpoint' = checkpoint
    BY <1>3, OneMessage DEF JmpAnswered, DeviceWrite, HostStep, flashVars
  <2>2. ~ReadMode' /\ Loaded'
    BY <1>2 DEF HostStep, ReadMode, Loaded
  <2>3. TypeOK'
    <3>1. Jump \in Commands
      BY DEF Jump, Command, Commands
    <3>2. cmds' \in Seq(Commands) /\ <<>> \in Seq(Answers)
      BY <2>1, <3>1
    <3> QED
      BY <1>1, <1>2, <2>1, <2>2, <3>2 DEF ConsoleInv, TypeOK, HostStep, OpStates
  <2>4. CheckpointInv'
    BY <1>2, <2>1 DEF CheckpointInv
  <2>5. DoneInv'
    BY <1>2, <2>1, <2>2 DEF ConsoleInv, StateInv, DoneInv, HostStep, FileChunk
  <2>6. Awaited' = Jump
    BY <2>1 DEF Awaited, Jump, Command
  <2> QED
    BY <1>2, <2>1, <2>3, <2>4, <2>5, <2>6, SentKeeps
<1>4. CASE input # <<RespOk>>
  <2>1. Exit("failed")
    BY <1>4 DEF JmpAnswered
  <2>2. saved' \in [0 .. OutLen - 1 -> Int]
    BY <1>1 DEF ConsoleInv, TypeOK
  <2> QED
    BY <1>1, <2>1, <2>2, ExitKeeps
<1> QED
  BY <1>3, <1>4

LEMMA DoneKeeps ==
  ASSUME ConsoleInv, HostStep, NEW input, DoneAnswered(input)
  PROVE  ConsoleInv'
<1>1. opState = "BF_DONE_WAIT_OK" /\ (Exit("terminal") \/ Exit("failed"))
  BY DEF DoneAnswered, Exit
<1>2. saved' \in [0 .. OutLen - 1 -> Int]
  BY DEF ConsoleInv, TypeOK, DoneAnswered
<1> QED
  BY <1>1, <1>2, ExitKeeps

LEMMA FlashKeeps ==
  ASSUME ConsoleInv, HostStep, NEW a, answers = <<a>>, FlashCopyAnswered(<<a>>)
  PROVE  ConsoleInv'
<1>0. Blocks \in Nat /\ BlockLen \in Nat \ {0}
  BY BootAssumption
<1>1. opState = "BF_FLASH_COPY_WAIT_OK" /\ saved' = saved
  BY DEF FlashCopyAnswered
<1>2. /\ ~jumped /\ ~ReadMode /\ Loaded /\ opts.copy /\ ~opts.jmp
      /\ flashDst < Blocks /\ flashSrc = flashDst * BlockLen /\ offset = flashSrc
      /\ \A b \in 0 .. flashDst - 1 : devFlash[b] = Block(b)
      /\ checkpoint = CheckpointAt("BF_FLASH_COPY", offset, flashDst, flashSrc, FALSE)
  BY <1>1 DEF ConsoleInv, StateInv, CheckpointInv, DoneInv, EndInv, HostStep
<1>3. flashDst \in Nat /\ offset \in Nat /\ addrSet \in BOOLEAN
  BY <1>0, <1>2 DEF ConsoleInv, TypeOK, FileLen
<1>4. CASE <<a>> # <<RespOk>> /\ ResponseError
  BY <1>1, <1>4, ErrorKeeps
<1>5. ASSUME <<a>> = <<RespOk>>
      PROVE  IF addrSet THEN devFlash[flashDst] = Block(flashDst) ELSE devAddr = flashSrc
  BY <1>1, <1>5, RespOkIsAwaited DEF ConsoleInv, PlaceInv
<1>6. CASE /\ <<a>> = <<RespOk>> /\ addrSet
           /\ FlashCopy(offset + BlockLen, flashDst + 1, flashSrc + BlockLen, FALSE)
  <2>1. PICK off, dst : off = offset + BlockLen /\ dst = flashDst + 1
    OBVIOUS
  <2>2. FlashCopy(off, dst, off, FALSE)
    BY <1>2, <1>6, <2>1 DEF FlashCopy, DeviceWrite
  <2>3. off \in Nat /\ dst \in Nat /\ off = dst * BlockLen
    BY <1>0, <1>2, <1>3, <2>1, BlockOrder
  <2>4. \A b \in 0 .. dst - 1 : devFlash[b] = Block(b)
    <3>1. \A b \in 0 .. dst - 1 : b \in 0 .. flashDst - 1 \/ b = flashDst
      BY <1>3, <2>1
    <3> QED
      BY <1>2, <1>5, <1>6, <3>1
  <2> QED
    BY <1>1, <1>2, <2>2, <2>3, <2>4, FlashCopyKeeps
<1>7. CASE <<a>> = <<RespOk>> /\ ~addrSet /\ FlashCopy(offset, flashDst, flashSrc, TRUE)
  <2>1. PICK off, dst : off = offset /\ dst = flashDst
    OBVIOUS
  <2>2. FlashCopy(off, dst, off, TRUE)
    BY <1>2, <1>7, <2>1 DEF FlashCopy, DeviceWrite
  <2>3. /\ off \in Nat /\ dst \in Nat /\ off = dst * BlockLen /\ devAddr = off
        /\ checkpoint = CheckpointAt("BF_FLASH_COPY", off, dst, off, FALSE)
        /\ \A b \in 0 .. dst - 1 : devFlash[b] = Block(b)
    BY <1>2, <1>3, <1>5, <1>7, <2>1
  <2> QED
    BY <1>1, <1>2, <2>2, <2>3, FlashCopyKeeps
<1> QED
  BY <1>4, <1>6, <1>7 DEF FlashCopyAnswered

LEMMA ReadCbKeeps ==
  ASSUME ConsoleInv, UartReadCb
  PROVE  ConsoleInv'
<1>1. HostStep
  BY AnswerTaken
<1>2. PICK a \in PossibleAnswers : answers = <<a>> /\ Answered(<<a>>)
  BY AnswerTaken
<1> QED
  BY <1>1, <1>2, StartKeeps, SetAddrKeeps, WriteKeeps, ReadKeeps, JmpKeeps, DoneKeeps,
     FlashKeeps DEF Answered

(***************************************************************************)
(* restart_operations after a time-out: nothing is on the line.            *)
(***************************************************************************)
LEMMA RestartStep ==
  ASSUME ConsoleInv, Restart
  PROVE  ConsoleInv'
<1>1. restart # "no"
  BY DEF Restart
<1>2. cmds = <<>> /\ answers = <<>> /\ status = "running" /\ opState # "BF_START"
  BY <1>1 DEF ConsoleInv, LineInv
<1>3. HostStep /\ saved' = saved
  BY <1>2 DEF HostStep, Restart, deviceVars
<1>4. PICK next : next = StateRestored
  OBVIOUS
<1>5. RestartOperations(next)
  BY <1>4 DEF Restart, RestartOperations
<1> QED
  BY <1>2, <1>3, <1>4, <1>5, RestartKeeps

-----------------------------------------------------------------------------
(***************************************************************************)
(* The steps of the board, the line and the timer.  The console does not   *)
(* move.                                                                   *)
(***************************************************************************)
HostRests ==
  /\ opts' = opts /\ status' = status /\ opState' = opState /\ offset' = offset
  /\ flashDst' = flashDst /\ flashSrc' = flashSrc /\ addrSet' = addrSet
  /\ checkpoint' = checkpoint /\ saved' = saved

BoardRests ==
  /\ devAddr' = devAddr /\ devMem' = devMem /\ devFlash' = devFlash /\ jumped' = jumped

(***************************************************************************)
(* When neither moves, only what is on the line can have changed.          *)
(***************************************************************************)
LEMMA RestKeeps ==
  ASSUME ConsoleInv, HostRests, BoardRests
  PROVE  /\ StateInv'
         /\ Awaited' = Awaited /\ AwaitedAnswer' = AwaitedAnswer
         /\ PossibleAnswers' = PossibleAnswers
         /\ DoneIsTrue'
         /\ cmds' \in {cmds, <<>>} => EndInv'
         /\ /\ cmds' \in {cmds, <<>>}
            /\ answers' = answers \/ answers' = <<>>
                 \/ \E a \in {RespErr} \cap PossibleAnswers : answers' = <<a>>
            => PlaceInv'
         /\ /\ cmds' \in {cmds, <<>>} /\ timer' \in BOOLEAN
            /\ restart' \in {"no", "scheduled", "due"} /\ faults' \in 0 .. MaxFaults
            /\ answers' \in {answers, <<>>, <<RespErr>>}
            => TypeOK'
<1>1. StateInv'
  BY DEF ConsoleInv, StateInv, CheckpointInv, CheckpointAt, DoneInv, Loaded, Block, FileChunk,
         ReadMode, HostRests, BoardRests
<1>2. Awaited' = Awaited /\ AwaitedAnswer' = AwaitedAnswer
  BY DEF Awaited, AwaitedAnswer, HostRests, BoardRests, SetAddress, WriteMem, ReadMem, Jump,
         JmpAddr, FlashCopyTo, Command, FileChunk, RespData, RespOk
<1>3. PossibleAnswers' = PossibleAnswers
  BY <1>2 DEF PossibleAnswers, HostRests
<1>4. DoneIsTrue'
  BY DEF ConsoleInv, EndInv, DoneIsTrue, ImageLoaded, FlashCopied, ReadBack, Loaded, Block,
         FileChunk, ReadMode, HostRests, BoardRests
<1>5. ASSUME cmds' \in {cmds, <<>>} PROVE EndInv'
  BY <1>4, <1>5 DEF ConsoleInv, EndInv, ReadMode, HostRests, BoardRests
<1>6. ASSUME cmds' \in {cmds, <<>>},
             answers' = answers \/ answers' = <<>>
               \/ \E a \in {RespErr} \cap PossibleAnswers : answers' = <<a>>
      PROVE  PlaceInv'
  <2>1. RespErr # AwaitedAnswer
    BY DEF RespErr, AwaitedAnswer, RespData, RespOk
  <2>2. answers' = <<AwaitedAnswer>> => answers = <<AwaitedAnswer>>
    BY <1>6, <2>1, OneMessage
  <2>3. cmds' # <<>> => cmds # <<>>
    BY <1>6
  <2> QED
    BY <1>2, <2>2, <2>3 DEF ConsoleInv, PlaceInv, Block, FileChunk, HostRests, BoardRests
<1>7. ASSUME cmds' \in {cmds, <<>>}, timer' \in BOOLEAN,
             restart' \in {"no", "scheduled", "due"}, faults' \in 0 .. MaxFaults,
             answers' \in {answers, <<>>, <<RespErr>>}
      PROVE  TypeOK'
  <2>1. RespErr \in Answers
    BY DEF RespErr, Answers
  <2>2. cmds \in Seq(Commands) /\ answers \in Seq(Answers)
    BY DEF ConsoleInv, TypeOK
  <2>3. cmds' \in Seq(Commands) /\ answers' \in Seq(Answers)
    <3>1. <<>> \in Seq(Commands) /\ <<>> \in Seq(Answers)
      OBVIOUS
    <3>2. <<RespErr>> \in Seq(Answers)
      BY <2>1
    <3> HIDE DEF RespErr
    <3>3. cmds' = cmds \/ cmds' = <<>>
      BY <1>7
    <3>4. answers' = answers \/ answers' = <<>> \/ answers' = <<RespErr>>
      BY <1>7
    <3> QED
      BY <2>2, <3>1, <3>2, <3>3, <3>4, Zenon
  <2>4. ReadMode' = ReadMode
    BY DEF ReadMode, HostRests
  <2> QED
    BY <1>7, <2>3, <2>4 DEF ConsoleInv, TypeOK, HostRests, BoardRests
<1> QED
  BY <1>1, <1>2, <1>3, <1>4, <1>5, <1>6, <1>7

LEMMA TimeoutStep ==
  ASSUME Orderly, ConsoleInv, ResponseTimeout
  PROVE  ConsoleInv'
<1>1. /\ status = "running" /\ timer /\ cmds = <<>> /\ answers = <<>>
      /\ timer' = FALSE /\ restart' = "scheduled" /\ cmds' = cmds /\ answers' = answers
      /\ faults' = faults /\ HostRests /\ BoardRests
  BY DEF ResponseTimeout, Orderly, HostRests, BoardRests, flashVars, deviceVars
<1>2. opState # "BF_START"
  BY <1>1 DEF ConsoleInv, LineInv
<1>3. faults' \in 0 .. MaxFaults
  BY <1>1 DEF ConsoleInv, TypeOK
<1>4. TypeOK' /\ StateInv' /\ PlaceInv' /\ EndInv'
  BY <1>1, <1>3, RestKeeps
<1>5. LineInv'
  BY <1>1, <1>2 DEF LineInv, HostRests
<1> QED
  BY <1>4, <1>5 DEF ConsoleInv

LEMMA TerminalStep ==
  ASSUME ConsoleInv, TerminalReadCb
  PROVE  ConsoleInv'
<1>1. /\ status = "running" /\ opState = "BF_START"
      /\ answers' = <<RespErr>> /\ cmds' = cmds /\ timer' = timer /\ restart' = restart
      /\ faults' = faults /\ HostRests /\ BoardRests
  BY DEF TerminalReadCb, HostRests, BoardRests, hostVars, flashVars, deviceVars
<1>2. cmds = <<>> /\ ~timer /\ restart = "no" /\ timer \in BOOLEAN /\ faults \in 0 .. MaxFaults
  BY <1>1 DEF ConsoleInv, LineInv, TypeOK
<1>3. PossibleAnswers = {RespErr}
  BY <1>1 DEF PossibleAnswers
<1>4. TypeOK' /\ StateInv' /\ PlaceInv' /\ EndInv' /\ PossibleAnswers' = PossibleAnswers
  BY <1>1, <1>2, <1>3, RestKeeps
<1>5. LineInv'
  BY <1>1, <1>2, <1>3, <1>4 DEF LineInv, HostRests
<1> QED
  BY <1>4, <1>5 DEF ConsoleInv

(***************************************************************************)
(* A message that is lost, and a command that is refused.                  *)
(***************************************************************************)
LEMMA LossStep ==
  ASSUME ConsoleInv, LoseCommand \/ LoseAnswer
  PROVE  ConsoleInv'
<1>0. MaxFaults \in Nat
  BY BootAssumption
<1>1. /\ timer' = timer /\ restart' = restart
      /\ faults < MaxFaults /\ faults' = faults + 1 /\ HostRests /\ BoardRests
      /\ timer \in BOOLEAN /\ restart \in {"no", "scheduled", "due"} /\ faults \in 0 .. MaxFaults
  BY DEF LoseCommand, LoseAnswer, Fault, HostRests, BoardRests, hostVars, flashVars, deviceVars,
         ConsoleInv, TypeOK
<1>2. cmds' \in {cmds, <<>>} /\ answers' \in {answers, <<>>}
  <2>1. CASE LoseCommand
    <3>1. cmds = <<Awaited>>
      BY <2>1 DEF LoseCommand, ConsoleInv, LineInv
    <3> QED
      BY <2>1, <3>1, OneMessage DEF LoseCommand
  <2>2. CASE LoseAnswer
    <3>1. \E a \in PossibleAnswers : answers = <<a>>
      BY <2>2 DEF LoseAnswer, ConsoleInv, LineInv
    <3> QED
      BY <2>2, <3>1, OneMessage DEF LoseAnswer
  <2> QED
    BY <2>1, <2>2
<1>3. faults' \in 0 .. MaxFaults
  BY <1>0, <1>1
<1>4. /\ TypeOK' /\ StateInv' /\ PlaceInv' /\ EndInv'
      /\ PossibleAnswers' = PossibleAnswers /\ Awaited' = Awaited
  BY <1>1, <1>2, <1>3, RestKeeps
<1>5. LineInv'
  BY <1>1, <1>2, <1>4 DEF ConsoleInv, LineInv, HostRests
<1> QED
  BY <1>4, <1>5 DEF ConsoleInv

LEMMA RefuseStep ==
  ASSUME Orderly, ConsoleInv, DeviceRefuse
  PROVE  ConsoleInv'
<1>0. MaxFaults \in Nat
  BY BootAssumption
<1>1. /\ timer' = timer /\ restart' = restart
      /\ faults < MaxFaults /\ faults' = faults + 1 /\ HostRests /\ BoardRests
      /\ cmds' = Tail(cmds) /\ answers' = Append(answers, RespErr)
      /\ cmds # <<>> /\ Head(cmds).op \in {"a", "W", "j"}
  BY DEF DeviceRefuse, Orderly, Fault, HostRests, BoardRests, hostVars, flashVars, deviceVars
<1>2. timer \in BOOLEAN /\ restart \in {"no", "scheduled", "due"} /\ faults \in 0 .. MaxFaults
  BY DEF ConsoleInv, TypeOK
<1>3. /\ cmds = <<Awaited>> /\ answers = <<>> /\ opState # "BF_START"
      /\ status = "running" /\ restart = "no"
  BY <1>1 DEF ConsoleInv, LineInv
<1>4. cmds' = <<>> /\ answers' = <<RespErr>> /\ Awaited.op \in {"a", "W", "j"}
  BY <1>1, <1>3, OneMessage
<1>5. opState \notin {"BF_WRITE_WAIT_OK", "BF_READ_WAIT_OK"}
  BY <1>4 DEF Awaited, WriteMem, ReadMem, Command
<1>6. RespErr \in PossibleAnswers
  BY <1>5 DEF PossibleAnswers
<1>7. faults' \in 0 .. MaxFaults
  BY <1>0, <1>1, <1>2
<1>8. TypeOK' /\ StateInv' /\ PlaceInv' /\ EndInv' /\ PossibleAnswers' = PossibleAnswers
  BY <1>1, <1>2, <1>4, <1>6, <1>7, RestKeeps
<1>9. LineInv'
  BY <1>1, <1>3, <1>4, <1>6, <1>8 DEF LineInv, HostRests
<1> QED
  BY <1>8, <1>9 DEF ConsoleInv

(***************************************************************************)
(* A command carried out: by the state that waits for it.                  *)
(***************************************************************************)
LEMMA BlockCopied ==
  ASSUME ConsoleInv, Loaded, NEW dst \in 0 .. Blocks - 1
  PROVE  [k \in 0 .. BlockLen - 1 |-> MemAt(dst * BlockLen + k)] = Block(dst)
<1>1. ASSUME NEW k \in 0 .. BlockLen - 1
      PROVE  MemAt(dst * BlockLen + k) = FileChunk(dst * BlockLen + k)
  <2>1. dst * BlockLen + k \in 0 .. FileLen - 1
    BY BlockChunks
  <2>2. FileLen \in Nat /\ OutLen \in Nat
    BY BootAssumption DEF FileLen
  <2>3. dst * BlockLen + k \in Memory
    BY <2>1, <2>2 DEF Memory
  <2> QED
    BY <2>1, <2>3 DEF MemAt, Loaded
<1> QED
  BY <1>1 DEF Block

LEMMA AcceptFacts ==
  ASSUME ConsoleInv, DeviceAccept
  PROVE  /\ HostRests /\ timer' = timer /\ restart' = restart /\ faults' = faults
         /\ cmds = <<Awaited>> /\ cmds' = <<>> /\ answers' = <<Answer(Awaited)>>
         /\ opState # "BF_START" /\ status = "running" /\ restart = "no" /\ timer /\ ~jumped
         /\ devAddr' = CASE Awaited.op = "a" -> Awaited.at
                         [] Awaited.op \in {"w", "r"} -> devAddr + 1
                         [] OTHER -> devAddr
         /\ devMem' = IF Awaited.op = "w" /\ devAddr \in Memory
                      THEN [devMem EXCEPT ![devAddr] = Awaited.val] ELSE devMem
         /\ devFlash' = IF Awaited.op = "W"
                        THEN [devFlash EXCEPT ![Awaited.at] =
                                [k \in 0 .. BlockLen - 1 |-> MemAt(devAddr + k)]]
                        ELSE devFlash
         /\ jumped' = (Awaited.op = "j")
<1>1. /\ ~jumped /\ cmds # <<>> /\ HostRests /\ timer' = timer /\ restart' = restart
      /\ faults' = faults
  BY DEF DeviceAccept, HostRests, hostVars, flashVars
<1>2. cmds = <<Awaited>> /\ answers = <<>> /\ opState # "BF_START" /\ timer
      /\ status = "running" /\ restart = "no"
  BY <1>1 DEF ConsoleInv, LineInv
<1>3. Head(cmds) = Awaited /\ Tail(cmds) = <<>> /\ Append(answers, Answer(Awaited)) = <<Answer(Awaited)>>
  BY <1>2, OneMessage
<1> QED
  BY <1>1, <1>2, <1>3 DEF DeviceAccept

(***************************************************************************)
(* The answer of the board is the one waited for, if what the command has  *)
(* done is what the invariant asks for.                                    *)
(***************************************************************************)
LEMMA AnswerKeeps ==
  ASSUME ConsoleInv, DeviceAccept,
         Answer(Awaited) = AwaitedAnswer', AwaitedAnswer' \in Answers,
         devAddr' \in Int, devMem' \in [Memory -> Int],
         DOMAIN devFlash' = 0 .. Blocks - 1, jumped' \in BOOLEAN,
         StateInv', PlaceInv',
         jumped' => ~ReadMode /\ Loaded' /\ opState = "BF_DONE_WAIT_OK"
  PROVE  ConsoleInv'
<1>1. /\ HostRests /\ timer' = timer /\ restart' = restart /\ faults' = faults
      /\ cmds' = <<>> /\ answers' = <<AwaitedAnswer'>> /\ opState # "BF_START"
      /\ status = "running" /\ restart = "no" /\ timer
  BY AcceptFacts
<1>2. TypeOK'
  <2>1. cmds' \in Seq(Commands) /\ answers' \in Seq(Answers)
    BY <1>1
  <2>2. ReadMode' = ReadMode
    BY <1>1 DEF HostRests, ReadMode
  <2> QED
    BY <1>1, <2>1, <2>2 DEF ConsoleInv, TypeOK, HostRests
<1>3. LineInv'
  <2>1. AwaitedAnswer' \in PossibleAnswers'
    BY <1>1 DEF PossibleAnswers, HostRests
  <2> QED
    BY <1>1, <2>1 DEF LineInv, HostRests
<1>4. EndInv'
  BY <1>1 DEF EndInv, DoneIsTrue, ImageLoaded, FlashCopied, ReadBack, HostRests, ReadMode
<1> QED
  BY <1>2, <1>3, <1>4 DEF ConsoleInv

LEMMA AcceptStep ==
  ASSUME ConsoleInv, DeviceAccept
  PROVE  ConsoleInv'
<1>0. /\ FileLen \in Nat /\ OutLen \in Nat /\ Blocks \in Nat /\ BlockLen \in Nat \ {0}
  BY BootAssumption DEF FileLen
<1>1. /\ HostRests /\ answers' = <<Answer(Awaited)>> /\ cmds' = <<>>
      /\ cmds = <<Awaited>> /\ cmds # <<>> /\ opState # "BF_START" /\ status = "running" /\ ~jumped
  BY AcceptFacts, OneMessage
<1>2. /\ devAddr \in Int /\ devMem \in [Memory -> Int] /\ DOMAIN devFlash = 0 .. Blocks - 1
      /\ offset \in Nat /\ offset \in 0 .. (IF ReadMode THEN OutLen ELSE FileLen)
      /\ flashDst \in Nat /\ flashSrc \in Nat /\ addrSet \in BOOLEAN /\ opState \in OpStates
  BY <1>0 DEF ConsoleInv, TypeOK
<1>3. StateInv /\ CheckpointInv /\ DoneInv
  BY <1>1 DEF ConsoleInv, StateInv
<1>4. CheckpointInv' /\ ReadMode' = ReadMode
  BY <1>1, <1>3 DEF CheckpointInv, CheckpointAt, HostRests, ReadMode
<1>5. RespOk \in Answers
  BY DEF RespOk, Answers
<1>6. CASE \/ opState \in {"BF_SETADDR_WAIT_OK", "BF_JMP_WAIT_OK"}
           \/ /\ opState = "BF_FLASH_COPY_WAIT_OK"
              /\ ~addrSet
  <2>1. /\ Awaited.op = "a" /\ Awaited.at \in Int
        /\ opState = "BF_SETADDR_WAIT_OK" => Awaited.at = offset
        /\ opState = "BF_FLASH_COPY_WAIT_OK" => Awaited.at = flashSrc
    BY <1>2, <1>6 DEF Awaited, SetAddress, JmpAddr, Command
  <2>2. /\ devAddr' = Awaited.at /\ devMem' = devMem /\ devFlash' = devFlash /\ ~jumped'
        /\ jumped' \in BOOLEAN
    BY <2>1, AcceptFacts
  <2>3. Answer(Awaited) = AwaitedAnswer' /\ AwaitedAnswer' = RespOk
    BY <1>1, <1>6, <2>1 DEF Answer, AwaitedAnswer, HostRests
  <2>4. StateInv'
    BY <1>1, <1>3, <1>4, <2>2 DEF StateInv, DoneInv, Loaded, Block, FileChunk, HostRests
  <2>5. PlaceInv'
    BY <1>1, <1>6, <2>1, <2>2 DEF PlaceInv, HostRests
  <2> QED
    BY <1>2, <1>5, <2>1, <2>2, <2>3, <2>4, <2>5, AnswerKeeps
<1>7. CASE opState = "BF_WRITE_WAIT_OK"
  <2>1. Awaited.op = "w" /\ Awaited.val = FileChunk(offset)
    BY <1>7 DEF Awaited, WriteMem, Command
  <2>2. devAddr = offset /\ offset < FileLen /\ ~ReadMode
    BY <1>1, <1>3, <1>7 DEF ConsoleInv, PlaceInv, DoneInv
  <2>3. offset \in Memory
    BY <1>0, <1>2, <2>2 DEF Memory
  <2>4. /\ devAddr' = offset + 1 /\ devMem' = [devMem EXCEPT ![offset] = FileChunk(offset)]
        /\ devFlash' = devFlash /\ ~jumped' /\ jumped' \in BOOLEAN
    BY <2>1, <2>2, <2>3, AcceptFacts
  <2>5. /\ devMem' \in [Memory -> Int] /\ devMem'[offset] = FileChunk(offset)
        /\ \A i \in Memory : i # offset => devMem'[i] = devMem[i]
    BY <1>2, <2>3, <2>4 DEF FileChunk
  <2>6. Answer(Awaited) = AwaitedAnswer' /\ AwaitedAnswer' = RespOk
    BY <1>1, <1>7, <2>1 DEF Answer, AwaitedAnswer, HostRests
  <2>7. StateInv'
    <3>1. \A i \in 0 .. offset - 1 : i \in Memory /\ i # offset
      BY <1>0, <1>2, <2>2 DEF Memory
    <3>2. \A i \in 0 .. offset - 1 : devMem'[i] = FileChunk(i)
      BY <1>3, <2>2, <2>5, <3>1 DEF DoneInv
    <3> QED
      BY <1>1, <1>4, <1>7, <2>2, <3>2 DEF StateInv, DoneInv, HostRests, FileChunk
  <2>8. PlaceInv'
    BY <1>1, <1>7, <2>4, <2>5 DEF PlaceInv, HostRests, FileChunk
  <2> QED
    BY <1>2, <1>5, <2>4, <2>5, <2>6, <2>7, <2>8, AnswerKeeps
<1>8. CASE opState = "BF_READ_WAIT_OK"
  <2>1. Awaited.op = "r"
    BY <1>8 DEF Awaited, ReadMem, Command
  <2>2. devAddr = offset /\ offset < OutLen /\ ReadMode
    BY <1>1, <1>3, <1>8 DEF ConsoleInv, PlaceInv, DoneInv
  <2>3. offset \in Memory /\ devMem[offset] \in Int
    BY <1>0, <1>2, <2>2 DEF Memory
  <2>4. /\ devAddr' = offset + 1 /\ devMem' = devMem /\ devFlash' = devFlash /\ ~jumped'
        /\ jumped' \in BOOLEAN
    BY <2>1, <2>2, AcceptFacts
  <2>5. /\ Answer(Awaited) = AwaitedAnswer' /\ AwaitedAnswer' \in Answers
    BY <1>1, <1>8, <2>1, <2>2, <2>3, <2>4
       DEF Answer, AwaitedAnswer, MemAt, HostRests, RespData, Answers
  <2>6. StateInv'
    BY <1>1, <1>3, <1>4, <2>4 DEF StateInv, DoneInv, Loaded, Block, FileChunk, HostRests
  <2>7. PlaceInv'
    BY <1>1, <1>8, <2>4 DEF PlaceInv, HostRests
  <2> QED
    BY <1>2, <2>4, <2>5, <2>6, <2>7, AnswerKeeps
<1>9. CASE opState = "BF_DONE_WAIT_OK"
  <2>1. Awaited.op = "j"
    BY <1>9 DEF Awaited, Jump, Command
  <2>2. devAddr' = devAddr /\ devMem' = devMem /\ devFlash' = devFlash /\ jumped' = TRUE
    BY <2>1, AcceptFacts
  <2>3. Answer(Awaited) = AwaitedAnswer' /\ AwaitedAnswer' = RespOk
    BY <1>1, <1>9, <2>1 DEF Answer, AwaitedAnswer, HostRests
  <2>4. StateInv'
    BY <1>1, <1>3, <1>4, <2>2 DEF StateInv, DoneInv, Loaded, Block, FileChunk, HostRests
  <2>5. PlaceInv'
    BY <1>1, <1>9, <2>2 DEF PlaceInv, HostRests
  <2>6. ~ReadMode /\ Loaded'
    BY <1>3, <1>9, <2>2 DEF DoneInv, Loaded, FileChunk
  <2> QED
    BY <1>2, <1>5, <1>9, <2>2, <2>3, <2>4, <2>5, <2>6, AnswerKeeps
<1>10. CASE opState = "BF_FLASH_COPY_WAIT_OK" /\ addrSet
  <2>1. Awaited.op = "W" /\ Awaited.at = flashDst
    BY <1>10 DEF Awaited, FlashCopyTo, Command
  <2>2. /\ devAddr = flashDst * BlockLen /\ Loaded /\ ~ReadMode
        /\ flashDst \in 0 .. Blocks - 1
        /\ \A b \in 0 .. flashDst - 1 : devFlash[b] = Block(b)
    BY <1>0, <1>1, <1>2, <1>3, <1>10 DEF ConsoleInv, PlaceInv, DoneInv
  <2>3. [k \in 0 .. BlockLen - 1 |-> MemAt(devAddr + k)] = Block(flashDst)
    <3>1. PICK dst \in 0 .. Blocks - 1 : dst = flashDst
      BY <2>2
    <3> QED
      BY <2>2, <3>1, BlockCopied
  <2>4. /\ devAddr' = devAddr /\ devMem' = devMem /\ ~jumped' /\ jumped' \in BOOLEAN
        /\ devFlash' = [devFlash EXCEPT ![flashDst] = Block(flashDst)]
    BY <2>1, <2>3, AcceptFacts
  <2>5. /\ DOMAIN devFlash' = 0 .. Blocks - 1 /\ devFlash'[flashDst] = Block(flashDst)
        /\ \A b \in 0 .. flashDst - 1 : devFlash'[b] = Block(b)
    <3>1. \A b \in 0 .. flashDst - 1 : b \in 0 .. Blocks - 1 /\ b # flashDst
      BY <1>0, <2>2
    <3> QED
      BY <1>2, <2>2, <2>4, <3>1
  <2>6. Answer(Awaited) = AwaitedAnswer' /\ AwaitedAnswer' = RespOk
    BY <1>1, <1>10, <2>1 DEF Answer, AwaitedAnswer, HostRests
  <2>7. StateInv'
    BY <1>1, <1>3, <1>4, <1>10, <2>2, <2>4, <2>5
       DEF StateInv, DoneInv, Loaded, Block, FileChunk, HostRests
  <2>8. PlaceInv'
    BY <1>1, <1>10, <2>4, <2>5 DEF PlaceInv, HostRests, Block, FileChunk
  <2> QED
    BY <1>2, <1>5, <2>4, <2>5, <2>6, <2>7, <2>8, AnswerKeeps
<1>11. opState \in {"BF_SETADDR_WAIT_OK", "BF_WRITE_WAIT_OK", "BF_READ_WAIT_OK",
                   "BF_JMP_WAIT_OK", "BF_DONE_WAIT_OK", "BF_FLASH_COPY_WAIT_OK"}
  BY <1>1, <1>2 DEF OpStates
<1>12. CASE opState = "BF_FLASH_COPY_WAIT_OK"
  <2>1. CASE addrSet
    BY <1>10, <1>12, <2>1
  <2>2. CASE ~addrSet
    BY <1>6, <1>12, <2>2
  <2> QED
    BY <2>1, <2>2
<1>13. CASE opState \in {"BF_SETADDR_WAIT_OK", "BF_JMP_WAIT_OK"}
  BY <1>6, <1>13
<1> QED
  BY <1>7, <1>8, <1>9, <1>11, <1>12, <1>13

-----------------------------------------------------------------------------
LEMMA ConsoleInit == Init => ConsoleInv
<1> SUFFICES ASSUME Init PROVE ConsoleInv
  OBVIOUS
<1>0. /\ FileLen \in Nat /\ OutLen \in Nat /\ MaxFaults \in Nat /\ BlockLen \in Nat \ {0}
  BY BootAssumption DEF FileLen
<1>1. /\ SetAddress(0) \in Commands /\ <<>> \in Seq(Commands) /\ <<>> \in Seq(Answers)
      /\ <<SetAddress(0)>> \in Seq(Commands) /\ <<SetAddress(0)>> # <<>>
  <2>1. SetAddress(0) \in Commands
    BY DEF SetAddress, Command, Commands
  <2> QED
    BY <2>1
<1>2. TypeOK
  <2>1. offset \in 0 .. (IF ReadMode THEN OutLen ELSE FileLen) /\ faults \in 0 .. MaxFaults
    BY <1>0 DEF Init
  <2>2. saved \in [0 .. OutLen - 1 -> Int]
    BY DEF Init
  <2>3. devMem \in [Memory -> Int]
    <3>1. Memory \subseteq Int
      BY <1>0 DEF Memory
    <3> QED
      BY <3>1 DEF Init, OldChunk
  <2>4. checkpoint \in [valid : BOOLEAN, state : {"BF_START", "BF_SETADDR", "BF_FLASH_COPY"},
                        offset : Nat, flashDst : Nat, flashSrc : Nat, addrSet : BOOLEAN]
    BY DEF Init
  <2>5. /\ cmds \in Seq(Commands) /\ answers \in Seq(Answers) /\ opState \in OpStates
        /\ timer \in BOOLEAN
    BY <1>1 DEF Init, OpStates
  <2>6. DOMAIN devFlash = 0 .. Blocks - 1
    BY DEF Init
  <2>7. /\ flashDst \in {0} \cup 0 .. Blocks - 1 /\ flashSrc \in 0 .. FileLen
        /\ addrSet \in BOOLEAN /\ devAddr \in Int /\ jumped \in BOOLEAN
    <3>1. flashDst = 0 /\ flashSrc = 0 /\ devAddr = 0
      BY DEF Init
    <3>2. addrSet = FALSE /\ jumped = FALSE
      BY DEF Init
    <3>3. /\ flashDst \in {0} \cup 0 .. Blocks - 1 /\ flashSrc \in 0 .. FileLen
          /\ devAddr \in Int
      BY <1>0, <3>1
    <3>4. addrSet \in BOOLEAN /\ jumped \in BOOLEAN
      BY <3>2
    <3> QED
      BY <3>3, <3>4
  <2>8. /\ opts \in Options /\ status \in {"running", "terminal", "done", "failed"}
        /\ restart \in {"no", "scheduled", "due"}
    BY DEF Init
  <2> QED
    BY <2>1, <2>2, <2>3, <2>4, <2>5, <2>6, <2>7, <2>8 DEF TypeOK
<1>3. LineInv
  BY <1>1 DEF Init, LineInv, Awaited
<1>4. PlaceInv
  BY <1>1 DEF Init, PlaceInv
<1>5. CheckpointInv
  <2>1. /\ opState \in {"BF_START", "BF_SETADDR_WAIT_OK"}
        /\ flashDst = 0 /\ flashSrc = 0 /\ addrSet = FALSE
    BY DEF Init
  <2>2. /\ checkpoint.valid = FALSE /\ checkpoint.flashDst = 0 /\ checkpoint.flashSrc = 0
        /\ checkpoint.addrSet = FALSE
    BY DEF Init
  <2>3. offset % BlockLen = 0
    BY <1>0 DEF Init
  <2> QED
    BY <2>1, <2>2, <2>3 DEF CheckpointInv
<1>6. DoneInv
  BY DEF Init, DoneInv
<1>7. EndInv
  BY DEF Init, EndInv, DoneIsTrue, ImageLoaded, FlashCopied, ReadBack
<1> QED
  BY <1>2, <1>3, <1>4, <1>5, <1>6, <1>7 DEF ConsoleInv, StateInv

LEMMA ConsoleStutter == ConsoleInv /\ UNCHANGED vars => ConsoleInv'
<1> SUFFICES ASSUME ConsoleInv, UNCHANGED vars PROVE ConsoleInv'
  OBVIOUS
<1>1. /\ HostRests /\ BoardRests /\ timer' = timer /\ restart' = restart /\ cmds' = cmds
      /\ answers' = answers /\ faults' = faults
  BY DEF vars, hostVars, deviceVars, flashVars, HostRests, BoardRests
<1>2. timer \in BOOLEAN /\ restart \in {"no", "scheduled", "due"} /\ faults \in 0 .. MaxFaults
  BY DEF ConsoleInv, TypeOK
<1>3. /\ TypeOK' /\ StateInv' /\ PlaceInv' /\ EndInv'
      /\ PossibleAnswers' = PossibleAnswers /\ Awaited' = Awaited
  BY <1>1, <1>2, RestKeeps
<1>4. LineInv'
  BY <1>1, <1>3 DEF ConsoleInv, LineInv, HostRests
<1> QED
  BY <1>3, <1>4 DEF ConsoleInv

LEMMA ConsoleStep ==
  ASSUME Orderly
  PROVE  ConsoleInv /\ [Next]_vars => ConsoleInv'
  BY ReadCbKeeps, TimeoutStep, RestartStep, TerminalStep, AcceptStep, RefuseStep, LossStep,
     ConsoleStutter DEF Next

(***************************************************************************)
(* Console and board are in step at every moment of every operation, for   *)
(* files, blocks and downloads of every size and any number of messages    *)
(* lost or refused, as long as no chunk is refused and no answer is late   *)
(* (run_state_machine, restart_operations).                                *)
(***************************************************************************)
THEOREM ConsoleInvariant ==
  ASSUME Orderly
  PROVE  Spec => []ConsoleInv
  BY ConsoleInit, ConsoleStep, PTL DEF Spec

(***************************************************************************)
(* Under the same conditions what the console says is true: the program    *)
(* that is started is all of the file, a copy reported as done is in       *)
(* flash, and a file that was read is what the memory holds.               *)
(***************************************************************************)
THEOREM ConsoleSaysTrue ==
  ASSUME Orderly
  PROVE  Spec => []DoneIsTrue
<1>1. ConsoleInv => DoneIsTrue
  BY DEF ConsoleInv, EndInv
<1> QED
  BY <1>1, ConsoleInvariant, PTL

-----------------------------------------------------------------------------
(***************************************************************************)
(* How far a step goes back.                                               *)
(***************************************************************************)
Nearby ==
  offset' < offset /\ opState' # "BF_FLASH_COPY_WAIT_OK" =>
    offset' = offset - (offset % BlockLen)

LEMMA NearbyRestart ==
  ASSUME ConsoleInv, status = "running", NEW next, RestartOperations(next)
  PROVE  Nearby
<1>1. offset \in Int
  BY BootAssumption DEF ConsoleInv, TypeOK, FileLen
<1>2. CASE ~checkpoint.valid
  <2>1. offset' = offset
    BY <1>2 DEF RestartOperations, Exit
  <2> QED
    BY <1>1, <2>1 DEF Nearby
<1>3. CASE checkpoint.valid
  <2>1. offset' = checkpoint.offset
    BY <1>3 DEF RestartOperations
  <2>2. \/ checkpoint.offset = offset
        \/ checkpoint.offset = offset - (offset % BlockLen)
    BY <1>3 DEF ConsoleInv, TypeOK, OpStates, StateInv, CheckpointInv, CheckpointAt
  <2> QED
    BY <1>1, <2>1, <2>2 DEF Nearby
<1> QED
  BY <1>2, <1>3

LEMMA NearbyError ==
  ASSUME ConsoleInv, status = "running", ResponseError
  PROVE  Nearby
<1>1. PICK next : next = opState
  OBVIOUS
<1>2. RestartOperations(next)
  BY <1>1 DEF ResponseError, RestartOperations
<1> QED
  BY <1>2, NearbyRestart

LEMMA NearbyAnswer ==
  ASSUME ConsoleInv, status = "running", NEW input, Answered(input)
  PROVE  Nearby
<1>1. offset \in Int
  BY BootAssumption DEF ConsoleInv, TypeOK, FileLen
<1>2. ASSUME offset' \in {offset, offset + 1} PROVE Nearby
  BY <1>1, <1>2 DEF Nearby
<1>3. ASSUME opState' = "BF_FLASH_COPY_WAIT_OK" PROVE Nearby
  BY <1>3 DEF Nearby
<1>4. CASE StartAnswered(input) \/ JmpAnswered(input) \/ DoneAnswered(input)
  <2>1. offset' = offset
    BY <1>4 DEF StartAnswered, JmpAnswered, DoneAnswered, Exit
  <2> QED
    BY <1>2, <2>1
<1>5. CASE SetAddrAnswered(input)
  <2>1. CASE ResponseError
    BY <2>1, NearbyError
  <2>2. CASE ReadData(offset)
    BY <1>2, <2>2 DEF ReadData, Exit
  <2>3. CASE WriteData(offset)
    BY <1>2, <1>3, <2>3 DEF WriteData, FlashCopy, Exit
  <2> QED
    BY <1>5, <2>1, <2>2, <2>3 DEF SetAddrAnswered
<1>6. CASE WriteAnswered(input)
  <2>1. CASE ResponseError
    BY <2>1, NearbyError
  <2>2. CASE WriteData(offset + 1)
    BY <1>2, <1>3, <2>2 DEF WriteData, FlashCopy, Exit
  <2> QED
    BY <1>6, <2>1, <2>2 DEF WriteAnswered
<1>7. CASE ReadAnswered(input)
  <2>1. CASE ResponseError
    BY <2>1, NearbyError
  <2>2. CASE ReadData(offset + 1)
    BY <1>2, <2>2 DEF ReadData, Exit
  <2> QED
    BY <1>7, <2>1, <2>2 DEF ReadAnswered
<1>8. CASE FlashCopyAnswered(input)
  <2>1. CASE ResponseError
    BY <2>1, NearbyError
  <2>2. CASE FlashCopy(offset + BlockLen, flashDst + 1, flashSrc + BlockLen, FALSE)
    BY <1>2, <1>3, <2>2 DEF FlashCopy, Exit
  <2>3. CASE FlashCopy(offset, flashDst, flashSrc, TRUE)
    BY <1>2, <1>3, <2>3 DEF FlashCopy, Exit
  <2> QED
    BY <1>8, <2>1, <2>2, <2>3 DEF FlashCopyAnswered
<1> QED
  BY <1>4, <1>5, <1>6, <1>7, <1>8 DEF Answered

LEMMA NearbyStep ==
  ASSUME ConsoleInv, Next
  PROVE  Nearby
<1>1. CASE UartReadCb
  <2>1. PICK a : Answered(<<a>>)
    BY <1>1, AnswerTaken
  <2>2. status = "running"
    BY <1>1 DEF UartReadCb
  <2> QED
    BY <2>1, <2>2, NearbyAnswer
<1>2. CASE Restart
  <2>1. status = "running"
    BY <1>2 DEF Restart, ConsoleInv, LineInv
  <2>2. PICK next : next = StateRestored
    OBVIOUS
  <2>3. RestartOperations(next)
    BY <1>2, <2>2 DEF Restart, RestartOperations
  <2> QED
    BY <2>1, <2>3, NearbyRestart
<1>3. CASE \/ ResponseTimeout \/ TerminalReadCb \/ DeviceAccept
           \/ DeviceRefuse \/ LoseCommand \/ LoseAnswer
  <2>1. offset' = offset /\ offset \in Int
    BY <1>3, BootAssumption
       DEF ResponseTimeout, TerminalReadCb, DeviceAccept, DeviceRefuse, LoseCommand, LoseAnswer,
           hostVars, ConsoleInv, TypeOK, FileLen
  <2> QED
    BY <2>1 DEF Nearby
<1> QED
  BY <1>1, <1>2, <1>3 DEF Next

(***************************************************************************)
(* A restart of an upload repeats no more than the block that was being    *)
(* uploaded, for blocks and files of every size, as long as no chunk is    *)
(* refused and no answer is late (create_restart_checkpoint).              *)
(***************************************************************************)
THEOREM ConsoleRestartsNearby ==
  ASSUME Orderly
  PROVE  Spec => RestartNearby
<1>1. ConsoleInv /\ [Next]_vars => [Nearby]_vars
  BY NearbyStep
<1>2. Spec => [][Nearby]_vars
  BY <1>1, ConsoleInvariant, PTL DEF Spec
<1> QED
  BY <1>2, PTL DEF RestartNearby, Nearby

-----------------------------------------------------------------------------
(***************************************************************************)
(* The console as a Loader.  What it cannot see, and its actions in the    *)
(* terms of the console.                                                   *)
(***************************************************************************)
LEMMA LoaderUnmoved ==
  ASSUME UNCHANGED <<opts, devMem, devFlash, jumped, saved, status>>
  PROVE  UNCHANGED Loading!loaderVars
  BY DEF Loading!loaderVars

LEMMA LoaderLoaded == Loading!Loaded <=> Loaded
  BY DEF Loading!Loaded, Loaded

LEMMA LoaderChunk ==
  ASSUME status = "running", ~jumped, ~ReadMode,
         NEW i \in 0 .. FileLen - 1,
         \A j \in 0 .. i - 1 : devMem[j] = FileChunk(j),
         devMem' = [devMem EXCEPT ![i] = FileChunk(i)],
         UNCHANGED <<opts, devFlash, jumped, saved, status>>
  PROVE  Loading!Next
<1> DEFINE File == [k \in 0 .. FileLen - 1 |-> FileChunk(k)]
<1>1. FileLen \in Nat
  BY BootAssumption DEF FileLen
<1>2. /\ DOMAIN File = 0 .. FileLen - 1 /\ i \in Int
      /\ \A j \in 0 .. i - 1 : devMem[j] = File[j]
      /\ devMem' = [devMem EXCEPT ![i] = File[i]]
  BY <1>1
<1> HIDE DEF File
<1>3. Loading!LoadChunk(i)
  BY <1>2 DEF Loading!LoadChunk, Loading!Writes, ReadMode, File
<1> QED
  BY <1>2, <1>3 DEF Loading!Next, File

LEMMA LoaderBlock ==
  ASSUME status = "running", ~jumped, ~ReadMode, Loaded, opts.copy, ~opts.jmp,
         NEW b \in 0 .. Blocks - 1,
         \A c \in 0 .. b - 1 : devFlash[c] = Block(c),
         devFlash' = [devFlash EXCEPT ![b] = Block(b)],
         UNCHANGED <<opts, devMem, jumped, saved, status>>
  PROVE  Loading!Next
<1> DEFINE Image == [c \in 0 .. Blocks - 1 |-> Block(c)]
<1>1. Blocks \in Nat
  BY BootAssumption
<1>2. /\ DOMAIN Image = 0 .. Blocks - 1 /\ b \in Int
      /\ \A c \in 0 .. b - 1 : devFlash[c] = Image[c]
      /\ devFlash' = [devFlash EXCEPT ![b] = Image[b]]
  BY <1>1
<1> HIDE DEF Image
<1>3. Loading!CopyBlock(b)
  BY <1>2, LoaderLoaded DEF Loading!CopyBlock, Loading!Writes, ReadMode, Image
<1> QED
  BY <1>2, <1>3 DEF Loading!Next, Image

LEMMA LoaderStart ==
  ASSUME status = "running", ~jumped, ~ReadMode, Loaded, opts.jmp, jumped' = TRUE,
         UNCHANGED <<opts, devMem, devFlash, saved, status>>
  PROVE  Loading!Next
  BY LoaderLoaded DEF Loading!Next, Loading!Start, Loading!Writes, ReadMode

LEMMA LoaderSave ==
  ASSUME status = "running", ReadMode,
         NEW i \in 0 .. OutLen - 1,
         \A j \in 0 .. i - 1 : saved[j] = devMem[j],
         saved' = [saved EXCEPT ![i] = devMem[i]],
         status' = IF i + 1 = OutLen THEN "done" ELSE status,
         UNCHANGED <<opts, devMem, devFlash, jumped>>
  PROVE  Loading!Next
<1>1. Loading!SaveChunk(i)
  BY DEF Loading!SaveChunk, ReadMode
<1> QED
  BY <1>1 DEF Loading!Next

(***************************************************************************)
(* The end of an operation.  That it is complete when the console says so  *)
(* is in the invariant behind the step.                                    *)
(***************************************************************************)
LEMMA LoaderEnd ==
  ASSUME HostStep, saved' = saved, ConsoleInv',
         status' \in {"done", "terminal", "failed"},
         status' = "terminal" => jumped,
         status' = "done" /\ ~ReadMode => ~opts.jmp
  PROVE  Loading!Next
<1>1. ASSUME status' = "done" PROVE Loading!Complete
  <2>1. DoneIsTrue' /\ ReadMode' = ReadMode
    BY DEF ConsoleInv, EndInv, HostStep, ReadMode
  <2>2. CASE ReadMode
    <3>1. \A i \in 0 .. OutLen - 1 : saved[i] = devMem[i]
      BY <1>1, <2>1, <2>2 DEF DoneIsTrue, ReadBack, HostStep
    <3> QED
      BY <2>2, <3>1 DEF Loading!Complete, ReadMode
  <2>3. CASE ~ReadMode
    <3>1. Loaded /\ ~opts.jmp
      BY <1>1, <2>1, <2>3 DEF DoneIsTrue, ImageLoaded, Loaded, FileChunk, HostStep
    <3>2. opts.copy => \A b \in 0 .. Blocks - 1 : devFlash[b] = Block(b)
      BY <1>1, <2>1, <2>3 DEF DoneIsTrue, FlashCopied, Block, FileChunk, HostStep
    <3> QED
      BY <2>3, <3>1, <3>2, LoaderLoaded DEF Loading!Complete, ReadMode
  <2> QED
    BY <2>2, <2>3
<1> QED
  BY <1>1 DEF Loading!Next, Loading!End, HostStep

LEMMA LoaderExit ==
  ASSUME HostStep, saved' = saved, ConsoleInv', NEW how \in {"done", "terminal", "failed"},
         Exit(how) \/ status' = status,
         how = "terminal" => jumped,
         how = "done" /\ ~ReadMode => ~opts.jmp
  PROVE  [Loading!Next]_(Loading!loaderVars)
<1>1. CASE Exit(how)
  BY <1>1, LoaderEnd DEF Exit
<1>2. CASE status' = status
  BY <1>2, LoaderUnmoved DEF HostStep
<1> QED
  BY <1>1, <1>2

LEMMA LoaderRestart ==
  ASSUME HostStep, saved' = saved, ConsoleInv', NEW next, RestartOperations(next)
  PROVE  [Loading!Next]_(Loading!loaderVars)
<1>1. Exit("failed") \/ status' = status
  BY DEF RestartOperations
<1> QED
  BY <1>1, LoaderExit

LEMMA LoaderError ==
  ASSUME HostStep, saved' = saved, ConsoleInv', ResponseError
  PROVE  [Loading!Next]_(Loading!loaderVars)
<1>1. PICK next : next = opState
  OBVIOUS
<1>2. RestartOperations(next)
  BY <1>1 DEF ResponseError, RestartOperations
<1> QED
  BY <1>2, LoaderRestart

(***************************************************************************)
(* A chunk that the board has sent is saved.                               *)
(***************************************************************************)
LEMMA LoaderRead ==
  ASSUME ConsoleInv, HostStep, NEW a \in PossibleAnswers, answers = <<a>>, ReadAnswered(<<a>>)
  PROVE  Loading!Next
<1>0. OutLen \in Nat
  BY BootAssumption
<1>1. opState = "BF_READ_WAIT_OK" /\ ReadMode /\ offset < OutLen /\ status = "running"
  BY DEF ReadAnswered, ConsoleInv, StateInv, DoneInv, HostStep
<1>2. a = RespData(devMem[offset])
  BY <1>1 DEF PossibleAnswers, AwaitedAnswer
<1>3. saved' = [saved EXCEPT ![offset] = devMem[offset]] /\ ReadData(offset + 1)
  <2>1. Len(<<a>>) = 1 /\ <<a>>[1] = a /\ a.kind = "data" /\ a.val = devMem[offset]
    BY <1>2, OneMessage DEF RespData
  <2> QED
    BY <2>1 DEF ReadAnswered
<1>4. \A j \in 0 .. offset - 1 : saved[j] = devMem[j]
  BY <1>1 DEF ConsoleInv, StateInv, DoneInv, HostStep
<1>5. PICK i : i = offset
  OBVIOUS
<1>6. i \in 0 .. OutLen - 1
  BY <1>0, <1>1, <1>5 DEF ConsoleInv, TypeOK
<1>7. status' = IF i + 1 = OutLen THEN "done" ELSE status
  BY <1>0, <1>3, <1>5, <1>6 DEF ReadData, Exit
<1> QED
  BY <1>1, <1>3, <1>4, <1>5, <1>6, <1>7, LoaderSave DEF HostStep

LEMMA LoaderAnswer ==
  ASSUME ConsoleInv, ConsoleInv', UartReadCb
  PROVE  [Loading!Next]_(Loading!loaderVars)
<1>1. HostStep
  BY AnswerTaken
<1>2. PICK a \in PossibleAnswers : answers = <<a>> /\ Answered(<<a>>)
  BY AnswerTaken
<1>3. CASE StartAnswered(<<a>>)
  BY <1>1, <1>3, LoaderUnmoved DEF StartAnswered, HostStep
<1>4. CASE SetAddrAnswered(<<a>>)
  <2>1. saved' = saved
    BY <1>4 DEF SetAddrAnswered
  <2>2. CASE ResponseError
    BY <1>1, <2>1, <2>2, LoaderError
  <2>3. CASE ReadMode /\ ReadData(offset)
    <3>1. Exit("done") \/ status' = status
      BY <2>3 DEF ReadData
    <3> QED
      BY <1>1, <2>1, <2>3, <3>1, LoaderExit
  <2>4. CASE WriteData(offset)
    <3>1. (Exit("done") /\ ~opts.jmp) \/ status' = status
      BY <2>4 DEF WriteData, FlashCopy
    <3> QED
      BY <1>1, <2>1, <3>1, LoaderExit
  <2> QED
    BY <1>4, <2>2, <2>3, <2>4 DEF SetAddrAnswered
<1>5. CASE WriteAnswered(<<a>>)
  <2>1. saved' = saved
    BY <1>5 DEF WriteAnswered
  <2>2. CASE ResponseError
    BY <1>1, <2>1, <2>2, LoaderError
  <2>3. CASE WriteData(offset + 1)
    <3>1. (Exit("done") /\ ~opts.jmp) \/ status' = status
      BY <2>3 DEF WriteData, FlashCopy
    <3> QED
      BY <1>1, <2>1, <3>1, LoaderExit
  <2> QED
    BY <1>5, <2>2, <2>3 DEF WriteAnswered
<1>6. CASE ReadAnswered(<<a>>)
  BY <1>1, <1>2, <1>6, LoaderRead
<1>7. CASE JmpAnswered(<<a>>)
  <2>1. saved' = saved /\ (Exit("failed") \/ status' = status)
    BY <1>7 DEF JmpAnswered
  <2> QED
    BY <1>1, <2>1, LoaderExit
<1>8. CASE DoneAnswered(<<a>>)
  <2>1. opState = "BF_DONE_WAIT_OK" /\ saved' = saved /\ <<a>>[1] = a
    BY <1>8 DEF DoneAnswered
  <2>2. CASE a = RespOk
    <3>1. jumped
      BY <1>2, <2>1, <2>2, RespOkIsAwaited DEF ConsoleInv, PlaceInv
    <3>2. Exit("terminal")
      BY <1>8, <2>1, <2>2 DEF DoneAnswered, Exit
    <3> QED
      BY <1>1, <2>1, <3>1, <3>2, LoaderExit
  <2>3. CASE a # RespOk
    <3>1. Exit("failed")
      BY <1>8, <2>1, <2>3 DEF DoneAnswered, Exit
    <3> QED
      BY <1>1, <2>1, <3>1, LoaderExit
  <2> QED
    BY <2>2, <2>3
<1>9. CASE FlashCopyAnswered(<<a>>)
  <2>1. saved' = saved /\ ~opts.jmp
    BY <1>1, <1>9 DEF FlashCopyAnswered, ConsoleInv, StateInv, DoneInv, HostStep
  <2>2. CASE ResponseError
    BY <1>1, <2>1, <2>2, LoaderError
  <2>3. CASE \/ FlashCopy(offset + BlockLen, flashDst + 1, flashSrc + BlockLen, FALSE)
             \/ FlashCopy(offset, flashDst, flashSrc, TRUE)
    <3>1. Exit("done") \/ status' = status
      BY <2>3 DEF FlashCopy
    <3> QED
      BY <1>1, <2>1, <3>1, LoaderExit
  <2> QED
    BY <1>9, <2>2, <2>3 DEF FlashCopyAnswered
<1> QED
  BY <1>2, <1>3, <1>4, <1>5, <1>6, <1>7, <1>8, <1>9 DEF Answered

(***************************************************************************)
(* A command carried out: a chunk, a block, the start, or nothing that a   *)
(* Loader knows of.                                                        *)
(***************************************************************************)
LEMMA LoaderAccept ==
  ASSUME ConsoleInv, DeviceAccept
  PROVE  [Loading!Next]_(Loading!loaderVars)
<1>0. /\ FileLen \in Nat /\ OutLen \in Nat /\ Blocks \in Nat /\ BlockLen \in Nat \ {0}
  BY BootAssumption DEF FileLen
<1>1. /\ cmds # <<>> /\ opState # "BF_START" /\ status = "running" /\ ~jumped
      /\ UNCHANGED <<opts, saved, status>>
  BY AcceptFacts, OneMessage DEF HostRests
<1>2. StateInv /\ DoneInv /\ opState \in OpStates /\ addrSet \in BOOLEAN /\ flashDst \in Nat
  BY <1>0, <1>1 DEF ConsoleInv, StateInv, TypeOK
<1>3. CASE \/ opState \in {"BF_SETADDR_WAIT_OK", "BF_JMP_WAIT_OK", "BF_READ_WAIT_OK"}
           \/ opState = "BF_FLASH_COPY_WAIT_OK" /\ ~addrSet
  <2>1. Awaited.op \in {"a", "r"}
    BY <1>3 DEF Awaited, SetAddress, ReadMem, Command
  <2>2. devMem' = devMem /\ devFlash' = devFlash /\ jumped' = FALSE
    BY <2>1, AcceptFacts
  <2>3. jumped' = jumped
    BY <1>1, <2>2 DEF ConsoleInv, TypeOK
  <2> QED
    BY <1>1, <2>2, <2>3, LoaderUnmoved
<1>4. CASE opState = "BF_WRITE_WAIT_OK"
  <2>1. Awaited.op = "w" /\ Awaited.val = FileChunk(offset)
    BY <1>4 DEF Awaited, WriteMem, Command
  <2>2. devAddr = offset /\ offset \in 0 .. FileLen - 1 /\ ~ReadMode
    BY <1>0, <1>1, <1>2, <1>4 DEF ConsoleInv, TypeOK, PlaceInv, DoneInv
  <2>3. devAddr \in Memory
    BY <1>0, <2>2 DEF Memory
  <2>4. /\ devMem' = [devMem EXCEPT ![offset] = FileChunk(offset)] /\ devFlash' = devFlash
        /\ jumped' = FALSE
    BY <2>1, <2>2, <2>3, AcceptFacts
  <2>5. jumped' = jumped
    BY <1>1, <2>4 DEF ConsoleInv, TypeOK
  <2>6. \A j \in 0 .. offset - 1 : devMem[j] = FileChunk(j)
    BY <1>2, <2>2 DEF DoneInv
  <2>7. PICK i : i = offset
    OBVIOUS
  <2>8. devMem' = [devMem EXCEPT ![i] = FileChunk(i)] /\ i \in 0 .. FileLen - 1
    BY <2>2, <2>4, <2>7 DEF FileChunk
  <2> QED
    BY <1>1, <2>2, <2>4, <2>5, <2>6, <2>7, <2>8, LoaderChunk
<1>5. CASE opState = "BF_DONE_WAIT_OK"
  <2>1. Awaited.op = "j"
    BY <1>5 DEF Awaited, Jump, Command
  <2>2. devMem' = devMem /\ devFlash' = devFlash /\ jumped' = TRUE
    BY <2>1, AcceptFacts
  <2>3. ~ReadMode /\ Loaded /\ opts.jmp
    BY <1>2, <1>5 DEF DoneInv
  <2> QED
    BY <1>1, <2>2, <2>3, LoaderStart
<1>6. CASE opState = "BF_FLASH_COPY_WAIT_OK" /\ addrSet
  <2>1. Awaited.op = "W" /\ Awaited.at = flashDst
    BY <1>6 DEF Awaited, FlashCopyTo, Command
  <2>2. /\ devAddr = flashDst * BlockLen /\ Loaded /\ ~ReadMode /\ opts.copy /\ ~opts.jmp
        /\ flashDst \in 0 .. Blocks - 1
        /\ \A b \in 0 .. flashDst - 1 : devFlash[b] = Block(b)
    BY <1>0, <1>1, <1>2, <1>6 DEF ConsoleInv, PlaceInv, DoneInv
  <2>3. PICK b : b = flashDst
    OBVIOUS
  <2>4. [k \in 0 .. BlockLen - 1 |-> MemAt(devAddr + k)] = Block(b)
    BY <2>2, <2>3, BlockCopied
  <2>5. devMem' = devMem /\ devFlash' = [devFlash EXCEPT ![b] = Block(b)] /\ jumped' = FALSE
    BY <2>1, <2>3, <2>4, AcceptFacts
  <2>6. jumped' = jumped
    BY <1>1, <2>5 DEF ConsoleInv, TypeOK
  <2> QED
    BY <1>1, <2>2, <2>3, <2>5, <2>6, LoaderBlock
<1>7. CASE opState = "BF_FLASH_COPY_WAIT_OK"
  BY <1>2, <1>3, <1>6, <1>7
<1> QED
  BY <1>1, <1>2, <1>3, <1>4, <1>5, <1>7 DEF OpStates

LEMMA LoaderInit == Init => Loading!Init
<1>1. DOMAIN [b \in 0 .. Blocks - 1 |-> Block(b)] = 0 .. Blocks - 1
  OBVIOUS
<1> QED
  BY <1>1 DEF Init, Loading!Init

LEMMA LoaderStep ==
  ASSUME Orderly
  PROVE  ConsoleInv /\ ConsoleInv' /\ [Next]_vars => [Loading!Next]_(Loading!loaderVars)
<1> SUFFICES ASSUME ConsoleInv, ConsoleInv', [Next]_vars
             PROVE  [Loading!Next]_(Loading!loaderVars)
  OBVIOUS
<1>1. CASE UartReadCb
  BY <1>1, LoaderAnswer
<1>2. CASE Restart
  <2>1. restart # "no"
    BY <1>2 DEF Restart
  <2>2. cmds = <<>> /\ answers = <<>> /\ status = "running"
    BY <2>1 DEF ConsoleInv, LineInv
  <2>3. HostStep /\ saved' = saved
    BY <1>2, <2>2 DEF HostStep, Restart, deviceVars
  <2>4. PICK next : next = StateRestored
    OBVIOUS
  <2>5. RestartOperations(next)
    BY <1>2, <2>4 DEF Restart, RestartOperations
  <2> QED
    BY <2>3, <2>5, LoaderRestart
<1>3. CASE DeviceAccept
  BY <1>3, LoaderAccept
<1>4. CASE \/ ResponseTimeout \/ TerminalReadCb \/ DeviceRefuse
           \/ LoseCommand \/ LoseAnswer \/ UNCHANGED vars
  BY <1>4, LoaderUnmoved
     DEF ResponseTimeout, TerminalReadCb, DeviceRefuse, LoseCommand, LoseAnswer, vars, hostVars,
         deviceVars
<1> QED
  BY <1>1, <1>2, <1>3, <1>4 DEF Next

(***************************************************************************)
(* The console with its line and its board is a Loader, for files, blocks  *)
(* and downloads of every size and any number of messages lost or refused, *)
(* as long as no chunk is refused and no answer is late: no restart brings *)
(* a chunk or a block out of order, writes into a program that was         *)
(* started, or behind the end (run_state_machine, restart_operations).     *)
(***************************************************************************)
THEOREM ConsoleImplementsLoader ==
  ASSUME Orderly
  PROVE  Spec => ConsoleIsLoader
<1>1. ConsoleInv /\ ConsoleInv' /\ [Next]_vars => [Loading!Next]_(Loading!loaderVars)
  BY LoaderStep
<1>2. Spec => []ConsoleInv
  BY ConsoleInvariant
<1> QED
  BY <1>1, <1>2, LoaderInit, PTL DEF Spec, ConsoleIsLoader, Loading!Spec
=============================================================================
