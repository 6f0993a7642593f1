------------------------------ MODULE MicroSd ------------------------------
(***************************************************************************)
(* The SD card driver (lib/driver/spi_microsd.c) and the block device that *)
(* the FAT file system sees (SumeruMicroSD of                              *)
(* lib/unistd/sumeru_fatfs.cpp).                                           *)
(*                                                                         *)
(* An action is one exchange with the card, or those that nothing happens  *)
(* between.  The card goes on by itself with one thing: it finishes, or    *)
(* does not finish, a block that it was given to write.                    *)
(*                                                                         *)
(* The card is not part of the repository.  It is what the driver takes it *)
(* to be, and one thing that every card is: while it is busy it holds its  *)
(* output low, so that the byte in which the driver looks for the answer   *)
(* to a command is zero, as if the card took the command.  A block that    *)
(* has not begun to come when the driver stops asking for it never comes.  *)
(*                                                                         *)
(* The contents of a sector are one value; that of a cleared buffer is     *)
(* Blank.                                                                  *)
(***************************************************************************)
EXTENDS Integers

CONSTANTS LastSector,     \* the card has the sectors 0 .. LastSector
          Values, Blank,  \* contents of a sector
          MaxCount,       \* bound on the sectors of a call
          MultiCalls,     \* whether the multiple functions are called
          InitRetries, ReadRetries, WriteRetries   \* CMD_INIT_RETRIES,
                          \* CMD_READ_RETRIES, CMD_WRITE_RETRIES (100)

ASSUME SdAssumption ==
  /\ LastSector \in Nat /\ MaxCount \in Nat \ {0}
  /\ Blank \notin Values
  /\ MultiCalls \subseteq BOOLEAN
  /\ {InitRetries, ReadRetries, WriteRetries} \subseteq Nat \ {0}

VARIABLES
  card,     \* its state "off", "idle" (after a reset), "ready" or "busy";
            \* its kind; the INIT commands it will answer with "idle"; the
            \* job of a busy card; whether it is about to send a block
            \* (reading) or was told that one follows (receiving)
  store,    \* the contents of the card
  pc,       \* where the driver is
  call,     \* the function called and its arguments
  data,     \* the caller's buffer
  i,        \* local i of the multiple functions
  retries,  \* local retries
  result    \* what microsd_init or the last call returned

vars == <<card, store, pc, call, data, i, retries, result>>

Sectors == 0 .. LastSector

-----------------------------------------------------------------------------
(***************************************************************************)
(* The card.                                                               *)
(***************************************************************************)
CardFinishes ==
  /\ card.state = "busy"
  /\ card' = [card EXCEPT !.state = "ready"]
  /\ store' = [store EXCEPT ![card.job.sector] = card.job.value]
  /\ UNCHANGED <<pc, call, data, i, retries, result>>

(***************************************************************************)
(* The driver reads "no error" in the answer to a command for sector s.    *)
(***************************************************************************)
AnswersZero(s) == card.state = "busy" \/ s \in Sectors

-----------------------------------------------------------------------------
(***************************************************************************)
(* microsd_init, called once, for a card that was just powered.            *)
(***************************************************************************)
InitFails(code) == pc' = "failed" /\ result' = code

InitReset ==
  /\ pc = "reset"
  /\ \/ InitFails(-2) /\ card' = card
     \/ pc' = "voltage" /\ result' = result /\ card' = [card EXCEPT !.state = "idle"]
  /\ UNCHANGED <<store, call, data, i, retries>>

InitVoltage ==
  /\ pc = "voltage"
  /\ IF card.version2
     THEN pc' = "init" /\ retries' = InitRetries /\ result' = result
     ELSE InitFails(-3) /\ retries' = retries
  /\ UNCHANGED <<card, store, call, data, i>>

(***************************************************************************)
(* One turn of the loop: ACMD and INIT, each of which the card may answer  *)
(* with an error.  The test behind the loop looks at retries alone: a card *)
(* that becomes ready at the last of them is given up like one that does   *)
(* not.                                                                    *)
(***************************************************************************)
InitPoll ==
  /\ pc = "init"
  /\ retries' = retries - 1
  /\ \/ card' = card /\ \E code \in {-4, -5} : InitFails(code)
     \/ /\ card' = IF card.warmup = 0 THEN [card EXCEPT !.state = "ready"]
                   ELSE [card EXCEPT !.warmup = @ - 1]
        /\ IF retries' = 0 THEN InitFails(-6)
           ELSE /\ pc' = IF card.warmup = 0 THEN "ocr" ELSE "init"
                /\ result' = result
  /\ UNCHANGED <<store, call, data, i>>

(***************************************************************************)
(* A fault variant, for testing the properties: the capacity of the card   *)
(* is not looked at.                                                       *)
(***************************************************************************)
OcrAny == TRUE

(***************************************************************************)
(* "(buf[8] & 0xc0) == 0xc0": powered up, and addressed by sectors.        *)
(***************************************************************************)
OcrGood == card.state = "ready" /\ card.highCap

InitOcr ==
  /\ pc = "ocr"
  /\ IF OcrGood THEN pc' = "idle" /\ result' = 0 ELSE InitFails(-7)
  /\ UNCHANGED <<card, store, call, data, i, retries>>

-----------------------------------------------------------------------------
(***************************************************************************)
(* microsd_read and microsd_write return, and so do the functions for      *)
(* several sectors unless they go on with the next one.  A fault variant   *)
(* looks only at the last of them.                                         *)
(***************************************************************************)
ReturnsLate(code) ==
  LET more == call.multi /\ i + 1 < call.count
  IN  /\ pc' = IF more THEN call.op ELSE "idle"
      /\ i' = IF call.multi THEN i + 1 ELSE i
      /\ result' = CASE ~call.multi -> code
                     [] more        -> result
                     [] OTHER       -> IF code = 0 THEN 1 ELSE 0

Returns(code) ==
  LET more == call.multi /\ code = 0 /\ i + 1 < call.count
  IN  /\ pc' = IF more THEN call.op ELSE "idle"
      /\ i' = IF call.multi /\ code = 0 THEN i + 1 ELSE i
      /\ result' = CASE ~call.multi -> code
                     [] more        -> result
                     [] OTHER       -> IF code = 0 THEN 1 ELSE 0

Goes(place) == pc' = place /\ UNCHANGED <<i, result>>

(***************************************************************************)
(* The condition of the loops that wait for the card, which count retries  *)
(* down.                                                                   *)
(***************************************************************************)
TriesLeft == retries' > 0

(***************************************************************************)
(* A call of one of the four functions.                                    *)
(***************************************************************************)
Call(op, multi, sector, count) ==
  /\ pc = "idle"
  /\ call' = [op |-> op, multi |-> multi, sector |-> sector, count |-> count]
  /\ data' \in [0 .. count - 1 -> IF op = "read" THEN {Blank} ELSE Values]
  /\ i' = 0
  /\ pc' = op
  /\ UNCHANGED <<card, store, retries, result>>

(***************************************************************************)
(* microsd_read: the command, the wait for the start of the block, and the *)
(* block.                                                                  *)
(***************************************************************************)
ReadCommand ==
  /\ pc = "read"
  /\ data' = [data EXCEPT ![i] = Blank]
  /\ \/ /\ AnswersZero(call.sector + i)
        /\ card' = [card EXCEPT !.reading = card.state = "ready"]
        /\ retries' = ReadRetries
        /\ Goes("readPoll")
     \/ /\ card.state = "ready"
        /\ UNCHANGED <<card, retries>>
        /\ Returns(-1)
  /\ UNCHANGED <<store, call>>

(***************************************************************************)
(* A fault variant, for testing the properties: the tries are not counted. *)
(***************************************************************************)
ReadPollUncounted ==
  /\ pc = "readPoll"
  /\ (card.reading /\ Goes("readBlock")) \/ Goes("readPoll")
  /\ UNCHANGED <<card, retries, store, call, data>>

ReadPoll ==
  /\ pc = "readPoll"
  /\ \/ /\ card.reading
        /\ UNCHANGED <<card, retries>>
        /\ Goes("readBlock")
     \/ /\ retries' = retries - 1
        /\ card' = [card EXCEPT !.reading = @ /\ TriesLeft]
        /\ IF TriesLeft THEN Goes("readPoll") ELSE Returns(-2)
  /\ UNCHANGED <<store, call, data>>

ReadBlock ==
  /\ pc = "readBlock"
  /\ data' = [data EXCEPT ![i] = store[call.sector + i]]
  /\ card' = [card EXCEPT !.reading = FALSE]
  /\ Returns(0)
  /\ UNCHANGED <<store, call, retries>>

(***************************************************************************)
(* microsd_write: the command, the block with the card's answer to it, and *)
(* the wait while the card is busy.                                        *)
(***************************************************************************)
WriteCommand ==
  /\ pc = "write"
  /\ \/ /\ AnswersZero(call.sector + i)
        /\ card' = [card EXCEPT !.receiving = card.state = "ready"]
        /\ Goes("writeBlock")
     \/ card.state = "ready" /\ card' = card /\ Returns(-1)
  /\ UNCHANGED <<store, call, data, retries>>

(***************************************************************************)
(* The card takes the block, or does not.                                  *)
(***************************************************************************)
TakesBlock ==
  /\ card.receiving
  /\ card' = [card EXCEPT !.state = "busy", !.receiving = FALSE,
                          !.job = [sector |-> call.sector + i, value |-> data[i]]]

IgnoresBlock == card' = [card EXCEPT !.receiving = FALSE]

(***************************************************************************)
(* A fault variant, for testing the properties: the card's answer to the   *)
(* block is not looked at.                                                 *)
(***************************************************************************)
WriteBlockAnyAnswer ==
  /\ pc = "writeBlock"
  /\ retries' = WriteRetries
  /\ TakesBlock \/ IgnoresBlock
  /\ Goes("writePoll")
  /\ UNCHANGED <<store, call, data>>

(***************************************************************************)
(* "(buf[2] & 0x1f) == 5" is the answer of a card that took the block.     *)
(***************************************************************************)
WriteBlock ==
  /\ pc = "writeBlock"
  /\ \/ TakesBlock /\ retries' = WriteRetries /\ Goes("writePoll")
     \/ IgnoresBlock /\ retries' = retries /\ Returns(-2)
  /\ UNCHANGED <<store, call, data>>

WritePoll ==
  /\ pc = "writePoll"
  /\ retries' = retries - 1
  /\ IF card.state # "busy" THEN Returns(0)
     ELSE IF TriesLeft THEN Goes("writePoll")
     ELSE Returns(-3)
  /\ UNCHANGED <<card, store, call, data>>

-----------------------------------------------------------------------------
Init ==
  /\ card \in [state : {"off"}, version2 : BOOLEAN, highCap : BOOLEAN,
               warmup : 0 .. InitRetries, reading : {FALSE}, receiving : {FALSE},
               job : {[sector |-> 0, value |-> Blank]}]
  /\ store \in [Sectors -> Values]
  /\ pc = "reset"
  /\ call = [op |-> "none", multi |-> FALSE, sector |-> 0, count |-> 0]
  /\ data = [k \in {} |-> Blank]
  /\ i = 0 /\ retries = 0 /\ result = 0

Driver ==
  \/ InitReset \/ InitVoltage \/ InitPoll \/ InitOcr
  \/ ReadCommand \/ ReadPoll \/ ReadBlock
  \/ WriteCommand \/ WriteBlock \/ WritePoll

Next ==
  \/ Driver
  \/ CardFinishes
  \/ \E op \in {"read", "write"}, s \in 0 .. LastSector + 1 :
       \/ FALSE \in MultiCalls /\ Call(op, FALSE, s, 1)
       \/ TRUE \in MultiCalls /\ \E n \in 1 .. MaxCount : Call(op, TRUE, s, n)

(***************************************************************************)
(* The thread runs.  Nothing makes the card finish anything, or the file   *)
(* system call.                                                            *)
(***************************************************************************)
Spec == Init /\ [][Next]_vars /\ WF_vars(Driver)
-----------------------------------------------------------------------------
Cards ==
  [state : {"off", "idle", "ready", "busy"}, version2 : BOOLEAN, highCap : BOOLEAN,
   warmup : 0 .. InitRetries, reading : BOOLEAN, receiving : BOOLEAN,
   job : [sector : Nat, value : Values \cup {Blank}]]

InitPlaces == {"reset", "voltage", "init", "ocr", "failed"}
ReadPlaces == {"read", "readPoll", "readBlock"}
WritePlaces == {"write", "writeBlock", "writePoll"}

TypeOK ==
  /\ card \in Cards
  /\ store \in [Sectors -> Values]
  /\ pc \in InitPlaces \cup {"idle"} \cup ReadPlaces \cup WritePlaces
  /\ call \in [op : {"none", "read", "write"}, multi : BOOLEAN, sector : Nat, count : Nat]
  /\ data \in [0 .. call.count - 1 -> Values \cup {Blank}]
  /\ i \in 0 .. call.count
  /\ retries \in Int /\ result \in -7 .. 1

(***************************************************************************)
(* What microsd_init says is true: the card is ready, of the version that  *)
(* was checked for, and addressed by sectors.                              *)
(***************************************************************************)
InitTrue ==
  pc \notin InitPlaces =>
    card.state \in {"ready", "busy"} /\ card.version2 /\ card.highCap

(***************************************************************************)
(* What the call was for is done, with its k-th sector and with all.       *)
(***************************************************************************)
SectorDone(k) == call.sector + k \in Sectors /\ data[k] = store[call.sector + k]

Done == \A k \in 0 .. call.count - 1 : SectorDone(k)

Returned == pc = "idle" /\ call.op # "none"

(***************************************************************************)
(* The result of a driver function is true: what it says was read is in    *)
(* the buffer, and what it says was written is on the card, although a     *)
(* card still busy with a block that the driver has given up answers the   *)
(* next commands with zeros (microsd_read, microsd_write and the functions *)
(* for several sectors, which return 1 for success).  Of several sectors   *)
(* those before the one that failed are done and stay done; the result     *)
(* does not say how many they are.                                         *)
(***************************************************************************)
ResultTrue ==
  Returned => /\ result = (IF call.multi THEN 1 ELSE 0) => Done
              /\ \A k \in 0 .. i - 1 : SectorDone(k)

(***************************************************************************)
(* Every call returns, and so does microsd_init, even if the card never    *)
(* answers as it should (the retries).                                     *)
(***************************************************************************)
CallReturns == pc \notin {"idle", "failed"} ~> pc \in {"idle", "failed"}

(***************************************************************************)
(* readSector, writeSector, readSectors and writeSectors compare the       *)
(* driver's result with 0.                                                 *)
(***************************************************************************)
BlockDeviceResult == result = 0

(***************************************************************************)
(* "return true for success or false for failure", for all four.           *)
(***************************************************************************)
BlockDeviceTrue == Returned => (BlockDeviceResult => Done)

-----------------------------------------------------------------------------
(***************************************************************************)
(* The inductive invariant.                                                *)
(*                                                                         *)
(* microsd_init comes first, and knows the version once it has asked.      *)
(***************************************************************************)
StartInv ==
  /\ pc \in InitPlaces => call.op = "none" /\ card.state # "busy"
  /\ pc \in {"init", "ocr"} => card.version2

(***************************************************************************)
(* A call is at one of its sectors until it returns, and a write has       *)
(* contents for all of them.                                               *)
(***************************************************************************)
CallInv ==
  /\ pc \in ReadPlaces => call.op = "read"
  /\ pc \in WritePlaces => call.op = "write"
  /\ pc \in ReadPlaces \cup WritePlaces => i < call.count
  /\ call.op # "none" /\ ~call.multi => call.count = 1 /\ i = 0
  /\ call.op = "write" => \A k \in 0 .. call.count - 1 : data[k] \in Values

(***************************************************************************)
(* The card sends or takes a block only in the call that told it to, for a *)
(* sector it has, and not while it is busy.                                *)
(***************************************************************************)
CardInv ==
  /\ card.state = "busy" => card.job.sector \in Sectors /\ card.job.value \in Values
  /\ card.reading => /\ pc \in {"readPoll", "readBlock"} /\ card.state = "ready"
                     /\ call.sector + i \in Sectors
  /\ pc = "readBlock" => card.reading
  /\ card.receiving => /\ pc = "writeBlock" /\ card.state = "ready"
                       /\ call.sector + i \in Sectors

(***************************************************************************)
(* The block that a write waits for is the card's job, or done.            *)
(***************************************************************************)
WaitInv ==
  pc = "writePoll" =>
    /\ call.sector + i \in Sectors
    /\ card.state \in {"ready", "busy"}
    /\ card.state = "busy" => card.job = [sector |-> call.sector + i, value |-> data[i]]
    /\ card.state = "ready" => data[i] = store[call.sector + i]

(***************************************************************************)
(* The sectors a call is past are done, and no job of the card is for one  *)
(* of them.                                                                *)
(***************************************************************************)
PrefixInv ==
  \A k \in 0 .. i - 1 :
    SectorDone(k) /\ (card.state = "busy" => card.job.sector # call.sector + k)

(***************************************************************************)
(* A success leaves the card at rest.                                      *)
(***************************************************************************)
SuccessInv ==
  Returned =>
    /\ call.multi /\ result = 1 => i = call.count
    /\ ~call.multi /\ result = 0 => card.state = "ready" /\ SectorDone(0)

SdInv ==
  /\ TypeOK /\ InitTrue
  /\ StartInv /\ CallInv /\ CardInv /\ WaitInv /\ PrefixInv /\ SuccessInv

-----------------------------------------------------------------------------
(***************************************************************************)
(* The block device that MicroSd implements.  Its disk is what the card    *)
(* holds or has taken: a sector is written when the card takes the block,  *)
(* and the rest of its job is not to be seen.                              *)
(***************************************************************************)
Contents ==
  IF card.state = "busy" THEN [store EXCEPT ![card.job.sector] = card.job.value]
  ELSE store

InCall == pc \in ReadPlaces \cup WritePlaces

SectorsPassed ==
  CASE pc = "writePoll"            -> i + 1
    [] InCall /\ pc # "writePoll" -> i
    [] OTHER                       -> 0

Status ==
  CASE InCall                                  -> "pending"
    [] ~InCall /\ call.op = "none"             -> "none"
    [] ~InCall /\ call.op # "none" ->
         IF result = (IF call.multi THEN 1 ELSE 0) THEN "success" ELSE "failure"

Device == INSTANCE BlockDevice WITH
            disk <- Contents,
            call <- [op |-> call.op, sector |-> call.sector, count |-> call.count],
            buffer <- data,
            done <- SectorsPassed,
            status <- Status

(***************************************************************************)
(* microsd_read, microsd_write and the functions for several sectors are a *)
(* block device, however long the card stays busy and wherever they give   *)
(* up: no block reaches the card behind a call that has returned, and no   *)
(* read finds a sector as it was before a write that went before it        *)
(* (spi_microsd.c 117 to 214).                                             *)
(***************************************************************************)
SdIsBlockDevice == Device!Spec

=============================================================================
