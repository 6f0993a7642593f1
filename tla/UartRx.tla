------------------------------- MODULE UartRx -------------------------------
(***************************************************************************)
(* The receive side of one UART unit (lib/driver/uart.c over               *)
(* lib/driver/consprod.c).                                                 *)
(*                                                                         *)
(* Four actors share the ring:                                             *)
(*   - the UART, which stores the bytes of a transfer into memory;         *)
(*   - the receive interrupt handler, which hands the stored bytes to the  *)
(*     thread and starts the next transfer;                                *)
(*   - the timer interrupt, whose poller starts an idle receiver;          *)
(*   - the thread, which copies bytes out of the ring in uart_read.        *)
(* The UART does not see the data cache, and the cache does not see the    *)
(* UART: the CPU reads a line as memory was when the line was filled.      *)
(*                                                                         *)
(* The UART raises its interrupt when the transfer is complete and may     *)
(* also raise it while bytes are still arriving.  It goes on storing bytes *)
(* while the handler runs, so the handler is two steps: up to the read of  *)
(* the control register, and the write that starts the next transfer.      *)
(*                                                                         *)
(* The k-th byte that the UART stores is the number k.  A byte that comes  *)
(* when no transfer is under way is dropped by the UART and changes        *)
(* nothing here.                                                           *)
(***************************************************************************)
EXTENDS ConsProd, Sequences

CONSTANTS LineSize,   \* bytes of a data cache line
          MaxDma,     \* longest transfer the control register can ask for
          ReadLens,   \* lengths given to uart_read
          MaxBytes    \* bound on the bytes the UART stores in a behaviour

ASSUME RxAssumption ==
  /\ LineSize \in Nat \ {0}
  /\ MaxDma \in Nat \ {0}
  /\ ReadLens \subseteq Nat \ {0}
  /\ MaxBytes \in Nat

VARIABLES
  prod, cons,      \* sc_rx_cp.prod and sc_rx_cp.cons
  rxStarted,       \* UART_FLAG_RX_STARTED of sc_flags
  lastpos,         \* sc_rx_lastpos
  polling,         \* poller 0 of the timer is uart_poll
  isr,             \* where the CPU is in uart_rx_intr_handler
  dmaStart, dmaLen, dmaCount,   \* the receive control register: the slot and
                   \* the length it was given, and the bytes stored since
  rxIrq,           \* a receive interrupt is pending
  mem,             \* the ring as the UART sees it
  cache, resident, \* the cached copy of the ring and the lines that are valid
  pc,              \* where the thread is in uart_read
  len, left,       \* argument len and local x of consprod_read
  nextCons,        \* local next_cons
  received,        \* bytes the UART has stored
  kept,            \* those of them that no restart has discarded
  published,       \* how many of these the handler has handed over
  got              \* what uart_read has copied to its callers

ringVars   == <<prod, cons>>
driverVars == <<rxStarted, lastpos>>
deviceVars == <<dmaStart, dmaLen, dmaCount>>
cacheVars  == <<cache, resident>>
readerVars == <<pc, len, left, nextCons>>
streamVars == <<received, kept, published, got>>
vars == <<ringVars, driverVars, polling, isr, deviceVars, rxIrq, mem,
          cacheVars, readerVars, streamVars>>

Line(i) == i \div LineSize

Lines == {Line(i) : i \in Slots}

LinesOf(a, b) == {Line(i) : i \in a .. b - 1}

-----------------------------------------------------------------------------
(***************************************************************************)
(* The UART.                                                               *)
(***************************************************************************)
RxBusy == dmaCount < dmaLen

Window == dmaStart + dmaCount .. dmaStart + dmaLen - 1

ReadRegRxCtrl == dmaStart + dmaCount

(***************************************************************************)
(* A byte of the line is stored in memory; the last one of the transfer    *)
(* raises the interrupt.                                                   *)
(***************************************************************************)
ReceiveByte ==
  /\ RxBusy
  /\ received < MaxBytes
  /\ received' = received + 1
  /\ mem' = [mem EXCEPT ![ReadRegRxCtrl] = received + 1]
  /\ kept' = Append(kept, received + 1)
  /\ dmaCount' = dmaCount + 1
  /\ rxIrq' = (rxIrq \/ dmaCount + 1 = dmaLen)
  /\ UNCHANGED <<ringVars, driverVars, polling, isr, dmaStart, dmaLen,
                 cacheVars, readerVars, published, got>>

EarlyInterrupt ==
  /\ RxBusy
  /\ dmaCount > 0
  /\ ~rxIrq
  /\ rxIrq' = TRUE
  /\ UNCHANGED <<ringVars, driverVars, polling, isr, deviceVars, mem,
                 cacheVars, readerVars, streamVars>>

-----------------------------------------------------------------------------
(***************************************************************************)
(* The data cache.  The CPU never writes to this ring, so its lines are    *)
(* clean and may be dropped whenever the cache likes; the entries of a     *)
(* line that is not resident are 0 and are never used.                     *)
(***************************************************************************)
CpuSees(i) == IF Line(i) \in resident THEN cache[i] ELSE mem[i]

FillLine(l) ==
  /\ cache' = [i \in Slots |-> IF Line(i) = l THEN CpuSees(i) ELSE cache[i]]
  /\ resident' = resident \cup {l}

(***************************************************************************)
(* A fault variant, for testing the properties: the cache is not flushed.  *)
(***************************************************************************)
DropNothing(lines) == UNCHANGED cacheVars

DropLines(lines) ==
  /\ cache' = [i \in Slots |-> IF Line(i) \in lines THEN 0 ELSE cache[i]]
  /\ resident' = resident \ lines

EvictLine ==
  \E l \in resident :
    /\ DropLines({l})
    /\ UNCHANGED <<ringVars, driverVars, polling, isr, deviceVars, rxIrq, mem,
                   readerVars, streamVars>>

-----------------------------------------------------------------------------
(***************************************************************************)
(* The handlers.                                                           *)
(***************************************************************************)
(***************************************************************************)
(* A fault variant, for testing the properties: the unread bytes are not   *)
(* kept out of the free space.                                             *)
(***************************************************************************)
RxFreeToEnd == N - prod

RxFree == Straight(prod, cons)

(***************************************************************************)
(* Fault variants, for testing the properties: the flag is set although    *)
(* there is no room, or sc_rx_lastpos is not set.                          *)
(***************************************************************************)
RxStartFlagged ==
  /\ rxStarted' = TRUE
  /\ IF RxFree > 0
     THEN /\ lastpos' = prod
          /\ dmaStart' = prod
          /\ dmaLen' = AtMost(RxFree, MaxDma)
          /\ dmaCount' = 0
          /\ kept' = SubSeq(kept, 1, published)
     ELSE UNCHANGED <<lastpos, deviceVars, kept>>

RxStartStale ==
  IF RxFree > 0
  THEN /\ rxStarted' = TRUE
       /\ lastpos' = lastpos
       /\ dmaStart' = prod
       /\ dmaLen' = AtMost(RxFree, MaxDma)
       /\ dmaCount' = 0
       /\ kept' = SubSeq(kept, 1, published)
  ELSE UNCHANGED <<driverVars, deviceVars, kept>>

(***************************************************************************)
(* uart_rx_start.  A transfer that is under way is given up, with the      *)
(* bytes it has stored and nobody has read from the register.              *)
(***************************************************************************)
RxStart ==
  IF RxFree > 0
  THEN /\ rxStarted' = TRUE
       /\ lastpos' = prod
       /\ dmaStart' = prod
       /\ dmaLen' = AtMost(RxFree, MaxDma)
       /\ dmaCount' = 0
       /\ kept' = SubSeq(kept, 1, published)
  ELSE UNCHANGED <<driverVars, deviceVars, kept>>

(***************************************************************************)
(* uart_rx_update in the handler, and the clearing of the flag: the bytes  *)
(* from lastpos to the register's position are invalidated in the cache    *)
(* and handed to the thread.                                               *)
(***************************************************************************)
RxIntrUpdate ==
  LET x == ReadRegRxCtrl
  IN  /\ rxIrq
      /\ isr = "none"
      /\ rxIrq' = FALSE
      /\ isr' = "restart"
      /\ rxStarted' = FALSE
      /\ IF x # lastpos
         THEN /\ DropLines(LinesOf(lastpos, x))
              /\ lastpos' = x
              /\ prod' = Wrap(x)
              /\ published' = Len(kept)
         ELSE UNCHANGED <<cacheVars, lastpos, prod, published>>
      /\ UNCHANGED <<cons, polling, deviceVars, mem, readerVars, received,
                     kept, got>>

RxIntrRestart ==
  /\ isr = "restart"
  /\ isr' = "none"
  /\ RxStart
  /\ UNCHANGED <<ringVars, polling, rxIrq, mem, cacheVars, readerVars,
                 received, published, got>>

(***************************************************************************)
(* A fault variant, for testing the properties: the poller does not look   *)
(* at the flag.                                                            *)
(***************************************************************************)
UartPollAlways ==
  /\ isr = "none"
  /\ polling
  /\ RxStart
  /\ UNCHANGED <<ringVars, polling, isr, rxIrq, mem, cacheVars, readerVars,
                 received, published, got>>

(***************************************************************************)
(* The receive half of uart_poll, called from the timer interrupt.         *)
(***************************************************************************)
UartPoll ==
  /\ isr = "none"
  /\ polling
  /\ ~rxStarted
  /\ RxStart
  /\ UNCHANGED <<ringVars, polling, isr, rxIrq, mem, cacheVars, readerVars,
                 received, published, got>>

-----------------------------------------------------------------------------
(***************************************************************************)
(* The thread: uart_read calls consprod_read for n > 0 bytes.              *)
(***************************************************************************)
Thread == isr = "none"

ReadCall(n) ==
  /\ Thread
  /\ pc = "idle"
  /\ len' = n
  /\ left' = n
  /\ nextCons' = NextSlot(cons)
  /\ pc' = "check"
  /\ UNCHANGED <<ringVars, driverVars, polling, isr, deviceVars, rxIrq, mem,
                 cacheVars, streamVars>>

(***************************************************************************)
(* Fault variants, for testing the properties: the ring is not looked at,  *)
(* or the call waits for all it was asked for.                             *)
(***************************************************************************)
ReadNoCheck ==
  /\ Thread
  /\ pc = "check"
  /\ pc' = "load"
  /\ UNCHANGED <<len, left, nextCons, ringVars, driverVars, polling, isr,
                 deviceVars, rxIrq, mem, cacheVars, streamVars>>

ReadCheckAll ==
  /\ Thread
  /\ pc = "check"
  /\ nextCons # prod
  /\ pc' = "load"
  /\ UNCHANGED <<len, left, nextCons, ringVars, driverVars, polling, isr,
                 deviceVars, rxIrq, mem, cacheVars, streamVars>>

(***************************************************************************)
(* The test of next_cons against prod: an empty ring ends a call that has  *)
(* read something and makes any other call spin.                           *)
(***************************************************************************)
ReadCheck ==
  /\ Thread
  /\ pc = "check"
  /\ \/ nextCons # prod /\ pc' = "load"
     \/ nextCons = prod /\ left # len /\ pc' = "idle"
  /\ UNCHANGED <<len, left, nextCons, ringVars, driverVars, polling, isr,
                 deviceVars, rxIrq, mem, cacheVars, streamVars>>

(***************************************************************************)
(* "*buf = *next_cons", through the cache.                                 *)
(***************************************************************************)
ReadLoad ==
  /\ Thread
  /\ pc = "load"
  /\ got' = Append(got, CpuSees(nextCons))
  /\ FillLine(Line(nextCons))
  /\ pc' = "advance"
  /\ UNCHANGED <<len, left, nextCons, ringVars, driverVars, polling, isr,
                 deviceVars, rxIrq, mem, received, kept, published>>

(***************************************************************************)
(* "cp->cons = next_cons", which gives the slot back, and the rest of the  *)
(* loop's body.                                                            *)
(***************************************************************************)
ReadAdvance ==
  /\ Thread
  /\ pc = "advance"
  /\ cons' = nextCons
  /\ nextCons' = NextSlot(nextCons)
  /\ left' = left - 1
  /\ pc' = IF left = 1 THEN "idle" ELSE "check"
  /\ UNCHANGED <<len, prod, driverVars, polling, isr, deviceVars, rxIrq, mem,
                 cacheVars, streamVars>>

(***************************************************************************)
(* main returns: stop_subsystems removes the poller and stops the timer.   *)
(***************************************************************************)
StopSubsystems ==
  /\ Thread
  /\ pc = "idle"
  /\ polling
  /\ polling' = FALSE
  /\ UNCHANGED <<ringVars, driverVars, isr, deviceVars, rxIrq, mem, cacheVars,
                 readerVars, streamVars>>

-----------------------------------------------------------------------------
Init ==
  /\ prod = 1 /\ cons = 0
  /\ rxStarted = FALSE /\ lastpos = 0
  /\ polling = TRUE
  /\ isr = "none"
  /\ dmaStart = 0 /\ dmaLen = 0 /\ dmaCount = 0
  /\ rxIrq = FALSE
  /\ mem = [i \in Slots |-> 0]
  /\ cache = [i \in Slots |-> 0] /\ resident = {}
  /\ pc = "idle"
  /\ len = 0 /\ left = 0
  /\ nextCons = 1
  /\ received = 0 /\ kept = <<>> /\ published = 0 /\ got = <<>>

ReaderStep == ReadCheck \/ ReadLoad \/ ReadAdvance

Next ==
  \/ ReceiveByte
  \/ EarlyInterrupt
  \/ RxIntrUpdate
  \/ RxIntrRestart
  \/ UartPoll
  \/ \E n \in ReadLens : ReadCall(n)
  \/ ReaderStep
  \/ EvictLine
  \/ StopSubsystems

(***************************************************************************)
(* Pending interrupts are taken, a handler ends, the timer keeps ticking,  *)
(* and the thread, held up by every handler, runs between them.            *)
(* Nothing makes the line, the program or the cache do anything.           *)
(***************************************************************************)
Fairness ==
  /\ WF_vars(RxIntrUpdate)
  /\ WF_vars(RxIntrRestart)
  /\ WF_vars(UartPoll)
  /\ SF_vars(ReaderStep)

Spec == Init /\ [][Next]_vars /\ Fairness

-----------------------------------------------------------------------------
(***************************************************************************)
(* Types: every index stays in the ring and no transfer passes its end.    *)
(***************************************************************************)
TypeOK ==
  /\ prod \in Slots /\ cons \in Slots /\ nextCons \in Slots
  /\ rxStarted \in BOOLEAN /\ polling \in BOOLEAN /\ rxIrq \in BOOLEAN
  /\ lastpos \in 0 .. N
  /\ isr \in {"none", "restart"}
  /\ dmaStart \in Slots /\ dmaLen \in Nat /\ dmaCount \in 0 .. dmaLen
  /\ dmaStart + dmaLen <= N
  /\ mem \in [Slots -> Nat] /\ cache \in [Slots -> Nat]
  /\ resident \subseteq Lines
  /\ pc \in {"idle", "check", "load", "advance"}
  /\ len \in Nat /\ left \in 0 .. len
  /\ received \in Nat /\ published \in 0 .. Len(kept)
  /\ kept \in Seq(Nat) /\ got \in Seq(Nat)

(***************************************************************************)
(* uart_read hands over what the UART stored: no byte is repeated,         *)
(* reordered, skipped once it was published, or read from a stale cache    *)
(* line or from beyond the published bytes (the flush and the order of     *)
(* assignments in uart_rx_update, the tests of consprod_read).             *)
(***************************************************************************)
RxFaithful ==
  /\ Len(got) <= published
  /\ \A i \in 1 .. Len(got) : got[i] = kept[i]

(***************************************************************************)
(* The UART never stores into a slot that holds a byte uart_read has yet   *)
(* to return (the free space computed by uart_rx_start, when cons moves).  *)
(***************************************************************************)
RxNoOverwrite ==
  RxBusy => \A i \in Window : Dist(cons, i) >= Dist(cons, prod)

(***************************************************************************)
(* A stored byte is discarded only by a handler that was interrupted for   *)
(* before its transfer was complete, in the time between its read and its  *)
(* write of the register, and never once it was published; the poller      *)
(* never discards any (uart_rx_intr_handler, uart_poll).                   *)
(***************************************************************************)
RxLossOnlyInHandler ==
  [][Len(kept') < Len(kept) =>
       /\ isr = "restart"
       /\ lastpos < dmaStart + dmaLen
       /\ Len(kept') = published]_vars

(***************************************************************************)
(* The receive side is a FIFO of N - 2 bytes from the handler's hand-over  *)
(* to the callers of uart_read.                                            *)
(***************************************************************************)
Fifo == INSTANCE ByteFifo WITH Capacity <- N - 2,
                               in  <- SubSeq(kept, 1, published),
                               out <- got

RxIsFifo == Fifo!Spec

(***************************************************************************)
(* As long as the poller is installed, a receiver that its handler left    *)
(* idle because the ring was full listens again once the thread has made   *)
(* room, whatever its flag says (uart_poll, uart_rx_start).                *)
(***************************************************************************)
RxListensAgain ==
  (RxFree > 0 /\ ~RxBusy /\ ~rxIrq /\ isr = "none") ~> (RxBusy \/ ~polling)

(***************************************************************************)
(* A uart_read that finds a byte returns: it never waits for the rest of   *)
(* what it was asked for (consprod_read).                                  *)
(***************************************************************************)
ReadReturns == (pc # "idle" /\ published > Len(got)) ~> (pc = "idle")
(***************************************************************************)
(* The published bytes that uart_read has not given back, and the number   *)
(* of those it has.                                                        *)
(***************************************************************************)
Unread   == Dist(cons, prod) - 1
Consumed == published - Unread

Ready(i) == Dist(cons, i) \in 1 .. Unread

(***************************************************************************)
(* The inductive invariant.                                                *)
(*                                                                         *)
(* prod never meets cons, and the slots between them hold the published    *)
(* bytes that were not given back, also as the CPU sees them.              *)
(***************************************************************************)
RingInv ==
  /\ prod # cons
  /\ Consumed >= 0
  /\ \A i \in Slots : Ready(i) => mem[i] = kept[Consumed + Dist(cons, i)]

CacheInv ==
  \A i \in Slots : Ready(i) /\ Line(i) \in resident => cache[i] = mem[i]

(***************************************************************************)
(* The receiver works on a transfer from the write of the register until   *)
(* its handler finds no room.  The bytes stored since lastpos are kept but *)
(* not published, and the rest of the transfer fits into the free slots.   *)
(***************************************************************************)
Receiving == rxStarted \/ isr = "restart"

TransferInv ==
  /\ isr = "restart" => ~rxStarted
  /\ Receiving => /\ dmaStart <= lastpos /\ lastpos <= dmaStart + dmaCount
                  /\ prod = Wrap(lastpos)
                  /\ dmaStart + dmaLen - lastpos <= RxFree
                  /\ Len(kept) = published + (dmaStart + dmaCount - lastpos)
                  /\ \A i \in lastpos .. dmaStart + dmaCount - 1 :
                        mem[i] = kept[published + 1 + i - lastpos]
  /\ rxStarted => dmaStart = lastpos
  /\ rxIrq => Receiving /\ lastpos < dmaStart + dmaLen
  /\ ~Receiving => ~RxBusy /\ Len(kept) = published

(***************************************************************************)
(* next_cons follows cons, and the slot that was found full stays full     *)
(* until the thread gives it back.                                         *)
(***************************************************************************)
ReaderInv ==
  /\ pc # "idle" => nextCons = NextSlot(cons) /\ left > 0
  /\ pc \in {"load", "advance"} => nextCons # prod
  /\ Len(got) = IF pc = "advance" THEN Consumed + 1 ELSE Consumed
  /\ \A i \in 1 .. Len(got) : got[i] = kept[i]

RxInv == TypeOK /\ RingInv /\ CacheInv /\ TransferInv /\ ReaderInv

=============================================================================
