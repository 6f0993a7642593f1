------------------------------- MODULE UartTx -------------------------------
(***************************************************************************)
(* The transmit side of one UART unit (lib/driver/uart.c over              *)
(* lib/driver/consprod.c).                                                 *)
(*                                                                         *)
(* Four actors share the ring:                                             *)
(*   - the thread, which copies bytes into the ring in uart_write;         *)
(*   - the transmit interrupt handler, which retires what was sent and     *)
(*     starts the next transfer;                                           *)
(*   - the timer interrupt, whose poller starts an idle transmitter;       *)
(*   - the UART, which reads the bytes of a transfer from memory.          *)
(* The UART does not see the data cache: a byte reaches it only after the  *)
(* cache line that holds it was written back.                              *)
(*                                                                         *)
(* Handlers run with interrupts disabled and only while the transmitter    *)
(* is idle, so each is one step; the thread is interrupted between any two *)
(* accesses it makes to prod, cons or the ring.                            *)
(*                                                                         *)
(* The k-th byte that the program writes is the number k; 0 is whatever    *)
(* the ring holds before the first write.                                  *)
(***************************************************************************)
EXTENDS ConsProd, Sequences

CONSTANTS LineSize,    \* bytes of a data cache line
          MaxDma,      \* longest transfer the control register can ask for
          WriteLens,   \* lengths given to uart_write
          MaxBytes     \* bound on the bytes a behaviour writes

ASSUME TxAssumption ==
  /\ LineSize \in Nat \ {0}
  /\ MaxDma \in Nat \ {0}
  /\ WriteLens \subseteq Nat \ {0}
  /\ MaxBytes \in Nat

VARIABLES
  prod, cons,      \* sc_tx_cp.prod and sc_tx_cp.cons
  txStarted,       \* UART_FLAG_TX_STARTED of sc_flags
  polling,         \* poller 0 of the timer is uart_poll
  dmaStart, dmaLen, dmaCount,   \* the transmit control register: the slot and
                   \* the length it was given, and the bytes sent since
  txIrq,           \* a transmit interrupt is pending
  cpu, mem,        \* the ring as the CPU and as the UART see it
  dirty,           \* cache lines not yet written back
  pc,              \* where the thread is in uart_write
  left,            \* local x of consprod_write
  nextProd, prevProd,   \* locals next_prod and prev_prod
  stored,          \* bytes made visible to the handlers so far
  wire             \* what the UART has sent so far

ringVars   == <<prod, cons>>
deviceVars == <<dmaStart, dmaLen, dmaCount, txIrq>>
memVars    == <<cpu, mem, dirty>>
writerVars == <<pc, left, nextProd, prevProd>>
vars == <<ringVars, txStarted, polling, deviceVars, memVars, writerVars,
          stored, wire>>

Line(i) == i \div LineSize

Lines == {Line(i) : i \in Slots}

-----------------------------------------------------------------------------
(***************************************************************************)
(* The UART.                                                               *)
(***************************************************************************)
TxBusy == dmaCount < dmaLen

Window == dmaStart + dmaCount .. dmaStart + dmaLen - 1

WriteRegTxCtrl(start, len) ==
  dmaStart' = start /\ dmaLen' = len /\ dmaCount' = 0

ReadRegTxCtrl == dmaStart + dmaCount

(***************************************************************************)
(* The UART sends the next byte of the transfer; the last one raises the   *)
(* interrupt.                                                              *)
(***************************************************************************)
SendByte ==
  /\ TxBusy
  /\ wire' = Append(wire, mem[ReadRegTxCtrl])
  /\ dmaCount' = dmaCount + 1
  /\ txIrq' = (dmaCount + 1 = dmaLen)
  /\ UNCHANGED <<dmaStart, dmaLen, ringVars, txStarted, polling, memVars,
                 writerVars, stored>>

-----------------------------------------------------------------------------
(***************************************************************************)
(* The data cache.                                                         *)
(***************************************************************************)
WrittenBack(lines) ==
  [i \in Slots |-> IF Line(i) \in lines THEN cpu[i] ELSE mem[i]]

(***************************************************************************)
(* A fault variant, for testing the properties: only the line of the first *)
(* address is flushed.                                                     *)
(***************************************************************************)
LinesOfFirst(a, b) == {Line(a)}

(***************************************************************************)
(* flush_dcache_range(a, b) for a < b.                                     *)
(***************************************************************************)
LinesOf(a, b) == {Line(i) : i \in a .. b - 1}

FlushRange(a, b) ==
  /\ mem' = WrittenBack(dirty \cap LinesOf(a, b))
  /\ dirty' = dirty \ LinesOf(a, b)
  /\ cpu' = cpu

(***************************************************************************)
(* The cache may replace a dirty line whenever it likes.                   *)
(***************************************************************************)
EvictLine ==
  \E l \in dirty :
    /\ mem' = WrittenBack({l})
    /\ dirty' = dirty \ {l}
    /\ UNCHANGED <<cpu, ringVars, txStarted, polling, deviceVars, writerVars,
                   stored, wire>>

-----------------------------------------------------------------------------
(***************************************************************************)
(* The handlers.                                                           *)
(***************************************************************************)
TxFree(c, p) == Straight(c, p)

(***************************************************************************)
(* uart_tx_update: what the UART has sent is taken out of the ring.        *)
(***************************************************************************)
TxUpdate == cons' = Wrap(ReadRegTxCtrl)

(***************************************************************************)
(* Fault variants, for testing the properties: the flag is never set, or   *)
(* it is set although there is nothing to send.                            *)
(***************************************************************************)
TxStartUnflagged(c) ==
  LET len == AtMost(TxFree(c, prod), MaxDma)
  IN  /\ txStarted' = FALSE
      /\ IF TxFree(c, prod) > 0
         THEN FlushRange(c, c + len) /\ WriteRegTxCtrl(c, len)
         ELSE UNCHANGED <<memVars, dmaStart, dmaLen, dmaCount>>

TxStartFlagged(c) ==
  LET len == AtMost(TxFree(c, prod), MaxDma)
  IN  /\ txStarted' = TRUE
      /\ IF TxFree(c, prod) > 0
         THEN FlushRange(c, c + len) /\ WriteRegTxCtrl(c, len)
         ELSE UNCHANGED <<memVars, dmaStart, dmaLen, dmaCount>>

(***************************************************************************)
(* uart_tx_start, called with the ring's cons = c.                         *)
(***************************************************************************)
TxStart(c) ==
  LET len == AtMost(TxFree(c, prod), MaxDma)
  IN  IF TxFree(c, prod) > 0
      THEN /\ FlushRange(c, c + len)
           /\ txStarted' = TRUE
           /\ WriteRegTxCtrl(c, len)
      ELSE txStarted' = FALSE /\ UNCHANGED <<memVars, dmaStart, dmaLen, dmaCount>>

(***************************************************************************)
(* A fault variant, for testing the properties: the next transfer is left  *)
(* to the poller.                                                          *)
(***************************************************************************)
TxIntrNoRestart ==
  /\ txIrq
  /\ txIrq' = FALSE
  /\ TxUpdate
  /\ txStarted' = FALSE
  /\ UNCHANGED <<prod, polling, dmaStart, dmaLen, dmaCount, memVars,
                 writerVars, stored, wire>>

(***************************************************************************)
(* uart_tx_intr_handler: uart_tx_update, clear the flag, uart_tx_start.    *)
(***************************************************************************)
TxIntr ==
  /\ txIrq
  /\ txIrq' = FALSE
  /\ TxUpdate
  /\ TxStart(Wrap(ReadRegTxCtrl))
  /\ UNCHANGED <<prod, polling, writerVars, stored, wire>>

(***************************************************************************)
(* The transmit half of uart_poll, called from the timer interrupt.        *)
(***************************************************************************)
UartPoll ==
  /\ polling
  /\ ~txStarted
  /\ TxStart(cons)
  /\ UNCHANGED <<ringVars, polling, txIrq, writerVars, stored, wire>>

-----------------------------------------------------------------------------
(***************************************************************************)
(* The thread: uart_write calls consprod_write with len > 0 bytes.         *)
(***************************************************************************)
WriteCall(len) ==
  /\ pc = "idle"
  /\ stored + len <= MaxBytes
  /\ left' = len
  /\ nextProd' = NextSlot(prod)
  /\ prevProd' = PrevSlot(prod)
  /\ pc' = "wait"
  /\ UNCHANGED <<ringVars, txStarted, polling, deviceVars, memVars, stored,
                 wire>>

(***************************************************************************)
(* A fault variant, for testing the properties: nobody waits for room.     *)
(***************************************************************************)
WriteNoWait ==
  /\ pc = "wait"
  /\ pc' = "store"
  /\ UNCHANGED <<left, nextProd, prevProd, ringVars, txStarted, polling,
                 deviceVars, memVars, stored, wire>>

(***************************************************************************)
(* "while (next_prod == cp->cons) ;" comes to its end.                     *)
(***************************************************************************)
WriteWait ==
  /\ pc = "wait"
  /\ nextProd # cons
  /\ pc' = "store"
  /\ UNCHANGED <<left, nextProd, prevProd, ringVars, txStarted, polling,
                 deviceVars, memVars, stored, wire>>

(***************************************************************************)
(* "*prev_prod = *buf", into the cache.                                    *)
(***************************************************************************)
WriteStore ==
  /\ pc = "store"
  /\ cpu' = [cpu EXCEPT ![prevProd] = stored + 1]
  /\ dirty' = dirty \cup {Line(prevProd)}
  /\ pc' = "publish"
  /\ UNCHANGED <<mem, left, nextProd, prevProd, ringVars, txStarted, polling,
                 deviceVars, stored, wire>>

(***************************************************************************)
(* "cp->prod = next_prod", which hands the byte to the handlers, and the   *)
(* rest of the loop's body.                                                *)
(***************************************************************************)
WritePublish ==
  /\ pc = "publish"
  /\ prevProd' = prod
  /\ prod' = nextProd
  /\ nextProd' = NextSlot(nextProd)
  /\ left' = left - 1
  /\ stored' = stored + 1
  /\ pc' = IF left = 1 THEN "idle" ELSE "wait"
  /\ UNCHANGED <<cons, txStarted, polling, deviceVars, memVars, wire>>

(***************************************************************************)
(* main returns: stop_subsystems removes the poller and stops the timer.   *)
(* What stdio still holds is written after that, by exit.                  *)
(***************************************************************************)
StopSubsystems ==
  /\ pc = "idle"
  /\ polling
  /\ polling' = FALSE
  /\ UNCHANGED <<ringVars, txStarted, deviceVars, memVars, writerVars, stored,
                 wire>>

-----------------------------------------------------------------------------
Init ==
  /\ prod = 1 /\ cons = 0
  /\ txStarted = FALSE
  /\ polling = TRUE
  /\ dmaStart = 0 /\ dmaLen = 0 /\ dmaCount = 0
  /\ txIrq = FALSE
  /\ cpu = [i \in Slots |-> 0]
  /\ mem = [i \in Slots |-> 0]
  /\ dirty = {}
  /\ pc = "idle"
  /\ left = 0
  /\ nextProd = 2 /\ prevProd = 0
  /\ stored = 0
  /\ wire = <<>>

WriterStep == WriteWait \/ WriteStore \/ WritePublish

Next ==
  \/ SendByte
  \/ EvictLine
  \/ TxIntr
  \/ UartPoll
  \/ \E len \in WriteLens : WriteCall(len)
  \/ WriterStep
  \/ StopSubsystems

(***************************************************************************)
(* The thread runs whenever no handler does, pending interrupts are taken, *)
(* the timer keeps ticking and a transfer makes progress.  Nothing makes   *)
(* the program write, return from main, or the cache replace a line.       *)
(***************************************************************************)
Fairness ==
  /\ WF_vars(WriterStep)
  /\ WF_vars(TxIntr)
  /\ WF_vars(UartPoll)
  /\ WF_vars(SendByte)

Spec == Init /\ [][Next]_vars /\ Fairness

-----------------------------------------------------------------------------
(***************************************************************************)
(* Types: slots of the ring stay inside it, whatever the handlers compute, *)
(* and a transfer never runs past the end of the buffer.                   *)
(***************************************************************************)
TypeOK ==
  /\ prod \in Slots /\ cons \in Slots
  /\ txStarted \in BOOLEAN /\ polling \in BOOLEAN /\ txIrq \in BOOLEAN
  /\ dmaStart \in Slots /\ dmaLen \in Nat /\ dmaCount \in 0 .. dmaLen
  /\ dmaStart + dmaLen <= N
  /\ cpu \in [Slots -> Nat] /\ mem \in [Slots -> Nat]
  /\ dirty \subseteq Lines
  /\ pc \in {"idle", "wait", "store", "publish"}
  /\ left \in Nat
  /\ nextProd \in Slots /\ prevProd \in Slots
  /\ stored \in Nat
  /\ wire \in Seq(Nat)

(***************************************************************************)
(* The line carries what was written: no byte is lost, repeated, reordered *)
(* or sent from a stale copy in memory, over any number of turns of the    *)
(* ring (uart_tx_update, uart_tx_start, consprod_write).                   *)
(***************************************************************************)
TxWireFaithful ==
  /\ Len(wire) <= stored
  /\ \A i \in 1 .. Len(wire) : wire[i] = i

(***************************************************************************)
(* The slot that consprod_write is about to store into is never one that   *)
(* the transfer under way has yet to read (the test of next_prod against   *)
(* cons in consprod_write, the window computed by uart_tx_start).          *)
(***************************************************************************)
TxNoOverwrite ==
  (pc = "store" /\ TxBusy) => prevProd \notin Window

(***************************************************************************)
(* The bytes in the ring that are not yet retired, and the number of those *)
(* that uart_tx_update has retired.                                        *)
(***************************************************************************)
Queued  == Dist(cons, prod) - 1
Retired == stored - Queued

(***************************************************************************)
(* The inductive invariant.                                                *)
(*                                                                         *)
(* prod never meets cons, so that the ring always has a well-defined       *)
(* number of bytes, and these are the last Queued bytes stored.            *)
(***************************************************************************)
RingInv ==
  /\ prod # cons
  /\ Queued <= stored
  /\ \A i \in Slots : Dist(cons, i) < Queued => cpu[i] = Retired + Dist(cons, i) + 1

(***************************************************************************)
(* Memory lags behind the CPU only in lines that are marked dirty.         *)
(***************************************************************************)
CacheInv == \A i \in Slots : Line(i) \notin dirty => mem[i] = cpu[i]

(***************************************************************************)
(* UART_FLAG_TX_STARTED is set exactly from the write of the register to   *)
(* the interrupt that ends the transfer; the transfer covers the oldest    *)
(* bytes of the ring, which were written back; the rest was retired.       *)
(***************************************************************************)
TransferInv ==
  /\ txIrq => txStarted /\ ~TxBusy
  /\ txStarted => /\ TxBusy \/ txIrq
                  /\ dmaStart = cons
                  /\ dmaLen <= Queued
                  /\ \A i \in Window : mem[i] = cpu[i]
                  /\ Len(wire) = Retired + dmaCount
  /\ ~txStarted => ~TxBusy /\ Len(wire) = Retired

(***************************************************************************)
(* The locals of consprod_write follow prod, and the slot it found free    *)
(* stays free until it has published its byte.                             *)
(***************************************************************************)
WriterInv ==
  /\ pc # "idle" => /\ nextProd = NextSlot(prod)
                    /\ prevProd = PrevSlot(prod)
                    /\ left > 0
  /\ pc \in {"store", "publish"} => nextProd # cons
  /\ pc = "publish" => cpu[prevProd] = stored + 1

WireInv == \A i \in 1 .. Len(wire) : wire[i] = i

TxInv == TypeOK /\ RingInv /\ CacheInv /\ TransferInv /\ WriterInv /\ WireInv

(***************************************************************************)
(* The transmit side is a FIFO of N - 2 bytes from uart_write to the line. *)
(***************************************************************************)
Fifo == INSTANCE ByteFifo WITH Capacity <- N - 2,
                               in  <- [i \in 1 .. stored |-> i],
                               out <- wire

TxIsFifo == Fifo!Spec

(***************************************************************************)
(* A byte stored while the transmitter is started is sent, whether or not  *)
(* the poller is still there: the interrupt that ends a transfer starts    *)
(* the next one (uart_tx_intr_handler).                                    *)
(***************************************************************************)
TxChainDrains ==
  \A k \in 1 .. MaxBytes : (stored >= k /\ txStarted) ~> (Len(wire) >= k)

(***************************************************************************)
(* As long as the poller is installed, uart_write returns: a writer that   *)
(* spins on a full ring is always let go on (uart_poll, consprod_write).   *)
(***************************************************************************)
WriteReturns == (pc # "idle") ~> (pc = "idle" \/ ~polling)
=============================================================================
