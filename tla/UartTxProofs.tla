---------------------------- MODULE UartTxProofs ----------------------------
(***************************************************************************)
(* Proofs about UartTx, for every ring size, cache line size, transfer     *)
(* limit and bound: the inductive invariant TxInv and what follows from    *)
(* it, and that UartTx implements ByteFifo.                                *)
(***************************************************************************)
EXTENDS UartTx, SequenceTheorems, TLAPS

USE NAssumption DEF Slots

-----------------------------------------------------------------------------
(***************************************************************************)
(* NextSlot and PrevSlot stay in the ring and undo each other.             *)
(***************************************************************************)
LEMMA SlotArithmetic ==
  ASSUME NEW p \in Slots
  PROVE  /\ NextSlot(p) \in Slots
         /\ PrevSlot(p) \in Slots
         /\ PrevSlot(NextSlot(p)) = p
         /\ NextSlot(p) # p
BY DEF NextSlot, PrevSlot, Wrap

(***************************************************************************)
(* What the free space computations of uart.c return.                      *)
(***************************************************************************)
LEMMA StraightBounds ==
  ASSUME NEW c \in Slots, NEW p \in Slots, c # p
  PROVE  /\ Straight(c, p) \in Nat
         /\ Straight(c, p) <= Dist(c, p) - 1
         /\ c + Straight(c, p) <= N
         /\ Straight(c, p) = 0 => Dist(c, p) = 1
BY DEF Straight, Dist

(***************************************************************************)
(* A transfer of at most TxFree bytes from cons neither passes the end of  *)
(* the buffer nor takes more than the ring holds, and retiring it leaves   *)
(* cons short of prod by exactly the bytes that remain.                    *)
(***************************************************************************)
LEMMA TransferFits ==
  ASSUME NEW c \in Slots, NEW p \in Slots, c # p,
         NEW len \in Nat, len <= Dist(c, p) - 1, c + len <= N
  PROVE  /\ Wrap(c + len) \in Slots
         /\ Wrap(c + len) # p
         /\ Dist(Wrap(c + len), p) = Dist(c, p) - len
         /\ \A i \in Slots : Dist(Wrap(c + len), i) < Dist(c, p) - 1 - len
               => Dist(c, i) = Dist(Wrap(c + len), i) + len
         /\ NextSlot(p) # c => NextSlot(p) # Wrap(c + len)
BY DEF Wrap, Dist, NextSlot

-----------------------------------------------------------------------------
(***************************************************************************)
(* What uart_tx_start leaves behind when it is called with the ring's cons *)
(* at c: a transfer of the oldest bytes, written back, or an idle          *)
(* transmitter when there are none.                                        *)
(***************************************************************************)
LEMMA TxStartEffect ==
  ASSUME TxAssumption, TypeOK, CacheInv,
         NEW c \in Slots, c # prod, TxStart(c)
  PROVE  /\ cpu' = cpu
         /\ mem' \in [Slots -> Nat]
         /\ dirty' \subseteq Lines
         /\ \A i \in Slots : Line(i) \notin dirty' => mem'[i] = cpu[i]
         /\ \/ /\ txStarted' = TRUE
               /\ dmaStart' = c /\ dmaCount' = 0
               /\ dmaLen' \in Nat \ {0}
               /\ dmaLen' <= Dist(c, prod) - 1
               /\ c + dmaLen' <= N
               /\ \A i \in c .. c + dmaLen' - 1 : mem'[i] = cpu[i]
            \/ /\ txStarted' = FALSE
               /\ UNCHANGED <<dmaStart, dmaLen, dmaCount>>
               /\ Dist(c, prod) = 1
<1> DEFINE len == AtMost(TxFree(c, prod), MaxDma)
           lines == LinesOf(c, c + len)
<1>1. prod \in Slots /\ cpu \in [Slots -> Nat] /\ mem \in [Slots -> Nat]
      /\ dirty \subseteq Lines /\ MaxDma \in Nat \ {0}
  BY DEF TypeOK, TxAssumption
<1>2. /\ TxFree(c, prod) \in Nat
      /\ TxFree(c, prod) <= Dist(c, prod) - 1
      /\ c + TxFree(c, prod) <= N
      /\ TxFree(c, prod) = 0 => Dist(c, prod) = 1
  BY <1>1, StraightBounds DEF TxFree
<1>3. CASE TxFree(c, prod) > 0
  <2>1. /\ cpu' = cpu
        /\ mem' = WrittenBack(dirty \cap lines)
        /\ dirty' = dirty \ lines
        /\ txStarted' = TRUE
        /\ dmaStart' = c /\ dmaLen' = len /\ dmaCount' = 0
    BY <1>3 DEF TxStart, FlushRange, WriteRegTxCtrl
  <2>2. len \in Nat \ {0} /\ len <= Dist(c, prod) - 1 /\ c + len <= N
    BY <1>1, <1>2, <1>3 DEF AtMost, Dist
  <2>3. \A i \in Slots : Line(i) \notin dirty' => mem'[i] = cpu[i]
    BY <1>1, <2>1 DEF CacheInv, WrittenBack
  <2>4. \A i \in c .. c + len - 1 : i \in Slots /\ Line(i) \in lines
    BY <2>2 DEF LinesOf
  <2>5. \A i \in c .. c + len - 1 : mem'[i] = cpu[i]
    BY <1>1, <2>1, <2>3, <2>4
  <2>6. mem' \in [Slots -> Nat]
    BY <1>1, <2>1 DEF WrittenBack
  <2> HIDE DEF len, lines
    <2> QED
    BY <1>1, <2>1, <2>2, <2>3, <2>5, <2>6
<1>4. CASE ~(TxFree(c, prod) > 0)
  <2>1. memVars' = memVars /\ UNCHANGED <<dmaStart, dmaLen, dmaCount>> /\ txStarted' = FALSE
    BY <1>4 DEF TxStart
  <2>2. Dist(c, prod) = 1
    BY <1>2, <1>4
  <2> QED
    BY <1>1, <2>1, <2>2 DEF memVars, CacheInv
<1> QED
  BY <1>3, <1>4

-----------------------------------------------------------------------------
LEMMA TxInvInit == TxAssumption /\ Init => TxInv
<1> SUFFICES ASSUME TxAssumption, Init PROVE TxInv
  OBVIOUS
<1>1. TypeOK
  <2>1. wire \in Seq(Nat) /\ stored \in Nat
    BY DEF Init
  <2>2. cpu \in [Slots -> Nat] /\ mem \in [Slots -> Nat] /\ dirty \subseteq Lines
    BY DEF Init
  <2>3. prod \in Slots /\ cons \in Slots /\ nextProd \in Slots /\ prevProd \in Slots
    BY DEF Init
  <2>4. txStarted \in BOOLEAN /\ polling \in BOOLEAN /\ txIrq \in BOOLEAN
    BY DEF Init
  <2>5. /\ dmaStart \in Slots /\ dmaLen \in Nat /\ dmaCount \in 0 .. dmaLen
        /\ dmaStart + dmaLen <= N
    BY DEF Init
  <2>6. pc \in {"idle", "wait", "store", "publish"} /\ left \in Nat
    BY DEF Init
  <2> QED
    BY <2>1, <2>2, <2>3, <2>4, <2>5, <2>6 DEF TypeOK
<1>2. RingInv
  BY DEF Init, RingInv, Queued, Dist
<1>3. CacheInv
  BY DEF Init, CacheInv
<1>4. TransferInv
  BY DEF Init, TransferInv, TxBusy, Retired, Queued, Dist
<1>5. WriterInv /\ WireInv
  BY DEF Init, WriterInv, WireInv
<1> QED
  BY <1>1, <1>2, <1>3, <1>4, <1>5 DEF TxInv

(***************************************************************************)
(* The UART only appends to wire the byte that is next in the ring.        *)
(***************************************************************************)
LEMMA SendBytePreserves == TxAssumption /\ TxInv /\ SendByte => TxInv'
<1> SUFFICES ASSUME TxAssumption, TxInv, SendByte PROVE TxInv'
  OBVIOUS
<1> USE DEF ringVars, memVars, writerVars
<1> DEFINE here == dmaStart + dmaCount
<1>1. /\ TypeOK /\ RingInv /\ CacheInv /\ TransferInv /\ WriterInv /\ WireInv
      /\ TxBusy
  BY DEF TxInv, SendByte
<1>2. /\ txStarted /\ dmaStart = cons /\ dmaLen <= Queued
      /\ Len(wire) = Retired + dmaCount /\ ~txIrq
  BY <1>1 DEF TransferInv
<1>0. /\ dmaStart \in Slots /\ dmaCount \in Nat /\ dmaLen \in Nat
      /\ dmaStart + dmaLen <= N
      /\ dmaCount < dmaLen
  BY <1>1 DEF TypeOK, TxBusy
<1>3. here \in Slots /\ here \in Window
  BY <1>0 DEF Window
<1>4. Dist(cons, here) = dmaCount
  BY <1>1, <1>2, <1>3 DEF TypeOK, Dist
<1>5. mem[here] = Len(wire) + 1
  <2>1. mem[here] = cpu[here]
    BY <1>1, <1>2, <1>3 DEF TransferInv
  <2>2. Dist(cons, here) < Queued
    BY <1>1, <1>2, <1>4 DEF TypeOK, TxBusy, Queued, Dist
  <2>3. cpu[here] = Retired + Dist(cons, here) + 1
    BY <1>1, <1>3, <2>2 DEF RingInv
  <2> QED
    BY <1>2, <1>4, <2>1, <2>3
<1>6. /\ wire' = Append(wire, Len(wire) + 1)
      /\ dmaCount' = dmaCount + 1 /\ UNCHANGED <<dmaStart, dmaLen>>
      /\ txIrq' = (dmaCount + 1 = dmaLen)
  BY <1>5 DEF SendByte, ReadRegTxCtrl
<1>7. UNCHANGED <<prod, cons, txStarted, polling, cpu, mem, dirty, pc, left,
                  nextProd, prevProd, stored>>
  BY DEF SendByte
<1>8. wire' \in Seq(Nat) /\ Len(wire') = Len(wire) + 1
  BY <1>1, <1>6 DEF TypeOK
<1>9. TypeOK'
  BY <1>1, <1>6, <1>7, <1>8 DEF TypeOK, TxBusy
<1>10. RingInv' /\ CacheInv' /\ WriterInv'
  BY <1>1, <1>7 DEF RingInv, CacheInv, WriterInv, Queued, Retired
<1>11. TransferInv'
  <2>1. \A i \in Window' : i \in Window
    BY <1>0, <1>6 DEF Window
  <2>2. \A i \in Window' : mem'[i] = cpu'[i]
    BY <1>1, <1>2, <1>7, <2>1 DEF TransferInv
  <2>3. Queued' = Queued /\ Retired' = Retired /\ Retired \in Int
    BY <1>1, <1>7 DEF Queued, Retired, TypeOK, Dist
  <2>4. Len(wire') = Retired' + dmaCount'
    BY <1>0, <1>2, <1>6, <1>8, <2>3
  <2>5. txStarted' /\ dmaStart' = cons' /\ dmaLen' <= Queued'
    BY <1>2, <1>6, <1>7, <2>3
  <2>6. txIrq' <=> (dmaCount + 1 = dmaLen)
    BY <1>6, Zenon
  <2>7. TxBusy' <=> dmaCount + 1 # dmaLen
    BY <1>0, <1>6 DEF TxBusy
  <2> QED
    BY <2>2, <2>4, <2>5, <2>6, <2>7, Zenon DEF TransferInv
<1>12. WireInv'
  <2>1. wire \in Seq(Nat) /\ \A i \in 1 .. Len(wire) : wire[i] = i
    BY <1>1 DEF TypeOK, WireInv
  <2>2. \A i \in 1 .. Len(wire) + 1 : Append(wire, Len(wire) + 1)[i] = i
    BY <2>1
  <2> QED
    BY <1>6, <1>8, <2>2 DEF WireInv
<1> QED
  BY <1>9, <1>10, <1>11, <1>12 DEF TxInv

(***************************************************************************)
(* Replacing a dirty line brings memory up to date and nothing else.       *)
(***************************************************************************)
LEMMA EvictLinePreserves == TxAssumption /\ TxInv /\ EvictLine => TxInv'
<1> SUFFICES ASSUME TxAssumption, TxInv, EvictLine PROVE TxInv'
  OBVIOUS
<1> USE DEF ringVars, deviceVars, writerVars
<1>1. TypeOK /\ RingInv /\ CacheInv /\ TransferInv /\ WriterInv /\ WireInv
  BY DEF TxInv
<1>2. PICK l \in dirty :
        /\ mem' = [i \in Slots |-> IF Line(i) \in {l} THEN cpu[i] ELSE mem[i]]
        /\ dirty' = dirty \ {l}
  BY DEF EvictLine, WrittenBack
<1>3. UNCHANGED <<cpu, prod, cons, txStarted, polling, dmaStart, dmaLen,
                  dmaCount, txIrq, pc, left,
                  nextProd, prevProd, stored, wire>>
  BY DEF EvictLine
<1>4. TypeOK'
  BY <1>1, <1>2, <1>3 DEF TypeOK
<1>5. CacheInv'
  BY <1>1, <1>2, <1>3 DEF CacheInv
<1>6. TransferInv'
  <2>1. \A i \in Window : i \in Slots
    BY <1>1 DEF TypeOK, Window
  <2>2. \A i \in Slots : mem[i] = cpu[i] => mem'[i] = cpu[i]
    BY <1>2
  <2> QED
    BY <1>1, <1>3, <2>1, <2>2
       DEF TransferInv, TxBusy, Window, Queued, Retired
<1>7. RingInv' /\ WriterInv' /\ WireInv'
  BY <1>1, <1>3 DEF RingInv, WriterInv, WireInv, Queued, Retired
<1> QED
  BY <1>4, <1>5, <1>6, <1>7 DEF TxInv

(***************************************************************************)
(* The common part of the two handlers: uart_tx_start re-establishes the   *)
(* invariant in an idle transmitter whose cons is c.                       *)
(***************************************************************************)
LEMMA TxStartPreserves ==
  ASSUME TxAssumption, TxInv, ~TxBusy,
         NEW c \in Slots, c # prod, TxStart(c), cons' = c, txIrq' = FALSE,
         UNCHANGED <<prod, polling, writerVars, stored, wire>>,
         Len(wire) = stored - (Dist(c, prod) - 1),
         \A i \in Slots : Dist(c, i) < Dist(c, prod) - 1
                             => cpu[i] = Len(wire) + Dist(c, i) + 1,
         pc \in {"store", "publish"} => nextProd # c
  PROVE  TxInv'
<1>1. TypeOK /\ CacheInv /\ WriterInv /\ WireInv
  BY DEF TxInv
<1>2. UNCHANGED <<prod, polling, pc, left, nextProd, prevProd, stored, wire>>
  BY DEF writerVars
<1>3. /\ cpu' = cpu
      /\ mem' \in [Slots -> Nat]
      /\ dirty' \subseteq Lines
      /\ \A i \in Slots : Line(i) \notin dirty' => mem'[i] = cpu[i]
      /\ \/ /\ txStarted' = TRUE
            /\ dmaStart' = c /\ dmaCount' = 0
            /\ dmaLen' \in Nat \ {0}
            /\ dmaLen' <= Dist(c, prod) - 1
            /\ c + dmaLen' <= N
            /\ \A i \in c .. c + dmaLen' - 1 : mem'[i] = cpu[i]
         \/ /\ txStarted' = FALSE
            /\ UNCHANGED <<dmaStart, dmaLen, dmaCount>>
            /\ Dist(c, prod) = 1
  BY <1>1, TxStartEffect
<1>4. /\ prod \in Slots /\ stored \in Nat /\ wire \in Seq(Nat)
      /\ dmaStart \in Slots /\ dmaLen \in Nat /\ dmaCount \in 0 .. dmaLen
      /\ dmaStart + dmaLen <= N /\ dmaCount = dmaLen
  BY <1>1 DEF TypeOK, TxBusy
<1>5. TypeOK'
  <2>1. /\ dmaStart' \in Slots /\ dmaLen' \in Nat /\ dmaCount' \in 0 .. dmaLen'
        /\ dmaStart' + dmaLen' <= N /\ txStarted' \in BOOLEAN
    <3>1. CASE txStarted' = TRUE /\ dmaStart' = c /\ dmaCount' = 0
      BY <1>3, <1>4, <3>1
    <3>2. CASE txStarted' = FALSE /\ UNCHANGED <<dmaStart, dmaLen, dmaCount>>
      BY <1>4, <3>2
    <3> QED
      BY <1>3, <3>1, <3>2
  <2>2. cpu' \in [Slots -> Nat] /\ mem' \in [Slots -> Nat] /\ dirty' \subseteq Lines
    BY <1>1, <1>3 DEF TypeOK
  <2>3. cons' \in Slots /\ prod' \in Slots /\ txIrq' \in BOOLEAN /\ polling' \in BOOLEAN
    BY <1>1, <1>2 DEF TypeOK
  <2>4. /\ pc' \in {"idle", "wait", "store", "publish"} /\ left' \in Nat
        /\ nextProd' \in Slots /\ prevProd' \in Slots
        /\ stored' \in Nat /\ wire' \in Seq(Nat)
    BY <1>1, <1>2 DEF TypeOK
  <2> QED
    BY <2>1, <2>2, <2>3, <2>4 DEF TypeOK
<1>6. Queued' = Dist(c, prod) - 1 /\ Retired' = Len(wire)
  BY <1>2, <1>4 DEF Queued, Retired, Dist
<1>7. RingInv'
  BY <1>2, <1>3, <1>4, <1>6 DEF RingInv, Dist
<1>8. CacheInv'
  BY <1>3 DEF CacheInv
<1>9. TransferInv'
  <2>1. CASE txStarted' = TRUE /\ dmaStart' = c /\ dmaCount' = 0
    <3>1. dmaLen' > 0 /\ dmaLen' <= Queued'
      BY <1>3, <1>4, <1>6, <2>1
    <3>2. Window' = c .. c + dmaLen' - 1
      BY <1>3, <1>4, <2>1 DEF Window
    <3>3. \A i \in Window' : mem'[i] = cpu'[i]
      BY <1>3, <2>1, <3>1, <3>2
    <3>4. TxBusy'
      BY <2>1, <3>1 DEF TxBusy
    <3>5. Len(wire') = Retired' + dmaCount'
      BY <1>2, <1>4, <1>6, <2>1
    <3> QED
      BY <2>1, <3>1, <3>3, <3>4, <3>5 DEF TransferInv
  <2>2. CASE txStarted' = FALSE
    BY <1>2, <1>3, <1>4, <1>6, <2>2 DEF TransferInv, TxBusy
  <2> QED
    BY <1>3, <2>1, <2>2
<1>10. WriterInv' /\ WireInv'
  BY <1>1, <1>2, <1>3 DEF WriterInv, WireInv
<1> QED
  BY <1>5, <1>7, <1>8, <1>9, <1>10 DEF TxInv

LEMMA TxIntrPreserves == TxAssumption /\ TxInv /\ TxIntr => TxInv'
<1> SUFFICES ASSUME TxAssumption, TxInv, TxIntr PROVE TxInv'
  OBVIOUS
<1> DEFINE c == Wrap(dmaStart + dmaCount)
<1>1. TypeOK /\ RingInv /\ TransferInv /\ WriterInv /\ txIrq
  BY DEF TxInv, TxIntr
<1>2. /\ txStarted /\ ~TxBusy /\ dmaStart = cons /\ dmaLen <= Queued
      /\ Len(wire) = Retired + dmaCount
  BY <1>1 DEF TransferInv
<1>3. /\ prod \in Slots /\ cons \in Slots /\ stored \in Nat
      /\ dmaLen \in Nat /\ dmaCount = dmaLen /\ dmaStart + dmaLen <= N
      /\ cons # prod /\ Queued = Dist(cons, prod) - 1
  BY <1>1, <1>2 DEF TypeOK, RingInv, TxBusy, Queued
<1>4. /\ c \in Slots /\ c # prod
      /\ Dist(c, prod) = Dist(cons, prod) - dmaLen
      /\ \A i \in Slots : Dist(c, i) < Dist(cons, prod) - 1 - dmaLen
            => Dist(cons, i) = Dist(c, i) + dmaLen
      /\ NextSlot(prod) # cons => NextSlot(prod) # c
  BY <1>2, <1>3, TransferFits
<1>5. Len(wire) = stored - (Dist(c, prod) - 1)
  BY <1>2, <1>3, <1>4 DEF Retired, Dist
<1>6. ASSUME NEW i \in Slots, Dist(c, i) < Dist(c, prod) - 1
      PROVE  cpu[i] = Len(wire) + Dist(c, i) + 1
  <2>1. Dist(cons, i) = Dist(c, i) + dmaLen /\ Dist(cons, i) < Queued
    BY <1>3, <1>4, <1>6 DEF Dist
  <2>2. cpu[i] = Retired + Dist(cons, i) + 1
    BY <1>1, <2>1 DEF RingInv
  <2> QED
    <3>1. Retired \in Int /\ Dist(c, i) \in Int /\ Len(wire) = Retired + dmaLen
      BY <1>2, <1>3, <1>4 DEF Retired, Dist
    <3> QED
      BY <1>3, <2>1, <2>2, <3>1
<1>7. pc \in {"store", "publish"} => nextProd # c
  BY <1>1, <1>4 DEF WriterInv
<1>8. /\ TxStart(c) /\ cons' = c /\ txIrq' = FALSE
      /\ UNCHANGED <<prod, polling, writerVars, stored, wire>>
  BY DEF TxIntr, TxUpdate, ReadRegTxCtrl
<1> HIDE DEF c
<1> QED
  BY <1>2, <1>4, <1>5, <1>6, <1>7, <1>8, TxStartPreserves

LEMMA UartPollPreserves == TxAssumption /\ TxInv /\ UartPoll => TxInv'
<1> SUFFICES ASSUME TxAssumption, TxInv, UartPoll PROVE TxInv'
  OBVIOUS
<1>1. TypeOK /\ RingInv /\ TransferInv /\ WriterInv /\ ~txStarted
  BY DEF TxInv, UartPoll
<1>2. ~TxBusy /\ Len(wire) = Retired /\ ~txIrq
  BY <1>1 DEF TransferInv
<1>3. /\ TxStart(cons) /\ cons' = cons /\ txIrq' = FALSE
      /\ UNCHANGED <<prod, polling, writerVars, stored, wire>>
  BY <1>1, <1>2 DEF UartPoll, ringVars, TypeOK
<1>4. cons \in Slots /\ cons # prod
  BY <1>1 DEF TypeOK, RingInv
<1>5. Len(wire) = stored - (Dist(cons, prod) - 1)
  BY <1>2 DEF Retired, Queued
<1>6. \A i \in Slots : Dist(cons, i) < Dist(cons, prod) - 1
                          => cpu[i] = Len(wire) + Dist(cons, i) + 1
  BY <1>1, <1>2 DEF RingInv, Queued
<1>7. pc \in {"store", "publish"} => nextProd # cons
  BY <1>1 DEF WriterInv
<1> QED
  BY <1>2, <1>3, <1>4, <1>5, <1>6, <1>7, TxStartPreserves

(***************************************************************************)
(* The thread before it publishes: what it changes is invisible to the     *)
(* handlers, because the slot it stores into is outside the queue.         *)
(***************************************************************************)
LEMMA WriteCallPreserves ==
  ASSUME TxAssumption, TxInv, NEW len \in WriteLens, WriteCall(len)
  PROVE  TxInv'
<1>1. TypeOK /\ RingInv /\ CacheInv /\ TransferInv /\ WriterInv /\ WireInv
  BY DEF TxInv
<1>2. /\ UNCHANGED <<prod, cons, txStarted, polling, dmaStart, dmaLen, dmaCount,
                     txIrq, cpu, mem, dirty, stored, wire>>
      /\ left' = len /\ nextProd' = NextSlot(prod) /\ prevProd' = PrevSlot(prod)
      /\ pc' = "wait"
  BY DEF WriteCall, ringVars, deviceVars, memVars
<1>3. len \in Nat \ {0}
  BY DEF TxAssumption
<1>4. TypeOK'
  BY <1>1, <1>2, <1>3, SlotArithmetic DEF TypeOK
<1>5. WriterInv'
  BY <1>2, <1>3 DEF WriterInv
<1>6. RingInv' /\ CacheInv' /\ TransferInv' /\ WireInv'
  BY <1>1, <1>2 DEF RingInv, CacheInv, TransferInv, WireInv, Queued, Retired,
                    TxBusy, Window
<1> QED
  BY <1>4, <1>5, <1>6 DEF TxInv

LEMMA WriteWaitPreserves == TxAssumption /\ TxInv /\ WriteWait => TxInv'
<1> SUFFICES ASSUME TxInv, WriteWait PROVE TxInv'
  OBVIOUS
<1>1. TypeOK /\ RingInv /\ CacheInv /\ TransferInv /\ WriterInv /\ WireInv
  BY DEF TxInv
<1>2. /\ UNCHANGED <<prod, cons, txStarted, polling, dmaStart, dmaLen, dmaCount,
                     txIrq, cpu, mem, dirty, left, nextProd, prevProd, stored,
                     wire>>
      /\ pc = "wait" /\ nextProd # cons /\ pc' = "store"
  BY DEF WriteWait, ringVars, deviceVars, memVars
<1>3. TypeOK'
  BY <1>1, <1>2 DEF TypeOK
<1>4. WriterInv'
  BY <1>1, <1>2 DEF WriterInv
<1>5. RingInv' /\ CacheInv' /\ TransferInv' /\ WireInv'
  BY <1>1, <1>2 DEF RingInv, CacheInv, TransferInv, WireInv, Queued, Retired,
                    TxBusy, Window
<1> QED
  BY <1>3, <1>4, <1>5 DEF TxInv

(***************************************************************************)
(* The slot before prod lies just behind the queued bytes, and a transfer  *)
(* covers only queued bytes.                                               *)
(***************************************************************************)
LEMMA PrevProdOutside ==
  ASSUME TypeOK, RingInv, TransferInv
  PROVE  /\ Dist(cons, PrevSlot(prod)) = Queued
         /\ TxBusy => PrevSlot(prod) \notin Window
<1>1. /\ prod \in Slots /\ cons \in Slots /\ prod # cons
      /\ dmaStart \in Slots /\ dmaLen \in Nat /\ dmaCount \in 0 .. dmaLen
      /\ dmaStart + dmaLen <= N
  BY DEF TypeOK, RingInv
<1>2. Dist(cons, PrevSlot(prod)) = Queued
  BY <1>1 DEF Dist, PrevSlot, Queued
<1>3. ASSUME TxBusy, PrevSlot(prod) \in Window PROVE FALSE
  <2>1. dmaStart = cons /\ dmaLen <= Queued
    BY <1>3 DEF TransferInv
  <2>2. Dist(cons, PrevSlot(prod)) < dmaLen
    BY <1>1, <1>3, <2>1, SlotArithmetic DEF Window, Dist
  <2> QED
    BY <1>1, <1>2, <2>1, <2>2 DEF Queued, Dist
<1> QED
  BY <1>2, <1>3

LEMMA WriteStorePreserves == TxAssumption /\ TxInv /\ WriteStore => TxInv'
<1> SUFFICES ASSUME TxInv, WriteStore PROVE TxInv'
  OBVIOUS
<1>1. TypeOK /\ RingInv /\ CacheInv /\ TransferInv /\ WriterInv /\ WireInv
  BY DEF TxInv
<1>2. /\ UNCHANGED <<prod, cons, txStarted, polling, dmaStart, dmaLen, dmaCount,
                     txIrq, mem, left, nextProd, prevProd, stored, wire>>
      /\ cpu' = [cpu EXCEPT ![prevProd] = stored + 1]
      /\ dirty' = dirty \cup {Line(prevProd)}
      /\ pc = "store" /\ pc' = "publish"
  BY DEF WriteStore, ringVars, deviceVars
<1>3. /\ prevProd \in Slots /\ prevProd = PrevSlot(prod)
      /\ cpu \in [Slots -> Nat] /\ stored \in Nat
  BY <1>1, <1>2 DEF TypeOK, WriterInv
<1>4. /\ Dist(cons, prevProd) = Queued
      /\ TxBusy => prevProd \notin Window
  BY <1>1, <1>3, PrevProdOutside
<1>5. \A i \in Slots : i # prevProd => cpu'[i] = cpu[i]
  BY <1>2, <1>3
<1>6. TypeOK'
  <2>1. cpu' \in [Slots -> Nat]
    BY <1>2, <1>3
  <2>2. dirty' \subseteq Lines
    <3>1. Line(prevProd) \in Lines
      BY <1>3 DEF Lines
    <3> QED
      BY <1>1, <1>2, <3>1 DEF TypeOK
  <2> QED
    BY <1>1, <1>2, <2>1, <2>2 DEF TypeOK
<1>7. RingInv'
  <2>1. Queued' = Queued /\ Retired' = Retired /\ Queued \in Int
    BY <1>1, <1>2 DEF Queued, Retired, Dist, TypeOK
  <2>2. \A i \in Slots : Dist(cons, i) < Queued => i # prevProd
    BY <1>4, <2>1
  <2> QED
    BY <1>1, <1>2, <1>5, <2>1, <2>2 DEF RingInv
<1>8. CacheInv'
  BY <1>1, <1>2, <1>5 DEF CacheInv
<1>9. TransferInv'
  <2>1. Queued' = Queued /\ Retired' = Retired /\ Window' = Window
        /\ TxBusy' = TxBusy
    BY <1>2 DEF Queued, Retired, Window, TxBusy
  <2>2. \A i \in Window : TxBusy /\ i \in Slots
    BY <1>1 DEF TypeOK, TxBusy, Window
  <2>3. txStarted => \A i \in Window : mem'[i] = cpu'[i]
    BY <1>1, <1>2, <1>4, <1>5, <2>2 DEF TransferInv
  <2> QED
    BY <1>1, <1>2, <2>1, <2>3 DEF TransferInv
<1>10. WriterInv'
  BY <1>1, <1>2, <1>3 DEF WriterInv
<1>11. WireInv'
  BY <1>1, <1>2 DEF WireInv
<1> QED
  BY <1>6, <1>7, <1>8, <1>9, <1>10, <1>11 DEF TxInv

LEMMA WritePublishPreserves == TxAssumption /\ TxInv /\ WritePublish => TxInv'
<1> SUFFICES ASSUME TxInv, WritePublish PROVE TxInv'
  OBVIOUS
<1>1. TypeOK /\ RingInv /\ CacheInv /\ TransferInv /\ WriterInv /\ WireInv
  BY DEF TxInv
<1>2. /\ UNCHANGED <<cons, txStarted, polling, dmaStart, dmaLen, dmaCount,
                     txIrq, cpu, mem, dirty, wire>>
      /\ pc = "publish" /\ prevProd' = prod /\ prod' = nextProd
      /\ nextProd' = NextSlot(nextProd) /\ left' = left - 1
      /\ stored' = stored + 1 /\ pc' = IF left = 1 THEN "idle" ELSE "wait"
  BY DEF WritePublish, deviceVars, memVars
<1>3. /\ prod \in Slots /\ cons \in Slots /\ prod # cons /\ stored \in Nat
      /\ nextProd = NextSlot(prod) /\ nextProd # cons /\ left \in Nat /\ left > 0
      /\ prevProd = PrevSlot(prod) /\ cpu[prevProd] = stored + 1
      /\ nextProd \in Slots
  BY <1>1, <1>2 DEF TypeOK, RingInv, WriterInv
<1>4. Queued' = Queued + 1 /\ Retired' = Retired /\ Queued \in Nat
  BY <1>2, <1>3 DEF Queued, Retired, Dist, NextSlot, Wrap
<1>5. Dist(cons, prevProd) = Queued
  BY <1>1, <1>3, PrevProdOutside
<1>6. TypeOK'
  <2>1. NextSlot(nextProd) \in Slots /\ left - 1 \in Nat /\ stored + 1 \in Nat
    BY <1>3, SlotArithmetic
  <2> QED
    BY <1>1, <1>2, <1>3, <2>1 DEF TypeOK
<1>7. RingInv'
  <2>1. ASSUME NEW i \in Slots, Dist(cons, i) < Queued + 1
        PROVE  cpu[i] = Retired + Dist(cons, i) + 1
    <3>1. CASE Dist(cons, i) < Queued
      BY <1>1, <3>1 DEF RingInv
    <3>2. CASE Dist(cons, i) = Queued
      <4>1. i = prevProd
        BY <1>3, <1>5, <3>2, SlotArithmetic DEF Dist
      <4>2. Retired + Queued = stored
        BY <1>3, <1>4 DEF Retired
      <4> QED
        BY <1>3, <1>5, <3>2, <4>1, <4>2
    <3> QED
      BY <1>3, <1>4, <2>1, <3>1, <3>2 DEF Dist
  <2>2. Queued' <= stored'
    BY <1>1, <1>2, <1>3, <1>4 DEF RingInv
  <2> QED
    BY <1>2, <1>3, <1>4, <2>1, <2>2 DEF RingInv
<1>8. TransferInv'
  BY <1>1, <1>2, <1>4 DEF TypeOK, TransferInv, TxBusy, Window
<1>9. WriterInv'
  BY <1>2, <1>3, SlotArithmetic DEF WriterInv
<1>10. CacheInv' /\ WireInv'
  BY <1>1, <1>2 DEF CacheInv, WireInv
<1> QED
  BY <1>6, <1>7, <1>8, <1>9, <1>10 DEF TxInv

LEMMA TxInvNext == TxAssumption /\ TxInv /\ [Next]_vars => TxInv'
<1> SUFFICES ASSUME TxAssumption, TxInv, [Next]_vars PROVE TxInv'
  OBVIOUS
<1>1. CASE StopSubsystems
  BY <1>1 DEF StopSubsystems, TxInv, TypeOK, RingInv, CacheInv, TransferInv,
       WriterInv, WireInv, Queued, Retired, TxBusy, Window, ringVars,
       deviceVars, memVars, writerVars
<1>2. CASE UNCHANGED vars
  BY <1>2 DEF vars, TxInv, TypeOK, RingInv, CacheInv, TransferInv,
       WriterInv, WireInv, Queued, Retired, TxBusy, Window, ringVars,
       deviceVars, memVars, writerVars
<1>3. CASE \E len \in WriteLens : WriteCall(len)
  BY <1>3, WriteCallPreserves
<1>4. CASE WriterStep
  BY <1>4, WriteWaitPreserves, WriteStorePreserves, WritePublishPreserves
     DEF WriterStep
<1> QED
  BY <1>1, <1>2, <1>3, <1>4, SendBytePreserves, EvictLinePreserves,
     TxIntrPreserves, UartPollPreserves DEF Next

-----------------------------------------------------------------------------
(***************************************************************************)
(* TxInv holds in every reachable state: the ring's two indices never      *)
(* meet, a transfer covers exactly the oldest queued bytes and these were  *)
(* written back (uart_tx_update, uart_tx_start, consprod_write).           *)
(***************************************************************************)
THEOREM TxInvariant == Spec => []TxInv
<1>1. Init => TxInv
  BY TxAssumption, TxInvInit
<1>2. TxInv /\ [Next]_vars => TxInv'
  BY TxAssumption, TxInvNext
<1> QED
  BY <1>1, <1>2, PTL DEF Spec

(***************************************************************************)
(* Every variable keeps its type, so no index leaves the ring.             *)
(***************************************************************************)
THEOREM TxTypeCorrect == Spec => []TypeOK
<1>1. TxInv => TypeOK
  BY DEF TxInv
<1> QED
  BY <1>1, TxInvariant, PTL

(***************************************************************************)
(* The line carries exactly the bytes written, in order.                   *)
(***************************************************************************)
THEOREM TxFaithful == Spec => []TxWireFaithful
<1>1. TxInv => TxWireFaithful
  <2> SUFFICES ASSUME TxInv PROVE TxWireFaithful
    OBVIOUS
  <2>1. Len(wire) <= stored
    BY DEF TxInv, TypeOK, TransferInv, RingInv, Retired, Queued, Dist, TxBusy
  <2> QED
    BY <2>1 DEF TxInv, WireInv, TxWireFaithful
<1> QED
  BY <1>1, TxInvariant, PTL

(***************************************************************************)
(* consprod_write never stores into a slot a transfer has yet to read.     *)
(***************************************************************************)
THEOREM TxWriterStaysOut == Spec => []TxNoOverwrite
<1>1. TxInv => TxNoOverwrite
  BY PrevProdOutside DEF TxInv, WriterInv, TxNoOverwrite
<1> QED
  BY <1>1, TxInvariant, PTL

-----------------------------------------------------------------------------
(***************************************************************************)
(* The sequence that stands for the first n bytes written.                 *)
(***************************************************************************)
LEMMA CountSeq ==
  ASSUME NEW n \in Nat
  PROVE  /\ [i \in 1 .. n |-> i] \in Seq(Nat)
         /\ Len([i \in 1 .. n |-> i]) = n
OBVIOUS

(***************************************************************************)
(* No more bytes are queued than consprod_write has room for, and those    *)
(* not yet sent are among them.                                            *)
(***************************************************************************)
LEMMA UnsentFit ==
  ASSUME TxInv
  PROVE  Len(wire) <= stored /\ stored - Len(wire) <= N - 2
<1>1. TypeOK /\ RingInv /\ TransferInv
  BY DEF TxInv
<1>2. /\ prod \in Slots /\ cons \in Slots /\ prod # cons /\ stored \in Nat
      /\ dmaLen \in Nat /\ dmaCount \in 0 .. dmaLen
  BY <1>1 DEF TypeOK, RingInv
<1>3. Queued \in 0 .. N - 2
  BY <1>2 DEF Queued, Dist
<1>4. CASE txStarted
  <2>1. dmaLen <= Queued /\ Len(wire) = stored - Queued + dmaCount
    BY <1>1, <1>4 DEF TransferInv, Retired
  <2> QED
    BY <1>2, <1>3, <2>1
<1>5. CASE ~txStarted
  <2>1. Len(wire) = stored - Queued
    BY <1>1, <1>5 DEF TransferInv, Retired
  <2> QED
    BY <1>2, <1>3, <2>1
<1> QED
  BY <1>4, <1>5

(***************************************************************************)
(* UartTx implements the abstract FIFO of N - 2 bytes: publishing a byte   *)
(* is its Put, sending one its Get, every other step stutters.             *)
(***************************************************************************)
THEOREM TxImplementsFifo == Spec => TxIsFifo
<1> DEFINE written == [i \in 1 .. stored |-> i]
<1>1. Init => Fifo!Init
  <2> SUFFICES ASSUME Init PROVE written = <<>> /\ wire = <<>>
    BY DEF Fifo!Init
  <2> QED
    BY DEF Init
<1> DEFINE Fits == Len(wire) <= stored /\ stored - Len(wire) <= N - 2
<1>2. TxInv => Fits
  BY UnsentFit
<1>3. TxInv' => Fits'
  <2> HIDE DEF Fits
  <2> QED
    BY <1>2, PTL
<1>4. TxInv /\ TxInv' /\ [Next]_vars => [Fifo!Next]_(Fifo!fifoVars)
  <2> SUFFICES ASSUME TxInv, TxInv', [Next]_vars
               PROVE  [Fifo!Next]_(Fifo!fifoVars)
    OBVIOUS
  <2> USE DEF ringVars, deviceVars, memVars, writerVars
  <2>1. stored \in Nat /\ wire \in Seq(Nat)
    BY DEF TxInv, TypeOK
  <2>2. Len(written) = stored
    BY <2>1, CountSeq
  <2>3. CASE SendByte
    <3>1. /\ stored' = stored
          /\ wire' = Append(wire, mem[ReadRegTxCtrl])
      BY <2>3 DEF SendByte
    <3>2. wire' \in Seq(Nat) /\ Len(wire') = Len(wire) + 1
      BY <2>1, <3>1 DEF TxInv, TypeOK
    <3>3. Fifo!Prefix(wire, wire')
      BY <2>1, <3>1, <3>2 DEF Fifo!Prefix
    <3>4. Len(wire') <= stored /\ \A i \in 1 .. Len(wire') : wire'[i] = i
      BY <1>3, <3>1 DEF TxInv, WireInv
    <3>5. Fifo!Prefix(wire', written)
      BY <2>1, <2>2, <3>2, <3>4 DEF Fifo!Prefix
    <3> QED
      BY <3>1, <3>2, <3>3, <3>5 DEF Fifo!Next, Fifo!Get
  <2>4. CASE WritePublish
    <3>1. stored' = stored + 1 /\ wire' = wire
      BY <2>4 DEF WritePublish
    <3>2. Len(written') = stored'
      BY <2>1, <3>1, CountSeq
    <3>3. Fifo!Prefix(written, written')
      BY <2>1, <2>2, <3>1, <3>2 DEF Fifo!Prefix
    <3>4. Len(written') - Len(wire) <= N - 2
      BY <1>3, <2>1, <3>1, <3>2
    <3> QED
      BY <2>1, <2>2, <3>1, <3>2, <3>3, <3>4 DEF Fifo!Next, Fifo!Put
  <2>5. CASE UNCHANGED <<stored, wire>>
    BY <2>5 DEF Fifo!fifoVars
  <2> QED
    BY <2>3, <2>4, <2>5 DEF Next, vars, EvictLine, TxIntr, UartPoll, WriteCall,
       WriterStep, WriteWait, WriteStore, StopSubsystems
<1> QED
  BY <1>1, <1>4, TxInvariant, PTL DEF Spec, TxIsFifo, Fifo!Spec

=============================================================================
