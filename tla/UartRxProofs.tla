---------------------------- MODULE UartRxProofs ----------------------------
(***************************************************************************)
(* Proofs about UartRx, for every ring size, cache line size, transfer     *)
(* limit and bound: the inductive invariant RxInv and what follows from    *)
(* it, and that UartRx implements ByteFifo.                                *)
(***************************************************************************)
EXTENDS UartRx, SequenceTheorems, TLAPS

USE NAssumption DEF Slots

-----------------------------------------------------------------------------
(***************************************************************************)
(* NextSlot and PrevSlot stay in the ring and undo each other.             *)
(***************************************************************************)
LEMMA SlotArithmetic ==
  ASSUME NEW p \in Slots
  PROVE  /\ NextSlot(p) \in Slots
         /\ PrevSlot(p) \in Slots
         /\ PrevSlot(NextSlot(p)) = p
         /\ NextSlot(p) # p
BY DEF NextSlot, PrevSlot, Wrap

(***************************************************************************)
(* What the free space computations of uart.c return.                      *)
(***************************************************************************)
LEMMA StraightBounds ==
  ASSUME NEW c \in Slots, NEW p \in Slots, c # p
  PROVE  /\ Straight(c, p) \in Nat
         /\ Straight(c, p) <= Dist(c, p) - 1
         /\ c + Straight(c, p) <= N
         /\ Straight(c, p) = 0 => Dist(c, p) = 1
BY DEF Straight, Dist

(***************************************************************************)
(* A distance is less than the size of the ring, and 0 only from a slot to *)
(* itself.                                                                 *)
(***************************************************************************)
LEMMA DistBounds ==
  ASSUME NEW c \in Slots, NEW p \in Slots
  PROVE  Dist(c, p) \in 0 .. N - 1 /\ (Dist(c, p) = 0 <=> c = p)
BY DEF Dist

(***************************************************************************)
(* The receiver's view: a transfer of d bytes that starts at p and is no   *)
(* longer than the free space stays in the buffer, lies beyond the unread  *)
(* bytes, and moves p without reaching c.                                  *)
(***************************************************************************)
LEMMA FreeRun ==
  ASSUME NEW c \in Slots, NEW p \in Slots, c # p,
         NEW d \in Nat, d <= Straight(p, c)
  PROVE  /\ p + d <= N
         /\ Wrap(p + d) \in Slots
         /\ Wrap(p + d) # c
         /\ Dist(c, Wrap(p + d)) = Dist(c, p) + d
         /\ Straight(Wrap(p + d), c) \in Nat
         /\ p + d < N => Straight(Wrap(p + d), c) >= Straight(p, c) - d
         /\ p + d = N => d = Straight(p, c)
         /\ \A i \in p .. p + d - 1 : i \in Slots /\ Dist(c, i) = Dist(c, p) + i - p
         /\ \A i \in Slots : Dist(c, p) <= Dist(c, i) /\ Dist(c, i) < Dist(c, p) + d
                                => i \in p .. p + d - 1
BY DEF Straight, Wrap, Dist

(***************************************************************************)
(* The reader's step from c to the next slot brings every other slot one   *)
(* nearer and leaves at least as much free space before it.                *)
(***************************************************************************)
LEMMA Advance ==
  ASSUME NEW c \in Slots, NEW p \in Slots, c # p, NextSlot(c) # p
  PROVE  /\ NextSlot(c) \in Slots
         /\ Dist(c, NextSlot(c)) = 1
         /\ Dist(c, p) > 1
         /\ \A i \in Slots : i # c => Dist(NextSlot(c), i) = Dist(c, i) - 1
         /\ Dist(NextSlot(c), c) = N - 1
         /\ Straight(p, NextSlot(c)) >= Straight(p, c)
BY DEF Straight, Wrap, Dist, NextSlot

-----------------------------------------------------------------------------
LEMMA RxInvInit == RxAssumption /\ Init => RxInv
<1> SUFFICES ASSUME RxAssumption, Init PROVE RxInv
  OBVIOUS
<1>1. TypeOK
  <2>1. kept \in Seq(Nat) /\ got \in Seq(Nat) /\ Len(kept) = 0 /\ Len(got) = 0
    BY DEF Init
  <2>2. mem \in [Slots -> Nat] /\ cache \in [Slots -> Nat] /\ resident \subseteq Lines
    BY DEF Init
  <2>3. prod \in Slots /\ cons \in Slots /\ nextCons \in Slots /\ lastpos \in 0 .. N
    BY DEF Init
  <2>4. /\ rxStarted \in BOOLEAN /\ polling \in BOOLEAN /\ rxIrq \in BOOLEAN
        /\ isr \in {"none", "restart"}
    BY DEF Init
  <2>5. /\ dmaStart \in Slots /\ dmaLen \in Nat /\ dmaCount \in 0 .. dmaLen
        /\ dmaStart + dmaLen <= N
    BY DEF Init
  <2>6. /\ pc \in {"idle", "check", "load", "advance"}
        /\ len \in Nat /\ left \in 0 .. len
    BY DEF Init
  <2>7. received \in Nat /\ published \in 0 .. Len(kept)
    BY <2>1 DEF Init
  <2> QED
    BY <2>1, <2>2, <2>3, <2>4, <2>5, <2>6, <2>7 DEF TypeOK
<1>2. RingInv /\ CacheInv
  BY DEF Init, RingInv, CacheInv, Ready, Consumed, Unread, Dist
<1>3. TransferInv
  BY DEF Init, TransferInv, Receiving, RxBusy
<1>4. ReaderInv
  BY DEF Init, ReaderInv, Consumed, Unread, Dist
<1> QED
  BY <1>1, <1>2, <1>3, <1>4 DEF RxInv

(***************************************************************************)
(* The facts about the indices that most steps need.                       *)
(***************************************************************************)
LEMMA Indices ==
  ASSUME RxInv
  PROVE  /\ prod \in Slots /\ cons \in Slots /\ prod # cons
         /\ dmaStart \in Slots /\ dmaLen \in Nat /\ dmaCount \in 0 .. dmaLen
         /\ dmaStart + dmaLen <= N /\ lastpos \in 0 .. N
         /\ published \in Nat /\ published <= Len(kept) /\ kept \in Seq(Nat)
         /\ Unread \in 0 .. N - 2 /\ Consumed \in Nat
         /\ RxFree \in Nat /\ RxFree <= N
<1>1. /\ prod \in Slots /\ cons \in Slots /\ prod # cons
      /\ dmaStart \in Slots /\ dmaLen \in Nat /\ dmaCount \in 0 .. dmaLen
      /\ dmaStart + dmaLen <= N /\ lastpos \in 0 .. N
      /\ kept \in Seq(Nat) /\ published \in 0 .. Len(kept) /\ Consumed >= 0
  BY DEF RxInv, TypeOK, RingInv
<1>2. Unread \in 0 .. N - 2 /\ Consumed \in Int
  BY <1>1 DEF Unread, Consumed, Dist
<1>3. RxFree \in Nat /\ RxFree <= N
  BY <1>1 DEF RxFree, Straight
<1> QED
  BY <1>1, <1>2, <1>3

(***************************************************************************)
(* What a transfer still has to store lies beyond the unread bytes.        *)
(***************************************************************************)
LEMMA WindowIsFree ==
  ASSUME RxInv, RxBusy, NEW i \in Window
  PROVE  /\ Receiving
         /\ lastpos = prod
         /\ i \in Slots
         /\ Dist(cons, i) = Dist(cons, prod) + i - prod
         /\ ~Ready(i)
<1>1. TransferInv
  BY DEF RxInv
<1>2. Receiving
  BY <1>1 DEF TransferInv
<1>3. /\ dmaStart <= lastpos /\ lastpos <= dmaStart + dmaCount
      /\ prod = Wrap(lastpos) /\ dmaStart + dmaLen - lastpos <= RxFree
  BY <1>1, <1>2 DEF TransferInv
<1>4. lastpos = prod
  BY <1>3, Indices DEF RxBusy, Wrap
<1> DEFINE d == dmaStart + dmaLen - lastpos
<1>5. i \in prod .. prod + d - 1 /\ d \in Nat /\ d <= Straight(prod, cons)
  BY <1>3, <1>4, Indices DEF Window, RxFree, RxBusy
<1>6. i \in Slots /\ Dist(cons, i) = Dist(cons, prod) + i - prod
  <2> HIDE DEF d
  <2>1. cons \in Slots /\ prod \in Slots /\ cons # prod
    BY Indices
  <2>2. \A j \in prod .. prod + d - 1 :
          j \in Slots /\ Dist(cons, j) = Dist(cons, prod) + j - prod
    BY <1>5, <2>1, FreeRun
  <2> QED
    BY <1>5, <2>2
<1>7. ~Ready(i)
  <2>1. Dist(cons, prod) \in Int /\ Dist(cons, i) >= Dist(cons, prod)
    <3>1. Dist(cons, prod) \in Int /\ prod \in Int
      BY Indices, DistBounds
    <3> QED
      BY <1>5, <1>6, <3>1
  <2> QED
    BY <2>1 DEF Ready, Unread
<1> QED
  BY <1>2, <1>4, <1>6, <1>7

(***************************************************************************)
(* uart_read has copied only published bytes: the one it has copied but    *)
(* not yet given back is still among the unread ones.                      *)
(***************************************************************************)
LEMMA GotPublished ==
  ASSUME RxInv
  PROVE  Len(got) \in Nat /\ Len(got) <= published
<1>1. Consumed + Unread = published /\ Unread \in Nat /\ Consumed \in Nat
  BY Indices DEF Consumed
<1>2. got \in Seq(Nat) /\ ReaderInv
  BY DEF RxInv, TypeOK
<1>3. pc = "advance" => Unread > 0
  <2>1. ASSUME pc = "advance"
        PROVE  Dist(cons, prod) > 1 /\ Dist(cons, prod) \in Int
    <3>1. NextSlot(cons) # prod
      BY <1>2, <2>1 DEF ReaderInv
    <3>2. cons \in Slots /\ prod \in Slots /\ cons # prod
      BY Indices
    <3> QED
      BY <3>1, <3>2, Advance, DistBounds
  <2> QED
    BY <2>1 DEF Unread
<1> QED
  BY <1>1, <1>2, <1>3, Indices DEF ReaderInv

(***************************************************************************)
(* A stored byte is new: it is neither among the unread bytes nor among    *)
(* those that the handler has seen.                                        *)
(***************************************************************************)
LEMMA ReceiveBytePreserves == RxAssumption /\ RxInv /\ ReceiveByte => RxInv'
<1> SUFFICES ASSUME RxInv, ReceiveByte PROVE RxInv'
  OBVIOUS
<1> DEFINE x == dmaStart + dmaCount
<1>1. TypeOK /\ RingInv /\ CacheInv /\ TransferInv /\ ReaderInv /\ RxBusy
  BY DEF RxInv, ReceiveByte
<1>2. /\ received' = received + 1
      /\ mem' = [mem EXCEPT ![x] = received + 1]
      /\ kept' = Append(kept, received + 1)
      /\ dmaCount' = dmaCount + 1
      /\ rxIrq' = (rxIrq \/ dmaCount + 1 = dmaLen)
      /\ UNCHANGED <<prod, cons, rxStarted, lastpos, polling, isr, dmaStart,
                     dmaLen, cache, resident, pc, len, left, nextCons,
                     published, got>>
  BY DEF ReceiveByte, ReadRegRxCtrl, ringVars, driverVars, cacheVars, readerVars
<1>3. /\ dmaStart \in Slots /\ dmaLen \in Nat /\ dmaCount \in Nat
      /\ dmaCount < dmaLen /\ dmaStart + dmaLen <= N /\ received \in Nat
      /\ kept \in Seq(Nat) /\ published \in 0 .. Len(kept) /\ got \in Seq(Nat)
      /\ mem \in [Slots -> Nat] /\ lastpos \in Int /\ Consumed \in Nat
  BY <1>1, Indices DEF TypeOK, RxBusy
<1>4. x \in Slots /\ x \in Window
  BY <1>3 DEF Window
<1>5. Receiving /\ lastpos = prod /\ ~Ready(x)
  BY <1>1, <1>4, WindowIsFree
<1>6. /\ kept' \in Seq(Nat) /\ Len(kept') = Len(kept) + 1
      /\ kept'[Len(kept) + 1] = received + 1
      /\ \A j \in 1 .. Len(kept) : kept'[j] = kept[j]
  BY <1>2, <1>3
<1>7. /\ mem' \in [Slots -> Nat] /\ mem'[x] = received + 1
      /\ \A i \in Slots : i # x => mem'[i] = mem[i]
  BY <1>2, <1>3, <1>4
<1>8. /\ Unread' = Unread /\ Consumed' = Consumed /\ RxFree' = RxFree
      /\ \A i \in Slots : Ready(i)' <=> Ready(i)
  BY <1>2 DEF Unread, Consumed, RxFree, Ready
<1> HIDE DEF x
<1>9. rxIrq' \in BOOLEAN
  BY <1>2
<1>10. TypeOK'
  <2>1. dmaCount' \in 0 .. dmaLen' /\ received' \in Nat /\ published' \in 0 .. Len(kept')
    BY <1>2, <1>3, <1>6
  <2> QED
    BY <1>1, <1>2, <1>6, <1>7, <1>9, <2>1 DEF TypeOK
<1>11. RingInv'
  <2>1. \A i \in Slots : Ready(i) => /\ mem'[i] = mem[i]
                                     /\ Consumed + Dist(cons, i) \in 1 .. Len(kept)
    <3>1. \A i \in Slots : Ready(i) => mem'[i] = mem[i]
      BY <1>5, <1>7
    <3>2. Consumed + Unread = published /\ Unread \in Int
      BY Indices DEF Consumed
    <3>3. \A i \in Slots : Ready(i) => Consumed + Dist(cons, i) \in 1 .. Len(kept)
      BY <1>3, <3>2 DEF Ready
    <3> QED
      BY <3>1, <3>3
  <2> QED
    BY <1>1, <1>2, <1>6, <1>8, <2>1 DEF RingInv
<1>12. CacheInv'
  BY <1>1, <1>2, <1>5, <1>7, <1>8 DEF CacheInv
<1>13. TransferInv'
  <2>1. /\ dmaStart <= lastpos /\ lastpos <= dmaStart + dmaCount
        /\ Len(kept) = published + (dmaStart + dmaCount - lastpos)
        /\ Len(kept) \in Nat /\ x \in Int /\ x = dmaStart + dmaCount
    <3>1. /\ dmaStart <= lastpos /\ lastpos <= dmaStart + dmaCount
          /\ Len(kept) = published + (dmaStart + dmaCount - lastpos)
      BY <1>1, <1>5 DEF TransferInv
    <3>2. Len(kept) \in Nat /\ x \in Int /\ x = dmaStart + dmaCount
      BY <1>3 DEF x
    <3> QED
      BY <3>1, <3>2
  <2>2. \A i \in lastpos .. x - 1 : mem[i] = kept[published + 1 + i - lastpos]
    <3>1. \A i \in lastpos .. dmaStart + dmaCount - 1 :
            mem[i] = kept[published + 1 + i - lastpos]
      BY <1>1, <1>5 DEF TransferInv
    <3>2. lastpos .. x - 1 = lastpos .. dmaStart + dmaCount - 1
      BY <1>3, <2>1
    <3> QED
      BY <3>1, <3>2
  <2>3. ASSUME NEW i \in lastpos .. x
        PROVE  mem'[i] = kept'[published + 1 + i - lastpos]
    <3>1. CASE i = x
      <4>1. published + 1 + i - lastpos = Len(kept) + 1
        BY <1>3, <2>1, <3>1
      <4> QED
        BY <1>6, <1>7, <3>1, <4>1
    <3>2. CASE i # x
      <4>1. i \in lastpos .. x - 1 /\ i \in Slots
        BY <1>3, <1>4, <1>5, <2>1, <3>2, Indices
      <4>2. published + 1 + i - lastpos \in 1 .. Len(kept)
        BY <1>3, <2>1, <4>1
      <4> QED
        BY <1>6, <1>7, <2>2, <3>2, <4>1, <4>2
    <3> QED
      BY <3>1, <3>2
  <2>4. lastpos < dmaStart + dmaLen
    BY <1>3, <2>1
  <2>5. Receiving' /\ (rxStarted' <=> rxStarted) /\ isr' = isr
    BY <1>2, <1>5 DEF Receiving
  <2>6. /\ lastpos' = lastpos /\ published' = published /\ dmaStart' = dmaStart
        /\ dmaLen' = dmaLen /\ dmaCount' = dmaCount + 1
        /\ dmaStart' + dmaCount' = x + 1
    BY <1>2, <1>3, <2>1
  <2>7. /\ dmaStart' <= lastpos' /\ lastpos' <= dmaStart' + dmaCount'
        /\ Len(kept') = published' + (dmaStart' + dmaCount' - lastpos')
    BY <1>3, <1>6, <2>1, <2>6
  <2>8. \A i \in lastpos' .. dmaStart' + dmaCount' - 1 :
          mem'[i] = kept'[published' + 1 + i - lastpos']
    <3>1. \A i \in lastpos .. x : mem'[i] = kept'[published + 1 + i - lastpos]
      BY <2>3
    <3>2. lastpos .. x = lastpos' .. dmaStart' + dmaCount' - 1
      BY <1>3, <2>1, <2>6
    <3>3. lastpos' = lastpos /\ published' = published
      BY <2>6
    <3> QED
      BY <3>1, <3>2, <3>3
  <2>9. prod' = Wrap(lastpos') /\ dmaStart' + dmaLen' - lastpos' <= RxFree'
    BY <1>1, <1>2, <1>5, <1>8 DEF TransferInv
  <2>10. rxStarted' => dmaStart' = lastpos'
    BY <1>1, <1>2 DEF TransferInv
  <2> QED
    BY <1>1, <1>2, <2>4, <2>5, <2>7, <2>8, <2>9, <2>10 DEF TransferInv
<1>14. ReaderInv'
  <2>1. Len(got) <= Len(kept)
    BY <1>3, GotPublished
  <2> QED
    BY <1>1, <1>2, <1>3, <1>6, <1>8, <2>1 DEF ReaderInv
<1> QED
  BY <1>10, <1>11, <1>12, <1>13, <1>14 DEF RxInv

LEMMA EarlyInterruptPreserves == RxAssumption /\ RxInv /\ EarlyInterrupt => RxInv'
<1> SUFFICES ASSUME RxInv, EarlyInterrupt PROVE RxInv'
  OBVIOUS
<1>1. TypeOK /\ RingInv /\ CacheInv /\ TransferInv /\ ReaderInv /\ RxBusy
  BY DEF RxInv, EarlyInterrupt
<1>2. /\ rxIrq' = TRUE
      /\ UNCHANGED <<prod, cons, rxStarted, lastpos, polling, isr, dmaStart,
                     dmaLen, dmaCount, mem, cache, resident, pc, len, left,
                     nextCons, received, kept, published, got>>
  BY DEF EarlyInterrupt, ringVars, driverVars, deviceVars, cacheVars,
         readerVars, streamVars
<1>3. lastpos < dmaStart + dmaLen /\ Receiving
  <2>1. Receiving
    BY <1>1 DEF TransferInv
  <2>2. lastpos <= dmaStart + dmaCount
    BY <1>1, <2>1 DEF TransferInv
  <2> QED
    BY <1>1, <2>1, <2>2, Indices DEF RxBusy
<1>4. TypeOK'
  BY <1>1, <1>2 DEF TypeOK
<1>5. TransferInv'
  BY <1>1, <1>2, <1>3 DEF TransferInv, Receiving, RxBusy, RxFree
<1>6. RingInv' /\ CacheInv' /\ ReaderInv'
  BY <1>1, <1>2 DEF RingInv, CacheInv, ReaderInv, Ready, Consumed, Unread
<1> QED
  BY <1>4, <1>5, <1>6 DEF RxInv

(***************************************************************************)
(* The bytes from lastpos to the position of the register become unread    *)
(* bytes behind those that were there; the CPU has no copy of their lines. *)
(***************************************************************************)
LEMMA RxIntrUpdatePreserves == RxAssumption /\ RxInv /\ RxIntrUpdate => RxInv'
<1> SUFFICES ASSUME RxInv, RxIntrUpdate PROVE RxInv'
  OBVIOUS
<1> DEFINE x == dmaStart + dmaCount
           d == x - lastpos
<1>1. TypeOK /\ RingInv /\ CacheInv /\ TransferInv /\ ReaderInv
  BY DEF RxInv
<1>2. /\ rxIrq /\ isr = "none" /\ rxIrq' = FALSE /\ isr' = "restart"
      /\ rxStarted' = FALSE
      /\ UNCHANGED <<cons, polling, dmaStart, dmaLen, dmaCount, mem, pc, len,
                     left, nextCons, received, kept, got>>
  BY DEF RxIntrUpdate, deviceVars, readerVars
<1>3. /\ rxStarted /\ Receiving
      /\ dmaStart = lastpos /\ lastpos = prod /\ lastpos <= x
      /\ dmaStart + dmaLen - lastpos <= RxFree
      /\ Len(kept) = published + (x - lastpos)
  <2>1. Receiving /\ rxStarted
    BY <1>1, <1>2 DEF TransferInv, Receiving
  <2>2. /\ dmaStart = lastpos /\ prod = Wrap(lastpos)
        /\ lastpos <= dmaStart + dmaCount
        /\ dmaStart + dmaLen - lastpos <= RxFree
        /\ Len(kept) = published + (dmaStart + dmaCount - lastpos)
    BY <1>1, <2>1 DEF TransferInv
  <2>3. dmaStart \in Slots /\ dmaCount \in Nat /\ lastpos \in Int
    BY Indices
  <2>4. lastpos = prod
    BY <2>2, <2>3 DEF Wrap
  <2>5. lastpos <= x
    BY <2>2
  <2>6. Len(kept) = published + (x - lastpos)
    BY <2>2, <2>3, Indices
  <2> HIDE DEF x
  <2> QED
    BY <2>1, <2>2, <2>4, <2>5, <2>6
<1>4. \A i \in lastpos .. x - 1 : mem[i] = kept[published + 1 + i - lastpos]
  <2>1. \A i \in lastpos .. dmaStart + dmaCount - 1 :
          mem[i] = kept[published + 1 + i - lastpos]
    BY <1>1, <1>3 DEF TransferInv
  <2>2. dmaStart \in Int /\ dmaCount \in Int /\ lastpos \in Int
    BY Indices
  <2>3. lastpos .. x - 1 = lastpos .. dmaStart + dmaCount - 1
    BY <2>2
  <2> HIDE DEF x
  <2> QED
    BY <2>1, <2>3
<1>5. CASE x = lastpos
  <2>1. UNCHANGED <<cache, resident, lastpos, prod, published>>
    BY <1>5 DEF RxIntrUpdate, ReadRegRxCtrl, cacheVars
  <2>2. TypeOK'
    BY <1>1, <1>2, <2>1 DEF TypeOK
  <2>3. TransferInv'
    BY <1>1, <1>2, <1>3, <2>1 DEF TransferInv, Receiving, RxFree
  <2>4. RingInv' /\ CacheInv' /\ ReaderInv'
    BY <1>1, <1>2, <2>1 DEF RingInv, CacheInv, ReaderInv, Ready, Consumed, Unread
  <2> QED
    BY <2>2, <2>3, <2>4 DEF RxInv
<1>6. CASE x # lastpos
  <2>1. /\ cache' = [i \in Slots |-> IF Line(i) \in LinesOf(lastpos, x)
                                      THEN 0 ELSE cache[i]]
        /\ resident' = resident \ LinesOf(lastpos, x)
        /\ lastpos' = x /\ prod' = Wrap(x) /\ published' = Len(kept)
    BY <1>6 DEF RxIntrUpdate, ReadRegRxCtrl, DropLines
  <2>2. /\ cons \in Slots /\ prod \in Slots /\ cons # prod
        /\ d \in Nat /\ d > 0 /\ d <= Straight(prod, cons)
        /\ x = prod + d /\ x \in 0 .. N /\ published \in Nat
        /\ dmaStart + dmaLen - x <= Straight(prod, cons) - d
        /\ x <= dmaStart + dmaLen
    <3>1. /\ cons \in Slots /\ prod \in Slots /\ cons # prod
          /\ dmaStart \in Slots /\ dmaLen \in Nat /\ dmaCount \in 0 .. dmaLen
          /\ dmaStart + dmaLen <= N /\ published \in Nat /\ RxFree \in Nat
      BY Indices
    <3>2. /\ dmaStart = lastpos /\ lastpos = prod
          /\ dmaStart + dmaLen - lastpos <= RxFree
      BY <1>3
    <3>3. d = dmaCount /\ x = prod + d /\ d > 0
      BY <1>6, <3>1, <3>2
    <3>4. d \in Nat /\ d <= RxFree /\ x \in 0 .. N /\ x <= dmaStart + dmaLen
      BY <3>1, <3>2, <3>3
    <3>5. dmaStart + dmaLen - x <= RxFree - d
      BY <3>1, <3>2, <3>3
    <3> QED
      BY <3>1, <3>3, <3>4, <3>5 DEF RxFree
  <2> HIDE DEF d, x
  <2>3. /\ Wrap(x) \in Slots /\ Wrap(x) # cons
        /\ Dist(cons, Wrap(x)) = Dist(cons, prod) + d
        /\ Straight(Wrap(x), cons) \in Nat
        /\ x < N => Straight(Wrap(x), cons) >= Straight(prod, cons) - d
        /\ x = N => d = Straight(prod, cons)
        /\ \A i \in prod .. x - 1 : i \in Slots /\ Dist(cons, i) = Dist(cons, prod) + i - prod
        /\ \A i \in Slots : Dist(cons, prod) <= Dist(cons, i)
                             /\ Dist(cons, i) < Dist(cons, prod) + d
                                => i \in prod .. x - 1
    BY <2>2, FreeRun
  <2>4. /\ Unread' = Unread + d /\ Consumed' = Consumed
        /\ Dist(cons, prod) = Unread + 1
        /\ published' = published + d
    <3>1. Dist(cons, prod) \in Int
      BY <2>2, DistBounds
    <3>2. published' = published + d
      BY <1>3, <2>1, <2>2, Indices
    <3>3. Dist(cons', prod') = Dist(cons, prod) + d
      BY <1>2, <2>1, <2>3
    <3>4. Unread' = Unread + d
      BY <2>2, <3>1, <3>3 DEF Unread
    <3>5. Unread \in Int /\ Dist(cons, prod) = Unread + 1
      BY <3>1 DEF Unread
    <3>6. Consumed' = Consumed
      BY <2>2, <3>2, <3>4, <3>5 DEF Consumed
    <3> QED
      BY <3>2, <3>4, <3>5, <3>6
  <2>5. ASSUME NEW i \in Slots, Ready(i)'
        PROVE  \/ Ready(i) /\ mem[i] = kept[Consumed + Dist(cons, i)]
               \/ /\ i \in prod .. x - 1
                  /\ mem[i] = kept[Consumed + Dist(cons, i)]
                  /\ Line(i) \in LinesOf(lastpos, x)
    <3>1. Dist(cons, i) \in 1 .. Unread + d /\ Unread \in Nat
      BY <1>2, <2>4, <2>5, Indices DEF Ready
    <3>2. CASE Dist(cons, i) <= Unread
      BY <1>1, <3>1, <3>2 DEF Ready, RingInv
    <3>3. CASE Dist(cons, i) > Unread
      <4>1. i \in prod .. x - 1
        BY <2>2, <2>3, <2>4, <3>1, <3>3
      <4>2. Dist(cons, i) = Unread + 1 + i - prod
        BY <2>3, <2>4, <4>1
      <4>3. Consumed + Dist(cons, i) = published + 1 + i - lastpos
        BY <1>3, <2>2, <3>1, <4>1, <4>2 DEF Consumed
      <4>4. mem[i] = kept[Consumed + Dist(cons, i)]
        BY <1>3, <1>4, <4>1, <4>3
      <4> QED
        BY <1>3, <4>1, <4>4 DEF LinesOf
    <3> QED
      BY <3>1, <3>2, <3>3
  <2>6. TypeOK'
    <3>1. cache' \in [Slots -> Nat] /\ resident' \subseteq Lines
      BY <1>1, <2>1 DEF TypeOK
    <3>2. published' \in 0 .. Len(kept') /\ lastpos' \in 0 .. N /\ prod' \in Slots
      BY <1>2, <2>1, <2>2, <2>3, Indices
    <3> QED
      BY <1>1, <1>2, <3>1, <3>2 DEF TypeOK
  <2>7. RingInv'
    <3>1. Consumed' \in Nat
      BY <2>4, Indices
    <3> QED
      BY <1>2, <2>1, <2>3, <2>4, <2>5, <3>1 DEF RingInv
  <2>8. CacheInv'
    <3>1. ASSUME NEW i \in Slots, Ready(i)', Line(i) \in resident'
          PROVE  cache'[i] = mem'[i]
      <4>1. Line(i) \in resident /\ Line(i) \notin LinesOf(lastpos, x)
        BY <2>1, <3>1
      <4>2. Ready(i)
        BY <2>5, <3>1, <4>1
      <4>3. cache'[i] = cache[i]
        BY <2>1, <4>1
      <4> QED
        BY <1>1, <1>2, <4>1, <4>2, <4>3 DEF CacheInv
    <3> QED
      BY <3>1 DEF CacheInv
  <2>9. TransferInv'
    <3>1. Receiving' /\ ~rxStarted' /\ ~rxIrq' /\ isr' = "restart"
      BY <1>2 DEF Receiving
    <3>2. /\ lastpos' = x /\ published' = Len(kept) /\ kept' = kept
          /\ dmaStart' = dmaStart /\ dmaLen' = dmaLen /\ dmaCount' = dmaCount
          /\ dmaStart' + dmaCount' = x
      BY <1>2, <2>1 DEF x
    <3>3. dmaStart' + dmaLen' - lastpos' <= RxFree'
      <4>1. RxFree' = Straight(Wrap(x), cons)
        BY <1>2, <2>1 DEF RxFree
      <4>2. dmaStart + dmaLen - x <= Straight(Wrap(x), cons)
        <5>1. /\ dmaStart + dmaLen - x \in Int /\ Straight(prod, cons) \in Int
              /\ d \in Int /\ Straight(Wrap(x), cons) \in Nat
          BY <2>2, <2>3, Indices DEF RxFree
        <5>2. CASE x < N
          BY <2>2, <2>3, <5>1, <5>2
        <5>3. CASE x = N
          BY <2>2, <2>3, <5>1, <5>3
        <5> QED
          BY <2>2, <5>2, <5>3
      <4> QED
        BY <3>2, <4>1, <4>2
    <3>4. dmaStart' <= lastpos' /\ lastpos' <= dmaStart' + dmaCount'
      <4>1. dmaStart <= x /\ x \in Int
        BY <1>3, <2>2, Indices
      <4> QED
        BY <3>2, <4>1
    <3>5. Len(kept') = published' + (dmaStart' + dmaCount' - lastpos')
      <4>1. Len(kept) \in Nat /\ x \in Int
        BY <2>2, Indices
      <4>2. dmaStart' + dmaCount' - lastpos' = 0
        <5>1. dmaStart' + dmaCount' = x /\ lastpos' = x
          BY <3>2
        <5>2. dmaStart' \in Int /\ dmaCount' \in Int /\ lastpos' \in Int
          BY <3>2, <4>1, Indices
        <5>3. \A a, b, c \in Int : a + b = c => a + b - c = 0
          OBVIOUS
        <5> QED
          BY <5>1, <5>2, <5>3
      <4>3. Len(kept') = Len(kept) /\ published' = Len(kept)
        BY <3>2
      <4> QED
        BY <4>1, <4>2, <4>3
    <3>6. \A i \in lastpos' .. dmaStart' + dmaCount' - 1 :
            mem'[i] = kept'[published' + 1 + i - lastpos']
      <4>1. lastpos' .. dmaStart' + dmaCount' - 1 = {}
        <5>1. x \in Int
          BY <2>2
        <5>2. x .. x - 1 = {}
          BY <5>1
        <5>3. dmaStart' + dmaCount' - 1 = x - 1 /\ lastpos' = x
          <6>1. dmaStart' \in Int /\ dmaCount' \in Int
            BY <3>2, Indices
          <6> QED
            BY <3>2, <5>1, <6>1
        <5> QED
          BY <5>2, <5>3
      <4> QED
        BY <4>1
    <3> QED
      BY <2>1, <3>1, <3>3, <3>4, <3>5, <3>6 DEF TransferInv
  <2>10. ReaderInv'
    <3>1. ASSUME pc \in {"load", "advance"} PROVE nextCons # prod'
      <4>1. nextCons = NextSlot(cons) /\ nextCons # prod
        BY <1>1, <3>1 DEF ReaderInv
      <4>2. Dist(cons, NextSlot(cons)) = 1 /\ Dist(cons, prod) > 1
            /\ Dist(cons, prod) \in Int
        BY <2>2, <4>1, Advance, DistBounds
      <4> QED
        BY <2>1, <2>2, <2>3, <4>1, <4>2
    <3> QED
      BY <1>1, <1>2, <2>4, <3>1 DEF ReaderInv
  <2> QED
    BY <2>6, <2>7, <2>8, <2>9, <2>10 DEF RxInv
<1> QED
  BY <1>5, <1>6

(***************************************************************************)
(* The register is written with the free slots from prod, or the transfer  *)
(* that ended has left nothing to publish.                                 *)
(***************************************************************************)
LEMMA RxStartPreserves ==
  ASSUME RxAssumption, RxInv, RxStart, ~rxStarted, isr' = "none",
         UNCHANGED <<prod, cons, polling, rxIrq, mem, cache, resident, pc, len,
                     left, nextCons, received, published, got>>
  PROVE  RxInv'
<1>1. TypeOK /\ RingInv /\ CacheInv /\ TransferInv /\ ReaderInv
  BY DEF RxInv
<1>2. /\ Unread' = Unread /\ Consumed' = Consumed /\ RxFree' = RxFree
      /\ \A i \in Slots : Ready(i)' <=> Ready(i)
  BY DEF Unread, Consumed, RxFree, Ready
<1>3. CacheInv'
  BY <1>1, <1>2 DEF CacheInv
<1>4. CASE RxFree > 0
  <2>1. /\ rxStarted' = TRUE /\ lastpos' = prod /\ dmaStart' = prod
        /\ dmaLen' = AtMost(RxFree, MaxDma) /\ dmaCount' = 0
        /\ kept' = SubSeq(kept, 1, published)
    BY <1>4 DEF RxStart
  <2>2. /\ kept' \in Seq(Nat) /\ Len(kept') = published
        /\ \A j \in 1 .. published : kept'[j] = kept[j]
    <3>1. published \in Nat /\ published <= Len(kept) /\ kept \in Seq(Nat)
      BY Indices
    <3>2. /\ SubSeq(kept, 1, published) \in Seq(Nat)
          /\ Len(SubSeq(kept, 1, published)) = published
          /\ \A j \in 1 .. published : SubSeq(kept, 1, published)[j] = kept[j]
      BY <3>1, SubSeqProperties
    <3> QED
      BY <2>1, <3>2
  <2>3. dmaLen' \in Nat /\ dmaLen' > 0 /\ dmaLen' <= RxFree
    BY <1>4, <2>1, Indices DEF AtMost, RxAssumption
  <2>4. prod + dmaLen' <= N
    <3>1. cons \in Slots /\ prod \in Slots /\ cons # prod
      BY Indices
    <3>2. \A d \in Nat : d <= RxFree => prod + d <= N
      BY <3>1, FreeRun DEF RxFree
    <3> QED
      BY <2>3, <3>2
  <2>5. TypeOK'
    <3>1. /\ dmaStart' \in Slots /\ dmaLen' \in Nat /\ dmaCount' \in 0 .. dmaLen'
          /\ dmaStart' + dmaLen' <= N /\ lastpos' \in 0 .. N
      BY <2>1, <2>3, <2>4, Indices
    <3>2. published' \in 0 .. Len(kept')
      BY <2>2, Indices
    <3> QED
      BY <1>1, <2>1, <2>2, <3>1, <3>2 DEF TypeOK
  <2>6. RingInv'
    <3>1. Consumed + Unread = published /\ Unread \in Nat /\ Consumed \in Nat
      BY Indices DEF Consumed
    <3>2. \A i \in Slots : Ready(i) => Consumed + Dist(cons, i) \in 1 .. published
      BY <3>1 DEF Ready
    <3>3. \A i \in Slots : Ready(i) => mem[i] = kept'[Consumed + Dist(cons, i)]
      BY <1>1, <2>2, <3>2 DEF RingInv
    <3> QED
      BY <1>1, <1>2, <3>3 DEF RingInv
  <2>7. TransferInv'
    <3>1. Receiving' /\ rxStarted' /\ isr' # "restart"
      BY <2>1 DEF Receiving
    <3>2. /\ dmaStart' <= lastpos' /\ lastpos' <= dmaStart' + dmaCount'
          /\ dmaStart' = lastpos'
      BY <2>1, Indices
    <3>3. prod' = Wrap(lastpos')
      BY <2>1, Indices DEF Wrap
    <3>4. dmaStart' + dmaLen' - lastpos' <= RxFree'
      <4>1. \A a \in Int, b \in Int : a + b - a = b
        OBVIOUS
      <4>2. prod + dmaLen' - prod = dmaLen'
        BY <2>3, <4>1, Indices
      <4> QED
        BY <1>2, <2>1, <2>3, <4>2
    <3>5. Len(kept') = published' + (dmaStart' + dmaCount' - lastpos')
      <4>1. published + (prod + 0 - prod) = published
        BY Indices
      <4> QED
        BY <2>1, <2>2, <4>1
    <3>6. \A i \in lastpos' .. dmaStart' + dmaCount' - 1 :
            mem'[i] = kept'[published' + 1 + i - lastpos']
      <4>1. prod .. prod + 0 - 1 = {}
        BY Indices
      <4>2. lastpos' .. dmaStart' + dmaCount' - 1 = {}
        BY <2>1, <4>1
      <4> QED
        BY <4>2
    <3>7. lastpos' < dmaStart' + dmaLen'
      BY <2>1, <2>3, Indices
    <3> QED
      BY <3>1, <3>2, <3>3, <3>4, <3>5, <3>6, <3>7 DEF TransferInv
  <2>8. ReaderInv'
    <3>1. Len(got) \in Nat /\ Len(got) <= published /\ published \in Int
      BY GotPublished, Indices
    <3>2. \A i \in 1 .. Len(got) : kept'[i] = kept[i]
      BY <2>2, <3>1
    <3> QED
      BY <1>1, <1>2, <3>2 DEF ReaderInv
  <2> QED
    BY <1>3, <2>5, <2>6, <2>7, <2>8 DEF RxInv
<1>5. CASE ~(RxFree > 0)
  <2>1. UNCHANGED <<rxStarted, lastpos, dmaStart, dmaLen, dmaCount, kept>>
    BY <1>5 DEF RxStart, driverVars, deviceVars
  <2>2. TypeOK'
    BY <1>1, <2>1 DEF TypeOK
  <2>3. RingInv' /\ ReaderInv'
    BY <1>1, <1>2, <2>1 DEF RingInv, ReaderInv
  <2>4. ~RxBusy /\ Len(kept) = published /\ ~rxIrq
    <3>1. CASE ~Receiving
      BY <1>1, <3>1 DEF TransferInv
    <3>2. CASE Receiving
      <4>1. /\ lastpos <= dmaStart + dmaCount
            /\ dmaStart + dmaLen - lastpos <= RxFree
            /\ Len(kept) = published + (dmaStart + dmaCount - lastpos)
            /\ rxIrq => lastpos < dmaStart + dmaLen
        BY <1>1, <3>2 DEF TransferInv
      <4>2. /\ dmaStart \in Nat /\ dmaLen \in Nat /\ dmaCount \in 0 .. dmaLen
            /\ lastpos \in Nat /\ published \in Nat /\ RxFree \in Nat
        BY Indices
      <4>3. dmaCount = dmaLen /\ lastpos = dmaStart + dmaLen
        BY <1>5, <4>1, <4>2
      <4>4. ~RxBusy /\ ~rxIrq
        BY <4>1, <4>2, <4>3 DEF RxBusy
      <4>5. Len(kept) = published
        BY <4>1, <4>2, <4>3
      <4> QED
        BY <4>4, <4>5
    <3> QED
      BY <3>1, <3>2
  <2>5. TransferInv'
    BY <2>1, <2>4 DEF TransferInv, Receiving, RxBusy
  <2> QED
    BY <1>3, <2>2, <2>3, <2>5 DEF RxInv
<1> QED
  BY <1>4, <1>5

LEMMA RxIntrRestartPreserves == RxAssumption /\ RxInv /\ RxIntrRestart => RxInv'
<1> SUFFICES ASSUME RxAssumption, RxInv, RxIntrRestart PROVE RxInv'
  OBVIOUS
<1>1. ~rxStarted
  BY DEF RxInv, TransferInv, RxIntrRestart
<1> QED
  BY <1>1, RxStartPreserves DEF RxIntrRestart, ringVars, cacheVars, readerVars

LEMMA UartPollPreserves == RxAssumption /\ RxInv /\ UartPoll => RxInv'
<1> SUFFICES ASSUME RxAssumption, RxInv, UartPoll PROVE RxInv'
  OBVIOUS
<1>1. isr' = "none" /\ ~rxStarted
  BY DEF UartPoll
<1> QED
  BY <1>1, RxStartPreserves DEF UartPoll, ringVars, cacheVars, readerVars

LEMMA ReadCallPreserves ==
  RxAssumption /\ RxInv /\ (\E n \in ReadLens : ReadCall(n)) => RxInv'
<1> SUFFICES ASSUME RxAssumption, RxInv, NEW n \in ReadLens, ReadCall(n)
             PROVE  RxInv'
  OBVIOUS
<1>1. TypeOK /\ RingInv /\ CacheInv /\ TransferInv /\ ReaderInv
  BY DEF RxInv
<1>2. /\ pc = "idle" /\ len' = n /\ left' = n /\ nextCons' = NextSlot(cons)
      /\ pc' = "check" /\ n \in Nat /\ n > 0
      /\ UNCHANGED <<prod, cons, rxStarted, lastpos, polling, isr, dmaStart,
                     dmaLen, dmaCount, rxIrq, mem, cache, resident, received,
                     kept, published, got>>
  BY DEF ReadCall, RxAssumption, ringVars, driverVars, deviceVars, cacheVars,
         streamVars
<1>3. TypeOK'
  <2>1. cons \in Slots
    BY <1>1 DEF TypeOK
  <2>2. nextCons' \in Slots
    BY <1>2, <2>1, SlotArithmetic
  <2>3. len' \in Nat /\ left' \in 0 .. len'
    BY <1>2
  <2> QED
    BY <1>1, <1>2, <2>2, <2>3 DEF TypeOK
<1>4. RingInv' /\ CacheInv'
  BY <1>1, <1>2 DEF RingInv, CacheInv, Ready, Consumed, Unread
<1>5. TransferInv'
  BY <1>1, <1>2 DEF TransferInv, Receiving, RxBusy, RxFree
<1>6. ReaderInv'
  BY <1>1, <1>2 DEF ReaderInv, Consumed, Unread
<1> QED
  BY <1>3, <1>4, <1>5, <1>6 DEF RxInv

LEMMA ReadCheckPreserves == RxAssumption /\ RxInv /\ ReadCheck => RxInv'
<1> SUFFICES ASSUME RxInv, ReadCheck PROVE RxInv'
  OBVIOUS
<1>1. TypeOK /\ RingInv /\ CacheInv /\ TransferInv /\ ReaderInv
  BY DEF RxInv
<1>2. /\ pc = "check"
      /\ (pc' = "load" /\ nextCons # prod) \/ pc' = "idle"
      /\ UNCHANGED <<prod, cons, rxStarted, lastpos, polling, isr, dmaStart,
                     dmaLen, dmaCount, rxIrq, mem, cache, resident, len, left,
                     nextCons, received, kept, published, got>>
  BY DEF ReadCheck, ringVars, driverVars, deviceVars, cacheVars, streamVars
<1>3. TypeOK'
  BY <1>1, <1>2 DEF TypeOK
<1>4. RingInv' /\ CacheInv'
  BY <1>1, <1>2 DEF RingInv, CacheInv, Ready, Consumed, Unread
<1>5. TransferInv'
  BY <1>1, <1>2 DEF TransferInv, Receiving, RxBusy, RxFree
<1>6. ReaderInv'
  BY <1>1, <1>2 DEF ReaderInv, Consumed, Unread
<1> QED
  BY <1>3, <1>4, <1>5, <1>6 DEF RxInv

(***************************************************************************)
(* The slot behind cons is unread, so what the cache shows of it is the    *)
(* next published byte.                                                    *)
(***************************************************************************)
LEMMA ReadLoadPreserves == RxAssumption /\ RxInv /\ ReadLoad => RxInv'
<1> SUFFICES ASSUME RxInv, ReadLoad PROVE RxInv'
  OBVIOUS
<1>1. TypeOK /\ RingInv /\ CacheInv /\ TransferInv /\ ReaderInv
  BY DEF RxInv
<1>2. /\ pc = "load" /\ pc' = "advance"
      /\ got' = Append(got, CpuSees(nextCons))
      /\ cache' = [i \in Slots |-> IF Line(i) = Line(nextCons)
                                     THEN CpuSees(i) ELSE cache[i]]
      /\ resident' = resident \cup {Line(nextCons)}
      /\ UNCHANGED <<prod, cons, rxStarted, lastpos, polling, isr, dmaStart,
                     dmaLen, dmaCount, rxIrq, mem, len, left, nextCons,
                     received, kept, published>>
  BY DEF ReadLoad, FillLine, ringVars, driverVars, deviceVars
<1>3. /\ nextCons = NextSlot(cons) /\ nextCons # prod /\ left > 0
      /\ Len(got) = Consumed /\ got \in Seq(Nat) /\ nextCons \in Slots
  BY <1>1, <1>2 DEF ReaderInv, TypeOK
<1>4. /\ Unread' = Unread /\ Consumed' = Consumed /\ RxFree' = RxFree
      /\ \A i \in Slots : Ready(i)' <=> Ready(i)
  BY <1>2 DEF Unread, Consumed, RxFree, Ready
<1>5. \A i \in Slots : Ready(i) => CpuSees(i) = mem[i]
  BY <1>1 DEF CacheInv, CpuSees
<1>6. \A i \in Slots : CpuSees(i) \in Nat
  BY <1>1 DEF TypeOK, CpuSees
<1>7. Ready(nextCons) /\ Dist(cons, nextCons) = 1
  <2>1. cons \in Slots /\ prod \in Slots /\ cons # prod
    BY Indices
  <2>2. Dist(cons, nextCons) = 1 /\ Dist(cons, prod) > 1
    BY <1>3, <2>1, Advance
  <2>3. Dist(cons, prod) \in Int
    BY <2>1, DistBounds
  <2> QED
    BY <2>2, <2>3 DEF Ready, Unread
<1>8. CpuSees(nextCons) = kept[Len(got) + 1]
  BY <1>1, <1>3, <1>5, <1>7 DEF RingInv
<1>9. /\ got' \in Seq(Nat) /\ Len(got') = Consumed + 1
      /\ \A i \in 1 .. Len(got') : got'[i] = kept[i]
  <2>1. got' \in Seq(Nat) /\ Len(got') = Len(got) + 1
    BY <1>2, <1>3, <1>6
  <2>2. \A i \in 1 .. Len(got) : got[i] = kept[i]
    BY <1>1 DEF ReaderInv
  <2>3. /\ got'[Len(got) + 1] = kept[Len(got) + 1]
        /\ \A i \in 1 .. Len(got) : got'[i] = got[i]
    BY <1>2, <1>3, <1>8
  <2>4. Len(got) \in Nat
    BY <1>3
  <2>5. \A i \in 1 .. Len(got) + 1 : got'[i] = kept[i]
    BY <2>2, <2>3, <2>4
  <2> QED
    BY <1>3, <2>1, <2>5
<1>10. TypeOK'
  <2>1. cache' \in [Slots -> Nat] /\ resident' \subseteq Lines
    <3>1. Line(nextCons) \in Lines /\ resident \subseteq Lines
      BY <1>1, <1>3 DEF TypeOK, Lines
    <3>2. cache \in [Slots -> Nat]
      BY <1>1 DEF TypeOK
    <3> QED
      BY <1>2, <1>6, <3>1, <3>2
  <2> QED
    BY <1>1, <1>2, <1>9, <2>1 DEF TypeOK
<1>11. RingInv'
  BY <1>1, <1>2, <1>4 DEF RingInv
<1>12. CacheInv'
  <2>1. ASSUME NEW i \in Slots, Ready(i), Line(i) \in resident'
        PROVE  cache'[i] = mem[i]
    <3>1. CASE Line(i) = Line(nextCons)
      BY <1>2, <1>5, <2>1, <3>1
    <3>2. CASE Line(i) # Line(nextCons)
      <4>1. Line(i) \in resident /\ cache'[i] = cache[i]
        BY <1>2, <2>1, <3>2
      <4> QED
        BY <1>1, <2>1, <4>1 DEF CacheInv
    <3> QED
      BY <3>1, <3>2
  <2> QED
    BY <1>2, <1>4, <2>1 DEF CacheInv
<1>13. TransferInv'
  BY <1>1, <1>2, <1>4 DEF TransferInv, Receiving, RxBusy
<1>14. ReaderInv'
  BY <1>2, <1>3, <1>4, <1>9 DEF ReaderInv
<1> QED
  BY <1>10, <1>11, <1>12, <1>13, <1>14 DEF RxInv

(***************************************************************************)
(* The slot given back was the first unread one; the others keep their     *)
(* places in the stream and the free space does not shrink.                *)
(***************************************************************************)
LEMMA ReadAdvancePreserves == RxAssumption /\ RxInv /\ ReadAdvance => RxInv'
<1> SUFFICES ASSUME RxInv, ReadAdvance PROVE RxInv'
  OBVIOUS
<1>1. TypeOK /\ RingInv /\ CacheInv /\ TransferInv /\ ReaderInv
  BY DEF RxInv
<1>2. /\ pc = "advance" /\ cons' = nextCons
      /\ nextCons' = NextSlot(nextCons) /\ left' = left - 1
      /\ pc' = IF left = 1 THEN "idle" ELSE "check"
      /\ UNCHANGED <<prod, rxStarted, lastpos, polling, isr, dmaStart, dmaLen,
                     dmaCount, rxIrq, mem, cache, resident, len, received,
                     kept, published, got>>
  BY DEF ReadAdvance, driverVars, deviceVars, cacheVars, streamVars
<1>3. /\ nextCons = NextSlot(cons) /\ nextCons # prod /\ left > 0
      /\ Len(got) = Consumed + 1
  BY <1>1, <1>2 DEF ReaderInv
<1>4. /\ cons \in Slots /\ prod \in Slots /\ cons # prod
      /\ nextCons \in Slots /\ Dist(cons, prod) > 1
      /\ \A i \in Slots : i # cons => Dist(nextCons, i) = Dist(cons, i) - 1
      /\ Dist(nextCons, cons) = N - 1
      /\ Straight(prod, nextCons) >= Straight(prod, cons)
  <2>1. cons \in Slots /\ prod \in Slots /\ cons # prod
    BY Indices
  <2> QED
    BY <1>3, <2>1, Advance
<1>5. /\ Unread' = Unread - 1 /\ Consumed' = Consumed + 1
      /\ Unread \in Nat /\ Unread <= N - 2
  <2>1. Dist(cons, prod) \in Int /\ published \in Int /\ Unread \in Nat
        /\ Unread <= N - 2
    BY <1>4, DistBounds, Indices
  <2>2. Dist(cons', prod') = Dist(cons, prod) - 1
    BY <1>2, <1>4
  <2>3. Unread' = Unread - 1
    BY <2>1, <2>2 DEF Unread
  <2> QED
    BY <1>2, <2>1, <2>3 DEF Consumed
<1>6. \A i \in Slots : Ready(i)' => /\ Ready(i) /\ i # cons
                                    /\ Dist(cons', i) = Dist(cons, i) - 1
  <2>1. ASSUME NEW i \in Slots, Ready(i)'
        PROVE  Ready(i) /\ i # cons /\ Dist(cons', i) = Dist(cons, i) - 1
    <3>1. Dist(nextCons, i) \in 1 .. Unread - 1
      BY <1>2, <1>5, <2>1 DEF Ready
    <3>2. i # cons
      BY <1>4, <1>5, <3>1
    <3>3. Dist(nextCons, i) = Dist(cons, i) - 1 /\ Dist(cons, i) \in Int
      BY <1>4, <3>2, DistBounds
    <3>4. Dist(cons, i) \in 1 .. Unread
      BY <1>5, <3>1, <3>3
    <3> QED
      BY <1>2, <3>2, <3>3, <3>4 DEF Ready
  <2> QED
    BY <2>1
<1>7. TypeOK'
  <2>1. nextCons' \in Slots /\ left' \in 0 .. len' /\ cons' \in Slots
    <3>1. left \in 0 .. len /\ len \in Nat
      BY <1>1 DEF TypeOK
    <3>2. left - 1 \in 0 .. len
      BY <1>3, <3>1
    <3> QED
      BY <1>2, <1>4, <3>2, SlotArithmetic
  <2> QED
    BY <1>1, <1>2, <2>1 DEF TypeOK
<1>8. RingInv'
  <2>1. ASSUME NEW i \in Slots, Ready(i)'
        PROVE  mem'[i] = kept'[Consumed' + Dist(cons', i)]
    <3>1. Ready(i) /\ Dist(cons', i) = Dist(cons, i) - 1
      BY <1>6, <2>1
    <3>2. Dist(cons, i) \in Int /\ Consumed \in Int
      BY <1>4, DistBounds, Indices
    <3>3. Consumed' + Dist(cons', i) = Consumed + Dist(cons, i)
      BY <1>5, <3>1, <3>2
    <3>4. mem[i] = kept[Consumed + Dist(cons, i)]
      BY <1>1, <3>1 DEF RingInv
    <3> QED
      BY <1>2, <3>3, <3>4
  <2>2. Consumed' >= 0
    BY <1>5, Indices
  <2>3. prod' # cons'
    BY <1>2, <1>3
  <2> QED
    BY <2>1, <2>2, <2>3 DEF RingInv
<1>9. CacheInv'
  BY <1>1, <1>2, <1>6 DEF CacheInv
<1>10. TransferInv'
  <2>1. RxFree' >= RxFree /\ RxFree' \in Int /\ RxFree \in Int
    <3>1. RxFree' = Straight(prod, nextCons)
      BY <1>2 DEF RxFree
    <3>2. Straight(prod, nextCons) \in Int
      BY <1>3, <1>4, StraightBounds
    <3> QED
      BY <1>4, <3>1, <3>2, Indices DEF RxFree
  <2>2. Receiving => dmaStart + dmaLen - lastpos <= RxFree'
    <3>1. Receiving => dmaStart + dmaLen - lastpos <= RxFree
      BY <1>1 DEF TransferInv
    <3> QED
      BY <2>1, <3>1, Indices
  <2>3. (Receiving' <=> Receiving) /\ (RxBusy' <=> RxBusy)
    BY <1>2 DEF Receiving, RxBusy
  <2> QED
    BY <1>1, <1>2, <2>2, <2>3 DEF TransferInv
<1>11. ReaderInv'
  <2>1. pc' # "idle" => left' > 0
    <3>1. left \in Nat
      BY <1>1 DEF TypeOK
    <3> QED
      BY <1>2, <1>3, <3>1
  <2>2. nextCons' = NextSlot(cons') /\ pc' \notin {"load", "advance"}
    BY <1>2
  <2>3. Len(got') = Consumed'
    BY <1>2, <1>3, <1>5
  <2> QED
    BY <1>1, <1>2, <2>1, <2>2, <2>3 DEF ReaderInv
<1> QED
  BY <1>7, <1>8, <1>9, <1>10, <1>11 DEF RxInv

LEMMA EvictLinePreserves == RxAssumption /\ RxInv /\ EvictLine => RxInv'
<1> SUFFICES ASSUME RxInv, NEW l \in resident, DropLines({l}),
                    UNCHANGED <<ringVars, driverVars, polling, isr, deviceVars,
                                rxIrq, mem, readerVars, streamVars>>
             PROVE  RxInv'
  BY DEF EvictLine
<1>1. TypeOK /\ RingInv /\ CacheInv /\ TransferInv /\ ReaderInv
  BY DEF RxInv
<1>2. /\ cache' = [i \in Slots |-> IF Line(i) \in {l} THEN 0 ELSE cache[i]]
      /\ resident' = resident \ {l}
      /\ UNCHANGED <<prod, cons, rxStarted, lastpos, polling, isr, dmaStart,
                     dmaLen, dmaCount, rxIrq, mem, pc, len, left, nextCons,
                     received, kept, published, got>>
  BY DEF DropLines, ringVars, driverVars, deviceVars, readerVars, streamVars
<1>3. TypeOK'
  <2>1. cache' \in [Slots -> Nat] /\ resident' \subseteq Lines
    BY <1>1, <1>2 DEF TypeOK
  <2> QED
    BY <1>1, <1>2, <2>1 DEF TypeOK
<1>4. RingInv' /\ ReaderInv'
  BY <1>1, <1>2 DEF RingInv, ReaderInv, Ready, Consumed, Unread
<1>5. TransferInv'
  BY <1>1, <1>2 DEF TransferInv, Receiving, RxBusy, RxFree
<1>6. CacheInv'
  <2>1. \A i \in Slots : Ready(i)' <=> Ready(i)
    BY <1>2 DEF Ready, Unread
  <2>2. \A i \in Slots : Line(i) \in resident' =>
          Line(i) \in resident /\ cache'[i] = cache[i]
    BY <1>2
  <2> QED
    BY <1>1, <1>2, <2>1, <2>2 DEF CacheInv
<1> QED
  BY <1>3, <1>4, <1>5, <1>6 DEF RxInv

LEMMA QuietStepPreserves ==
  RxAssumption /\ RxInv /\ (StopSubsystems \/ UNCHANGED vars) => RxInv'
<1> SUFFICES ASSUME RxInv, StopSubsystems \/ UNCHANGED vars PROVE RxInv'
  OBVIOUS
<1>1. TypeOK /\ RingInv /\ CacheInv /\ TransferInv /\ ReaderInv
  BY DEF RxInv
<1>2. /\ polling' \in BOOLEAN
      /\ UNCHANGED <<prod, cons, rxStarted, lastpos, isr, dmaStart, dmaLen,
                     dmaCount, rxIrq, mem, cache, resident, pc, len, left,
                     nextCons, received, kept, published, got>>
  BY <1>1 DEF StopSubsystems, vars, TypeOK, ringVars, driverVars, deviceVars,
              cacheVars, readerVars, streamVars
<1>3. TypeOK'
  BY <1>1, <1>2 DEF TypeOK
<1>4. RingInv' /\ CacheInv' /\ ReaderInv'
  BY <1>1, <1>2 DEF RingInv, CacheInv, ReaderInv, Ready, Consumed, Unread
<1>5. TransferInv'
  BY <1>1, <1>2 DEF TransferInv, Receiving, RxBusy, RxFree
<1> QED
  BY <1>3, <1>4, <1>5 DEF RxInv

LEMMA RxInvNext == RxAssumption /\ RxInv /\ [Next]_vars => RxInv'
<1> SUFFICES ASSUME RxAssumption, RxInv, [Next]_vars PROVE RxInv'
  OBVIOUS
<1>1. CASE ReceiveByte
  BY <1>1, ReceiveBytePreserves
<1>2. CASE EarlyInterrupt
  BY <1>2, EarlyInterruptPreserves
<1>3. CASE RxIntrUpdate
  BY <1>3, RxIntrUpdatePreserves
<1>4. CASE RxIntrRestart
  BY <1>4, RxIntrRestartPreserves
<1>5. CASE UartPoll
  BY <1>5, UartPollPreserves
<1>6. CASE \E n \in ReadLens : ReadCall(n)
  BY <1>6, ReadCallPreserves
<1>7. CASE ReaderStep
  BY <1>7, ReadCheckPreserves, ReadLoadPreserves, ReadAdvancePreserves
     DEF ReaderStep
<1>8. CASE EvictLine
  BY <1>8, EvictLinePreserves
<1>9. CASE StopSubsystems \/ UNCHANGED vars
  BY <1>9, QuietStepPreserves
<1> QED
  BY <1>1, <1>2, <1>3, <1>4, <1>5, <1>6, <1>7, <1>8, <1>9 DEF Next

-----------------------------------------------------------------------------
(***************************************************************************)
(* RxInv holds in every reachable state: the unread bytes are intact in    *)
(* memory and in the cache, and a transfer stays in the free slots         *)
(* (uart_rx_update, uart_rx_start, consprod_read).                         *)
(***************************************************************************)
THEOREM RxInvariant == Spec => []RxInv
<1>1. Init => RxInv
  BY RxAssumption, RxInvInit
<1>2. RxInv /\ [Next]_vars => RxInv'
  BY RxAssumption, RxInvNext
<1> QED
  BY <1>1, <1>2, PTL DEF Spec

(***************************************************************************)
(* Every variable keeps its type, so no transfer passes the ring's end.    *)
(***************************************************************************)
THEOREM RxTypeCorrect == Spec => []TypeOK
<1>1. RxInv => TypeOK
  BY DEF RxInv
<1> QED
  BY <1>1, RxInvariant, PTL

(***************************************************************************)
(* uart_read returns exactly the published bytes, in order.                *)
(***************************************************************************)
THEOREM RxReadsFaithfully == Spec => []RxFaithful
<1>1. RxInv => RxFaithful
  BY GotPublished DEF RxInv, ReaderInv, RxFaithful
<1> QED
  BY <1>1, RxInvariant, PTL

(***************************************************************************)
(* The UART never stores over a byte that uart_read has yet to return.     *)
(***************************************************************************)
THEOREM RxUartStaysOut == Spec => []RxNoOverwrite
<1>1. RxInv => RxNoOverwrite
  <2> SUFFICES ASSUME RxInv, RxBusy, NEW i \in Window
               PROVE  Dist(cons, i) >= Dist(cons, prod)
    BY DEF RxNoOverwrite
  <2>1. Receiving /\ lastpos = prod /\ Dist(cons, i) = Dist(cons, prod) + i - prod
    BY WindowIsFree
  <2>2. lastpos <= dmaStart + dmaCount
    BY <2>1 DEF RxInv, TransferInv
  <2>3. /\ cons \in Slots /\ prod \in Slots /\ dmaStart \in Slots
        /\ dmaLen \in Nat /\ dmaCount \in 0 .. dmaLen
    BY Indices
  <2>4. Dist(cons, prod) \in Int
    BY <2>3, DistBounds
  <2>5. i \in Int /\ i >= prod
    BY <2>1, <2>2, <2>3 DEF Window
  <2> QED
    BY <2>1, <2>3, <2>4, <2>5
<1> QED
  BY <1>1, RxInvariant, PTL

(***************************************************************************)
(* What a restart keeps: all of the published bytes and no others.         *)
(***************************************************************************)
LEMMA RestartKeepsPublished ==
  ASSUME RxInv, RxStart
  PROVE  \/ kept' = kept
         \/ kept' = SubSeq(kept, 1, published) /\ Len(kept') = published
<1>1. published \in Nat /\ published <= Len(kept) /\ kept \in Seq(Nat)
  BY Indices
<1>2. Len(SubSeq(kept, 1, published)) = published
  BY <1>1, SubSeqProperties
<1>3. CASE RxFree > 0
  BY <1>2, <1>3 DEF RxStart
<1>4. CASE ~(RxFree > 0)
  <2>1. UNCHANGED <<driverVars, deviceVars, kept>>
    BY <1>4 DEF RxStart
  <2> QED
    BY <2>1
<1> QED
  BY <1>3, <1>4

(***************************************************************************)
(* Only an interrupt handler that ran before its transfer was complete     *)
(* gives stored bytes up, and then none that it has published.             *)
(***************************************************************************)
THEOREM RxLosesOnlyInHandler == Spec => RxLossOnlyInHandler
<1>1. RxInv /\ [Next]_vars =>
        [Len(kept') < Len(kept) => /\ isr = "restart"
                                   /\ lastpos < dmaStart + dmaLen
                                   /\ Len(kept') = published]_vars
  <2> SUFFICES ASSUME RxInv, Next, Len(kept') < Len(kept)
               PROVE  /\ isr = "restart"
                      /\ lastpos < dmaStart + dmaLen
                      /\ Len(kept') = published
    OBVIOUS
  <2>1. Len(kept) \in Nat /\ published \in Nat /\ kept \in Seq(Nat)
    BY Indices
  <2>2. kept' # kept
    BY <2>1
  <2>3. CASE ReceiveByte
    <3>1. kept' = Append(kept, received + 1) /\ received + 1 \in Nat
      BY <2>3 DEF ReceiveByte, RxInv, TypeOK
    <3>2. Len(kept') = Len(kept) + 1
      BY <2>1, <3>1, AppendProperties
    <3> QED
      BY <2>1, <3>2
  <2>4. CASE UartPoll
    <3>1. RxStart /\ ~Receiving
      BY <2>4 DEF UartPoll, Receiving
    <3>2. Len(kept) = published
      BY <3>1 DEF RxInv, TransferInv
    <3> QED
      BY <2>1, <2>2, <3>1, <3>2, RestartKeepsPublished
  <2>5. CASE RxIntrRestart
    <3>1. RxStart /\ Receiving /\ isr = "restart"
      BY <2>5 DEF RxIntrRestart, Receiving
    <3>2. Len(kept') = published
      BY <2>2, <3>1, RestartKeepsPublished
    <3>3. Len(kept) = published + (dmaStart + dmaCount - lastpos)
      BY <3>1 DEF RxInv, TransferInv
    <3>4. /\ dmaStart \in Nat /\ dmaLen \in Nat /\ dmaCount \in 0 .. dmaLen
          /\ lastpos \in Nat
      BY Indices
    <3>5. lastpos < dmaStart + dmaLen
      BY <2>1, <3>2, <3>3, <3>4
    <3> QED
      BY <3>1, <3>2, <3>5
  <2>6. CASE UNCHANGED kept
    BY <2>2, <2>6
  <2> QED
    BY <2>3, <2>4, <2>5, <2>6
    DEF Next, EarlyInterrupt, RxIntrUpdate, ReadCall, ReaderStep, ReadCheck,
        ReadLoad, ReadAdvance, EvictLine, StopSubsystems, streamVars
<1> QED
  BY <1>1, RxInvariant, PTL DEF Spec, RxLossOnlyInHandler

-----------------------------------------------------------------------------
(***************************************************************************)
(* The published bytes as a sequence of their own.                         *)
(***************************************************************************)
LEMMA PublishedSeq ==
  ASSUME NEW s \in Seq(Nat), NEW n \in 0 .. Len(s)
  PROVE  /\ SubSeq(s, 1, n) \in Seq(Nat)
         /\ Len(SubSeq(s, 1, n)) = n
         /\ \A i \in 1 .. n : SubSeq(s, 1, n)[i] = s[i]
BY SubSeqProperties

(***************************************************************************)
(* UartRx implements the abstract FIFO of N - 2 bytes: the hand-over in    *)
(* the handler is its Put, the copy in consprod_read its Get.              *)
(***************************************************************************)
THEOREM RxImplementsFifo == Spec => RxIsFifo
<1> DEFINE handed == SubSeq(kept, 1, published)
<1>1. Init => Fifo!Init
  <2> SUFFICES ASSUME Init PROVE handed = <<>> /\ got = <<>>
    BY DEF Fifo!Init
  <2> QED
    BY SubSeqEmpty DEF Init
<1> DEFINE Typed == /\ kept \in Seq(Nat) /\ published \in 0 .. Len(kept)
                    /\ got \in Seq(Nat) /\ Len(got) <= published
                    /\ published - Len(got) <= N - 2
                    /\ \A i \in 1 .. Len(got) : got[i] = kept[i]
<1>2. RxInv => Typed
  <2> SUFFICES ASSUME RxInv PROVE Typed
    OBVIOUS
  <2>1. Len(got) <= published /\ Len(got) \in Nat
    BY GotPublished
  <2>2. Len(got) >= Consumed /\ \A i \in 1 .. Len(got) : got[i] = kept[i]
    BY Indices DEF RxInv, ReaderInv
  <2>3. Consumed + Unread = published /\ Unread \in 0 .. N - 2 /\ Consumed \in Nat
    BY Indices DEF Consumed
  <2>4. published - Len(got) <= N - 2
    BY <2>1, <2>2, <2>3, Indices
  <2> QED
    BY <2>1, <2>2, <2>4 DEF RxInv, TypeOK
<1>3. RxInv' => Typed'
  <2> HIDE DEF Typed
  <2> QED
    BY <1>2, PTL
<1>4. RxInv /\ RxInv' /\ [Next]_vars => [Fifo!Next]_(Fifo!fifoVars)
  <2> SUFFICES ASSUME RxInv, RxInv', [Next]_vars
               PROVE  [Fifo!Next]_(Fifo!fifoVars)
    OBVIOUS
  <2>1. Typed /\ Typed'
    BY <1>2, <1>3
  <2>2. /\ handed \in Seq(Nat) /\ Len(handed) = published
        /\ \A i \in 1 .. published : handed[i] = kept[i]
    BY <2>1, PublishedSeq
  <2>3. /\ handed' \in Seq(Nat) /\ Len(handed') = published'
        /\ \A i \in 1 .. published' : handed'[i] = kept'[i]
    BY <2>1, PublishedSeq
  <2> HIDE DEF handed
  <2>4. ASSUME published' = published, got' = got,
               \A i \in 1 .. published : kept'[i] = kept[i]
        PROVE  UNCHANGED <<handed, got>>
    BY <2>2, <2>3, <2>4, SeqEqual
  <2>5. CASE ReceiveByte
    <3>1. /\ kept' = Append(kept, received + 1) /\ received + 1 \in Nat
          /\ published' = published /\ got' = got
      BY <2>5 DEF ReceiveByte, RxInv, TypeOK
    <3>2. \A i \in 1 .. published : kept'[i] = kept[i]
      BY <2>1, <3>1, AppendProperties
    <3> QED
      BY <2>4, <3>1, <3>2 DEF Fifo!fifoVars, handed
  <2>6. CASE RxIntrUpdate
    <3>1. kept' = kept /\ got' = got
          /\ (published' = published \/ published' = Len(kept))
      BY <2>6 DEF RxIntrUpdate
    <3>2. CASE published' = published
      BY <2>4, <3>1, <3>2 DEF Fifo!fifoVars, handed
    <3>3. CASE published' > published
      <4>1. Len(handed') > Len(handed) /\ Len(handed') - Len(got) <= N - 2
        BY <2>1, <2>2, <2>3, <3>1, <3>3
      <4>2. \A i \in 1 .. published : handed[i] = handed'[i]
        <5>1. \A i \in 1 .. published : i \in 1 .. published'
          BY <2>1, <3>3
        <5> QED
          BY <2>2, <2>3, <3>1, <5>1
      <4>3. Fifo!Prefix(handed, handed')
        BY <2>1, <2>2, <2>3, <3>3, <4>2 DEF Fifo!Prefix
      <4> QED
        BY <3>1, <4>1, <4>3 DEF Fifo!Next, Fifo!Put, handed
    <3>4. published' >= published
      BY <2>1, <3>1
    <3> QED
      BY <2>1, <3>2, <3>3, <3>4
  <2>7. CASE RxIntrRestart \/ UartPoll
    <3>1. RxStart /\ published' = published /\ got' = got
      BY <2>7 DEF RxIntrRestart, UartPoll
    <3>2. kept' = kept \/ kept' = handed
      BY <3>1, RestartKeepsPublished DEF handed
    <3>3. \A i \in 1 .. published : kept'[i] = kept[i]
      BY <2>2, <3>2
    <3> QED
      BY <2>4, <3>1, <3>3 DEF Fifo!fifoVars, handed
  <2>8. CASE ReadLoad
    <3>1. /\ got' = Append(got, CpuSees(nextCons))
          /\ kept' = kept /\ published' = published
      BY <2>8 DEF ReadLoad
    <3>2. \A i \in Slots : CpuSees(i) \in Nat
      BY DEF RxInv, TypeOK, CpuSees
    <3>3. Len(got') = Len(got) + 1 /\ \A i \in 1 .. Len(got) : got'[i] = got[i]
      <4>1. CpuSees(nextCons) \in Nat
        BY <3>2 DEF RxInv, TypeOK
      <4> QED
        BY <2>1, <3>1, <4>1, AppendProperties
    <3>4. Fifo!Prefix(got, got')
      BY <2>1, <3>3 DEF Fifo!Prefix
    <3>5. Fifo!Prefix(got', handed)
      <4>1. Len(got') <= published /\ \A i \in 1 .. Len(got') : got'[i] = kept[i]
        BY <2>1, <3>1
      <4>2. Len(got') \in Nat /\ published \in Nat
        BY <2>1, <3>3
      <4>3. \A i \in 1 .. Len(got') : got'[i] = handed[i]
        BY <2>2, <4>1, <4>2
      <4> QED
        BY <2>2, <4>1, <4>3 DEF Fifo!Prefix
    <3>6. UNCHANGED handed
      BY <3>1 DEF handed
    <3> QED
      BY <3>3, <3>4, <3>5, <3>6 DEF Fifo!Next, Fifo!Get, handed
  <2>9. CASE UNCHANGED <<kept, published, got>>
    BY <2>9 DEF Fifo!fifoVars
  <2> QED
    BY <2>5, <2>6, <2>7, <2>8, <2>9
    DEF Next, vars, EarlyInterrupt, ReadCall, ReaderStep, ReadCheck,
        ReadAdvance, EvictLine, StopSubsystems, streamVars
<1> QED
  BY <1>1, <1>4, RxInvariant, PTL DEF Spec, RxIsFifo, Fifo!Spec

=============================================================================
