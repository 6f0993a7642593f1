--------------------------- MODULE SpiTouchProofs ---------------------------
(***************************************************************************)
(* Proofs about SpiTouch: the inductive invariant TouchInv, and from it    *)
(* the properties of one transfer (TransceiveDone, SampleWhole) and of the *)
(* calls of the user's callback (LateOnce, ReleaseAfterPress).             *)
(***************************************************************************)
EXTENDS SpiTouch, TLAPS

LEMMA TouchInvInit == Init => TouchInv
<1> SUFFICES ASSUME Init PROVE TouchInv
  OBVIOUS
<1>1. TypeOK
  BY DEF Init, TypeOK, Users
<1>2. SampleInv /\ AloneInv /\ ReportInv
  BY DEF Init, SampleInv, AloneInv, ReportInv, InTransceive
<1> QED
  BY <1>1, <1>2 DEF TouchInv

(***************************************************************************)
(* A transfer is not None, and has a buffer and a length.                  *)
(***************************************************************************)
LEMMA TransferIsPair ==
  ASSUME NEW d \in Transfers
  PROVE  d # None /\ d[1] \in Users /\ d[2] \in Users
BY DEF Transfers, None

(***************************************************************************)
(* What the write of the second register leaves: the transfer that was     *)
(* under way, or the new one; only the new one if there was none.          *)
(***************************************************************************)
LEMMA BeginEffect ==
  ASSUME dma \in Transfers \cup {None}, NEW b \in Users, NEW l \in Users,
         Begin(b, l)
  PROVE  /\ dma' \in Transfers
         /\ dma' # None
         /\ dma = None => dma' = <<b, l>>
<1>1. <<b, l>> \in Transfers
  BY DEF Transfers
<1>2. dma' \in Transfers
  BY <1>1 DEF Begin
<1> QED
  BY <1>2, TransferIsPair DEF Begin

-----------------------------------------------------------------------------
(***************************************************************************)
(* The stores of spi_transceive.                                           *)
(***************************************************************************)
LEMMA TransceivePreserves ==
  TouchInv /\ (TransceiveCall \/ Transceive) => TouchInv'
<1> SUFFICES ASSUME TouchInv, TransceiveCall \/ Transceive PROVE TouchInv'
  OBVIOUS
<1> USE DEF TouchInv, TypeOK, SampleInv, AloneInv, ReportInv, Go, InTransceive,
            InTouchStart, spiVars, unitVars, touchVars, ghostVars
<1>1. CASE TransceiveCall
  BY <1>1 DEF TransceiveCall
<1>2. CASE TransceiveLast
  BY <1>2 DEF TransceiveLast, Users
<1>3. CASE TransceiveCtrl1
  BY <1>3 DEF TransceiveCtrl1, Users
<1>4. CASE TransceivePending
  BY <1>4 DEF TransceivePending, PendingSet
<1>5. CASE TransceiveCtrl2
  <2>1. /\ dma' \in Transfers /\ dma' # None
        /\ dma = None => dma' = <<ctrl1, "thread">>
    BY <1>5, BeginEffect DEF TransceiveCtrl2, Users
  <2> QED
    BY <1>5, <2>1 DEF TransceiveCtrl2
<1>6. CASE TransceiveTest
  BY <1>6 DEF TransceiveTest
<1>7. CASE TransceiveReturn
  BY <1>7 DEF TransceiveReturn
<1> QED
  BY <1>1, <1>2, <1>3, <1>4, <1>5, <1>6, <1>7 DEF Transceive

(***************************************************************************)
(* The stores of touch_start and touch_stop.                               *)
(***************************************************************************)
LEMMA TouchCallPreserves ==
  TouchInv /\ (TouchStart \/ TouchStop \/ TouchCall) => TouchInv'
<1> SUFFICES ASSUME TouchInv, TouchStart \/ TouchStop \/ TouchCall PROVE TouchInv'
  OBVIOUS
<1> USE DEF TouchInv, TypeOK, SampleInv, AloneInv, ReportInv, Go, InTransceive,
            InTouchStart, spiVars, unitVars, touchVars, ghostVars
<1>1. CASE TouchStart
  BY <1>1 DEF TouchStart
<1>2. CASE TouchStop
  <2>1. late' + (IF inProgress' THEN 1 ELSE 0) <= 1
    BY <1>2 DEF TouchStop
  <2> QED
    BY <1>2, <2>1 DEF TouchStop
<1>3. CASE StartFlag
  <2>1. ReportInv'
    BY <1>3 DEF StartFlag
  <2>2. TypeOK' /\ SampleInv' /\ AloneInv'
    BY <1>3 DEF StartFlag
  <2> QED
    BY <2>1, <2>2
<1>4. CASE StartState
  BY <1>4 DEF StartState
<1>5. CASE StartCb
  BY <1>5 DEF StartCb
<1>6. CASE StartPoll
  BY <1>6 DEF StartPoll
<1>7. CASE StopState
  BY <1>7 DEF StopState
<1> QED
  BY <1>1, <1>2, <1>3, <1>4, <1>5, <1>6, <1>7 DEF TouchCall

(***************************************************************************)
(* The unit.                                                               *)
(***************************************************************************)
LEMMA TransferEndsPreserves == TouchInv /\ TransferEnds => TouchInv'
<1> SUFFICES ASSUME TouchInv, TransferEnds PROVE TouchInv'
  OBVIOUS
<1> USE DEF TouchInv, TypeOK
<1>1. dma \in Transfers /\ dma' = None /\ irq'
  BY DEF TransferEnds
<1>2. data' \in {"commands", "answer", "mixed"}
  BY DEF TransferEnds
<1>3. TypeOK'
  BY <1>1, <1>2 DEF TransferEnds, spiVars
<1>4. SampleInv'
  <2>1. ASSUME inProgress, clean PROVE data' = "answer"
    BY <2>1 DEF TransferEnds, SampleInv
  <2> QED
    BY <1>1, <2>1 DEF TransferEnds, SampleInv, spiVars
<1>5. AloneInv'
  BY <1>1 DEF TransferEnds, AloneInv, InTransceive, spiVars
<1>6. ReportInv'
  BY DEF TransferEnds, ReportInv
<1> QED
  BY <1>3, <1>4, <1>5, <1>6

(***************************************************************************)
(* The handlers of the timer's and of the unit's interrupt.                *)
(***************************************************************************)
LEMMA TouchPollPreserves == TouchInv /\ TouchPoll => TouchInv'
<1> SUFFICES ASSUME TouchInv, TouchPoll PROVE TouchInv'
  OBVIOUS
<1> USE DEF TouchInv, TypeOK
<1>1. /\ dma' \in Transfers /\ dma' # None
      /\ dma = None => dma' = <<"touch", "touch">>
  BY BeginEffect DEF TouchPoll, Users
<1>2. data' \in {"commands", "mixed"} /\ (dma = None => data' = "commands")
  BY DEF TouchPoll, Fill
<1>3. TypeOK'
  BY <1>1, <1>2 DEF TouchPoll, Users
<1>4. SampleInv'
  BY <1>1, <1>2 DEF TouchPoll, SampleInv
<1>5. AloneInv'
  BY DEF TouchPoll, AloneInv
<1>6. ReportInv'
  BY DEF TouchPoll, ReportInv
<1> QED
  BY <1>3, <1>4, <1>5, <1>6

LEMMA SpiIntrPreserves == TouchInv /\ (SampleIntr \/ PlainIntr) => TouchInv'
<1> SUFFICES ASSUME TouchInv, SampleIntr \/ PlainIntr PROVE TouchInv'
  OBVIOUS
<1> USE DEF TouchInv, TypeOK
<1>1. SpiIntr
  BY DEF SampleIntr, PlainIntr
<1>2. AloneInv'
  BY <1>1 DEF SpiIntr, PendingCleared, AloneInv, InTransceive
<1>3. CASE SampleIntr
  <2>1. PICK down \in BOOLEAN : Evaluate(down)
    BY <1>3 DEF SampleIntr
  <2>2. inProgress /\ inProgress' = FALSE /\ pressed' = down
    BY <1>3, <2>1 DEF SampleIntr, Evaluate, FlagCleared
  <2>3. late' \in Nat /\ report' \in {"none", "pressed", "released"}
    BY <1>1, <2>1 DEF SpiIntr, Evaluate
  <2>4. TypeOK' /\ SampleInv'
    BY <1>1, <2>2, <2>3 DEF SpiIntr, PendingCleared, SampleInv
  <2>5. ReportInv'
    BY <1>1, <2>1, <2>2 DEF SpiIntr, Evaluate, Calls, ReportInv
  <2> QED
    BY <1>2, <2>4, <2>5
<1>4. CASE PlainIntr
  <2>1. TypeOK'
    BY <1>1, <1>4 DEF SpiIntr, PendingCleared, PlainIntr
  <2>2. SampleInv' /\ ReportInv'
    BY <1>1, <1>4 DEF SpiIntr, PlainIntr, SampleInv, ReportInv
  <2> QED
    BY <1>2, <2>1, <2>2
<1> QED
  BY <1>3, <1>4

LEMMA TouchInvNext == TouchInv /\ [Next]_vars => TouchInv'
<1>1. TouchInv /\ UNCHANGED vars => TouchInv'
  BY DEF vars, spiVars, unitVars, touchVars, ghostVars, TouchInv, TypeOK, SampleInv,
         AloneInv, ReportInv
<1> QED
  BY <1>1, TransceivePreserves, TouchCallPreserves, TransferEndsPreserves,
     TouchPollPreserves, SpiIntrPreserves DEF Next

(***************************************************************************)
(* A sample under way has its transfer or its interrupt to come, and a     *)
(* call of spi_transceive that found the unit at rest has it to itself     *)
(* until a sample begins: whatever the interrupts do between the stores of *)
(* spi.c 124 to 174 and spi_touch.c 59 to 136.                             *)
(***************************************************************************)
THEOREM TouchInvariant == Spec => []TouchInv
BY TouchInvInit, TouchInvNext, PTL DEF Spec

-----------------------------------------------------------------------------
(***************************************************************************)
(* After touch_stop the user's callback is called at most once more        *)
(* (spi_touch.c 67 and 119 to 123).                                        *)
(***************************************************************************)
THEOREM TouchLateOnce == Spec => []LateOnce
<1>1. TouchInv => LateOnce
  BY DEF TouchInv, TypeOK, ReportInv, LateOnce
<1> QED
  BY <1>1, TouchInvariant, PTL

(***************************************************************************)
(* spi_transceive that found the unit at rest, and in which no sample      *)
(* began, returns with its own transfer carried out, and drops its own     *)
(* buffer from the cache (spi.c 124 to 174).                               *)
(***************************************************************************)
THEOREM TransceiveIsDone == Spec => TransceiveDone
<1>1. TouchInv /\ TransceiveReturn /\ alone => carried /\ last = "thread" /\ dma = None
  BY DEF TouchInv, AloneInv, TransceiveReturn, Go, InTransceive
<1> QED
  BY <1>1, TouchInvariant, PTL DEF TransceiveDone

(***************************************************************************)
(* The user is told of a complete answer of the panel, if nothing else     *)
(* used the unit since its sample began (spi_touch.c 59 to 111).           *)
(***************************************************************************)
THEOREM SamplesAreWhole == Spec => SampleWhole
<1>1. TouchInv /\ SampleIntr /\ clean => data = "answer"
  BY DEF TouchInv, SampleInv, SampleIntr, SpiIntr
<1> QED
  BY <1>1, TouchInvariant, PTL DEF SampleWhole

(***************************************************************************)
(* A release is reported only after the press that it ends (spi_touch.c    *)
(* 70 to 73 and 103 to 109).                                               *)
(***************************************************************************)
THEOREM ReleaseFollowsPress == Spec => ReleaseAfterPress
<1>1. TouchInv /\ SampleIntr /\ ~pressed' /\ Calls(FALSE) =>
        report = "pressed" \/ pc \in {"flag", "state"}
  BY DEF TouchInv, TypeOK, ReportInv, Calls
<1> QED
  BY <1>1, TouchInvariant, PTL DEF ReleaseAfterPress

=============================================================================
