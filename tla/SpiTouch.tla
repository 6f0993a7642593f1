------------------------------ MODULE SpiTouch ------------------------------
(***************************************************************************)
(* One SPI unit (lib/driver/spi.c) and the touch panel driver on it        *)
(* (spi_touch.c).  The thread uses the unit through spi_transceive and     *)
(* starts and stops the panel; while it is started, a poller in the timer  *)
(* interrupt begins a sample whenever none is under way, and the unit's    *)
(* interrupt evaluates it.  The unit has no lock: who uses it while        *)
(* another does is for the properties to say.                              *)
(*                                                                         *)
(* The unit is given the buffer in its first control register and begins   *)
(* with the write of the second, of the length.                            *)
(***************************************************************************)
EXTENDS Integers

VARIABLES
  pc,         \* where the thread is
  cb,         \* sc_cb is intr_user_callback
  pending,    \* sc_io_pending
  last,       \* whose buffer is sc_last_buf
  ctrl1,      \* whose buffer is in the first control register
  dma,        \* the transfer under way, a buffer and a length, or None
  irq,        \* the unit requests its interrupt
  poll,       \* touch_poll is in its slot of poll_fn
  inProgress, \* TOUCH_FLAG_POLL_INPROGRESS in s_touch_flag
  pressed,    \* TOUCH_STATE_PRESSED in s_touch_state
  data,       \* s_io_data: "commands", the panel's "answer", or "mixed"
  (*  of no influence on the others: *)
  alone,      \* spi_transceive found the unit at rest, and no sample began since
  carried,    \* the unit has carried out the transfer of that call
  clean,      \* nothing else used the unit since the sample under way began
  late,       \* calls of the user's callback since touch_stop
  report      \* what the user's callback was last called with

spiVars == <<cb, pending, last, ctrl1>>
unitVars == <<dma, irq>>
touchVars == <<poll, inProgress, pressed, data>>
ghostVars == <<alone, carried, clean, late, report>>
vars == <<pc, spiVars, unitVars, touchVars, ghostVars>>

Users == {"thread", "touch"}
None == <<>>
Transfers == Users \X Users
InTransceive == {"last", "ctrl1", "pending", "ctrl2", "wait", "flush"}
InTouchStart == {"flag", "state", "setcb", "setpoll"}

Init ==
  /\ pc = "idle"
  /\ cb = FALSE /\ pending = 0 /\ last = "thread" /\ ctrl1 = "thread"
  /\ dma = None /\ irq = FALSE
  /\ poll = FALSE /\ inProgress = FALSE /\ pressed = FALSE /\ data = "commands"
  /\ alone = FALSE /\ carried = FALSE /\ clean = FALSE
  /\ late = 0 /\ report = "none"

-----------------------------------------------------------------------------
(***************************************************************************)
(* Fault variants of definitions below: the flag of the wait is forgotten; *)
(* the buffer is not filled again; the user is told of every sample; a     *)
(* handler does not clear its flag.                                        *)
(***************************************************************************)
PendingUnset == UNCHANGED pending
FillUnset == UNCHANGED data
CallsAlways(down) == TRUE
FlagKept == UNCHANGED inProgress
PendingKept == UNCHANGED pending

(***************************************************************************)
(* The write of the second register.  What the unit makes of one that      *)
(* comes during a transfer is not written down: it may keep to the old     *)
(* transfer or begin the new one.                                          *)
(***************************************************************************)
Begin(buf, len) == dma' \in (IF dma = None THEN {} ELSE {dma}) \cup {<<buf, len>>}

(***************************************************************************)
(* The end of a transfer.  A sample that was filled with commands when it  *)
(* began, and not touched since, becomes the panel's answer.               *)
(***************************************************************************)
TransferEnds ==
  /\ dma # None
  /\ dma' = None
  /\ irq' = TRUE
  /\ data' = CASE dma = <<"touch", "touch">> /\ data = "commands" -> "answer"
               [] dma[1] = "touch" /\ ~(dma[2] = "touch" /\ data = "commands") -> "mixed"
               [] OTHER -> data
  /\ carried' = (carried \/ dma = <<"thread", "thread">>)
  /\ UNCHANGED <<pc, spiVars, poll, inProgress, pressed, alone, clean, late, report>>

-----------------------------------------------------------------------------
(***************************************************************************)
(* spi_transceive, store by store.                                         *)
(***************************************************************************)
Go(from, to) == pc = from /\ pc' = to

TransceiveCall ==
  /\ Go("idle", "last")
  /\ alone' = (dma = None /\ ~irq)
  /\ carried' = FALSE
  /\ clean' = FALSE
  /\ UNCHANGED <<spiVars, unitVars, touchVars, late, report>>

TransceiveLast ==
  /\ Go("last", "ctrl1")
  /\ last' = "thread"
  /\ UNCHANGED <<cb, pending, ctrl1, unitVars, touchVars, ghostVars>>

TransceiveCtrl1 ==
  /\ Go("ctrl1", "pending")
  /\ ctrl1' = "thread"
  /\ UNCHANGED <<cb, pending, last, unitVars, touchVars, ghostVars>>

PendingSet == pending' = 1

TransceivePending ==
  /\ Go("pending", "ctrl2")
  /\ PendingSet
  /\ UNCHANGED <<cb, last, ctrl1, unitVars, touchVars, ghostVars>>

TransceiveCtrl2 ==
  /\ Go("ctrl2", "wait")
  /\ Begin(ctrl1, "thread")
  /\ UNCHANGED <<spiVars, irq, touchVars, ghostVars>>

\* spi_async_transceive_done finds the flag clear
TransceiveTest ==
  /\ Go("wait", "flush")
  /\ pending = 0
  /\ UNCHANGED <<spiVars, unitVars, touchVars, ghostVars>>

\* it drops the lines of sc_last_buf from the cache and returns 0
TransceiveReturn ==
  /\ Go("flush", "idle")
  /\ UNCHANGED <<spiVars, unitVars, touchVars, ghostVars>>

-----------------------------------------------------------------------------
(***************************************************************************)
(* touch_start.                                                            *)
(***************************************************************************)
TouchStart ==
  /\ Go("idle", "flag")
  /\ report' = "none"
  /\ UNCHANGED <<spiVars, unitVars, touchVars, alone, carried, clean, late>>

StartFlag ==
  /\ Go("flag", "state")
  /\ inProgress' = FALSE
  /\ UNCHANGED <<spiVars, unitVars, poll, pressed, data, ghostVars>>

StartState ==
  /\ Go("state", "setcb")
  /\ pressed' = FALSE
  /\ UNCHANGED <<spiVars, unitVars, poll, inProgress, data, ghostVars>>

StartCb ==
  /\ Go("setcb", "setpoll")
  /\ cb' = TRUE
  /\ UNCHANGED <<pending, last, ctrl1, unitVars, touchVars, ghostVars>>

StartPoll ==
  /\ Go("setpoll", "idle")
  /\ poll' = TRUE
  /\ late' = 0
  /\ UNCHANGED <<spiVars, unitVars, inProgress, pressed, data, alone, carried, clean, report>>

(***************************************************************************)
(* touch_stop.                                                             *)
(***************************************************************************)
TouchStop ==
  /\ Go("idle", "stop")
  /\ poll' = FALSE
  /\ UNCHANGED <<spiVars, unitVars, inProgress, pressed, data, ghostVars>>

StopState ==
  /\ Go("stop", "idle")
  /\ pressed' = FALSE
  /\ UNCHANGED <<spiVars, unitVars, poll, inProgress, data, ghostVars>>

-----------------------------------------------------------------------------
(***************************************************************************)
(* touch_poll, in the timer interrupt, if the flags are clear.             *)
(***************************************************************************)
Fill == data' = IF dma # None /\ dma[1] = "touch" THEN "mixed" ELSE "commands"

TouchPoll ==
  /\ poll /\ ~inProgress
  /\ Fill
  /\ inProgress' = TRUE
  /\ last' = "touch"
  /\ ctrl1' = "touch"
  /\ pending' = 1
  /\ Begin("touch", "touch")
  /\ clean' = (dma = None /\ ~irq /\ pc \notin InTransceive)
  /\ alone' = FALSE
  /\ UNCHANGED <<pc, cb, irq, poll, pressed, carried, late, report>>

(***************************************************************************)
(* intr_user_callback with a sample in progress: down is whether the       *)
(* sample is above PRESS_THRESHOLD.                                        *)
(***************************************************************************)
Calls(down) == down \/ pressed

FlagCleared == inProgress' = FALSE

Evaluate(down) ==
  /\ FlagCleared
  /\ pressed' = down
  /\ IF Calls(down)
     THEN /\ report' = IF down THEN "pressed" ELSE "released"
          /\ late' = IF poll THEN 0 ELSE late + 1
     ELSE UNCHANGED <<report, late>>

(***************************************************************************)
(* spi_intr_handler.                                                       *)
(***************************************************************************)
PendingCleared == pending' = 0

SpiIntr ==
  /\ irq
  /\ irq' = FALSE
  /\ PendingCleared
  /\ UNCHANGED <<pc, cb, last, ctrl1, dma, poll, data, alone, carried, clean>>

SampleIntr == cb /\ inProgress /\ SpiIntr /\ \E down \in BOOLEAN : Evaluate(down)

PlainIntr ==
  /\ ~(cb /\ inProgress)
  /\ SpiIntr
  /\ UNCHANGED <<inProgress, pressed, late, report>>

-----------------------------------------------------------------------------
Transceive ==
  \/ TransceiveLast \/ TransceiveCtrl1 \/ TransceivePending \/ TransceiveCtrl2
  \/ TransceiveTest \/ TransceiveReturn

TouchCall ==
  StartFlag \/ StartState \/ StartCb \/ StartPoll \/ StopState

Next ==
  \/ TransceiveCall \/ Transceive
  \/ TouchStart \/ TouchStop \/ TouchCall
  \/ TransferEnds \/ TouchPoll \/ SampleIntr \/ PlainIntr

(***************************************************************************)
(* Transfers end, interrupts are taken, the poller is called while it is   *)
(* registered (PollerRuns of Timer), and the thread gets through its       *)
(* calls; a wait for pending looks at it between two samples at last.      *)
(***************************************************************************)
Fairness ==
  /\ WF_vars(TransferEnds) /\ WF_vars(SampleIntr \/ PlainIntr)
  /\ WF_vars(TouchPoll)
  /\ WF_vars(Transceive \/ TouchCall) /\ SF_vars(TransceiveTest)

Spec == Init /\ [][Next]_vars /\ Fairness

-----------------------------------------------------------------------------
TypeOK ==
  /\ pc \in {"idle", "stop"} \cup InTransceive \cup InTouchStart
  /\ cb \in BOOLEAN /\ pending \in {0, 1} /\ last \in Users /\ ctrl1 \in Users
  /\ dma \in Transfers \cup {None} /\ irq \in BOOLEAN
  /\ poll \in BOOLEAN /\ inProgress \in BOOLEAN /\ pressed \in BOOLEAN
  /\ data \in {"commands", "answer", "mixed"}
  /\ alone \in BOOLEAN /\ carried \in BOOLEAN /\ clean \in BOOLEAN
  /\ late \in Nat /\ report \in {"none", "pressed", "released"}

(***************************************************************************)
(* A sample in progress has its transfer under way or its interrupt to     *)
(* come, and no other interrupt evaluates it if nothing else used the unit.*)
(***************************************************************************)
SampleInv ==
  /\ poll \/ pc = "setpoll" => cb
  /\ clean => pc \notin InTransceive
  /\ inProgress => cb /\ (dma # None \/ irq)
  /\ inProgress /\ clean =>
       \/ dma = <<"touch", "touch">> /\ ~irq /\ data = "commands"
       \/ dma = None /\ irq /\ data = "answer"

(***************************************************************************)
(* A call that found the unit at rest has it to itself until it returns or *)
(* a sample begins.                                                        *)
(***************************************************************************)
AloneInv ==
  pc \in InTransceive /\ alone =>
    /\ pc \in {"last", "ctrl1", "pending", "ctrl2"} => dma = None /\ ~irq /\ ~carried
    /\ pc \in {"ctrl1", "pending", "ctrl2", "wait", "flush"} => last = "thread"
    /\ pc \in {"pending", "ctrl2"} => ctrl1 = "thread"
    /\ pc = "ctrl2" => pending = 1
    /\ pc = "wait" => \/ dma = <<"thread", "thread">> /\ ~irq /\ pending = 1
                      \/ dma = None /\ carried /\ (irq <=> pending = 1)
    /\ pc = "flush" => dma = None /\ carried /\ ~irq

ReportInv ==
  /\ pressed => report = "pressed" \/ pc \in {"flag", "state"}
  /\ IF poll THEN late = 0 ELSE late + (IF inProgress THEN 1 ELSE 0) <= 1

TouchInv == TypeOK /\ SampleInv /\ AloneInv /\ ReportInv

(***************************************************************************)
(* spi_transceive returns when the unit has carried out its transfer, with *)
(* its own buffer, and the lines of that buffer are the ones it then drops *)
(* from the cache, if the unit was at rest when it was called and no       *)
(* sample began before it returned, whether or not the panel is started.   *)
(* So two transfers mix only in a call that begins during one, or in which *)
(* touch_poll begins one: spi.c 124 to 174 look at nothing before they     *)
(* begin.                                                                  *)
(***************************************************************************)
TransceiveDone ==
  [][TransceiveReturn /\ alone => carried /\ last = "thread" /\ dma = None]_vars

(***************************************************************************)
(* The user is told of a complete answer of the panel, if nothing else     *)
(* used the unit while it was sampled: neither the thread, nor a sample    *)
(* that a restart of the panel left under way (spi_touch.c 59 to 76).      *)
(***************************************************************************)
SampleWhole == [][SampleIntr /\ clean => data = "answer"]_vars

(***************************************************************************)
(* After touch_stop the user's callback is called once at most, for the    *)
(* sample that was under way, whoever uses the unit then (spi_touch.c 67   *)
(* and 119 to 123).                                                        *)
(***************************************************************************)
LateOnce == ~poll => late <= 1

(***************************************************************************)
(* A release is reported only after the press it ends, unless the panel is *)
(* being started anew in that moment (spi_touch.c 70 to 73 and 103 to 109).*)
(***************************************************************************)
ReleaseAfterPress ==
  [][SampleIntr /\ ~pressed' /\ Calls(FALSE) =>
       report = "pressed" \/ pc \in {"flag", "state"}]_vars

(***************************************************************************)
(* While the panel is started its samples come to an end again and again,  *)
(* also when the thread uses the unit (spi_touch.c 67 and 128 to 136).     *)
(***************************************************************************)
SamplesGoOn ==
  \/ []<>(~poll \/ pc \in InTouchStart)
  \/ []<><<SampleIntr>>_vars

(***************************************************************************)
(* spi_transceive returns, whatever the poller does with the unit          *)
(* (spi.c 71 to 77 and 163 to 174).                                        *)
(***************************************************************************)
TransceiveReturns == (pc = "wait") ~> (pc = "idle")

=============================================================================
