---------------------------- MODULE TimerProofs ----------------------------
(***************************************************************************)
(* Proofs about Timer, for every set of callbacks and tick counts: the     *)
(* inductive invariant TimerInv and the safety properties.                 *)
(***************************************************************************)
EXTENDS Timer, TLAPS

LEMMA TimerInvInit == TimerAssumption /\ Init => TimerInv
<1> SUFFICES ASSUME Init PROVE TimerInv
  OBVIOUS
<1>1. TypeOK
  BY DEF Init, TypeOK
<1>2. ArmedInv /\ NullCallNeedsRace
  BY DEF Init, ArmedInv, NullCallNeedsRace
<1>3. CallbackInv /\ CountInv
  BY DEF Init, CallbackInv, CountInv
<1> QED
  BY <1>1, <1>2, <1>3 DEF TimerInv

(***************************************************************************)
(* A tick that finds no callback due only counts.                          *)
(***************************************************************************)
LEMMA IntrIdlePreserves == TimerInv /\ IntrIdle => TimerInv'
<1> SUFFICES ASSUME TimerInv, IntrIdle PROVE TimerInv'
  OBVIOUS
<1>1. TypeOK /\ ArmedInv /\ CallbackInv /\ CountInv /\ NullCallNeedsRace
  BY DEF TimerInv
<1>2. /\ ~crashed /\ armed /\ armed' = TRUE /\ beat' = ~beat /\ ran' = Null
      /\ pc # "idle" => ~hit
      /\ hit' = (pc # "idle")
      /\ UNCHANGED <<maxTicks, callback, poll, pc, ticks, cb, crashed, slack>>
  BY DEF IntrIdle, Interrupt, Running, callVars
<1>3. \/ maxTicks > 0 /\ curTicks + 1 < maxTicks
         /\ curTicks' = curTicks + 1 /\ since' = since + 1
      \/ ~(maxTicks > 0) /\ curTicks' = curTicks /\ since' = since
  <2>1. maxTicks \in Nat /\ curTicks \in Nat
    BY <1>1, TimerAssumption DEF TypeOK, TimerAssumption
  <2> QED
    BY <2>1 DEF IntrIdle, Due
<1>4. TypeOK'
  <2>1. curTicks' \in Nat /\ since' \in Nat
    BY <1>1, <1>3 DEF TypeOK
  <2>2. hit' \in BOOLEAN /\ beat' \in BOOLEAN /\ armed' \in BOOLEAN
    BY <1>1, <1>2 DEF TypeOK
  <2> QED
    BY <1>1, <1>2, <2>1, <2>2 DEF TypeOK
<1>5. ArmedInv' /\ NullCallNeedsRace'
  BY <1>1, <1>2 DEF ArmedInv, NullCallNeedsRace
<1>6. CallbackInv'
  BY <1>1, <1>2 DEF CallbackInv
<1>7. CountInv'
  <2>1. curTicks \in Nat /\ since \in Nat /\ maxTicks \in Nat
    BY <1>1, TimerAssumption DEF TypeOK, TimerAssumption
  <2>2. ASSUME pc' \in {"max", "callback"}
        PROVE  curTicks' = 0 \/ (hit' /\ curTicks' = 1)
    <3>1. hit' /\ ~hit /\ pc \in {"max", "callback"}
      BY <1>2, <2>2
    <3>2. curTicks = 0
      BY <1>1, <3>1 DEF CountInv
    <3>3. curTicks' = 0 \/ curTicks' = 1
      BY <1>3, <3>2
    <3> QED
      BY <3>1, <3>3
  <2>3. ASSUME pc' = "idle", maxTicks' > 0
        PROVE  /\ curTicks' = since' \/ (slack' /\ curTicks' = since' + 1)
               /\ curTicks' < maxTicks'
    BY <1>1, <1>2, <1>3, <2>1, <2>3 DEF CountInv
  <2> QED
    BY <2>2, <2>3 DEF CountInv
<1> QED
  BY <1>4, <1>5, <1>6, <1>7 DEF TimerInv

(***************************************************************************)
(* A callback that is due while timer_enable_callback is between its last  *)
(* two stores is the old one, and the new count is 1.                      *)
(***************************************************************************)
LEMMA DueInCall ==
  ASSUME TimerInv, Interrupt, Due, pc = "callback"
  PROVE  ticks = 1
<1>1. maxTicks \in Nat /\ ticks \in Nat /\ curTicks \in Nat
  BY TimerAssumption DEF TimerInv, TypeOK, TimerAssumption
<1>2. ~hit
  BY DEF Interrupt
<1>3. curTicks = 0 /\ maxTicks = ticks
  BY <1>2 DEF TimerInv, CountInv, CallbackInv
<1> QED
  BY <1>1, <1>3 DEF Due

LEMMA IntrCallbackPreserves == TimerInv /\ IntrCallback => TimerInv'
<1> SUFFICES ASSUME TimerInv, IntrCallback PROVE TimerInv'
  OBVIOUS
<1>1. TypeOK /\ ArmedInv /\ CallbackInv /\ CountInv /\ NullCallNeedsRace
  BY DEF TimerInv
<1>2. /\ ~crashed /\ armed /\ armed' = TRUE /\ beat' = ~beat
      /\ maxTicks > 0 /\ callback # Null /\ ran' = callback
      /\ hit' = (pc # "idle")
      /\ curTicks' = 0 /\ since' = 0 /\ slack' = FALSE
      /\ UNCHANGED <<poll, pc, ticks, cb, crashed>>
  BY DEF IntrCallback, Interrupt, Running, callVars, Due
<1>3. /\ maxTicks' \in Ticks \cup {0} /\ callback' \in Callbacks \cup {Null}
      /\ maxTicks' > 0 => callback' # Null
  <2>1. CASE UNCHANGED <<maxTicks, callback>>
    BY <1>1, <1>2, <2>1 DEF TypeOK
  <2>2. CASE \E t \in Ticks, c \in Callbacks : maxTicks' = t /\ callback' = c
    BY <2>2, TimerAssumption DEF TimerAssumption
  <2>3. CASE maxTicks' = 0 /\ callback' = Null
    BY <2>3
  <2> QED
    BY <2>1, <2>2, <2>3 DEF IntrCallback
<1>4. TypeOK'
  <2>1. hit' \in BOOLEAN /\ beat' \in BOOLEAN
    BY <1>1, <1>2 DEF TypeOK
  <2> QED
    BY <1>1, <1>2, <1>3, <2>1 DEF TypeOK
<1>5. ArmedInv' /\ NullCallNeedsRace'
  BY <1>1, <1>2 DEF ArmedInv, NullCallNeedsRace
<1>6. CallbackInv'
  <2>1. pc = "callback" => ticks = 1
    BY DueInCall DEF IntrCallback
  <2>2. pc \notin {"stopTimer", "stopped", "off"}
    BY <1>1, <1>2 DEF CallbackInv
  <2> QED
    BY <1>1, <1>2, <1>3, <2>1, <2>2 DEF CallbackInv
<1>7. CountInv'
  <2>1. maxTicks' \in Nat
    BY <1>3, TimerAssumption DEF TimerAssumption
  <2> QED
    BY <1>2, <2>1 DEF CountInv
<1> QED
  BY <1>4, <1>5, <1>6, <1>7 DEF TimerInv

LEMMA IntrNullPreserves == TimerInv /\ IntrNull => TimerInv'
<1> SUFFICES ASSUME TimerInv, IntrNull PROVE TimerInv'
  OBVIOUS
<1>1. TypeOK /\ ArmedInv /\ CallbackInv /\ CountInv /\ NullCallNeedsRace
  BY DEF TimerInv
<1>2. /\ ~crashed /\ armed /\ armed' = FALSE /\ crashed' = TRUE
      /\ beat' = ~beat
      /\ maxTicks > 0 /\ callback = Null /\ curTicks' = 0
      /\ hit' = (pc # "idle")
      /\ UNCHANGED <<maxTicks, callback, poll, pc, ticks, cb, since, slack, ran>>
  BY DEF IntrNull, Interrupt, Running, callVars, Due
<1>3. TypeOK'
  <2>1. hit' \in BOOLEAN /\ beat' \in BOOLEAN
    BY <1>1, <1>2 DEF TypeOK
  <2> QED
    BY <1>1, <1>2, <2>1 DEF TypeOK
<1>4. pc = "callback" => ticks = 1
  BY DueInCall DEF IntrNull
<1>5. NullCallNeedsRace'
  <2>1. pc \notin {"idle", "cur", "max", "off", "stopTimer", "stopped"}
    BY <1>1, <1>2 DEF CallbackInv
  <2> QED
    BY <1>1, <1>2, <1>4, <2>1 DEF TypeOK, NullCallNeedsRace
<1>6. ArmedInv' /\ CallbackInv'
  BY <1>1, <1>2, <1>4 DEF ArmedInv, CallbackInv
<1>7. CountInv'
  BY <1>2 DEF CountInv
<1> QED
  BY <1>3, <1>5, <1>6, <1>7 DEF TimerInv

-----------------------------------------------------------------------------
LEMMA SubsystemStartPreserves == TimerInv /\ SubsystemStart => TimerInv'
<1> SUFFICES ASSUME TimerInv, SubsystemStart PROVE TimerInv'
  OBVIOUS
<1>1. TypeOK /\ ArmedInv /\ CallbackInv /\ CountInv /\ NullCallNeedsRace
  BY DEF TimerInv
<1>2. ~crashed
  BY <1>1 DEF NullCallNeedsRace, SubsystemStart
<1>3. TypeOK'
  BY <1>1 DEF TypeOK, SubsystemStart, ghostVars
<1> QED
  BY <1>1, <1>2, <1>3
  DEF TimerInv, ArmedInv, CallbackInv, CountInv, NullCallNeedsRace,
      SubsystemStart, ghostVars

LEMMA SetPollerPreserves ==
  TimerInv /\ (\E i \in Slots, f \in Pollers \cup {NoPoll} : SetPoller(i, f))
    => TimerInv'
<1> SUFFICES ASSUME TimerInv, NEW i \in Slots, NEW f \in Pollers \cup {NoPoll},
                    SetPoller(i, f)
             PROVE  TimerInv'
  OBVIOUS
<1>1. TypeOK'
  BY DEF TimerInv, TypeOK, SetPoller, fieldVars, callVars, ghostVars
<1> QED
  BY <1>1 DEF TimerInv, ArmedInv, CallbackInv, CountInv, NullCallNeedsRace,
              SetPoller, fieldVars, callVars, ghostVars

LEMMA EnableCallPreserves ==
  TimerInv /\ (\E t \in Ticks, c \in Callbacks \cup {Null} : EnableCall(t, c))
    => TimerInv'
<1> SUFFICES ASSUME TimerInv, NEW t \in Ticks, NEW c \in Callbacks \cup {Null},
                    EnableCall(t, c)
             PROVE  TimerInv'
  OBVIOUS
<1>1. TypeOK'
  BY DEF TimerInv, TypeOK, EnableCall, fieldVars, ghostVars
<1> QED
  BY <1>1 DEF TimerInv, ArmedInv, CallbackInv, CountInv, NullCallNeedsRace,
              EnableCall, Idle, fieldVars, ghostVars

LEMMA InCallPreserves == TimerInv /\ InCall => TimerInv'
<1> SUFFICES ASSUME TimerInv, InCall PROVE TimerInv'
  OBVIOUS
<1> USE DEF fieldVars, ghostVars
<1>1. TypeOK /\ ArmedInv /\ CallbackInv /\ CountInv /\ NullCallNeedsRace
  BY DEF TimerInv
<1>2. CASE EnableCur
  <2>1. TypeOK'
    BY <1>1, <1>2 DEF EnableCur, TypeOK
  <2> QED
    BY <1>1, <1>2, <2>1 DEF EnableCur, TimerInv, ArmedInv, CallbackInv,
                            CountInv, NullCallNeedsRace
<1>3. CASE EnableMax
  <2>1. TypeOK'
    BY <1>1, <1>3 DEF EnableMax, TypeOK
  <2> QED
    BY <1>1, <1>3, <2>1 DEF EnableMax, TimerInv, ArmedInv, CallbackInv,
                            CountInv, NullCallNeedsRace
<1>4. CASE EnableReturn
  <2>1. /\ pc = "callback" /\ pc' = "idle" /\ ~crashed /\ crashed' = crashed
        /\ callback' = cb /\ since' = 0 /\ slack' = hit
        /\ UNCHANGED <<maxTicks, curTicks, poll, armed, ticks, cb, hit, ran, beat>>
    BY <1>4 DEF EnableReturn
  <2>2. TypeOK'
    BY <1>1, <2>1 DEF TypeOK
  <2>3. ArmedInv' /\ CallbackInv' /\ NullCallNeedsRace'
    BY <1>1, <2>1 DEF ArmedInv, CallbackInv, NullCallNeedsRace
  <2>4. CountInv'
    <3>1. maxTicks \in Nat
      BY <1>1, TimerAssumption DEF TypeOK, TimerAssumption
    <3>2. curTicks = 0 \/ (hit /\ curTicks = 1)
      BY <1>1, <2>1 DEF CountInv
    <3> QED
      BY <2>1, <3>1, <3>2 DEF CountInv
  <2> QED
    BY <2>2, <2>3, <2>4 DEF TimerInv
<1>5. CASE StopMax
  <2>1. TypeOK'
    BY <1>1, <1>5 DEF StopMax, TypeOK
  <2> QED
    BY <1>1, <1>5, <2>1 DEF StopMax, TimerInv, ArmedInv, CallbackInv,
                            CountInv, NullCallNeedsRace
<1>6. CASE StopTimer
  <2>1. TypeOK'
    BY <1>1, <1>6 DEF StopTimer, TypeOK
  <2> QED
    BY <1>1, <1>6, <2>1 DEF StopTimer, TimerInv, ArmedInv, CallbackInv,
                            CountInv, NullCallNeedsRace
<1> QED
  BY <1>2, <1>3, <1>4, <1>5, <1>6 DEF InCall

LEMMA StopCallPreserves == TimerInv /\ StopCall => TimerInv'
<1> SUFFICES ASSUME TimerInv, StopCall PROVE TimerInv'
  OBVIOUS
<1>1. TypeOK'
  BY DEF TimerInv, TypeOK, StopCall, ghostVars
<1> QED
  BY <1>1 DEF TimerInv, ArmedInv, CallbackInv, CountInv, NullCallNeedsRace,
              StopCall, Idle, ghostVars

LEMMA TimerInvNext == TimerInv /\ [Next]_vars => TimerInv'
<1> SUFFICES ASSUME TimerInv, [Next]_vars PROVE TimerInv'
  OBVIOUS
<1>1. CASE UNCHANGED vars
  <2>1. TypeOK'
    BY <1>1 DEF TimerInv, TypeOK, vars, fieldVars, callVars, ghostVars
  <2> QED
    BY <1>1, <2>1
    DEF TimerInv, ArmedInv, CallbackInv, CountInv, NullCallNeedsRace, vars,
        fieldVars, callVars, ghostVars
<1> QED
  BY <1>1, IntrIdlePreserves, IntrCallbackPreserves, IntrNullPreserves,
     SubsystemStartPreserves, SetPollerPreserves, EnableCallPreserves,
     InCallPreserves, StopCallPreserves
  DEF Next, TimerIntr

-----------------------------------------------------------------------------
(***************************************************************************)
(* TimerInv holds in every reachable state: outside a call a count in      *)
(* force has a callback, and sc_cur_ticks counts the ticks since the       *)
(* callback was registered or called (timer_enable_callback,               *)
(* timer_intr_handler).                                                    *)
(***************************************************************************)
THEOREM TimerInvariant == Spec => []TimerInv
<1>1. Init => TimerInv
  BY TimerAssumption, TimerInvInit
<1>2. TimerInv /\ [Next]_vars => TimerInv'
  BY TimerInvNext
<1> QED
  BY <1>1, <1>2, PTL DEF Spec

(***************************************************************************)
(* The null callback is called only in the two races that the property     *)
(* names, whatever the counts and the callbacks are.                       *)
(***************************************************************************)
THEOREM TimerNullCalls == Spec => []NullCallNeedsRace
<1>1. TimerInv => NullCallNeedsRace
  BY DEF TimerInv
<1> QED
  BY <1>1, TimerInvariant, PTL

(***************************************************************************)
(* The callback is called on every sc_max_ticks-th tick, and at most one   *)
(* tick early the first time.                                              *)
(***************************************************************************)
THEOREM TimerPeriod == Spec => EveryNthTick
<1>1. TimerInv /\ [Next]_vars =>
        [IntrCallback /\ pc = "idle" =>
           since + 1 = maxTicks \/ (slack /\ since + 2 = maxTicks)]_vars
  <2> SUFFICES ASSUME TimerInv, IntrCallback, pc = "idle"
               PROVE  since + 1 = maxTicks \/ (slack /\ since + 2 = maxTicks)
    OBVIOUS
  <2>1. maxTicks \in Nat /\ curTicks \in Nat /\ since \in Nat
    BY TimerAssumption DEF TimerInv, TypeOK, TimerAssumption
  <2>2. maxTicks > 0 /\ curTicks + 1 >= maxTicks /\ ~crashed
    BY DEF IntrCallback, Due, Interrupt, Running
  <2>3. /\ curTicks = since \/ (slack /\ curTicks = since + 1)
        /\ curTicks < maxTicks \/ (slack /\ since = 0 /\ maxTicks = 1)
    BY <2>2 DEF TimerInv, CountInv
  <2> QED
    BY <2>1, <2>2, <2>3
<1> QED
  BY <1>1, TimerInvariant, PTL DEF Spec, EveryNthTick

(***************************************************************************)
(* timer_enable_callback leaves its count in force, except against a       *)
(* callback that is due in the middle of a call with the count 1.          *)
(***************************************************************************)
THEOREM TimerRegistration == Spec => RegistrationTaken
<1>1. TimerInv /\ [Next]_vars =>
        [EnableReturn => maxTicks = ticks \/ (hit /\ ticks = 1)]_vars
  BY DEF TimerInv, CallbackInv, EnableReturn
<1> QED
  BY <1>1, TimerInvariant, PTL DEF Spec, RegistrationTaken

=============================================================================
