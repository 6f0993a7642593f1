-------------------------- MODULE InterruptsProofs --------------------------
(***************************************************************************)
(* Proofs about Interrupts, for any number of threads: IntrInv is          *)
(* inductive, and it says where every register of every thread is.         *)
(***************************************************************************)
EXTENDS Interrupts, TLAPS

(***************************************************************************)
(* The lists of interrupt.S agree: what is restored was saved, every       *)
(* register is in one of the two halves, and the half that the entry does  *)
(* not save is preserved by the handler.                                   *)
(***************************************************************************)
LEMMA Lists ==
  /\ RestoredOnExit = SavedOnEntry
  /\ RestoredOnSwitch = SavedOnSwitch
  /\ SavedOnSwitch = CPreserved
  /\ \A r \in Regs : r \in SavedOnEntry \/ r \in SavedOnSwitch
  /\ \A r \in SavedOnSwitch : r \in Regs /\ r \notin SavedOnEntry
  /\ \A r \in SavedOnEntry : r \in Regs
<1>1. RestoredOnExit = SavedOnEntry /\ RestoredOnSwitch = SavedOnSwitch /\ SavedOnSwitch = CPreserved
  BY DEF RestoredOnExit, SavedOnEntry, RestoredOnSwitch, SavedOnSwitch, CPreserved
<1>2. \A r \in Regs : r \in SavedOnEntry \/ r \in SavedOnSwitch
  BY SMT DEF Regs, SavedOnEntry, SavedOnSwitch
<1>3. \A r \in SavedOnSwitch : r \in Regs /\ r \notin SavedOnEntry
  BY SMT DEF Regs, SavedOnEntry, SavedOnSwitch
<1>4. \A r \in SavedOnEntry : r \in Regs
  BY SMT DEF Regs, SavedOnEntry
<1> QED
  BY <1>1, <1>2, <1>3, <1>4

LEMMA InitInv == Init => IntrInv
<1> SUFFICES ASSUME Init PROVE IntrInv
  OBVIOUS
<1> USE DEF Init
<1>1. \A t \in Threads : <<t, 0>> \in Values
  BY DEF Values
<1>2. TypeOK
  <2>1. regs \in [Regs -> Values]
    BY <1>1, ThreadsAssumption
  <2>2. block \in [Threads -> [Regs -> Values]]
    <3>1. \A t \in Threads, r \in Regs : (IF t = Main THEN Junk ELSE <<t, 0>>) \in Values
      BY <1>1 DEF Values
    <3> QED
      BY <3>1
  <2>3. ctx \in [Threads -> {0, 1}] /\ own \in [Threads -> Int]
    OBVIOUS
  <2>4. mask \in BOOLEAN /\ edge \in BOOLEAN
    OBVIOUS
  <2>5. flag \in {0, 1} /\ errno \in Int
    OBVIOUS
  <2> HIDE DEF Init
  <2>6. curthread = Main /\ mode = "thread" /\ tp = Main /\ target = NoThread /\ wait = "no"
    BY DEF Init
  <2> QED
    BY <2>1, <2>2, <2>3, <2>4, <2>5, <2>6, ThreadsAssumption DEF TypeOK
<1>3. ContextInv
  <2>1. \A t \in Threads \ {tp} : Suspended(t)
    BY DEF Suspended, Own
  <2>2. \A r \in Regs : regs[r] = Own(tp)
    BY ThreadsAssumption DEF Own
  <2> QED
    BY <2>1, <2>2 DEF ContextInv
<1>4. GpioInv
  BY DEF GpioInv
<1> QED
  BY <1>2, <1>3, <1>4 DEF IntrInv

(***************************************************************************)
(* Steps that leave the processor and the blocks as they are.              *)
(***************************************************************************)
LEMMA ContextSame ==
  ASSUME ContextInv, UNCHANGED cpuVars
  PROVE  ContextInv'
BY DEF ContextInv, cpuVars, Suspended, Own

LEMMA WorkInv ==
  ASSUME IntrInv, Work
  PROVE  IntrInv'
<1> USE DEF Work
<1>1. tp \in Threads /\ ctx \in [Threads -> {0, 1}]
  BY DEF IntrInv, TypeOK
<1>2. ctx' \in [Threads -> {0, 1}] /\ ctx'[tp] = 1 - ctx[tp] /\ 1 - ctx[tp] \in {0, 1}
  BY <1>1
<1>3. \A t \in Threads \ {tp} : ctx'[t] = ctx[t]
  BY <1>1
<1>4. TypeOK'
  <2>1. <<tp, 1 - ctx[tp]>> \in Values
    BY <1>1, <1>2 DEF Values
  <2>2. regs' \in [Regs -> Values]
    BY <2>1
  <2> QED
    BY <2>2, <1>2 DEF IntrInv, TypeOK, gpioVars
<1>5. ContextInv'
  <2>1. \A t \in Threads \ {tp} : Suspended(t)'
    BY <1>3 DEF IntrInv, ContextInv, Suspended, Own
  <2>2. \A r \in Regs : regs'[r] = Own(tp)'
    BY <1>2 DEF Own
  <2> QED
    BY <2>1, <2>2 DEF IntrInv, ContextInv
<1>6. GpioInv'
  BY DEF IntrInv, GpioInv, gpioVars
<1> QED
  BY <1>4, <1>5, <1>6 DEF IntrInv

LEMMA CallInv ==
  ASSUME IntrInv, NEW e \in Errnos, FailingCall(e)
  PROVE  IntrInv'
<1> USE DEF FailingCall
<1>1. ContextInv'
  BY ContextSame DEF IntrInv
<1>2. TypeOK'
  <2>1. e \in Int
    BY ThreadsAssumption
  <2>2. own' \in [Threads -> Int]
    BY <2>1 DEF IntrInv, TypeOK
  <2> QED
    BY <2>1, <2>2 DEF IntrInv, TypeOK, cpuVars, gpioVars
<1> QED
  BY <1>1, <1>2 DEF IntrInv, GpioInv, gpioVars

LEMMA GpioStepsInv ==
  ASSUME IntrInv, Arm \/ Unmask \/ WaitOver \/ GpioEdge
  PROVE  IntrInv'
<1> USE DEF Arm, Unmask, WaitOver, WaitStep, GpioEdge
<1>1. ContextInv'
  BY ContextSame DEF IntrInv
<1>2. TypeOK'
  BY DEF IntrInv, TypeOK, cpuVars
<1>3. GpioInv'
  BY DEF IntrInv, GpioInv
<1> QED
  BY <1>1, <1>2, <1>3 DEF IntrInv

LEMMA EnterInv ==
  ASSUME IntrInv, Enter
  PROVE  IntrInv'
<1> USE DEF Enter
<1>1. /\ tp \in Threads /\ curthread = tp /\ tp' = tp /\ mode' = "entered"
      /\ regs \in [Regs -> Values] /\ block \in [Threads -> [Regs -> Values]]
      /\ \A r \in Regs : regs[r] = Own(tp)
      /\ \A t \in Threads \ {tp} : Suspended(t)
  BY DEF IntrInv, TypeOK, ContextInv
<1>2. \A t \in Threads : Own(t)' = Own(t)
  BY DEF Own
<1> DEFINE b == [r \in Regs |-> IF r \in SavedOnEntry THEN regs[r] ELSE block[tp][r]]
<1>3. b \in [Regs -> Values]
  BY <1>1
<1>4. block' = [block EXCEPT ![tp] = b]
  BY <1>1
<1> HIDE DEF b
<1>5. block' \in [Threads -> [Regs -> Values]] /\ block'[tp] = b
  BY <1>1, <1>3, <1>4
<1>6. \A t \in Threads \ {tp} : block'[t] = block[t]
  BY <1>1, <1>4
<1>7. TypeOK'
  BY <1>1, <1>5 DEF IntrInv, TypeOK, gpioVars, ReentWord
<1>8. ContextInv'
  <2>1. \A t \in Threads \ {tp} : Suspended(t)'
    BY <1>1, <1>2, <1>6 DEF Suspended
  <2>2. \A r \in SavedOnEntry : block'[tp][r] = Own(tp)
    BY <1>1, <1>5, Lists DEF b
  <2>3. \A r \in SavedOnSwitch : regs[r] = Own(tp)
    BY <1>1, Lists
  <2> QED
    BY <2>1, <2>2, <2>3, <1>1, <1>2 DEF ContextInv
<1>9. GpioInv'
  BY DEF IntrInv, GpioInv, gpioVars
<1> QED
  BY <1>7, <1>8, <1>9 DEF IntrInv

LEMMA HandleInv ==
  ASSUME IntrInv, NEW t \in Threads \cup {NoThread}, NEW e \in Errnos,
         HandleOther(t, e) \/ HandleGpio(t, e)
  PROVE  IntrInv'
<1>1. Handle(t, e)
  BY DEF HandleOther, HandleGpio
<1>2. /\ tp \in Threads /\ curthread = tp /\ tp' = tp
      /\ mode = "entered" /\ mode' = "handled" /\ target' = t
      /\ curthread' = IF t = NoThread THEN curthread ELSE t
      /\ regs \in [Regs -> Values]
      /\ regs' = [r \in Regs |-> IF r \in CPreserved THEN regs[r] ELSE Junk]
      /\ block' = block /\ ctx' = ctx /\ own' = own /\ errno' = e
  BY <1>1 DEF Handle, IntrInv, TypeOK, ContextInv
<1>3. regs' \in [Regs -> Values]
  BY <1>2 DEF Values
<1>4. \A r \in SavedOnSwitch : regs'[r] = regs[r]
  BY <1>2, Lists
<1>5. flag' \in {0, 1} /\ mask' = mask /\ edge' \in BOOLEAN /\ wait' = wait
  BY DEF HandleOther, HandleGpio, gpioVars, IntrInv, TypeOK
<1>6. TypeOK'
  <2>1. e \in Int
    BY ThreadsAssumption
  <2>2. curthread' \in Threads
    BY <1>2
  <2> QED
    BY <1>2, <1>3, <1>5, <2>1, <2>2 DEF IntrInv, TypeOK
<1>7. ContextInv'
  <2>1. \A u \in Threads : Own(u)' = Own(u) /\ Suspended(u)' = Suspended(u)
    BY <1>2 DEF Own, Suspended
  <2>2. curthread' = IF target' = NoThread THEN tp' ELSE target'
    BY <1>2
  <2>3. \A r \in SavedOnEntry : block'[tp'][r] = Own(tp)
    BY <1>2 DEF IntrInv, ContextInv
  <2>4. \A r \in SavedOnSwitch : regs'[r] = Own(tp)
    BY <1>2, <1>4 DEF IntrInv, ContextInv
  <2>5. \A u \in Threads \ {tp'} : Suspended(u)'
    BY <1>2, <2>1 DEF IntrInv, ContextInv
  <2> QED
    BY <2>1, <2>2, <2>3, <2>4, <2>5, <1>2 DEF ContextInv
<1>8. GpioInv'
  BY <1>5 DEF IntrInv, GpioInv
<1> QED
  BY <1>6, <1>7, <1>8 DEF IntrInv

LEMMA ReturnInv ==
  ASSUME IntrInv, Return
  PROVE  IntrInv'
<1> USE DEF Return
<1>1. /\ tp \in Threads /\ curthread = tp /\ tp' = tp /\ mode' = "thread"
      /\ regs \in [Regs -> Values] /\ block \in [Threads -> [Regs -> Values]]
      /\ block' = block /\ ctx' = ctx /\ curthread' = curthread
      /\ \A r \in SavedOnEntry : block[tp][r] = Own(tp)
      /\ \A r \in SavedOnSwitch : regs[r] = Own(tp)
      /\ \A t \in Threads \ {tp} : Suspended(t)
  BY DEF IntrInv, TypeOK, ContextInv, Restore
<1>2. regs' = [r \in Regs |-> IF r \in RestoredOnExit THEN block[tp][r] ELSE regs[r]]
  BY <1>1 DEF Restore
<1>3. regs' \in [Regs -> Values]
  BY <1>1, <1>2
<1>4. \A r \in Regs : regs'[r] = Own(tp)
  BY <1>1, <1>2, Lists
<1>5. \A t \in Threads : Own(t)' = Own(t) /\ Suspended(t)' = Suspended(t)
  BY <1>1 DEF Own, Suspended
<1>6. TypeOK'
  BY <1>1, <1>3 DEF IntrInv, TypeOK, gpioVars, Restore, ReentWord
<1>7. ContextInv'
  BY <1>1, <1>4, <1>5 DEF ContextInv
<1>8. GpioInv'
  BY DEF IntrInv, GpioInv, gpioVars
<1> QED
  BY <1>6, <1>7, <1>8 DEF IntrInv

LEMMA SwitchInv ==
  ASSUME IntrInv, Switch
  PROVE  IntrInv'
<1> USE DEF Switch
<1>1. /\ tp \in Threads /\ target \in Threads /\ curthread = target /\ tp' = target
      /\ curthread' = curthread /\ ctx' = ctx /\ mode' = "thread"
      /\ regs \in [Regs -> Values] /\ block \in [Threads -> [Regs -> Values]]
      /\ \A r \in SavedOnEntry : block[tp][r] = Own(tp)
      /\ \A r \in SavedOnSwitch : regs[r] = Own(tp)
      /\ \A t \in Threads \ {tp} : Suspended(t)
  BY DEF IntrInv, TypeOK, ContextInv, Restore
<1> DEFINE b == [r \in Regs |-> IF r \in SavedOnSwitch THEN regs[r] ELSE block[tp][r]]
<1>2. b \in [Regs -> Values] /\ \A r \in Regs : b[r] = Own(tp)
  BY <1>1, Lists
<1>3. block' = [block EXCEPT ![tp] = b]
  BY <1>1
<1> HIDE DEF b
<1>4. block' \in [Threads -> [Regs -> Values]] /\ block'[tp] = b
  BY <1>1, <1>2, <1>3
<1>5. \A t \in Threads \ {tp} : block'[t] = block[t]
  BY <1>1, <1>3
<1>6. \A t \in Threads, r \in Regs : block'[t][r] = Own(t)
  BY <1>1, <1>2, <1>4, <1>5 DEF Suspended
<1>7. regs' = [r \in Regs |-> IF r \in RestoredOnExit THEN block'[target][r] ELSE
                 [s \in Regs |-> IF s \in RestoredOnSwitch THEN block'[target][s] ELSE regs[s]][r]]
  BY DEF Restore
<1>8. \A r \in Regs : regs'[r] = block'[target][r]
  BY <1>1, <1>4, <1>7, Lists
<1>9. regs' \in [Regs -> Values]
  <2>1. regs' = [r \in Regs |-> block'[target][r]]
    BY <1>7, <1>8, Lists
  <2> QED
    BY <2>1, <1>1, <1>4
<1>10. \A t \in Threads : Own(t)' = Own(t)
  BY <1>1 DEF Own
<1>11. TypeOK'
  BY <1>1, <1>4, <1>9 DEF IntrInv, TypeOK, gpioVars, Restore, ReentWord
<1>12. ContextInv'
  <2>1. \A t \in Threads : Suspended(t)'
    BY <1>6, <1>10 DEF Suspended
  <2>2. \A r \in Regs : regs'[r] = Own(tp')
    BY <1>1, <1>6, <1>8
  <2> QED
    BY <1>1, <1>10, <2>1, <2>2 DEF ContextInv
<1>13. GpioInv'
  BY DEF IntrInv, GpioInv, gpioVars
<1> QED
  BY <1>11, <1>12, <1>13 DEF IntrInv

(***************************************************************************)
(* The registers and the program counter of every thread are in the        *)
(* processor or in its block, in every state (interrupt.S 87 to 221).      *)
(***************************************************************************)
THEOREM IntrInvariant == Spec => []IntrInv
<1>1. IntrInv /\ [Next]_vars => IntrInv'
  <2> SUFFICES ASSUME IntrInv, [Next]_vars PROVE IntrInv'
    OBVIOUS
  <2>1. CASE Work
    BY <2>1, WorkInv
  <2>2. CASE \E e \in Errnos : FailingCall(e)
    BY <2>2, CallInv
  <2>3. CASE Arm \/ Unmask \/ WaitOver \/ GpioEdge
    BY <2>3, GpioStepsInv
  <2>4. CASE Enter
    BY <2>4, EnterInv
  <2>5. CASE \E t \in Threads \cup {NoThread}, e \in Errnos : HandleOther(t, e) \/ HandleGpio(t, e)
    BY <2>5, HandleInv
  <2>6. CASE Return
    BY <2>6, ReturnInv
  <2>7. CASE Switch
    BY <2>7, SwitchInv
  <2>8. CASE UNCHANGED vars
    BY <2>8, ContextSame DEF vars, cpuVars, gpioVars, IntrInv, TypeOK, GpioInv
  <2> QED
    BY <2>1, <2>2, <2>3, <2>4, <2>5, <2>6, <2>7, <2>8 DEF Next, ThreadStep, HandlerStep
<1> QED
  BY <1>1, InitInv, PTL DEF Spec

(***************************************************************************)
(* A thread that has the processor finds all its registers as it left      *)
(* them (interrupt.S 87 to 221).                                           *)
(***************************************************************************)
THEOREM ThreadResumes == Spec => []Resumes
<1>1. IntrInv => Resumes
  BY DEF IntrInv, ContextInv, Resumes, Own
<1> QED
  BY <1>1, IntrInvariant, PTL

(***************************************************************************)
(* No error number of a handler or of another thread reaches a thread      *)
(* (interrupt.S 132 to 135 and 155 to 157).                                *)
(***************************************************************************)
THEOREM ErrnoSafe == Spec => []ErrnoOwnOrZero
<1>1. Init => ErrnoOwnOrZero
  BY DEF Init, ErrnoOwnOrZero
<1>2. IntrInv /\ ErrnoOwnOrZero /\ [Next]_vars => ErrnoOwnOrZero'
  <2> SUFFICES ASSUME IntrInv, ErrnoOwnOrZero, [Next]_vars PROVE ErrnoOwnOrZero'
    OBVIOUS
  <2> USE DEF ErrnoOwnOrZero
  <2>1. CASE Work
    BY <2>1 DEF Work
  <2>2. CASE \E e \in Errnos : FailingCall(e)
    BY <2>2 DEF FailingCall, cpuVars, IntrInv, TypeOK
  <2>3. CASE Arm \/ Unmask \/ WaitOver \/ GpioEdge
    BY <2>3 DEF Arm, Unmask, WaitOver, WaitStep, GpioEdge, cpuVars
  <2>4. CASE Enter
    BY <2>4 DEF Enter
  <2>5. CASE \E t \in Threads \cup {NoThread}, e \in Errnos : HandleOther(t, e) \/ HandleGpio(t, e)
    BY <2>5 DEF HandleOther, HandleGpio, Handle
  <2>6. CASE Return
    BY <2>6 DEF Return, Restore, ReentWord
  <2>7. CASE Switch
    BY <2>7 DEF Switch, Restore, ReentWord
  <2>8. CASE UNCHANGED vars
    BY <2>8 DEF vars, cpuVars
  <2> QED
    BY <2>1, <2>2, <2>3, <2>4, <2>5, <2>6, <2>7, <2>8 DEF Next, ThreadStep, HandlerStep
<1> QED
  BY <1>1, <1>2, IntrInvariant, PTL DEF Spec

=============================================================================
