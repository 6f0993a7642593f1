----------------------------- MODULE Interrupts -----------------------------
(***************************************************************************)
(* The entry and the exit of an interrupt (lib/crt0/interrupt.S), with the *)
(* switch to another thread that os_handle_interrupt may ask for, the word *)
(* of newlib's struct _reent that this code saves and restores, and the    *)
(* wait of a thread for a GPIO interrupt (lib/driver/gpio.c).              *)
(*                                                                         *)
(* Interrupts are disabled from the entry to the exit, so that the entry,  *)
(* the handler and the exit are a step each.                               *)
(***************************************************************************)
EXTENDS Integers

CONSTANTS Threads,    \* thread_machine_state blocks; the sources have one,
                      \* interrupt.S is written for any number
          Main,       \* the thread at THREAD0_ADDR
          NoThread,   \* os_handle_interrupt returned 0
          Junk,       \* a register value of no thread
          Errnos      \* error numbers that calls set

ASSUME ThreadsAssumption ==
  /\ Main \in Threads /\ NoThread \notin Threads
  /\ Errnos \subseteq Int
  /\ \A t \in Threads, v \in {0, 1} : Junk # <<t, v>>

VARIABLES
  regs,       \* the registers of the processor
  block,      \* of every thread: the block that its registers are saved in
  curthread,  \* GTABLE_CURTHREAD
  mode,       \* who has the processor: "thread", or an interrupt that has
              \* been "entered" or "handled"
  tp,         \* register x4 from the entry to the exit: the thread whose block
              \* is in use, and that runs after the exit
  target,     \* what os_handle_interrupt returned
  errno,      \* the first word of g_REENT
  flag,       \* gpio_softc.sc_intr_pending
  mask,       \* the GPIO's interrupt is unmasked
  edge,       \* the GPIO requests an interrupt
  wait,       \* where Main is in gpio_wait_intr: "no", "armed", "spin"
  (*  of no influence on the others: *)
  ctx,        \* of every thread: what it last left in all its registers
  own         \* of every thread: its last error number

cpuVars == <<regs, block, curthread, mode, tp, target, ctx>>
gpioVars == <<flag, mask, edge, wait>>
vars == <<cpuVars, errno, own, gpioVars>>

(***************************************************************************)
(* Register x1 to x31; x0 is constant, and 0 stands for the program        *)
(* counter.  A thread writes its registers as a whole, alternating between *)
(* two values, which is enough to tell an old value from a new one.        *)
(***************************************************************************)
Regs == 0 .. 31
Values == (Threads \X {0, 1}) \cup {Junk}

\* A fault variant: x28 to x31 are forgotten at the exit.
RestoredOnExitFew == 0 .. 7 \cup 10 .. 17

(***************************************************************************)
(* The four lists of registers in interrupt.S, each with those that are    *)
(* handled apart (the program counter, x4 and x10).                        *)
(***************************************************************************)
SavedOnEntry == 0 .. 7 \cup 10 .. 17 \cup 28 .. 31
RestoredOnExit == 0 .. 7 \cup 10 .. 17 \cup 28 .. 31
SavedOnSwitch == {8, 9} \cup 18 .. 27
RestoredOnSwitch == {8, 9} \cup 18 .. 27

(***************************************************************************)
(* What a C function preserves for its caller.                             *)
(***************************************************************************)
CPreserved == {8, 9} \cup 18 .. 27

(***************************************************************************)
(* What crt0 loads from g_REENT into GTABLE_ICTX_REENT and the block of    *)
(* thread 0.  g_REENT is the structure itself, not a pointer to it, and    *)
(* its first member is _errno, which __init_reent has just cleared.        *)
(***************************************************************************)
ReentWord == 0

Init ==
  /\ regs = [r \in Regs |-> <<Main, 0>>]
  /\ block = [t \in Threads |-> [r \in Regs |-> IF t = Main THEN Junk ELSE <<t, 0>>]]
  /\ curthread = Main
  /\ mode = "thread" /\ tp = Main /\ target = NoThread
  /\ errno = 0
  /\ flag = 0 /\ mask = FALSE /\ edge = FALSE /\ wait = "no"
  /\ ctx = [t \in Threads |-> 0]
  /\ own = [t \in Threads |-> 0]

-----------------------------------------------------------------------------
(***************************************************************************)
(* The running thread.                                                     *)
(***************************************************************************)
Work ==
  /\ mode = "thread"
  /\ ctx' = [ctx EXCEPT ![tp] = 1 - @]
  /\ regs' = [r \in Regs |-> <<tp, 1 - ctx[tp]>>]
  /\ UNCHANGED <<block, curthread, mode, tp, target, errno, own, gpioVars>>

FailingCall(e) ==
  /\ mode = "thread"
  /\ errno' = e
  /\ own' = [own EXCEPT ![tp] = e]
  /\ UNCHANGED <<cpuVars, gpioVars>>

(***************************************************************************)
(* gpio_wait_intr, called by Main only: sets the flag, unmasks the         *)
(* interrupt, and looks at the flag until it is cleared.                   *)
(***************************************************************************)
WaitStep(from, to) ==
  /\ mode = "thread" /\ tp = Main
  /\ wait = from /\ wait' = to
  /\ UNCHANGED <<cpuVars, errno, own, edge>>

Arm == WaitStep("no", "armed") /\ flag' = 1 /\ UNCHANGED mask

\* A fault variant: the flag is set when the interrupt has been unmasked.
UnmaskFirst == WaitStep("armed", "spin") /\ mask' = TRUE /\ flag' = 1
Unmask == WaitStep("armed", "spin") /\ mask' = TRUE /\ UNCHANGED flag

WaitOver == flag = 0 /\ WaitStep("spin", "no") /\ UNCHANGED <<flag, mask>>

-----------------------------------------------------------------------------
(***************************************************************************)
(* A signal at the GPIO: it requests an interrupt if that is unmasked.     *)
(***************************************************************************)
GpioEdge ==
  /\ mask /\ ~edge
  /\ edge' = TRUE
  /\ UNCHANGED <<cpuVars, errno, own, flag, mask, wait>>

(***************************************************************************)
(* asm_handle_interrupt up to its call of os_handle_interrupt.             *)
(***************************************************************************)
Enter ==
  /\ mode = "thread"
  /\ mode' = "entered"
  /\ tp' = curthread
  /\ block' = [block EXCEPT ![curthread] =
                [r \in Regs |-> IF r \in SavedOnEntry THEN regs[r] ELSE @[r]]]
  /\ errno' = ReentWord
  /\ UNCHANGED <<regs, curthread, target, ctx, own, gpioVars>>

(***************************************************************************)
(* os_handle_interrupt.  A handler may leave an error number, and use the  *)
(* registers that a C function need not preserve.  The handlers of the     *)
(* sources return 0; one that returns a thread to switch to also has to    *)
(* store it in GTABLE_CURTHREAD, as interrupt.S does not.                  *)
(***************************************************************************)
Handle(t, e) ==
  /\ mode = "entered"
  /\ mode' = "handled"
  /\ target' = t
  /\ curthread' = IF t = NoThread THEN curthread ELSE t
  /\ errno' = e
  /\ regs' = [r \in Regs |-> IF r \in CPreserved THEN regs[r] ELSE Junk]
  /\ UNCHANGED <<block, tp, ctx, own>>

HandleOther(t, e) ==
  /\ Handle(t, e)
  /\ UNCHANGED gpioVars

\* gpio_intr_handler
HandleGpio(t, e) ==
  /\ edge
  /\ Handle(t, e)
  /\ flag' = 0
  /\ edge' = FALSE
  /\ UNCHANGED <<mask, wait>>

(***************************************************************************)
(* A fault variant: the handler's error number is left in place.           *)
(***************************************************************************)
RestoreButErrno(t, r0) ==
  /\ mode' = "thread"
  /\ UNCHANGED errno
  /\ regs' = [r \in Regs |-> IF r \in RestoredOnExit THEN block'[t][r] ELSE r0[r]]

(***************************************************************************)
(* restore_caller_register_and_switch, with the thread in x4 and what is   *)
(* then in the registers.                                                  *)
(***************************************************************************)
Restore(t, r0) ==
  /\ mode' = "thread"
  /\ errno' = ReentWord
  /\ regs' = [r \in Regs |-> IF r \in RestoredOnExit THEN block'[t][r] ELSE r0[r]]

Return ==
  /\ mode = "handled" /\ target = NoThread
  /\ UNCHANGED block
  /\ Restore(tp, regs)
  /\ UNCHANGED <<curthread, tp, target, ctx, own, gpioVars>>

\* A fault variant: the registers of the thread left behind are not saved.
SwitchUnsaved ==
  /\ mode = "handled" /\ target # NoThread
  /\ UNCHANGED block
  /\ tp' = target
  /\ Restore(target, [r \in Regs |-> IF r \in RestoredOnSwitch THEN block[target][r] ELSE regs[r]])
  /\ UNCHANGED <<curthread, target, ctx, own, gpioVars>>

(***************************************************************************)
(* save_callee_registers_and_switch.                                       *)
(***************************************************************************)
Switch ==
  /\ mode = "handled" /\ target # NoThread
  /\ block' = [block EXCEPT ![tp] =
                [r \in Regs |-> IF r \in SavedOnSwitch THEN regs[r] ELSE @[r]]]
  /\ tp' = target
  /\ Restore(target, [r \in Regs |-> IF r \in RestoredOnSwitch THEN block'[target][r] ELSE regs[r]])
  /\ UNCHANGED <<curthread, target, ctx, own, gpioVars>>

-----------------------------------------------------------------------------
ThreadStep ==
  \/ Work
  \/ \E e \in Errnos : FailingCall(e)
  \/ Arm \/ Unmask \/ WaitOver

HandlerStep ==
  \/ \E t \in Threads \cup {NoThread}, e \in Errnos : HandleOther(t, e) \/ HandleGpio(t, e)
  \/ Return \/ Switch

Next == ThreadStep \/ GpioEdge \/ Enter \/ HandlerStep

(***************************************************************************)
(* A handler gets to its end, a request of the GPIO is served, and Main    *)
(* goes on in gpio_wait_intr whenever it is given the processor.           *)
(***************************************************************************)
Fairness ==
  /\ WF_vars(HandlerStep)
  /\ SF_vars(edge /\ Enter)
  /\ SF_vars(\E t \in Threads \cup {NoThread}, e \in Errnos : HandleGpio(t, e))
  /\ SF_vars(Unmask) /\ SF_vars(WaitOver)

Spec == Init /\ [][Next]_vars /\ Fairness

-----------------------------------------------------------------------------
TypeOK ==
  /\ regs \in [Regs -> Values] /\ block \in [Threads -> [Regs -> Values]]
  /\ curthread \in Threads /\ tp \in Threads /\ target \in Threads \cup {NoThread}
  /\ mode \in {"thread", "entered", "handled"}
  /\ errno \in Int /\ own \in [Threads -> Int] /\ ctx \in [Threads -> {0, 1}]
  /\ flag \in {0, 1} /\ mask \in BOOLEAN /\ edge \in BOOLEAN
  /\ wait \in {"no", "armed", "spin"}

(***************************************************************************)
(* Where a thread's context is: all in the processor while it runs, all in *)
(* its block while it does not, and in two parts during an interrupt, when *)
(* the registers that the handler preserves have not been saved.           *)
(***************************************************************************)
Own(t) == <<t, ctx[t]>>

Suspended(t) == \A r \in Regs : block[t][r] = Own(t)

ContextInv ==
  /\ \A t \in Threads \ {tp} : Suspended(t)
  /\ mode = "thread" => /\ curthread = tp
                        /\ \A r \in Regs : regs[r] = Own(tp)
  /\ mode # "thread" => /\ \A r \in SavedOnEntry : block[tp][r] = Own(tp)
                        /\ \A r \in SavedOnSwitch : regs[r] = Own(tp)
  /\ mode = "entered" => curthread = tp
  /\ mode = "handled" => curthread = IF target = NoThread THEN tp ELSE target

\* Main looks at the flag only after it has unmasked the interrupt.
GpioInv == wait = "spin" => mask

IntrInv == TypeOK /\ ContextInv /\ GpioInv

(***************************************************************************)
(* A thread that has the processor finds every register and its place in   *)
(* the program as it left them, whatever interrupts and switches came in   *)
(* between (comments at interrupt.S 89 and 146; lines 87 to 221).          *)
(***************************************************************************)
Resumes == mode = "thread" => \A r \in Regs : regs[r] = <<tp, ctx[tp]>>

(***************************************************************************)
(* What a thread finds in errno is what its last call left there, or 0: no *)
(* error of a handler or of another thread reaches it (interrupt.S 132 to  *)
(* 135 and 155 to 157).                                                    *)
(***************************************************************************)
ErrnoOwnOrZero == mode = "thread" => errno \in {own[tp], 0}

(***************************************************************************)
(* What the comment at interrupt.S 146 says of the exit, and crt0.S 62 of  *)
(* thread 0: the thread gets back its g_REENT, errno with it.              *)
(***************************************************************************)
ErrnoKept == mode = "thread" => errno = own[tp]

(***************************************************************************)
(* A signal at the GPIO that comes while Main is in gpio_wait_intr, also   *)
(* when it comes between the two stores, lets it return, provided that     *)
(* Main is given the processor again and again (gpio.c 49 to 54).          *)
(***************************************************************************)
EdgeEndsWait ==
  (wait # "no" /\ edge) ~> (wait = "no" \/ [](tp # Main))

=============================================================================
