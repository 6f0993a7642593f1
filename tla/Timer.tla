------------------------------- MODULE Timer -------------------------------
(***************************************************************************)
(* The system timer (lib/driver/timer.c): two poller slots that are called *)
(* on every tick, and one user callback that is called every sc_max_ticks  *)
(* ticks.                                                                  *)
(*                                                                         *)
(* timer_enable_callback and timer_subsystem_stop write the fields of      *)
(* timer_softc one after the other with interrupts enabled, so the timer   *)
(* interrupt comes between any two of their stores and finds the fields    *)
(* half written.  A handler and the callback it calls run with interrupts  *)
(* disabled: one step.                                                     *)
(*                                                                         *)
(* Ticks are TIMER_INTERVAL_TICKS = 655360 clocks apart and the calls are  *)
(* a few instructions long, so one call is interrupted by at most one      *)
(* tick.                                                                   *)
(***************************************************************************)
EXTENDS Integers

CONSTANTS Callbacks,  \* what the program registers with timer_enable_callback
          Pollers,    \* what the drivers register with timer_set_poller
          Ticks,      \* tick counts given to timer_enable_callback
          Null,       \* the null callback
          NoPoll      \* the function no_poll

ASSUME TimerAssumption ==
  /\ Ticks \subseteq Nat
  /\ Null \notin Callbacks
  /\ NoPoll \notin Pollers

VARIABLES
  maxTicks, curTicks, callback,   \* the fields of timer_softc
  poll,          \* poll_fn
  armed,         \* the timer control register is counting
  pc,            \* where the thread is
  ticks, cb,     \* the arguments of timer_enable_callback
  hit,           \* the call under way was interrupted
  crashed,       \* the handler has called the null callback
  since,         \* ticks since the callback was registered or last called
  slack,         \* the registration was interrupted and nothing called since
  ran,           \* the callback called at the last tick, if any
  beat           \* changes with every tick

fieldVars  == <<maxTicks, curTicks, callback>>
callVars   == <<pc, ticks, cb>>
ghostVars  == <<since, slack, ran, beat>>
vars == <<fieldVars, poll, armed, callVars, hit, crashed, ghostVars>>

Slots == {0, 1}

Running == ~crashed /\ armed

-----------------------------------------------------------------------------
(***************************************************************************)
(* The handler.                                                            *)
(***************************************************************************)

(***************************************************************************)
(* A fault variant, for testing the properties: the callback is called one *)
(* tick early.                                                             *)
(***************************************************************************)
DueEarly == maxTicks > 0 /\ curTicks + 1 >= maxTicks - 1

(***************************************************************************)
(* "sc_max_ticks && ++sc_cur_ticks >= sc_max_ticks".                       *)
(***************************************************************************)
Due == maxTicks > 0 /\ curTicks + 1 >= maxTicks

(***************************************************************************)
(* What every run of the handler does.  The first write to the control     *)
(* register takes the interrupt back and the last one starts the timer     *)
(* again; in between the pollers are called.                               *)
(***************************************************************************)
Interrupt ==
  /\ Running
  /\ pc # "idle" => ~hit
  /\ hit' = (pc # "idle")
  /\ beat' = ~beat
  /\ UNCHANGED <<poll, callVars>>

(***************************************************************************)
(* Fault variants, for testing the properties: the timer is not started    *)
(* again after a tick, or after a callback.                                *)
(***************************************************************************)
IntrIdleOnce ==
  /\ Interrupt
  /\ ~Due
  /\ curTicks' = IF maxTicks > 0 THEN curTicks + 1 ELSE curTicks
  /\ since' = IF maxTicks > 0 THEN since + 1 ELSE since
  /\ ran' = Null
  /\ armed' = FALSE
  /\ UNCHANGED <<maxTicks, callback, crashed, slack>>

IntrCallbackOnce ==
  /\ Interrupt
  /\ Due
  /\ callback # Null
  /\ ran' = callback
  /\ curTicks' = 0
  /\ since' = 0
  /\ slack' = FALSE
  /\ armed' = FALSE
  /\ UNCHANGED <<maxTicks, callback, crashed>>

IntrIdle ==
  /\ Interrupt
  /\ ~Due
  /\ curTicks' = IF maxTicks > 0 THEN curTicks + 1 ELSE curTicks
  /\ since' = IF maxTicks > 0 THEN since + 1 ELSE since
  /\ ran' = Null
  /\ armed' = TRUE
  /\ UNCHANGED <<maxTicks, callback, crashed, slack>>

(***************************************************************************)
(* The callback runs in the handler, and may register a callback itself.   *)
(***************************************************************************)
IntrCallback ==
  /\ Interrupt
  /\ Due
  /\ callback # Null
  /\ ran' = callback
  /\ curTicks' = 0
  /\ since' = 0
  /\ slack' = FALSE
  /\ \/ UNCHANGED <<maxTicks, callback>>
     \/ \E t \in Ticks, c \in Callbacks : maxTicks' = t /\ callback' = c
     \/ maxTicks' = 0 /\ callback' = Null
  /\ armed' = TRUE
  /\ UNCHANGED crashed

IntrNull ==
  /\ Interrupt
  /\ Due
  /\ callback = Null
  /\ crashed' = TRUE
  /\ curTicks' = 0
  /\ armed' = FALSE
  /\ UNCHANGED <<maxTicks, callback, since, slack, ran>>

TimerIntr == IntrIdle \/ IntrCallback \/ IntrNull

-----------------------------------------------------------------------------
(***************************************************************************)
(* The thread.                                                             *)
(***************************************************************************)
Idle == pc = "idle" /\ ~crashed

(***************************************************************************)
(* timer_subsystem_start, called by os_main before main: no tick comes     *)
(* before its last line.                                                   *)
(***************************************************************************)
SubsystemStart ==
  /\ pc = "off"
  /\ pc' = "idle"
  /\ callback' = Null
  /\ maxTicks' = 0
  /\ armed' = TRUE
  /\ UNCHANGED <<curTicks, poll, ticks, cb, hit, crashed, ghostVars>>

(***************************************************************************)
(* timer_set_poller for an index that exists; f = NoPoll stands for a null *)
(* argument.                                                               *)
(***************************************************************************)
SetPoller(i, f) ==
  /\ Idle
  /\ poll' = [poll EXCEPT ![i] = f]
  /\ UNCHANGED <<fieldVars, armed, callVars, hit, crashed, ghostVars>>

(***************************************************************************)
(* Fault variants, for testing the properties: the tick count of a null    *)
(* callback is not cleared, or ticks are counted from zero.                *)
(***************************************************************************)
EnableCallFromZero(t, c) ==
  /\ Idle
  /\ ticks' = IF c = Null THEN 0 ELSE t - 1
  /\ cb' = c
  /\ hit' = FALSE
  /\ pc' = "cur"
  /\ UNCHANGED <<fieldVars, poll, armed, crashed, ghostVars>>

EnableCallAnyTicks(t, c) ==
  /\ Idle
  /\ ticks' = t
  /\ cb' = c
  /\ hit' = FALSE
  /\ pc' = "cur"
  /\ UNCHANGED <<fieldVars, poll, armed, crashed, ghostVars>>

(***************************************************************************)
(* timer_enable_callback up to its first store, and its three stores.      *)
(***************************************************************************)
EnableCall(t, c) ==
  /\ Idle
  /\ ticks' = IF c = Null THEN 0 ELSE t
  /\ cb' = c
  /\ hit' = FALSE
  /\ pc' = "cur"
  /\ UNCHANGED <<fieldVars, poll, armed, crashed, ghostVars>>

EnableCur ==
  /\ pc = "cur" /\ ~crashed
  /\ curTicks' = 0
  /\ pc' = "max"
  /\ UNCHANGED <<maxTicks, callback, poll, armed, ticks, cb, hit, crashed,
                 ghostVars>>

EnableMax ==
  /\ pc = "max" /\ ~crashed
  /\ maxTicks' = ticks
  /\ pc' = "callback"
  /\ UNCHANGED <<curTicks, callback, poll, armed, ticks, cb, hit, crashed,
                 ghostVars>>

EnableReturn ==
  /\ pc = "callback" /\ ~crashed
  /\ callback' = cb
  /\ pc' = "idle"
  /\ since' = 0
  /\ slack' = hit
  /\ UNCHANGED <<maxTicks, curTicks, poll, armed, ticks, cb, hit, crashed, ran,
                 beat>>

(***************************************************************************)
(* timer_subsystem_stop, called by os_main when main has returned.         *)
(***************************************************************************)
StopCall ==
  /\ Idle
  /\ callback' = Null
  /\ hit' = FALSE
  /\ pc' = "stopMax"
  /\ UNCHANGED <<maxTicks, curTicks, poll, armed, ticks, cb, crashed, ghostVars>>

StopMax ==
  /\ pc = "stopMax" /\ ~crashed
  /\ maxTicks' = 0
  /\ pc' = "stopTimer"
  /\ UNCHANGED <<curTicks, callback, poll, armed, ticks, cb, hit, crashed,
                 ghostVars>>

StopTimer ==
  /\ pc = "stopTimer" /\ ~crashed
  /\ armed' = FALSE
  /\ pc' = "stopped"
  /\ UNCHANGED <<fieldVars, poll, ticks, cb, hit, crashed, ghostVars>>

-----------------------------------------------------------------------------
Init ==
  /\ maxTicks = 0 /\ curTicks = 0 /\ callback = Null
  /\ poll = [i \in Slots |-> NoPoll]
  /\ armed = FALSE
  /\ pc = "off"
  /\ ticks = 0 /\ cb = Null
  /\ hit = FALSE
  /\ crashed = FALSE
  /\ since = 0 /\ slack = FALSE
  /\ ran = Null /\ beat = FALSE

InCall == EnableCur \/ EnableMax \/ EnableReturn \/ StopMax \/ StopTimer

Next ==
  \/ TimerIntr
  \/ SubsystemStart
  \/ \E i \in Slots, f \in Pollers \cup {NoPoll} : SetPoller(i, f)
  \/ \E t \in Ticks, c \in Callbacks \cup {Null} : EnableCall(t, c)
  \/ InCall
  \/ StopCall

(***************************************************************************)
(* A timer that counts interrupts in the end, and the thread gets to the   *)
(* end of a call.                                                          *)
(***************************************************************************)
Fairness == WF_vars(TimerIntr) /\ WF_vars(InCall)

Spec == Init /\ [][Next]_vars /\ Fairness
-----------------------------------------------------------------------------
TypeOK ==
  /\ maxTicks \in Ticks \cup {0} /\ curTicks \in Nat
  /\ callback \in Callbacks \cup {Null}
  /\ poll \in [Slots -> Pollers \cup {NoPoll}]
  /\ armed \in BOOLEAN /\ hit \in BOOLEAN /\ crashed \in BOOLEAN
  /\ slack \in BOOLEAN
  /\ pc \in {"off", "idle", "cur", "max", "callback", "stopMax", "stopTimer",
             "stopped"}
  /\ ticks \in Ticks \cup {0} /\ cb \in Callbacks \cup {Null}
  /\ since \in Nat
  /\ ran \in Callbacks \cup {Null}
  /\ beat \in BOOLEAN

(***************************************************************************)
(* The handler calls the null callback in two places only: when it finds   *)
(* the new count of a first registration for every tick before the new     *)
(* callback is there (lines 98 and 99 of timer.c), and when it finds the   *)
(* callback cleared by timer_subsystem_stop with the count still set       *)
(* (lines 82 and 83).  A count of two or more, or a call that removes or   *)
(* replaces a callback, is safe at every interleaving.                     *)
(***************************************************************************)
NullCallNeedsRace ==
  crashed => (pc = "callback" /\ ticks = 1) \/ pc = "stopMax"

(***************************************************************************)
(* The callback is called on every sc_max_ticks-th tick, and the first     *)
(* time at most one tick early, if a tick came during its registration.    *)
(***************************************************************************)
EveryNthTick ==
  [][IntrCallback /\ pc = "idle" =>
       since + 1 = maxTicks \/ (slack /\ since + 2 = maxTicks)]_vars

(***************************************************************************)
(* timer_enable_callback leaves the count it was given in force, unless a  *)
(* tick found it already stored with the old callback, which was due at    *)
(* once and made a registration of its own.                                *)
(***************************************************************************)
RegistrationTaken ==
  [][EnableReturn => maxTicks = ticks \/ (hit /\ ticks = 1)]_vars

(***************************************************************************)
(* A registered callback is called, as long as the program leaves the      *)
(* timer alone (timer_intr_handler starts the timer again).                *)
(***************************************************************************)
CallbackRuns ==
  \A c \in Callbacks :
    (pc = "idle" /\ maxTicks > 0 /\ callback = c) ~> (ran = c \/ pc # "idle")

Gone == crashed \/ pc \in {"stopMax", "stopTimer", "stopped"}

(***************************************************************************)
(* A poller is called again and again until its slot is changed or the     *)
(* subsystem is stopped: what lets a UART be started by its poller.        *)
(***************************************************************************)
PollerRuns ==
  \A i \in Slots, f \in Pollers :
    \/ []<>(poll[i] # f \/ Gone)
    \/ []<><<TimerIntr /\ poll[i] = f>>_vars

-----------------------------------------------------------------------------
(***************************************************************************)
(* The inductive invariant.                                                *)
(*                                                                         *)
(* The timer counts from timer_subsystem_start to timer_subsystem_stop.    *)
(***************************************************************************)
ArmedInv == armed <=> ~crashed /\ pc \notin {"off", "stopped"}

(***************************************************************************)
(* A count in force has a callback, except between the stores of a call    *)
(* that registers the first callback or stops the subsystem.               *)
(***************************************************************************)
CallbackInv ==
  /\ pc \in {"idle", "cur", "max"} /\ maxTicks > 0 => callback # Null \/ crashed
  /\ pc \in {"cur", "max", "callback"} /\ ticks > 0 => cb # Null
  /\ pc = "callback" /\ maxTicks > 0 => cb # Null
  /\ pc = "callback" => maxTicks = ticks \/ (hit /\ ticks = 1)
  /\ pc \in {"stopTimer", "stopped", "off"} => maxTicks = 0

(***************************************************************************)
(* sc_cur_ticks counts the ticks since the registration or the last call   *)
(* of the callback, and one more after a registration that a tick came     *)
(* into.                                                                   *)
(***************************************************************************)
CountInv ==
  /\ pc \in {"max", "callback"} => curTicks = 0 \/ (hit /\ curTicks = 1)
  /\ pc = "idle" /\ maxTicks > 0 /\ ~crashed =>
       /\ curTicks = since \/ (slack /\ curTicks = since + 1)
       /\ curTicks < maxTicks \/ (slack /\ since = 0 /\ maxTicks = 1)

TimerInv == TypeOK /\ ArmedInv /\ CallbackInv /\ CountInv /\ NullCallNeedsRace

=============================================================================
