CONSTANTS
  c1 = c1
  c2 = c2
  uart_poll = uart_poll
  Null = Null
  NoPoll = NoPoll
  Callbacks <- MCCallbacks
  Pollers <- MCPollers
  Ticks <- MCTicks
SPECIFICATION Spec
INVARIANTS
  NullCallNeedsRace
  TimerInv
PROPERTIES
  EveryNthTick
  RegistrationTaken
  CallbackRuns
  PollerRuns
CHECK_DEADLOCK FALSE
