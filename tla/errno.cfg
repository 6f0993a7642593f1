CONSTANTS
  Threads = {t0}
  Main = t0
  NoThread = NoThread
  Junk = Junk
  Errnos <- MCErrnos
SPECIFICATION Spec
INVARIANT
  ErrnoKept
