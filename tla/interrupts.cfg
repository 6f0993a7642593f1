CONSTANTS
  Threads = {t0, t1}
  Main = t0
  NoThread = NoThread
  Junk = Junk
  Errnos <- MCErrnos
SPECIFICATION Spec
INVARIANTS
  IntrInv
  Resumes
  ErrnoOwnOrZero
PROPERTIES
  EdgeEndsWait
