SPECIFICATION Spec
CONSTANTS
  Threads = {t1}
  Addrs = {a1}
  Fds = {f1, f2}
  IntMax = 3
  Tails <- Negative
  NoThread = NoThread
  NoAddr = NoAddr
  NoFd = NoFd
  MaxLocks = 1
  MaxResidue = 0
  Exclusive = TRUE
PROPERTIES UnlockServesHolder
