SPECIFICATION FairSpec
CONSTANTS
  Threads = {t1, t2}
  Addrs = {a1}
  Fds = {f1, f2}
  IntMax = 3
  Tails <- NegativeOrZero
  NoThread = NoThread
  NoAddr = NoAddr
  NoFd = NoFd
  MaxLocks = 1
  MaxResidue = 1
  Exclusive = FALSE
PROPERTIES CallsReturn
