SPECIFICATION Spec
CONSTANTS
  Threads = {t1}
  Addrs = {a1}
  Fds = {f1, f2}
  IntMax = 3
  Tails = {0}
  NoThread = NoThread
  NoAddr = NoAddr
  NoFd = NoFd
  MaxLocks = 2
  MaxResidue = 0
  Exclusive = FALSE
INVARIANTS CpuWriteSaysLocked
