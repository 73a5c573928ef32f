SPECIFICATION Spec
CONSTANTS
  Threads = {t1, t2}
  Addrs = {a1}
  Fds = {f1, f2}
  IntMax = 3
  Tails <- AnyTail
  NoThread = NoThread
  NoAddr = NoAddr
  NoFd = NoFd
  MaxLocks = 1
  MaxResidue = 0
  Exclusive = TRUE
SYMMETRY Symmetry
INVARIANTS CpuWriteMeansLocked WritesFlushed
