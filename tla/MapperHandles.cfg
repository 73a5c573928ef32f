SPECIFICATION Spec
CONSTANTS
  Threads = {t1, t2, t3}
  Addrs = {a1, a2}
  Fds = {f1, f2, f3, f4}
  IntMax = 3
  Tails <- NegativeOrZero
  NoThread = NoThread
  NoAddr = NoAddr
  NoFd = NoFd
  MaxLocks = 0
  MaxResidue = 0
  Exclusive = FALSE
SYMMETRY Symmetry
INVARIANTS TypeOK FdsOwned HandlesLive AddNeverFails
