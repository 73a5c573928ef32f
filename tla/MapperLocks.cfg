SPECIFICATION Spec
CONSTANTS
  Threads = {t1, t2, t3}
  Addrs = {a1}
  Fds = {f1, f2}
  IntMax = 2
  Tails <- AnyTail
  NoThread = NoThread
  NoAddr = NoAddr
  NoFd = NoFd
  MaxLocks = 2
  MaxResidue = 1
  Exclusive = FALSE
CONSTRAINT AtMostTwoBusy
SYMMETRY Symmetry
INVARIANTS MappingsOwned LockedIsMapped LockCountExact
PROPERTIES HolderNotRefused ImplementsContract
