SPECIFICATION Spec
CONSTANTS
  Threads = {t1, t2}
  Addrs = {a1, a2, a3}
  Fds = {f1, f2, f3, f4, f5}
  Strides = {16, 64}
  NoAddr = NoAddr
  NoFd = NoFd
  NoId = NoId
  IdMod = 3
  MaxCount = 2
  MaxAllocs = 3
SYMMETRY Symmetry
INVARIANTS TypeOK NothingLeaked ReplyWhole IdsUnique
