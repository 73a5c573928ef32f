SPECIFICATION Spec
CONSTANTS
  c1 = c1
  c2 = c2
  c3 = c3
  Clients = {c1, c2}
  Types = {"CHROMA_SITING"}
  SdkVersion = 33
  width = 1
  alloc_width = 2
  Capacity = 2
  Scalars = {0, 1, 256}
  Bytes = {1, 2}
  NoValue = NoValue
  Malformed = Malformed
  Mixed = Mixed
INVARIANTS ReadBack
