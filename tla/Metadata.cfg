SPECIFICATION Spec
CONSTANTS
  c1 = c1
  c2 = c2
  c3 = c3
  Clients = {c1, c2, c3}
  Types = {"DATASPACE", "BLEND_MODE", "CHROMA_SITING", "CROP", "SMPTE2086", "CTA861_3", "SMPTE2094_40", "SMPTE2094_10", "NAME"}
  SdkVersion = 33
  width = 1
  alloc_width = 2
  Capacity = 2
  Scalars = {0, 1, 256}
  Bytes = {1, 2}
  NoValue = NoValue
  Malformed = Malformed
  Mixed = Mixed
SYMMETRY Symmetry
CONSTRAINT AtMostTwoBusy
INVARIANTS TypeOK QuietGet RegularGet
