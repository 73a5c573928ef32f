--------------------------- MODULE MCSharedMetadata ---------------------------
(* Instances of SharedMetadata for TLC.  0 and 1 are the chroma sitings None *)
(* and Unknown and 256 one of ARM's, and three dataspaces or blend modes,   *)
(* the first UNKNOWN or INVALID.                                            *)
EXTENDS SharedMetadata, FiniteSets, TLC

CONSTANTS c1, c2, c3

Symmetry == Permutations(Clients)

\* Three clients at a time only where a field is one word and its value is all
\* there is to an argument.
AtMostTwoBusy ==
  type \in {"DATASPACE", "BLEND_MODE"} \/ Cardinality({c \in Clients : pc[c] # "idle"}) <= 2
=============================================================================
