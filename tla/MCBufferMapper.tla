--------------------------- MODULE MCBufferMapper ---------------------------
(* Instances of BufferMapper for TLC.  The last int of a raw handle is     *)
(* uninitialised; a few of its values tell everything apart.               *)
EXTENDS BufferMapper, TLC

Symmetry == Permutations(Threads) \cup Permutations(Addrs) \cup Permutations(Fds)

\* A count that is lost at once, the right one, and one that is off by one and
\* that two locks raise beyond IntMax.
AnyTail == {-2, 0, 1}

\* Once its count is lost little is promised of a handle: two threads are enough.
AtMostTwoBusy ==
  lost = {} \/ Cardinality({t \in Threads : pc[t] # "idle"}) <= 2

NegativeOrZero == {-1, 0}
Negative == {-1}
=============================================================================
