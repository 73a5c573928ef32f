-------------------------- MODULE MCBufferAllocator --------------------------
(* Instances of BufferAllocator for TLC.                                    *)
EXTENDS BufferAllocator, TLC

Symmetry == Permutations(Threads) \cup Permutations(Addrs) \cup Permutations(Fds)
=============================================================================
