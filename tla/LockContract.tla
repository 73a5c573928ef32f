---------------------------- MODULE LockContract ----------------------------
(***************************************************************************)
(* What the buffer mapper promises its clients, with every call taking     *)
(* effect at one instant: a handle is imported and freed, its buffer is    *)
(* mapped for the CPU once and stays mapped until the handle is freed, and *)
(* its locks are counted one by one.  No mutex, no descriptor, no thread   *)
(* and no intermediate step is visible here.  BufferMapper is shown to     *)
(* implement this specification.                                           *)
(*                                                                         *)
(* A count is lost when it starts negative or is raised beyond MaxCount.   *)
(* From then on, until the handle is freed, nothing is promised about it.  *)
(***************************************************************************)
EXTENDS Integers

CONSTANTS
  Handles,
  Counts,      \* what the count of locks of a new handle may start at
  MaxCount     \* how far locks are counted

VARIABLES
  imported,    \* handles a client may use
  mapped,      \* imported handles whose buffer the CPU can reach
  locks        \* how often each handle is locked, or Lost; 0 unless imported

cvars == <<imported, mapped, locks>>

Lost == -1

CInit ==
  /\ imported = {}
  /\ mapped = {}
  /\ locks = [h \in Handles |-> 0]

Import(h) ==
  /\ h \notin imported
  /\ imported' = imported \cup {h}
  /\ \E n \in Counts : locks' = [locks EXCEPT ![h] = IF n < 0 THEN Lost ELSE n]
  /\ UNCHANGED mapped

\* Whatever locks are left and whether or not the buffer is mapped.
Free(h) ==
  /\ h \in imported
  /\ imported' = imported \ {h}
  /\ mapped' = mapped \ {h}
  /\ locks' = [locks EXCEPT ![h] = 0]

Map(h) ==
  /\ h \in imported \ mapped
  /\ mapped' = mapped \cup {h}
  /\ UNCHANGED <<imported, locks>>

Lock(h) ==
  /\ h \in mapped
  /\ locks[h] # Lost
  /\ locks' = [locks EXCEPT ![h] = IF @ = MaxCount THEN Lost ELSE @ + 1]
  /\ UNCHANGED <<imported, mapped>>

Unlock(h) ==
  /\ h \in imported
  /\ locks[h] > 0
  /\ locks' = [locks EXCEPT ![h] = @ - 1]
  /\ UNCHANGED <<imported, mapped>>

CNext == \E h \in Handles : Import(h) \/ Free(h) \/ Map(h) \/ Lock(h) \/ Unlock(h)

CSpec == CInit /\ [][CNext]_cvars
=============================================================================
