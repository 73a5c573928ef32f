----------------------- MODULE BufferMapperRefinement -----------------------
(***************************************************************************)
(* BufferMapper implements LockContract, for every number of threads,      *)
(* handles and descriptors: its initial states map to initial states of    *)
(* the contract, and each of its steps to one step of it or to none.       *)
(***************************************************************************)
EXTENDS BufferMapperProofs

\* The count a handle is registered with is the one its raw handle held.
NewCounts ==
  \A t \in Threads : pc[t] \in {"attr", "add"} => lock_count[buf[t]] \in Tails

\* From the copy of the fields to the registration no other call changes the
\* handle's count: its owner is the only one to reach it.
LEMMA NewCountsStep ==
  ASSUME TypeOK, Ownership, NewCounts,
         NEW t \in Threads, ClientCall(t) \/ Step(t)
  PROVE  NewCounts'
<1> USE DEF TypeOK, Ownership, NewCounts, Call, Goto, Return, ReturnAtOnce, regVars,
        resVars, clientVars, hndVars, fdFields, mapFields, OwnLabels, UseLabels,
        ImportLabels, FreeLabels, LockLabels, UnlockLabels, CacheLabels
<1>1. CASE ClientCall(t)
  BY <1>1 DEF ClientCall, ImportInvalid, ImportNoMemory, ImportCreate, FreeRemove,
     CallUnregistered, LockBadFence, LockStart, UnlockStart, UnlockNotLocked,
     UnlockResidue, FlushStart, RereadStart, MetadataStart, DumpStart
<1>2. CASE ImportStep(t)
  <2>1. CASE ImportDup0(t)
    BY <2>1 DEF ImportDup0
  <2>2. CASE ImportDup1(t)
    BY <2>2 DEF ImportDup1
  <2>3. CASE ImportFail(t)
    BY <2>3 DEF ImportFail, DeleteHandle, ForgetHandle
  <2>4. CASE ImportMapAttr(t)
    BY <2>4 DEF ImportMapAttr
  <2>5. CASE ImportAdd(t)
    BY <2>5 DEF ImportAdd, DeleteHandle, ForgetHandle
  <2>6. QED
    BY <1>2, <2>1, <2>2, <2>3, <2>4, <2>5 DEF ImportStep
<1>3. CASE FreeStep(t)
  BY <1>3 DEF FreeStep, FreeUnmap, FreeRelease, FreeDelete, DeleteHandle, ForgetHandle
<1>4. CASE LockStep(t)
  BY <1>4 DEF LockStep, LockCheck, LockValid, LockInvalid, LockMapTest, LockMmap,
     LockMmapFail, LockCount, LockFlag, LockSyncStart
<1>5. CASE UnlockStep(t)
  BY <1>5 DEF UnlockStep, UnlockCheck, UnlockSyncEnd, UnlockSyncEndFail, UnlockTest,
     UnlockDecrement, UnlockStore, UnlockLast, UnlockClear
<1>6. CASE CacheStep(t)
  BY <1>6 DEF CacheStep, FlushCheck, FlushSyncEnd, RereadCheck, RereadSyncStart,
     MetadataAccess, DumpVisit, DumpEnd
<1>7. QED
  BY <1>1, <1>2, <1>3, <1>4, <1>5, <1>6 DEF Step

-----------------------------------------------------------------------------
\* What the contract sees of a state.
Mapped == {h \in pool : base[h] # "nullptr"}
Locks == [h \in Addrs |-> IF h \notin pool THEN 0 ELSE IF h \in lost THEN -1
                                                      ELSE lock_count[h]]
Unseen == pool' = pool /\ Mapped' = Mapped /\ Locks' = Locks

\* Two functions that differ at one argument only.
LEMMA Override ==
  ASSUME NEW S, NEW f, NEW g, NEW b \in S, NEW v,
         f = [x \in S |-> f[x]], g = [x \in S |-> g[x]],
         g[b] = v, \A x \in S : x # b => g[x] = f[x]
  PROVE  g = [f EXCEPT ![b] = v]
OBVIOUS

\* The calls a client begins: only freeBuffer takes effect at once.
LEMMA ClientCallRefines ==
  ASSUME IInv, NEW t \in Threads, ClientCall(t)
  PROVE  Unseen \/ \E h \in Addrs : Contract!Free(h)
<1> USE DEF IInv, TypeOK, Ownership, Unseen, Mapped, Locks, Call, ReturnAtOnce, regVars,
        resVars, clientVars, hndVars, fdFields, mapFields
<1>1. CASE ImportCreate(t)
  BY <1>1 DEF ImportCreate
<1>2. CASE FreeRemove(t)
  <2>1. PICK h \in Addrs : h \in pool /\ pool' = pool \ {h}
                             /\ lock_count' = lock_count /\ base' = base
                             /\ lost' = lost \ {h}
    BY <1>2 DEF FreeRemove, Registered
  <2>2. Mapped' = Mapped \ {h}
    BY <2>1
  <2>3. Locks' = [Locks EXCEPT ![h] = 0]
    BY <2>1
  <2>4. QED
    BY <2>1, <2>2, <2>3 DEF Contract!Free, Mapped, Locks
<1>3. QED
  BY ONLY ClientCall(t), <1>1, <1>2 DEF ClientCall, ImportInvalid, ImportNoMemory,
     CallUnregistered, LockBadFence, LockStart, UnlockStart, UnlockNotLocked,
     UnlockResidue, FlushStart, RereadStart, MetadataStart, DumpStart,
     Unseen, Mapped, Locks, Call, ReturnAtOnce, regVars, resVars, clientVars, hndVars,
     fdFields, mapFields

\* An import is seen when it registers its handle, a free no more once it has
\* removed it.
LEMMA OwnerRefines ==
  ASSUME IInv, NewCounts, NEW t \in Threads, ImportStep(t) \/ FreeStep(t)
  PROVE  Unseen \/ \E h \in Addrs : Contract!Import(h)
<1> USE DEF IInv, TypeOK, Ownership, Unseen, Mapped, Locks, Goto, Return, regVars,
        resVars, clientVars, hndVars, fdFields, mapFields, OwnLabels, ImportLabels,
        FreeLabels
<1>1. CASE ImportDup0(t)
  BY <1>1 DEF ImportDup0
<1>2. CASE ImportDup1(t)
  BY <1>2 DEF ImportDup1
<1>3. CASE ImportFail(t)
  BY <1>3 DEF ImportFail, DeleteHandle, ForgetHandle
<1>4. CASE ImportMapAttr(t)
  BY <1>4 DEF ImportMapAttr
<1>5. CASE ImportAdd(t)
  <2>1. /\ buf[t] \in Addrs \ pool
        /\ lock_count[buf[t]] \in Tails
        /\ base[buf[t]] = "nullptr"
        /\ buf[t] \in lost <=> lock_count[buf[t]] < 0
    BY <1>5 DEF ImportAdd, NewCounts, Mappings, Counts
  <2>2. /\ pool' = pool \cup {buf[t]} /\ lock_count' = lock_count /\ base' = base
        /\ lost' = lost
    BY <1>5, <2>1 DEF ImportAdd
  <2>3. Mapped' = Mapped
    BY <2>1, <2>2
  <2>4. Locks' = [Locks EXCEPT ![buf[t]] =
                    IF lock_count[buf[t]] < 0 THEN -1 ELSE lock_count[buf[t]]]
    <3>1. Locks'[buf[t]] = IF lock_count[buf[t]] < 0 THEN -1 ELSE lock_count[buf[t]]
      BY ONLY <2>1, <2>2 DEF Locks
    <3>2. \A h \in Addrs : h # buf[t] => Locks'[h] = Locks[h]
      BY ONLY <2>1, <2>2 DEF Locks
    <3>3. Locks = [h \in Addrs |-> Locks[h]] /\ Locks' = [h \in Addrs |-> Locks'[h]]
      BY ONLY DEF Locks
    <3> HIDE DEF Locks
    <3>4. buf[t] \in Addrs
      BY <2>1
    <3>5. QED
      BY ONLY <3>1, <3>2, <3>3, <3>4, Override
  <2>5. QED
    BY <2>1, <2>2, <2>3, <2>4 DEF Contract!Import, Contract!Lost, Mapped, Locks
<1>6. CASE FreeUnmap(t)
  BY <1>6 DEF FreeUnmap
<1>7. CASE FreeRelease(t)
  BY <1>7 DEF FreeRelease
<1>8. CASE FreeDelete(t)
  BY <1>8 DEF FreeDelete, DeleteHandle, ForgetHandle
<1>9. QED
  BY <1>1, <1>2, <1>3, <1>4, <1>5, <1>6, <1>7, <1>8 DEF ImportStep, FreeStep

\* A lock is seen when it maps the buffer and when it is counted.
LEMMA LockRefines ==
  ASSUME IInv, NEW t \in Threads, LockStep(t)
  PROVE  Unseen \/ \E h \in Addrs : Contract!Map(h) \/ Contract!Lock(h)
<1> USE DEF IInv, TypeOK, Ownership, Goto, Return, regVars, resVars, clientVars, hndVars,
        fdFields, mapFields, UseLabels, LockLabels
<1>1. CASE LockMmap(t)
  <2>1. buf[t] \in pool /\ buf[t] \in Addrs /\ base[buf[t]] = "nullptr"
    BY <1>1 DEF LockMmap, Mutexes
  <2>2. /\ pool' = pool /\ lock_count' = lock_count /\ lost' = lost
        /\ base' = [base EXCEPT ![buf[t]] = "mapped"]
    BY <1>1 DEF LockMmap
  <2>3. Mapped' = Mapped \cup {buf[t]} /\ buf[t] \notin Mapped
    BY <2>1, <2>2 DEF Mapped
  <2>4. Locks' = Locks
    BY <2>2 DEF Locks
  <2>5. QED
    BY <2>1, <2>2, <2>3, <2>4 DEF Contract!Map, Mapped, Locks
<1>2. CASE LockCount(t)
  <2>1. buf[t] \in pool /\ buf[t] \in Addrs /\ base[buf[t]] = "mapped"
    BY <1>2 DEF LockCount, Locked
  <2>2. /\ pool' = pool /\ base' = base
        /\ lock_count' = [lock_count EXCEPT ![buf[t]] = Incremented(@)]
        /\ lost' = IF lock_count'[buf[t]] < 0 THEN lost \cup {buf[t]} ELSE lost
    BY <1>2 DEF LockCount
  <2>3. Mapped' = Mapped /\ buf[t] \in Mapped
    BY <2>1, <2>2 DEF Mapped
  <2>4. CASE buf[t] \in lost
    <3>1. lost' = lost
      BY <2>2, <2>4
    <3>2. Locks' = Locks
      BY <2>1, <2>2, <2>4, <3>1 DEF Locks
    <3>3. QED
      BY <2>2, <2>3, <3>2 DEF Unseen
  <2>5. CASE buf[t] \notin lost
    <3>1. lock_count[buf[t]] \in Nat /\ lock_count[buf[t]] \in Ints
      BY <2>1, <2>5, CountedFacts DEF Counts, LockCountExact
    <3>2. IF lock_count[buf[t]] = IntMax
          THEN lost' = lost \cup {buf[t]}
          ELSE lost' = lost /\ lock_count'[buf[t]] = lock_count[buf[t]] + 1
      BY <2>1, <2>2, <3>1, IntMaxAssumption DEF Incremented
    <3>3. Locks' = [Locks EXCEPT ![buf[t]] = IF @ = IntMax THEN -1 ELSE @ + 1]
      <4>1. \A h \in Addrs : h # buf[t] => Locks'[h] = Locks[h]
        BY <2>1, <2>2, <3>2 DEF Locks
      <4>2. Locks'[buf[t]] = IF Locks[buf[t]] = IntMax THEN -1 ELSE Locks[buf[t]] + 1
        BY <2>1, <2>2, <2>5, <3>2 DEF Locks
      <4>3. QED
        BY ONLY <2>1, <4>1, <4>2 DEF Locks
    <3>4. Locks[buf[t]] # -1
      BY <2>1, <2>5, <3>1 DEF Locks
    <3>5. QED
      BY <2>1, <2>2, <2>3, <3>3, <3>4 DEF Contract!Lock, Contract!Lost, Mapped, Locks
  <2>6. QED
    BY <2>4, <2>5
<1>3. QED
  BY <1>1, <1>2 DEF LockStep, LockCheck, LockValid, LockInvalid, LockMapTest,
     LockMmapFail, LockFlag, LockSyncStart, Unseen, Mapped, Locks

\* An unlock is seen when it is uncounted; its second test of lock_count, made
\* after the cache flush, finds a positive count unless the count is lost.
LEMMA UnlockRefines ==
  ASSUME IInv, NEW t \in Threads, UnlockStep(t)
  PROVE  Unseen \/ \E h \in Addrs : Contract!Unlock(h)
<1> USE DEF IInv, TypeOK, Ownership, Goto, Return, regVars, resVars, clientVars, hndVars,
        fdFields, mapFields, UseLabels, UnlockLabels
<1>1. CASE UnlockDecrement(t)
  <2>1. buf[t] \in pool /\ buf[t] \in Addrs
    BY <1>1 DEF UnlockDecrement
  <2>2. /\ pool' = pool /\ base' = base
        /\ lock_count' = [lock_count EXCEPT ![buf[t]] = Decremented(@)]
        /\ lost' = IF lock_count'[buf[t]] < 0 THEN lost \cup {buf[t]} ELSE lost
    BY <1>1 DEF UnlockDecrement
  <2>3. Mapped' = Mapped
    BY <2>2 DEF Mapped
  <2>4. CASE buf[t] \in lost
    <3>1. lost' = lost
      BY <2>2, <2>4
    <3>2. Locks' = Locks
      BY <2>1, <2>2, <2>4, <3>1 DEF Locks
    <3>3. QED
      BY <2>2, <2>3, <3>2 DEF Unseen
  <2>5. CASE buf[t] \notin lost
    <3>1. lock_count[buf[t]] > 0 /\ lock_count[buf[t]] \in Int
      BY <1>1, <2>1, <2>5, CountersPositive, IntMaxAssumption DEF UnlockDecrement, Ints
    <3>2. lock_count'[buf[t]] = lock_count[buf[t]] - 1 /\ lost' = lost
      BY <2>1, <2>2, <3>1, IntMaxAssumption DEF Decremented
    <3>3. Locks' = [Locks EXCEPT ![buf[t]] = @ - 1]
      <4>1. \A h \in Addrs : Locks'[h] = IF h = buf[t] THEN Locks[h] - 1 ELSE Locks[h]
        BY <2>1, <2>2, <2>5, <3>2 DEF Locks
      <4>2. QED
        BY ONLY <2>1, <4>1 DEF Locks
    <3>4. QED
      BY <2>1, <2>2, <2>3, <2>5, <3>1, <3>3 DEF Contract!Unlock, Mapped, Locks
  <2>6. QED
    BY <2>4, <2>5
<1>2. CASE UnlockStore(t)
  <2>1. buf[t] \in pool /\ buf[t] \in lost
    BY <1>2 DEF UnlockStore, Counts
  <2>2. pool' = pool /\ base' = base /\ lost' = lost
    BY <1>2 DEF UnlockStore
  <2>3. \A h \in Addrs : h # buf[t] => lock_count'[h] = lock_count[h]
    BY <1>2 DEF UnlockStore
  <2>4. QED
    BY <2>1, <2>2, <2>3 DEF Unseen, Mapped, Locks
<1>3. QED
  BY <1>1, <1>2 DEF UnlockStep, UnlockCheck, UnlockSyncEnd, UnlockSyncEndFail,
     UnlockTest, UnlockLast, UnlockClear, Unseen, Mapped, Locks

-----------------------------------------------------------------------------
\* Whatever calls the threads overlap, the mapper behaves as if import, free,
\* map, lock and unlock each happened at one instant.
THEOREM Refinement == Spec => ImplementsContract
<1>1. Init => Contract!CInit
  BY DEF Init, Contract!CInit
<1>2. Init => NewCounts
  BY DEF Init, NewCounts
<1>3. IInv /\ NewCounts /\ [Next]_vars => NewCounts'
  <2> SUFFICES ASSUME IInv, NewCounts, [Next]_vars
               PROVE  NewCounts'
    OBVIOUS
  <2>1. CASE Next
    BY <2>1, NewCountsStep DEF Next, IInv
  <2>2. CASE UNCHANGED vars
    BY <2>2 DEF vars, hndVars, NewCounts
  <2>3. QED
    BY <2>1, <2>2
<1>4. IInv /\ NewCounts /\ [Next]_vars => [Contract!CNext]_(Contract!cvars)
  <2> SUFFICES ASSUME IInv, NewCounts, [Next]_vars
               PROVE  Unseen \/ Contract!CNext
    BY DEF Contract!cvars, Unseen, Mapped, Locks
  <2>1. ASSUME NEW t \in Threads, ClientCall(t)
        PROVE  Unseen \/ Contract!CNext
    BY <2>1, ClientCallRefines DEF Contract!CNext
  <2>2. ASSUME NEW t \in Threads, ImportStep(t) \/ FreeStep(t)
        PROVE  Unseen \/ Contract!CNext
    BY <2>2, OwnerRefines DEF Contract!CNext
  <2>3. ASSUME NEW t \in Threads, LockStep(t)
        PROVE  Unseen \/ Contract!CNext
    BY <2>3, LockRefines DEF Contract!CNext
  <2>4. ASSUME NEW t \in Threads, UnlockStep(t)
        PROVE  Unseen \/ Contract!CNext
    BY <2>4, UnlockRefines DEF Contract!CNext
  <2>5. ASSUME NEW t \in Threads, CacheStep(t)
        PROVE  Unseen
    BY <2>5 DEF CacheStep, FlushCheck, FlushSyncEnd, RereadCheck, RereadSyncStart,
       MetadataAccess, DumpVisit, DumpEnd, Goto, Return, regVars, hndVars, mapFields,
       clientVars, Unseen, Mapped, Locks
  <2>6. CASE UNCHANGED vars
    BY <2>6 DEF vars, regVars, hndVars, mapFields, clientVars, Unseen, Mapped, Locks
  <2>7. QED
    BY <2>1, <2>2, <2>3, <2>4, <2>5, <2>6 DEF Next, Step
<1>5. QED
  BY <1>1, <1>2, <1>3, <1>4, Invariance, PTL DEF Spec, ImplementsContract, Contract!CSpec
=============================================================================
