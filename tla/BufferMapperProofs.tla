------------------------- MODULE BufferMapperProofs -------------------------
(***************************************************************************)
(* Invariance proofs for BufferMapper, for every number of threads,        *)
(* handles and descriptors.                                                *)
(***************************************************************************)
EXTENDS BufferMapper, FiniteSetTheorems, TLAPS

\* Labels at which a call owns a handle that is not registered, and labels at
\* which it works on one that is.
OwnLabels == ImportLabels \cup FreeLabels
UseLabels == LockLabels \cup UnlockLabels \cup CacheLabels

\* Which call may work on which handle: a handle that is not registered has
\* exactly one owner, the call that is importing or freeing it.
Ownership ==
  /\ \A t \in Threads : pc[t] \in OwnLabels =>
       /\ buf[t] \in Addrs
       /\ buf[t] \in heap
       /\ buf[t] \notin pool
  /\ \A t, u \in Threads :
       pc[t] \in OwnLabels /\ pc[u] \in OwnLabels /\ t # u => buf[t] # buf[u]
  /\ \A t \in Threads : pc[t] \in UseLabels => buf[t] \in pool
  /\ pool \subseteq heap
  /\ \A h \in heap :
       h \in pool \/ \E t \in Threads : pc[t] \in OwnLabels /\ buf[t] = h

\* The two mutexes are held exactly at the labels inside their sections.
Mutexes ==
  /\ \A t \in Threads : pc[t] = "dump" <=> poolMutex = t
  /\ poolMutex = NoThread => dumping = {}
  /\ dumping \subseteq pool
  /\ \A t \in Threads : pc[t] = "mmap" <=> mapMutex = t
  /\ \A t \in Threads : pc[t] = "mmap" => base[buf[t]] = "nullptr"

\* The mappings of a handle at each stage of its life.
Mappings ==
  /\ \A h \in Addrs : attrMaps[h] = IF attr_base[h] = "mapped" THEN 1 ELSE 0
  /\ \A h \in pool : attr_base[h] = "mapped"
  /\ \A h \in pool : dmaMaps[h] = IF base[h] = "mapped" THEN 1 ELSE 0
  /\ \A h \in Addrs : h \notin heap => dmaMaps[h] = 0 /\ attr_base[h] = "MAP_FAILED"
  /\ \A t \in Threads :
       /\ pc[t] \in {"dup0", "dup1", "attr", "delete"} => attr_base[buf[t]] = "MAP_FAILED"
       /\ pc[t] \in {"add", "unmap", "release"} => attr_base[buf[t]] = "mapped"
       /\ pc[t] \in ImportLabels \cup {"release", "delete"} => dmaMaps[buf[t]] = 0
       /\ pc[t] = "add" => base[buf[t]] = "nullptr"
       /\ pc[t] = "unmap" => dmaMaps[buf[t]] = IF base[buf[t]] = "mapped" THEN 1 ELSE 0

\* The descriptor fields of a handle at each stage of its life.
FdStages ==
  /\ \A h \in Addrs : /\ numFds[h] = 0 <=> share_fd[h] = NoFd
                      /\ numFds[h] < 2 => share_attr_fd[h] = NoFd
                      /\ h \notin heap => numFds[h] = 0
  /\ \A h \in pool : numFds[h] = 2 /\ share_attr_fd[h] # NoFd
  /\ \A t \in Threads :
       /\ pc[t] = "dup0" => numFds[buf[t]] = 0
       /\ pc[t] = "dup1" => numFds[buf[t]] = 1
       /\ pc[t] \in {"attr", "add", "unmap", "release"} =>
            numFds[buf[t]] = 2 /\ share_attr_fd[buf[t]] # NoFd
       /\ pc[t] = "delete" => numFds[buf[t]] = 2 /\ share_attr_fd[buf[t]] = NoFd

\* Descriptor fields hold open descriptors, and no two fields hold the same.
FdsDistinct ==
  /\ \A h \in Addrs : /\ share_fd[h] \in openFds \cup {NoFd}
                      /\ share_attr_fd[h] \in openFds \cup {NoFd}
  /\ \A h, g \in Addrs : share_fd[h] # NoFd =>
       /\ share_fd[h] # share_attr_fd[g]
       /\ h # g => share_fd[h] # share_fd[g]
  /\ \A h, g \in Addrs : share_attr_fd[h] # NoFd /\ h # g =>
       share_attr_fd[h] # share_attr_fd[g]

\* Every open descriptor is in a field of a handle.
FdsNotLeaked ==
  \A fd \in openFds : \E h \in Addrs : share_fd[h] = fd \/ share_attr_fd[h] = fd

\* Only registered handles are locked, and the buffer is mapped before the
\* lock is counted.
Locked ==
  /\ \A h \in Addrs : h \notin pool => readers[h] = 0 /\ writers[h] = 0
  /\ \A t \in Threads : pc[t] \in {"count", "flag", "start"} => base[buf[t]] = "mapped"
  /\ \A h \in pool : readers[h] + writers[h] > 0 => base[h] = "mapped"

\* lock_count adds up, from the moment the fields are copied, unless it is
\* negative once; only then does an unlock store 0.
Counts ==
  /\ \A t \in Threads : pc[t] \in {"attr", "add"} =>
       LET h == buf[t] IN
       IF lock_count[h] < 0 THEN h \in lost ELSE h \notin lost /\ lock_count[h] = residue[h]
  /\ \A t \in Threads : pc[t] = "ustore" => buf[t] \in lost
  /\ LockCountExact

IInv ==
  /\ TypeOK
  /\ Ownership
  /\ Mutexes
  /\ Mappings
  /\ FdStages
  /\ FdsDistinct
  /\ FdsNotLeaked
  /\ Locked
  /\ Counts

-----------------------------------------------------------------------------
\* Every step leaves each unregistered handle with one owner, and only
\* registered handles in use: importBuffer adds and freeBuffer removes.
LEMMA OwnershipStep ==
  ASSUME TypeOK, Ownership,
         NEW t \in Threads, ClientCall(t) \/ Step(t)
  PROVE  Ownership'
<1> USE AddrsAssumption DEF TypeOK, Ownership, Call, Goto, Return, ReturnAtOnce,
        regVars, resVars, clientVars, hndVars, fdFields, mapFields, OwnLabels,
        UseLabels, ImportLabels, FreeLabels, LockLabels, UnlockLabels, CacheLabels,
        Registered, Quiet, Using
<1>1. CASE ClientCall(t)
  <2>1. CASE ImportCreate(t)
    BY <2>1 DEF ImportCreate
  <2>2. CASE FreeRemove(t)
    BY <2>2 DEF FreeRemove
  <2>3. CASE UnlockStart(t)
    BY <2>3 DEF UnlockStart
  <2>4. CASE UnlockResidue(t)
    BY <2>4 DEF UnlockResidue
  <2>5. CASE DumpStart(t)
    BY <2>5 DEF DumpStart
  <2>6. QED
    BY <1>1, <2>1, <2>2, <2>3, <2>4, <2>5 DEF ClientCall, ImportInvalid, ImportNoMemory,
       CallUnregistered, LockBadFence, LockStart, UnlockNotLocked, FlushStart,
       RereadStart, MetadataStart
<1>2. CASE ImportStep(t)
  <2>1. CASE ImportDup0(t)
    BY <2>1 DEF ImportDup0
  <2>2. CASE ImportDup1(t)
    BY <2>2 DEF ImportDup1
  <2>3. CASE ImportFail(t)
    BY <2>3 DEF ImportFail, DeleteHandle, ForgetHandle
  <2>4. CASE ImportMapAttr(t)
    BY <2>4 DEF ImportMapAttr
  <2>5. CASE ImportAdd(t)
    BY <2>5 DEF ImportAdd, DeleteHandle, ForgetHandle
  <2>6. QED
    BY <1>2, <2>1, <2>2, <2>3, <2>4, <2>5 DEF ImportStep
<1>3. CASE FreeStep(t)
  <2>1. CASE FreeUnmap(t)
    BY <2>1 DEF FreeUnmap
  <2>2. CASE FreeRelease(t)
    BY <2>2 DEF FreeRelease
  <2>3. CASE FreeDelete(t)
    BY <2>3 DEF FreeDelete, DeleteHandle, ForgetHandle
  <2>4. QED
    BY <1>3, <2>1, <2>2, <2>3 DEF FreeStep
<1>4. CASE LockStep(t)
  BY <1>4 DEF LockStep, LockCheck, LockValid, LockInvalid, LockMapTest, LockMmap,
     LockMmapFail, LockCount, LockFlag, LockSyncStart
<1>5. CASE UnlockStep(t)
  <2>1. CASE UnlockDecrement(t) \/ UnlockStore(t) \/ UnlockClear(t)
    BY <2>1 DEF UnlockDecrement, UnlockStore, UnlockClear
  <2>2. QED
    BY <1>5, <2>1 DEF UnlockStep, UnlockCheck, UnlockSyncEnd, UnlockSyncEndFail,
       UnlockTest, UnlockLast
<1>6. CASE CacheStep(t)
  BY <1>6 DEF CacheStep, FlushCheck, FlushSyncEnd, RereadCheck, RereadSyncStart,
     MetadataAccess, DumpVisit, DumpEnd
<1>7. QED
  BY <1>1, <1>2, <1>3, <1>4, <1>5, <1>6 DEF Step

\* Every step leaves the two mutexes with the threads inside their sections;
\* nobody maps the buffer between mali_map_buffer's test and its mmap.
LEMMA MutexesStep ==
  ASSUME TypeOK, Ownership, Mutexes,
         NEW t \in Threads, ClientCall(t) \/ Step(t)
  PROVE  Mutexes'
<1> USE ThreadsAssumption DEF TypeOK, Ownership, Mutexes, Call, Goto, Return,
        ReturnAtOnce, regVars, resVars, clientVars, hndVars, fdFields, mapFields,
        OwnLabels, UseLabels, ImportLabels, FreeLabels, LockLabels, UnlockLabels,
        CacheLabels, Registered, Unregistered, Quiet, Using
<1>1. CASE ClientCall(t)
  <2>1. CASE FreeRemove(t)
    BY <2>1 DEF FreeRemove
  <2>2. CASE DumpStart(t)
    BY <2>2 DEF DumpStart
  <2>3. QED
    BY <1>1, <2>1, <2>2 DEF ClientCall, ImportInvalid, ImportNoMemory, ImportCreate,
       CallUnregistered, LockBadFence, LockStart, UnlockStart, UnlockNotLocked,
       UnlockResidue, FlushStart, RereadStart, MetadataStart
<1>2. CASE ImportStep(t)
  <2>1. CASE ImportMapAttr(t)
    BY <2>1 DEF ImportMapAttr
  <2>2. CASE ImportAdd(t)
    BY <2>2 DEF ImportAdd, DeleteHandle, ForgetHandle
  <2>3. QED
    BY <1>2, <2>1, <2>2 DEF ImportStep, ImportDup0, ImportDup1, ImportFail,
       DeleteHandle, ForgetHandle
<1>3. CASE FreeStep(t)
  BY <1>3 DEF FreeStep, FreeUnmap, FreeRelease, FreeDelete, DeleteHandle, ForgetHandle
<1>4. CASE LockStep(t)
  <2>1. CASE LockMapTest(t)
    BY <2>1 DEF LockMapTest
  <2>2. CASE LockMmap(t)
    BY <2>2 DEF LockMmap
  <2>3. CASE LockMmapFail(t)
    BY <2>3 DEF LockMmapFail
  <2>4. QED
    BY <1>4, <2>1, <2>2, <2>3 DEF LockStep, LockCheck, LockValid, LockInvalid,
       LockCount, LockFlag, LockSyncStart
<1>5. CASE UnlockStep(t)
  BY <1>5 DEF UnlockStep, UnlockCheck, UnlockSyncEnd, UnlockSyncEndFail, UnlockTest,
     UnlockDecrement, UnlockStore, UnlockLast, UnlockClear
<1>6. CASE CacheStep(t)
  <2>1. CASE DumpVisit(t)
    BY <2>1 DEF DumpVisit
  <2>2. CASE DumpEnd(t)
    BY <2>2 DEF DumpEnd
  <2>3. QED
    BY <1>6, <2>1, <2>2 DEF CacheStep, FlushCheck, FlushSyncEnd, RereadCheck,
       RereadSyncStart, MetadataAccess
<1>7. QED
  BY <1>1, <1>2, <1>3, <1>4, <1>5, <1>6 DEF Step

\* Every step keeps the mappings in agreement with the fields attr_base and
\* base.
LEMMA MappingsStep ==
  ASSUME TypeOK, Ownership, Mutexes, Mappings,
         NEW t \in Threads, ClientCall(t) \/ Step(t)
  PROVE  Mappings'
<1> USE DEF TypeOK, Ownership, Mutexes, Mappings, Call, Goto, Return, ReturnAtOnce,
        regVars, resVars, clientVars, hndVars, fdFields, mapFields, OwnLabels,
        UseLabels, ImportLabels, FreeLabels, LockLabels, UnlockLabels, CacheLabels,
        Registered, Unregistered
<1>1. CASE ClientCall(t)
  <2>1. CASE ImportCreate(t)
    BY <2>1 DEF ImportCreate
  <2>2. CASE FreeRemove(t)
    BY <2>2 DEF FreeRemove
  <2>3. QED
    BY <1>1, <2>1, <2>2 DEF ClientCall, ImportInvalid, ImportNoMemory, CallUnregistered,
       LockBadFence, LockStart, UnlockStart, UnlockNotLocked, UnlockResidue, FlushStart,
       RereadStart, MetadataStart, DumpStart
<1>2. CASE ImportStep(t)
  <2>1. CASE ImportDup0(t)
    BY <2>1 DEF ImportDup0
  <2>2. CASE ImportDup1(t)
    BY <2>2 DEF ImportDup1
  <2>3. CASE ImportFail(t)
    BY <2>3 DEF ImportFail, DeleteHandle, ForgetHandle
  <2>4. CASE ImportMapAttr(t)
    BY <2>4 DEF ImportMapAttr
  <2>5. CASE ImportAdd(t)
    BY <2>5 DEF ImportAdd, DeleteHandle, ForgetHandle
  <2>6. QED
    BY <1>2, <2>1, <2>2, <2>3, <2>4, <2>5 DEF ImportStep
<1>3. CASE FreeStep(t)
  <2>1. CASE FreeUnmap(t)
    <3>1. /\ buf[t] \in Addrs /\ buf[t] \notin pool
          /\ pc' = [pc EXCEPT ![t] = "release"] /\ buf' = buf
          /\ UNCHANGED <<pool, heap, attr_base, attrMaps>>
      BY <2>1 DEF FreeUnmap
    <3>2. \A s \in Threads : s # t /\ pc[s] \in OwnLabels => buf[s] # buf[t]
      BY <2>1 DEF FreeUnmap
    <3>3. /\ dmaMaps'[buf[t]] = 0
          /\ dmaMaps' \in [Addrs -> Int] /\ base' \in [Addrs -> {"nullptr", "mapped"}]
          /\ \A h \in Addrs : h # buf[t] => dmaMaps'[h] = dmaMaps[h] /\ base'[h] = base[h]
      BY <2>1 DEF FreeUnmap
    <3>4. QED
      BY <2>1, <3>1, <3>2, <3>3 DEF FreeUnmap
  <2>2. CASE FreeRelease(t)
    BY <2>2 DEF FreeRelease
  <2>3. CASE FreeDelete(t)
    BY <2>3 DEF FreeDelete, DeleteHandle, ForgetHandle
  <2>4. QED
    BY <1>3, <2>1, <2>2, <2>3 DEF FreeStep
<1>4. CASE LockStep(t)
  <2>1. CASE LockMmap(t)
    BY <2>1 DEF LockMmap
  <2>2. QED
    BY <1>4, <2>1 DEF LockStep, LockCheck, LockValid, LockInvalid, LockMapTest,
       LockMmapFail, LockCount, LockFlag, LockSyncStart
<1>5. CASE UnlockStep(t)
  BY <1>5 DEF UnlockStep, UnlockCheck, UnlockSyncEnd, UnlockSyncEndFail, UnlockTest,
     UnlockDecrement, UnlockStore, UnlockLast, UnlockClear
<1>6. CASE CacheStep(t)
  BY <1>6 DEF CacheStep, FlushCheck, FlushSyncEnd, RereadCheck, RereadSyncStart,
     MetadataAccess, DumpVisit, DumpEnd
<1>7. QED
  BY <1>1, <1>2, <1>3, <1>4, <1>5, <1>6 DEF Step

\* Every step keeps the descriptor fields as the stage of the import or of
\* the free requires.
LEMMA FdStagesStep ==
  ASSUME TypeOK, Ownership, FdStages,
         NEW t \in Threads, ClientCall(t) \/ Step(t)
  PROVE  FdStages'
<1> USE FdsAssumption DEF TypeOK, Ownership, FdStages, Call, Goto, Return, ReturnAtOnce,
        regVars, resVars, clientVars, hndVars, fdFields, mapFields, OwnLabels,
        UseLabels, ImportLabels, FreeLabels, LockLabels, UnlockLabels, CacheLabels,
        Registered, Unregistered
<1>1. CASE ClientCall(t)
  <2>1. CASE ImportCreate(t)
    BY <2>1 DEF ImportCreate
  <2>2. CASE FreeRemove(t)
    BY <2>2 DEF FreeRemove
  <2>3. QED
    BY <1>1, <2>1, <2>2 DEF ClientCall, ImportInvalid, ImportNoMemory, CallUnregistered,
       LockBadFence, LockStart, UnlockStart, UnlockNotLocked, UnlockResidue, FlushStart,
       RereadStart, MetadataStart, DumpStart
<1>2. CASE ImportStep(t)
  <2>1. CASE ImportDup0(t)
    BY <2>1 DEF ImportDup0
  <2>2. CASE ImportDup1(t)
    BY <2>2 DEF ImportDup1
  <2>3. CASE ImportFail(t)
    BY <2>3 DEF ImportFail, DeleteHandle, ForgetHandle
  <2>4. CASE ImportMapAttr(t)
    BY <2>4 DEF ImportMapAttr
  <2>5. CASE ImportAdd(t)
    BY <2>5 DEF ImportAdd, DeleteHandle, ForgetHandle
  <2>6. QED
    BY <1>2, <2>1, <2>2, <2>3, <2>4, <2>5 DEF ImportStep
<1>3. CASE FreeStep(t)
  <2>1. CASE FreeUnmap(t)
    BY <2>1 DEF FreeUnmap
  <2>2. CASE FreeRelease(t)
    BY <2>2 DEF FreeRelease
  <2>3. CASE FreeDelete(t)
    BY <2>3 DEF FreeDelete, DeleteHandle, ForgetHandle
  <2>4. QED
    BY <1>3, <2>1, <2>2, <2>3 DEF FreeStep
<1>4. CASE LockStep(t)
  BY <1>4 DEF LockStep, LockCheck, LockValid, LockInvalid, LockMapTest, LockMmap,
     LockMmapFail, LockCount, LockFlag, LockSyncStart
<1>5. CASE UnlockStep(t)
  BY <1>5 DEF UnlockStep, UnlockCheck, UnlockSyncEnd, UnlockSyncEndFail, UnlockTest,
     UnlockDecrement, UnlockStore, UnlockLast, UnlockClear
<1>6. CASE CacheStep(t)
  BY <1>6 DEF CacheStep, FlushCheck, FlushSyncEnd, RereadCheck, RereadSyncStart,
     MetadataAccess, DumpVisit, DumpEnd
<1>7. QED
  BY <1>1, <1>2, <1>3, <1>4, <1>5, <1>6 DEF Step

\* No step makes two fields hold one descriptor, or closes a descriptor that
\* another field holds.
LEMMA FdsDistinctStep ==
  ASSUME TypeOK, Ownership, FdStages, FdsDistinct,
         NEW t \in Threads, ClientCall(t) \/ Step(t)
  PROVE  FdsDistinct'
<1> USE FdsAssumption DEF TypeOK, Ownership, FdStages, FdsDistinct, Call, Goto, Return,
        ReturnAtOnce, regVars, resVars, clientVars, hndVars, fdFields, mapFields,
        OwnLabels, UseLabels, ImportLabels, FreeLabels, LockLabels, UnlockLabels,
        CacheLabels
<1>1. CASE ClientCall(t)
  BY <1>1 DEF ClientCall, ImportInvalid, ImportNoMemory, ImportCreate, FreeRemove,
     CallUnregistered, LockBadFence, LockStart, UnlockStart, UnlockNotLocked,
     UnlockResidue, FlushStart, RereadStart, MetadataStart, DumpStart
<1>2. CASE ImportStep(t)
  <2>1. CASE ImportDup0(t)
    BY <2>1 DEF ImportDup0
  <2>2. CASE ImportDup1(t)
    BY <2>2 DEF ImportDup1
  <2>3. CASE ImportFail(t)
    BY <2>3 DEF ImportFail, DeleteHandle, ForgetHandle, ClosedByDeleter
  <2>4. CASE ImportMapAttr(t)
    BY <2>4 DEF ImportMapAttr
  <2>5. CASE ImportAdd(t)
    BY <2>5 DEF ImportAdd, DeleteHandle, ForgetHandle, ClosedByDeleter
  <2>6. QED
    BY <1>2, <2>1, <2>2, <2>3, <2>4, <2>5 DEF ImportStep
<1>3. CASE FreeStep(t)
  <2>1. CASE FreeUnmap(t)
    BY <2>1 DEF FreeUnmap
  <2>2. CASE FreeRelease(t)
    BY <2>2 DEF FreeRelease
  <2>3. CASE FreeDelete(t)
    BY <2>3 DEF FreeDelete, DeleteHandle, ForgetHandle, ClosedByDeleter
  <2>4. QED
    BY <1>3, <2>1, <2>2, <2>3 DEF FreeStep
<1>4. CASE LockStep(t)
  BY <1>4 DEF LockStep, LockCheck, LockValid, LockInvalid, LockMapTest, LockMmap,
     LockMmapFail, LockCount, LockFlag, LockSyncStart
<1>5. CASE UnlockStep(t)
  BY <1>5 DEF UnlockStep, UnlockCheck, UnlockSyncEnd, UnlockSyncEndFail, UnlockTest,
     UnlockDecrement, UnlockStore, UnlockLast, UnlockClear
<1>6. CASE CacheStep(t)
  BY <1>6 DEF CacheStep, FlushCheck, FlushSyncEnd, RereadCheck, RereadSyncStart,
     MetadataAccess, DumpVisit, DumpEnd
<1>7. QED
  BY <1>1, <1>2, <1>3, <1>4, <1>5, <1>6 DEF Step

\* No step forgets an open descriptor.
LEMMA FdsNotLeakedStep ==
  ASSUME TypeOK, Ownership, FdStages, FdsDistinct, FdsNotLeaked,
         NEW t \in Threads, ClientCall(t) \/ Step(t)
  PROVE  FdsNotLeaked'
<1> USE FdsAssumption DEF TypeOK, Ownership, FdStages, FdsDistinct, FdsNotLeaked, Call,
        Goto, Return, ReturnAtOnce, regVars, resVars, clientVars, hndVars, fdFields,
        mapFields, OwnLabels, UseLabels, ImportLabels, FreeLabels, LockLabels,
        UnlockLabels, CacheLabels
<1>1. CASE ClientCall(t)
  BY <1>1 DEF ClientCall, ImportInvalid, ImportNoMemory, ImportCreate, FreeRemove,
     CallUnregistered, LockBadFence, LockStart, UnlockStart, UnlockNotLocked,
     UnlockResidue, FlushStart, RereadStart, MetadataStart, DumpStart
<1>2. CASE ImportStep(t)
  <2>1. CASE ImportDup0(t)
    BY <2>1 DEF ImportDup0
  <2>2. CASE ImportDup1(t)
    BY <2>2 DEF ImportDup1
  <2>3. CASE ImportFail(t)
    BY <2>3 DEF ImportFail, DeleteHandle, ForgetHandle, ClosedByDeleter
  <2>4. CASE ImportMapAttr(t)
    BY <2>4 DEF ImportMapAttr
  <2>5. CASE ImportAdd(t)
    BY <2>5 DEF ImportAdd, DeleteHandle, ForgetHandle, ClosedByDeleter
  <2>6. QED
    BY <1>2, <2>1, <2>2, <2>3, <2>4, <2>5 DEF ImportStep
<1>3. CASE FreeStep(t)
  <2>1. CASE FreeUnmap(t)
    BY <2>1 DEF FreeUnmap
  <2>2. CASE FreeRelease(t)
    BY <2>2 DEF FreeRelease
  <2>3. CASE FreeDelete(t)
    BY <2>3 DEF FreeDelete, DeleteHandle, ForgetHandle, ClosedByDeleter
  <2>4. QED
    BY <1>3, <2>1, <2>2, <2>3 DEF FreeStep
<1>4. CASE LockStep(t)
  BY <1>4 DEF LockStep, LockCheck, LockValid, LockInvalid, LockMapTest, LockMmap,
     LockMmapFail, LockCount, LockFlag, LockSyncStart
<1>5. CASE UnlockStep(t)
  BY <1>5 DEF UnlockStep, UnlockCheck, UnlockSyncEnd, UnlockSyncEndFail, UnlockTest,
     UnlockDecrement, UnlockStore, UnlockLast, UnlockClear
<1>6. CASE CacheStep(t)
  BY <1>6 DEF CacheStep, FlushCheck, FlushSyncEnd, RereadCheck, RereadSyncStart,
     MetadataAccess, DumpVisit, DumpEnd
<1>7. QED
  BY <1>1, <1>2, <1>3, <1>4, <1>5, <1>6 DEF Step

\* A lock is counted, and handed to the client, only once the buffer is mapped,
\* and freeBuffer takes the locks of a handle away before it unmaps it.
LEMMA LockedStep ==
  ASSUME TypeOK, Ownership, Mutexes, Mappings, Locked,
         NEW t \in Threads, ClientCall(t) \/ Step(t)
  PROVE  Locked'
<1> USE DEF TypeOK, Ownership, Mutexes, Mappings, Locked, Call, Goto, Return,
        ReturnAtOnce, regVars, resVars, clientVars, hndVars, fdFields, mapFields,
        OwnLabels, UseLabels, ImportLabels, FreeLabels, LockLabels, UnlockLabels,
        CacheLabels, Registered
<1>1. CASE ClientCall(t)
  <2>1. CASE FreeRemove(t)
    BY <2>1 DEF FreeRemove
  <2>2. CASE LockStart(t)
    BY <2>2 DEF LockStart
  <2>3. CASE UnlockStart(t)
    BY <2>3 DEF UnlockStart
  <2>4. QED
    BY <1>1, <2>1, <2>2, <2>3 DEF ClientCall, ImportInvalid, ImportNoMemory,
       ImportCreate, CallUnregistered, LockBadFence, UnlockNotLocked, UnlockResidue,
       FlushStart, RereadStart, MetadataStart, DumpStart
<1>2. CASE ImportStep(t)
  <2>1. CASE ImportMapAttr(t)
    BY <2>1 DEF ImportMapAttr
  <2>2. QED
    BY <1>2, <2>1 DEF ImportStep, ImportDup0, ImportDup1, ImportFail, ImportAdd,
       DeleteHandle, ForgetHandle
<1>3. CASE FreeStep(t)
  <2>1. CASE FreeUnmap(t)
    BY <2>1 DEF FreeUnmap
  <2>2. CASE FreeRelease(t)
    BY <2>2 DEF FreeRelease
  <2>3. CASE FreeDelete(t)
    BY <2>3 DEF FreeDelete, DeleteHandle, ForgetHandle
  <2>4. QED
    BY <1>3, <2>1, <2>2, <2>3 DEF FreeStep
<1>4. CASE LockStep(t)
  <2>1. CASE LockMapTest(t)
    BY <2>1 DEF LockMapTest
  <2>2. CASE LockMmap(t)
    BY <2>2 DEF LockMmap
  <2>3. CASE LockCount(t)
    BY <2>3 DEF LockCount
  <2>4. CASE LockSyncStart(t)
    BY <2>4 DEF LockSyncStart
  <2>5. QED
    BY <1>4, <2>1, <2>2, <2>3, <2>4 DEF LockStep, LockCheck, LockValid, LockInvalid,
       LockMmapFail, LockFlag
<1>5. CASE UnlockStep(t)
  BY <1>5 DEF UnlockStep, UnlockCheck, UnlockSyncEnd, UnlockSyncEndFail, UnlockTest,
     UnlockDecrement, UnlockStore, UnlockLast, UnlockClear
<1>6. CASE CacheStep(t)
  BY <1>6 DEF CacheStep, FlushCheck, FlushSyncEnd, RereadCheck, RereadSyncStart,
     MetadataAccess, DumpVisit, DumpEnd
<1>7. QED
  BY <1>1, <1>2, <1>3, <1>4, <1>5, <1>6 DEF Step

-----------------------------------------------------------------------------
\* Counted(h) is a finite set of threads.
LEMMA CountedFacts ==
  ASSUME NEW h
  PROVE  /\ IsFiniteSet(Counted(h))
         /\ Cardinality(Counted(h)) \in Nat
         /\ Cardinality(Counted(h)) = 0 <=> Counted(h) = {}
<1>1. Counted(h) \in SUBSET Threads
  BY DEF Counted
<1>2. QED
  BY <1>1, ThreadsAssumption, FS_Subset, FS_CardinalityType, FS_EmptySet

\* A step moves only the thread that takes it.
LEMMA StepFrame ==
  ASSUME TypeOK, NEW t \in Threads, ClientCall(t) \/ Step(t)
  PROVE  \A u \in Threads : u # t =>
           pc'[u] = pc[u] /\ buf'[u] = buf[u] /\ usage'[u] = usage[u]
<1> USE DEF TypeOK, Call, Goto, Return, ReturnAtOnce
<1>1. CASE ClientCall(t)
  BY <1>1 DEF ClientCall, ImportInvalid, ImportNoMemory, ImportCreate, FreeRemove,
     CallUnregistered, LockBadFence, LockStart, UnlockStart, UnlockNotLocked,
     UnlockResidue, FlushStart, RereadStart, MetadataStart, DumpStart
<1>2. CASE ImportStep(t)
  BY <1>2 DEF ImportStep, ImportDup0, ImportDup1, ImportFail, ImportMapAttr, ImportAdd
<1>3. CASE FreeStep(t)
  BY <1>3 DEF FreeStep, FreeUnmap, FreeRelease, FreeDelete
<1>4. CASE LockStep(t)
  BY <1>4 DEF LockStep, LockCheck, LockValid, LockInvalid, LockMapTest, LockMmap,
     LockMmapFail, LockCount, LockFlag, LockSyncStart
<1>5. CASE UnlockStep(t)
  BY <1>5 DEF UnlockStep, UnlockCheck, UnlockSyncEnd, UnlockSyncEndFail, UnlockTest,
     UnlockDecrement, UnlockStore, UnlockLast, UnlockClear
<1>6. CASE CacheStep(t)
  BY <1>6 DEF CacheStep, FlushCheck, FlushSyncEnd, RereadCheck, RereadSyncStart,
     MetadataAccess, DumpVisit, DumpEnd
<1>7. QED
  BY <1>1, <1>2, <1>3, <1>4, <1>5, <1>6 DEF Step

\* When only thread t moves, Counted(h) changes by t at most.
LEMMA CountedStep ==
  ASSUME NEW h, NEW t \in Threads,
         \A u \in Threads : u # t => pc'[u] = pc[u] /\ buf'[u] = buf[u]
  PROVE  LET c  == Cardinality(Counted(h))
             cc == Cardinality(Counted(h)')
         IN  /\ (t \in Counted(h) <=> t \in Counted(h)') => cc = c
             /\ t \notin Counted(h) /\ t \in Counted(h)' => cc = c + 1
             /\ t \in Counted(h) /\ t \notin Counted(h)' => cc = c - 1
<1>1. (t \in Counted(h) <=> t \in Counted(h)') => Counted(h)' = Counted(h)
  BY DEF Counted
<1>2. t \notin Counted(h) /\ t \in Counted(h)' => Counted(h)' = Counted(h) \cup {t}
  BY DEF Counted
<1>3. t \in Counted(h) /\ t \notin Counted(h)' => Counted(h)' = Counted(h) \ {t}
  BY DEF Counted
<1>4. QED
  BY <1>1, <1>2, <1>3, CountedFacts, FS_AddElement, FS_RemoveElement

\* Every step keeps lock_count in balance with the locks held, the calls that
\* are changing it and the residue.
LEMMA CountsStep ==
  ASSUME TypeOK, Ownership, Locked, Counts,
         NEW t \in Threads, ClientCall(t) \/ Step(t)
  PROVE  Counts'
<1> DEFINE c(h)   == Cardinality(Counted(h))
           cc(h)  == Cardinality(Counted(h)')
           In(h)  == t \in Counted(h)
           InN(h) == t \in Counted(h)'
           CountLabels == {"flag", "start", "ucheck", "uend", "utest", "udec"}
           New(s) == IF lock_count[buf[s]] < 0 THEN buf[s] \in lost
                     ELSE buf[s] \notin lost /\ lock_count[buf[s]] = residue[buf[s]]
           Same  == \A h : cc(h) = c(h)
           More(b) == cc(b) = c(b) + 1 /\ \A h : h # b => cc(h) = c(h)
           Less(b) == cc(b) = c(b) - 1 /\ \A h : h # b => cc(h) = c(h)
<1>1. \A h : /\ c(h) \in Nat
             /\ In(h) => c(h) > 0
             /\ (In(h) <=> InN(h)) => cc(h) = c(h)
             /\ ~In(h) /\ InN(h) => cc(h) = c(h) + 1
             /\ In(h) /\ ~InN(h) => cc(h) = c(h) - 1
  BY StepFrame, CountedFacts, CountedStep
<1>2. \A h : /\ In(h)  <=> buf[t] = h /\ pc[t] \in CountLabels
             /\ InN(h) <=> buf'[t] = h /\ pc'[t] \in CountLabels
  BY DEF Counted
<1>3. \A h \in Addrs : h \notin pool => c(h) = 0
  <2>1. \A h \in Addrs : h \notin pool => Counted(h) = {}
    BY DEF Counted, Ownership, UseLabels, LockLabels, UnlockLabels
  <2>2. QED
    BY <2>1, CountedFacts
<1>4. \A h \in pool \ lost : lock_count[h] = residue[h] + readers[h] + writers[h] + c(h)
  BY DEF Counts, LockCountExact
<1>5. \A s \in Threads : /\ pc[s] \in {"attr", "add"} => New(s)
                         /\ pc[s] = "ustore" => buf[s] \in lost
  BY DEF Counts
<1>6. SUFFICES /\ \A s \in Threads : /\ pc'[s] \in {"attr", "add"} => New(s)'
                                     /\ pc'[s] = "ustore" => buf'[s] \in lost'
               /\ \A h \in pool' \ lost' :
                    lock_count'[h] = residue'[h] + readers'[h] + writers'[h] + cc(h)
  BY DEF Counts, LockCountExact
<1>14. \A h \in Addrs : lock_count[h] \in Int
  BY IntMaxAssumption DEF TypeOK, Ints
<1>15. ASSUME NEW b \in pool, lost \subseteq lost',
              \A h \in Addrs : h # b => /\ h \in lost' <=> h \in lost
                                       /\ lock_count'[h] = lock_count[h]
                                       /\ residue'[h] = residue[h],
              pc'[t] \notin {"attr", "add", "ustore"}
       PROVE  \A s \in Threads : /\ pc'[s] \in {"attr", "add"} => New(s)'
                                 /\ pc'[s] = "ustore" => buf'[s] \in lost'
  <2> SUFFICES ASSUME NEW s \in Threads, s # t
               PROVE  /\ pc'[s] \in {"attr", "add"} => New(s)'
                      /\ pc'[s] = "ustore" => buf'[s] \in lost'
    BY <1>15
  <2>1. pc'[s] = pc[s] /\ buf'[s] = buf[s]
    BY StepFrame
  <2>2. pc[s] \in {"attr", "add"} => buf[s] \in Addrs /\ buf[s] \notin pool
    BY DEF Ownership, OwnLabels, ImportLabels
  <2>3. QED
    BY <2>1, <2>2, <1>5, <1>15
<1> HIDE DEF c, cc, In, InN
<1> USE DEF TypeOK, Call, Goto, Return, ReturnAtOnce, regVars, resVars, clientVars,
        hndVars, fdFields, mapFields, OwnLabels, UseLabels, ImportLabels, FreeLabels,
        LockLabels, UnlockLabels, CacheLabels
<1>7. CASE ClientCall(t)
  <2>1. CASE FreeRemove(t)
    <3>1. PICK h \in Addrs : FreeRemove(t)!(h)
      BY <2>1 DEF FreeRemove
    <3>2. Same
      BY <1>1, <1>2, <3>1
    <3>3. QED
      BY <3>1, <3>2, <1>4, <1>5 DEF Registered, Ownership, Quiet, Using
  <2>2. CASE UnlockStart(t)
    <3>1. PICK h \in Addrs, use \in {"read", "write"} : UnlockStart(t)!(h, use)
      BY <2>2 DEF UnlockStart
    <3>2. More(h)
      BY <1>1, <1>2, <3>1
    <3>3. /\ readers'[h] + writers'[h] = readers[h] + writers[h] - 1
          /\ \A g \in Addrs : g # h => readers'[g] = readers[g] /\ writers'[g] = writers[g]
      <4>1. CASE use = "write"
        BY <3>1, <4>1
      <4>2. CASE use = "read"
        BY <3>1, <4>2
      <4>3. QED
        BY <4>1, <4>2
    <3>4. h \in pool /\ pool' = pool /\ lost' = lost
      BY <3>1 DEF Registered
    <3>5. lock_count' = lock_count /\ residue' = residue
      BY <3>1
    <3>6. readers'[h] \in Nat /\ writers'[h] \in Nat
      BY <3>1
    <3>7. \A g \in pool' \ lost' :
            lock_count'[g] = residue'[g] + readers'[g] + writers'[g] + cc(g)
      <4>1. TAKE g \in pool' \ lost'
      <4>2. /\ g \in Addrs /\ c(g) \in Nat /\ residue[g] \in Nat
            /\ readers[g] \in Nat /\ writers[g] \in Nat
            /\ lock_count[g] = residue[g] + readers[g] + writers[g] + c(g)
        BY <3>4, <1>1, <1>4
      <4>3. CASE g = h
        <5>1. cc(g) = c(g) + 1 /\ readers'[g] + writers'[g] = readers[g] + writers[g] - 1
          BY <3>2, <3>3, <4>3
        <5>2. QED
          BY <3>5, <3>6, <4>2, <4>3, <5>1
      <4>4. CASE g # h
        BY <3>2, <3>3, <3>5, <4>2, <4>4
      <4>5. QED
        BY <4>3, <4>4
    <3>8. pc'[t] = "ucheck"
      BY <3>1
    <3>9. QED
      BY <3>4, <3>5, <3>7, <3>8, <1>15
  <2>3. CASE UnlockResidue(t)
    <3>1. PICK h \in Addrs : UnlockResidue(t)!(h)
      BY <2>3 DEF UnlockResidue
    <3>2. More(h)
      BY <1>1, <1>2, <3>1
    <3>3. h \notin lost => residue'[h] = residue[h] - 1
      <4>1. c(h) = 0
        <5>1. Counted(h) = {}
          BY <3>1 DEF Quiet, Using, Counted
        <5>2. QED
          BY <5>1, CountedFacts DEF c
      <4>2. h \notin lost => lock_count[h] = residue[h]
        BY <3>1, <4>1, <1>4 DEF Registered
      <4>3. QED
        BY <3>1, <4>2
    <3>4. QED
      <4>1. h \in pool /\ pool' = pool /\ lost' = lost
        BY <3>1 DEF Registered
      <4>2. lock_count' = lock_count /\ readers' = readers /\ writers' = writers
        BY <3>1
      <4>3. \A g \in Addrs : g # h => residue'[g] = residue[g]
        BY <3>1
      <4>4. \A g \in pool' \ lost' :
              lock_count'[g] = residue'[g] + readers'[g] + writers'[g] + cc(g)
        <5>1. TAKE g \in pool' \ lost'
        <5>2. /\ g \in Addrs /\ c(g) \in Nat /\ residue[g] \in Nat
              /\ readers[g] \in Nat /\ writers[g] \in Nat
              /\ lock_count[g] = residue[g] + readers[g] + writers[g] + c(g)
          BY <4>1, <1>1, <1>4
        <5>3. CASE g = h
          <6>1. residue'[g] = residue[g] - 1 /\ cc(g) = c(g) + 1
            BY <3>2, <3>3, <4>1, <5>3
          <6>2. QED
            BY <4>2, <5>2, <6>1
        <5>4. CASE g # h
          BY <3>2, <4>2, <4>3, <5>2, <5>4
        <5>5. QED
          BY <5>3, <5>4
      <4>5. pc'[t] = "ucheck"
        BY <3>1
      <4>6. QED
        BY <4>1, <4>2, <4>3, <4>4, <4>5, <1>15
  <2>4. CASE ~(FreeRemove(t) \/ UnlockStart(t) \/ UnlockResidue(t))
    <3>1. Same
      BY <1>1, <1>2, <1>7, <2>4 DEF ClientCall, ImportInvalid, ImportNoMemory, ImportCreate,
         CallUnregistered, LockBadFence, LockStart, UnlockNotLocked, FlushStart,
         RereadStart, MetadataStart, DumpStart
    <3>2. QED
      BY <3>1, <1>4, <1>5, <1>7, <2>4 DEF ClientCall, ImportInvalid, ImportNoMemory,
         ImportCreate, CallUnregistered, LockBadFence, LockStart, UnlockNotLocked,
         FlushStart, RereadStart, MetadataStart, DumpStart
  <2>5. QED
    BY <2>1, <2>2, <2>3, <2>4
<1>8. CASE ImportStep(t)
  <2>1. CASE ImportAdd(t)
    <3>1. buf[t] \in Addrs /\ buf[t] \notin pool
      BY <2>1 DEF ImportAdd, Ownership
    <3>2. Same
      BY <1>1, <1>2, <2>1, <3>1 DEF ImportAdd
    <3>3. c(buf[t]) = 0 /\ readers[buf[t]] = 0 /\ writers[buf[t]] = 0
      BY <3>1, <1>3 DEF Locked
    <3>4. QED
      BY <3>1, <3>2, <3>3, <1>4, <1>5, <2>1 DEF ImportAdd
  <2>2. CASE ~ImportAdd(t)
    <3>1. Same
      BY <1>1, <1>2, <1>8, <2>2
         DEF ImportStep, ImportDup0, ImportDup1, ImportFail, ImportMapAttr
    <3>2. CASE ImportDup1(t)
      BY <3>1, <3>2, <1>4, <1>5, TailsAssumption DEF ImportDup1, Ownership
    <3>3. QED
      BY <3>1, <3>2, <1>4, <1>5, <1>8, <2>2 DEF ImportStep, ImportDup0, ImportFail,
         ImportMapAttr, DeleteHandle, ForgetHandle, Ownership
  <2>3. QED
    BY <2>1, <2>2
<1>9. CASE FreeStep(t)
  <2>1. Same
    BY <1>1, <1>2, <1>9 DEF FreeStep, FreeUnmap, FreeRelease, FreeDelete
  <2>2. QED
    BY <2>1, <1>4, <1>5, <1>9 DEF FreeStep, FreeUnmap, FreeRelease, FreeDelete,
       DeleteHandle, ForgetHandle, Ownership
<1>10. CASE LockStep(t)
  <2>1. CASE LockCount(t)
    <3>1. More(buf[t])
      BY <1>1, <1>2, <2>1 DEF LockCount
    <3>2. buf[t] \in pool /\ lost \subseteq lost'
      BY <2>1 DEF LockCount, Ownership
    <3>3. buf[t] \notin lost' => lock_count'[buf[t]] = lock_count[buf[t]] + 1
      BY <3>2, <2>1, IntMaxAssumption DEF LockCount, Incremented
    <3>4. QED
      BY <3>1, <3>2, <3>3, <1>1, <1>4, <1>5, <2>1 DEF LockCount, Ownership
  <2>2. CASE LockSyncStart(t)
    <3>1. Less(buf[t])
      BY <1>1, <1>2, <2>2 DEF LockSyncStart
    <3>2. QED
      <4>1. buf[t] \in pool /\ pool' = pool /\ lost' = lost
        BY <2>2 DEF LockSyncStart, Ownership
      <4>2. lock_count' = lock_count /\ residue' = residue
        BY <2>2 DEF LockSyncStart
      <4>3. \A h \in Addrs : readers'[h] + writers'[h]
              = readers[h] + writers[h] + IF h = buf[t] THEN 1 ELSE 0
        BY <2>2, <4>1 DEF LockSyncStart
      <4>4. \A h \in pool' \ lost' :
              lock_count'[h] = residue'[h] + readers'[h] + writers'[h] + cc(h)
        <5>1. \A h \in Addrs : /\ readers'[h] \in Nat /\ writers'[h] \in Nat
                               /\ readers[h] \in Nat /\ writers[h] \in Nat
                               /\ residue[h] \in Nat /\ c(h) \in Nat
          BY <2>2, <1>1 DEF LockSyncStart
        <5>2. \A h : cc(h) = c(h) - IF h = buf[t] THEN 1 ELSE 0
          BY <3>1, <1>1
        <5>3. TAKE h \in pool' \ lost'
        <5>4. h \in Addrs /\ lock_count[h] = residue[h] + readers[h] + writers[h] + c(h)
          BY <4>1, <1>4
        <5>5. readers'[h] + writers'[h] + cc(h) = readers[h] + writers[h] + c(h)
          BY <4>3, <5>1, <5>2, <5>4
        <5>6. cc(h) \in Int
          BY <5>1, <5>2, <5>4
        <5>7. QED
          BY <4>2, <5>1, <5>4, <5>5, <5>6
      <4>5. pc'[t] = "idle"
        BY <2>2 DEF LockSyncStart
      <4>6. QED
        BY <4>1, <4>2, <4>4, <4>5, <1>15
  <2>3. CASE ~(LockCount(t) \/ LockSyncStart(t))
    <3>1. Same
      BY <1>1, <1>2, <1>10, <2>3 DEF LockStep, LockCheck, LockValid, LockInvalid,
         LockMapTest, LockMmap, LockMmapFail, LockFlag
    <3>2. QED
      BY <3>1, <1>4, <1>5, <1>10, <2>3 DEF LockStep, LockCheck, LockValid, LockInvalid,
         LockMapTest, LockMmap, LockMmapFail, LockFlag
  <2>4. QED
    BY <2>1, <2>2, <2>3
<1>11. CASE UnlockStep(t)
  <2>1. CASE UnlockCheck(t)
    <3>1. buf[t] \notin lost => lock_count[buf[t]] # 0
      BY <1>1, <1>2, <1>4, <2>1 DEF UnlockCheck, Ownership
    <3>2. \A h : h \notin lost => cc(h) = c(h)
      BY <1>1, <1>2, <2>1, <3>1 DEF UnlockCheck
    <3>3. QED
      BY <3>2, <1>4, <1>5, <2>1 DEF UnlockCheck
  <2>2. CASE UnlockSyncEndFail(t)
    <3>1. Less(buf[t])
      BY <1>1, <1>2, <2>2 DEF UnlockSyncEndFail
    <3>2. QED
      <4>1. buf[t] \in pool /\ pool' = pool /\ lost' = lost
        BY <2>2 DEF UnlockSyncEndFail, Ownership
      <4>2. lock_count' = lock_count /\ readers' = readers /\ writers' = writers
        BY <2>2 DEF UnlockSyncEndFail
      <4>3. residue' = [residue EXCEPT ![buf[t]] = @ + 1]
        BY <2>2 DEF UnlockSyncEndFail
      <4>4. \A h \in pool' \ lost' :
              lock_count'[h] = residue'[h] + readers'[h] + writers'[h] + cc(h)
        BY <3>1, <4>1, <4>2, <4>3, <1>1, <1>4, <1>14
      <4>5. QED
        BY <2>2, <4>1, <4>2, <4>3, <4>4, <1>15 DEF UnlockSyncEndFail
  <2>3. CASE UnlockTest(t)
    <3>1. buf[t] \notin lost => lock_count[buf[t]] > 0
      BY <1>1, <1>2, <1>4, <2>3 DEF UnlockTest, Ownership
    <3>2. \A h : h \notin lost => cc(h) = c(h)
      BY <1>1, <1>2, <2>3, <3>1 DEF UnlockTest
    <3>3. QED
      BY <3>1, <3>2, <1>4, <1>5, <2>3 DEF UnlockTest
  <2>4. CASE UnlockDecrement(t)
    <3>1. Less(buf[t])
      BY <1>1, <1>2, <2>4 DEF UnlockDecrement
    <3>2. buf[t] \in pool /\ lost \subseteq lost'
      BY <2>4 DEF UnlockDecrement, Ownership
    <3>3. buf[t] \notin lost => lock_count[buf[t]] > 0
      BY <1>1, <1>2, <1>4, <1>14, <2>4, <3>2 DEF UnlockDecrement
    <3>4. buf[t] \notin lost => lock_count'[buf[t]] = lock_count[buf[t]] - 1
      BY <3>2, <3>3, <2>4, IntMaxAssumption DEF UnlockDecrement, Decremented
    <3>5. QED
      BY <3>1, <3>2, <3>4, <1>1, <1>4, <1>5, <2>4 DEF UnlockDecrement, Ownership
  <2>5. CASE UnlockStore(t)
    <3>1. Same
      BY <1>1, <1>2, <2>5 DEF UnlockStore
    <3>2. buf[t] \in lost /\ buf[t] \in pool
      BY <1>5, <2>5 DEF UnlockStore, Ownership
    <3>3. QED
      BY <3>1, <3>2, <1>4, <1>5, <2>5 DEF UnlockStore, Ownership
  <2>6. CASE UnlockSyncEnd(t) \/ UnlockLast(t) \/ UnlockClear(t)
    <3>1. Same
      BY <1>1, <1>2, <2>6 DEF UnlockSyncEnd, UnlockLast, UnlockClear
    <3>2. QED
      BY <3>1, <1>4, <1>5, <2>6 DEF UnlockSyncEnd, UnlockLast, UnlockClear
  <2>7. QED
    BY <1>11, <2>1, <2>2, <2>3, <2>4, <2>5, <2>6 DEF UnlockStep
<1>12. CASE CacheStep(t)
  <2>1. Same
    BY <1>1, <1>2, <1>12 DEF CacheStep, FlushCheck, FlushSyncEnd, RereadCheck,
       RereadSyncStart, MetadataAccess, DumpVisit, DumpEnd
  <2>2. QED
    BY <2>1, <1>4, <1>5, <1>12 DEF CacheStep, FlushCheck, FlushSyncEnd, RereadCheck,
       RereadSyncStart, MetadataAccess, DumpVisit, DumpEnd
<1>13. QED
  BY <1>7, <1>8, <1>9, <1>10, <1>11, <1>12 DEF Step

-----------------------------------------------------------------------------
\* What the rest of the invariant says about the counters a step decrements.
LEMMA CountersPositive ==
  ASSUME IInv, NEW t \in Threads
  PROVE  /\ pc[t] \notin {"idle", "dump"} => buf[t] \in Addrs
         /\ pc[t] = "unmap" /\ base[buf[t]] # "nullptr" => dmaMaps[buf[t]] > 0
         /\ pc[t] = "release" => attrMaps[buf[t]] > 0
         /\ pc[t] = "add" => buf[t] \notin pool
         /\ pc[t] \in {"ucheck", "udec"} /\ buf[t] \notin lost => lock_count[buf[t]] > 0
<1>1. pc[t] \notin {"idle", "dump"} => pc[t] \in OwnLabels \cup UseLabels
  BY DEF IInv, TypeOK, Labels, OwnLabels, UseLabels
<1>2. /\ pc[t] \notin {"idle", "dump"} => buf[t] \in Addrs
      /\ pc[t] = "add" => buf[t] \notin pool
      /\ pc[t] \in {"ucheck", "udec"} => buf[t] \in pool
  BY <1>1 DEF IInv, TypeOK, Ownership, OwnLabels, UseLabels, ImportLabels, UnlockLabels
<1>3. /\ pc[t] = "unmap" /\ base[buf[t]] # "nullptr" => dmaMaps[buf[t]] > 0
      /\ pc[t] = "release" => attrMaps[buf[t]] > 0
  BY <1>2 DEF IInv, TypeOK, Mappings
<1>4. pc[t] \in {"ucheck", "udec"} /\ buf[t] \notin lost => lock_count[buf[t]] > 0
  <2>1. pc[t] \in {"ucheck", "udec"} => t \in Counted(buf[t])
    BY DEF Counted
  <2>2. pc[t] \in {"ucheck", "udec"} => Cardinality(Counted(buf[t])) > 0
    BY <2>1, CountedFacts
  <2>3. QED
    BY <1>2, <2>2, CountedFacts DEF IInv, TypeOK, Counts, LockCountExact
<1>5. QED
  BY <1>2, <1>3, <1>4

\* Every step preserves the types: no counter of mappings or of clients' locks
\* becomes negative, and lock_count stays an int.
LEMMA TypeOKStep ==
  ASSUME IInv, NEW t \in Threads, ClientCall(t) \/ Step(t)
  PROVE  TypeOK'
<1>1. TypeOK
  BY DEF IInv
<1> USE <1>1, CountersPositive, IntMaxAssumption DEF TypeOK, Ints, Usages, Results, Labels, ImportLabels, FreeLabels,
        LockLabels, UnlockLabels, CacheLabels, Call, Goto, Return, ReturnAtOnce, regVars,
        resVars, clientVars, hndVars, fdFields, mapFields
<1>2. CASE ClientCall(t)
  <2>1. CASE ImportCreate(t)
    BY <2>1 DEF ImportCreate
  <2>2. CASE FreeRemove(t)
    BY <2>2 DEF FreeRemove
  <2>3. CASE UnlockStart(t)
    BY <2>3 DEF UnlockStart
  <2>4. CASE UnlockResidue(t)
    BY <2>4 DEF UnlockResidue, Registered
  <2>5. QED
    BY <1>2, <2>1, <2>2, <2>3, <2>4 DEF ClientCall, ImportInvalid, ImportNoMemory,
       CallUnregistered, LockBadFence, LockStart, UnlockNotLocked, FlushStart,
       RereadStart, MetadataStart, DumpStart
<1>3. CASE ImportStep(t)
  <2>1. CASE ImportDup0(t)
    BY <2>1 DEF ImportDup0
  <2>2. CASE ImportDup1(t)
    BY <2>2, TailsAssumption DEF ImportDup1
  <2>3. CASE ImportFail(t)
    BY <2>3 DEF ImportFail, DeleteHandle, ForgetHandle
  <2>4. CASE ImportMapAttr(t)
    BY <2>4 DEF ImportMapAttr
  <2>5. CASE ImportAdd(t)
    BY <2>5 DEF ImportAdd, DeleteHandle, ForgetHandle
  <2>6. QED
    BY <1>3, <2>1, <2>2, <2>3, <2>4, <2>5 DEF ImportStep
<1>4. CASE FreeStep(t)
  <2>1. CASE FreeUnmap(t)
    BY <2>1 DEF FreeUnmap
  <2>2. CASE FreeRelease(t)
    BY <2>2 DEF FreeRelease
  <2>3. CASE FreeDelete(t)
    BY <2>3 DEF FreeDelete, DeleteHandle, ForgetHandle
  <2>4. QED
    BY <1>4, <2>1, <2>2, <2>3 DEF FreeStep
<1>5. CASE LockStep(t)
  <2>1. CASE LockCount(t)
    BY <2>1 DEF LockCount, Incremented
  <2>2. CASE LockSyncStart(t)
    BY <2>2 DEF LockSyncStart
  <2>3. QED
    BY <1>5, <2>1, <2>2 DEF LockStep, LockCheck, LockValid, LockInvalid, LockMapTest,
       LockMmap, LockMmapFail, LockFlag
<1>6. CASE UnlockStep(t)
  <2>1. CASE UnlockDecrement(t)
    BY <2>1 DEF UnlockDecrement, Decremented
  <2>2. CASE UnlockSyncEnd(t) \/ UnlockSyncEndFail(t)
    BY <2>2 DEF UnlockSyncEnd, UnlockSyncEndFail
  <2>3. CASE UnlockStore(t) \/ UnlockClear(t)
    BY <2>3 DEF UnlockStore, UnlockClear
  <2>4. QED
    BY <1>6, <2>1, <2>2, <2>3 DEF UnlockStep, UnlockCheck, UnlockTest, UnlockLast
<1>7. CASE CacheStep(t)
  <2>1. CASE DumpVisit(t) \/ DumpEnd(t)
    BY <2>1 DEF DumpVisit, DumpEnd
  <2>2. CASE FlushSyncEnd(t)
    BY <2>2 DEF FlushSyncEnd
  <2>3. QED
    BY <1>7, <2>1, <2>2 DEF CacheStep, FlushCheck, RereadCheck, RereadSyncStart,
       MetadataAccess
<1>8. QED
  BY <1>2, <1>3, <1>4, <1>5, <1>6, <1>7 DEF Step

\* The initial states satisfy the invariant.
LEMMA InitIInv == Init => IInv
<1> SUFFICES ASSUME Init
             PROVE  IInv
  OBVIOUS
<1> USE DEF Init
<1>1. TypeOK
  BY IntMaxAssumption DEF TypeOK, Ints, Labels, Usages, Results
<1>2. Ownership /\ Mutexes /\ Mappings
  BY ThreadsAssumption DEF Ownership, Mutexes, Mappings, OwnLabels, UseLabels,
     ImportLabels, FreeLabels, LockLabels, UnlockLabels, CacheLabels
<1>3. FdStages /\ FdsDistinct /\ FdsNotLeaked
  BY DEF FdStages, FdsDistinct, FdsNotLeaked
<1>4. Locked /\ Counts
  BY DEF Locked, Counts, LockCountExact
<1>5. QED
  BY <1>1, <1>2, <1>3, <1>4 DEF IInv

\* Every step of Next, and stuttering, preserves the invariant.
LEMMA NextIInv == IInv /\ [Next]_vars => IInv'
<1> SUFFICES ASSUME IInv, [Next]_vars
             PROVE  IInv'
  OBVIOUS
<1>1. CASE Next
  <2>1. PICK t \in Threads : ClientCall(t) \/ Step(t)
    BY <1>1 DEF Next
  <2>2. TypeOK'
    BY <2>1, TypeOKStep
  <2>3. Ownership' /\ Mutexes' /\ Mappings'
    BY <2>1, OwnershipStep, MutexesStep, MappingsStep DEF IInv
  <2>4. FdStages' /\ FdsDistinct' /\ FdsNotLeaked'
    BY <2>1, FdStagesStep, FdsDistinctStep, FdsNotLeakedStep DEF IInv
  <2>5. Locked' /\ Counts'
    BY <2>1, LockedStep, CountsStep DEF IInv
  <2>6. QED
    BY <2>2, <2>3, <2>4, <2>5 DEF IInv
<1>2. CASE UNCHANGED vars
  <2>1. \A h : Counted(h)' = Counted(h)
    BY <1>2 DEF vars, Counted
  <2>2. LockCountExact'
    BY <1>2, <2>1 DEF vars, regVars, hndVars, clientVars, IInv, Counts, LockCountExact
  <2>3. QED
    BY <1>2, <2>2 DEF vars, regVars, hndVars, fdFields, mapFields, resVars, clientVars, IInv,
       TypeOK, Ownership, Mutexes, Mappings, FdStages, FdsDistinct, FdsNotLeaked, Locked, Counts
<1>3. QED
  BY <1>1, <1>2

\* IInv is an invariant of the mapper.
THEOREM Invariance == Spec => []IInv
<1>1. QED
  BY InitIInv, NextIInv, PTL DEF Spec

-----------------------------------------------------------------------------
\* The types are preserved: in particular no mapping is undone twice, and no
\* client gives up a lock that is not counted among its own.
THEOREM TypeCorrect == Spec => []TypeOK
<1>1. IInv => TypeOK
  BY DEF IInv
<1>2. QED
  BY <1>1, Invariance, PTL

\* No descriptor is leaked, shared between handles or closed while a handle
\* still owns it, whatever calls of importBuffer and freeBuffer overlap and
\* wherever an import fails.
THEOREM DescriptorsOwned == Spec => []FdsOwned
<1>1. IInv => FdsOwned
  <2> SUFFICES ASSUME IInv
               PROVE  FdsOwned
    OBVIOUS
  <2> USE FdsAssumption DEF IInv, TypeOK, FdStages
  <2>1. \A h \in Addrs : Owned(h) = {share_fd[h], share_attr_fd[h]} \ {NoFd}
    BY DEF Owned, ClosedByDeleter
  <2>2. \A h \in Addrs : Owned(h) \subseteq openFds
    BY <2>1 DEF FdsDistinct
  <2>3. \A fd \in openFds : \E h \in Addrs : fd \in Owned(h)
    BY <2>1 DEF FdsNotLeaked
  <2>4. openFds = UNION {Owned(h) : h \in Addrs}
    BY <2>2, <2>3
  <2>5. \A h, g \in Addrs : h # g => Owned(h) \cap Owned(g) = {}
    BY <2>1 DEF FdsDistinct
  <2>6. \A h \in pool : /\ numFds[h] = 2
                        /\ share_fd[h] \in Fds /\ share_attr_fd[h] \in Fds
                        /\ share_fd[h] # share_attr_fd[h]
    BY DEF FdsDistinct
  <2>7. QED
    BY <2>4, <2>5, <2>6 DEF FdsOwned
<1>2. QED
  BY <1>1, Invariance, PTL

\* However many lock calls race, a registered handle has at most one mapping
\* of its buffer and exactly one of its attributes, and a handle that is gone
\* has none.
THEOREM MappedOnce == Spec => []MappingsOwned
<1>1. IInv => MappingsOwned
  BY DEF IInv, TypeOK, Mappings, MappingsOwned
<1>2. QED
  BY <1>1, Invariance, PTL

\* No call, and no dumpBuffers walk, reaches a handle that has been released
\* or whose attributes are unmapped; every live handle is in the pool or in the hands of a call.
THEOREM CallsOnLiveHandles == Spec => []HandlesLive
<1>1. IInv => HandlesLive
  <2> SUFFICES ASSUME IInv
               PROVE  HandlesLive
    OBVIOUS
  <2>1. \A t \in Threads : pc[t] \in LockLabels \cup UnlockLabels \cup CacheLabels
                             => buf[t] \in heap /\ attr_base[buf[t]] = "mapped"
    BY DEF IInv, Ownership, Mappings, UseLabels
  <2>2. \A h \in pool \cup dumping : h \in heap /\ attr_base[h] = "mapped"
    BY DEF IInv, Ownership, Mutexes, Mappings
  <2>3. \A h \in heap : h \in pool \/ \E t \in Threads : Using(t, h)
    BY DEF IInv, Ownership, OwnLabels, ImportLabels, FreeLabels, Using
  <2>4. QED
    BY <2>1, <2>2, <2>3 DEF HandlesLive
<1>2. QED
  BY <1>1, Invariance, PTL

\* While a client holds a lock the pointer it was handed stays mapped.
THEOREM LockedStaysMapped == Spec => []LockedIsMapped
<1>1. IInv => LockedIsMapped
  BY DEF IInv, TypeOK, Locked, Mappings, LockedIsMapped
<1>2. QED
  BY <1>1, Invariance, PTL

\* importBuffer never finds its new handle already registered, so its message
\* "potential fd leaking" is never logged.
THEOREM FreshHandles == Spec => []AddNeverFails
<1>1. IInv => AddNeverFails
  BY DEF IInv, Ownership, AddNeverFails, OwnLabels, ImportLabels
<1>2. QED
  BY <1>1, Invariance, PTL

\* No interleaving of lock and unlock loses or doubles a count, or takes one
\* below zero that was not there before.
THEOREM LockCountCorrect == Spec => []LockCountExact
<1>1. IInv => LockCountExact
  BY DEF IInv, Counts
<1>2. QED
  BY <1>1, Invariance, PTL

\* A client that holds a lock is never told that the buffer is not locked, unless
\* the lock_count of its handle has been negative.
THEOREM HolderServed == Spec => HolderNotRefused
<1> DEFINE Refusal(t) ==
      LET h == buf[t] IN h \notin lost =>
        /\ pc[t] = "ucheck" /\ pc'[t] = "idle" => ret' = "NONE"
        /\ pc[t] \in {"fcheck", "rcheck"} /\ readers[h] + writers[h] > 0
             /\ pc'[t] = "idle" => ret' = "NONE"
<1>1. ASSUME IInv, [Next]_vars, NEW t \in Threads, buf[t] \notin lost
      PROVE  Refusal(t)
  <2>1. /\ pc[t] = "ucheck" => lock_count[buf[t]] # 0
        /\ pc[t] \in {"fcheck", "rcheck"} /\ readers[buf[t]] + writers[buf[t]] > 0
             => lock_count[buf[t]] # 0
    <3>1. pc[t] \in {"fcheck", "rcheck"} => buf[t] \in pool
      BY <1>1 DEF IInv, Ownership, UseLabels, CacheLabels
    <3>2. QED
      BY <1>1, <3>1, CountersPositive, CountedFacts
         DEF IInv, TypeOK, Counts, LockCountExact
  <2>2. CASE UNCHANGED vars
    BY <2>2 DEF vars
  <2>3. ASSUME NEW u \in Threads, u # t, ClientCall(u) \/ Step(u)
        PROVE  Refusal(t)
    BY <1>1, <2>3, StepFrame DEF IInv
  <2>4. CASE ClientCall(t)
    BY <2>4 DEF ClientCall, ImportInvalid, ImportNoMemory, ImportCreate, FreeRemove,
       CallUnregistered, LockBadFence, LockStart, UnlockStart, UnlockNotLocked,
       UnlockResidue, FlushStart, RereadStart, MetadataStart, DumpStart, Call,
       ReturnAtOnce
  <2>5. CASE ImportStep(t) \/ FreeStep(t) \/ LockStep(t)
    BY <2>5 DEF ImportStep, ImportDup0, ImportDup1, ImportFail, ImportMapAttr,
       ImportAdd, FreeStep, FreeUnmap, FreeRelease, FreeDelete, LockStep, LockCheck,
       LockValid, LockInvalid, LockMapTest, LockMmap, LockMmapFail, LockCount, LockFlag,
       LockSyncStart
  <2>6. CASE UnlockStep(t)
    BY <1>1, <2>1, <2>6 DEF UnlockStep, UnlockCheck, UnlockSyncEnd, UnlockSyncEndFail,
       UnlockTest, UnlockDecrement, UnlockStore, UnlockLast, UnlockClear, Goto, IInv, TypeOK
  <2>7. CASE CacheStep(t)
    BY <1>1, <2>1, <2>7 DEF CacheStep, FlushCheck, FlushSyncEnd, RereadCheck,
       RereadSyncStart, MetadataAccess, DumpVisit, DumpEnd, Goto, Return, IInv, TypeOK
  <2>8. QED
    BY <1>1, <2>2, <2>3, <2>4, <2>5, <2>6, <2>7 DEF Next, Step
<1>2. IInv /\ [Next]_vars => [\A t \in Threads : Refusal(t)]_vars
  BY <1>1
<1>3. QED
  BY <1>2, Invariance, PTL DEF Spec, HolderNotRefused

-----------------------------------------------------------------------------
(* What lock and unlock do to the CPU caches, for clients that serialise    *)
(* their calls on a handle and hold one lock of it at a time (Exclusive):   *)
(* cpu_write tells whether the buffer is held for writing, and what was     *)
(* written is flushed by the unlock.                                        *)

\* No two calls work on one registered handle.
OneCall ==
  \A t, u \in Threads :
    pc[t] \in UseLabels /\ pc[u] \in UseLabels /\ buf[t] = buf[u] => t = u

\* A client holds at most one lock of a handle, and none while a call takes or
\* gives up its lock.
OneLock ==
  /\ \A h \in pool : readers[h] + writers[h] <= 1
  /\ \A t \in Threads : pc[t] \in LockLabels \cup UnlockLabels =>
       readers[buf[t]] = 0 /\ writers[buf[t]] = 0

\* cpu_write is set while a writer holds the buffer; without a writer, it is
\* set only by what a failed flush left behind, by a lock about to return, or
\* until the unlock in progress clears it.
Flags ==
  /\ \A h \in pool : writers[h] > 0 => cpu_write[h] # 0
  /\ \A h \in pool \ lost : cpu_write[h] # 0 /\ residue[h] = 0 /\ writers[h] = 0 =>
       \E t \in Threads : buf[t] = h /\ pc[t] \in UnlockLabels \cup {"start"}
  /\ \A t \in Threads : pc[t] = "start" => (cpu_write[buf[t]] # 0 <=> Writes(usage[t]))
  /\ \A t \in Threads : pc[t] = "add" => cpu_write[buf[t]] = 0

\* Without a writer, a handle has unflushed writes only until the unlock in
\* progress comes to its flush, which cpu_write does not let it skip.
Flushing ==
  /\ dirty \subseteq pool
  /\ \A h \in dirty \ lost : writers[h] = 0 =>
       /\ cpu_write[h] # 0
       /\ \E t \in Threads : buf[t] = h /\ pc[t] \in {"ucheck", "uend"}

-----------------------------------------------------------------------------
\* With Exclusive clients, a call begins only on a handle no other call uses.
LEMMA OneCallStep ==
  ASSUME Exclusive, TypeOK, Ownership, OneCall,
         NEW t \in Threads, ClientCall(t) \/ Step(t)
  PROVE  OneCall'
<1> USE DEF TypeOK, Ownership, OneCall, Call, Goto, Return, ReturnAtOnce, OwnLabels, UseLabels,
        ImportLabels, FreeLabels, LockLabels, UnlockLabels, CacheLabels, MayCall, Quiet, Using
<1>1. CASE ClientCall(t)
  BY <1>1 DEF ClientCall, ImportInvalid, ImportNoMemory, ImportCreate, FreeRemove,
     CallUnregistered, LockBadFence, LockStart, UnlockStart, UnlockNotLocked,
     UnlockResidue, FlushStart, RereadStart, MetadataStart, DumpStart
<1>2. CASE ImportStep(t)
  BY <1>2 DEF ImportStep, ImportDup0, ImportDup1, ImportFail, ImportMapAttr, ImportAdd
<1>3. CASE FreeStep(t)
  BY <1>3 DEF FreeStep, FreeUnmap, FreeRelease, FreeDelete
<1>4. CASE LockStep(t)
  BY <1>4 DEF LockStep, LockCheck, LockValid, LockInvalid, LockMapTest, LockMmap,
     LockMmapFail, LockCount, LockFlag, LockSyncStart
<1>5. CASE UnlockStep(t)
  BY <1>5 DEF UnlockStep, UnlockCheck, UnlockSyncEnd, UnlockSyncEndFail, UnlockTest,
     UnlockDecrement, UnlockStore, UnlockLast, UnlockClear
<1>6. CASE CacheStep(t)
  BY <1>6 DEF CacheStep, FlushCheck, FlushSyncEnd, RereadCheck, RereadSyncStart,
     MetadataAccess, DumpVisit, DumpEnd
<1>7. QED
  BY <1>1, <1>2, <1>3, <1>4, <1>5, <1>6 DEF Step

\* A lock begins when no lock is held, and nothing else adds one; an unlock gives
\* up the one there is.
LEMMA OneLockStep ==
  ASSUME Exclusive, TypeOK, Ownership, Locked, OneCall, OneLock,
         NEW t \in Threads, ClientCall(t) \/ Step(t)
  PROVE  OneLock'
<1>1. /\ pool \subseteq Addrs
      /\ pc \in [Threads -> Labels] /\ buf \in [Threads -> Addrs \cup {NoAddr}]
      /\ readers \in [Addrs -> Nat] /\ writers \in [Addrs -> Nat]
      /\ \A s \in Threads : pc[s] \in UseLabels => buf[s] \in pool
      /\ \A h \in Addrs : h \notin pool => readers[h] = 0 /\ writers[h] = 0
  BY DEF TypeOK, Ownership, Locked
<1> USE <1>1 DEF OneCall, OneLock, Call, Goto, Return, ReturnAtOnce, regVars, clientVars,
        UseLabels, LockLabels, UnlockLabels, CacheLabels, ImportLabels, OwnLabels
<1>2. CASE ClientCall(t)
  <2>1. CASE FreeRemove(t)
    BY <2>1 DEF FreeRemove, Quiet, Using
  <2>2. CASE LockStart(t)
    BY <2>2 DEF LockStart, Registered
  <2>3. CASE UnlockStart(t)
    <3>1. PICK h \in Addrs, use \in {"read", "write"} : UnlockStart(t)!(h, use)
      BY <2>3 DEF UnlockStart
    <3>2. h \in pool /\ pool' = pool /\ \A s \in Threads : pc[s] # "idle" => buf[s] # h
      BY <3>1 DEF Registered, MayCall, Quiet, Using
    <3>3. readers'[h] = 0 /\ writers'[h] = 0
      <4>1. readers[h] \in Nat /\ writers[h] \in Nat /\ readers[h] + writers[h] <= 1
        BY <3>2
      <4>2. CASE use = "write"
        <5>1. writers[h] > 0 /\ writers'[h] = writers[h] - 1 /\ readers'[h] = readers[h]
          BY <3>1, <4>2
        <5>2. QED
          BY <4>1, <5>1
      <4>3. CASE use # "write"
        <5>1. readers[h] > 0 /\ readers'[h] = readers[h] - 1 /\ writers'[h] = writers[h]
          BY <3>1, <4>3
        <5>2. QED
          BY <4>1, <5>1
      <4>4. QED
        BY <4>2, <4>3
    <3>4. \A g \in Addrs : g # h => readers'[g] = readers[g] /\ writers'[g] = writers[g]
      <4>1. CASE use = "write"
        BY <3>1, <4>1
      <4>2. CASE use # "write"
        BY <3>1, <4>2
      <4>3. QED
        BY <4>1, <4>2
    <3>5. \A g \in pool : readers'[g] + writers'[g] <= 1
      BY <3>2, <3>3, <3>4
    <3>6. \A s \in Threads : s # t => pc'[s] = pc[s] /\ buf'[s] = buf[s]
      BY <3>1
    <3>7. buf'[t] = h
      BY <3>1
    <3>8. QED
      BY <3>2, <3>3, <3>4, <3>5, <3>6, <3>7
  <2>4. CASE UnlockResidue(t)
    BY <2>4 DEF UnlockResidue, Registered
  <2>5. QED
    BY <1>2, <2>1, <2>2, <2>3, <2>4 DEF ClientCall, ImportInvalid, ImportNoMemory, ImportCreate,
       CallUnregistered, LockBadFence, UnlockNotLocked, FlushStart, RereadStart,
       MetadataStart, DumpStart
<1>3. CASE ImportStep(t)
  BY <1>3 DEF ImportStep, ImportDup0, ImportDup1, ImportFail, ImportMapAttr, ImportAdd, Ownership
<1>4. CASE FreeStep(t)
  BY <1>4 DEF FreeStep, FreeUnmap, FreeRelease, FreeDelete
<1>5. CASE LockStep(t)
  <2>1. CASE LockSyncStart(t)
    BY <2>1 DEF LockSyncStart
  <2>2. QED
    BY <1>5, <2>1 DEF LockStep, LockCheck, LockValid, LockInvalid, LockMapTest, LockMmap,
       LockMmapFail, LockCount, LockFlag
<1>6. CASE UnlockStep(t)
  BY <1>6 DEF UnlockStep, UnlockCheck, UnlockSyncEnd, UnlockSyncEndFail, UnlockTest,
     UnlockDecrement, UnlockStore, UnlockLast, UnlockClear
<1>7. CASE CacheStep(t)
  BY <1>7 DEF CacheStep, FlushCheck, FlushSyncEnd, RereadCheck, RereadSyncStart,
     MetadataAccess, DumpVisit, DumpEnd
<1>8. QED
  BY <1>2, <1>3, <1>4, <1>5, <1>6, <1>7 DEF Step

\* When an unlock has counted its lock off, what is left of lock_count is residue.
LEMMA OnlyResidueLeft ==
  ASSUME IInv, OneCall, OneLock, NEW t \in Threads, pc[t] = "uzero", buf[t] \notin lost
  PROVE  lock_count[buf[t]] = residue[buf[t]]
<1>1. buf[t] \in pool /\ readers[buf[t]] = 0 /\ writers[buf[t]] = 0
  BY DEF IInv, Ownership, OneLock, UseLabels, UnlockLabels
<1>2. Counted(buf[t]) = {}
  BY DEF OneCall, Counted, UseLabels, LockLabels, UnlockLabels
<1>3. QED
  BY <1>1, <1>2, CountedFacts DEF IInv, TypeOK, Counts, LockCountExact

\* cpu_write is set by the lock of a writer and cleared by the unlock that takes
\* lock_count to zero: an unlock that stops earlier leaves a residue.
LEMMA FlagsStep ==
  ASSUME Exclusive, IInv, OneCall, OneLock, Flags,
         NEW t \in Threads, ClientCall(t) \/ Step(t)
  PROVE  Flags'
<1>1. /\ pool \subseteq Addrs
      /\ pc \in [Threads -> Labels] /\ buf \in [Threads -> Addrs \cup {NoAddr}]
      /\ usage \in [Threads -> Usages]
      /\ readers \in [Addrs -> Nat] /\ writers \in [Addrs -> Nat]
      /\ residue \in [Addrs -> Nat] /\ cpu_write \in [Addrs -> {0, 1}]
      /\ \A s \in Threads : pc[s] \in UseLabels => buf[s] \in pool
      /\ \A s \in Threads : pc[s] \in OwnLabels => buf[s] \in Addrs /\ buf[s] \notin pool
  BY DEF IInv, TypeOK, Ownership
<1>2. \A s \in Threads : s # t /\ pc[s] \in OwnLabels /\ pc[t] \in OwnLabels => buf[s] # buf[t]
  BY DEF IInv, Ownership
<1>3. /\ pc[t] = "ucheck" /\ buf[t] \notin lost => lock_count[buf[t]] # 0
      /\ pc[t] = "uzero" /\ buf[t] \notin lost => lock_count[buf[t]] = residue[buf[t]]
  BY CountersPositive, OnlyResidueLeft
<1>4. \A h \in Addrs \ pool : writers[h] = 0
  BY <1>1 DEF IInv, Locked
<1>12. ASSUME pool' = pool, cpu_write' = cpu_write, writers' = writers, residue' = residue,
              lost \subseteq lost', pc'[t] \notin {"start", "add"},
              pc[t] \in UnlockLabels \cup {"start"} /\ buf[t] \notin lost' =>
                pc'[t] \in UnlockLabels /\ buf'[t] = buf[t]
       PROVE  Flags'
  BY <1>1, <1>12, StepFrame DEF IInv, Flags
<1> USE <1>1 DEF OneCall, OneLock, Flags, Call, Goto, Return, ReturnAtOnce, regVars, clientVars,
        hndVars, UseLabels, LockLabels, UnlockLabels, CacheLabels, ImportLabels, FreeLabels,
        OwnLabels
<1>5. CASE ClientCall(t)
  <2>1. CASE ImportCreate(t)
    BY <2>1 DEF ImportCreate, IInv, Ownership
  <2>2. CASE FreeRemove(t)
    BY <2>2 DEF FreeRemove, Quiet, Using
  <2>3. CASE UnlockStart(t)
    <3>1. PICK h \in Addrs, use \in {"read", "write"} : UnlockStart(t)!(h, use)
      BY <2>3 DEF UnlockStart
    <3>2. h \in pool /\ pool' = pool /\ cpu_write' = cpu_write /\ residue' = residue
      BY <3>1 DEF Registered
    <3>3. \A g \in Addrs : g # h => writers'[g] = writers[g]
      BY <3>1
    <3>4. writers'[h] <= writers[h]
      BY <3>1
    <3>5. QED
      BY <3>1, <3>2, <3>3, <3>4
  <2>4. CASE UnlockResidue(t)
    BY <2>4 DEF UnlockResidue, Registered
  <2>5. QED
    BY <1>5, <2>1, <2>2, <2>3, <2>4 DEF ClientCall, ImportInvalid, ImportNoMemory,
       CallUnregistered, LockBadFence, LockStart, UnlockNotLocked, FlushStart, RereadStart,
       MetadataStart, DumpStart
<1>6. CASE ImportStep(t)
  <2>1. CASE ImportDup0(t)
    BY <2>1 DEF ImportDup0
  <2>2. CASE ImportDup1(t)
    BY <2>2 DEF ImportDup1
  <2>3. CASE ImportFail(t)
    BY <1>2, <2>3 DEF ImportFail, DeleteHandle, ForgetHandle
  <2>4. CASE ImportMapAttr(t)
    BY <1>2, <2>4 DEF ImportMapAttr
  <2>5. CASE ImportAdd(t)
    BY <1>2, <1>4, <2>5 DEF ImportAdd
  <2>6. QED
    BY <1>6, <2>1, <2>2, <2>3, <2>4, <2>5 DEF ImportStep
<1>7. CASE FreeStep(t)
  <2>1. CASE FreeUnmap(t)
    BY <1>2, <2>1 DEF FreeUnmap
  <2>2. CASE FreeRelease(t)
    BY <1>2, <2>2 DEF FreeRelease
  <2>3. CASE FreeDelete(t)
    BY <1>2, <2>3 DEF FreeDelete, DeleteHandle, ForgetHandle
  <2>4. QED
    BY <1>7, <2>1, <2>2, <2>3 DEF FreeStep
<1>8. CASE LockStep(t)
  <2>1. CASE LockFlag(t)
    BY <2>1 DEF LockFlag
  <2>2. CASE LockSyncStart(t)
    BY <2>2 DEF LockSyncStart
  <2>3. CASE LockCount(t)
    <3>1. lost \subseteq lost'
      BY <2>3 DEF LockCount
    <3>2. QED
      BY <1>12, <2>3, <3>1 DEF LockCount
  <2>4. CASE LockCheck(t) \/ LockValid(t) \/ LockInvalid(t)
    BY <1>12, <2>4 DEF LockCheck, LockValid, LockInvalid
  <2>5. CASE LockMapTest(t) \/ LockMmap(t) \/ LockMmapFail(t)
    BY <1>12, <2>5 DEF LockMapTest, LockMmap, LockMmapFail
  <2>6. QED
    BY <1>8, <2>1, <2>2, <2>3, <2>4, <2>5 DEF LockStep
<1>9. CASE UnlockStep(t)
  <2>1. CASE UnlockCheck(t)
    <3>1. buf[t] \in lost \/ (pc'[t] \in UnlockLabels /\ buf'[t] = buf[t])
      BY <1>3, <2>1 DEF UnlockCheck
    <3>2. QED
      BY <1>12, <2>1, <3>1 DEF UnlockCheck
  <2>2. CASE UnlockSyncEndFail(t)
    BY <2>2 DEF UnlockSyncEndFail
  <2>3. CASE UnlockLast(t)
    <3>1. \/ buf[t] \in lost \/ residue[buf[t]] # 0
          \/ (pc'[t] \in UnlockLabels /\ buf'[t] = buf[t])
      BY <1>3, <2>3 DEF UnlockLast
    <3>2. QED
      BY <2>3, <3>1 DEF UnlockLast
  <2>4. CASE UnlockClear(t)
    BY <2>4 DEF UnlockClear
  <2>5. CASE UnlockDecrement(t)
    <3>1. lost \subseteq lost'
      BY <2>5 DEF UnlockDecrement
    <3>2. QED
      BY <1>12, <2>5, <3>1 DEF UnlockDecrement
  <2>6. CASE UnlockSyncEnd(t) \/ UnlockTest(t) \/ UnlockStore(t)
    BY <1>12, <2>6 DEF UnlockSyncEnd, UnlockTest, UnlockStore
  <2>7. QED
    BY <1>9, <2>1, <2>2, <2>3, <2>4, <2>5, <2>6 DEF UnlockStep
<1>10. CASE CacheStep(t)
  BY <1>10, <1>12 DEF CacheStep, FlushCheck, FlushSyncEnd, RereadCheck, RereadSyncStart,
     MetadataAccess, DumpVisit, DumpEnd
<1>11. QED
  BY <1>5, <1>6, <1>7, <1>8, <1>9, <1>10 DEF Step

\* Unflushed writes are left without a writer only between the beginning of an
\* unlock and its flush, which is never skipped when no flush fails.
LEMMA FlushingStep ==
  ASSUME Exclusive, MaxResidue = 0, IInv, OneCall, OneLock, Flags, Flushing,
         NEW t \in Threads, ClientCall(t) \/ Step(t)
  PROVE  Flushing'
<1>1. /\ pool \subseteq Addrs
      /\ pc \in [Threads -> Labels] /\ buf \in [Threads -> Addrs \cup {NoAddr}]
      /\ usage \in [Threads -> Usages]
      /\ readers \in [Addrs -> Nat] /\ writers \in [Addrs -> Nat]
      /\ residue \in [Addrs -> Nat] /\ cpu_write \in [Addrs -> {0, 1}]
      /\ \A s \in Threads : pc[s] \in UseLabels => buf[s] \in pool
      /\ \A s \in Threads : pc[s] \in OwnLabels => buf[s] \in Addrs /\ buf[s] \notin pool
  BY DEF IInv, TypeOK, Ownership
<1>2. pc[t] = "ucheck" /\ buf[t] \notin lost => lock_count[buf[t]] # 0
  BY CountersPositive
<1>3. \A h \in pool : writers[h] > 0 => cpu_write[h] # 0
  BY DEF Flags
<1>11. ASSUME pool' = pool, cpu_write' = cpu_write, writers' = writers, dirty' = dirty,
              lost \subseteq lost',
              pc[t] \in {"ucheck", "uend"} /\ buf[t] \notin lost' =>
                pc'[t] \in {"ucheck", "uend"} /\ buf'[t] = buf[t]
       PROVE  Flushing'
  BY <1>1, <1>11, StepFrame DEF IInv, Flushing
<1> USE <1>1 DEF OneCall, OneLock, Flushing, Call, Goto, Return, ReturnAtOnce, regVars,
        clientVars, hndVars, UseLabels, LockLabels, UnlockLabels, CacheLabels, ImportLabels,
        FreeLabels, OwnLabels
<1>4. CASE ClientCall(t)
  <2>1. CASE ImportCreate(t)
    BY <2>1 DEF ImportCreate, IInv, Ownership
  <2>2. CASE FreeRemove(t)
    BY <2>2 DEF FreeRemove, Quiet, Using
  <2>3. CASE UnlockStart(t)
    <3>1. PICK h \in Addrs, use \in {"read", "write"} : UnlockStart(t)!(h, use)
      BY <2>3 DEF UnlockStart
    <3>2. h \in pool /\ pool' = pool /\ cpu_write' = cpu_write /\ dirty' = dirty
          /\ lost' = lost
      BY <3>1 DEF Registered
    <3>3. \A g \in Addrs : g # h => writers'[g] = writers[g]
      BY <3>1
    <3>4. buf'[t] = h /\ pc'[t] = "ucheck"
      BY <3>1
    <3>5. \A s \in Threads : pc[s] # "idle" => s # t /\ pc'[s] = pc[s] /\ buf'[s] = buf[s]
      BY <3>1
    <3>6. h \in dirty \ lost => cpu_write[h] # 0
      BY <1>3, <3>2
    <3>7. QED
      BY <3>2, <3>3, <3>4, <3>5, <3>6
  <2>4. CASE UnlockResidue(t)
    BY <2>4 DEF UnlockResidue, Registered
  <2>5. QED
    BY <1>4, <2>1, <2>2, <2>3, <2>4 DEF ClientCall, ImportInvalid, ImportNoMemory,
       CallUnregistered, LockBadFence, LockStart, UnlockNotLocked, FlushStart, RereadStart,
       MetadataStart, DumpStart
<1>5. CASE ImportStep(t)
  <2>1. CASE ImportFail(t)
    BY <2>1 DEF ImportFail, DeleteHandle, ForgetHandle
  <2>2. CASE ImportMapAttr(t)
    BY <2>2 DEF ImportMapAttr
  <2>3. CASE ImportAdd(t)
    BY <2>3 DEF ImportAdd
  <2>4. QED
    BY <1>5, <2>1, <2>2, <2>3 DEF ImportStep, ImportDup0, ImportDup1
<1>6. CASE FreeStep(t)
  <2>1. CASE FreeUnmap(t)
    BY <2>1 DEF FreeUnmap
  <2>2. CASE FreeRelease(t)
    BY <2>2 DEF FreeRelease
  <2>3. CASE FreeDelete(t)
    BY <2>3 DEF FreeDelete, DeleteHandle, ForgetHandle
  <2>4. QED
    BY <1>6, <2>1, <2>2, <2>3 DEF FreeStep
<1>7. CASE LockStep(t)
  <2>1. CASE LockFlag(t)
    BY <2>1 DEF LockFlag
  <2>2. CASE LockSyncStart(t)
    BY <2>2 DEF LockSyncStart
  <2>3. CASE LockCount(t)
    <3>1. lost \subseteq lost'
      BY <2>3 DEF LockCount
    <3>2. QED
      BY <1>11, <2>3, <3>1 DEF LockCount
  <2>4. CASE LockCheck(t) \/ LockValid(t) \/ LockInvalid(t)
    BY <1>11, <2>4 DEF LockCheck, LockValid, LockInvalid
  <2>5. CASE LockMapTest(t) \/ LockMmap(t) \/ LockMmapFail(t)
    BY <1>11, <2>5 DEF LockMapTest, LockMmap, LockMmapFail
  <2>6. QED
    BY <1>7, <2>1, <2>2, <2>3, <2>4, <2>5 DEF LockStep
<1>8. CASE UnlockStep(t)
  <2>1. CASE UnlockCheck(t)
    <3>1. buf[t] \in lost \/ (pc'[t] = "uend" /\ buf'[t] = buf[t])
      BY <1>2, <2>1 DEF UnlockCheck
    <3>2. QED
      BY <1>11, <2>1, <3>1 DEF UnlockCheck
  <2>2. CASE UnlockSyncEnd(t)
    BY <2>2 DEF UnlockSyncEnd
  <2>3. ~UnlockSyncEndFail(t)
    BY DEF UnlockSyncEndFail
  <2>4. CASE UnlockClear(t)
    BY <2>4 DEF UnlockClear
  <2>5. CASE UnlockDecrement(t)
    <3>1. lost \subseteq lost'
      BY <2>5 DEF UnlockDecrement
    <3>2. QED
      BY <1>11, <2>5, <3>1 DEF UnlockDecrement
  <2>6. CASE UnlockTest(t) \/ UnlockStore(t) \/ UnlockLast(t)
    BY <1>11, <2>6 DEF UnlockTest, UnlockStore, UnlockLast
  <2>7. QED
    BY <1>8, <2>1, <2>2, <2>3, <2>4, <2>5, <2>6 DEF UnlockStep
<1>9. CASE CacheStep(t)
  <2>1. CASE FlushSyncEnd(t)
    BY <2>1 DEF FlushSyncEnd
  <2>2. QED
    BY <1>9, <2>1 DEF CacheStep, FlushCheck, RereadCheck, RereadSyncStart, MetadataAccess,
       DumpVisit, DumpEnd
<1>10. QED
  BY <1>4, <1>5, <1>6, <1>7, <1>8, <1>9 DEF Step

-----------------------------------------------------------------------------
\* With Exclusive clients the flags are an invariant, whether or not flushes fail.
THEOREM FlagsInvariance ==
  ASSUME Exclusive
  PROVE  Spec => [](IInv /\ OneCall /\ OneLock /\ Flags)
<1> DEFINE FInv == IInv /\ OneCall /\ OneLock /\ Flags
<1>1. Init => FInv
  <2>1. Init => OneCall /\ OneLock /\ Flags
    BY DEF Init, OneCall, OneLock, Flags, UseLabels, LockLabels, UnlockLabels, CacheLabels
  <2>2. QED
    BY <2>1, InitIInv
<1>2. FInv /\ [Next]_vars => FInv'
  <2> SUFFICES ASSUME FInv, [Next]_vars
               PROVE  FInv'
    OBVIOUS
  <2>1. IInv'
    BY NextIInv
  <2>2. CASE Next
    <3>1. PICK t \in Threads : ClientCall(t) \/ Step(t)
      BY <2>2 DEF Next
    <3>2. OneCall' /\ OneLock' /\ Flags'
      BY <3>1, OneCallStep, OneLockStep, FlagsStep DEF IInv
    <3>3. QED
      BY <2>1, <3>2
  <2>3. CASE UNCHANGED vars
    BY <2>1, <2>3 DEF vars, regVars, hndVars, clientVars, OneCall, OneLock, Flags
  <2>4. QED
    BY <2>2, <2>3
<1>3. QED
  BY <1>1, <1>2, PTL DEF Spec

\* Between calls of clients that do not overlap their locks, cpu_write says
\* whether a client holds the buffer for writing, even after flushes that failed
\* (as long as lock_count is that of the clients and was never negative).
THEOREM CpuWriteCorrect ==
  ASSUME Exclusive
  PROVE  Spec => []CpuWriteMeansLocked
<1>1. IInv /\ Flags => CpuWriteMeansLocked
  <2> SUFFICES ASSUME IInv, Flags, NEW h \in pool \ lost, Quiet(h), residue[h] = 0
               PROVE  cpu_write[h] # 0 <=> writers[h] > 0
    BY DEF CpuWriteMeansLocked
  <2>1. h \in Addrs /\ writers[h] \in Nat
    BY DEF IInv, TypeOK
  <2>2. \A t \in Threads : ~ (buf[t] = h /\ pc[t] \in UnlockLabels \cup {"start"})
    BY DEF Quiet, Using, UnlockLabels
  <2>3. QED
    BY <2>1, <2>2 DEF Flags
<1>2. QED
  BY <1>1, FlagsInvariance, PTL

\* If no flush fails, the unlock of the last writer has written everything back
\* when it returns: no interleaving of the calls of other threads, on this handle
\* or another, makes it skip the flush.  Of a handle whose lock_count has been
\* negative nothing is claimed: there unlock may be refused before the flush.
THEOREM UnlockFlushes ==
  ASSUME Exclusive, MaxResidue = 0
  PROVE  Spec => []WritesFlushed
<1>1. Init => Flushing
  BY DEF Init, Flushing
<1>2. IInv /\ OneCall /\ OneLock /\ Flags /\ Flushing /\ [Next]_vars => Flushing'
  <2>1. ASSUME IInv, OneCall, OneLock, Flags, Flushing, Next
        PROVE  Flushing'
    <3>1. PICK t \in Threads : ClientCall(t) \/ Step(t)
      BY <2>1 DEF Next
    <3>2. QED
      BY <2>1, <3>1, FlushingStep
  <2>2. Flushing /\ UNCHANGED vars => Flushing'
    BY DEF vars, regVars, hndVars, clientVars, Flushing
  <2>3. QED
    BY <2>1, <2>2
<1>3. Flushing => WritesFlushed
  BY DEF Flushing, WritesFlushed, Quiet, Using
<1>4. QED
  BY <1>1, <1>2, <1>3, FlagsInvariance, PTL DEF Spec
=============================================================================
