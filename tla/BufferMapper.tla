---------------------------- MODULE BufferMapper ----------------------------
(***************************************************************************)
(* The buffer mapper of one client process: the pool of registered        *)
(* handles, importBuffer / freeBuffer and the CPU access calls lock,       *)
(* unlock, flushLockedBuffer and rereadLockedBuffer, executed by several   *)
(* threads of the process at once.                                         *)
(*                                                                         *)
(* A thread runs one call at a time, as a sequence of steps; a step is a   *)
(* piece of the call that touches shared state once (a critical section of *)
(* the pool mutex, a read or a write of a field of the handle, a system    *)
(* call).  cpu_write is a plain int and lock_count an atomic, so every     *)
(* read and write of them is a step of its own.                            *)
(*                                                                         *)
(* Handles live at heap addresses and file descriptors are numbers: both   *)
(* are reused as soon as they are released, which is what makes a double   *)
(* close or an early release visible.                                      *)
(***************************************************************************)
EXTENDS Integers, FiniteSets

CONSTANTS
  Threads,     \* threads of the client process
  Addrs,       \* heap addresses native_handle_create may return
  Fds,         \* file descriptor numbers dup may return
  IntMax,      \* the largest int
  Tails,       \* values the last int of a raw handle may hold
  NoThread, NoAddr, NoFd,
  MaxLocks,    \* bound: locks of one handle a client holds at once
  MaxResidue,  \* bound: excess of lock_count a failed cache flush may build up
  Exclusive    \* TRUE: clients serialise their calls on a handle

ASSUME ThreadsAssumption == IsFiniteSet(Threads) /\ NoThread \notin Threads
ASSUME AddrsAssumption == NoAddr \notin Addrs
ASSUME FdsAssumption == NoFd \notin Fds
ASSUME IntMaxAssumption == IntMax \in Nat
ASSUME TailsAssumption == Tails \subseteq (-IntMax - 1) .. IntMax
ASSUME BoundsAssumption ==
  MaxLocks \in Nat /\ MaxResidue \in Nat /\ Exclusive \in BOOLEAN

VARIABLES
  pool,       \* gRegisteredHandles->bufPool
  poolMutex,  \* holder of the pool's mutex, when it is held across steps
  dumping,    \* handles dumpBuffers has still to visit under that mutex
  mapMutex,   \* holder of g_map_mutex
  heap,       \* addresses at which an imported_handle is allocated
  format, numFds, share_fd, share_attr_fd,      \* the fields of the
  attr_base, base, lock_count, cpu_write,       \* handle at each address
  openFds,    \* descriptors the mapper has open
  attrMaps,   \* live mmaps of share_attr_fd, by handle
  dmaMaps,    \* live mmaps of share_fd, by handle
  pc,         \* each thread's position in its call
  buf, usage, \* the call's arguments
  ret,        \* what the last step returned to a client, if it returned
  readers,    \* read locks each handle's clients hold
  writers,    \* write (or read/write) locks each handle's clients hold
  residue,    \* part of lock_count that no client lock accounts for
  lost,       \* handles whose lock_count has been negative since their import
  dirty       \* handles with CPU writes not yet written back by CpuSyncEnd

regVars    == <<pool, poolMutex, dumping>>
fdFields   == <<numFds, share_fd, share_attr_fd>>
mapFields  == <<attr_base, base>>
hndVars    == <<format, fdFields, mapFields, lock_count, cpu_write>>
resVars    == <<openFds, attrMaps, dmaMaps>>
clientVars == <<readers, writers, residue, lost, dirty>>
vars == <<regVars, mapMutex, heap, hndVars, resVars, pc, buf, usage, ret, clientVars>>

Usages == {"none", "read", "write", "both"}
Results == {"pending", "NONE", "BAD_BUFFER", "BAD_VALUE", "NO_RESOURCES"}
Writes(use) == use \in {"write", "both"}

\* lock_count is a std::atomic<int>, whose arithmetic wraps around.
Ints == (-IntMax - 1) .. IntMax
Incremented(n) == IF n = IntMax THEN -IntMax - 1 ELSE n + 1
Decremented(n) == IF n = -IntMax - 1 THEN IntMax ELSE n - 1

ImportLabels == {"dup0", "dup1", "attr", "add"}
FreeLabels   == {"unmap", "release", "delete"}
LockLabels   == {"check", "fence", "map", "mmap", "count", "flag", "start"}
UnlockLabels == {"ucheck", "uend", "utest", "udec", "ustore", "uzero", "uclear"}
CacheLabels  == {"fcheck", "fend", "rcheck", "rstart", "meta"}
Labels == {"idle", "dump"} \cup ImportLabels \cup FreeLabels
            \cup LockLabels \cup UnlockLabels \cup CacheLabels

Init ==
  /\ pool = {}
  /\ poolMutex = NoThread
  /\ dumping = {}
  /\ mapMutex = NoThread
  /\ heap = {}
  /\ format = [h \in Addrs |-> "other"]
  /\ numFds = [h \in Addrs |-> 0]
  /\ share_fd = [h \in Addrs |-> NoFd]
  /\ share_attr_fd = [h \in Addrs |-> NoFd]
  /\ attr_base = [h \in Addrs |-> "MAP_FAILED"]
  /\ base = [h \in Addrs |-> "nullptr"]
  /\ lock_count = [h \in Addrs |-> 0]
  /\ cpu_write = [h \in Addrs |-> 0]
  /\ openFds = {}
  /\ attrMaps = [h \in Addrs |-> 0]
  /\ dmaMaps = [h \in Addrs |-> 0]
  /\ pc = [t \in Threads |-> "idle"]
  /\ buf = [t \in Threads |-> NoAddr]
  /\ usage = [t \in Threads |-> "none"]
  /\ ret = "pending"
  /\ readers = [h \in Addrs |-> 0]
  /\ writers = [h \in Addrs |-> 0]
  /\ residue = [h \in Addrs |-> 0]
  /\ lost = {}
  /\ dirty = {}

-----------------------------------------------------------------------------
\* Control flow of a thread.

Call(t, h, use, label) ==
  /\ pc[t] = "idle"
  /\ pc' = [pc EXCEPT ![t] = label]
  /\ buf' = [buf EXCEPT ![t] = h]
  /\ usage' = [usage EXCEPT ![t] = use]
  /\ ret' = "pending"

Goto(t, label) ==
  /\ pc' = [pc EXCEPT ![t] = label]
  /\ ret' = "pending"
  /\ UNCHANGED <<buf, usage>>

Return(t, result) ==
  /\ pc' = [pc EXCEPT ![t] = "idle"]
  /\ buf' = [buf EXCEPT ![t] = NoAddr]
  /\ usage' = [usage EXCEPT ![t] = "none"]
  /\ ret' = result

\* A call that returns without a state change of its own.
ReturnAtOnce(t, result) ==
  /\ pc[t] = "idle"
  /\ ret' = result
  /\ UNCHANGED <<regVars, mapMutex, heap, hndVars, resVars, pc, buf, usage, clientVars>>

Using(t, h) == pc[t] # "idle" /\ buf[t] = h
Quiet(h) == \A t \in Threads : ~Using(t, h)

\* What the API expects of a client: it serialises its calls on one handle
\* when Exclusive, and never frees a handle another call is working on.
MayCall(h) == Exclusive => Quiet(h)

\* RegisteredHandlePool::get, one critical section of the pool mutex.
Registered(h) == poolMutex = NoThread /\ h \in pool
Unregistered(h) == poolMutex = NoThread /\ h \notin pool

\* native_handle_deleter: closes the first numFds descriptors and frees the
\* handle; close(-1) has no effect.
ClosedByDeleter(h) ==
  (IF numFds[h] >= 1 THEN {share_fd[h]} ELSE {})
    \cup (IF numFds[h] = 2 THEN {share_attr_fd[h]} ELSE {})

ForgetHandle(h) ==
  /\ format' = [format EXCEPT ![h] = "other"]
  /\ numFds' = [numFds EXCEPT ![h] = 0]
  /\ share_fd' = [share_fd EXCEPT ![h] = NoFd]
  /\ share_attr_fd' = [share_attr_fd EXCEPT ![h] = NoFd]
  /\ attr_base' = [attr_base EXCEPT ![h] = "MAP_FAILED"]
  /\ base' = [base EXCEPT ![h] = "nullptr"]
  /\ lock_count' = [lock_count EXCEPT ![h] = 0]
  /\ cpu_write' = [cpu_write EXCEPT ![h] = 0]

DeleteHandle(h) ==
  /\ openFds' = openFds \ ClosedByDeleter(h)
  /\ heap' = heap \ {h}
  /\ ForgetHandle(h)

-----------------------------------------------------------------------------
\* Slips of the kind this code invites, for testing the properties: each takes
\* the place of the action it is named after and makes a property fail.

\* make_imported_handle's caller forgets to map the attribute region.
ImportDup1_NoAttrMap(t) ==
  LET h == buf[t] IN
  /\ pc[t] = "dup1"
  /\ \E fd \in Fds \ openFds :
       /\ openFds' = openFds \cup {fd}
       /\ share_attr_fd' = [share_attr_fd EXCEPT ![h] = fd]
  /\ numFds' = [numFds EXCEPT ![h] = 2]
  /\ Goto(t, "add")
  /\ UNCHANGED <<regVars, mapMutex, heap, format, share_fd, mapFields, lock_count,
                 cpu_write, attrMaps, dmaMaps, clientVars>>

\* freeBuffer looks the handle up but leaves it in the pool.
FreeRemove_GetOnly(t) ==
  \E h \in Addrs :
    /\ Registered(h)
    /\ Quiet(h)
    /\ Call(t, h, "none", "unmap")
    /\ readers' = [readers EXCEPT ![h] = 0]
    /\ writers' = [writers EXCEPT ![h] = 0]
    /\ residue' = [residue EXCEPT ![h] = 0]
    /\ lost' = lost \ {h}
    /\ dirty' = dirty \ {h}
    /\ UNCHANGED <<regVars, mapMutex, heap, hndVars, resVars>>

\* mali_unmap_buffer without the test of base.
FreeUnmap_Always(t) ==
  LET h == buf[t] IN
  /\ pc[t] = "unmap"
  /\ mapMutex = NoThread
  /\ dmaMaps' = [dmaMaps EXCEPT ![h] = @ - 1]
  /\ base' = [base EXCEPT ![h] = "nullptr"]
  /\ cpu_write' = [cpu_write EXCEPT ![h] = 0]
  /\ lock_count' = [lock_count EXCEPT ![h] = 0]
  /\ Goto(t, "release")
  /\ UNCHANGED <<regVars, mapMutex, heap, format, fdFields, attr_base, openFds,
                 attrMaps, clientVars>>

\* freeBuffer closes share_attr_fd but does not set it to -1.
FreeRelease_KeepsFd(t) ==
  LET h == buf[t] IN
  /\ pc[t] = "release"
  /\ attrMaps' = [attrMaps EXCEPT ![h] = @ - 1]
  /\ openFds' = openFds \ {share_attr_fd[h]}
  /\ attr_base' = [attr_base EXCEPT ![h] = "MAP_FAILED"]
  /\ Goto(t, "delete")
  /\ UNCHANGED <<regVars, mapMutex, heap, format, fdFields, base, lock_count, cpu_write,
                 dmaMaps, clientVars>>

\* lockBuffer takes the buffer for mapped.
LockValid_NoMap(t) ==
  /\ pc[t] = "fence"
  /\ IF usage[t] = "none" THEN Return(t, "NONE") ELSE Goto(t, "count")
  /\ UNCHANGED <<regVars, mapMutex, heap, hndVars, resVars, clientVars>>

\* mali_map_buffer without g_map_mutex.
LockMapTest_NoMutex(t) ==
  /\ pc[t] = "map"
  /\ Goto(t, IF base[buf[t]] # "nullptr" THEN "count" ELSE "mmap")
  /\ UNCHANGED <<regVars, mapMutex, heap, hndVars, resVars, clientVars>>

\* The error path of mali_map_buffer keeps g_map_mutex.
LockMmapFail_KeepsMutex(t) ==
  /\ pc[t] = "mmap"
  /\ Return(t, "NO_RESOURCES")
  /\ UNCHANGED <<regVars, mapMutex, heap, hndVars, resVars, clientVars>>

\* lock_count as a flag instead of a count.
LockCount_Flag(t) ==
  /\ pc[t] = "count"
  /\ lock_count' = [lock_count EXCEPT ![buf[t]] = 1]
  /\ Goto(t, "flag")
  /\ UNCHANGED <<regVars, mapMutex, heap, format, fdFields, mapFields, cpu_write, resVars,
                 clientVars>>

\* unlock does not write the caches back.
UnlockCheck_NoSync(t) ==
  /\ pc[t] = "ucheck"
  /\ IF lock_count[buf[t]] = 0 THEN Return(t, "BAD_BUFFER") ELSE Goto(t, "utest")
  /\ UNCHANGED <<regVars, mapMutex, heap, hndVars, resVars, clientVars>>

\* unlock releases every lock of the handle.
UnlockDecrement_ToZero(t) ==
  /\ pc[t] = "udec"
  /\ lock_count' = [lock_count EXCEPT ![buf[t]] = 0]
  /\ Goto(t, "uzero")
  /\ UNCHANGED <<regVars, mapMutex, heap, format, fdFields, mapFields, cpu_write, resVars,
                 clientVars>>

\* The last unlock leaves cpu_write set.
UnlockClear_Forgets(t) ==
  /\ pc[t] = "uclear"
  /\ Return(t, "NONE")
  /\ UNCHANGED <<regVars, mapMutex, heap, hndVars, resVars, clientVars>>

-----------------------------------------------------------------------------
\* importBuffer

\* The raw handle fails handle_cast.
ImportInvalid(t) == ReturnAtOnce(t, "BAD_BUFFER")

\* native_handle_create returns nullptr.
ImportNoMemory(t) == ReturnAtOnce(t, "NO_RESOURCES")

\* native_handle_create returns uninitialised memory, with numFds set to 0;
\* base and cpu_write hold garbage until the handle is about to be registered.
ImportCreate(t) ==
  \E h \in Addrs \ heap, garbage \in BOOLEAN, fmt \in {"BLOB", "other"} :
    /\ heap' = heap \cup {h}
    /\ format' = [format EXCEPT ![h] = fmt]
    /\ base' = [base EXCEPT ![h] = IF garbage THEN "mapped" ELSE "nullptr"]
    /\ cpu_write' = [cpu_write EXCEPT ![h] = IF garbage THEN 1 ELSE 0]
    /\ Call(t, h, "none", "dup0")
    /\ UNCHANGED <<regVars, mapMutex, fdFields, attr_base, lock_count, resVars, clientVars>>

ImportDup0(t) ==
  LET h == buf[t] IN
  /\ pc[t] = "dup0"
  /\ \E fd \in Fds \ openFds :
       /\ openFds' = openFds \cup {fd}
       /\ share_fd' = [share_fd EXCEPT ![h] = fd]
  /\ numFds' = [numFds EXCEPT ![h] = 1]
  /\ Goto(t, "dup1")
  /\ UNCHANGED <<regVars, mapMutex, heap, format, share_attr_fd, mapFields, lock_count,
                 cpu_write, attrMaps, dmaMaps, clientVars>>

\* The second dup succeeds and the shared ints are copied.  lock_count is a
\* member of imported_handle placed in the tail padding of private_handle_t,
\* the last of the copied ints, and importBuffer does not initialise it.  In
\* the raw handle that int is memory make_private_handle never writes, so it may
\* hold any value.
ImportDup1(t) ==
  LET h == buf[t] IN
  /\ pc[t] = "dup1"
  /\ \E fd \in Fds \ openFds, tail \in Tails :
       /\ openFds' = openFds \cup {fd}
       /\ share_attr_fd' = [share_attr_fd EXCEPT ![h] = fd]
       /\ lock_count' = [lock_count EXCEPT ![h] = tail]
       /\ residue' = [residue EXCEPT ![h] = IF tail < 0 THEN 0 ELSE tail]
       /\ lost' = IF tail < 0 THEN lost \cup {h} ELSE lost \ {h}
  /\ numFds' = [numFds EXCEPT ![h] = 2]
  /\ Goto(t, "attr")
  /\ UNCHANGED <<regVars, mapMutex, heap, format, share_fd, mapFields, cpu_write,
                 attrMaps, dmaMaps, readers, writers, dirty>>

\* A dup fails, or mmap of the attribute region fails: the deleter runs.
ImportFail(t) ==
  /\ pc[t] \in {"dup0", "dup1", "attr"}
  /\ DeleteHandle(buf[t])
  /\ Return(t, "NO_RESOURCES")
  /\ UNCHANGED <<regVars, mapMutex, attrMaps, dmaMaps, clientVars>>

ImportMapAttr(t) ==
  LET h == buf[t] IN
  /\ pc[t] = "attr"
  /\ attrMaps' = [attrMaps EXCEPT ![h] = @ + 1]
  /\ attr_base' = [attr_base EXCEPT ![h] = "mapped"]
  /\ base' = [base EXCEPT ![h] = "nullptr"]
  /\ cpu_write' = [cpu_write EXCEPT ![h] = 0]
  /\ Goto(t, "add")
  /\ UNCHANGED <<regVars, mapMutex, heap, format, fdFields, lock_count, openFds, dmaMaps,
                 clientVars>>

\* Registration; if the address were already registered the scope guard
\* unmaps the attribute region and the deleter runs.
ImportAdd(t) ==
  LET h == buf[t] IN
  /\ pc[t] = "add"
  /\ poolMutex = NoThread
  /\ pool' = pool \cup {h}
  /\ IF h \notin pool
     THEN /\ Return(t, "NONE")
          /\ UNCHANGED <<heap, hndVars, resVars>>
     ELSE /\ attrMaps' = [attrMaps EXCEPT ![h] = @ - 1]
          /\ DeleteHandle(h)
          /\ Return(t, "NO_RESOURCES")
          /\ UNCHANGED dmaMaps
  /\ UNCHANGED <<poolMutex, dumping, mapMutex, clientVars>>

-----------------------------------------------------------------------------
\* freeBuffer

\* RegisteredHandlePool::remove.  The client's locks go with the handle.
FreeRemove(t) ==
  \E h \in Addrs :
    /\ Registered(h)
    /\ Quiet(h)
    /\ pool' = pool \ {h}
    /\ Call(t, h, "none", "unmap")
    /\ readers' = [readers EXCEPT ![h] = 0]
    /\ writers' = [writers EXCEPT ![h] = 0]
    /\ residue' = [residue EXCEPT ![h] = 0]
    /\ lost' = lost \ {h}
    /\ dirty' = dirty \ {h}
    /\ UNCHANGED <<poolMutex, dumping, mapMutex, heap, hndVars, resVars>>

\* mali_unmap_buffer: one critical section of g_map_mutex.
FreeUnmap(t) ==
  LET h == buf[t] IN
  /\ pc[t] = "unmap"
  /\ mapMutex = NoThread
  /\ IF base[h] # "nullptr"
     THEN /\ dmaMaps' = [dmaMaps EXCEPT ![h] = @ - 1]
          /\ base' = [base EXCEPT ![h] = "nullptr"]
          /\ cpu_write' = [cpu_write EXCEPT ![h] = 0]
          /\ lock_count' = [lock_count EXCEPT ![h] = 0]
     ELSE UNCHANGED <<dmaMaps, base, cpu_write, lock_count>>
  /\ Goto(t, "release")
  /\ UNCHANGED <<regVars, mapMutex, heap, format, fdFields, attr_base, openFds, attrMaps,
                 clientVars>>

\* munmap of the attribute region and close of its descriptor, which is then
\* set to -1 so that the deleter leaves the number alone.
FreeRelease(t) ==
  LET h == buf[t] IN
  /\ pc[t] = "release"
  /\ attrMaps' = [attrMaps EXCEPT ![h] = @ - 1]
  /\ openFds' = openFds \ {share_attr_fd[h]}
  /\ share_attr_fd' = [share_attr_fd EXCEPT ![h] = NoFd]
  /\ attr_base' = [attr_base EXCEPT ![h] = "MAP_FAILED"]
  /\ Goto(t, "delete")
  /\ UNCHANGED <<regVars, mapMutex, heap, format, numFds, share_fd, base, lock_count,
                 cpu_write, dmaMaps, clientVars>>

FreeDelete(t) ==
  /\ pc[t] = "delete"
  /\ DeleteHandle(buf[t])
  /\ Return(t, "NONE")
  /\ UNCHANGED <<regVars, mapMutex, attrMaps, dmaMaps, clientVars>>

-----------------------------------------------------------------------------
\* lock

\* Any call on a pointer that is not registered.
CallUnregistered(t) ==
  /\ \E h \in Addrs : Unregistered(h)
  /\ ReturnAtOnce(t, "BAD_BUFFER")

\* An acquire fence handle with more than one descriptor.
LockBadFence(t) ==
  /\ \E h \in Addrs : Registered(h)
  /\ ReturnAtOnce(t, "BAD_VALUE")

LockStart(t) ==
  \E h \in Addrs, use \in Usages :
    /\ Registered(h)
    /\ MayCall(h)
    /\ Exclusive => readers[h] + writers[h] = 0
    /\ readers[h] + writers[h] < MaxLocks
    /\ Call(t, h, use, "check")
    /\ UNCHANGED <<regVars, mapMutex, heap, hndVars, resVars, clientVars>>

\* lockBuffer refuses a second writer, unless the format is BLOB.
LockCheck(t) ==
  LET h == buf[t] IN
  /\ pc[t] = "check"
  /\ IF cpu_write[h] # 0 /\ Writes(usage[t]) /\ format[h] # "BLOB"
     THEN Return(t, "BAD_BUFFER")
     ELSE Goto(t, "fence")
  /\ UNCHANGED <<regVars, mapMutex, heap, hndVars, resVars, clientVars>>

\* sync_wait returns; the access region and the importing process are valid
\* (usages without CPU access need no mapping and leave the handle alone).
LockValid(t) ==
  /\ pc[t] = "fence"
  /\ IF usage[t] = "none" THEN Return(t, "NONE") ELSE Goto(t, "map")
  /\ UNCHANGED <<regVars, mapMutex, heap, hndVars, resVars, clientVars>>

\* validate_lock_input_parameters or get_base_info refuses.
LockInvalid(t) ==
  /\ pc[t] = "fence"
  /\ Return(t, "BAD_VALUE")
  /\ UNCHANGED <<regVars, mapMutex, heap, hndVars, resVars, clientVars>>

\* mali_map_buffer: take g_map_mutex and test base.
LockMapTest(t) ==
  LET h == buf[t] IN
  /\ pc[t] = "map"
  /\ mapMutex = NoThread
  /\ IF base[h] # "nullptr"
     THEN UNCHANGED mapMutex /\ Goto(t, "count")
     ELSE mapMutex' = t /\ Goto(t, "mmap")
  /\ UNCHANGED <<regVars, heap, hndVars, resVars, clientVars>>

LockMmap(t) ==
  LET h == buf[t] IN
  /\ pc[t] = "mmap"
  /\ dmaMaps' = [dmaMaps EXCEPT ![h] = @ + 1]
  /\ base' = [base EXCEPT ![h] = "mapped"]
  /\ mapMutex' = NoThread
  /\ Goto(t, "count")
  /\ UNCHANGED <<regVars, heap, format, fdFields, attr_base, lock_count, cpu_write,
                 openFds, attrMaps, clientVars>>

\* mmap fails: -EINVAL is reported as BAD_VALUE, any other errno as
\* NO_RESOURCES.
LockMmapFail(t) ==
  /\ pc[t] = "mmap"
  /\ mapMutex' = NoThread
  /\ \E result \in {"BAD_VALUE", "NO_RESOURCES"} : Return(t, result)
  /\ UNCHANGED <<regVars, heap, hndVars, resVars, clientVars>>

\* buffer_sync, for a lock: three accesses to the handle.
LockCount(t) ==
  LET h == buf[t] IN
  /\ pc[t] = "count"
  /\ lock_count' = [lock_count EXCEPT ![h] = Incremented(@)]
  /\ lost' = IF lock_count'[h] < 0 THEN lost \cup {h} ELSE lost
  /\ Goto(t, "flag")
  /\ UNCHANGED <<regVars, mapMutex, heap, format, fdFields, mapFields, cpu_write, resVars,
                 readers, writers, residue, dirty>>

LockFlag(t) ==
  /\ pc[t] = "flag"
  /\ cpu_write' = [cpu_write EXCEPT ![buf[t]] = IF Writes(usage[t]) THEN 1 ELSE 0]
  /\ Goto(t, "start")
  /\ UNCHANGED <<regVars, mapMutex, heap, format, fdFields, mapFields, lock_count, resVars,
                 clientVars>>

\* CpuSyncStart, whose failure is ignored.  The client now holds the lock and,
\* if it is a write lock, writes through the mapping before it unlocks.
LockSyncStart(t) ==
  LET h == buf[t] IN
  /\ pc[t] = "start"
  /\ readers' = [readers EXCEPT ![h] = IF Writes(usage[t]) THEN @ ELSE @ + 1]
  /\ writers' = [writers EXCEPT ![h] = IF Writes(usage[t]) THEN @ + 1 ELSE @]
  /\ dirty' = IF Writes(usage[t]) THEN dirty \cup {h} ELSE dirty
  /\ Return(t, "NONE")
  /\ UNCHANGED <<regVars, mapMutex, heap, hndVars, resVars, residue, lost>>

-----------------------------------------------------------------------------
\* unlock

\* The client gives up one of its locks; usage records which kind.
UnlockStart(t) ==
  \E h \in Addrs, use \in {"read", "write"} :
    /\ Registered(h)
    /\ MayCall(h)
    /\ IF use = "write"
       THEN /\ writers[h] > 0
            /\ writers' = [writers EXCEPT ![h] = @ - 1]
            /\ UNCHANGED readers
       ELSE /\ readers[h] > 0
            /\ readers' = [readers EXCEPT ![h] = @ - 1]
            /\ UNCHANGED writers
    /\ Call(t, h, use, "ucheck")
    /\ UNCHANGED <<regVars, mapMutex, heap, hndVars, resVars, residue, lost, dirty>>

\* The client unlocks a handle it holds no lock of.  The source expects clients
\* to adhere to the call sequence, so this happens only while no other call
\* works on the handle.  unlockBuffer refuses it when lock_count is 0 ...
UnlockNotLocked(t) ==
  /\ \E h \in Addrs : /\ Registered(h)
                      /\ Quiet(h)
                      /\ lock_count[h] = 0
  /\ ReturnAtOnce(t, "BAD_BUFFER")

\* ... and otherwise unlocks the part of lock_count nobody accounts for, or a
\* negative count.
UnlockResidue(t) ==
  \E h \in Addrs :
    /\ Registered(h)
    /\ Quiet(h)
    /\ readers[h] + writers[h] = 0
    /\ lock_count[h] # 0
    /\ Call(t, h, "none", "ucheck")
    /\ residue' = [residue EXCEPT ![h] = IF @ > 0 THEN @ - 1 ELSE 0]
    /\ UNCHANGED <<regVars, mapMutex, heap, hndVars, resVars, readers, writers, lost, dirty>>

UnlockCheck(t) ==
  /\ pc[t] = "ucheck"
  /\ IF lock_count[buf[t]] = 0
     THEN Return(t, "BAD_BUFFER")
     ELSE Goto(t, "uend")
  /\ UNCHANGED <<regVars, mapMutex, heap, hndVars, resVars, clientVars>>

\* buffer_sync, for an unlock: write the caches back if cpu_write is set.
UnlockSyncEnd(t) ==
  LET h == buf[t] IN
  /\ pc[t] = "uend"
  /\ dirty' = IF cpu_write[h] # 0 /\ writers[h] = 0 THEN dirty \ {h} ELSE dirty
  /\ Goto(t, "utest")
  /\ UNCHANGED <<regVars, mapMutex, heap, hndVars, resVars, readers, writers, residue, lost>>

\* CpuSyncEnd fails: buffer_sync returns early, lock_count keeps the lock and
\* mali_gralloc_unlock reports success all the same.
UnlockSyncEndFail(t) ==
  LET h == buf[t] IN
  /\ pc[t] = "uend"
  /\ cpu_write[h] # 0
  /\ residue[h] < MaxResidue
  /\ residue' = [residue EXCEPT ![h] = @ + 1]
  /\ Return(t, "NONE")
  /\ UNCHANGED <<regVars, mapMutex, heap, hndVars, resVars, readers, writers, lost, dirty>>

\* lock_count > 0 ? --lock_count : lock_count = 0, in two accesses.
UnlockTest(t) ==
  /\ pc[t] = "utest"
  /\ Goto(t, IF lock_count[buf[t]] > 0 THEN "udec" ELSE "ustore")
  /\ UNCHANGED <<regVars, mapMutex, heap, hndVars, resVars, clientVars>>

UnlockDecrement(t) ==
  LET h == buf[t] IN
  /\ pc[t] = "udec"
  /\ lock_count' = [lock_count EXCEPT ![h] = Decremented(@)]
  /\ lost' = IF lock_count'[h] < 0 THEN lost \cup {h} ELSE lost
  /\ Goto(t, "uzero")
  /\ UNCHANGED <<regVars, mapMutex, heap, format, fdFields, mapFields, cpu_write, resVars,
                 readers, writers, residue, dirty>>

UnlockStore(t) ==
  /\ pc[t] = "ustore"
  /\ lock_count' = [lock_count EXCEPT ![buf[t]] = 0]
  /\ Goto(t, "uzero")
  /\ UNCHANGED <<regVars, mapMutex, heap, format, fdFields, mapFields, cpu_write, resVars,
                 clientVars>>

UnlockLast(t) ==
  /\ pc[t] = "uzero"
  /\ IF lock_count[buf[t]] = 0
     THEN Goto(t, "uclear")
     ELSE Return(t, "NONE")
  /\ UNCHANGED <<regVars, mapMutex, heap, hndVars, resVars, clientVars>>

UnlockClear(t) ==
  /\ pc[t] = "uclear"
  /\ cpu_write' = [cpu_write EXCEPT ![buf[t]] = 0]
  /\ Return(t, "NONE")
  /\ UNCHANGED <<regVars, mapMutex, heap, format, fdFields, mapFields, lock_count, resVars,
                 clientVars>>

-----------------------------------------------------------------------------
\* flushLockedBuffer, rereadLockedBuffer and the calls on metadata

FlushStart(t) ==
  \E h \in Addrs :
    /\ Registered(h)
    /\ MayCall(h)
    /\ Call(t, h, "none", "fcheck")
    /\ UNCHANGED <<regVars, mapMutex, heap, hndVars, resVars, clientVars>>

FlushCheck(t) ==
  /\ pc[t] = "fcheck"
  /\ IF lock_count[buf[t]] = 0
     THEN Return(t, "BAD_BUFFER")
     ELSE Goto(t, "fend")
  /\ UNCHANGED <<regVars, mapMutex, heap, hndVars, resVars, clientVars>>

\* CpuSyncEnd for writing; its status is not looked at.
FlushSyncEnd(t) ==
  LET h == buf[t] IN
  /\ pc[t] = "fend"
  /\ dirty' \in {dirty, IF writers[h] = 0 THEN dirty \ {h} ELSE dirty}
  /\ Return(t, "NONE")
  /\ UNCHANGED <<regVars, mapMutex, heap, hndVars, resVars, readers, writers, residue, lost>>

RereadStart(t) ==
  \E h \in Addrs :
    /\ Registered(h)
    /\ MayCall(h)
    /\ Call(t, h, "none", "rcheck")
    /\ UNCHANGED <<regVars, mapMutex, heap, hndVars, resVars, clientVars>>

RereadCheck(t) ==
  /\ pc[t] = "rcheck"
  /\ IF lock_count[buf[t]] = 0
     THEN Return(t, "BAD_BUFFER")
     ELSE Goto(t, "rstart")
  /\ UNCHANGED <<regVars, mapMutex, heap, hndVars, resVars, clientVars>>

\* CpuSyncStart for reading; its status is not looked at.
RereadSyncStart(t) ==
  /\ pc[t] = "rstart"
  /\ Return(t, "NONE")
  /\ UNCHANGED <<regVars, mapMutex, heap, hndVars, resVars, clientVars>>

\* set, get of a mutable type and getReservedRegion: pool lookup, then an
\* access to the attribute region through attr_base.
MetadataStart(t) ==
  \E h \in Addrs :
    /\ Registered(h)
    /\ MayCall(h)
    /\ Call(t, h, "none", "meta")
    /\ UNCHANGED <<regVars, mapMutex, heap, hndVars, resVars, clientVars>>

MetadataAccess(t) ==
  /\ pc[t] = "meta"
  /\ Return(t, "NONE")
  /\ UNCHANGED <<regVars, mapMutex, heap, hndVars, resVars, clientVars>>

\* dumpBuffers: for_each holds the pool mutex while it reads the metadata of
\* every registered handle.
DumpStart(t) ==
  /\ poolMutex = NoThread
  /\ poolMutex' = t
  /\ dumping' = pool
  /\ Call(t, NoAddr, "none", "dump")
  /\ UNCHANGED <<pool, mapMutex, heap, hndVars, resVars, clientVars>>

DumpVisit(t) ==
  /\ pc[t] = "dump"
  /\ \E h \in dumping : dumping' = dumping \ {h}
  /\ Goto(t, "dump")
  /\ UNCHANGED <<pool, poolMutex, mapMutex, heap, hndVars, resVars, clientVars>>

DumpEnd(t) ==
  /\ pc[t] = "dump"
  /\ dumping = {}
  /\ poolMutex' = NoThread
  /\ Return(t, "NONE")
  /\ UNCHANGED <<pool, dumping, mapMutex, heap, hndVars, resVars, clientVars>>

-----------------------------------------------------------------------------
\* A client decides to call; a call in progress takes its next step.

ClientCall(t) ==
  \/ ImportInvalid(t) \/ ImportNoMemory(t) \/ ImportCreate(t)
  \/ FreeRemove(t) \/ CallUnregistered(t) \/ LockBadFence(t) \/ LockStart(t)
  \/ UnlockStart(t) \/ UnlockNotLocked(t) \/ UnlockResidue(t)
  \/ FlushStart(t) \/ RereadStart(t) \/ MetadataStart(t) \/ DumpStart(t)

ImportStep(t) ==
  ImportDup0(t) \/ ImportDup1(t) \/ ImportFail(t) \/ ImportMapAttr(t) \/ ImportAdd(t)

FreeStep(t) == FreeUnmap(t) \/ FreeRelease(t) \/ FreeDelete(t)

LockStep(t) ==
  \/ LockCheck(t) \/ LockValid(t) \/ LockInvalid(t) \/ LockMapTest(t) \/ LockMmap(t)
  \/ LockMmapFail(t) \/ LockCount(t) \/ LockFlag(t) \/ LockSyncStart(t)

UnlockStep(t) ==
  \/ UnlockCheck(t) \/ UnlockSyncEnd(t) \/ UnlockSyncEndFail(t) \/ UnlockTest(t)
  \/ UnlockDecrement(t) \/ UnlockStore(t) \/ UnlockLast(t) \/ UnlockClear(t)

CacheStep(t) ==
  \/ FlushCheck(t) \/ FlushSyncEnd(t) \/ RereadCheck(t) \/ RereadSyncStart(t)
  \/ MetadataAccess(t) \/ DumpVisit(t) \/ DumpEnd(t)

Step(t) == ImportStep(t) \/ FreeStep(t) \/ LockStep(t) \/ UnlockStep(t) \/ CacheStep(t)

Next == \E t \in Threads : ClientCall(t) \/ Step(t)

Spec == Init /\ [][Next]_vars

\* Threads are scheduled, system calls return and acquire fences signal;
\* nothing obliges a client to call.
FairSpec == Spec /\ \A t \in Threads : WF_vars(Step(t))

-----------------------------------------------------------------------------
TypeOK ==
  /\ pool \subseteq Addrs
  /\ poolMutex \in Threads \cup {NoThread}
  /\ dumping \subseteq Addrs
  /\ mapMutex \in Threads \cup {NoThread}
  /\ heap \subseteq Addrs
  /\ format \in [Addrs -> {"BLOB", "other"}]
  /\ numFds \in [Addrs -> 0 .. 2]
  /\ share_fd \in [Addrs -> Fds \cup {NoFd}]
  /\ share_attr_fd \in [Addrs -> Fds \cup {NoFd}]
  /\ attr_base \in [Addrs -> {"MAP_FAILED", "mapped"}]
  /\ base \in [Addrs -> {"nullptr", "mapped"}]
  /\ lock_count \in [Addrs -> Ints]
  /\ cpu_write \in [Addrs -> {0, 1}]
  /\ openFds \subseteq Fds
  /\ attrMaps \in [Addrs -> Nat]
  /\ dmaMaps \in [Addrs -> Nat]
  /\ pc \in [Threads -> Labels]
  /\ buf \in [Threads -> Addrs \cup {NoAddr}]
  /\ usage \in [Threads -> Usages]
  /\ ret \in Results
  /\ readers \in [Addrs -> Nat]
  /\ writers \in [Addrs -> Nat]
  /\ residue \in [Addrs -> Nat]
  /\ lost \subseteq Addrs
  /\ dirty \subseteq Addrs

\* The descriptors a handle is responsible for closing.
Owned(h) == ClosedByDeleter(h) \ {NoFd}

\* No descriptor is leaked, shared or closed behind its handle's back: the
\* open descriptors are exactly those of live handles (registered, half
\* imported or half freed), and no two handles own the same one.  About the
\* cleanup paths of make_imported_handle and importBuffer and the order of
\* close calls in freeBuffer while other threads dup.
FdsOwned ==
  /\ openFds = UNION {Owned(h) : h \in Addrs}
  /\ \A h, g \in Addrs : h # g => Owned(h) \cap Owned(g) = {}
  /\ \A h \in pool : /\ numFds[h] = 2
                     /\ share_fd[h] \in Fds /\ share_attr_fd[h] \in Fds
                     /\ share_fd[h] # share_attr_fd[h]

\* The buffer is mapped once however many lock calls race, and each handle's
\* mappings are exactly those its fields record: nothing stays mapped after
\* freeBuffer or a failed import.  About mali_map_buffer, mali_unmap_buffer
\* and the scope guard of importBuffer.
MappingsOwned ==
  \A h \in Addrs :
    /\ attrMaps[h] = IF attr_base[h] = "mapped" THEN 1 ELSE 0
    /\ h \in pool => dmaMaps[h] = IF base[h] = "mapped" THEN 1 ELSE 0
    /\ h \notin heap => dmaMaps[h] = 0

\* A call that looked its handle up, and dumpBuffers walking the pool, only
\* ever touch live handles whose attribute region is mapped; a live handle is
\* registered or in the hands of a call.  About the order of registration and
\* release in importBuffer and freeBuffer.
HandlesLive ==
  /\ \A t \in Threads : pc[t] \in LockLabels \cup UnlockLabels \cup CacheLabels
                          => buf[t] \in heap /\ attr_base[buf[t]] = "mapped"
  /\ \A h \in pool \cup dumping : h \in heap /\ attr_base[h] = "mapped"
  /\ \A h \in heap : h \in pool \/ \E t \in Threads : Using(t, h)

\* A locked buffer is mapped: from the moment lock counts the lock until the
\* client gives it up the pointer it was handed stays valid.
LockedIsMapped ==
  \A h \in pool : readers[h] + writers[h] > 0 => base[h] = "mapped" /\ dmaMaps[h] = 1

\* importBuffer never finds the address of its new handle already registered:
\* freeBuffer takes a handle out of the pool before its memory is freed.
AddNeverFails == \A t \in Threads : pc[t] = "add" => buf[t] \notin pool

\* Calls that have counted their lock, or have still to uncount it.
Counted(h) == {t \in Threads : buf[t] = h
                 /\ pc[t] \in {"flag", "start", "ucheck", "uend", "utest", "udec"}}

\* lock_count counts the locks clients hold, the calls that are changing it
\* and the residue it started with or that failed flushes left: no
\* interleaving of lock and unlock loses or doubles a count, or takes it below
\* zero.  About the handles whose count has not been negative: importBuffer can
\* start one there, and so can a lock that overflows it.
LockCountExact ==
  \A h \in pool \ lost :
    lock_count[h] = residue[h] + readers[h] + writers[h] + Cardinality(Counted(h))

\* unlock, flushLockedBuffer and rereadLockedBuffer succeed for a client that
\* holds a lock on the handle, unless its lock_count has been negative.
HolderNotRefused ==
  [][\A t \in Threads :
       LET h == buf[t] IN h \notin lost =>
         /\ pc[t] = "ucheck" /\ pc'[t] = "idle" => ret' = "NONE"
         /\ pc[t] \in {"fcheck", "rcheck"} /\ readers[h] + writers[h] > 0
              /\ pc'[t] = "idle" => ret' = "NONE"]_vars

\* The mapper behaves like the contract in which import, free, map, lock and
\* unlock happen at one instant each: add to the pool, removal from it, the
\* mmap, the increment and the decrement.  However the calls of the threads
\* overlap, a lock is counted only on an imported and mapped buffer, a count
\* goes up or down by one, it is lost only when a handle is imported with a
\* negative one or a lock overflows it, and neither the mapping nor the count of
\* an imported handle is touched by a free or an import that is under way.  The
\* contract sees a handle only while it is in the pool.
Contract == INSTANCE LockContract WITH
  Handles <- Addrs,
  Counts <- Tails,
  MaxCount <- IntMax,
  imported <- pool,
  mapped <- {h \in pool : base[h] # "nullptr"},
  locks <- [h \in Addrs |-> IF h \notin pool THEN 0 ELSE IF h \in lost THEN -1
                                                       ELSE lock_count[h]]

ImplementsContract == Contract!CSpec

\* Between calls, and when clients do not overlap their locks, cpu_write says
\* whether a client holds the buffer for writing.  About the assignments to
\* cpu_write in buffer_sync, on a handle whose count started at 0.
CpuWriteMeansLocked ==
  \A h \in pool \ lost :
    Quiet(h) /\ residue[h] = 0 => (cpu_write[h] # 0 <=> writers[h] > 0)

\* Of cpu_write the structure says "Buffer is locked for CPU write when non-zero",
\* however many locks of the handle a client holds.
CpuWriteSaysLocked ==
  \A h \in pool \ lost : Quiet(h) /\ cpu_write[h] # 0 => writers[h] > 0

\* Once the last writer has unlocked, nothing it wrote is left in the CPU
\* caches: unlock has written it back, unless the handle's lock_count has been
\* negative.
WritesFlushed ==
  \A h \in pool \ lost : Quiet(h) /\ writers[h] = 0 => h \notin dirty

\* unlock succeeds for a client that holds a lock, whatever the raw handle held:
\* of the results unlockBuffer documents, "Error::BAD_BUFFER for an invalid
\* buffer" is not one it may get.
UnlockServesHolder ==
  [][\A t \in Threads : pc[t] = "ucheck" /\ pc'[t] = "idle" => ret' = "NONE"]_vars

\* flushLockedBuffer gets as far as the cache operation only for a buffer some
\* client has locked (or is locking or unlocking): "BAD_BUFFER for an invalid
\* buffer or a buffer that has not been locked".
FlushOnlyLocked ==
  \A t \in Threads : pc[t] = "fend" => LET h == buf[t] IN
    readers[h] + writers[h] > 0 \/ \E u \in Threads \ {t} : Using(u, h)

\* An unlock that reports success has released the client's lock: no
\* lock_count is left that no client lock accounts for.
UnlockReleases ==
  [][\A t \in Threads :
       pc[t] \in UnlockLabels /\ pc'[t] = "idle" /\ ret' = "NONE"
         => residue'[buf[t]] = residue[buf[t]]]_vars

\* From some moment on no client makes a new call.
ClientsPause == <>[][\A t \in Threads : pc[t] = "idle" => pc'[t] = "idle"]_vars

\* If clients stop calling, every call in progress returns: no path through the
\* calls, of success or failure, leaves a mutex held.
CallsReturn == ClientsPause => <>[](\A t \in Threads : pc[t] = "idle")
=============================================================================
