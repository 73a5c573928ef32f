--------------------------- MODULE BufferAllocator ---------------------------
(***************************************************************************)
(* The allocator service: arm::allocator::common::allocate and the HIDL     *)
(* and AIDL front ends that call it, executed by the binder threads of the  *)
(* service process.  A request asks for count buffers of one descriptor;    *)
(* they are made one after the other, each from a dma-buf, a unique id and  *)
(* a shared attribute region, and any step may fail.                        *)
(*                                                                          *)
(* The format of a buffer, and with it the stride, is derived again for     *)
(* every buffer of a request.  It depends on system properties and on the   *)
(* cached framebuffer size, which may change while a request is served.     *)
(* The contents of the buffers (AFBC headers) are not modelled.             *)
(***************************************************************************)
EXTENDS Integers, FiniteSets

CONSTANTS
  Threads,     \* binder threads of the service
  Addrs,       \* heap addresses native_handle_create may return
  Fds,         \* file descriptor numbers of the service
  Strides,     \* pixel strides the descriptor may lead to
  NoAddr, NoFd, NoId,
  IdMod,       \* number of values of the id counter (2^32 in the source)
  MaxCount,    \* bound: buffers of one request
  MaxAllocs    \* bound: ids handed out over the life of the service

ASSUME AddrsAssumption == NoAddr \notin Addrs
ASSUME FdsAssumption == NoFd \notin Fds
ASSUME StridesAssumption == Strides \subseteq Nat \ {0}
ASSUME BoundsAssumption == MaxCount \in Nat /\ MaxAllocs \in Nat
ASSUME IdAssumption == IdMod \in Nat \ {0} /\ MaxAllocs <= IdMod /\ NoId \notin Nat

VARIABLES
  selection,   \* the stride the descriptors lead to right now
  counter,     \* getUniqueId's static counter
  allocs,      \* ids handed out so far
  sent,        \* history: the ids of the buffers clients were given
  heap,        \* addresses at which a private_handle_t is allocated
  openFds,     \* descriptors the service has open
  share_fd, share_attr_fd, backing_store_id, stride, \* fields of the handle at
  metadata,    \* each address; TRUE once shared_metadata_init has run for it
  pc,          \* each thread's position in its request
  count, i,    \* buffers asked for, and made so far
  pixel_stride,     \* of the request's descriptor, as derived last
  first_stride,     \* the local variable stride of allocate
  hnd,              \* the handle being made
  gralloc_buffers,  \* the handles made so far
  result            \* what the last step answered a request, if it did

fieldVars == <<share_fd, share_attr_fd, backing_store_id, stride, metadata>>
idVars    == <<counter, allocs, sent>>
reqVars   == <<count, i, pixel_stride, first_stride, gralloc_buffers>>
vars == <<selection, idVars, heap, openFds, fieldVars, pc, reqVars, hnd, result>>

Labels == {"idle", "derive", "alloc", "id", "attr", "meta", "stride", "sent"}
Results == {"pending", "NONE", "BAD_DESCRIPTOR", "NO_RESOURCES", "UNSUPPORTED"}

Init ==
  /\ selection \in Strides
  /\ counter = 0
  /\ allocs = 0
  /\ sent = {}
  /\ heap = {}
  /\ openFds = {}
  /\ share_fd = [h \in Addrs |-> NoFd]
  /\ share_attr_fd = [h \in Addrs |-> NoFd]
  /\ backing_store_id = [h \in Addrs |-> NoId]
  /\ stride = [h \in Addrs |-> 0]
  /\ metadata = [h \in Addrs |-> FALSE]
  /\ pc = [t \in Threads |-> "idle"]
  /\ count = [t \in Threads |-> 0]
  /\ i = [t \in Threads |-> 0]
  /\ pixel_stride = [t \in Threads |-> 0]
  /\ first_stride = [t \in Threads |-> 0]
  /\ hnd = [t \in Threads |-> NoAddr]
  /\ gralloc_buffers = [t \in Threads |-> {}]
  /\ result = "pending"

-----------------------------------------------------------------------------
Goto(t, label) ==
  /\ pc' = [pc EXCEPT ![t] = label]
  /\ result' = "pending"

\* The handles a request owns, through hnd and through gralloc_buffers.
Held(t) == gralloc_buffers[t] \cup ({hnd[t]} \ {NoAddr})

\* native_handle_deleter on each handle of S: both descriptors are closed
\* (close(-1) has no effect) and the memory is freed.
OwnFds(h) == {share_fd[h], share_attr_fd[h]} \ {NoFd}

DeleteHandles(S) ==
  /\ openFds' = openFds \ UNION {OwnFds(h) : h \in S}
  /\ heap' = heap \ S
  /\ share_fd' = [h \in Addrs |-> IF h \in S THEN NoFd ELSE share_fd[h]]
  /\ share_attr_fd' = [h \in Addrs |-> IF h \in S THEN NoFd ELSE share_attr_fd[h]]
  /\ backing_store_id' = [h \in Addrs |-> IF h \in S THEN NoId ELSE backing_store_id[h]]
  /\ stride' = [h \in Addrs |-> IF h \in S THEN 0 ELSE stride[h]]
  /\ metadata' = [h \in Addrs |-> IF h \in S THEN FALSE ELSE metadata[h]]

\* (A slip: the handle being made is freed, the earlier ones are not.)
End_KeepsMade(t, res) ==
  /\ DeleteHandles({hnd[t]} \ {NoAddr})
  /\ hnd' = [hnd EXCEPT ![t] = NoAddr]
  /\ gralloc_buffers' = [gralloc_buffers EXCEPT ![t] = {}]
  /\ count' = [count EXCEPT ![t] = 0]
  /\ i' = [i EXCEPT ![t] = 0]
  /\ pixel_stride' = [pixel_stride EXCEPT ![t] = 0]
  /\ first_stride' = [first_stride EXCEPT ![t] = 0]
  /\ pc' = [pc EXCEPT ![t] = "idle"]
  /\ result' = res

\* The request ends: hnd and gralloc_buffers go out of scope.  Nothing another
\* thread does depends on the order in which the descriptors are closed.
End(t, res) ==
  /\ DeleteHandles(Held(t))
  /\ hnd' = [hnd EXCEPT ![t] = NoAddr]
  /\ gralloc_buffers' = [gralloc_buffers EXCEPT ![t] = {}]
  /\ count' = [count EXCEPT ![t] = 0]
  /\ i' = [i EXCEPT ![t] = 0]
  /\ pixel_stride' = [pixel_stride EXCEPT ![t] = 0]
  /\ first_stride' = [first_stride EXCEPT ![t] = 0]
  /\ pc' = [pc EXCEPT ![t] = "idle"]
  /\ result' = res

-----------------------------------------------------------------------------
\* Slips of the kind this code invites, for testing the properties: each takes
\* the place of the definition it is named after and makes a property fail.

\* getUniqueId reads the counter without incrementing it.
AssignId_NoIncrement(t) ==
  /\ pc[t] = "id"
  /\ backing_store_id' = [backing_store_id EXCEPT ![hnd[t]] = counter]
  /\ allocs < MaxAllocs
  /\ allocs' = allocs + 1
  /\ Goto(t, "attr")
  /\ UNCHANGED <<selection, counter, sent, heap, openFds, share_fd, share_attr_fd, stride,
                 metadata, reqVars, hnd>>

\* The strides of a request's buffers are not compared.
CheckStride_Never(t) ==
  /\ pc[t] = "stride"
  /\ first_stride' = [first_stride EXCEPT ![t] = pixel_stride[t]]
  /\ gralloc_buffers' = [gralloc_buffers EXCEPT ![t] = @ \cup {hnd[t]}]
  /\ hnd' = [hnd EXCEPT ![t] = NoAddr]
  /\ i' = [i EXCEPT ![t] = @ + 1]
  /\ Goto(t, "derive")
  /\ UNCHANGED <<selection, idVars, heap, openFds, fieldVars, count, pixel_stride>>

\* The counter is wider than 32 bits: getUniqueId's "id | counter++" would carry
\* into the process id.
AssignId_Wide(t) ==
  /\ pc[t] = "id"
  /\ allocs < MaxAllocs
  /\ allocs' = allocs + 1
  /\ counter' = counter + 1
  /\ backing_store_id' = [backing_store_id EXCEPT ![hnd[t]] = counter]
  /\ Goto(t, "attr")
  /\ UNCHANGED <<selection, sent, heap, openFds, share_fd, share_attr_fd, stride,
                 metadata, reqVars, hnd>>

-----------------------------------------------------------------------------
\* grallocDecodeBufferDescriptor refuses the descriptor.
BadDescriptor(t) ==
  /\ pc[t] = "idle"
  /\ result' = "BAD_DESCRIPTOR"
  /\ UNCHANGED <<selection, idVars, heap, openFds, fieldVars, pc, reqVars, hnd>>

Request(t) ==
  /\ pc[t] = "idle"
  /\ \E n \in 0 .. MaxCount : count' = [count EXCEPT ![t] = n]
  /\ Goto(t, "derive")
  /\ UNCHANGED <<selection, idVars, heap, openFds, fieldVars, i, pixel_stride,
                 first_stride, gralloc_buffers, hnd>>

\* The head of the loop over the buffers: mali_gralloc_derive_format_and_size
\* for the next one ...
Derive(t) ==
  /\ pc[t] = "derive"
  /\ i[t] < count[t]
  /\ pixel_stride' = [pixel_stride EXCEPT ![t] = selection]
  /\ Goto(t, "alloc")
  /\ UNCHANGED <<selection, idVars, heap, openFds, fieldVars, count, i, first_stride,
                 gralloc_buffers, hnd>>

\* ... or the reply, with the handles and the stride of the descriptor.  The
\* transport gives the client duplicates of the descriptors.
Reply(t) ==
  /\ pc[t] = "derive"
  /\ i[t] = count[t]
  /\ Goto(t, "sent")
  /\ UNCHANGED <<selection, idVars, heap, openFds, fieldVars, reqVars, hnd>>

\* After the reply the service closes its own descriptors.
Release(t) ==
  /\ pc[t] = "sent"
  /\ sent' = sent \cup {backing_store_id[h] : h \in gralloc_buffers[t]}
  /\ End(t, "NONE")
  /\ UNCHANGED <<selection, counter, allocs>>

\* allocator_allocate: a dma-buf from the heap that was picked, and
\* make_private_handle.
Alloc(t) ==
  /\ pc[t] = "alloc"
  /\ \E fd \in Fds \ openFds, h \in Addrs \ heap :
       /\ openFds' = openFds \cup {fd}
       /\ heap' = heap \cup {h}
       /\ share_fd' = [share_fd EXCEPT ![h] = fd]
       /\ stride' = [stride EXCEPT ![h] = pixel_stride[t]]
       /\ hnd' = [hnd EXCEPT ![t] = h]
  /\ Goto(t, "id")
  /\ UNCHANGED <<selection, idVars, share_attr_fd, backing_store_id, metadata, reqVars>>

\* No format or size, no dma-buf, no memory for the handle: nullptr.
AllocFail(t) ==
  /\ pc[t] = "alloc"
  /\ End(t, "NO_RESOURCES")
  /\ UNCHANGED <<selection, idVars>>

\* getUniqueId, an atomic post-increment of a 32 bit counter.  The rest of
\* mali_gralloc_buffer_allocate writes AFBC headers, and returns the handle
\* whether or not it could map the buffer to do so.
AssignId(t) ==
  /\ pc[t] = "id"
  /\ allocs < MaxAllocs
  /\ allocs' = allocs + 1
  /\ counter' = (counter + 1) % IdMod
  /\ backing_store_id' = [backing_store_id EXCEPT ![hnd[t]] = counter]
  /\ Goto(t, "attr")
  /\ UNCHANGED <<selection, sent, heap, openFds, share_fd, share_attr_fd, stride, metadata,
                 reqVars, hnd>>

\* gralloc_shared_memory_allocate succeeds ...
AllocAttr(t) ==
  /\ pc[t] = "attr"
  /\ \E fd \in Fds \ openFds :
       /\ openFds' = openFds \cup {fd}
       /\ share_attr_fd' = [share_attr_fd EXCEPT ![hnd[t]] = fd]
  /\ Goto(t, "meta")
  /\ UNCHANGED <<selection, idVars, heap, share_fd, backing_store_id, stride, metadata,
                 reqVars, hnd>>

\* ... or memfd_create, ftruncate or the sealing fails: BAD_VALUE, reported as
\* UNSUPPORTED.
AllocAttrFail(t) ==
  /\ pc[t] = "attr"
  /\ End(t, "UNSUPPORTED")
  /\ UNCHANGED <<selection, idVars>>

\* The attribute region is mapped, initialised and unmapped ...
InitMetadata(t) ==
  /\ pc[t] = "meta"
  /\ metadata' = [metadata EXCEPT ![hnd[t]] = TRUE]
  /\ Goto(t, "stride")
  /\ UNCHANGED <<selection, idVars, heap, openFds, share_fd, share_attr_fd,
                 backing_store_id, stride, reqVars, hnd>>

\* ... or mmap fails.
MapMetadataFail(t) ==
  /\ pc[t] = "meta"
  /\ End(t, "NO_RESOURCES")
  /\ UNCHANGED <<selection, idVars>>

\* "Stride must be the same for all allocations."
CheckStride(t) ==
  /\ pc[t] = "stride"
  /\ first_stride[t] \in {0, pixel_stride[t]}
  /\ first_stride' = [first_stride EXCEPT ![t] = pixel_stride[t]]
  /\ gralloc_buffers' = [gralloc_buffers EXCEPT ![t] = @ \cup {hnd[t]}]
  /\ hnd' = [hnd EXCEPT ![t] = NoAddr]
  /\ i' = [i EXCEPT ![t] = @ + 1]
  /\ Goto(t, "derive")
  /\ UNCHANGED <<selection, idVars, heap, openFds, fieldVars, count, pixel_stride>>

StrideDiffers(t) ==
  /\ pc[t] = "stride"
  /\ first_stride[t] \notin {0, pixel_stride[t]}
  /\ End(t, "UNSUPPORTED")
  /\ UNCHANGED <<selection, idVars>>

\* A property, or the framebuffer size, changes.
SelectionChanges ==
  /\ \E s \in Strides \ {selection} : selection' = s
  /\ result' = "pending"
  /\ UNCHANGED <<idVars, heap, openFds, fieldVars, pc, reqVars, hnd>>

Step(t) ==
  \/ Derive(t) \/ Reply(t) \/ Release(t) \/ Alloc(t) \/ AllocFail(t) \/ AssignId(t)
  \/ AllocAttr(t) \/ AllocAttrFail(t) \/ InitMetadata(t) \/ MapMetadataFail(t)
  \/ CheckStride(t) \/ StrideDiffers(t)

Next ==
  \/ \E t \in Threads : BadDescriptor(t) \/ Request(t) \/ Step(t)
  \/ SelectionChanges

Spec == Init /\ [][Next]_vars

-----------------------------------------------------------------------------
TypeOK ==
  /\ selection \in Strides
  /\ counter \in 0 .. IdMod - 1
  /\ allocs \in 0 .. MaxAllocs
  /\ sent \subseteq 0 .. IdMod - 1
  /\ heap \subseteq Addrs
  /\ openFds \subseteq Fds
  /\ share_fd \in [Addrs -> Fds \cup {NoFd}]
  /\ share_attr_fd \in [Addrs -> Fds \cup {NoFd}]
  /\ backing_store_id \in [Addrs -> (0 .. IdMod - 1) \cup {NoId}]
  /\ stride \in [Addrs -> Nat]
  /\ metadata \in [Addrs -> BOOLEAN]
  /\ pc \in [Threads -> Labels]
  /\ count \in [Threads -> 0 .. MaxCount]
  /\ i \in [Threads -> Nat]
  /\ pixel_stride \in [Threads -> Strides \cup {0}]
  /\ first_stride \in [Threads -> Strides \cup {0}]
  /\ hnd \in [Threads -> Addrs \cup {NoAddr}]
  /\ gralloc_buffers \in [Threads -> SUBSET Addrs]
  /\ result \in Results

\* Every request, however it ends, gives back all it took: a handle is always
\* held by exactly one request in progress, and the open descriptors are
\* exactly those of the handles, each in one field.  About the early returns
\* of allocate and the ownership of hnd and gralloc_buffers.
NothingLeaked ==
  /\ heap = UNION {Held(t) : t \in Threads}
  /\ \A t, u \in Threads : t # u => Held(t) \cap Held(u) = {}
  /\ \A t \in Threads : pc[t] = "idle" => Held(t) = {}
  /\ openFds = UNION {OwnFds(h) : h \in heap}
  /\ \A h, g \in heap : h # g => OwnFds(h) \cap OwnFds(g) = {}

\* A reply carries as many buffers as were asked for, each with its two
\* descriptors, an id and initialised metadata, and the stride the client is
\* told is the stride of every one of them, although the format was derived
\* for each buffer anew.  About the loop of allocate and its stride test.
ReplyWhole ==
  \A t \in Threads : pc[t] = "sent" =>
    /\ Cardinality(gralloc_buffers[t]) = count[t]
    /\ \A h \in gralloc_buffers[t] :
         /\ share_fd[h] \in openFds /\ share_attr_fd[h] \in openFds
         /\ share_fd[h] # share_attr_fd[h]
         /\ backing_store_id[h] # NoId
         /\ metadata[h]
         /\ stride[h] = pixel_stride[t]

\* No two buffers have the same id, whether the service still holds them or a
\* client was given them by an earlier reply, as long as no more ids were
\* handed out than the counter has values.  About getUniqueId, called by all
\* binder threads.
IdsUnique ==
  \A h \in heap : backing_store_id[h] # NoId =>
    /\ backing_store_id[h] \notin sent
    /\ \A g \in heap \ {h} : backing_store_id[h] # backing_store_id[g]
=============================================================================
