------------------------ MODULE BufferAllocatorProofs ------------------------
(***************************************************************************)
(* That the allocator service leaks nothing, hands out whole replies and    *)
(* unique ids, for any number of binder threads, descriptors and buffers.   *)
(***************************************************************************)
EXTENDS BufferAllocator, FiniteSetTheorems, TLAPS

\* hnd is set exactly while a buffer is being made.
Making == {"id", "attr", "meta", "stride"}

Stages ==
  \A t \in Threads :
    /\ pc[t] \in Making <=> hnd[t] # NoAddr
    /\ pc[t] = "idle" => gralloc_buffers[t] = {}
    /\ hnd[t] \notin gralloc_buffers[t]

\* Every handle is held, by one request.
HeldOnce ==
  /\ \A t \in Threads : \A h \in Held(t) : h \in heap
  /\ \A h \in heap : \E t \in Threads : h \in Held(t)
  /\ \A t, u \in Threads : \A h \in Held(t) : h \in Held(u) => t = u

\* What a handle at each stage of its making has.
Fields ==
  /\ \A h \in heap : share_fd[h] \in openFds
  /\ \A h \in heap : share_attr_fd[h] # NoFd => share_attr_fd[h] \in openFds
  /\ \A h \in Addrs \ heap :
       share_fd[h] = NoFd /\ share_attr_fd[h] = NoFd /\ backing_store_id[h] = NoId
  /\ \A t \in Threads : pc[t] = "id" => backing_store_id[hnd[t]] = NoId
  /\ \A t \in Threads : pc[t] \in {"id", "attr"} => share_attr_fd[hnd[t]] = NoFd
  /\ \A t \in Threads : pc[t] \in {"meta", "stride"} => share_attr_fd[hnd[t]] # NoFd
  /\ \A t \in Threads : pc[t] \in {"attr", "meta", "stride"} => backing_store_id[hnd[t]] # NoId
  /\ \A t \in Threads : pc[t] = "stride" => metadata[hnd[t]]
  /\ \A t \in Threads : pc[t] \in Making => stride[hnd[t]] = pixel_stride[t]

FdsUsedOnce ==
  /\ \A fd \in openFds : \E h \in heap : fd \in {share_fd[h], share_attr_fd[h]}
  /\ \A h, g \in heap : share_fd[h] = share_fd[g] => h = g
  /\ \A h, g \in heap : share_attr_fd[h] = share_attr_fd[g] /\ share_attr_fd[h] # NoFd => h = g
  /\ \A h, g \in heap : share_fd[h] # share_attr_fd[g]

\* The buffers a request has made so far are finished, and there are i of them.
Made ==
  \A t \in Threads :
    /\ IsFiniteSet(gralloc_buffers[t])
    /\ Cardinality(gralloc_buffers[t]) = i[t]
    /\ pc[t] = "idle" => i[t] = 0
    /\ pc[t] = "sent" => i[t] = count[t]
    /\ \A h \in gralloc_buffers[t] :
         /\ share_attr_fd[h] # NoFd
         /\ backing_store_id[h] # NoId
         /\ metadata[h]
         /\ stride[h] = first_stride[t]

\* first_stride is the stride of the descriptor whenever the descriptor is not
\* ahead of the buffers made.
StrideKept ==
  \A t \in Threads :
    /\ first_stride[t] = 0 <=> gralloc_buffers[t] = {}
    /\ pc[t] \in {"derive", "sent"} /\ gralloc_buffers[t] # {} => pixel_stride[t] = first_stride[t]
    /\ pc[t] \in {"alloc"} \cup Making => pixel_stride[t] # 0

\* Every id given out so far is one the counter has passed.
Ids ==
  /\ allocs < IdMod => counter = allocs
  /\ \A id \in sent : id < allocs
  /\ \A h \in heap : backing_store_id[h] # NoId => backing_store_id[h] < allocs
  /\ IdsUnique

IInv == TypeOK /\ Stages /\ HeldOnce /\ Fields /\ FdsUsedOnce /\ Made /\ StrideKept /\ Ids

-----------------------------------------------------------------------------
\* What the end of a request does to the handles and descriptors.
LEMMA EndFacts ==
  ASSUME TypeOK, NEW t \in Threads, NEW res, End(t, res)
  PROVE  /\ heap' = heap \ Held(t)
         /\ hnd' = [hnd EXCEPT ![t] = NoAddr]
         /\ gralloc_buffers' = [gralloc_buffers EXCEPT ![t] = {}]
         /\ pc' = [pc EXCEPT ![t] = "idle"]
         /\ i' = [i EXCEPT ![t] = 0]
         /\ Held(t)' = {}
         /\ \A u \in Threads \ {t} : Held(u)' = Held(u)
         /\ \A h \in Addrs \ Held(t) :
              /\ share_fd'[h] = share_fd[h] /\ share_attr_fd'[h] = share_attr_fd[h]
              /\ backing_store_id'[h] = backing_store_id[h]
              /\ stride'[h] = stride[h] /\ metadata'[h] = metadata[h]
         /\ \A h \in Addrs \cap Held(t) :
              share_fd'[h] = NoFd /\ share_attr_fd'[h] = NoFd /\ backing_store_id'[h] = NoId
         /\ openFds' \subseteq openFds
         /\ \A fd \in openFds : fd \in openFds' <=>
              \A h \in Held(t) : fd # share_fd[h] /\ fd # share_attr_fd[h]
<1>1. openFds' = openFds \ UNION {OwnFds(h) : h \in Held(t)}
  BY DEF End, DeleteHandles
<1>2. /\ openFds' \subseteq openFds
      /\ \A fd \in openFds : fd \in openFds' <=>
           \A h \in Held(t) : fd # share_fd[h] /\ fd # share_attr_fd[h]
  BY <1>1, FdsAssumption DEF OwnFds, TypeOK
<1>3. /\ heap' = heap \ Held(t)
      /\ hnd' = [hnd EXCEPT ![t] = NoAddr]
      /\ gralloc_buffers' = [gralloc_buffers EXCEPT ![t] = {}]
      /\ pc' = [pc EXCEPT ![t] = "idle"]
      /\ i' = [i EXCEPT ![t] = 0]
  BY DEF End, DeleteHandles
<1>4. Held(t)' = {} /\ \A u \in Threads \ {t} : Held(u)' = Held(u)
  BY <1>3 DEF TypeOK, Held
<1>5. /\ \A h \in Addrs \ Held(t) :
           /\ share_fd'[h] = share_fd[h] /\ share_attr_fd'[h] = share_attr_fd[h]
           /\ backing_store_id'[h] = backing_store_id[h]
           /\ stride'[h] = stride[h] /\ metadata'[h] = metadata[h]
      /\ \A h \in Addrs \cap Held(t) :
           share_fd'[h] = NoFd /\ share_attr_fd'[h] = NoFd /\ backing_store_id'[h] = NoId
  BY DEF End, DeleteHandles
<1>6. QED
  BY <1>2, <1>3, <1>4, <1>5

\* The end of a request leaves the other requests what they hold.
LEMMA HeldOnceEnd ==
  ASSUME TypeOK, HeldOnce, NEW t \in Threads, NEW res, End(t, res)
  PROVE  HeldOnce'
BY EndFacts DEF HeldOnce

\* The end of one request leaves another request, and what it holds, alone.
LEMMA OthersKept ==
  ASSUME TypeOK, HeldOnce, NEW t \in Threads, NEW res, End(t, res),
         NEW u \in Threads \ {t}
  PROVE  /\ pc'[u] = pc[u] /\ hnd'[u] = hnd[u] /\ i'[u] = i[u] /\ count'[u] = count[u]
         /\ gralloc_buffers'[u] = gralloc_buffers[u]
         /\ pixel_stride'[u] = pixel_stride[u] /\ first_stride'[u] = first_stride[u]
         /\ \A h \in Held(u) :
              /\ h \in Addrs \ Held(t)
              /\ share_fd'[h] = share_fd[h] /\ share_attr_fd'[h] = share_attr_fd[h]
              /\ backing_store_id'[h] = backing_store_id[h]
              /\ stride'[h] = stride[h] /\ metadata'[h] = metadata[h]
<1>1. \A h \in Held(u) : h \in Addrs \ Held(t)
  BY DEF HeldOnce, TypeOK
<1>2. /\ pc'[u] = pc[u] /\ hnd'[u] = hnd[u] /\ i'[u] = i[u]
      /\ gralloc_buffers'[u] = gralloc_buffers[u]
  BY EndFacts DEF TypeOK
<1>3. /\ count'[u] = count[u]
      /\ pixel_stride'[u] = pixel_stride[u] /\ first_stride'[u] = first_stride[u]
  BY DEF End, TypeOK
<1>4. QED
  BY <1>1, <1>2, <1>3, EndFacts

\* The descriptors a request closes are no other handle's.
LEMMA FieldsEnd ==
  ASSUME TypeOK, Stages, HeldOnce, Fields, FdsUsedOnce,
         NEW t \in Threads, NEW res, End(t, res)
  PROVE  Fields'
<1>1. \A h \in heap' : /\ h \in heap /\ h \in Addrs /\ h \notin Held(t)
                       /\ share_fd'[h] = share_fd[h] /\ share_attr_fd'[h] = share_attr_fd[h]
  BY EndFacts DEF TypeOK
<1>2. \A g \in Held(t) : g \in heap
  BY DEF HeldOnce
<1>3. \A h \in heap' : share_fd'[h] \in openFds'
  BY <1>1, <1>2, EndFacts DEF Fields, FdsUsedOnce
<1>4. \A h \in heap' : share_attr_fd'[h] # NoFd => share_attr_fd'[h] \in openFds'
  BY <1>1, <1>2, EndFacts DEF Fields, FdsUsedOnce
<1>5. \A h \in Addrs \ heap' :
        share_fd'[h] = NoFd /\ share_attr_fd'[h] = NoFd /\ backing_store_id'[h] = NoId
  BY EndFacts DEF Fields
<1>6. pc'[t] = "idle"
  BY EndFacts DEF TypeOK
<1>7. \A u \in Threads \ {t} : pc[u] \in Making => hnd[u] \in Held(u)
  BY DEF Stages, Held
<1>8. \A u \in Threads \ {t} : pc'[u] \in Making =>
        /\ pc[u] = pc'[u] /\ hnd'[u] = hnd[u] /\ pixel_stride'[u] = pixel_stride[u]
        /\ share_attr_fd'[hnd[u]] = share_attr_fd[hnd[u]]
        /\ backing_store_id'[hnd[u]] = backing_store_id[hnd[u]]
        /\ stride'[hnd[u]] = stride[hnd[u]] /\ metadata'[hnd[u]] = metadata[hnd[u]]
  BY <1>7, OthersKept
<1>9. QED
  BY <1>3, <1>4, <1>5, <1>6, <1>8 DEF Fields, Making

\* No open descriptor is left without a handle when a request ends.
LEMMA FdsUsedOnceEnd ==
  ASSUME TypeOK, HeldOnce, Fields, FdsUsedOnce,
         NEW t \in Threads, NEW res, End(t, res)
  PROVE  FdsUsedOnce'
<1>1. \A h \in heap' : /\ h \in heap /\ h \notin Held(t)
                       /\ share_fd'[h] = share_fd[h] /\ share_attr_fd'[h] = share_attr_fd[h]
  BY EndFacts DEF TypeOK
<1>2. \A fd \in openFds' : \E h \in heap' : fd \in {share_fd'[h], share_attr_fd'[h]}
  BY <1>1, EndFacts DEF FdsUsedOnce
<1>3. QED
  BY <1>1, <1>2 DEF FdsUsedOnce

\* The buffers of the other requests stay finished when one request ends.
LEMMA MadeEnd ==
  ASSUME TypeOK, HeldOnce, Made, NEW t \in Threads, NEW res, End(t, res)
  PROVE  Made'
<1>1. pc'[t] = "idle" /\ i'[t] = 0 /\ gralloc_buffers'[t] = {}
  BY EndFacts DEF TypeOK
<1>2. IsFiniteSet({}) /\ Cardinality({}) = 0
  BY FS_EmptySet
<1>3. ASSUME NEW u \in Threads \ {t}
      PROVE  /\ IsFiniteSet(gralloc_buffers'[u])
             /\ Cardinality(gralloc_buffers'[u]) = i'[u]
             /\ pc'[u] = "idle" => i'[u] = 0
             /\ pc'[u] = "sent" => i'[u] = count'[u]
             /\ \A h \in gralloc_buffers'[u] :
                  /\ share_attr_fd'[h] # NoFd
                  /\ backing_store_id'[h] # NoId
                  /\ metadata'[h]
                  /\ stride'[h] = first_stride'[u]
  <2>1. \A h \in gralloc_buffers[u] : h \in Held(u)
    BY DEF Held
  <2>2. /\ pc'[u] = pc[u] /\ i'[u] = i[u] /\ count'[u] = count[u]
        /\ gralloc_buffers'[u] = gralloc_buffers[u]
        /\ first_stride'[u] = first_stride[u]
        /\ \A h \in gralloc_buffers[u] :
             /\ share_attr_fd'[h] = share_attr_fd[h]
             /\ backing_store_id'[h] = backing_store_id[h]
             /\ stride'[h] = stride[h] /\ metadata'[h] = metadata[h]
    BY <2>1, OthersKept
  <2>3. QED
    BY <2>2 DEF Made
<1>4. QED
  BY <1>1, <1>2, <1>3 DEF Made

\* A handle is in the making exactly between its allocation and the stride test.
LEMMA StagesStep ==
  ASSUME TypeOK, Stages, HeldOnce,
         NEW t \in Threads, BadDescriptor(t) \/ Request(t) \/ Step(t)
  PROVE  Stages'
<1> USE AddrsAssumption DEF TypeOK, Stages, Making, HeldOnce, Held, idVars, reqVars,
        fieldVars, Goto
<1>1. CASE BadDescriptor(t) \/ Request(t) \/ Derive(t) \/ Reply(t)
  BY <1>1 DEF BadDescriptor, Request, Derive, Reply
<1>2. CASE Alloc(t)
  BY <1>2 DEF Alloc
<1>3. CASE AssignId(t)
  BY <1>3 DEF AssignId
<1>4. CASE AllocAttr(t)
  BY <1>4 DEF AllocAttr
<1>5. CASE InitMetadata(t)
  BY <1>5 DEF InitMetadata
<1>6. CASE CheckStride(t)
  BY <1>6 DEF CheckStride
<1>7. ASSUME NEW res, End(t, res) PROVE Stages'
  BY <1>7, EndFacts DEF End
<1>8. QED
  BY <1>1, <1>2, <1>3, <1>4, <1>5, <1>6, <1>7 DEF Step, Release, AllocFail,
     AllocAttrFail,
     MapMetadataFail, StrideDiffers

\* A handle passes from hnd to gralloc_buffers and is in no other request.
LEMMA HeldOnceStep ==
  ASSUME TypeOK, Stages, HeldOnce,
         NEW t \in Threads, BadDescriptor(t) \/ Request(t) \/ Step(t)
  PROVE  HeldOnce'
<1> USE AddrsAssumption DEF TypeOK, Stages, Making, HeldOnce, Held, idVars, reqVars,
        fieldVars, Goto
<1>1. CASE BadDescriptor(t) \/ Request(t) \/ Derive(t) \/ Reply(t)
  BY <1>1 DEF BadDescriptor, Request, Derive, Reply
<1>2. CASE Alloc(t)
  BY <1>2 DEF Alloc
<1>3. CASE AssignId(t)
  BY <1>3 DEF AssignId
<1>4. CASE AllocAttr(t)
  BY <1>4 DEF AllocAttr
<1>5. CASE InitMetadata(t)
  BY <1>5 DEF InitMetadata
<1>6. CASE CheckStride(t)
  BY <1>6 DEF CheckStride
<1>7. ASSUME NEW res, End(t, res) PROVE HeldOnce'
  BY <1>7, HeldOnceEnd
<1>8. QED
  BY <1>1, <1>2, <1>3, <1>4, <1>5, <1>6, <1>7 DEF Step, Release, AllocFail,
     AllocAttrFail,
     MapMetadataFail, StrideDiffers

\* A handle in the making has what the steps so far have given it.
LEMMA FieldsStep ==
  ASSUME TypeOK, Stages, HeldOnce, Fields, FdsUsedOnce,
         NEW t \in Threads, BadDescriptor(t) \/ Request(t) \/ Step(t)
  PROVE  Fields'
<1> USE AddrsAssumption, FdsAssumption, IdAssumption DEF TypeOK, Stages, Making,
        HeldOnce, Held, Fields, FdsUsedOnce, idVars, reqVars, fieldVars, Goto
<1>1. CASE BadDescriptor(t) \/ Request(t) \/ Derive(t) \/ Reply(t)
  BY <1>1 DEF BadDescriptor, Request, Derive, Reply
<1>2. CASE Alloc(t)
  BY <1>2 DEF Alloc
<1>3. CASE AssignId(t)
  BY <1>3 DEF AssignId
<1>4. CASE AllocAttr(t)
  BY <1>4 DEF AllocAttr
<1>5. CASE InitMetadata(t)
  BY <1>5 DEF InitMetadata
<1>6. CASE CheckStride(t)
  BY <1>6 DEF CheckStride
<1>7. ASSUME NEW res, End(t, res) PROVE Fields'
  BY <1>7, FieldsEnd
<1>8. QED
  BY <1>1, <1>2, <1>3, <1>4, <1>5, <1>6, <1>7 DEF Step, Release, AllocFail,
     AllocAttrFail,
     MapMetadataFail, StrideDiffers

\* A descriptor is in one field of one handle.
LEMMA FdsUsedOnceStep ==
  ASSUME TypeOK, Stages, HeldOnce, Fields, FdsUsedOnce,
         NEW t \in Threads, BadDescriptor(t) \/ Request(t) \/ Step(t)
  PROVE  FdsUsedOnce'
<1> USE AddrsAssumption, FdsAssumption DEF TypeOK, Stages, Making, HeldOnce, Held,
        Fields, FdsUsedOnce, idVars, reqVars, fieldVars, Goto
<1>1. CASE BadDescriptor(t) \/ Request(t) \/ Derive(t) \/ Reply(t)
  BY <1>1 DEF BadDescriptor, Request, Derive, Reply
<1>2. CASE Alloc(t)
  BY <1>2 DEF Alloc
<1>3. CASE AssignId(t)
  BY <1>3 DEF AssignId
<1>4. CASE AllocAttr(t)
  BY <1>4 DEF AllocAttr
<1>5. CASE InitMetadata(t)
  BY <1>5 DEF InitMetadata
<1>6. CASE CheckStride(t)
  BY <1>6 DEF CheckStride
<1>7. ASSUME NEW res, End(t, res) PROVE FdsUsedOnce'
  BY <1>7, FdsUsedOnceEnd
<1>8. QED
  BY <1>1, <1>2, <1>3, <1>4, <1>5, <1>6, <1>7 DEF Step, Release, AllocFail,
     AllocAttrFail,
     MapMetadataFail, StrideDiffers

\* One more buffer is finished.
LEMMA MadeMore ==
  ASSUME TypeOK, Stages, HeldOnce, Fields, Made, StrideKept,
         NEW t \in Threads, CheckStride(t)
  PROVE  Made'
<1>1. /\ gralloc_buffers' = [gralloc_buffers EXCEPT ![t] = @ \cup {hnd[t]}]
      /\ i' = [i EXCEPT ![t] = @ + 1]
      /\ pc' = [pc EXCEPT ![t] = "derive"]
      /\ first_stride' = [first_stride EXCEPT ![t] = pixel_stride[t]]
      /\ first_stride[t] \in {0, pixel_stride[t]}
      /\ UNCHANGED <<fieldVars, count>>
      /\ pc[t] = "stride"
  BY DEF CheckStride, Goto
<1>2. IsFiniteSet(gralloc_buffers[t]) /\ hnd[t] \notin gralloc_buffers[t]
  BY DEF Made, Stages
<1>3. /\ IsFiniteSet(gralloc_buffers[t] \cup {hnd[t]})
      /\ Cardinality(gralloc_buffers[t] \cup {hnd[t]}) = Cardinality(gralloc_buffers[t]) + 1
  BY <1>2, FS_AddElement
<1>4. \A u \in Threads : /\ IsFiniteSet(gralloc_buffers'[u])
                         /\ Cardinality(gralloc_buffers'[u]) = i'[u]
  BY <1>1, <1>3 DEF Made, TypeOK
<1>5. /\ share_attr_fd[hnd[t]] # NoFd /\ backing_store_id[hnd[t]] # NoId
      /\ metadata[hnd[t]] /\ stride[hnd[t]] = pixel_stride[t]
  BY <1>1 DEF Fields, Making
<1>6. gralloc_buffers[t] # {} => first_stride[t] = pixel_stride[t]
  BY <1>1 DEF StrideKept
<1>7. \A u \in Threads : \A h \in gralloc_buffers'[u] :
        /\ share_attr_fd'[h] # NoFd
        /\ backing_store_id'[h] # NoId
        /\ metadata'[h]
        /\ stride'[h] = first_stride'[u]
  BY <1>1, <1>5, <1>6 DEF Made, TypeOK, fieldVars
<1>8. \A u \in Threads : /\ pc'[u] = "idle" => i'[u] = 0
                         /\ pc'[u] = "sent" => i'[u] = count'[u]
  BY <1>1 DEF Made, TypeOK
<1>9. QED
  BY <1>4, <1>7, <1>8 DEF Made

\* The buffers of a request are finished, and counted.
LEMMA MadeStep ==
  ASSUME TypeOK, Stages, HeldOnce, Fields, Made, StrideKept,
         NEW t \in Threads, BadDescriptor(t) \/ Request(t) \/ Step(t)
  PROVE  Made'
<1> USE AddrsAssumption, FdsAssumption DEF TypeOK, Stages, Making, HeldOnce, Held,
        Fields, Made, StrideKept, idVars, reqVars, fieldVars, Goto
<1>1. CASE BadDescriptor(t) \/ Request(t) \/ Derive(t) \/ Reply(t)
  BY <1>1 DEF BadDescriptor, Request, Derive, Reply
<1>2. CASE Alloc(t)
  BY <1>2 DEF Alloc
<1>3. CASE AssignId(t)
  BY <1>3 DEF AssignId
<1>4. CASE AllocAttr(t)
  BY <1>4 DEF AllocAttr
<1>5. CASE InitMetadata(t)
  BY <1>5 DEF InitMetadata
<1>6. CASE CheckStride(t)
  BY <1>6, MadeMore
<1>7. ASSUME NEW res, End(t, res) PROVE Made'
  BY <1>7, MadeEnd
<1>8. QED
  BY <1>1, <1>2, <1>3, <1>4, <1>5, <1>6, <1>7 DEF Step, Release, AllocFail,
     AllocAttrFail,
     MapMetadataFail, StrideDiffers

\* The stride of a request is that of its buffers.
LEMMA StrideKeptStep ==
  ASSUME TypeOK, Stages, StrideKept,
         NEW t \in Threads, BadDescriptor(t) \/ Request(t) \/ Step(t)
  PROVE  StrideKept'
<1> USE StridesAssumption DEF TypeOK, Stages, Making, StrideKept, idVars, reqVars,
        fieldVars, Goto
<1>1. CASE BadDescriptor(t) \/ Request(t) \/ Derive(t) \/ Reply(t)
  BY <1>1 DEF BadDescriptor, Request, Derive, Reply
<1>2. CASE Alloc(t)
  BY <1>2 DEF Alloc
<1>3. CASE AssignId(t)
  BY <1>3 DEF AssignId
<1>4. CASE AllocAttr(t)
  BY <1>4 DEF AllocAttr
<1>5. CASE InitMetadata(t)
  BY <1>5 DEF InitMetadata
<1>6. CASE CheckStride(t)
  BY <1>6 DEF CheckStride
<1>7. ASSUME NEW res, End(t, res) PROVE StrideKept'
  BY <1>7, EndFacts DEF End
<1>8. QED
  BY <1>1, <1>2, <1>3, <1>4, <1>5, <1>6, <1>7 DEF Step, Release, AllocFail,
     AllocAttrFail,
     MapMetadataFail, StrideDiffers

\* The ids: what the end of a request hands to clients stays apart from the rest.
LEMMA IdsStep ==
  ASSUME TypeOK, Stages, HeldOnce, Fields, Made, Ids,
         NEW t \in Threads, BadDescriptor(t) \/ Request(t) \/ Step(t)
  PROVE  Ids'
<1>1. CASE BadDescriptor(t) \/ Request(t) \/ Derive(t) \/ Reply(t) \/ AllocAttr(t)
             \/ InitMetadata(t) \/ CheckStride(t)
  <2>1. UNCHANGED <<idVars, heap, backing_store_id>>
    BY <1>1 DEF BadDescriptor, Request, Derive, Reply, AllocAttr, InitMetadata,
       CheckStride, fieldVars
  <2>2. QED
    BY <2>1 DEF Ids, IdsUnique, idVars
<1>2. CASE Alloc(t)
  BY <1>2 DEF Alloc, Ids, IdsUnique, Fields, idVars, TypeOK
<1>3. CASE AssignId(t)
  <2>1. /\ allocs < MaxAllocs /\ allocs' = allocs + 1 /\ counter' = (counter + 1) % IdMod
        /\ backing_store_id' = [backing_store_id EXCEPT ![hnd[t]] = counter]
        /\ UNCHANGED <<sent, heap>>
    BY <1>3 DEF AssignId
  <2>2. counter = allocs /\ allocs < IdMod
    BY <2>1, IdAssumption, BoundsAssumption DEF Ids, TypeOK
  <2>3. allocs' < IdMod => counter' = allocs'
    BY <2>1, <2>2, IdAssumption DEF TypeOK
  <2>4. \A id \in sent' : id < allocs' /\ id # counter
    BY <2>1, <2>2 DEF Ids, TypeOK
  <2>5. \A h \in heap : backing_store_id[h] # NoId =>
          backing_store_id[h] \in Nat /\ backing_store_id[h] < allocs
    BY IdAssumption DEF Ids, TypeOK
  <2>6. \A h \in heap' : h # hnd[t] => backing_store_id'[h] = backing_store_id[h]
    BY <2>1 DEF TypeOK
  <2>7. hnd[t] \in heap' => backing_store_id'[hnd[t]] = counter
    BY <2>1 DEF TypeOK
  <2>8. \A h \in heap' : backing_store_id'[h] # NoId => backing_store_id'[h] < allocs'
    BY <2>1, <2>2, <2>5, <2>6, <2>7 DEF TypeOK
  <2>9. IdsUnique'
    BY <2>1, <2>2, <2>4, <2>5, <2>6, <2>7 DEF Ids, IdsUnique, TypeOK
  <2>10. QED
    BY <2>3, <2>4, <2>8, <2>9 DEF Ids
<1>4. ASSUME NEW res, End(t, res), UNCHANGED <<counter, allocs>>,
             sent' \in {sent, sent \cup {backing_store_id[h] : h \in gralloc_buffers[t]}}
      PROVE  Ids'
  <2>1. \A h \in heap' : /\ h \in heap /\ h \notin Held(t)
                         /\ backing_store_id'[h] = backing_store_id[h]
    BY <1>4, EndFacts DEF TypeOK
  <2>2. \A h \in gralloc_buffers[t] : h \in Held(t) /\ h \in heap /\ backing_store_id[h] # NoId
    BY DEF Held, HeldOnce, Made
  <2>3. \A id \in sent' : id < allocs'
    BY <1>4, <2>2 DEF Ids
  <2>4. \A h \in heap' : backing_store_id'[h] # NoId => backing_store_id'[h] \notin sent'
    BY <1>4, <2>1, <2>2 DEF Ids, IdsUnique
  <2>5. QED
    BY <1>4, <2>1, <2>3, <2>4 DEF Ids, IdsUnique
<1>5. QED
  BY <1>1, <1>2, <1>3, <1>4 DEF Step, Release, AllocFail, AllocAttrFail,
     MapMetadataFail, StrideDiffers, idVars

\* Strides are numbers, as is the 0 that stands for none.
LEMMA StridesAreNat == \A s \in Strides \cup {0} : s \in Nat
BY StridesAssumption

\* native_handle_deleter leaves the fields of a handle in their types.
LEMMA DeletedTypes ==
  ASSUME TypeOK, NEW S, DeleteHandles(S)
  PROVE  /\ share_fd' \in [Addrs -> Fds \cup {NoFd}]
         /\ share_attr_fd' \in [Addrs -> Fds \cup {NoFd}]
         /\ backing_store_id' \in [Addrs -> (0 .. IdMod - 1) \cup {NoId}]
         /\ stride' \in [Addrs -> Nat]
         /\ metadata' \in [Addrs -> BOOLEAN]
<1> USE DEF DeleteHandles, TypeOK
<1>1. share_fd' \in [Addrs -> Fds \cup {NoFd}]
  OBVIOUS
<1>2. share_attr_fd' \in [Addrs -> Fds \cup {NoFd}]
  OBVIOUS
<1>3. backing_store_id' \in [Addrs -> (0 .. IdMod - 1) \cup {NoId}]
  OBVIOUS
<1>4. stride' \in [Addrs -> Nat]
  OBVIOUS
<1>5. metadata' \in [Addrs -> BOOLEAN]
  OBVIOUS
<1>6. QED
  BY <1>1, <1>2, <1>3, <1>4, <1>5

\* No step takes a variable out of its type: in particular the id counter
\* stays below IdMod, and no buffer is counted beyond those asked for.
LEMMA TypeOKStep ==
  ASSUME TypeOK, Stages, Made,
         NEW t \in Threads, BadDescriptor(t) \/ Request(t) \/ Step(t)
  PROVE  TypeOK'
<1>0. pixel_stride[t] \in Nat
  BY StridesAreNat DEF TypeOK
<1> USE IdAssumption, BoundsAssumption, StridesAssumption
    DEF TypeOK, Goto, idVars, reqVars, fieldVars, Labels, Results
<1>1. CASE BadDescriptor(t)
  BY <1>1 DEF BadDescriptor
<1>2. CASE Request(t)
  BY <1>2 DEF Request
<1>3. CASE Derive(t)
  BY <1>3 DEF Derive
<1>4. CASE Reply(t)
  BY <1>4 DEF Reply
<1>5. CASE Alloc(t)
  <2>1. PICK fd \in Fds, h \in Addrs :
          /\ openFds' = openFds \cup {fd}
          /\ heap' = heap \cup {h}
          /\ share_fd' = [share_fd EXCEPT ![h] = fd]
          /\ stride' = [stride EXCEPT ![h] = pixel_stride[t]]
          /\ hnd' = [hnd EXCEPT ![t] = h]
    BY <1>5 DEF Alloc
  <2>2. pixel_stride[t] \in Nat
    BY <1>0
  <2>3. /\ openFds' \subseteq Fds /\ heap' \subseteq Addrs
        /\ share_fd' \in [Addrs -> Fds \cup {NoFd}]
        /\ stride' \in [Addrs -> Nat]
        /\ hnd' \in [Threads -> Addrs \cup {NoAddr}]
    BY <2>1, <2>2
  <2>4. QED
    BY <1>5, <2>3 DEF Alloc
<1>6. CASE AssignId(t)
  <2>1. counter' \in 0 .. IdMod - 1 /\ allocs' \in 0 .. MaxAllocs
    BY <1>6 DEF AssignId
  <2>2. backing_store_id' \in [Addrs -> (0 .. IdMod - 1) \cup {NoId}]
    BY <1>6 DEF AssignId
  <2>3. QED
    BY <1>6, <2>1, <2>2 DEF AssignId
<1>7. CASE AllocAttr(t)
  <2>1. PICK fd \in Fds :
          /\ openFds' = openFds \cup {fd}
          /\ share_attr_fd' = [share_attr_fd EXCEPT ![hnd[t]] = fd]
    BY <1>7 DEF AllocAttr
  <2>2. openFds' \subseteq Fds /\ share_attr_fd' \in [Addrs -> Fds \cup {NoFd}]
    BY <2>1
  <2>3. QED
    BY <1>7, <2>2 DEF AllocAttr
<1>8. CASE InitMetadata(t)
  BY <1>8 DEF InitMetadata
<1>9. CASE CheckStride(t)
  BY <1>9 DEF CheckStride, Stages, Making
<1>10. ASSUME NEW res \in Results, End(t, res), UNCHANGED <<selection, counter, allocs>>,
              sent' \in {sent, sent \cup {backing_store_id[h] : h \in gralloc_buffers[t]}}
       PROVE  TypeOK'
  <2>1. \A h \in gralloc_buffers[t] : backing_store_id[h] \in 0 .. IdMod - 1
    BY DEF Made
  <2>2. sent' \subseteq 0 .. IdMod - 1
    BY <1>10, <2>1
  <2>3. heap' \subseteq Addrs /\ openFds' \subseteq Fds
    BY <1>10, EndFacts
  <2>4. /\ share_fd' \in [Addrs -> Fds \cup {NoFd}]
        /\ share_attr_fd' \in [Addrs -> Fds \cup {NoFd}]
        /\ backing_store_id' \in [Addrs -> (0 .. IdMod - 1) \cup {NoId}]
        /\ stride' \in [Addrs -> Nat]
        /\ metadata' \in [Addrs -> BOOLEAN]
    BY <1>10, DeletedTypes DEF End
  <2>5. QED
    BY <1>10, <2>2, <2>3, <2>4 DEF End
<1>11. QED
  BY <1>1, <1>2, <1>3, <1>4, <1>5, <1>6, <1>7, <1>8, <1>9, <1>10 DEF Step, Release,
     AllocFail, AllocAttrFail, MapMetadataFail, StrideDiffers

-----------------------------------------------------------------------------
\* An idle service satisfies the invariant.
LEMMA InitIInv == Init => IInv
<1> SUFFICES ASSUME Init PROVE IInv
  OBVIOUS
<1> USE StridesAssumption, BoundsAssumption, IdAssumption DEF Init
<1>1. TypeOK
  BY DEF TypeOK, Labels, Results
<1>2. Stages /\ HeldOnce /\ Fields /\ FdsUsedOnce
  BY DEF Stages, HeldOnce, Fields, FdsUsedOnce, Held, Making
<1>3. Made
  BY FS_EmptySet DEF Made
<1>4. StrideKept /\ Ids
  BY DEF StrideKept, Ids, IdsUnique, Making
<1>5. QED
  BY <1>1, <1>2, <1>3, <1>4 DEF IInv

\* Every step of a thread, and every change of the format choice, preserves it.
LEMMA NextIInv == IInv /\ [Next]_vars => IInv'
<1> SUFFICES ASSUME IInv, [Next]_vars PROVE IInv'
  OBVIOUS
<1> USE DEF IInv
<1>1. ASSUME NEW t \in Threads, BadDescriptor(t) \/ Request(t) \/ Step(t)
      PROVE  IInv'
  BY <1>1, TypeOKStep, StagesStep, HeldOnceStep, FieldsStep, FdsUsedOnceStep, MadeStep,
     StrideKeptStep, IdsStep
<1>2. CASE SelectionChanges \/ UNCHANGED vars
  <2>1. /\ selection' \in Strides /\ result' \in Results
        /\ UNCHANGED <<idVars, heap, openFds, fieldVars, pc, reqVars, hnd>>
    BY <1>2 DEF SelectionChanges, vars, TypeOK, Results
  <2>2. TypeOK'
    BY <2>1 DEF TypeOK, idVars, fieldVars, reqVars
  <2>3. Stages' /\ HeldOnce'
    BY <2>1 DEF Stages, HeldOnce, Held, reqVars
  <2>4. Fields' /\ FdsUsedOnce'
    BY <2>1 DEF Fields, FdsUsedOnce, fieldVars, reqVars
  <2>5. Made' /\ StrideKept'
    BY <2>1 DEF Made, StrideKept, fieldVars, reqVars
  <2>6. Ids'
    BY <2>1 DEF Ids, IdsUnique, idVars, fieldVars
  <2>7. QED
    BY <2>2, <2>3, <2>4, <2>5, <2>6
<1>3. QED
  BY <1>1, <1>2 DEF Next

\* The inductive invariant holds in every reachable state.
THEOREM Invariance == Spec => []IInv
<1>1. QED
  BY InitIInv, NextIInv, PTL DEF Spec

\* Types: the id counter keeps to its 32 bits.
THEOREM TypeCorrect == Spec => []TypeOK
<1>1. IInv => TypeOK
  BY DEF IInv
<1>2. QED
  BY <1>1, Invariance, PTL

\* However requests overlap and wherever they fail, the handles and descriptors
\* of the service are exactly those of the requests in progress.
THEOREM ServiceLeaksNothing == Spec => []NothingLeaked
<1>1. ASSUME IInv PROVE NothingLeaked
  <2>1. heap = UNION {Held(t) : t \in Threads}
    BY <1>1 DEF IInv, HeldOnce
  <2>2. \A t, u \in Threads : t # u => Held(t) \cap Held(u) = {}
    BY <1>1 DEF IInv, HeldOnce
  <2>3. \A t \in Threads : pc[t] = "idle" => Held(t) = {}
    BY <1>1 DEF IInv, Stages, Making, Held
  <2>4. \A fd \in openFds : \E h \in heap : fd \in OwnFds(h)
    BY <1>1, FdsAssumption DEF IInv, TypeOK, FdsUsedOnce, OwnFds
  <2>5. \A h \in heap : OwnFds(h) \subseteq openFds
    BY <1>1 DEF IInv, Fields, OwnFds
  <2>6. openFds = UNION {OwnFds(h) : h \in heap}
    BY <2>4, <2>5
  <2>7. \A h, g \in heap : h # g => OwnFds(h) \cap OwnFds(g) = {}
    BY <1>1 DEF IInv, FdsUsedOnce, OwnFds
  <2>8. QED
    BY <2>1, <2>2, <2>3, <2>6, <2>7 DEF NothingLeaked
<1>2. QED
  BY <1>1, Invariance, PTL

\* Every reply has the buffers that were asked for, all finished, and tells the
\* stride they all have.
THEOREM RepliesWhole == Spec => []ReplyWhole
<1>1. ASSUME IInv PROVE ReplyWhole
  <2>1. SUFFICES ASSUME NEW t \in Threads, pc[t] = "sent"
                 PROVE  /\ Cardinality(gralloc_buffers[t]) = count[t]
                        /\ \A h \in gralloc_buffers[t] :
                             /\ share_fd[h] \in openFds /\ share_attr_fd[h] \in openFds
                             /\ share_fd[h] # share_attr_fd[h]
                             /\ backing_store_id[h] # NoId
                             /\ metadata[h]
                             /\ stride[h] = pixel_stride[t]
    BY DEF ReplyWhole
  <2>2. Cardinality(gralloc_buffers[t]) = count[t]
    BY <1>1, <2>1 DEF IInv, Made
  <2>3. \A h \in gralloc_buffers[t] : h \in heap
    BY <1>1 DEF IInv, HeldOnce, Held
  <2>4. \A h \in gralloc_buffers[t] :
          /\ share_fd[h] \in openFds /\ share_attr_fd[h] \in openFds
          /\ share_fd[h] # share_attr_fd[h]
    BY <1>1, <2>3 DEF IInv, Made, Fields, FdsUsedOnce
  <2>5. \A h \in gralloc_buffers[t] :
          /\ backing_store_id[h] # NoId
          /\ metadata[h]
          /\ stride[h] = pixel_stride[t]
    BY <1>1, <2>1 DEF IInv, Made, StrideKept
  <2>6. QED
    BY <2>2, <2>4, <2>5
<1>2. QED
  BY <1>1, Invariance, PTL

\* Up to the wrap of the counter, no two buffers the service ever made have the
\* same id.
THEOREM UniqueIds == Spec => []IdsUnique
<1>1. IInv => IdsUnique
  BY DEF IInv, Ids
<1>2. QED
  BY <1>1, Invariance, PTL
=============================================================================
