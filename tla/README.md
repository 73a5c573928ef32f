# Gralloc for Mali GPUs on Rockchip: models, checks and proofs

The repository is the graphics memory allocator of Android for Mali (Bifrost)
GPUs, in the variant Rockchip ships. One half, the *allocator*, runs in a
service process and makes graphic buffers: a dma-buf for the pixels and a small
shared memory region for attributes. The other half, the *mapper*, is a library
loaded into every process that uses buffers: it imports handles that arrive over
binder, maps them for the CPU, and reads and writes their metadata.

This directory holds TLA+ models of those parts, the configurations with which
TLC checks them on small instances, and proofs, checked by TLAPS, of their main
properties for instances of any size. `PROJECT.json` lists components, runs,
findings, hazards, and the source lines each definition stands for.

## 1. Inventory

| component | source (under `src/`) | state | operations |
|---|---|---|---|
| registered handles | `idl_common/mapper/registered_handle_pool.cpp`, `mapper.cpp` | the set of registered handles, under a mutex | `add`, `remove`, `get`, `for_each` |
| import and free | `idl_common/mapper/mapper.cpp`, `core/buffer.h` | two descriptors and an attribute mapping for each handle | `importBuffer`, `freeBuffer` |
| CPU locks | `mapper.cpp`, `core/buffer_access.cpp` | `base`, `lock_count`, `cpu_write` of a handle; `g_map_mutex` | `lock`, `unlock`, `flushLockedBuffer`, `rereadLockedBuffer` |
| metadata calls | `idl_common/mapper/mapper_metadata.cpp` | none of its own | `get`, `set`, `dumpBuffers`, `getFromBufferDescriptorInfo` |
| shared metadata | `idl_common/gralloc_shared/shared_metadata.cpp` | the attribute region, shared by all processes that hold the buffer | a getter and a setter for each field |
| allocator service | `idl_common/allocator/allocator.cpp`, `4.x/`, `aidl/1.x/` | the handles of requests in progress; the id counter | `allocate` |
| dma-buf heaps | `allocator/dma_buf_heaps/dma_buf_heaps.cpp` | descriptors of the heaps, opened once | `allocator_allocate`, `allocator_map`, CPU sync |
| attribute memory | `allocator/shared_memory/shared_memory.cpp` | none | `gralloc_shared_memory_allocate` |
| format selection | `core/formats.cpp`, `core/format_info.cpp` | `s_fb_size` in every process, a system property for all | `rk_gralloc_select_format`, `save_fb_size`, `get_fb_size`; in the other build `select_best_format` |
| size and layout | `core/buffer_allocation.cpp` | none | `mali_gralloc_derive_format_and_size` |
| descriptors | `idl_common/gralloc_shared/include/idl_common/descriptor.h`, `core/buffer_descriptor.h` | none | encode, decode |
| layouts told to users | `core/buffer_access.cpp`, `core/drm_utils.cpp`, `mapper_metadata.cpp` | none | `lock_ycbcr`, `lock_flex`, component lists, fourcc and modifier of a handle |
| capabilities | `capabilities/` | tables read from XML at start | used by the selection of the build without `USE_RK_SELECTING_FORMAT_MANNER` |
| entry points, service mains, interfaces, build | `4.x/mapper`, `service/`, `interfaces/`, `configure` | none | forwarding |

**Interaction.** A client process encodes a descriptor and sends it to the
service. A binder thread of the service decodes it and, for each buffer asked
for, derives format and size, allocates the dma-buf, draws an id, allocates and
initialises the attribute region; the reply carries the raw handles, and binder
duplicates their descriptors for the receiver. The receiver calls `importBuffer`,
which makes a copy of the handle with descriptors of its own and registers it.
From then on threads of that process call the mapper on the handle, at the same
time if they like; the mapper protects the pool and the mapping of the buffer
by a mutex each, and nothing else. Processes share the attribute region, and one
system property, without a lock.

**What is hard here.**

* Concurrency. `lock_count` is an atomic that is tested and changed in separate
  accesses, `cpu_write` is a plain int, `base` is tested under a mutex. Frees
  and imports of other threads reuse heap addresses and descriptor numbers as
  soon as they are released.
* Partial failure. An import, a lock, an allocation of several buffers and the
  flush of an unlock can each fail half way.
* Stale state. `cpu_write` outlives the lock it describes; `lock_count` of an
  imported handle is not initialised; `s_fb_size` is cached in every process and
  never refreshed; the format is derived anew for each buffer of a request.
* Ordering between processes, for the framebuffer size and the metadata.

**What makes each component correct.**

* Handles: no descriptor or mapping is leaked, shared between handles or
  released twice; no call touches a handle that was released.
* Locks: the buffer is mapped once and stays mapped while it is locked;
  `lock_count` equals the locks held; a holder of a lock is not refused; what
  the CPU wrote is written back by the unlock; no mutex is left held.
* Allocator: a request gives back whatever it took, however it ends; a reply is
  complete and its stride is true of all its buffers; ids are unique.
* Format selection: the framebuffer size, once saved, stays, and is the same in
  all processes; a query of the mapper predicts what the allocator does; what is
  selected can be allocated.
* Shared metadata: an undisturbed reader gets what the last undisturbed writer
  wrote; a reader that races gets a value some writer wrote.
* Sizes: planes lie within their layer and do not overlap, rows fit into strides,
  strides satisfy hardware, CPU and client, and all buffers of a request get the
  same layout.
* Layouts: the descriptions of one layout, written down in four places, agree with
  the allocation and with each other.
* Selection by capabilities: what is selected can be produced, consumed and
  allocated; a linear layout is found when there is one.
* Queries: what a client is told of a description holds of the buffer made from it.

## 2. Modules

| module | models | extends |
|---|---|---|
| `BufferMapper` | handles, locks and metadata access in one client process | |
| `BufferMapperProofs` | its inductive invariant and theorems | `BufferMapper` |
| `MCBufferMapper` | instances for TLC | `BufferMapper` |
| `LockContract` | what the mapper promises, each call at one instant | |
| `BufferMapperRefinement` | the proof that `BufferMapper` implements it | `BufferMapperProofs` |
| `BufferAllocator` | the service: requests, ids, release | |
| `BufferAllocatorProofs` | its inductive invariant and theorems | `BufferAllocator` |
| `MCBufferAllocator` | instances for TLC | `BufferAllocator` |
| `FormatSelection` | the choice of the format and the framebuffer size | |
| `FormatSelectionProofs` | agreement of all processes on the framebuffer size | `FormatSelection` |
| `MCFormatSelection` | instances for TLC | `FormatSelection` |
| `SharedMetadata` | the attribute region that processes share | |
| `SharedMetadataProofs` | its inductive invariants and theorems | `SharedMetadata` |
| `MCSharedMetadata` | instances for TLC | `SharedMetadata` |
| `FormatTable` | the table of base formats | |
| `AllocSize` | sizes, strides and plane layouts | `FormatTable` |
| `BufferLayouts` | what users of a buffer are told of its layout | `AllocSize` |
| `ArmSelection` | the selection by usages and capabilities | `BufferLayouts` |
| `BufferQueries` | descriptors, heaps, defaults, and the queries before and after an allocation | `ArmSelection` |
| `ArmSelectionProofs` | theorems on what is selected | `BufferQueries` |
| `AllocSizeProofs` | the derivation in closed form | `ArmSelectionProofs` |
| `BufferQueriesProofs` | theorems on descriptions, on every buffer derived for one, and on `BufferLayouts` | `AllocSizeProofs` |
| `MCAllocSize` | instances of these four for TLC | `BufferQueries` |

Each component module has "slips": variants of an action or operator with a
mistake this code invites (a mutex not taken, a descriptor not reset, a guard
dropped). `PROJECT.json` pairs every property with a slip that violates it.

### BufferMapper

State. `pool` is the registry and `heap` the set of addresses at which a handle
is allocated. The fields of the handle at each address are functions named as in
`imported_handle` and `private_handle_t`. Kernel state is explicit: `openFds`, and
the number of live mappings of each region (`attrMaps`, `dmaMaps`), so that what
the fields claim can be compared with what exists. `readers`, `writers`, `residue`,
`lost` and `dirty` are history: the locks clients hold, the part of `lock_count` no
client accounts for, the handles whose `lock_count` has been negative since their
import, and the buffers with CPU writes not yet written back.

Actions. A thread runs one call at a time and `pc` is its place in it. A step is
one access to shared state: a critical section of the pool mutex, one read or
write of `lock_count` or `cpu_write`, one system call. `mali_map_buffer` is two
steps, because other threads run between taking the mutex and the return of
`mmap`; `dumpBuffers` is as many as there are handles, under the pool mutex.

| code | actions |
|---|---|
| `importBuffer`, `make_imported_handle` | `ImportInvalid`, `ImportNoMemory`, `ImportCreate`, `ImportDup0`, `ImportDup1`, `ImportFail`, `ImportMapAttr`, `ImportAdd` |
| `freeBuffer` | `FreeRemove`, `FreeUnmap`, `FreeRelease`, `FreeDelete` |
| `lock` | `CallUnregistered`, `LockBadFence`, `LockStart`, `LockCheck`, `LockValid`, `LockInvalid`, `LockMapTest`, `LockMmap`, `LockMmapFail`, `LockCount`, `LockFlag`, `LockSyncStart` |
| `unlock` | `UnlockStart`, `UnlockNotLocked`, `UnlockResidue`, `UnlockCheck`, `UnlockSyncEnd`, `UnlockSyncEndFail`, `UnlockTest`, `UnlockDecrement`, `UnlockStore`, `UnlockLast`, `UnlockClear` |
| `flushLockedBuffer`, `rereadLockedBuffer` | `FlushStart`, `FlushCheck`, `FlushSyncEnd`, `RereadStart`, `RereadCheck`, `RereadSyncStart` |
| `get`, `set`, `getReservedRegion` | `MetadataStart`, `MetadataAccess` |
| `dumpBuffers` | `DumpStart`, `DumpVisit`, `DumpEnd` |

Uninitialised memory is a choice: `base` and `cpu_write` of a fresh handle hold
anything until `importBuffer` sets them, and `lock_count` starts with the value
in the last copied int of the raw handle. That is memory nothing has written, so
`Tails` is any set of ints, negative ones included (finding 1). `lock_count`
is an int of `IntMax`, and wraps (`Incremented`, `Decremented`). Line 107 of
`buffer_access.cpp` is two accesses: `UnlockTest`, then `UnlockDecrement` where it
found a positive count and `UnlockStore`, which stores 0, where it did not.

A count that has been negative, because the handle was imported with it or because a
lock overflowed it, is `lost` until the handle is freed: `unlockBuffer` may refuse a
client that holds a lock, and line 107 jumps from any negative count to 0.
`LockCountExact`, `HolderNotRefused`, `CpuWriteMeansLocked` and `WritesFlushed`
speak of handles whose count is not lost; `UnlockServesHolder`, without that
condition, is violated (`MapperNegative.cfg`, section 4). Everything else, ownership of descriptors and
mappings, the order of registration and release, the return of every call, holds for
all handles.

Assumptions on clients: a handle is not freed while another call on it is in
progress (`Quiet` in `FreeRemove`), which the interface asks of clients and which
the code cannot enforce; and, only where a run says so, that calls on one handle
do not overlap (`Exclusive`).

`LockContract` is the abstract specification: handles are imported and freed,
mapped once, and their locks counted, each in one step. `ImplementsContract` maps
`imported` to `pool`, `mapped` to the registered handles whose `base` is not null,
and `locks` to `lock_count` of the registered handles. A new handle may start with
any count in `Tails`. Where that is negative, or a lock raises the count beyond
`MaxCount` (`IntMax`), the contract gives the count up: it is `Lost` until `Free`, and
of such a handle only the import, the mapping and the free are promised.

### BufferAllocator

State: the handles and descriptors of the service, the id counter, and for each
binder thread the local variables of `allocate`. One loop iteration is `Derive`,
`Alloc`, `AssignId`, `AllocAttr`, `InitMetadata`, `CheckStride`, with a failing
alternative wherever the code returns early (`AllocFail`, `AllocAttrFail`,
`MapMetadataFail`, `StrideDiffers`). `End` is what all returns have in common:
the destructors of `hnd` and `gralloc_buffers` run, in one step, since no other
thread can tell in which order the descriptors are closed. `SelectionChanges`
stands for everything the derivation depends on outside the request.

### FormatSelection

`rk_gralloc_select_format`, the variant compiled in by
`USE_RK_SELECTING_FORMAT_MANNER`, is a state machine only because of the
framebuffer size: `save_fb_size` and `get_fb_size` work on a static variable of
the process and a system property, in the steps `GetCached`, `GetProp`,
`GetStore`, `GetReturn`, `SaveKnown`, `SaveCache`, `SaveProp`. The rest of it is
operators on a descriptor. The read of
`s_fb_size` at the end of `get_fb_size` is unsynchronised; the model lets it yield
the value stored before or the value now in the variable. `property_set` may fail
without notice. `Restart` kills a process at any point, and init starts it again
(`src/service/4.x/*.rc`): the property survives, the cache does not. The debug
switches (`switches`) are chosen at the start and stay.

### SharedMetadata

The region is mapped shared by every process that holds the buffer, and its
accessors take no lock. A behaviour is about one of the nine fields (they do not
overlap); the field is a tag, the `item_state` of an `aligned_optional` or the
size of an `aligned_inline_vector`, and payload words. A `set` or a `get` is a call
that writes or reads its words one at a time in any order, which is what a data
race between processes on plain memory allows, and the process may die between any
two (`Die`). Which values are refused, ignored or converted follows
`set_metadata` and the accessors (`Accepts`, `Ignores`, `Encode`), what is
answered for an absent value follows `get_metadata` (`Default`). A crop rectangle
is represented by its horizontal edges, an HDR structure by two words; names, which
only the allocator sets, are read only.

An argument of CHROMA_SITING is any of three names, standard, ARM's and a foreign one,
with any value: `set_metadata` refuses the foreign one only, the region holds the
value alone, and a get derives the name from it. `Kept` is what is left of an argument
in this way. A CROP without a rectangle makes `set_metadata` read the first element of
an empty vector: in `SetNoCrop` the process faults, or goes on with any rectangle.

History: `stored` is what the last set left (`Kept`) if nothing disturbed it, `told` the
last value a client was answered NONE for, `alone` whether a call met no set, and
`may` the values a racing get may answer.

### AllocSize

One derivation of a buffer's size. A request is the descriptor's arguments and
the selected format with its modifiers; `Call` takes one, `Derive` or `Refuse`
tests it (`get_alloc_type`, `validate_format`), `CalcPlane` is one iteration of the
loop of `calc_allocation_size`, `adjust_rk_video_buffer_size` and `Layers` are what
`mali_gralloc_derive_format_and_size` does afterwards, and `init_afbc` or
`NoHeaders` ends `mali_gralloc_buffer_allocate`. `Again` runs all that a second
time on the same descriptor, as `allocate` does for the next buffer. The helpers
are operators with the names of the code's functions and variables.
`get_num_planes` and `plane_size` are what the mapper later reports.

`FormatTable` is the table `formats` of `format_info.cpp`, without the columns
that do not enter a size. Arithmetic is in the integers.

### BufferLayouts

Operators on the handle `AllocSize` ends with. `flex_rows` and `lock_ycbcr` are the
switches of `core/buffer_access.cpp`, the component table is that of
`mapper_metadata.cpp`, looked up by the fourcc of `drm_utils.cpp`, and the modifier
is rebuilt as `drm_utils.cpp` does. The tables keep the code's rows; a component is
its offset, sample and increment, in bytes or bits as in the code.

### ArmSelection

What a build with `USE_RK_SELECTING_FORMAT_MANNER` 0 does between a request and
`AllocSize`: `Select` takes an ask and a device, maps the usage to producers and
consumers, reads the capability files, grades every compatible format
(`is_format_supported`, `get_afbc_format`, `get_afrc_format`, `get_bl_format`,
`validate_afbc_format`, `grade_format`), and hands the best to `Derive` or
refuses. A device is a sequence of files in the order `readdir` gives them; a file
that does not parse ends the reading. A usage is a set of bits by name, so that
flags that share a bit (the AFRC coding sizes and Rockchip's `SPECIFY_STRIDE` and
`WITHIN_4G`) interact as they do in the code.

### BufferQueries

The life of one description: `getFromBufferDescriptorInfo` derives a partial handle,
`Foretell` answers each type from it, `createDescriptor` validates and encodes,
`allocate` decodes, the derivation runs and `Reply` ends the call. `get_metadata`
and `partial_answer` are the two separate switches that answer, on the imported
buffer and on the partial handle. `pick_dma_buf_heap`, `get_format_dataspace` and
`get_format_chroma_siting` are the allocator's choices for a new buffer;
`isSupported` and `validateBufferSize` the mapper's predicates. A name is its
length.

## 3. Runs

| run | configuration | shows |
|---|---|---|
| `mapper_handles` | 3 threads, 2 addresses, 4 descriptors, no locks | `TypeOK`, `FdsOwned`, `HandlesLive`, `AddNeverFails` |
| `mapper_locks` | 3 threads (2 once a count is lost), 1 handle, 2 locks at once, failing flush, counts that start at -2, 0 and 1 and overflow at 2 | `MappingsOwned`, `LockedIsMapped`, `LockCountExact`, `HolderNotRefused`, and the refinement `ImplementsContract` |
| `mapper_exclusive` | 2 threads that take turns, 1 lock at a time, the same start values | `CpuWriteMeansLocked`, `WritesFlushed` |
| `mapper_returns` | 2 threads, fair | `CallsReturn` |
| `allocator` | 2 threads, 3 handles, 5 descriptors, requests for up to 2 buffers | `TypeOK`, `NothingLeaked`, `ReplyWhole`, `IdsUnique` |
| `selection_one_saver` | 3 processes of one thread, two framebuffer sizes, four layers | `TypeOK`, `CachesAgree`, `QueriesAgree`, `SmallNotAfbc`, `FbSizeSticks` |
| `metadata` | 3 clients (at most 2 busy at a time but for the dataspace and the blend mode), all nine types, SDK 33 | `TypeOK`, `QuietGet`, `RegularGet` |
| `sizes` | requests with the format given: all 41 base formats, linear or plain AFBC, every AFBC modifier on 8 formats, AFRC with all coding units, block-linear; 16 widths, 4 heights, 1 and 3 layers | sizes: `TypeOK`, `PlanesFit`, `RowsFit`, `Aligned` (with `StrideAsAsked`), `SameAgain`, `HeadersWritten`, `StrideAssertions` (with `Yv12Chroma`); layouts: `DescribedInside` (`LayoutsInside`, `FlexInside`, `ComponentsFit`), `DescriptionsAgree` (`FlexAsReported`, `YcbcrAsFlex`), `ModifierTellsLayout` |
| `sizes`, continued | requests whose format is selected, on 88 devices, and descriptions asked about, encoded and allocated | selection: `AllocatorAccepts`, `EveryIpCan`, `LinearServed`, `AfbcSound` (`AfbcWellFormed`, `FrontBufferSafe`); queries: `HeapSuits`, `ForetoldAsGot` (with `OwnBufferValid`) |
| `mapper_residue`, `mapper_unlock_fails`, `selection_two_savers`, `metadata_blob` | the smallest that shows it | a violation each, section 4 |

**Bounds.** `MaxLocks` bounds the locks of one handle held at once: two make a
read and a write lock, or two writers, overlap, and more only repeat that.
`MaxResidue` bounds how often a flush may fail. `IntMax` is 2 in `mapper_locks`, which
two locks on a count of 1 exceed, and 3 elsewhere, which nothing does. The start
values of `AnyTail` are -2 (negative even after a lock; another lock makes it 0), 0,
and 1 (positive with no lock behind it); other runs with a negative value have -1, which one
lock makes 0. `AtMostTwoBusy` keeps a handle whose count is lost to two
threads, since little is stated of it. Two addresses and four
descriptors let an import reuse both the address and the numbers of a handle
that another thread is still freeing, while a third thread works on another
handle. In the allocator, five descriptors for two requests make one of them run
out of descriptors in the middle, three handles do the same for memory, and
`IdMod = MaxAllocs = 3` uses the counter up to, and not beyond, its wrap. The
selection has framebuffers of 64 and 32 pixels and RGBA layers of 4, 12 and 16
pixels, on both sides of the quarter of each. Threads, addresses and descriptors
are symmetric wherever symmetry is used, and no liveness run uses it.

In the metadata runs two words of capacity let a short value follow a long one,
and a buffer of width 1 in an allocation of width 2 has two valid crop
rectangles to mix; the scalars 0, 1 and 256 are an unknown value, a standard one
and, for chroma sitings, one of ARM's. Two clients are the least for a race, a
third makes two sets and a get overlap; `AtMostTwoBusy` keeps that to the dataspace
and the blend mode. Of the fields of one word, the only ones a property speaks of
under such a race, the chroma siting has nine arguments and is left to two clients;
`RegularGetCorrect` proves it for any number.

The widths of `sizes` are odd and even, on both sides of the alignments
16, 64, 128 and 256, and include 154 and 410, where the rows of NV30 and NV15 end
half a byte beyond an aligned stride. `RkRequests` has the formats as the shipped
build selects them; `ArmRequests` those that a build with
`USE_RK_SELECTING_FORMAT_MANNER` 0 adds, since the arithmetic is compiled in both.

The devices combine every choice of the optional AFBC features of the GPU with five
displays (80), and eight more lack a display, AFRC, block-linear or AFBC, are
read-only, or have a file that does not parse. Each device meets every usage of a
list that has every producer and consumer, alone and in the combinations the code
tests, with dimensions of 34 by 34, since the selection hardly looks at them.
`Described` varies what the queries depend on instead: width 0, 31 and 1920, height
17 and 720 (on both sides of the limit of BT601), one and three layers, names of 0,
127, 128 and 300 characters, and usages that name color space and range. Requests
that force modifiers are asked without CPU usage: with it `get_pixel_w_h` takes the
CPU's branch for an AFBC buffer, which only such a private request reaches.

**Fairness.** `FairSpec` asks for weak fairness of each thread's `Step`: a
thread with a call in progress is scheduled, its system calls return, and
acquire fences are signalled (`sync_wait` has no timeout, so a fence that never
signals does block a call for ever). Calls are not fair: no client is obliged to
call. `CallsReturn` says that if clients stop calling then all calls return; it
is stated with the pause because a thread may wait for a mutex that others
take again and again, and `std::mutex` promises no order.

**One saver.** `selection_one_saver` gives each process one thread. For the
service that is so in the AIDL build, whose main sets a thread pool of no extra
threads (`src/service/aidl/1.x/service.cpp:28`) and joins with one; for clients
it is a restriction. `selection_two_savers` lifts it for the service.

## 4. Findings

Each is a run that ends in a violation, of a statement the repository makes.

1. `mapper_residue` (`core/buffer.h:357`). `lock_count` lies in the tail padding
   of `private_handle_t`, is copied from the raw handle with the last int, and is
   not reset: a new handle may pass for locked, which the run shows. It may also be
   negative. From -1, the first lock makes `lock_count` 0: `unlockBuffer`
   (`mapper.cpp:178`), `flushLockedBuffer` and `rereadLockedBuffer` refuse the client
   that holds the lock, and what it wrote stays in the caches. From -2, a lock and an
   unlock take the count from -1 to 0 (`buffer_access.cpp:107`).
2. `mapper_unlock_fails` (`core/buffer_access.cpp:102`). When the flush of an
   unlock fails the lock is kept and the caller is told it was released.
3. `selection_two_savers` (`core/formats.cpp:1408`). Two framebuffer requests at
   once both save their size; a process that looked in between keeps the loser.
4. `metadata_blob` (`shared_metadata.cpp:100`). `aligned_inline_vector::end()` is
   the end of the array: a SMPTE 2094 value is answered with the rest of the array
   behind it, zeros or what is left of longer values.

Six more configurations, each the smallest that shows it, end in a violation.
They are not among the runs; they reproduce what the properties of the runs make an
exception to, and `tlc -config <configuration>.cfg <module>` shows the trace.

| configuration, module | property | shows |
|---|---|---|
| `MapperNegative`, `MCBufferMapper` | `UnlockServesHolder` | the second half of finding 1: from a count of -1, unlock refuses the client that holds the lock |
| `MapperOverlap`, `MCBufferMapper` | `CpuWriteSaysLocked` | `cpu_write` (`core/buffer_access.cpp:108`) is "locked for CPU write when non-zero", but is cleared only when the last lock goes: after a read lock, a write lock and the unlock of the write lock it stays set with no writer. In the other order the read lock overwrites it with 0, and the writer's unlock does not flush. `CpuWriteMeansLocked` and `WritesFlushed` are checked for locks that do not overlap |
| `MetadataChroma`, `MCSharedMetadata` | `ReadBack` | either name of a chroma siting is accepted with any value, the value alone is stored (`shared_metadata.cpp:241`) and a get derives the name from it: a set answered NONE may read back with another name. `QuietGet` and `RegularGet` speak of what a set stored |
| `MetadataDataspace`, `MCSharedMetadata` | `ReadBack` | setting the dataspace UNKNOWN is answered with NONE and changes nothing (`mapper_metadata.cpp:650`) |
| `SizesTenBit`, `MCAllocSize` | `RowsOfWholeBytes` | NV15 and NV30 break the note on `bpp` in `format_info.h` and the assertion at `buffer_allocation.cpp:666` at widths that round to an odd multiple of two, and the quotient drops part of a byte of the row. `RowsFit` and `StrideAsAsked` except these widths |
| `SizesBgr888`, `MCAllocSize` | `StrideOfWholePixels` | BGR_888 for CPU and hardware breaks the assertion at `buffer_allocation.cpp:824` that a stride is a whole number of pixels; the stride told to the client is rounded down. `StrideAssertions` excepts it |

Other behaviour met while modelling, to which a property makes an exception:

* AFBC is selected for formats that cannot be allocated with it, although they
  could without (`core/formats.cpp:1696`; BLOB, RAW16, R8, NV21, YV12), and YUV
  requests with NO_AFBC are served, which `usages.h` says are refused
  (`core/formats.cpp:1656`).
* A crop rectangle is validated and then written edge by edge (`shared_metadata.cpp:197`),
  so that a get that races may answer a rectangle nobody set: `QuietGet` speaks of
  gets that race with nobody, `RegularGet` of fields of one word. An empty list of crops
  is accepted, and its first element read (`mapper_metadata.cpp:739`).
* Requests outside what the computation of sizes is written for, met while proving
  it for all requests. Of several stride flags at once the code says they are
  unexpected and then obeys none, or for NV12 takes a stride of 0: `OneStrideFlag`.
  It obeys a flag for formats that are not the decoder's, too, whose stride may then
  be no whole number of pixels: `FlagsForVideo`. A private format may name AFBC, AFRC
  or block-linear with CPU usage, which `get_pixel_w_h` then rounds for the CPU
  only, so that superblocks and blocks are cut: `HardwareOnly`. A query is not
  validated and may ask for width 0. The properties name these premises where they
  need them.
* `adjust_rk_video_buffer_size` divides by the linear bits per pixel, which are 0
  for the formats that exist only as AFBC (`buffer_allocation.cpp:138`); the
  quotient is not used for them, and the model leaves it out.
* The size reported for the middle one of three planes is its end
  (`mapper_metadata.cpp:277`): `LayoutsInside` leaves it out.
* Layouts. The format table marks BGR_888 and NV24 as flexible, but `lock_flex` has
  no case for them and refuses. `lock_flex` does not refuse buffers with modifiers
  (the test is in `#if 0`), and for YU12 uses each chroma plane's stride for the
  other one, which are equal. NV15 has no component entry, Y8 and Y16 have no fourcc,
  the depth formats borrow fourccs of color formats. Under AFBC the components
  reported for P010, Y210 and RGBA_10101010 do not fit their sample increment. The
  properties speak of linear layouts and of formats that have an entry. No entry
  point in the repository calls `lock_flex` or `lock_ycbcr`.
* Selection by capabilities. When the display does not support a format it is
  dropped for that test alone (`core/formats.cpp:837`); the choice of AFBC, AFRC and
  block-linear still counts it. A front buffer without tiled headers may be given
  AFBC without a double body, although the device has the latter: `FrontBufferSafe`
  is about devices that have tiled headers wherever they have double bodies. `SPECIFY_STRIDE` and `WITHIN_4G` are bits of the
  AFRC coding sizes. BGR_888, NV24 and NV30 are permitted no usage in the support
  table. A file that does not parse makes the IPs of later files absent, that is,
  unrestricted.
* Queries. `getFromBufferDescriptorInfo` leaves `flags` 0, where `isSupported` and
  `allocate` set them: in an AIDL build it answers BAD_VALUE for requests that are
  judged by the flags (R8, GPU data buffers, front buffers). Its chroma siting
  differs from the allocator's default for formats that are not RGB. The descriptor
  cuts names after 127 characters, which the query does not. It does not validate
  the description either. `ForetoldAsGot` excepts the first three. The bits that
  select a chroma siting are not valid usages in this build, so that they are
  refused before they are read. 4.x `isSupported` answers twice for an invalid
  description, there being no return after BAD_VALUE. The property that asks for
  contiguous memory overrides PROTECTED (`dma_buf_heaps.cpp:167`), so that `HeapSuits`
  does not ask for secure memory for every protected buffer.

## 5. Proofs

All theorems hold for any number of threads, handles, descriptors and processes,
any set of requests and descriptions and any directory of capability files; they
assume only the named assumptions in the module that declares the constants. Each
assumption is evaluated by TLC in the runs that extend the module.

**BufferMapper.** `Invariance` proves `IInv`, of which the checked properties are
consequences:

* `Ownership`: an unregistered handle has exactly one call importing or freeing
  it; a call that uses a handle uses a registered one. Everything else rests on
  this, because it says whose fields a step may change.
* `Mutexes`: who is inside which critical section; while `mmap` runs `base` is null.
* `Mappings`, `FdStages`: what is mapped and open at each stage of an import or a
  free. The properties speak of registered handles only and are not inductive
  without this.
* `FdsDistinct`, `FdsNotLeaked`: each open descriptor is in exactly one field.
* `Locked`: the mapping exists before the lock is counted, until it is given up.
* `Counts`: `LockCountExact`, and its start value for a handle being imported; that a
  handle is in `lost` from the moment its count is negative is part of it.
  The proof follows the set of threads that are between counting and returning
  through every step, with the cardinality facts for adding and removing one.

The theorems are `TypeCorrect`, `DescriptorsOwned`, `MappedOnce`,
`CallsOnLiveHandles`, `LockedStaysMapped`, `FreshHandles`, `LockCountCorrect` and,
for an action property, `HolderServed`.

`CpuWriteCorrect` and `UnlockFlushes` are about clients that take turns on a handle
(`Exclusive`), which `MapperOverlap` shows to be needed; the
second also assumes that no flush fails (`MaxResidue = 0`). They rest on `OneCall`
and `OneLock` (a handle is used by one call at a time and locked once), `Flags`
(without a writer `cpu_write` is set only by what a failed flush left, by a lock
about to return, or until the unlock in progress clears it) and `Flushing`
(unflushed writes without a writer mean an unlock that has not come to its flush,
which `cpu_write` does not let it skip).

`BufferMapperRefinement` proves `Refinement`, that `Spec` implies `LockContract`'s
specification under the mapping of section 2. Step by step: `ImportAdd` is `Import`,
`FreeRemove` is `Free`, `LockMmap` is `Map`, `LockCount` is `Lock`, `UnlockDecrement`
is `Unlock`, all others change nothing the contract sees. Besides `IInv` it needs
`NewCounts`, that the count a handle is registered with is still the one of its raw
handle; `Locked` gives that a lock is counted on a mapped buffer, `Ownership` that
no other call reaches a handle that is being imported or freed.

**BufferAllocator.** `IInv` has `Stages` (a handle is in the making exactly at the
labels between its allocation and the stride test), `HeldOnce` (each handle is
held by one request), `Fields` (what a handle has at each stage), `FdsUsedOnce`,
`Made` (the finished buffers are finished, and `i` of them), `StrideKept` (the
stride derived last is that of all finished buffers whenever a reply can be
made) and `Ids` (every id in use is below the counter, as long as it has not
wrapped, which `MaxAllocs <= IdMod` says). Theorems: `TypeCorrect`,
`ServiceLeaksNothing`, `RepliesWhole`, `UniqueIds`.

**FormatSelection.** `TypeCorrect` holds in every configuration. The others are
proved for configurations with one saver, `OneSaver(s)`: each process has one
thread that asks, and only `s` asks for framebuffers. `SizesAgree`,
`FirstSizeStays`, `QueriesForetell` and `SmallBuffersLinear` follow from `IInv(s)`:

* `SizeKnown(s)`: the cache of every other process is 0 or the property; the cache
  of the saver's is too, once the property is set; and between looking and saving
  the saver's cache is exactly what it has seen. A size the saver has in its cache
  alone (because `property_set` failed, or has not been called yet) is lost with
  the process and known to nobody else, which is why a restart does no harm.
* `SizeUsed`, `ChoiceMade`: a call that began when the property was set uses that
  value, and has chosen the format it leads to (`Choice`).
* `Asking`, `Chosen`: what a call has asked and chosen before it looks at the size.

Without `OneSaver`, `selection_two_savers` shows the agreement fails.

**SharedMetadata.** `TypeCorrect`, and for the two properties two invariants.
`QuietInv`: a get that no set overlaps has read the words that are there, a set
that no set overlaps finds the words it has written, and between sets the field
decodes to what the last undisturbed set stored; hence `QuietGetCorrect`, for every
type, through every conversion, and with processes that die inside a setter.
`RegularInv`, for fields of one word: the tag once written stays, the payload is
what a get would answer or comes from a set that has not returned, and `may` has
all that a get has read or may still read; hence `RegularGetCorrect` for any number
of racing clients. What a value looks like after the setter's checks and the
decoder is a lemma per kind of field.

**ArmSelection.** The invariant `SelectionInv` says that the request of a call is
one selected for its description, or the call has ended without any; the rest is
about the selection as a function. `Picked` says why a format was picked, and
`Serves` what its layout asks of producers and consumers; `PickedServes` carries the
first to the second through the chain of tests and corrections, with the DPU
dropped where the GPU stands in for it. `SelectionAccepted` (`AllocatorAccepts`),
`SelectionUsable` (`EveryIpCan`) and `SelectionSound` (`AfbcSound`) follow by layout,
`LinearIsServed` by showing that grades are bounded, that a best candidate exists
and that the linear one has a grade. How the two tables of formats fit together is
assumed row by row (`FormatsAssumption`, `LinearAssumption`,
`HalfFloatAssumption`, `CompressibleAssumption`, `DisplayAssumption`): these are
closed statements about the tables, which TLC evaluates.

**AllocSize.** The derivation has a closed form: `InfoOf(r, p)`, `SizeOf(r, p)`,
`Pixels(r)`, `OneLayer(r)` and `AllLayers(r)` are functions of the request alone.
`DerivationInv` says that in the loop the planes before the current one are those
of the closed form and the others untouched (`Loop`), that afterwards the whole
descriptor is (`Closed`), and that what was kept of the first derivation is, too
(`Kept`). It holds although `Again` starts from what the last derivation left; so
`BuffersAlike` (`SameAgain`). The other theorems read their property off the closed
form, for all dimensions:

* `PixelsHaveRoom` (`RowsFit`): rounding before the division by the subsampling
  (`DimensionsIs`), rows of whole bytes (`RawExact`), no later rounding of a stride
  makes it smaller (`LinearIs`, `ChromaRoom`).
* `PlanesHaveRoom` (`PlanesFit`): a plane of each layout ends within its size
  (`LinearRoom`, `AfrcRoom`, `BlockRoom`, `AfbcBodyIs`), the next begins there, and a
  layer is no smaller than its last plane's end (`FitsIs`).
* `AlignmentsKept` (`Aligned`): the alignment of a stride is a common multiple
  (`LcmIs`, from `LcmAssumption`), and stays through the rounding for YV12 and NV30
  (`LinearAligned`); AFBC planes and layers begin at multiples of the granule
  (`AfbcOffsets`, `AfbcAligned`); `FlagObeyed`, `WidthObeyed`.
* `AssertionsHold` (`StrideAssertions`): `AfbcWhole`, `AfrcWhole`, `BlockWhole`,
  `PixelStrideExact`, and `Yv12Strides` for the comment on chroma strides.
* `HeadersComplete` (`HeadersWritten`): dimensions are whole superblocks
  (`Superblocks`), and no stride is 0 before the last plane (`AfbcStride`), which is
  what ends the loop over the planes; with `Headed`, that only `init_afbc` writes
  headers.
* `TypeCorrect` (`TypeOK`), with `Typed`.

The arithmetic takes from the table what `TableAssumption`, `OddBitsAssumption`,
`NamedAssumption`, `VideoAssumption` and `AfbcAssumption` state of its rows, and of
`lcm` what `LcmAssumption` states for the alignments that occur (induction over `gcd`
is beyond the prover). A row added to the table is covered by the theorems as long
as TLC finds these true.

**BufferQueries.** The descriptions that reach a derivation: `DescriptionInv` says
that a query derives the description without its flags, an allocation what the
encoded description decodes to, and that what was foretold are the answers for the
closed form of the request (`Told`, an instance of the module on it). Decoding
what was encoded gives the same fields but the name (`DecodedAlike`), and the
selection reads no other (`AlikeSelection`, `AlikeFlags`), at most one format is
selected (`SelectedOnce`), and the answers depend only on the request
(`AnswersAre`). So `Foretelling` (`ForetoldAsGot`) and `HeapSuited` (`HeapSuits`). With
`Direct`, that a request without a description is one of `Requests`, the three
invariants make `QueryInv`, from which the theorems on `AllocSize` above follow for
selected requests and for given ones; they are stated in `BufferQueriesProofs`.

**BufferLayouts.** These theorems need `QueryInv` and one assumption on
the tables besides those of `AllocSize`, `PartsAssumption`: `formats` is the union
of its four parts (`@@` of the module `TLC`, which the prover cannot expand and TLC
evaluates). The parts, the component lists and the switches are closed
definitions, and the lemmas are proved from their rows. `BufferIs` and
`PlanesInside` say what a finished buffer is: planes of the closed form, one behind
the other, the last up to the end of the layer.

* `DescriptionsInside` (`DescribedInside`). For the reported planes, `PlanesCounted`:
  the mapper infers the number of planes from the handle, two planes from a width
  that is not 0 and three from an offset that is not 0. The latter is right because
  the first plane of three is never empty (`ThirdPlane`, by layout; that no
  block-linear format has three planes and that a linear pixel has a byte are facts
  of the table, `TableFacts`). For the components, `AllFit`: each list fits the bits
  of a sample, for the formats that borrow a list too. For `lock_flex`, `FlexIs`:
  every row of its switch names a plane of its format, the format's subsampling and
  bits per sample, and samples that share no byte with another row (`Apart`, over all
  samples, not the first eight of `FirstBytes`); `SamplesFit` then puts a row of
  samples within the stride, pairs of pixels of packed YUV through the even width.
* `DescriptionsAlike` (`DescriptionsAgree`): every row of `flex_rows` is in the list
  reported for its fourcc at the same byte (`Listed`, part of `FlexIs`), and starts
  where `chroma` says (`YcbcrRows`). `lock_flex` gives each chroma component of YU12
  the stride of the other one, and `android_ycbcr` has one stride for both: right,
  because strides of planes with the same bits are equal (`ChromaAlike`), through
  every alignment and usage flag.
* `ModifiersTell` (`ModifierTellsLayout`): `BlocksTold` (an accepted AFBC buffer of
  several planes has 64x4 chroma, and the modifier says so exactly when luma is
  32x8), `TilesTold` (the tags have one coding size per kind of plane, and formats of
  several planes are YUV) and `TileRowIs` (the division in the stride of a row of
  paging tiles is exact).

The proof of `FlexInside` needs `OneStrideFlag`, which the property had not stated:
with several stride flags, which the code calls unexpected, `NV12` gets a stride of 0
and no row fits. No request of the run has such flags, so TLC had not met it; the
property states the condition now, as `PlanesFit` and `RowsFit` do.

**Only model-checked.** Liveness (`CallsReturn`) is out of the prover's reach; every
other property of a passing run is stated by a theorem. That `lcm` is a common
multiple is evaluated for the alignments that occur, not proved for all numbers, and
the assumptions on the tables of `FormatTable`, `ArmSelection` and `AllocSize` are
evaluated by TLC. Violations are shown by TLC.

## 6. Not modelled

* The contents of buffers. Whether mapping a new buffer to write its AFBC headers
  succeeds is a choice (`init_afbc`, `NoHeaders`).
* `fork` after an import (`import_pid` in `freeBuffer`), which needs several processes.
* Fences that are never signalled: `sync_wait` has no timeout and `lock` then blocks.
* The overrides `GRALLOC_HWC_*`, which every build file sets to 0; the abort when
  the GPU has no capabilities; the syntax of the XML files.
* Of the metadata types PLANE_FDS and BUFFER_ID, whose answers are the handle's
  fields, and the encoding of answers into bytes.
* Crashes of a process in the mapper and the allocator: the kernel takes back what
  it held, and the state that outlives a process is in `FormatSelection` and
  `SharedMetadata`, which have crashes.
* Entry points that only forward, `drm_hwcomposer`'s query code, build scripts
  and interface declarations.
* 32-bit overflow of sizes, and the wrap of the id counter after 2^32 buffers: TLC's
  integers have 32 bits themselves. `PlanesFit` is checked for dimensions up to 1920,
  `IdsUnique` is stated up to the wrap.

## 7. Plan

Done: all the modules above, with the proofs of every safety property the runs check. Left, in
this order:

1. `NothingLeaked` and `IdsUnique` of `BufferAllocator` as a refinement of an abstract
   allocator that makes all buffers of a request or none.
2. The composition of `FormatSelection` with `validate_format` of `AllocSize`: which
   of what is selected is refused.
3. `HandleTransfer`: several processes: handles sent on, imported again, and
   inherited by `fork`, composing the allocator's replies with the mapper's imports;
   property: a dma-buf lives exactly as long as some process holds a descriptor of it.
