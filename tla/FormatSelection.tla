--------------------------- MODULE FormatSelection ---------------------------
(***************************************************************************)
(* The choice of the internal pixel format: rk_gralloc_select_format, the   *)
(* variant the build compiles in.  mali_gralloc_derive_format_and_size runs *)
(* it, in the allocator service for every buffer, and in any process for    *)
(* the mapper's isSupported and getFromBufferDescriptorInfo.                *)
(*                                                                          *)
(* The choice depends on the size of the framebuffer, which the first       *)
(* request with GRALLOC_USAGE_HW_FB saves for all processes in the property *)
(* vendor.gralloc.fb_size; each process caches it in s_fb_size.             *)
(*                                                                          *)
(* HAL formats and internal formats share one numbering, so a HAL format    *)
(* without a number of its own bears its internal name.                     *)
(***************************************************************************)
EXTENDS Integers, Sequences

CONSTANTS
  Procs,      \* processes that load the library
  Threads,
  Proc,       \* the process of each thread
  Requests,   \* the descriptors each thread may ask for
  Platform    \* ro.board.platform

ASSUME ProcAssumption == Proc \in [Threads -> Procs]
ASSUME PlatformAssumption == Platform \in {"rk3326", "rk356x", "rk3588"}

Flags == {"HW_FB", "NO_AFBC", "SW", "VIDEO_ENCODER", "CAMERA_WRITE", "CAMERA_READ"}

ASSUME RequestsAssumption ==
  \A t \in Threads : \A r \in Requests[t] :
    /\ DOMAIN r = {"format", "usage", "width", "height"}
    /\ r.usage \subseteq Flags
    /\ r.width \in Nat \ {0} /\ r.height \in Nat \ {0}

VARIABLES
  fb_prop,      \* vendor.gralloc.fb_size, 0 when not set
  switches,     \* the vendor.gralloc.* switches that are "1"
  s_fb_size,    \* the static variable of each process
  pc, req,      \* each thread's position, and the descriptor it asks for
  alloc_format, \* the base format and modifier chosen so far
  cached,       \* the value get_fb_size has loaded
  fb_size,      \* what get_fb_size returned
  known         \* history: fb_prop when the call began

vars == <<fb_prop, switches, s_fb_size, pc, req, alloc_format, cached, fb_size, known>>

Switches == {"no_afbc_for_sf_client_layer", "no_afbc_for_fb_target_layer",
             "not_to_use_non_afbc_for_small_buffers"}

Labels == {"idle", "select", "get", "getprop", "store", "return", "by_size", "save",
           "setprop", "derived"}

NoReq == [format |-> "UNDEFINED", usage |-> {}, width |-> 0, height |-> 0]
NoFormat == [base |-> "UNDEFINED", afbc |-> FALSE]

Init ==
  /\ fb_prop = 0
  /\ switches \in SUBSET Switches
  /\ s_fb_size = [p \in Procs |-> 0]
  /\ pc = [t \in Threads |-> "idle"]
  /\ req = [t \in Threads |-> NoReq]
  /\ alloc_format = [t \in Threads |-> NoFormat]
  /\ cached = [t \in Threads |-> 0]
  /\ fb_size = [t \in Threads |-> 0]
  /\ known = [t \in Threads |-> 0]

-----------------------------------------------------------------------------
\* The base formats of the table in format_info.cpp.
BaseFormats ==
  {"RGB_565", "RGB_888", "BGR_888", "RGBA_8888", "BGRA_8888", "RGBX_8888", "RGBA_1010102",
   "RGBA_16161616", "RGBA_10101010", "Y8", "Y16", "YUV420_8BIT_I", "NV12", "NV21", "YV12",
   "YU12", "YUV422_8BIT", "NV16", "NV24", "YUV444", "NV30", "Q410", "Q401",
   "YUV420_10BIT_I", "Y0L2", "P010", "NV15", "Y210", "P210", "Y410", "RAW16", "RAW12",
   "RAW10", "BLOB", "DEPTH_16", "DEPTH_24", "DEPTH_24_STENCIL_8", "DEPTH_32F",
   "DEPTH_32F_STENCIL_8", "STENCIL_8", "R8"}

\* The HAL formats for which Rockchip defines a mapping of its own.
RkFormats ==
  [YCrCb_NV12     |-> "NV12",           YCbCr_422_SP  |-> "NV16",
   YCrCb_NV12_10  |-> "NV15",           YCBCR_444_888 |-> "NV24",
   NV30           |-> "NV30",           YCbCr_420_888 |-> "NV12",
   YUV420_8BIT_I  |-> "YUV420_8BIT_I",  YUV420_10BIT_I |-> "YUV420_10BIT_I",
   YCbCr_422_I    |-> "YUV422_8BIT",    Y210          |-> "Y210",
   YCRCB_420_SP   |-> "NV21"]

\* The entries of the ARM table that are not already covered by RkFormats and
\* that map to a name of their own.
HalFormats ==
  [YCbCr_422_888 |-> "YUV422_8BIT", RGBA_FP16 |-> "RGBA_16161616", YCBCR_P010 |-> "P010"]

get_internal_format(f) ==
  LET g == IF f \in DOMAIN HalFormats THEN HalFormats[f] ELSE f
  IN  IF g \in BaseFormats THEN g ELSE "UNDEFINED"

\* The first half of rk_gralloc_select_format.  A format nobody knows is kept,
\* and derive_format_and_size refuses it.
InternalFormat(r) ==
  IF r.format \in DOMAIN RkFormats THEN RkFormats[r.format]
  ELSE IF r.format = "IMPLEMENTATION_DEFINED"
  THEN IF r.usage \cap {"VIDEO_ENCODER", "CAMERA_WRITE"} # {} THEN "NV12" ELSE "RGBX_8888"
  ELSE IF get_internal_format(r.format) # "UNDEFINED" THEN get_internal_format(r.format)
  ELSE r.format

buffer_size(r) == r.width * r.height

ForFb(r) == "HW_FB" \in r.usage
NoAfbcUsage == {"NO_AFBC", "SW", "VIDEO_ENCODER", "CAMERA_WRITE", "CAMERA_READ"}
NoAfbcForFb == {"NV12", "P010", "RGBA_16161616", "NV16"}
NoAfbcForSf == NoAfbcForFb \cup {"NV30", "NV24", "NV15", "BGR_888", "DEPTH_32F"}

\* A buffer for the framebuffer layer: forced to RGBA_8888 with AFBC, unless a
\* switch, the usage or the format forbids it.
FbFormat(r) ==
  IF /\ "no_afbc_for_fb_target_layer" \notin switches
     /\ r.usage \cap NoAfbcUsage = {}
     /\ InternalFormat(r) \notin NoAfbcForFb
  THEN [base |-> "RGBA_8888", afbc |-> TRUE]
  ELSE [base |-> InternalFormat(r), afbc |-> FALSE]

\* A buffer for another layer may use AFBC, if its size does not speak against it.
SfMayUseAfbc(r) ==
  /\ "no_afbc_for_sf_client_layer" \notin switches
  /\ Platform \in {"rk356x", "rk3588"}
  /\ r.usage \cap NoAfbcUsage = {}
  /\ InternalFormat(r) \notin NoAfbcForSf

\* (A slip: a quarter of the width and of the height.)
should_sf_client_layer_use_afbc_format_by_size_Quarter(r, fb) ==
  \/ InternalFormat(r) # "RGBA_8888"
  \/ "not_to_use_non_afbc_for_small_buffers" \in switches
  \/ buffer_size(r) >= fb \div 16

should_sf_client_layer_use_afbc_format_by_size(r, fb) ==
  \/ InternalFormat(r) # "RGBA_8888"
  \/ "not_to_use_non_afbc_for_small_buffers" \in switches
  \/ buffer_size(r) >= fb \div 4

-----------------------------------------------------------------------------
Goto(t, label) == pc' = [pc EXCEPT ![t] = label]

\* Slips of the kind this code invites, for testing the properties: each takes
\* the place of the definition it is named after and makes a property fail.

\* save_fb_size does not look whether a size was saved before.
SaveCache_Always(t) ==
  /\ pc[t] = "save"
  /\ s_fb_size' = [s_fb_size EXCEPT ![Proc[t]] = buffer_size(req[t])]
  /\ Goto(t, "setprop")
  /\ UNCHANGED <<fb_prop, switches, req, alloc_format, cached, fb_size, known>>

\* The property is read, but the cache keeps its initial value.
GetStore_Forgets(t) ==
  /\ pc[t] = "store"
  /\ Goto(t, "return")
  /\ cached' = [cached EXCEPT ![t] = s_fb_size[Proc[t]]]
  /\ UNCHANGED <<fb_prop, switches, s_fb_size, req, alloc_format, fb_size, known>>

\* An unset property reads as "-1".
GetProp_Default(t) ==
  /\ pc[t] = "getprop"
  /\ cached' = [cached EXCEPT ![t] = IF fb_prop = 0 THEN -1 ELSE fb_prop]
  /\ Goto(t, "store")
  /\ UNCHANGED <<fb_prop, switches, s_fb_size, req, alloc_format, fb_size, known>>

-----------------------------------------------------------------------------
\* allocate, isSupported or getFromBufferDescriptorInfo, up to the selection.
Call(t) ==
  /\ pc[t] = "idle"
  /\ \E r \in Requests[t] : req' = [req EXCEPT ![t] = r]
  /\ known' = [known EXCEPT ![t] = fb_prop]
  /\ Goto(t, "select")
  /\ UNCHANGED <<fb_prop, switches, s_fb_size, alloc_format, cached, fb_size>>

\* The framebuffer branch, up to the call of save_fb_size.
SelectFb(t) ==
  /\ pc[t] = "select"
  /\ ForFb(req[t])
  /\ alloc_format' = [alloc_format EXCEPT ![t] = FbFormat(req[t])]
  /\ Goto(t, "get")
  /\ UNCHANGED <<fb_prop, switches, s_fb_size, req, cached, fb_size, known>>

\* The other branch: AFBC is out of the question, or depends on get_fb_size.
SelectSf(t) ==
  /\ pc[t] = "select"
  /\ ~ForFb(req[t])
  /\ alloc_format' = [alloc_format EXCEPT ![t] = [base |-> InternalFormat(req[t]), afbc |-> FALSE]]
  /\ Goto(t, IF SfMayUseAfbc(req[t]) THEN "get" ELSE "derived")
  /\ UNCHANGED <<fb_prop, switches, s_fb_size, req, cached, fb_size, known>>

\* get_fb_size: the test of the cache, ...
GetCached(t) ==
  /\ pc[t] = "get"
  /\ cached' = [cached EXCEPT ![t] = s_fb_size[Proc[t]]]
  /\ Goto(t, IF s_fb_size[Proc[t]] # 0 THEN "return" ELSE "getprop")
  /\ UNCHANGED <<fb_prop, switches, s_fb_size, req, alloc_format, fb_size, known>>

\* ... property_get, ...
GetProp(t) ==
  /\ pc[t] = "getprop"
  /\ cached' = [cached EXCEPT ![t] = fb_prop]
  /\ Goto(t, "store")
  /\ UNCHANGED <<fb_prop, switches, s_fb_size, req, alloc_format, fb_size, known>>

\* ... the assignment to the cache, ...
GetStore(t) ==
  /\ pc[t] = "store"
  /\ s_fb_size' = [s_fb_size EXCEPT ![Proc[t]] = cached[t]]
  /\ Goto(t, "return")
  /\ UNCHANGED <<fb_prop, switches, req, alloc_format, cached, fb_size, known>>

\* ... and return s_fb_size, an unsynchronised read: the build may reuse the
\* value it has or load the variable again.
GetReturn(t) ==
  /\ pc[t] = "return"
  /\ \E v \in {cached[t], s_fb_size[Proc[t]]} : fb_size' = [fb_size EXCEPT ![t] = v]
  /\ Goto(t, IF ForFb(req[t]) THEN "save" ELSE "by_size")
  /\ UNCHANGED <<fb_prop, switches, s_fb_size, req, alloc_format, cached, known>>

BySize(t) ==
  /\ pc[t] = "by_size"
  /\ alloc_format' = [alloc_format EXCEPT ![t].afbc =
       should_sf_client_layer_use_afbc_format_by_size(req[t], fb_size[t])]
  /\ Goto(t, "derived")
  /\ UNCHANGED <<fb_prop, switches, s_fb_size, req, cached, fb_size, known>>

\* save_fb_size: a size is known already, ...
SaveKnown(t) ==
  /\ pc[t] = "save"
  /\ fb_size[t] # 0
  /\ Goto(t, "derived")
  /\ UNCHANGED <<fb_prop, switches, s_fb_size, req, alloc_format, cached, fb_size, known>>

\* ... or it is stored in the cache ...
SaveCache(t) ==
  /\ pc[t] = "save"
  /\ fb_size[t] = 0
  /\ s_fb_size' = [s_fb_size EXCEPT ![Proc[t]] = buffer_size(req[t])]
  /\ Goto(t, "setprop")
  /\ UNCHANGED <<fb_prop, switches, req, alloc_format, cached, fb_size, known>>

\* ... and in the property.
SaveProp(t) ==
  /\ pc[t] = "setprop"
  /\ fb_prop' = buffer_size(req[t])
  /\ Goto(t, "derived")
  /\ UNCHANGED <<switches, s_fb_size, req, alloc_format, cached, fb_size, known>>

\* The result of property_set is not looked at.
SavePropRefused(t) ==
  /\ pc[t] = "setprop"
  /\ Goto(t, "derived")
  /\ UNCHANGED <<fb_prop, switches, s_fb_size, req, alloc_format, cached, fb_size, known>>

\* The caller has its answer: 0 or -EINVAL, by validate_format (see AllocSize).
Return(t) ==
  /\ pc[t] = "derived"
  /\ Goto(t, "idle")
  /\ req' = [req EXCEPT ![t] = NoReq]
  /\ alloc_format' = [alloc_format EXCEPT ![t] = NoFormat]
  /\ cached' = [cached EXCEPT ![t] = 0]
  /\ fb_size' = [fb_size EXCEPT ![t] = 0]
  /\ known' = [known EXCEPT ![t] = 0]
  /\ UNCHANGED <<fb_prop, switches, s_fb_size>>

\* A process dies at any point, and init starts it again: the property outlives
\* it, the cache does not.
Restart(p) ==
  LET Fresh(f, v) == [t \in Threads |-> IF Proc[t] = p THEN v ELSE f[t]] IN
  /\ s_fb_size' = [s_fb_size EXCEPT ![p] = 0]
  /\ pc' = Fresh(pc, "idle")
  /\ req' = Fresh(req, NoReq)
  /\ alloc_format' = Fresh(alloc_format, NoFormat)
  /\ cached' = Fresh(cached, 0)
  /\ fb_size' = Fresh(fb_size, 0)
  /\ known' = Fresh(known, 0)
  /\ UNCHANGED <<fb_prop, switches>>

Step(t) ==
  \/ SelectFb(t) \/ SelectSf(t) \/ GetCached(t) \/ GetProp(t) \/ GetStore(t)
  \/ GetReturn(t) \/ BySize(t) \/ SaveKnown(t) \/ SaveCache(t) \/ SaveProp(t)
  \/ SavePropRefused(t) \/ Return(t)

Next ==
  \/ \E t \in Threads : Call(t) \/ Step(t)
  \/ \E p \in Procs : Restart(p)

Spec == Init /\ [][Next]_vars

-----------------------------------------------------------------------------
\* The situation in which the size is saved consistently: each process has one
\* thread that asks, and one of them asks for framebuffers.
OneSaver(s) ==
  /\ \A t, u \in Threads : Proc[t] = Proc[u] => t = u
  /\ \A t \in Threads \ {s} : \A r \in Requests[t] : "HW_FB" \notin r.usage

TypeOK ==
  /\ fb_prop \in Nat
  /\ switches \subseteq Switches
  /\ s_fb_size \in [Procs -> Nat]
  /\ pc \in [Threads -> Labels]
  /\ \A t \in Threads : req[t] \in Requests[t] \cup {NoReq}
  /\ \A t \in Threads : alloc_format[t].afbc \in BOOLEAN
  /\ cached \in [Threads -> Nat]
  /\ fb_size \in [Threads -> Nat]
  /\ known \in [Threads -> Nat]

\* No two processes believe in different framebuffer sizes, whenever each of them
\* first looked and whichever of them died in the middle of saving.  About
\* save_fb_size and get_fb_size, whose comment says the size must be saved
\* globally, across processes.
CachesAgree ==
  \A p, q \in Procs : s_fb_size[p] # 0 /\ s_fb_size[q] # 0 => s_fb_size[p] = s_fb_size[q]

\* Once saved, the framebuffer size is not replaced by that of a later
\* framebuffer request, even if the service has been restarted in between.  About
\* the early return of save_fb_size.
FbSizeSticks == [][fb_prop # 0 => fb_prop' = fb_prop]_vars

\* What a mapper answers about a descriptor is what the allocator does with it:
\* two calls that began when the framebuffer size had been saved choose the same
\* format for the same descriptor, in whatever processes they run and whatever
\* their caches hold.  About get_fb_size in the service and in the clients.
QueriesAgree ==
  \A t, u \in Threads :
    /\ pc[t] = "derived" /\ pc[u] = "derived"
    /\ req[t] = req[u]
    /\ known[t] # 0 /\ known[u] # 0
    => alloc_format[t] = alloc_format[u]

\* "The basic behaviour is not to use AFBC for buffers of a small size": a
\* buffer of RGBA_8888 of less than a quarter of the framebuffer that was known
\* when the call began is never given AFBC, unless the switch says so.
SmallNotAfbc ==
  \A t \in Threads :
    /\ pc[t] = "derived" /\ ~ForFb(req[t])
    /\ req[t].format = "RGBA_8888"
    /\ 4 * req[t].width * req[t].height <= known[t] - 4
    /\ alloc_format[t].afbc
    => "not_to_use_non_afbc_for_small_buffers" \in switches
=============================================================================
