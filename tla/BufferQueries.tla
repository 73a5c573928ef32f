---------------------------- MODULE BufferQueries ----------------------------
(***************************************************************************)
(* What a client is told of a buffer before it exists and afterwards.  A     *)
(* client describes a buffer and asks the mapper about it                    *)
(* (getFromBufferDescriptorInfo, which runs the derivation on a descriptor   *)
(* of its own), has the description encoded, and sends it to the allocator,  *)
(* which decodes it and makes one or two buffers.  Then get, validateBufferSize*)
(* and isSupported answer for the same description.                          *)
(*                                                                          *)
(* A name is represented by its length: of one name, prefixes of the same    *)
(* length are equal.                                                         *)
(***************************************************************************)
EXTENDS ArmSelection

VARIABLES
  phase,        \* "idle", "query", "describe", "send", "allocate"
  description,  \* the client's BufferDescriptorInfo, with the build and device it runs on
  wire,         \* the encoded descriptor
  foretold      \* what getFromBufferDescriptorInfo answered, by type

queryVars == <<phase, description, wire, foretold>>
allVars   == <<armVars, queryVars>>

MaxNameLength == 127
NoAnswer      == <<>>      \* the error instead of an answer

-----------------------------------------------------------------------------
(* Descriptors.                                                             *)

validateDescriptorInfo(d) == d.width # 0 /\ d.height # 0 /\ d.layers # 0 /\ d.hal # "NONE"

HalFormat(d) == [hal |-> d.hal, private |-> d.private, mods |-> d.mods, coding |-> d.coding]

\* The fields in the order they are pushed.
grallocEncodeBufferDescriptor(d) ==
  << d.width, d.height, d.layers, HalFormat(d), d.usage, d.reserved, Min({d.name, MaxNameLength}) >>

\* A buffer_descriptor_t.  Its flags are those of the allocator's interface.
Descriptor(width, height, layers, format, usage, reserved, name) ==
  [hal |-> format.hal, private |-> format.private, mods |-> format.mods, coding |-> format.coding,
   usage |-> usage, width |-> width, height |-> height, layers |-> layers,
   reserved |-> reserved, name |-> name,
   aidl |-> description.aidl, device |-> description.device]

grallocDecodeBufferDescriptor(w) ==
  Descriptor(w[1], w[2], w[3], w[4], w[5], w[6], w[7])

-----------------------------------------------------------------------------
(* The memory of a buffer.                                                   *)

\* The platforms whose encoder and display reach only 4G, and the value of
\* vendor.gralloc.alloc_all_buf_from_cma_heap, are the environment's.
pick_dma_buf_heap(usage, hal, is_rk356x_or_rk3588, all_from_cma) ==
  LET within_4G == \/ "WITHIN_4G" \in usage
                   \/ is_rk356x_or_rk3588 /\ ("VIDEO_ENCODER" \in usage \/ hal = "YV12")
      cached    == "SW_READ_OFTEN" \in usage
  IN IF all_from_cma THEN "cma"
     ELSE IF "PROTECTED" \in usage THEN "secure"
     ELSE IF "PHY_CONTIG" \in usage THEN "cma"
     ELSE IF within_4G THEN IF cached THEN "system-dma32" ELSE "system-uncached-dma32"
     ELSE IF cached THEN "system" ELSE "system-uncached"

-----------------------------------------------------------------------------
(* What the allocator writes to the shared region of a new buffer.          *)

get_format_dataspace(r) ==
  LET wide  == bps(r.base) >= 10
      small == r.width < 1280 \/ r.height < 720
      asks  == r.usage \cap {"BT601", "BT709"}
      space == IF asks = {"BT601", "BT709"} THEN "BT2020"
               ELSE IF asks = {"BT601"} THEN "BT601_625"
               ELSE IF asks = {"BT709"} THEN "BT709"
               ELSE IF wide THEN "BT2020" ELSE IF small THEN "BT601_625" ELSE "BT709"
      narrow == r.usage \cap {"RANGE_NARROW", "RANGE_WIDE"}
      range == IF narrow = {"RANGE_NARROW"} THEN "LIMITED"
               ELSE IF narrow = {"RANGE_WIDE"} \/ wide THEN "FULL" ELSE "LIMITED"
  IN IF is_yuv(r.base) THEN <<space, range>> ELSE <<"UNKNOWN">>

\* The usages that force a chroma siting never get here: the selection refuses
\* them.
get_format_chroma_siting(base) ==
  CASE base \in {"NV12", "NV15", "NV21", "P010", "YUV420_8BIT_I", "YUV420_10BIT_I", "Y0L2"} ->
         "SitedInterstitial"
    [] base \in {"Y210", "P210"} -> "CositedVertical"
    [] base \in {"NV16", "Y410", "YUV444", "Q410", "Q401", "YUV422_8BIT"} -> "CositedBoth"
    [] is_rgb(base) -> "None"
    [] OTHER -> "Unknown"

\* RGB formats are not YUV, and have no chroma.
ASSUME ChromaAssumption ==
  \A base \in DOMAIN formats :
    is_rgb(base) => ~is_yuv(base) /\ get_format_chroma_siting(base) = "None"

shared_metadata_init ==
  [name |-> asked.name, dataspace |-> get_format_dataspace(req),
   chroma_siting |-> get_format_chroma_siting(req.base)]

-----------------------------------------------------------------------------
(* Answers.                                                                 *)

compression == IF is_afbc(req) THEN "AFBC" ELSE IF is_afrc(req) THEN "AFRC" ELSE "None"

\* The whole buffer, in the planes after the first by what is allocated.
crops == [i \in 1 .. get_num_planes |->
            IF i = 1 THEN <<0, 0, req.width, req.height>>
            ELSE <<0, 0, plane_info[i - 1].alloc_width, plane_info[i - 1].alloc_height>>]

\* get_metadata on an imported buffer nobody has set anything of, for each
\* standard type.
get_metadata ==
  LET region == shared_metadata_init IN
  [NAME                   |-> region.name,
   WIDTH                  |-> req.width,
   HEIGHT                 |-> req.height,
   LAYER_COUNT            |-> req.layers,
   PIXEL_FORMAT_REQUESTED |-> HalFormat(asked),
   PIXEL_FORMAT_FOURCC    |-> drm_fourcc_from_handle,
   PIXEL_FORMAT_MODIFIER  |-> drm_modifier_from_handle,
   USAGE                  |-> req.usage,
   ALLOCATION_SIZE        |-> size,
   PROTECTED_CONTENT      |-> "PROTECTED" \in req.usage,
   COMPRESSION            |-> compression,
   INTERLACED             |-> "None",
   CHROMA_SITING          |-> region.chroma_siting,
   PLANE_LAYOUTS          |-> get_plane_layouts,
   DATASPACE              |-> region.dataspace,
   BLEND_MODE             |-> "INVALID",
   CROP                   |-> crops,
   HDR                    |-> NoAnswer]

\* (A slip: the crop rectangle of the first plane is what is allocated, too.)
partial_answer_Allocated ==
  [get_metadata EXCEPT !.CROP =
     [i \in 1 .. get_num_planes |->
        <<0, 0, plane_info[i - 1].alloc_width, plane_info[i - 1].alloc_height>>]]

\* The same of a description, from a partial handle.
partial_answer ==
  [NAME                   |-> description.name,
   WIDTH                  |-> description.width,
   HEIGHT                 |-> description.height,
   LAYER_COUNT            |-> description.layers,
   PIXEL_FORMAT_REQUESTED |-> HalFormat(description),
   PIXEL_FORMAT_FOURCC    |-> drm_fourcc_from_handle,
   PIXEL_FORMAT_MODIFIER  |-> drm_modifier_from_handle,
   USAGE                  |-> description.usage,
   ALLOCATION_SIZE        |-> size,
   PROTECTED_CONTENT      |-> "PROTECTED" \in req.usage,
   COMPRESSION            |-> compression,
   INTERLACED             |-> "None",
   CHROMA_SITING          |-> IF is_yuv(req.base) THEN "Unknown" ELSE "None",
   PLANE_LAYOUTS          |-> get_plane_layouts,
   DATASPACE              |-> get_format_dataspace(req),
   BLEND_MODE             |-> "INVALID",
   CROP                   |-> crops,
   HDR                    |-> NoAnswer]

\* Whether a derivation on this descriptor gets through.
isSupported(d) ==
  validateDescriptorInfo(d) /\
    \E f \in mali_gralloc_select_format(d) :
      get_alloc_type(Request(d, f)) /\ validate_format(Request(d, f))

\* Of a buffer with these dimensions, requested format and stride.
validateBufferSize(handle, d, in_stride) ==
  /\ validateDescriptorInfo(d)
  /\ handle.width = d.width /\ handle.height = d.height /\ handle.layers = d.layers
  /\ in_stride # 0 => handle.stride = in_stride
  /\ handle.req_format = HalFormat(d)

-----------------------------------------------------------------------------
(* Actions.                                                                 *)

QueryInit ==
  /\ ArmInit
  /\ phase = "idle" /\ description = NoAsk /\ wire = <<>> /\ foretold = <<>>

\* getFromBufferDescriptorInfo: a descriptor without flags is filled and derived.
getFromBufferDescriptorInfo(d) ==
  /\ Select([d EXCEPT !.aidl = FALSE])
  /\ phase' = "query" /\ description' = d
  /\ UNCHANGED <<wire, foretold>>

\* The answer for each type, or BAD_VALUE when the derivation failed.
Foretell ==
  /\ phase = "query" /\ pc \in {"allocated", "end"}
  /\ foretold' = IF pc = "end" THEN NoAnswer ELSE partial_answer
  /\ phase' = "describe"
  /\ pc' = "idle" /\ req' = NoRequest /\ plane' = 0
  /\ plane_info' = Fresh /\ size' = 0 /\ pixel_stride' = 0
  /\ asked' = NoAsk
  /\ UNCHANGED <<headers, first, description, wire>>

\* The encoded descriptor, or BAD_VALUE.
createDescriptor ==
  /\ phase = "describe"
  /\ IF validateDescriptorInfo(description)
     THEN /\ wire' = grallocEncodeBufferDescriptor(description)
          /\ phase' = "send"
          /\ UNCHANGED <<description, foretold>>
     ELSE /\ phase' = "idle" /\ description' = NoAsk /\ foretold' = <<>>
          /\ UNCHANGED wire
  /\ UNCHANGED armVars

allocate ==
  /\ phase = "send"
  /\ Select(grallocDecodeBufferDescriptor(wire))
  /\ phase' = "allocate"
  /\ UNCHANGED <<description, wire, foretold>>

\* The derivation, in a query and in an allocation; only the latter goes on to
\* make buffers.
Deriving == (Refuse \/ Derive \/ CalcPlane \/ adjust_rk_video_buffer_size \/ Layers)
Making   == phase # "query" /\ (init_afbc \/ NoHeaders \/ Again)

Reply ==
  /\ phase # "query"
  /\ Return /\ asked' = NoAsk
  /\ phase' = "idle" /\ description' = NoAsk /\ wire' = <<>> /\ foretold' = <<>>

QueryNext ==
  \/ phase = "idle" /\ pc = "idle" /\ \E d \in Asks : getFromBufferDescriptorInfo(d)
  \/ Foretell
  \/ createDescriptor
  \/ allocate
  \/ phase = "idle" /\ Call /\ UNCHANGED <<asked, queryVars>>
  \/ (Deriving \/ Making) /\ UNCHANGED <<asked, queryVars>>
  \/ Reply

QuerySpec == QueryInit /\ [][QueryNext]_allVars

-----------------------------------------------------------------------------
(* Properties.                                                              *)

Done == phase = "allocate" /\ pc = "end"

\* A description reaches the allocator whole: every buffer of the reply passes
\* validateBufferSize with the description it was made from and the one stride
\* the allocator answers for all of them.
OwnBufferValid ==
  Done /\ Derived =>
    LET handle(stride) == [width |-> req.width, height |-> req.height, layers |-> req.layers,
                           req_format |-> HalFormat(asked), stride |-> stride]
    IN \A stride \in {pixel_stride} \cup (IF first = <<>> THEN {} ELSE {first[3]}) :
         validateBufferSize(handle(stride), description, pixel_stride)

\* The heap suits what is done with the buffer: the AFBC headers are never
\* written through a mapping of secure memory, and what a video encoder of
\* rk356x or rk3588 reads is within its 4G, or contiguous or secure memory.
HeapSuits ==
  Done /\ Derived =>
    \A all_from_cma \in BOOLEAN :
      LET heap(rk) == pick_dma_buf_heap(asked.usage, asked.hal, rk, all_from_cma) IN
      /\ headers # {} => \A rk \in BOOLEAN : heap(rk) # "secure"
      /\ "VIDEO_ENCODER" \in asked.usage => heap(TRUE) \notin {"system", "system-uncached"}

\* Requests that select_best_format judges by the flags of the descriptor, which
\* getFromBufferDescriptorInfo leaves at 0.
JudgedByFlags(d) ==
  /\ d.aidl /\ ~d.private
  /\ \/ {"GPU_DATA_BUFFER", "FRONTBUFFER"} \cap d.usage # {}
     \/ get_internal_format(d.hal) = "R8"

\* What the mapper says of a description before the buffer exists is what it
\* says of the buffer, and the buffer is valid for the description: isSupported
\* and getFromBufferDescriptorInfo refuse what the allocator refuses, and every
\* type is answered as get answers for the new buffer.  Excepted are what the
\* code answers differently: names that the descriptor cuts off, the chroma
\* siting of formats that are not RGB, and requests judged by flags.
ForetoldAsGot ==
  Done =>
    /\ isSupported(description) <=> Derived
    /\ OwnBufferValid
    /\ ~JudgedByFlags(description) => (foretold # NoAnswer <=> Derived)
    /\ Derived /\ foretold # NoAnswer =>
         \A t \in DOMAIN get_metadata :
           \/ foretold[t] = get_metadata[t]
           \/ t = "NAME" /\ description.name > MaxNameLength
           \/ t = "CHROMA_SITING" /\ ~is_rgb(req.base)
=============================================================================
