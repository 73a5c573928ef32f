------------------------------ MODULE AllocSize ------------------------------
(***************************************************************************)
(* How large a buffer is and where its planes lie: the derivation that       *)
(* mali_gralloc_buffer_allocate runs once the format is selected, plane by   *)
(* plane, the room Rockchip's video decoder asks for, the layers, the AFBC   *)
(* headers it writes, and the layouts the mapper reports for the handle.     *)
(*                                                                          *)
(* A request is the descriptor's arguments together with the selected        *)
(* alloc_format: a base format and its modifiers.  Allocator::allocate runs  *)
(* the derivation once per buffer on the same descriptor, so what one run    *)
(* leaves in it is what the next one finds.                                  *)
(*                                                                          *)
(* Arithmetic is unbounded; the dimensions of a run stay far below the       *)
(* 32-bit range.                                                             *)
(***************************************************************************)
EXTENDS Integers, FiniteSets, FiniteSetsExt, FormatTable

CONSTANT
  Requests   \* [base, mods, coding, usage, width, height, layers]

\* The format is one of the table, and dimensions and layers are validated.
ASSUME RequestsAssumption ==
  \A r \in Requests :
    /\ r.base \in DOMAIN formats
    /\ r.width \in Nat \ {0} /\ r.height \in Nat \ {0} /\ r.layers \in Nat \ {0}

Planes == 0 .. 2                                        \* max_planes

VARIABLES
  pc,            \* where the derivation is
  req,           \* the request being served
  plane,         \* the plane to compute next
  plane_info,    \* of the descriptor: offset, stride and dimensions of planes
  size,          \* of the descriptor: bytes, of one layer or of all
  pixel_stride,  \* of the descriptor
  headers,       \* planes whose AFBC headers were written
  first          \* history: what the first derivation on this descriptor left

vars == <<pc, req, plane, plane_info, size, pixel_stride, headers, first>>

NoRequest == [base |-> "NONE"]
Fresh     == [p \in Planes |-> [offset |-> 0, byte_stride |-> 0,
                                alloc_width |-> 0, alloc_height |-> 0]]

Align(value, base) == ((value + base - 1) \div base) * base   \* GRALLOC_ALIGN
CeilDiv(a, b)      == (a + b - 1) \div b
Info(r)            == formats[r.base]
At(seq, p)         == seq[p + 1]        \* planes count from 0, tuples from 1

-----------------------------------------------------------------------------
(* What the request says.                                                   *)

SwFlags   == {"SW_READ", "SW_READ_OFTEN", "SW_WRITE"}
HwFlags   == {"TEXTURE", "RENDER", "HW_2D", "COMPOSER", "FB", "EXTERNAL_DISP", "PROTECTED",
              "CURSOR", "VIDEO_ENCODER", "CAMERA_WRITE", "CAMERA_READ", "RENDERSCRIPT",
              "DECODER", "SENSOR_DIRECT_DATA", "GPU_DATA_BUFFER"}
has_cpu_usage(r)  == r.usage \cap SwFlags # {}
has_hw_usage(r)   == r.usage \cap HwFlags # {}
StrideFlags(r)    == r.usage \cap {"ALIGN_16", "ALIGN_64", "ALIGN_128", "ALIGN_256_ODD"}
RkVideo(r)        == r.base \in {"NV12", "NV16", "YUV420_8BIT_I", "YUV420_10BIT_I",
                                 "YUV422_8BIT", "Y210", "NV15", "NV24", "NV30"}
StrideChosen(r)   == RkVideo(r) /\ ("SPECIFY_STRIDE" \in r.usage \/ StrideFlags(r) # {})

\* The primary type of an allocation: the first of these the modifiers name.
is_afbc(r)         == "AFBC" \in r.mods
is_afrc(r)         == "AFRC" \in r.mods /\ ~is_afbc(r)
is_block_linear(r) == "BLOCK_LINEAR" \in r.mods /\ ~is_afbc(r) /\ ~is_afrc(r)
Uncompressed(r)    == ~is_afbc(r) /\ ~is_afrc(r) /\ ~is_block_linear(r)
is_tiled(r)        == is_afbc(r) /\ "TILED" \in r.mods
is_multi_plane(r)  == /\ Info(r).npln > 1
                      /\ is_afbc(r) => {"TILED", "64x4"} \subseteq r.mods
is_frontbuffer_safe(r) == is_tiled(r) /\ "DOUBLE_BODY" \in r.mods
is_padded(r)       == is_afbc(r) /\ "AFBC_PADDING" \in r.usage

\* AFRC: bytes of a coding unit, size of a paging tile in coding units, and of
\* a coding unit in pixels.
coding_unit_bytes(r, p) == IF p = 0 THEN r.coding[1] ELSE r.coding[2]
afrc_plane_alignment(bytes) ==
  IF bytes = 16 THEN 1024 ELSE IF bytes = 24 THEN 512 ELSE IF bytes = 32 THEN 2048 ELSE 0
paging_tile(r) == IF "ROT" \in r.mods THEN <<8, 8>> ELSE <<16, 4>>
clump(r, p) ==
  IF At(Info(r).ncmp, p) = 1 THEN paging_tile(r)
  ELSE IF At(Info(r).ncmp, p) = 2 THEN <<8, 4>> ELSE <<4, 4>>

\* get_alloc_type answers no type for these.
get_alloc_type(r) ==
  /\ is_afbc(r) => /\ "64x4" \in r.mods => is_tiled(r)
                   /\ Info(r).npln = 1 => ~ {"32x8", "64x4"} \subseteq r.mods
  /\ is_afrc(r) => \A i \in 1 .. 2 : afrc_plane_alignment(r.coding[i]) # 0

validate_format(r) ==
  LET is == Info(r).is IN
  /\ is_afbc(r) => /\ "afbc" \in is
                   /\ is_multi_plane(r) <=> (Info(r).npln > 1)
  /\ is_afrc(r) => "afrc" \in is
  /\ is_block_linear(r) => "block_linear" \in is
  /\ Uncompressed(r) => "linear" \in is
  /\ r.base = "BLOB" => r.height = 1

-----------------------------------------------------------------------------
(* Dimensions.                                                              *)

DepthStencil == {"STENCIL_8", "DEPTH_16", "DEPTH_24", "DEPTH_24_STENCIL_8",
                 "DEPTH_32F", "DEPTH_32F_STENCIL_8"}
HeightAlign(u) ==
  IF "HEIGHT_8" \in u THEN 8 ELSE IF "HEIGHT_16" \in u THEN 16
  ELSE IF "HEIGHT_64" \in u THEN 64 ELSE 1
GpuTile(r) == IF is_afbc(r) /\ r.usage \cap {"RENDER", "GPU_DATA_BUFFER"} # {} THEN 16 ELSE 1

\* mali_gralloc_adjust_dimensions.
AdjustedWidth(r)  == Align(r.width, GpuTile(r))
AdjustedHeight(r) ==
  Align(Align(r.height, HeightAlign(r.usage)) * (IF r.base \in DepthStencil THEN 2 ELSE 1),
        GpuTile(r))

\* get_afbc_sb_size: chroma of multi-plane AFBC is always extra-wide.
sb(r, p) ==
  IF p > 0 /\ is_multi_plane(r) THEN <<64, 4>>
  ELSE IF "32x8" \in r.mods THEN <<32, 8>>
  ELSE IF "64x4" \in r.mods THEN <<64, 4>> ELSE <<16, 16>>

\* Superblocks of an AFBC tile, in each direction.
AfbcTile(r, p) == IF ~is_tiled(r) THEN 1 ELSE IF At(Info(r).bpp_afbc, p) > 32 THEN 4 ELSE 8

AfbcAlign(r, p) ==
  << Max({IF is_padded(r) /\ "yuv" \notin Info(r).is THEN 4 * sb(r, p)[1] ELSE 0,
          AfbcTile(r, p) * sb(r, p)[1]}),
     Max({AfbcTile(r, p) * sb(r, p)[2],
          IF "32x8" \in r.mods /\ ~is_tiled(r) THEN 16 ELSE 1}) >>
PixelAlign(r, p) ==
  IF has_cpu_usage(r) THEN <<Info(r).align_w_cpu, 1>>
  ELSE IF is_afbc(r) THEN AfbcAlign(r, p)
  ELSE IF is_afrc(r)
  THEN << paging_tile(r)[1] * clump(r, p)[1], paging_tile(r)[2] * clump(r, p)[2] >>
  ELSE IF is_block_linear(r) THEN <<16, 16>> ELSE <<1, 1>>

Hsub(r, p) == IF p > 0 THEN Info(r).hsub ELSE 1
Vsub(r, p) == IF p > 0 THEN Info(r).vsub ELSE 1

\* (A slip: subsampling an odd width rounds down.)
get_pixel_w_Odd(r, p) ==
  Align(AdjustedWidth(r) \div Hsub(r, p), Max({1, PixelAlign(r, p)[1], Info(r).tile_size}))

\* get_pixel_w_h.
get_pixel_w(r, p) ==
  Align(Align(AdjustedWidth(r), Info(r).align_w) \div Hsub(r, p),
        Max({1, PixelAlign(r, p)[1], Info(r).tile_size}))
get_pixel_h(r, p) ==
  Align(Align(AdjustedHeight(r), Info(r).align_h) \div Vsub(r, p),
        Max({1, PixelAlign(r, p)[2], Info(r).tile_size}))

-----------------------------------------------------------------------------
(* Byte strides.                                                            *)

gcd[a \in Nat, b \in Nat] == IF b = 0 THEN a ELSE gcd[b, a % b]
lcm(a, b) == IF a # 0 /\ b # 0 THEN (a * b) \div gcd[a, b] ELSE Max({a, b})

hw_align(r) ==
  IF ~has_hw_usage(r) THEN 0
  ELSE IF StrideChosen(r) THEN 1
  ELSE IF "yuv" \in Info(r).is THEN 128 ELSE 64
cpu_align(r, p) ==
  IF has_cpu_usage(r) /\ r.base # "BGR_888"
  THEN (At(Info(r).bpp, p) * Info(r).align_w_cpu) \div 8
  ELSE 0
\* (A slip: the larger alignment stands for both.)
stride_align_Larger(r, p) == Max({hw_align(r), cpu_align(r, p)})
stride_align(r, p) == lcm(hw_align(r), cpu_align(r, p))

\* The stride flags: at most one of them is expected.
FlagAlign(flags, value, otherwise) ==
  IF flags = {"ALIGN_16"} THEN Align(value, 16)
  ELSE IF flags = {"ALIGN_64"}  THEN Align(value, 64)
  ELSE IF flags = {"ALIGN_128"} THEN Align(value, 128)
  ELSE IF flags = {"ALIGN_256_ODD"}
  THEN Align(value, 256) + (IF (Align(value, 256) \div 256) % 2 = 0 THEN 256 ELSE 0)
  ELSE otherwise

\* (A slip: the luma stride is not aligned to twice the alignment.)
update_yv12_stride_Single(r, p, stride, luma) ==
  IF r.base = "YV12" /\ has_hw_usage(r) /\ has_cpu_usage(r)
  THEN IF p = 0 THEN Align(stride, stride_align(r, p)) ELSE luma \div 2
  ELSE stride

update_yv12_stride(r, p, stride, luma) ==
  IF r.base = "YV12" /\ has_hw_usage(r) /\ has_cpu_usage(r)
  THEN IF p = 0 THEN Align(stride, 2 * stride_align(r, p)) ELSE luma \div 2
  ELSE stride

AlignedStride(r, p, raw) ==
  IF stride_align(r, p) # 0
  THEN Align(raw * Info(r).tile_size, stride_align(r, p)) \div Info(r).tile_size ELSE raw
FlaggedStride(r, stride) ==
  IF StrideFlags(r) # {} THEN FlagAlign(StrideFlags(r), stride, stride) ELSE stride

\* luma is the stride of plane 0, once it is known.
LinearStride(r, p, luma) ==
  IF r.base = "NV12" /\ StrideFlags(r) # {}
  THEN ((FlagAlign(StrideFlags(r), AdjustedWidth(r), 0) * At(Info(r).bpp, p)) \div 8)
         \div Hsub(r, p)
  ELSE LET raw  == (get_pixel_w(r, p) * At(Info(r).bpp, p)) \div 8
           yv12 == update_yv12_stride(r, p, AlignedStride(r, p, raw), luma)
       IN Align(FlaggedStride(r, yv12), IF r.base = "NV30" THEN 64 ELSE 1)

AfrcTileRow(r, p) ==
  ((get_pixel_w(r, p) \div clump(r, p)[1]) \div paging_tile(r)[1]) * 64 * coding_unit_bytes(r, p)

BlockBytes(r, p) == ((16 \div Vsub(r, p)) * (16 \div Hsub(r, p)) * At(Info(r).bpp, p)) \div 8

byte_stride(r, p, luma) ==
  IF is_afrc(r) THEN AfrcTileRow(r, p) \div (paging_tile(r)[2] * clump(r, p)[2])
  ELSE IF is_afbc(r) THEN (get_pixel_w(r, p) * At(Info(r).bpp_afbc, p)) \div 8
  ELSE IF is_block_linear(r)
  THEN ((get_pixel_w(r, 0) \div 16) * BlockBytes(r, p)) \div (16 \div Vsub(r, p))
  ELSE LinearStride(r, p, luma)

-----------------------------------------------------------------------------
(* Sizes.                                                                   *)

afbc_buffer_align(r, bytes) == Align(bytes, IF is_tiled(r) THEN 4096 ELSE 1024)

sb_num(i)         == (i.alloc_width * i.alloc_height) \div 256   \* AFBC_PIXELS_PER_BLOCK
\* (A slip: the headers are not padded up to the body.)
header_size_Unpadded(r, i) == IF is_afbc(r) THEN sb_num(i) * 16 ELSE 0
header_size(r, i) == IF is_afbc(r) THEN afbc_buffer_align(r, sb_num(i) * 16) ELSE 0

AfbcBody(r, p, i) ==
  LET bytes   == sb_num(i) * Align((At(Info(r).bpp_afbc, p) * sb(r, p)[1] * sb(r, p)[2]) \div 8, 128)
      aligned == IF Info(r).npln > 1 /\ p < 2 THEN afbc_buffer_align(r, bytes) ELSE bytes
  IN IF is_frontbuffer_safe(r) THEN aligned + afbc_buffer_align(r, aligned) ELSE aligned

body_size(r, p, i) ==
  IF is_afbc(r) THEN AfbcBody(r, p, i)
  ELSE IF is_afrc(r)
  THEN (i.alloc_width \div clump(r, p)[1]) * (i.alloc_height \div clump(r, p)[2])
         * coding_unit_bytes(r, p)
  ELSE IF is_block_linear(r)
  THEN i.byte_stride * (16 \div Vsub(r, p)) * (get_pixel_h(r, 0) \div 16)
  ELSE i.byte_stride * i.alloc_height

\* An AFRC plane starts aligned, any other where the last one ends.
PlaneStart(r, p, sofar) ==
  IF is_afrc(r) THEN Align(sofar, afrc_plane_alignment(coding_unit_bytes(r, p))) ELSE sofar

\* The stride of plane 0 in pixels.
PixelStride(r, i) == (i.byte_stride * 8) \div At(Info(r).bpp, 0)

\* What the video decoder asks of the formats it fills, in bytes.
size_needed_by_rk_video(r, i) ==
  IF r.base = "NV12" THEN 2 * PixelStride(r, i) * i.alloc_height
  ELSE IF r.base = "NV16" THEN (5 * PixelStride(r, i) * i.alloc_height) \div 2
  ELSE IF r.base = "NV15" THEN 2 * i.byte_stride * i.alloc_height
  ELSE IF r.base = "NV24" THEN 3 * i.byte_stride * i.alloc_height ELSE 0

LayerAlign(r) == IF ~is_afbc(r) THEN 1 ELSE IF is_tiled(r) THEN 4096 ELSE 128

-----------------------------------------------------------------------------
(* What the arithmetic above takes for granted, row by row: the table has no   *)
(* other numbers of planes, bits and alignments, and its columns fit together. *)

\* Planes, alignments, subsampling and bits; a subsampled dimension is aligned.
ASSUME TableAssumption ==
  /\ NoRequest.base \notin DOMAIN formats
  /\ \A base \in DOMAIN formats : LET f == formats[base] IN
       /\ f.npln \in 1 .. 3
       /\ f.align_w \in {1, 2, 4} /\ f.align_h \in {1, 2}
       /\ f.align_w_cpu \in {1, 4, 16} /\ f.tile_size \in {1, 2}
       /\ f.npln > 1 => /\ f.hsub \in {1, 2} /\ f.align_w % f.hsub = 0
                        /\ f.vsub \in {1, 2} /\ f.align_h % f.vsub = 0
       /\ \A p \in Planes : At(f.bpp, p) \in 0 .. 64 /\ At(f.bpp_afbc, p) \in 0 .. 64
       /\ "linear" \in f.is => At(f.bpp, 0) > 0

\* Linear pixels that do not fill whole bytes: an even number of bits, in
\* subsampled planes a multiple of four, and either rows of four pixels at least
\* or the formats that break the note of format_info.h.
ASSUME OddBitsAssumption ==
  \A base \in DOMAIN formats : LET f == formats[base] IN
    "linear" \in f.is =>
      \A p \in 0 .. f.npln - 1 : At(f.bpp, p) % 8 # 0 =>
        /\ f.tile_size = 1 /\ At(f.bpp, p) % (IF p = 0 THEN 2 ELSE 4) = 0
        /\ f.align_w_cpu = 1 \/ (p = 0 /\ f.align_w = 4 /\ f.align_w_cpu = 4)

\* The formats that the computation of strides and sizes names.
ASSUME NamedAssumption ==
  /\ {"NV12", "NV16", "YV12"} \subseteq DOMAIN formats
  /\ formats["NV12"].npln = 2 /\ formats["NV12"].bpp = <<8, 16, 0>> /\ formats["NV12"].hsub = 2
  /\ formats["NV16"].bpp = <<8, 16, 0>>
  /\ formats["YV12"].npln = 3 /\ formats["YV12"].bpp = <<8, 8, 8>> /\ formats["YV12"].hsub = 2
  /\ formats["YV12"].align_w = 2 /\ formats["YV12"].align_w_cpu = 16

\* The formats of the video decoder, whose stride a client may choose, have no
\* alignments of their own; those stored in tiles of two rows have whole bytes.
ASSUME VideoAssumption ==
  \A base \in DOMAIN formats : LET f == formats[base] IN
    /\ RkVideo([base |-> base]) /\ "linear" \in f.is =>
         f.align_w_cpu = 1 /\ f.tile_size = 1 /\ At(f.bpp, 0) \in {8, 10, 16, 32}
    /\ base = "NV30" => At(f.bpp, 0) = 10 /\ \A p \in Planes : At(f.bpp, p) < 24
    /\ f.tile_size = 2 => f.align_w_cpu = 1 /\ \A p \in Planes : At(f.bpp, p) \in {0, 16}

\* What AFBC compresses has bits in every plane.
ASSUME AfbcAssumption ==
  \A base \in DOMAIN formats : LET f == formats[base] IN
    "afbc" \in f.is => \A p \in 0 .. f.npln - 1 : At(f.bpp_afbc, p) > 0

\* lcm computes a common multiple, no larger than the product, of all the
\* alignments it is asked about.
HwAlignments  == {1, 64, 128}
CpuAlignments == 1 .. 128
ASSUME LcmAssumption ==
  \A a \in HwAlignments, b \in CpuAlignments :
    lcm(a, b) \in 1 .. a * b /\ lcm(a, b) % a = 0 /\ lcm(a, b) % b = 0

-----------------------------------------------------------------------------
Init ==
  /\ pc = "idle" /\ req = NoRequest /\ plane = 0
  /\ plane_info = Fresh /\ size = 0 /\ pixel_stride = 0
  /\ headers = {} /\ first = <<>>

\* A descriptor arrives and its format is selected.
Call ==
  /\ pc = "idle"
  /\ pc' = "derive" /\ req' \in Requests
  /\ UNCHANGED <<plane, plane_info, size, pixel_stride, headers, first>>

\* mali_gralloc_derive_format_and_size refuses with -EINVAL.
Refuse ==
  /\ pc = "derive"
  /\ ~ (get_alloc_type(req) /\ validate_format(req))
  /\ pc' = "end"
  /\ UNCHANGED <<req, plane, plane_info, size, pixel_stride, headers, first>>

\* (A slip: the size of the previous buffer is not reset.)
Derive_KeepsSize ==
  /\ pc = "derive"
  /\ get_alloc_type(req) /\ validate_format(req)
  /\ pc' = "plane" /\ plane' = 0
  /\ plane_info' = [plane_info EXCEPT ![0].offset = 0]
  /\ UNCHANGED <<req, size, pixel_stride, headers, first>>

\* calc_allocation_size begins.
Derive ==
  /\ pc = "derive"
  /\ get_alloc_type(req) /\ validate_format(req)
  /\ pc' = "plane" /\ plane' = 0
  /\ plane_info' = [plane_info EXCEPT ![0].offset = 0]
  /\ size' = 0
  /\ UNCHANGED <<req, pixel_stride, headers, first>>

PlaneInfo(start) ==
  [offset       |-> IF plane > 0 THEN start ELSE plane_info[0].offset,
   byte_stride  |-> byte_stride(req, plane, plane_info[0].byte_stride),
   alloc_width  |-> get_pixel_w(req, plane),
   alloc_height |-> get_pixel_h(req, plane)]

AddPlane(start, info) ==
  /\ plane_info' = [plane_info EXCEPT ![plane] = info]
  /\ size' = start + body_size(req, plane, info) + header_size(req, info)
  /\ pixel_stride' =
       IF plane > 0 THEN pixel_stride
       ELSE IF Uncompressed(req) /\ has_cpu_usage(req)
       THEN PixelStride(req, info) ELSE 0

\* One iteration of its loop.
CalcPlane ==
  /\ pc = "plane" /\ plane < Info(req).npln
  /\ LET start == PlaneStart(req, plane, size) IN AddPlane(start, PlaneInfo(start))
  /\ plane' = plane + 1
  /\ UNCHANGED <<pc, req, headers, first>>

\* (A slip: the loop ends after the first plane.)
adjust_rk_video_buffer_size_Early ==
  /\ pc = "plane" /\ plane = 1
  /\ size' = size
  /\ pc' = "layers"
  /\ UNCHANGED <<req, plane, plane_info, pixel_stride, headers, first>>

\* The loop ends; room for the video decoder.
adjust_rk_video_buffer_size ==
  /\ pc = "plane" /\ plane = Info(req).npln
  /\ size' = IF StrideChosen(req)
             THEN Max({size, size_needed_by_rk_video(req, plane_info[0])}) ELSE size
  /\ pc' = "layers"
  /\ UNCHANGED <<req, plane, plane_info, pixel_stride, headers, first>>

Layers ==
  /\ pc = "layers"
  /\ size' = IF req.layers > 1 THEN Align(size, LayerAlign(req)) * req.layers ELSE size
  /\ pc' = "allocated"
  /\ UNCHANGED <<req, plane, plane_info, pixel_stride, headers, first>>

\* (A slip: only the first plane's headers are written.)
HeaderPlanes_First == {0}

\* The buffer is allocated; AFBC headers are written through a mapping of it,
\* for the planes the loop visits.
HeaderPlanes == {i \in Planes : \A j \in 1 .. i : plane_info[j].byte_stride # 0}

\* (A slip: protected memory is mapped and written, too.)
init_afbc_Protected ==
  /\ pc = "allocated"
  /\ is_afbc(req)
  /\ headers' = HeaderPlanes
  /\ pc' = "end"
  /\ UNCHANGED <<req, plane, plane_info, size, pixel_stride, first>>

init_afbc ==
  /\ pc = "allocated"
  /\ is_afbc(req) /\ "PROTECTED" \notin req.usage
  /\ headers' = HeaderPlanes
  /\ pc' = "end"
  /\ UNCHANGED <<req, plane, plane_info, size, pixel_stride, first>>

\* Not AFBC, protected, or mmap fails: the handle is returned all the same.
NoHeaders ==
  /\ pc = "allocated"
  /\ headers' = {}
  /\ pc' = "end"
  /\ UNCHANGED <<req, plane, plane_info, size, pixel_stride, first>>

result == <<plane_info, size, pixel_stride>>

\* The next of several buffers, from the same descriptor.
Again ==
  /\ pc = "end" /\ plane > 0 /\ first = <<>>
  /\ first' = result /\ headers' = {}
  /\ pc' = "derive"
  /\ UNCHANGED <<req, plane, plane_info, size, pixel_stride>>

Return ==
  /\ pc = "end"
  /\ pc' = "idle" /\ req' = NoRequest /\ plane' = 0
  /\ plane_info' = Fresh /\ size' = 0 /\ pixel_stride' = 0
  /\ headers' = {} /\ first' = <<>>

Next ==
  \/ Call \/ Refuse \/ Derive \/ CalcPlane
  \/ adjust_rk_video_buffer_size \/ Layers
  \/ init_afbc \/ NoHeaders
  \/ Again \/ Return

Spec == Init /\ [][Next]_vars

-----------------------------------------------------------------------------
(* What the mapper reports for the handle: get_num_planes, and the offset    *)
(* and total size of a plane in get_plane_layouts.                           *)

get_num_planes ==
  IF plane_info[1].alloc_width = 0 THEN 1 ELSE IF plane_info[2].offset = 0 THEN 2 ELSE 3

plane_size(p) ==
  IF p < get_num_planes - 1 THEN plane_info[p + 1].offset
  ELSE (size \div req.layers) - plane_info[p].offset

\* The offset init_afbc writes into the headers of a plane, from its start.
body_offset(r, i) == Align(((i.alloc_width * i.alloc_height) \div 256) * 16,
                           IF "TILED" \in r.mods THEN 4096 ELSE 1024)

-----------------------------------------------------------------------------
(* Properties.                                                              *)

\* Every variable has its type, and the loop has visited every plane of the
\* format when it ends.
TypeOK ==
  /\ pc \in {"idle", "derive", "plane", "layers", "allocated", "end"}
  /\ req # NoRequest => /\ req.base \in DOMAIN formats
                        /\ req.width \in Nat /\ req.height \in Nat
  /\ plane \in 0 .. 3
  /\ plane_info \in [Planes -> [offset : Nat, byte_stride : Nat,
                                alloc_width : Nat, alloc_height : Nat]]
  /\ size \in Nat /\ pixel_stride \in Nat
  /\ headers \subseteq Planes
  /\ pc \in {"layers", "allocated"} => plane = Info(req).npln

Derived  == pc = "end" /\ plane > 0
Known    == IF pc \in {"plane", "layers", "allocated", "end"} THEN 0 .. plane - 1 ELSE {}
Layer    == size \div req.layers

\* The pixels asked for, in a plane.
Cols(r, p) == CeilDiv(r.width, Hsub(r, p))
Rows(r, p) == CeilDiv(r.height, Vsub(r, p))

\* The note of format_info.h on bpp; and the widths at which the rows of a
\* format that breaks it are whole bytes nevertheless.
KeepsNote(r)  == \A p \in 0 .. Info(r).npln - 1 :
                   \/ At(Info(r).bpp, p) % 8 = 0
                   \/ (At(Info(r).bpp, p) * Info(r).align_w_cpu) % 8 = 0
WholeBytes(r) == KeepsNote(r) \/ r.width % 4 = 0

\* The client passes one stride flag at most: of several the code only says that
\* they are unexpected.
OneStrideFlag(r) == \A x, y \in StrideFlags(r) : x = y

\* Compressed and block-linear layouts are for hardware: get_pixel_w_h rounds the
\* dimensions of a buffer with CPU usage for the CPU only.  (The selection gives
\* such a buffer a linear layout; a private format may name another, and nothing
\* refuses it.)
HardwareOnly(r) == has_cpu_usage(r) => Uncompressed(r)

\* Bytes a plane holds, counted from what is stored in it: rows of pixels,
\* headers and superblock payloads, coding units of paging tiles, blocks.
PlaneBytes(r, p, i) ==
  IF is_afbc(r)
  THEN body_offset(r, i)
         + (IF is_frontbuffer_safe(r) THEN 2 ELSE 1)
             * sb_num(i) * CeilDiv(At(Info(r).bpp_afbc, p) * 256, 8)
  ELSE IF is_afrc(r)
  THEN CeilDiv(Cols(r, p), paging_tile(r)[1] * clump(r, p)[1])
         * CeilDiv(Rows(r, p), paging_tile(r)[2] * clump(r, p)[2])
         * 64 * coding_unit_bytes(r, p)
  ELSE IF is_block_linear(r)
  THEN CeilDiv(r.width, 16) * CeilDiv(r.height, 16) * BlockBytes(r, p)
  ELSE (Rows(r, p) - 1) * i.byte_stride + (Cols(r, p) * At(Info(r).bpp, p)) \div 8

\* What is stored in a plane ends before the next plane begins, and in the
\* last plane before the next layer: no access to a plane, at the offset and
\* stride the handle carries, leaves it.
PlanesFit ==
  Derived /\ OneStrideFlag(req) /\ HardwareOnly(req) => \A p \in Known :
    plane_info[p].offset + PlaneBytes(req, p, plane_info[p])
      <= IF p + 1 < Info(req).npln THEN plane_info[p + 1].offset ELSE Layer

\* The pixels asked for fit into the rows and columns of every plane.  (Of
\* NV15 and NV30, with ten bits per pixel, only at the widths that fill whole
\* bytes: at others the division by 8 drops the last half byte.)
RowsFit ==
  \A p \in Known :
    /\ Cols(req, p) <= plane_info[p].alloc_width /\ Rows(req, p) <= plane_info[p].alloc_height
    /\ Uncompressed(req) /\ OneStrideFlag(req) /\ WholeBytes(req) =>
         Cols(req, p) * At(Info(req).bpp, p) <= plane_info[p].byte_stride * 8

\* usages.h on the flags for video formats: the byte stride of plane 0 is a
\* multiple of 16, 64 or 128, or an odd multiple of 256, as the client asked;
\* a client that specifies the stride gets the width it passed (NV30 excepted).
StrideAsAsked ==
  0 \in Known /\ Uncompressed(req) /\ RkVideo(req) /\ OneStrideFlag(req) /\ WholeBytes(req) =>
    LET stride == plane_info[0].byte_stride IN
    /\ "ALIGN_16"  \in req.usage => stride % 16 = 0
    /\ "ALIGN_64"  \in req.usage => stride % 64 = 0
    /\ "ALIGN_128" \in req.usage => stride % 128 = 0
    /\ "ALIGN_256_ODD" \in req.usage => stride % 512 = 256
    /\ "SPECIFY_STRIDE" \in req.usage /\ StrideFlags(req) = {} /\ req.base # "NV30" =>
         stride * 8 = Align(req.width, Info(req).align_w) * At(Info(req).bpp, 0)

\* AFBC headers start where the hardware can address them, in every plane of
\* every layer, and AFRC planes at the alignment of their coding unit; the
\* hardware's and the CPU's alignment both divide a linear stride the client
\* left to gralloc; and what it did ask for it gets.
Aligned ==
  /\ Derived /\ is_afbc(req) => \A p \in Known :
       \A layer \in 0 .. req.layers - 1 :
         (layer * Layer + plane_info[p].offset) % (IF is_tiled(req) THEN 4096 ELSE 128) = 0
  /\ \A p \in Known : is_afrc(req) =>
       plane_info[p].offset % afrc_plane_alignment(coding_unit_bytes(req, p)) = 0
  /\ \A p \in Known : Uncompressed(req) /\ ~StrideChosen(req) /\ StrideFlags(req) = {} =>
       LET bytes == plane_info[p].byte_stride * Info(req).tile_size IN
       /\ has_hw_usage(req) => bytes % (IF "yuv" \in Info(req).is THEN 128 ELSE 64) = 0
       /\ cpu_align(req, p) # 0 => bytes % cpu_align(req, p) = 0
  /\ StrideAsAsked

\* A second buffer allocated from the same descriptor gets the size, the
\* strides and the layout of the first.
SameAgain == Derived /\ first # <<>> => result = first

\* The mapper reports the planes of the format, each large enough and inside
\* the layer.  (Not the middle one of three, whose reported size is the end of
\* the plane, not its length.)
LayoutsInside ==
  Derived /\ OneStrideFlag(req) /\ HardwareOnly(req) =>
    /\ get_num_planes = Info(req).npln
    /\ \A p \in 0 .. get_num_planes - 1 : (get_num_planes = 3 => p # 1) =>
         /\ PlaneBytes(req, p, plane_info[p]) <= plane_size(p)
         /\ plane_info[p].offset + plane_size(p) <= Layer

\* When the headers of an AFBC buffer are initialised, those of all its planes
\* are, each superblock has one, and they end before the plane's body and the
\* next plane.
HeadersWritten ==
  Derived /\ HardwareOnly(req) /\ headers # {} =>
    /\ headers = 0 .. Info(req).npln - 1
    /\ \A p \in headers :
         LET i == plane_info[p]
             w == i.alloc_width \div sb(req, p)[1]
             h == i.alloc_height \div sb(req, p)[2] IN
         /\ sb_num(i) = w * h
         /\ Cols(req, p) <= w * sb(req, p)[1] /\ Rows(req, p) <= h * sb(req, p)[2]
         /\ sb_num(i) * 16 <= body_offset(req, i)

\* calc_allocation_size asserts that a row of a linear plane is whole bytes; the
\* quotient by 8 drops what is left of a byte.
RowsOfWholeBytes ==
  \A p \in Known : Uncompressed(req) =>
    (plane_info[p].alloc_width * At(Info(req).bpp, p)) % 8 = 0

\* calc_allocation_size asserts that the stride a CPU client is told, in pixels,
\* is the byte stride.
StrideOfWholePixels ==
  0 \in Known /\ Uncompressed(req) /\ has_cpu_usage(req) =>
    (plane_info[0].byte_stride * 8) % At(Info(req).bpp, 0) = 0

\* The comment on update_yv12_stride: with CPU usage, the chroma stride of
\* YV12 is half the luma stride rounded up to 16.
Yv12Chroma ==
  req.base = "YV12" /\ has_cpu_usage(req) =>
    \A p \in Known \ {0} :
      plane_info[p].byte_stride = Align(plane_info[0].byte_stride \div 2, 16)

\* The stride flags are for the formats of the video decoder.  (The code obeys
\* them for any other format, too, whose stride may then be no whole number of
\* pixels.)
FlagsForVideo(r) == StrideFlags(r) # {} => RkVideo(r)

\* The assertions of calc_allocation_size and update_yv12_stride on strides,
\* and the comment on YV12, hold for every format that keeps the note of
\* format_info.h, BGR_888 excepted: without a CPU alignment, its stride is no
\* whole number of pixels.  (Excepted are further a compressed layout with CPU
\* usage, flags that are not meant for the format, and, in a query, a width of 0.)
StrideAssertions ==
  Known # {} /\ HardwareOnly(req) /\ OneStrideFlag(req) /\ FlagsForVideo(req)
  /\ (Uncompressed(req) => KeepsNote(req) /\ req.base # "BGR_888") =>
    /\ Yv12Chroma
    /\ \A p \in Known :
         LET i == plane_info[p] IN
         /\ is_afbc(req) => (i.alloc_width * At(Info(req).bpp_afbc, p)) % 8 = 0
         /\ is_afrc(req) => AfrcTileRow(req, p) % (paging_tile(req)[2] * clump(req, p)[2]) = 0
         /\ is_block_linear(req) => /\ (i.alloc_width * At(Info(req).bpp, p)) % 8 = 0
                                    /\ BlockBytes(req, p) % (16 \div Vsub(req, p)) = 0
                                    /\ req.width # 0 => plane_info[0].alloc_width >= 16
         /\ Uncompressed(req) =>
              /\ (i.alloc_width * At(Info(req).bpp, p)) % 8 = 0
              /\ has_cpu_usage(req) /\ p = 0 => (i.byte_stride * 8) % At(Info(req).bpp, 0) = 0
              /\ req.base = "YV12" /\ has_hw_usage(req) /\ has_cpu_usage(req) /\ p > 0 =>
                   i.byte_stride % stride_align(req, p) = 0 /\ i.byte_stride % 16 = 0
=============================================================================
