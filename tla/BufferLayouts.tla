---------------------------- MODULE BufferLayouts ----------------------------
(***************************************************************************)
(* What a buffer's users are told of its layout.  Four descriptions are      *)
(* derived from the same handle by tables written apart from each other: the *)
(* android_ycbcr of lock_ycbcr, the android_flex_layout of lock_flex, the    *)
(* component lists of get_plane_layouts, which are looked up by the DRM       *)
(* fourcc, and the DRM modifier.  The handle is the result of AllocSize.      *)
(*                                                                          *)
(* Offsets count from the start of the mapping; a description is <<>> where  *)
(* the code refuses.                                                         *)
(***************************************************************************)
EXTENDS AllocSize, Sequences, SequencesExt

-----------------------------------------------------------------------------
(* lock_flex.                                                               *)

\* A row of set_flex_plane_params: the component, the plane it starts in and
\* the byte of that plane, the bytes of a sample and from one sample to the
\* next, the plane whose stride is used, and the subsampling.
Flex(c, p, at, bytes, inc, strideof, hsub, vsub) ==
  [c |-> c, p |-> p, at |-> at, bytes |-> bytes, inc |-> inc,
   strideof |-> strideof, hsub |-> hsub, vsub |-> vsub]

Packed(c, at, bytes, inc, hsub) == Flex(c, 0, at, bytes, inc, 0, hsub, 1)

\* Luma in plane 0, both chroma components in plane 1.
\* (A slip: the second one starts a byte behind the first at any width.)
SemiPlanar_ByteApart(c1, c2, bytes, vsub) ==
  << Packed("Y", 0, bytes, bytes, 1),
     Flex(c1, 1, 0, bytes, 2 * bytes, 1, 2, vsub),
     Flex(c2, 1, 1, bytes, 2 * bytes, 1, 2, vsub) >>
SemiPlanar(c1, c2, bytes, vsub) ==
  << Packed("Y", 0, bytes, bytes, 1),
     Flex(c1, 1, 0,     bytes, 2 * bytes, 1, 2, vsub),
     Flex(c2, 1, bytes, bytes, 2 * bytes, 1, 2, vsub) >>

PackedYuv(bytes) ==
  << Packed("Y", 0, bytes, 2 * bytes, 1), Packed("Cb", bytes, bytes, 4 * bytes, 2),
     Packed("Cr", 3 * bytes, bytes, 4 * bytes, 2) >>

PackedRgb(order, bytes, inc) ==
  [i \in 1 .. Len(order) |-> Packed(order[i], (i - 1) * bytes, bytes, inc, 1)]

\* The switch of lock_flex.  (YU12: each chroma component has the other's
\* stride.)
flex_rows(base) ==
  CASE base = "Y8"            -> << Packed("Y", 0, 1, 1, 1) >>
    [] base = "Y16"           -> << Packed("Y", 0, 2, 2, 1) >>
    [] base = "NV12"          -> SemiPlanar("Cb", "Cr", 1, 2)
    [] base = "NV21"          -> SemiPlanar("Cr", "Cb", 1, 2)
    [] base = "NV16"          -> SemiPlanar("Cb", "Cr", 1, 1)
    [] base = "P010"          -> SemiPlanar("Cb", "Cr", 2, 2)
    [] base = "P210"          -> SemiPlanar("Cb", "Cr", 2, 1)
    [] base = "YV12"          -> << Packed("Y", 0, 1, 1, 1), Flex("Cb", 2, 0, 1, 1, 2, 2, 2),
                                    Flex("Cr", 1, 0, 1, 1, 1, 2, 2) >>
    [] base = "YU12"          -> << Packed("Y", 0, 1, 1, 1), Flex("Cb", 1, 0, 1, 1, 2, 2, 2),
                                    Flex("Cr", 2, 0, 1, 1, 1, 2, 2) >>
    [] base = "YUV422_8BIT"   -> PackedYuv(1)
    [] base = "Y210"          -> PackedYuv(2)
    [] base = "RGBA_16161616" -> PackedRgb(<<"R", "G", "B", "A">>, 2, 8)
    [] base = "RGBA_8888"     -> PackedRgb(<<"R", "G", "B", "A">>, 1, 4)
    [] base = "BGRA_8888"     -> PackedRgb(<<"B", "G", "R", "A">>, 1, 4)
    [] base = "RGBX_8888"     -> PackedRgb(<<"R", "G", "B">>, 1, 4)
    [] base = "RGB_888"       -> PackedRgb(<<"R", "G", "B">>, 1, 3)
    [] OTHER                  -> <<>>

\* The flex column of the format table.
IsFlex == {"RGB_888", "BGR_888", "RGBA_8888", "BGRA_8888", "RGBX_8888", "RGBA_16161616",
           "Y8", "Y16", "NV12", "NV21", "YV12", "YU12", "YUV422_8BIT", "NV16", "NV24",
           "P010", "Y210", "P210"}

total_components(base) == LET n == formats[base].ncmp IN n[1] + n[2] + n[3]

\* Formats with modifiers are refused here, and not by lock_flex.
get_num_flex_planes ==
  IF Uncompressed(req) /\ req.base \in IsFlex THEN total_components(req.base) ELSE 0

\* The components with the start and stride of this buffer.
lock_flex ==
  IF req.base \notin IsFlex THEN <<>>
  ELSE [i \in DOMAIN flex_rows(req.base) |->
          LET f == flex_rows(req.base)[i] IN
          [c |-> f.c, p |-> f.p, start |-> plane_info[f.p].offset + f.at, at |-> f.at,
           bytes |-> f.bytes, inc |-> f.inc, stride |-> plane_info[f.strideof].byte_stride,
           hsub |-> f.hsub, vsub |-> f.vsub]]

-----------------------------------------------------------------------------
(* lock_ycbcr.                                                              *)

\* Where the first Cb and Cr lie, as plane and byte in it, and the bytes from
\* one chroma sample to the next.  (A slip: NV21 is filled in like NV12.)
chroma_NoSwap(base) ==
  CASE base \in {"NV12", "NV21"} -> [cb |-> <<1, 0>>, cr |-> <<1, 1>>, step |-> 2]
    [] OTHER                     -> <<>>
chroma(base) ==
  CASE base = "NV12" -> [cb |-> <<1, 0>>, cr |-> <<1, 1>>, step |-> 2]
    [] base = "NV21" -> [cb |-> <<1, 1>>, cr |-> <<1, 0>>, step |-> 2]
    [] base = "YV12" -> [cb |-> <<2, 0>>, cr |-> <<1, 0>>, step |-> 1]
    [] base = "YU12" -> [cb |-> <<1, 0>>, cr |-> <<2, 0>>, step |-> 1]
    [] OTHER         -> <<>>

\* Luminance formats have no chroma pointers; other formats are refused, and
\* with them every one that is not YUV.
lock_ycbcr ==
  LET place(x)                   == plane_info[x[1]].offset + x[2]
      c                          == chroma(req.base)
      ycbcr(cb, cr, cstride, step) ==
        [y |-> 0, ystride |-> plane_info[0].byte_stride,
         cb |-> cb, cr |-> cr, cstride |-> cstride, chroma_step |-> step] IN
  CASE req.base \in {"Y8", "Y16"} -> ycbcr(0, 0, 0, 0)
    [] c # <<>> -> ycbcr(place(c.cb), place(c.cr), plane_info[1].byte_stride, c.step)
    [] OTHER    -> <<>>

-----------------------------------------------------------------------------
(* DRM fourcc, and the component lists the mapper reports by it.             *)

Fourccs ==
  [RAW16 |-> "R16", RGBA_8888 |-> "ABGR8888", BGRA_8888 |-> "ARGB8888", RGB_565 |-> "RGB565",
   RGBX_8888 |-> "XBGR8888", RGB_888 |-> "BGR888", BGR_888 |-> "RGB888",
   RGBA_1010102 |-> "ABGR2101010", RGBA_16161616 |-> "ABGR16161616F",
   RGBA_10101010 |-> "AXBXGXRX106106106106", YV12 |-> "YVU420", YU12 |-> "YUV420",
   NV12 |-> "NV12", NV15 |-> "NV15", NV30 |-> "NV30", NV16 |-> "NV16", NV24 |-> "NV24",
   NV21 |-> "NV21", Y0L2 |-> "Y0L2", Y210 |-> "Y210", P010 |-> "P010", P210 |-> "P210",
   Y410 |-> "Y410", YUV444 |-> "YUV444", Q410 |-> "Q410", Q401 |-> "Q401",
   YUV422_8BIT |-> "YUYV", YUV420_8BIT_I |-> "YUV420_8BIT", YUV420_10BIT_I |-> "YUV420_10BIT",
   R8 |-> "R8", STENCIL_8 |-> "R8", DEPTH_16 |-> "RGB565", DEPTH_24 |-> "BGR888",
   DEPTH_24_STENCIL_8 |-> "BGR888", DEPTH_32F |-> "ABGR8888",
   DEPTH_32F_STENCIL_8 |-> "ABGR8888"]

drm_fourcc_from_handle ==
  CASE req.base \notin DOMAIN Fourccs         -> "INVALID"
    [] is_afbc(req) /\ req.base = "RGB_565"   -> "BGR565"
    [] OTHER                                  -> Fourccs[req.base]

\* Components of one plane that follow each other without a gap, each of
\* bits, the first at bit from and the next ones step further.
Run(types, from, bits, step) ==
  [i \in 1 .. Len(types) |-> <<types[i], from + (i - 1) * step, bits>>]

Chroma8 == Run(<<"Cb", "Cr">>, 0, 8, 8)

\* The table of plane_layout_components_from_handle: per plane, components
\* with their first bit and their number of bits.
component_table ==
  [RGB565        |-> << << <<"B", 0, 5>>, <<"G", 5, 6>>, <<"R", 11, 5>> >> >>,
   BGR565        |-> << << <<"R", 0, 5>>, <<"G", 5, 6>>, <<"B", 11, 5>> >> >>,
   BGR888        |-> << Run(<<"R", "G", "B">>, 0, 8, 8) >>,
   ARGB8888      |-> << Run(<<"B", "G", "R", "A">>, 0, 8, 8) >>,
   ABGR8888      |-> << Run(<<"R", "G", "B", "A">>, 0, 8, 8) >>,
   XBGR8888      |-> << Run(<<"R", "G", "B">>, 0, 8, 8) >>,
   ABGR2101010   |-> << << <<"R", 0, 10>>, <<"G", 10, 10>>, <<"B", 20, 10>>, <<"A", 30, 2>> >> >>,
   ABGR16161616F |-> << Run(<<"R", "G", "B", "A">>, 0, 16, 16) >>,
   AXBXGXRX106106106106 |-> << Run(<<"R", "G", "B", "A">>, 6, 10, 16) >>,
   YUYV          |-> << Run(<<"Y", "Cb", "Y", "Cr">>, 0, 8, 8) >>,
   Y410          |-> << << <<"Cb", 0, 10>>, <<"Y", 10, 10>>, <<"Cr", 20, 10>>, <<"A", 30, 2>> >> >>,
   Y210          |-> << Run(<<"Y", "Cb", "Y", "Cr">>, 6, 10, 16) >>,
   Y0L2          |-> << << <<"Y", 0, 10>>, <<"Cb", 10, 10>>, <<"Y", 20, 10>>, <<"A", 30, 1>>, <<"A", 31, 1>>,
                       <<"Y", 32, 10>>, <<"Cr", 42, 10>>, <<"Y", 52, 10>>, <<"A", 62, 1>>, <<"A", 63, 1>> >> >>,
   NV24          |-> << << <<"Y", 0, 8>> >>, Chroma8 >>,
   NV30          |-> << << <<"Y", 0, 10>> >>, Run(<<"Cb", "Cr">>, 0, 10, 10) >>,
   NV16          |-> << << <<"Y", 0, 8>> >>, Chroma8 >>,
   NV12          |-> << << <<"Y", 0, 8>> >>, Chroma8 >>,
   NV21          |-> << << <<"Y", 0, 8>> >>, Run(<<"Cr", "Cb">>, 0, 8, 8) >>,
   P210          |-> << << <<"Y", 6, 10>> >>, Run(<<"Cb", "Cr">>, 6, 10, 16) >>,
   P010          |-> << << <<"Y", 6, 10>> >>, Run(<<"Cb", "Cr">>, 6, 10, 16) >>,
   YVU420        |-> << << <<"Y", 0, 8>> >>, << <<"Cr", 0, 8>> >>, << <<"Cb", 0, 8>> >> >>,
   YUV420        |-> << << <<"Y", 0, 8>> >>, << <<"Cb", 0, 8>> >>, << <<"Cr", 0, 8>> >> >>,
   YUV444        |-> << << <<"Y", 0, 8>> >>, << <<"Cb", 0, 8>> >>, << <<"Cr", 0, 8>> >> >>,
   YUV420_8BIT   |-> << <<>> >>,
   YUV420_10BIT  |-> << <<>> >>,
   R8            |-> << << <<"R", 0, 8>> >> >>]

\* RAW10 and RAW12 have no fourcc, and one component of unknown size.
RawPacked == {"RAW10", "RAW12"}

plane_layout_components_from_handle ==
  CASE Uncompressed(req) /\ req.base \in RawPacked -> << << <<"RAW", 0, -1>> >> >>
    [] OTHER -> IF drm_fourcc_from_handle \in DOMAIN component_table
                THEN component_table[drm_fourcc_from_handle] ELSE <<>>

sample_increment(p) ==
  IF Uncompressed(req) /\ req.base \in RawPacked THEN 0
  ELSE IF is_afbc(req) THEN At(Info(req).bpp_afbc, p) ELSE At(Info(req).bpp, p)

get_plane_layouts ==
  [i \in 1 .. get_num_planes |->
     LET p == i - 1 IN
     [offset |-> plane_info[p].offset, total |-> plane_size(p),
      increment |-> sample_increment(p), stride |-> plane_info[p].byte_stride,
      hsub |-> IF p = 0 THEN 1 ELSE Info(req).hsub,
      vsub |-> IF p = 0 THEN 1 ELSE Info(req).vsub,
      components |-> IF Len(plane_layout_components_from_handle) > p
                     THEN plane_layout_components_from_handle[i] ELSE <<>>]]

-----------------------------------------------------------------------------
(* DRM modifiers.                                                           *)

is_multi_plane_handle == plane_info[1].alloc_width # 0

\* (A slip: that chroma has blocks of its own is not told.)
afbc_block_size_Luma ==
  CASE "32x8" \in req.mods -> "32x8" [] "64x4" \in req.mods -> "64x4" [] OTHER -> "16x16"
afbc_block_size ==
  IF "32x8" \in req.mods THEN IF is_multi_plane_handle THEN "32x8_64x4" ELSE "32x8"
  ELSE IF "64x4" \in req.mods THEN "64x4" ELSE "16x16"

get_afbc_modifier_tags ==
       {afbc_block_size}
  \cup (req.mods \cap {"TILED", "DOUBLE_BODY", "SPLIT", "BCH", "YTR", "SPARSE", "USM"})
  \cup (IF "TILED" \in req.mods /\ "yuv" \notin Info(req).is /\ Info(req).bpp_afbc[1] <= 64
        THEN {"SC"} ELSE {})

\* None for a format without fourcc.  Chroma of its own only with more than
\* one plane: the luma size is stored where the RGBA size is.
get_afrc_modifier_tags ==
  IF req.base \notin DOMAIN Fourccs THEN {}
  ELSE  {<<"P0", req.coding[1]>>}
   \cup (IF "yuv" \in Info(req).is /\ is_multi_plane_handle THEN {<<"P12", req.coding[2]>>} ELSE {})
   \cup (IF "ROT" \notin req.mods THEN {<<"SCAN", 1>>} ELSE {})

drm_modifier_from_handle ==
  CASE is_afbc(req)         -> get_afbc_modifier_tags
    [] is_afrc(req)         -> get_afrc_modifier_tags
    [] is_block_linear(req) -> {"GENERIC_16_16_TILE"}
    [] OTHER                -> {}

-----------------------------------------------------------------------------
(* Properties.                                                              *)

Ready      == Derived /\ Uncompressed(req)
PlaneEnd(p) == IF p + 1 < Info(req).npln THEN plane_info[p + 1].offset ELSE Layer

\* The bytes of a component's first samples, from the start of its plane:
\* the increments divide 8 or 24 bytes, so that eight samples show them all.
FirstBytes(f) ==
  {f.at + k * f.inc + b : k \in 0 .. Min({8, CeilDiv(req.width, f.hsub)}) - 1, b \in 0 .. f.bytes - 1}

\* Through the pointers, increments and strides lock_flex hands out, the last
\* sample of every component of an uncompressed buffer lies inside the plane
\* the component belongs to, no row runs into the next, and no two components
\* of a plane share a byte.  (With several stride flags, which the code does not
\* expect, NV12 has a stride of 0.)
FlexInside ==
  Ready /\ OneStrideFlag(req) => \A i \in DOMAIN lock_flex :
    LET f    == lock_flex[i]
        cols == CeilDiv(req.width, f.hsub)
        rows == CeilDiv(req.height, f.vsub) IN
    /\ f.start + (rows - 1) * f.stride + (cols - 1) * f.inc + f.bytes <= PlaneEnd(f.p)
    /\ f.at + (cols - 1) * f.inc + f.bytes <= f.stride
    /\ \A j \in DOMAIN lock_flex :
         j # i /\ lock_flex[j].p = f.p => FirstBytes(f) \cap FirstBytes(lock_flex[j]) = {}

\* lock_flex describes as many components as get_num_flex_planes announced,
\* and where the mapper reports components too, each one starts at the same
\* byte, with the same stride, subsampling and distance between samples.
FlexAsReported ==
  Ready /\ lock_flex # <<>> =>
    /\ Len(lock_flex) = get_num_flex_planes
    /\ plane_layout_components_from_handle # <<>> =>
         \A f \in Range(lock_flex) :
           LET l == get_plane_layouts[f.p + 1] IN
           /\ \E c \in Range(l.components) : c[1] = f.c /\ l.offset + (c[2] \div 8) = f.start
           /\ f.stride = l.stride
           /\ f.inc * 8 * l.hsub = l.increment * f.hsub
           /\ f.vsub = l.vsub

\* lock_ycbcr and lock_flex give the same first byte, stride and step of Y,
\* Cb and Cr (android_ycbcr has one stride for both chroma planes).
YcbcrAsFlex ==
  Ready /\ lock_ycbcr # <<>> =>
    \A f \in Range(lock_flex) :
      CASE f.c = "Y"  -> f.start = lock_ycbcr.y /\ f.stride = lock_ycbcr.ystride
        [] f.c = "Cb" -> /\ f.start = lock_ycbcr.cb /\ f.stride = lock_ycbcr.cstride
                         /\ f.inc = lock_ycbcr.chroma_step
        [] f.c = "Cr" -> /\ f.start = lock_ycbcr.cr /\ f.stride = lock_ycbcr.cstride
                         /\ f.inc = lock_ycbcr.chroma_step

\* Packed YUV: the components are those of a group of pixels.
Group == IF Info(req).npln = 1 /\ "yuv" \in Info(req).is
         THEN Info(req).hsub * Info(req).tile_size ELSE 1

\* The components the mapper reports for a plane of an uncompressed buffer
\* are disjoint and lie within the bits it reports for a sample, for the depth
\* formats that borrow another format's fourcc too.  (Of RAW10 and RAW12 the
\* sizes are not reported.)
ComponentsFit ==
  Ready /\ req.base \notin RawPacked =>
    \A l \in Range(get_plane_layouts) :
      /\ \A c \in Range(l.components) : c[2] + c[3] <= l.increment * Group
      /\ \A i, j \in DOMAIN l.components :
           i < j => l.components[i][2] + l.components[i][3] <= l.components[j][2]

\* The three descriptions of where the samples of an uncompressed buffer are
\* agree: lock_flex with the components get reports, and lock_ycbcr with
\* lock_flex.
DescriptionsAgree == FlexAsReported /\ YcbcrAsFlex

\* Whatever a user is told lies inside what was allocated: the planes get
\* reports inside the layer, the samples of lock_flex inside their plane, and
\* the reported components, disjoint, inside their sample.
DescribedInside == LayoutsInside /\ FlexInside /\ ComponentsFit

BlockSize(tags, p) ==
  CASE "32x8_64x4" \in tags -> IF p = 0 THEN <<32, 8>> ELSE <<64, 4>>
    [] "32x8"  \in tags     -> <<32, 8>>
    [] "64x4"  \in tags     -> <<64, 4>>
    [] "16x16" \in tags     -> <<16, 16>>

\* Whoever reads a compressed buffer by its fourcc and modifier assumes the
\* superblocks, paging tiles and coding units it was laid out with; without a
\* modifier it is uncompressed.
ModifierTellsLayout ==
  Derived /\ drm_fourcc_from_handle # "INVALID" =>
    LET tags == drm_modifier_from_handle IN
    /\ tags = {} <=> Uncompressed(req)
    /\ is_afbc(req) => \A p \in Known : BlockSize(tags, p) = sb(req, p)
    /\ is_afrc(req) => \A p \in Known :
         LET tile  == IF <<"SCAN", 1>> \in tags THEN <<16, 4>> ELSE <<8, 8>>
             bytes == CHOOSE b \in {16, 24, 32} : <<IF p = 0 THEN "P0" ELSE "P12", b>> \in tags IN
         plane_info[p].byte_stride * tile[2] * clump(req, p)[2]
           = (plane_info[p].alloc_width \div (tile[1] * clump(req, p)[1])) * 64 * bytes
=============================================================================
