----------------------------- MODULE FormatTable -----------------------------
(***************************************************************************)
(* The table of base formats of format_info.cpp, reduced to the columns     *)
(* that decide the size and the layout of a buffer.                         *)
(***************************************************************************)
EXTENDS Naturals, TLC

\* Number of planes; components, bits per pixel and bits per pixel under AFBC
\* of each plane; subsampling; alignment of width and height, and of the width
\* for CPU access; tile size; what the format is and supports.
Row(npln, ncmp, bpp, bpp_afbc, hsub, vsub, align_w, align_h, align_w_cpu, tile_size, is) ==
  [npln |-> npln, ncmp |-> ncmp, bpp |-> bpp, bpp_afbc |-> bpp_afbc,
   hsub |-> hsub, vsub |-> vsub, align_w |-> align_w, align_h |-> align_h,
   align_w_cpu |-> align_w_cpu, tile_size |-> tile_size, is |-> is]

rgb_formats ==
  [
   RGB_565             |-> Row(1, <<3, 0, 0>>, <<16, 0, 0>>, <<16, 0, 0>>, 0, 0, 1, 1,  1, 1, {"rgb", "afbc", "linear"}),
   RGB_888             |-> Row(1, <<3, 0, 0>>, <<24, 0, 0>>, <<24, 0, 0>>, 0, 0, 1, 1,  1, 1, {"rgb", "afbc", "linear", "afrc"}),
   BGR_888             |-> Row(1, <<3, 0, 0>>, <<24, 0, 0>>, <<0, 0, 0>> , 0, 0, 1, 1,  1, 1, {"rgb", "linear", "afrc"}),
   RGBA_8888           |-> Row(1, <<4, 0, 0>>, <<32, 0, 0>>, <<32, 0, 0>>, 0, 0, 1, 1,  1, 1, {"rgb", "afbc", "linear", "afrc"}),
   BGRA_8888           |-> Row(1, <<4, 0, 0>>, <<32, 0, 0>>, <<32, 0, 0>>, 0, 0, 1, 1,  1, 1, {"rgb", "afbc", "linear"}),
   RGBX_8888           |-> Row(1, <<3, 0, 0>>, <<32, 0, 0>>, <<32, 0, 0>>, 0, 0, 1, 1,  1, 1, {"rgb", "afbc", "linear"}),
   RGBA_1010102        |-> Row(1, <<4, 0, 0>>, <<32, 0, 0>>, <<32, 0, 0>>, 0, 0, 1, 1,  1, 1, {"rgb", "afbc", "linear"}),
   RGBA_16161616       |-> Row(1, <<4, 0, 0>>, <<64, 0, 0>>, <<64, 0, 0>>, 0, 0, 1, 1,  1, 1, {"rgb", "afbc", "linear"}),
   RGBA_10101010       |-> Row(1, <<4, 0, 0>>, <<64, 0, 0>>, <<40, 0, 0>>, 0, 0, 1, 1,  1, 1, {"rgb", "afbc", "linear", "afrc"})
  ]

\* Luminance, 4:2:0, 4:2:2 and 4:4:4.
yuv_formats ==
  [
   Y8                  |-> Row(1, <<1, 0, 0>>, <<8, 0, 0>> , <<8, 0, 0>> , 1, 1, 2, 2, 16, 1, {"yuv", "afbc", "linear", "afrc"}),
   Y16                 |-> Row(1, <<1, 0, 0>>, <<16, 0, 0>>, <<16, 0, 0>>, 1, 1, 2, 2, 16, 1, {"yuv", "afbc", "linear"}),
   YUV420_8BIT_I       |-> Row(1, <<3, 0, 0>>, <<0, 0, 0>> , <<12, 0, 0>>, 2, 2, 2, 2,  1, 1, {"yuv", "afbc"}),
   NV12                |-> Row(2, <<1, 2, 0>>, <<8, 16, 0>>, <<8, 16, 0>>, 2, 2, 2, 2,  1, 1, {"yuv", "afbc", "linear", "block_linear", "afrc"}),
   NV21                |-> Row(2, <<1, 2, 0>>, <<8, 16, 0>>, <<8, 16, 0>>, 2, 2, 2, 2,  1, 1, {"yuv", "afbc", "linear", "afrc"}),
   YV12                |-> Row(3, <<1, 1, 1>>, <<8, 8, 8>> , <<8, 8, 8>> , 2, 2, 2, 2, 16, 1, {"yuv", "afbc", "linear"}),
   YU12                |-> Row(3, <<1, 1, 1>>, <<8, 8, 8>> , <<0, 0, 0>> , 2, 2, 2, 2, 16, 1, {"yuv", "linear", "afrc"}),
   YUV422_8BIT         |-> Row(1, <<3, 0, 0>>, <<16, 0, 0>>, <<16, 0, 0>>, 2, 1, 2, 1,  1, 1, {"yuv", "afbc", "linear"}),
   NV16                |-> Row(2, <<1, 2, 0>>, <<8, 16, 0>>, <<8, 16, 0>>, 2, 1, 2, 1,  1, 1, {"yuv", "afbc", "linear", "block_linear", "afrc"}),
   NV24                |-> Row(2, <<1, 2, 0>>, <<8, 16, 0>>, <<0, 0, 0>> , 1, 1, 1, 1,  1, 1, {"yuv", "linear"}),
   YUV444              |-> Row(3, <<1, 1, 1>>, <<0, 0, 0>> , <<0, 0, 0>> , 1, 1, 1, 1,  1, 1, {"yuv", "afrc"}),
   NV30                |-> Row(3, <<1, 2, 0>>, <<10, 20, 0>>, <<0, 0, 0>> , 1, 1, 2, 2,  1, 1, {"yuv", "linear"}),
   Q410                |-> Row(3, <<1, 1, 1>>, <<0, 0, 0>> , <<0, 0, 0>> , 1, 1, 1, 1,  1, 1, {"yuv", "afrc"}),
   Q401                |-> Row(3, <<1, 1, 1>>, <<0, 0, 0>> , <<0, 0, 0>> , 1, 1, 1, 1,  1, 1, {"yuv", "afrc"})
  ]

\* 4:2:0, 4:2:2 and 4:4:4 of 10 bits.
yuv_10bit_formats ==
  [
   YUV420_10BIT_I      |-> Row(1, <<3, 0, 0>>, <<0, 0, 0>> , <<15, 0, 0>>, 2, 2, 2, 2,  1, 1, {"yuv", "afbc"}),
   Y0L2                |-> Row(1, <<4, 0, 0>>, <<16, 0, 0>>, <<0, 0, 0>> , 2, 2, 2, 2,  1, 2, {"yuv", "linear"}),
   P010                |-> Row(2, <<1, 2, 0>>, <<16, 32, 0>>, <<10, 20, 0>>, 2, 2, 2, 2,  1, 1, {"yuv", "afbc", "linear", "block_linear", "afrc"}),
   NV15                |-> Row(2, <<1, 2, 0>>, <<10, 20, 0>>, <<0, 0, 0>> , 2, 2, 2, 2,  1, 1, {"yuv", "linear", "block_linear"}),
   Y210                |-> Row(1, <<3, 0, 0>>, <<32, 0, 0>>, <<20, 0, 0>>, 2, 1, 2, 1,  1, 1, {"yuv", "afbc", "linear"}),
   P210                |-> Row(2, <<1, 2, 0>>, <<16, 32, 0>>, <<10, 20, 0>>, 2, 1, 2, 1,  1, 1, {"yuv", "afbc", "linear", "afrc"}),
   Y410                |-> Row(1, <<4, 0, 0>>, <<32, 0, 0>>, <<0, 0, 0>> , 1, 1, 1, 1,  1, 1, {"yuv", "linear"})
  ]

\* RAW, BLOB, depth and stencil, and R8.
other_formats ==
  [
   RAW16               |-> Row(1, <<1, 0, 0>>, <<16, 0, 0>>, <<0, 0, 0>> , 0, 0, 2, 2, 16, 1, {"linear"}),
   RAW12               |-> Row(1, <<1, 0, 0>>, <<12, 0, 0>>, <<0, 0, 0>> , 0, 0, 4, 2,  4, 1, {"linear"}),
   RAW10               |-> Row(1, <<1, 0, 0>>, <<10, 0, 0>>, <<0, 0, 0>> , 0, 0, 4, 2,  4, 1, {"linear"}),
   BLOB                |-> Row(1, <<1, 0, 0>>, <<8, 0, 0>> , <<0, 0, 0>> , 0, 0, 1, 1,  1, 1, {"linear"}),
   DEPTH_16            |-> Row(1, <<1, 0, 0>>, <<16, 0, 0>>, <<0, 0, 0>> , 0, 0, 1, 1,  1, 1, {"linear"}),
   DEPTH_24            |-> Row(1, <<1, 0, 0>>, <<24, 0, 0>>, <<0, 0, 0>> , 0, 0, 1, 1,  1, 1, {"linear"}),
   DEPTH_24_STENCIL_8  |-> Row(1, <<2, 0, 0>>, <<32, 0, 0>>, <<0, 0, 0>> , 0, 0, 1, 1,  1, 1, {"linear"}),
   DEPTH_32F           |-> Row(1, <<1, 0, 0>>, <<32, 0, 0>>, <<0, 0, 0>> , 0, 0, 1, 1,  1, 1, {"linear"}),
   DEPTH_32F_STENCIL_8 |-> Row(1, <<2, 0, 0>>, <<40, 0, 0>>, <<0, 0, 0>> , 0, 0, 1, 1,  1, 1, {"linear"}),
   STENCIL_8           |-> Row(1, <<1, 0, 0>>, <<8, 0, 0>> , <<0, 0, 0>> , 0, 0, 1, 1,  1, 1, {"linear"}),
   R8                  |-> Row(1, <<1, 0, 0>>, <<8, 0, 0>> , <<0, 0, 0>> , 0, 0, 1, 1,  1, 1, {"rgb", "linear"})
  ]

formats == rgb_formats @@ yuv_formats @@ yuv_10bit_formats @@ other_formats

\* No base format is in two parts: the table has the rows of all four.
ASSUME PartsAssumption ==
  /\ DOMAIN formats = DOMAIN rgb_formats \cup DOMAIN yuv_formats
                        \cup DOMAIN yuv_10bit_formats \cup DOMAIN other_formats
  /\ \A base \in DOMAIN rgb_formats       : formats[base] = rgb_formats[base]
  /\ \A base \in DOMAIN yuv_formats       : formats[base] = yuv_formats[base]
  /\ \A base \in DOMAIN yuv_10bit_formats : formats[base] = yuv_10bit_formats[base]
  /\ \A base \in DOMAIN other_formats     : formats[base] = other_formats[base]
=============================================================================
