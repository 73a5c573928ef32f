----------------------------- MODULE MCAllocSize -----------------------------
(* Instances of AllocSize, BufferLayouts, ArmSelection and BufferQueries for *)
(* TLC, over the format table.                                              *)
EXTENDS BufferQueries

CONSTANTS Widths, Heights, LayerCounts

Ask(bases, mods, codings, usages, widths, heights) ==
  [base : bases, mods : mods, coding : codings, usage : usages,
   width : widths, height : heights, layers : LayerCounts]

All   == DOMAIN formats
Video == {"NV12", "NV16", "YUV420_8BIT_I", "YUV420_10BIT_I", "YUV422_8BIT", "Y210",
          "NV15", "NV24", "NV30"}
NoCoding == {<<16, 16>>}

\* Formats rk_gralloc_select_format never combines with AFBC.
Plain == {"NV12", "NV30", "NV24", "NV15", "P010", "RGBA_16161616", "NV16", "BGR_888"}

\* The flags of a video client: a stride, or how to align it, and the height.
StrideUsages == {{}, {"SPECIFY_STRIDE"}, {"ALIGN_16"}, {"ALIGN_64"}, {"ALIGN_128"}, {"ALIGN_256_ODD"}}
VideoUsages  == {{x} \cup s \cup h : x \in {"SW_READ", "TEXTURE"}, s \in StrideUsages,
                                     h \in {{}, {"HEIGHT_8"}, {"HEIGHT_16"}, {"HEIGHT_64"}}}
VideoAfbc    == {{"TEXTURE"} \cup s : s \in {{}, {"SPECIFY_STRIDE"}, {"ALIGN_16"}}}

\* What rk_gralloc_select_format lets through: every base format linear, and
\* those it may compress as plain AFBC without CPU usage.
RkRequests ==
       Ask(All, {{}}, NoCoding,
           {{"SW_READ"}, {"TEXTURE"}, {"SW_READ", "RENDER"}, {"PROTECTED"}}, Widths, Heights)
  \cup Ask(Video, {{}}, NoCoding, VideoUsages, Widths, {1, 34})
  \cup Ask(All \ Plain, {{"AFBC"}}, NoCoding,
           {{"TEXTURE"}, {"RENDER"}, {"TEXTURE", "AFBC_PADDING"}, {"RENDER", "PROTECTED"}},
           Widths, Heights)
  \cup Ask(Video \ Plain, {{"AFBC"}}, NoCoding, VideoAfbc, Widths, {34})

\* What a build with USE_RK_SELECTING_FORMAT_MANNER 0 adds: wide, extra-wide and
\* tiled AFBC, double bodies, AFRC and block-linear layouts.
AfbcMods == {{"AFBC"} \cup m : m \in SUBSET {"32x8", "64x4", "TILED", "DOUBLE_BODY"}}

ArmRequests ==
       Ask({"RGBA_8888", "RGBA_10101010", "RGBA_16161616", "NV12", "YV12", "P010", "NV24", "YUV420_10BIT_I"},
           AfbcMods, NoCoding, {{"TEXTURE"}, {"RENDER"}, {"TEXTURE", "AFBC_PADDING"}}, Widths, Heights)
  \cup Ask({"RGB_888", "RGBA_10101010", "Y8", "NV12", "YU12", "YUV444", "P210", "RGB_565"},
           {{"AFRC"}, {"AFRC", "ROT"}}, {16, 24, 32, 40} \X {16, 24, 32}, {{"TEXTURE"}}, Widths, Heights)
  \cup Ask({"NV12", "NV16", "P010", "NV15", "NV21"}, {{"BLOCK_LINEAR"}}, NoCoding, {{"TEXTURE"}}, Widths, Heights)

AllRequests == RkRequests \cup ArmRequests

\* Ten bits per pixel; and three bytes per pixel, for CPU and hardware.
TenBitRequests == Ask({"NV15", "NV30"}, {{}}, NoCoding, {{"TEXTURE"}}, Widths, Heights)
Bgr888Requests == Ask({"BGR_888"}, {{}}, NoCoding, {{"SW_READ", "RENDER"}}, Widths, Heights)
NoAsks == {}

-----------------------------------------------------------------------------
(* Requests whose format is selected.                                       *)

\* The capability files of a device: those of the GPU, the DPU and the others.
Has(features, permission) == [x \in features |-> permission]
File(caps)   == [parses |-> TRUE, caps |-> caps]
Broken       == [parses |-> FALSE, caps |-> <<>>]

Basic    == {"FORMAT_R10G10B10A2", "FORMAT_R16G16B16A16_FLOAT"}
Afbc     == {"AFBC_16X16", "AFBC_YUV", "AFBC_FORMAT_R16G16B16A16_FLOAT"}
Optional == {"AFBC_TILED_HEADERS", "AFBC_BLOCK_SPLIT", "AFBC_32X8", "AFBC_DOUBLE_BODY"}
Afrc     == {"AFRC_ROT_LAYOUT", "AFRC_SCAN_LAYOUT"}
Bl       == {"YUV_BL_8", "YUV_BL_10"}
Full     == Basic \cup Afbc \cup Optional \cup Afrc \cup Bl \cup {"AFBC_WRITE_NON_SPARSE"}

Gpu(caps) == <<File([GPU |-> caps])>>
GpuDpu(gpu, dpu) == <<File([GPU |-> gpu]), File([DPU |-> dpu, DPU_AEU |-> dpu])>>
Whole(gpu, dpu, vpu) == <<File([GPU |-> gpu, VPU |-> vpu]), File([DPU |-> dpu, DPU_AEU |-> dpu])>>

\* Every choice of optional AFBC features in the GPU, with displays that lack
\* some of them.
Displays == << Has(Full, "RO"), Has(Full \ {"AFBC_DOUBLE_BODY"}, "RW"),
               Has(Basic \cup Afbc \cup {"AFBC_32X8"}, "RW"), Has(Basic, "RW"),
               Has(Afbc \cup {"AFBC_32X8"}, "RO"), Has({"DISABLED"}, "RW") >>
AfbcDevices == (SUBSET Optional) \X DOMAIN Displays

\* No display found, AFRC, block-linear and AFBC each missing somewhere, files
\* that do not parse.
Others ==
  << Gpu(Has(Full, "RW")), Gpu(Has(Basic, "RW")), Gpu(Has(Full, "RO")), Gpu(Has({}, "NO")),
     <<File([GPU |-> Has(Full, "RW")]), Broken, File([DPU |-> Has({}, "NO")])>>,
     Whole(Has(Full, "RW"), Has(Full, "RW"), Has(Full, "RW")),
     Whole(Has(Full \ {"AFRC_ROT_LAYOUT", "YUV_BL_8"}, "RW"), Has(Full, "RO"), Has(Bl, "WO")),
     Whole(Has(Full \ {"AFBC_YUV", "YUV_BL_10"}, "RW"), Has(Full \ Afrc, "RW"), Has(Full, "RW")) >>
OtherDevices == {{}} \X {-i : i \in DOMAIN Others}

Directories ==
  [d \in AfbcDevices \cup OtherDevices |->
     IF d[2] < 0 THEN Others[-d[2]] ELSE GpuDpu(Has(Full \ d[1], "RW"), Displays[d[2]])]

Render     == {"RENDER", "TEXTURE", "COMPOSER"}
AfbcUsages == {Render, {"RENDER", "TEXTURE"}, {"RENDER", "FB"}, {"COMPOSER"},
               Render \cup {"FRONTBUFFER"}, Render \cup {"MALI_FRONTBUFFER"},
               {"RENDER", "TEXTURE", "FRONTBUFFER"}, {"RENDER", "TEXTURE", "PROTECTED"}, Render \cup {"NO_AFBC"},
               Render \cup {"AFBC_PADDING"}, {"DECODER", "TEXTURE", "COMPOSER"}}
Usages == AfbcUsages \cup
  { {"DECODER", "TEXTURE"}, {"DECODER", "VIDEO_ENCODER"}, {"COMPOSER", "VIDEO_ENCODER"},
    {"CAMERA_WRITE", "TEXTURE"}, {"TEXTURE"}, {"SW_READ", "SW_WRITE"},
    {"SW_WRITE", "TEXTURE", "COMPOSER"}, {"SW_READ", "RENDER"}, {"GPU_DATA_BUFFER"},
    {"PROTECTED"}, {"CHROMA_SITING_CENTER", "TEXTURE"},
    Render \cup {"SPECIFY_STRIDE"}, Render \cup {"SPECIFY_STRIDE", "MALI_FRONTBUFFER", "WITHIN_4G"},
    Render \cup {"SPECIFY_STRIDE", "NO_AFBC", "WITHIN_4G", "P12"},
    {"RENDER", "TEXTURE", "SPECIFY_STRIDE", "P12"},
    Render \cup {"SPECIFY_STRIDE", "NO_AFBC", "MALI_FRONTBUFFER"} }

Demand(hals, usages, devices, aidl) ==
  [hal : hals, private : {FALSE}, mods : {{}}, coding : NoCoding, aidl : aidl, usage : usages,
   device : devices, width : {34}, height : IF hals = {"BLOB"} THEN {1, 34} ELSE {34}, layers : {1},
   reserved : {0}, name : {8}]

Forced ==
  [hal : {"RGBA_8888", "RGB_565", "NV12", "IMPLEMENTATION_DEFINED", "YUV444", "RAW_OPAQUE"},
   private : {TRUE},
   mods : AfbcMods \cup {{}, {"AFRC"}, {"BLOCK_LINEAR"}}, coding : NoCoding, aidl : {TRUE},
   usage : {{"TEXTURE"}, {"RENDER"}}, device : {<<{}, -1>>},
   width : {34}, height : {34}, layers : {1}, reserved : {0}, name : {8}]

\* Descriptions with dimensions that differ, one of them 0 or above the limit
\* of BT601, layers, a name of any length, and usages that name a color space.
ColorUsages == {{"DECODER", "TEXTURE", "PROTECTED"} \cup s \cup r :
                  s \in SUBSET {"BT601", "BT709"}, r \in SUBSET {"RANGE_NARROW", "RANGE_WIDE"}}
Described ==
  [hal : {"NV12", "P010", "YV12", "RGBA_8888", "RAW16", "NONE"}, private : {FALSE}, mods : {{}},
   coding : NoCoding, aidl : BOOLEAN, usage : ColorUsages \cup {{"SW_READ_OFTEN", "SW_WRITE"}},
   device : {<<{}, -1>>}, width : {0, 31, 1920}, height : {17, 720}, layers : {1, 3},
   reserved : {64}, name : {0, 127, 128, 300}]

AllAsks ==
       Demand((All \ {"BLOB"}) \cup DOMAIN hal_to_internal_format, Usages, OtherDevices, {TRUE})
  \cup Demand({"BLOB"}, Usages, OtherDevices, BOOLEAN)
  \cup Demand(All \ {"BLOB"}, Usages, {<<{}, -1>>}, {FALSE})
  \cup Demand({"RGB_565", "RGB_888", "RGBA_8888", "RGBA_1010102", "RGBA_16161616",
               "RGBA_10101010", "YUV420_8BIT_I", "YUV422_8BIT", "Y210", "NV12"},
              AfbcUsages, AfbcDevices, {TRUE})
  \cup Forced \cup Described
=============================================================================
