---------------------------- MODULE ArmSelection ----------------------------
(***************************************************************************)
(* The format selection of a build with USE_RK_SELECTING_FORMAT_MANNER 0:     *)
(* who writes and who reads a buffer is read off its usage, and the base      *)
(* format and modifiers are the best that the support table and the           *)
(* capability files of the device grant to all of them.  What is selected is  *)
(* handed to the derivation of AllocSize.                                     *)
(*                                                                          *)
(* A usage is a set of flags, one for each bit.  The AFRC coding sizes have    *)
(* no bits of their own: they share those of other flags.                     *)
(***************************************************************************)
EXTENDS BufferLayouts

CONSTANTS
  Directory, \* of each device, the capability files
  Asks       \* what is asked for, and by whom: a BufferDescriptorInfo of a device and a build

\* Every field of it is there.
ASSUME AsksAssumption ==
  \A a \in Asks :
    /\ DOMAIN a = {"hal", "private", "mods", "coding", "aidl", "usage", "device",
                   "width", "height", "layers", "reserved", "name"}
    /\ a.private \in BOOLEAN /\ a.aidl \in BOOLEAN
    /\ a.width \in Nat /\ a.height \in Nat /\ a.layers \in Nat /\ a.name \in Nat

VARIABLE
  asked  \* what the client of the call in progress asked for

NoAsk   == [hal |-> "NONE"]
armVars == <<vars, asked>>

-----------------------------------------------------------------------------
(* Usages.                                                                  *)

Universal == {"PROTECTED"} \cup SwFlags
Standard  == SwFlags \cup HwFlags \cup {"FRONTBUFFER"}

\* The private bits that a caller may set, the two of the height alignment also
\* together.  Those of the chroma siting are not among them.
Vendor == {"MALI_FRONTBUFFER", "NO_AFBC", "SPECIFY_STRIDE", "PHY_CONTIG", "WITHIN_4G", "P12", "P15",
           "FORCE_BACKBUFFER", "AFBC_PADDING", "HEIGHT_8", "HEIGHT_16", "HEIGHT_64",
           "ALIGN_16", "ALIGN_64", "ALIGN_128", "ALIGN_256_ODD",
           "BT601", "BT709", "RANGE_NARROW", "RANGE_WIDE"}

gralloc_usage_is_frontbuffer(u) ==
  "FRONTBUFFER" \in u \/ ("MALI_FRONTBUFFER" \in u /\ "SPECIFY_STRIDE" \notin u)
gralloc_usage_is_no_afbc(u) == "NO_AFBC" \in u /\ "SPECIFY_STRIDE" \notin u

\* Coding sizes in bytes, 0 for none.
luma_coding_size(u) ==
  LET bits == u \cap {"SPECIFY_STRIDE", "NO_AFBC", "MALI_FRONTBUFFER"} IN
  IF bits = {"SPECIFY_STRIDE", "MALI_FRONTBUFFER"} THEN 16
  ELSE IF bits = {"SPECIFY_STRIDE", "NO_AFBC"} THEN 24
  ELSE IF bits = {"SPECIFY_STRIDE"} THEN 32 ELSE 0
chroma_coding_size(u) ==
  LET bits == u \cap {"WITHIN_4G", "P12"} IN
  IF bits = {"WITHIN_4G", "P12"} THEN 32
  ELSE IF bits = {"P12"} THEN 24
  ELSE IF bits = {"WITHIN_4G"} THEN 16 ELSE 0

\* Private bits and PROTECTED say nothing of producers and consumers.
Public(u) == u \cap (Standard \ {"PROTECTED"})

get_consumers(u) ==
  IF Public(u) = {"COMPOSER"} THEN {"DPU"} ELSE
       {ip \in {"CPU"} : u \cap {"SW_READ", "SW_READ_OFTEN"} # {}}
  \cup {ip \in {"DPU"} : "FB" \in u \/ {"TEXTURE", "COMPOSER"} \subseteq u}
  \cup {ip \in {"VPU"} : "VIDEO_ENCODER" \in u}
  \cup {ip \in {"GPU"} : u \cap {"TEXTURE", "GPU_DATA_BUFFER"} # {}}

get_producers(u) ==
  IF Public(u) = {"COMPOSER"} THEN {"DPU_AEU"} ELSE
       {ip \in {"CPU"} : "SW_WRITE" \in u}
  \cup {ip \in {"DPU"} : "DECODER" \notin u /\ {"COMPOSER", "VIDEO_ENCODER"} \subseteq u}
  \cup {ip \in {"GPU"} : u \cap {"RENDER", "GPU_DATA_BUFFER"} # {}}
  \cup {ip \in {"CAM"} : "CAMERA_WRITE" \in u}
  \cup {ip \in {"VPU"} : "DECODER" \in u}

\* Without a producer the CPU is assumed to be one.
Producers(u) == IF get_producers(u) = {} THEN {"CPU"} ELSE get_producers(u)

-----------------------------------------------------------------------------
(* Capabilities.  The directory of a device is a sequence of XML files: a     *)
(* file has caps, for some IPs a permission for each of some features, or     *)
(* does not parse.                                                            *)

\* What is found for an IP: nothing or its capabilities.  The search ends at a
\* file that does not parse.
FirstWith(ip, files) ==
  LET hits == {i \in DOMAIN files : ~files[i].parses \/ ip \in DOMAIN files[i].caps} IN
  {file.caps[ip] : file \in {files[i] : i \in {j \in hits : files[j].parses
                                                         /\ \A k \in hits : j <= k}}}
find_ip_capabilities(device, ip) == FirstWith(ip, Directory[device])

Read  == {"RW", "RO"}
Write == {"RW", "WO"}
is_feature_supported(caps, feature, permission) ==
  feature \in DOMAIN caps /\ caps[feature] \in permission

caps_supports_feature_cpu == {"FORMAT_R10G10B10A2", "FORMAT_R16G16B16A16_FLOAT"}

\* An IP without capabilities poses no restriction.
Allows(device, ip, feature, permission) ==
  IF ip = "CPU" THEN feature \in caps_supports_feature_cpu
  ELSE \A caps \in find_ip_capabilities(device, ip) :
         is_feature_supported(caps, feature, permission)

\* (A slip: consumers are not asked.)
ip_support_feature_Write(device, prod, cons, feature) ==
  \A ip \in prod : Allows(device, ip, feature, Write)

ip_support_feature(device, prod, cons, feature) ==
  /\ \A ip \in prod : Allows(device, ip, feature, Write)
  /\ \A ip \in cons : Allows(device, ip, feature, Read)

Features ==
  {"DISABLED", "FORMAT_R10G10B10A2", "FORMAT_R16G16B16A16_FLOAT", "YUV_BL_8", "YUV_BL_10",
   "AFBC_16X16", "AFBC_32X8", "AFBC_64X4", "AFBC_BLOCK_SPLIT", "AFBC_TILED_HEADERS",
   "AFBC_DOUBLE_BODY", "AFBC_WRITE_NON_SPARSE", "AFBC_YUV", "AFBC_FORMAT_R16G16B16A16_FLOAT",
   "AFRC_ROT_LAYOUT", "AFRC_SCAN_LAYOUT"}

present(device, ip) == ~ ip_support_feature(device, {ip}, {ip}, "DISABLED")

-----------------------------------------------------------------------------
(* The tables: columns of format_info.cpp that only the selection reads.     *)

\* The order of the table, which decides between formats of the same grade.
get_all_base_formats ==
  << "RGB_565", "RGB_888", "BGR_888", "RGBA_8888", "BGRA_8888", "RGBX_8888", "RGBA_1010102",
     "RGBA_16161616", "RGBA_10101010", "Y8", "Y16", "YUV420_8BIT_I", "NV12", "NV21", "YV12",
     "YU12", "YUV422_8BIT", "NV16", "NV24", "YUV444", "NV30", "Q410", "Q401",
     "YUV420_10BIT_I", "Y0L2", "P010", "NV15", "Y210", "P210", "Y410", "RAW16", "RAW12",
     "RAW10", "BLOB", "DEPTH_16", "DEPTH_24", "DEPTH_24_STENCIL_8", "DEPTH_32F",
     "DEPTH_32F_STENCIL_8", "STENCIL_8", "R8" >>

bps(base) ==
  CASE base = "RGB_565" -> 6
    [] base = "RAW12" -> 12
    [] base \in {"RGBA_16161616", "Y16", "RAW16", "DEPTH_16"} -> 16
    [] base \in {"DEPTH_24", "DEPTH_24_STENCIL_8"} -> 24
    [] base \in {"DEPTH_32F", "DEPTH_32F_STENCIL_8"} -> 32
    [] base \in {"RGBA_1010102", "RGBA_10101010", "NV30", "Q410", "Q401", "YUV420_10BIT_I",
                 "Y0L2", "P010", "NV15", "Y210", "P210", "Y410", "RAW10"} -> 10
    [] OTHER -> 8
has_alpha == {"RGBA_8888", "BGRA_8888", "RGBA_1010102", "RGBA_16161616", "RGBA_10101010",
              "Y0L2", "Y410"}
yuv_transform == {"RGB_565", "RGB_888", "RGBA_8888", "RGBX_8888", "RGBA_1010102",
                  "RGBA_16161616", "RGBA_10101010"}

CameraUses == Universal \cup {"CAMERA_WRITE", "CAMERA_READ", "TEXTURE", "RENDER"}
VideoUses  == {"TEXTURE", "RENDER", "COMPOSER", "DECODER", "VIDEO_ENCODER", "FB", "FRONTBUFFER"}
permitted_usage(base) ==
  IF base \in {"BGR_888", "NV24", "NV30"} THEN {}
  ELSE IF base \in {"Y8", "Y16"}      THEN CameraUses
  ELSE IF base \in {"RAW12", "RAW10"} THEN CameraUses \cup {"RENDERSCRIPT"}
  ELSE IF base = "NV12" THEN Universal \cup VideoUses
  ELSE IF base = "YV12" THEN CameraUses \cup VideoUses \cup {"EXTERNAL_DISP"}
  ELSE IF base = "R8"   THEN Universal \cup {"TEXTURE", "RENDER"}
  ELSE Standard

\* The layouts an IP reads and writes: a row of formats_ip_support.  CPU
\* columns are equal in every row.
L    == {"LIN"}
A    == {"AFBC"}
LA   == {"LIN", "AFBC"}
LR   == {"LIN", "AFRC"}
LAR  == {"LIN", "AFBC", "AFRC"}
LBR  == {"LIN", "BL_YUV", "AFRC"}
LABR == {"LIN", "AFBC", "BL_YUV", "AFRC"}
R    == {"AFRC"}
B    == {"BL_YUV"}
LB   == {"LIN", "BL_YUV"}

IpRow(cpu, gpu_rd, gpu_wr, dpu_rd, dpu_wr, dpu_aeu_wr, vpu_rd, vpu_wr, cam_wr) ==
  [rd |-> [CPU |-> cpu, GPU |-> gpu_rd, DPU |-> dpu_rd, VPU |-> vpu_rd],
   wr |-> [CPU |-> cpu, GPU |-> gpu_wr, DPU |-> dpu_wr, DPU_AEU |-> dpu_aeu_wr,
           VPU |-> vpu_wr, CAM |-> cam_wr]]

get_format_ip_support(base) ==
  CASE base \in {"RGB_565", "YUV422_8BIT"} -> IpRow(L, LA, LA, LA, {}, A, {}, {}, {})
    [] base \in {"RGB_888", "BGR_888"}     -> IpRow(L, LAR, LAR, LAR, L, A, {}, {}, {})
    [] base = "RGBA_8888"                  -> IpRow(L, LAR, LAR, LAR, L, A, L, {}, {})
    [] base = "BGRA_8888"                  -> IpRow(L, L, L, L, L, {}, L, {}, {})
    [] base = "RGBX_8888"                  -> IpRow(L, LA, LA, LA, L, {}, {}, {}, {})
    [] base = "RGBA_1010102"               -> IpRow(L, LA, LA, LA, L, A, {}, {}, {})
    [] base \in {"RGBA_16161616", "Y210"}  -> IpRow(L, LA, LA, {}, {}, {}, {}, {}, {})
    [] base = "RGBA_10101010"              -> IpRow(L, LAR, LAR, R, {}, {}, {}, {}, {})
    [] base \in {"YUV420_8BIT_I", "YUV420_10BIT_I"} -> IpRow({}, A, A, A, {}, A, A, A, {})
    [] base = "NV12"                       -> IpRow(L, LABR, LBR, LR, L, {}, L, LB, {})
    [] base = "NV21"                       -> IpRow(L, LR, LR, R, {}, {}, L, L, {})
    [] base \in {"YV12", "YU12"}           -> IpRow(L, LR, LR, LR, {}, {}, L, L, {})
    [] base \in {"NV16", "NV24"}           -> IpRow(L, LABR, LBR, R, {}, {}, {}, B, {})
    [] base \in {"YUV444", "Q410", "Q401"} -> IpRow({}, R, R, R, {}, {}, {}, {}, {})
    [] base \in {"NV30", "NV15"}           -> IpRow({}, B, {}, {}, {}, {}, {}, B, {})
    [] base = "Y0L2"                       -> IpRow(L, L, L, L, {}, {}, L, L, {})
    [] base = "P010"                       -> IpRow(L, LBR, LBR, LR, {}, {}, L, LB, {})
    [] base = "P210"                       -> IpRow(L, LR, LR, R, {}, {}, {}, {}, {})
    [] base = "Y410"                       -> IpRow(L, L, LA, {}, {}, {}, {}, {}, {})
    [] base = "RAW16"                      -> IpRow(L, L, {}, {}, {}, {}, {}, {}, L)
    [] base \in {"BLOB", "R8"}             -> IpRow(L, L, L, {}, {}, {}, {}, {}, {})
    [] OTHER                               -> IpRow(L, {}, {}, {}, {}, {}, {}, {}, {})

\* HAL formats that are not the name of an internal one.
hal_to_internal_format ==
  [YCbCr_422_SP |-> "NV16", YCrCb_420_SP |-> "NV21", YCbCr_422_I |-> "YUV422_8BIT",
   YCbCr_422_888 |-> "YUV422_8BIT", RGBA_FP16 |-> "RGBA_16161616",
   IMPLEMENTATION_DEFINED |-> "NV12", YCbCr_420_888 |-> "NV12", YCBCR_P010 |-> "P010",
   RAW_OPAQUE |-> "UNDEFINED", YCbCr_444_888 |-> "UNDEFINED"]
get_internal_format(hal) ==
  IF hal \in DOMAIN hal_to_internal_format THEN hal_to_internal_format[hal] ELSE hal

-----------------------------------------------------------------------------
(* Which layouts of a base format all producers and consumers support.       *)
(* From here on c is a call's context: who uses the buffer, on which device,  *)
(* and the features all of them support.                                      *)

ContextOf(usage, device, prod, cons) ==
  [usage |-> usage, device |-> device, prod |-> prod, cons |-> cons,
   features |-> {x \in Features : ip_support_feature(device, prod, cons, x)}]
Context(a) == ContextOf(a.usage, a.device, Producers(a.usage), get_consumers(a.usage))

is_yuv(base) == "yuv" \in formats[base].is
is_rgb(base) == "rgb" \in formats[base].is
is_subsampled_yuv(base) == is_yuv(base) /\ (formats[base].hsub > 1 \/ formats[base].vsub > 1)
support(c, feature) == feature \in c.features

ip_supports_base_format(c, base) ==
  LET row == get_format_ip_support(base) IN
  {f \in {"LIN", "AFBC", "BL_YUV", "AFRC"} :
     /\ \A ip \in c.prod : f \in row.wr[ip]
     /\ \A ip \in c.cons : f \in row.rd[ip]}

usage_supports_base_format(c, flags) ==
  IF "GPU_DATA_BUFFER" \in c.usage THEN flags \cap {"LIN"} ELSE flags

is_afbc_multiplane_supported(c) ==
  /\ support(c, "AFBC_16X16") /\ support(c, "AFBC_TILED_HEADERS") /\ support(c, "AFBC_64X4")
  /\ c.prod = {}

\* What is_format_supported asks before it leaves a layout enabled.
AfbcEnabled(c, base) ==
  /\ "afbc" \in formats[base].is /\ support(c, "AFBC_16X16")
  /\ formats[base].npln > 1 => is_afbc_multiplane_supported(c)
  /\ is_yuv(base) => support(c, "AFBC_YUV")
  /\ gralloc_usage_is_frontbuffer(c.usage) => support(c, "AFBC_DOUBLE_BODY")
\* (A slip: the format's own column is not consulted.)
AfrcEnabled_AnyFormat(c, base) ==
  support(c, "AFRC_ROT_LAYOUT") \/ support(c, "AFRC_SCAN_LAYOUT")
AfrcEnabled(c, base) ==
  /\ "afrc" \in formats[base].is
  /\ support(c, "AFRC_ROT_LAYOUT") \/ support(c, "AFRC_SCAN_LAYOUT")
BlEnabled(c, base) ==
  /\ "block_linear" \in formats[base].is /\ is_yuv(base)
  /\ bps(base) = 8  => support(c, "YUV_BL_8")
  /\ bps(base) = 10 => support(c, "YUV_BL_10")

is_format_supported(c, base) ==
  LET table == usage_supports_base_format(c, ip_supports_base_format(c, base))
      flags == {f \in table : /\ f = "AFBC"   => AfbcEnabled(c, base)
                              /\ f = "AFRC"   => AfrcEnabled(c, base)
                              /\ f = "BL_YUV" => BlEnabled(c, base)}
      lacks(name, feature) == base = name /\ ~support(c, feature)
  IN IF \/ flags = {}
        \/ lacks("RGBA_1010102", "FORMAT_R10G10B10A2")
        \/ lacks("RGBA_16161616", "FORMAT_R16G16B16A16_FLOAT") THEN {}
     ELSE IF lacks("RGBA_16161616", "AFBC_FORMAT_R16G16B16A16_FLOAT") THEN {"LIN"}
     ELSE flags

-----------------------------------------------------------------------------
(* The modifiers of a layout.                                               *)

Format(base, mods, coding) == [base |-> base, mods |-> mods, coding |-> coding]
Linear(base)               == Format(base, {}, <<16, 16>>)

get_afrc_format(c, base) ==
  LET luma   == luma_coding_size(c.usage)
      chroma_size == chroma_coding_size(c.usage)
      rot    == support(c, "AFRC_ROT_LAYOUT")
      usable == /\ rot \/ support(c, "AFRC_SCAN_LAYOUT")
                /\ luma # 0
                /\ is_yuv(base) <=> chroma_size # 0
  IN IF usable
     THEN Format(base, IF rot THEN {"AFRC", "ROT"} ELSE {"AFRC"},
                 <<luma, IF is_yuv(base) THEN chroma_size ELSE 16>>)
     ELSE Linear(base)

\* Producers that need not write sparse AFBC.
NonSparse(c) == c.prod # {} /\ ip_support_feature(c.device, c.prod, {}, "AFBC_WRITE_NON_SPARSE")

\* The AFBC specification demands split blocks of wide ones.
WideNeedsSplit(c, base, m) ==
  IF "32x8" \in m /\ "SPLIT" \notin m /\ ~is_subsampled_yuv(base) /\ base # "RGB_565"
  THEN IF support(c, "AFBC_BLOCK_SPLIT") THEN m \cup {"SPLIT"} ELSE m \ {"32x8"}
  ELSE m

\* Invalid combinations are resolved in this order, then what is not supported
\* is dropped.
validate_afbc_format(c, base, mods) ==
  LET body(m)  == IF "DOUBLE_BODY" \in m THEN m \ {"32x8", "64x4"} ELSE m
      split(m) == IF {"32x8", "SPLIT"} \subseteq m /\ is_subsampled_yuv(base)
                  THEN m \ {"SPLIT"} ELSE m
      plain(m) == IF base = "RGB_565" THEN m \ {"SPLIT"} ELSE m
      capable(m) == IF ~support(c, "AFBC_16X16") THEN {}
                    ELSE {x \in m : /\ x = "SPLIT" => support(c, "AFBC_BLOCK_SPLIT")
                                    /\ x = "32x8"  => support(c, "AFBC_32X8")
                                    /\ x = "TILED" => support(c, "AFBC_TILED_HEADERS")}
      sparse(m) == IF NonSparse(c) THEN m ELSE m \cup {"SPARSE"}
  IN sparse(capable(plain(WideNeedsSplit(c, base, split(body(mods))))))

\* Modifiers that only GPU-to-DPU buffers get.
DisplayMods(c, base) ==
  IF ~ ("GPU" \in c.prod /\ "DPU" \in c.cons /\ present(c.device, "DPU")) THEN {} ELSE
       {m \in {"32x8"}  : support(c, "AFBC_32X8") /\ ~is_yuv(base)}
  \cup {m \in {"SPLIT"} : /\ support(c, "AFBC_BLOCK_SPLIT") /\ ~is_yuv(base)
                          /\ is_rgb(base) /\ At(formats[base].bpp, 0) >= 24}

\* (A slip: a double body is not asked for.)
BodyMods_Single(c) == {m \in {"TILED"} : support(c, "AFBC_TILED_HEADERS")}
BodyMods(c) ==
  IF ~support(c, "AFBC_TILED_HEADERS") THEN {}
  ELSE {"TILED"} \cup {m \in {"DOUBLE_BODY"} : /\ gralloc_usage_is_frontbuffer(c.usage)
                                              /\ support(c, "AFBC_DOUBLE_BODY")}

get_afbc_format(c, base) ==
  LET usable ==
        /\ is_yuv(base) =>
             /\ c.cons # {} => ip_support_feature(c.device, {}, c.cons, "AFBC_YUV")
             /\ ip_support_feature(c.device, c.prod, {}, "AFBC_YUV")
        /\ ~ ("VPU" \in c.prod /\ "VPU" \in c.cons)
        /\ support(c, "AFBC_16X16")
      mods == {"AFBC"} \cup {m \in {"YTR"} : base \in yuv_transform}
                       \cup {m \in {"SPARSE"} : ~NonSparse(c)}
                       \cup BodyMods(c) \cup DisplayMods(c, base)
  IN IF usable THEN Format(base, validate_afbc_format(c, base, mods), <<16, 16>>)
     ELSE Linear(base)

get_bl_format(c, base) ==
  IF support(c, "YUV_BL_8") \/ support(c, "YUV_BL_10")
  THEN Format(base, {"BLOCK_LINEAR"}, <<16, 16>>) ELSE Linear(base)

\* The first of AFRC, AFBC, block-linear and linear that works out, or nothing.
\* Without a layout for both, the GPU composes in place of the DPU.
SupportedFlags(c, base) ==
  LET flags == is_format_supported(c, base) IN
  IF flags = {} /\ {"GPU", "DPU"} \subseteq c.cons
  THEN is_format_supported(ContextOf(c.usage, c.device, c.prod, c.cons \ {"DPU"}), base)
  ELSE flags

\* (A slip: a refused compression is not followed by the next layout.)
FirstOf_NoNext(c, base, flags, afrc, afbc, bl) ==
  IF "AFRC" \in flags /\ is_afrc(afrc) THEN {afrc}
  ELSE IF "AFBC" \in flags
  THEN {f \in {afbc} : ~gralloc_usage_is_no_afbc(c.usage) /\ is_afbc(f)}
  ELSE IF "BL_YUV" \in flags /\ is_block_linear(bl) THEN {bl}
  ELSE {f \in {Linear(base)} : "LIN" \in flags}
FirstOf(c, base, flags, afrc, afbc, bl) ==
  IF "AFRC" \in flags /\ is_afrc(afrc) THEN {afrc}
  ELSE IF /\ "AFBC" \in flags /\ ~gralloc_usage_is_no_afbc(c.usage) /\ is_afbc(afbc)
          /\ get_alloc_type(afbc) /\ (formats[base].npln = 1 \/ is_multi_plane(afbc)) THEN {afbc}
  ELSE IF "BL_YUV" \in flags /\ is_block_linear(bl) THEN {bl}
  ELSE {f \in {Linear(base)} : "LIN" \in flags}

get_supported_format(c, base) ==
  FirstOf(c, base, SupportedFlags(c, base),
          get_afrc_format(c, base), get_afbc_format(c, base), get_bl_format(c, base))

-----------------------------------------------------------------------------
(* The best format.                                                         *)

comparable_components(old, new) ==
  LET count == total_components(new) = total_components(old)
      pixel == At(formats[new].bpp, 0) IN
  IF is_yuv(old) /\ bps(new) = bps(old)
  THEN count \/ (/\ old \in has_alpha /\ total_components(new) = 3
                 /\ is_yuv(new) /\ new \notin has_alpha)
  ELSE IF is_rgb(old)
  THEN count /\ \/ pixel = At(formats[old].bpp, 0) /\ bps(new) = bps(old)
                \/ old \in {"RGBX_8888", "RGB_565"} /\ pixel = 24
  ELSE new = old

is_format_compatible(old, new) ==
  LET o == formats[old]  n == formats[new] IN
  /\ n.hsub = o.hsub /\ n.vsub = o.vsub
  /\ is_rgb(new) <=> is_rgb(old)
  /\ is_yuv(new) <=> is_yuv(old)
  /\ comparable_components(old, new)

is_same_or_components_reordered(x, y) ==
  /\ formats[x].npln = formats[y].npln /\ total_components(x) = total_components(y)
  /\ bps(x) = bps(y) /\ is_yuv(x) = is_yuv(y)
  /\ formats[x].hsub = formats[y].hsub /\ formats[x].vsub = formats[y].vsub

\* 0 for a format that does not qualify.  The bits of AFRC's rotatable layout
\* and coding sizes are those of AFBC modifiers, and count like them.
grade_format(f, req_base) ==
  IF is_afrc(f)
  THEN 1 + 2^30 + (IF is_same_or_components_reordered(req_base, f.base) THEN 1 ELSE 0)
         + Cardinality(f.mods \cap {"ROT"}) + Cardinality({i \in 1 .. 2 : f.coding[i] # 16})
  ELSE IF is_rgb(req_base) /\ At(formats[req_base].bpp, 0) # At(formats[f.base].bpp, 0) THEN 0
  ELSE 1 + Cardinality(f.mods) + (IF is_afbc(f) THEN 1 ELSE 0)

\* The places of the compatible formats in the table.
Compatible == [old \in DOMAIN formats |->
                 {i \in DOMAIN get_all_base_formats : is_format_compatible(old, get_all_base_formats[i])}]

\* For each of them at most one pair of a grade and a format.
Graded(f, req_base) == {<<grade_format(x, req_base), x>> : x \in f}
Candidates(c, req_base) ==
  [i \in Compatible[req_base] |->
     {g \in Graded(get_supported_format(c, get_all_base_formats[i]), req_base) : g[1] > 0}]

\* A set of at most one format.  The requested base format is kept if no other
\* has a better grade, and for a CPU.
BestOf(c, found, req_base) ==
  LET all  == UNION {found[i] : i \in DOMAIN found}
      best == {g \in all : \A h \in all : h[1] <= g[1]}
      kept == {g \in all : g[2].base = req_base}
      first_best == {g \in best : \E i \in DOMAIN found :
                       g \in found[i] /\ \A j \in DOMAIN found : found[j] \cap best # {} => i <= j}
  IN IF kept \cap best = {} /\ "CPU" \notin c.prod \cup c.cons THEN first_best ELSE kept

get_best_format(c, req_base) ==
  {g[2] : g \in BestOf(c, Candidates(c, req_base), req_base)}

\* What select_best_format demands of a request.  The flags of the descriptor
\* are all set by the AIDL allocator, and none by the HIDL one.
Permitted(a) ==
  LET base == get_internal_format(a.hal) IN
  /\ base \in DOMAIN formats
  /\ a.usage \ Vendor \subseteq permitted_usage(base)
  /\ get_producers(a.usage) # {} \/ get_consumers(a.usage) # {}
  /\ ~ (gralloc_usage_is_no_afbc(a.usage) /\ is_yuv(base))
  /\ ~a.aidl => /\ "GPU_DATA_BUFFER" \in a.usage => base = "BLOB"
                /\ "FRONTBUFFER" \notin a.usage
                /\ base # "R8"

select_best_format(a) ==
  IF Permitted(a) THEN get_best_format(Context(a), get_internal_format(a.hal)) ELSE {}

\* A private format names its modifiers: they need only suit the base format.
check_modifiers_against_format(f) ==
  LET is == formats[f.base].is IN
  \/ "AFRC" \in f.mods /\ "afrc" \in is
  \/ f.mods = {} \/ ("BLOCK_LINEAR" \in f.mods /\ "block_linear" \in is)
  \/ is_afbc(f) /\ "afbc" \in is /\ (formats[f.base].npln = 1 \/ {"64x4", "TILED"} \subseteq f.mods)

select_forced_format(a) ==
  LET base == get_internal_format(a.hal) IN
  IF base \in DOMAIN formats /\ check_modifiers_against_format(Format(base, a.mods, a.coding))
  THEN {Format(base, a.mods, a.coding)} ELSE {}

mali_gralloc_select_format(a) ==
  IF ~ (a.usage \subseteq Standard \cup Vendor) THEN {}
  ELSE IF a.private THEN select_forced_format(a) ELSE select_best_format(a)

-----------------------------------------------------------------------------
(* How the two tables belong together, row by row.  None of this is stated in *)
(* the code, and the selection relies on all of it.                           *)

\* Who may write, and who may read, in a row of the support table.
Writers == {"CPU", "GPU", "DPU", "DPU_AEU", "VPU", "CAM"}
Readers == {"CPU", "GPU", "DPU", "VPU"}

\* Every format has one to three planes, a blob is no picture, and the list of
\* all formats names formats only, all of them, and each once.
ASSUME FormatsAssumption ==
  /\ \A base \in DOMAIN formats : formats[base].npln \in 1 .. 3
  /\ ~is_yuv("BLOB") /\ ~is_rgb("BLOB")
  /\ DOMAIN get_all_base_formats = 1 .. Len(get_all_base_formats)
  /\ DOMAIN formats = {get_all_base_formats[i] : i \in DOMAIN get_all_base_formats}
  /\ \A i, j \in DOMAIN get_all_base_formats :
       get_all_base_formats[i] = get_all_base_formats[j] => i = j

\* What some IP writes linearly is a linear format.
ASSUME LinearAssumption ==
  \A base \in DOMAIN formats : \A ip \in Writers :
    "LIN" \in get_format_ip_support(base).wr[ip] => "linear" \in formats[base].is

\* RGBA_16161616 is linear for all IPs that know it.
ASSUME HalfFloatAssumption ==
  LET row == get_format_ip_support("RGBA_16161616") IN
  /\ \A ip \in Writers : row.wr[ip] # {} => "LIN" \in row.wr[ip]
  /\ \A ip \in Readers : row.rd[ip] # {} => "LIN" \in row.rd[ip]

\* A compressible format is YUV, RGB of 24 bits or more, or RGB_565.
ASSUME CompressibleAssumption ==
  \A base \in DOMAIN formats :
    "afbc" \in formats[base].is /\ ~is_yuv(base) /\ base # "RGB_565" =>
      is_rgb(base) /\ At(formats[base].bpp, 0) >= 24

\* Of a format the DPU reads linearly, an IP that has AFBC has linear, too.  (Not
\* the AEU of the DPU, the only producer of what it writes.)
ASSUME DisplayAssumption ==
  \A base \in DOMAIN formats :
    LET row == get_format_ip_support(base) IN
    "LIN" \in row.rd["DPU"] =>
      /\ \A ip \in Writers \ {"DPU_AEU"} : "AFBC" \in row.wr[ip] => "LIN" \in row.wr[ip]
      /\ \A ip \in Readers : "AFBC" \in row.rd[ip] => "LIN" \in row.rd[ip]

-----------------------------------------------------------------------------
(* Selection and derivation together.                                       *)

ArmInit == Init /\ asked = NoAsk

\* The descriptor with the format selected.
Request(a, f) ==
  [base |-> f.base, mods |-> f.mods, coding |-> f.coding, usage |-> a.usage,
   width |-> a.width, height |-> a.height, layers |-> a.layers]

\* mali_gralloc_derive_format_and_size goes on with it, or answers -EINVAL.
GoOn(a, selected) ==
  \/ /\ selected = {}
     /\ pc' = "end" /\ UNCHANGED req
  \/ pc' = "derive" /\ req' \in {Request(a, f) : f \in selected}

Select(a) ==
  /\ asked' = a
  /\ GoOn(a, mali_gralloc_select_format(a))
  /\ UNCHANGED <<plane, plane_info, size, pixel_stride, headers, first>>

ArmNext ==
  \/ pc = "idle" /\ \E a \in Asks : Select(a)
  \/ Next /\ asked' = IF pc' = "idle" THEN NoAsk ELSE asked

ArmSpec == ArmInit /\ [][ArmNext]_armVars

-----------------------------------------------------------------------------
(* Properties.                                                              *)

Chosen  == pc = "derive" /\ asked # NoAsk /\ ~asked.private
Refused == pc = "end" /\ plane = 0 /\ asked # NoAsk /\ ~asked.private

\* The two tables and the capabilities agree with the allocator: a format that
\* select_best_format picks is never refused by get_alloc_type or
\* validate_format, which refuse a blob of more than one row only.
AllocatorAccepts ==
  Chosen /\ (req.base = "BLOB" => req.height = 1) => get_alloc_type(req) /\ validate_format(req)

Layout == IF is_afbc(req) THEN "AFBC" ELSE IF is_afrc(req) THEN "AFRC"
          ELSE IF is_block_linear(req) THEN "BL_YUV" ELSE "LIN"

\* The features an IP needs for the format, and for its modifiers.
BaseNeeds ==
       {x \in {"FORMAT_R10G10B10A2"} : req.base = "RGBA_1010102"}
  \cup {x \in {"FORMAT_R16G16B16A16_FLOAT"} : req.base = "RGBA_16161616"}
ModNeeds ==
       {x \in {"AFBC_16X16"} : is_afbc(req)}
  \cup {x \in {"AFBC_YUV"} : is_afbc(req) /\ is_yuv(req.base)}
  \cup {x \in {"AFBC_FORMAT_R16G16B16A16_FLOAT"} : is_afbc(req) /\ req.base = "RGBA_16161616"}
  \cup {x \in {"AFBC_32X8"} : "32x8" \in req.mods}
  \cup {x \in {"AFBC_BLOCK_SPLIT"} : "SPLIT" \in req.mods}
  \cup {x \in {"AFBC_TILED_HEADERS"} : "TILED" \in req.mods}
  \cup {x \in {"AFBC_DOUBLE_BODY"} : "DOUBLE_BODY" \in req.mods}
  \cup {x \in {"AFRC_ROT_LAYOUT"} : "ROT" \in req.mods}
  \cup {x \in {"AFRC_SCAN_LAYOUT"} : is_afrc(req) /\ "ROT" \notin req.mods}
  \cup {x \in {"YUV_BL_8"} : is_block_linear(req) /\ bps(req.base) = 8}
  \cup {x \in {"YUV_BL_10"} : is_block_linear(req) /\ bps(req.base) = 10}

\* Everyone who writes or reads the buffer can: the support table grants the
\* layout, and the capabilities the format and every modifier.  A DPU is passed
\* over only when the GPU can compose in its place.
EveryIpCan ==
  Chosen =>
    LET row  == get_format_ip_support(req.base)
        c    == Context(asked)
        must == IF "GPU" \in c.cons THEN c.cons \ {"DPU"} ELSE c.cons IN
    /\ \A ip \in c.prod :
         /\ Layout \in row.wr[ip]
         /\ \A x \in BaseNeeds \cup ModNeeds : Allows(asked.device, ip, x, Write)
         /\ is_afbc(req) /\ "SPARSE" \notin req.mods =>
              Allows(asked.device, ip, "AFBC_WRITE_NON_SPARSE", Write)
    /\ \A ip \in must :
         /\ Layout \in row.rd[ip]
         /\ \A x \in BaseNeeds \cup ModNeeds : Allows(asked.device, ip, x, Read)

\* A format that everyone involved can use linearly is always allocated: no
\* compression that falls through, no missing modifier and no other base format
\* turns a request that is permitted into a refusal.
LinearServed ==
  Refused /\ Permitted(asked) =>
    LET base == get_internal_format(asked.hal)
        c    == Context(asked)
        row  == get_format_ip_support(base) IN
    ~ /\ \A ip \in c.prod : "LIN" \in row.wr[ip]
      /\ \A ip \in c.cons : "LIN" \in row.rd[ip]
      /\ base = "RGBA_1010102" => support(c, "FORMAT_R10G10B10A2")
      /\ base = "RGBA_16161616" => support(c, "FORMAT_R16G16B16A16_FLOAT")
      /\ base = "BLOB" => asked.height = 1

\* The front buffer of a display is double-buffered inside when compressed: on
\* a device whose IPs have tiled headers wherever they have double bodies, and
\* with a base format the DPU can read linearly too, AFBC for a front buffer has
\* both.  (is_format_supported asks for double bodies only, and not even for them
\* of a DPU that cannot read the base format, in whose place the GPU composes.)
FrontBufferSafe ==
  /\ Chosen /\ gralloc_usage_is_frontbuffer(asked.usage) /\ is_afbc(req)
  /\ LET c == Context(asked) IN
     /\ \A ip \in c.prod : Allows(c.device, ip, "AFBC_DOUBLE_BODY", Write)
                             => Allows(c.device, ip, "AFBC_TILED_HEADERS", Write)
     /\ \A ip \in c.cons : Allows(c.device, ip, "AFBC_DOUBLE_BODY", Read)
                             => Allows(c.device, ip, "AFBC_TILED_HEADERS", Read)
     /\ "DPU" \in c.cons => /\ "LIN" \in get_format_ip_support(req.base).rd["DPU"]
                            /\ \A x \in BaseNeeds : Allows(c.device, "DPU", x, Read)
  => is_frontbuffer_safe(req)

\* The rules of the AFBC specification that the comments of
\* validate_afbc_format and get_afbc_format cite hold of what is selected,
\* whatever the capabilities: no wide blocks with a double body, split blocks
\* with wide ones unless the format is subsampled or RGB_565, 16x16 without
\* split blocks for YUV from a GPU, split blocks for a DPU only with RGB of 24
\* bits or more.
AfbcWellFormed ==
  Chosen /\ is_afbc(req) =>
    LET base == req.base  mods == req.mods  c == Context(asked) IN
    /\ "DOUBLE_BODY" \in mods => "TILED" \in mods /\ "32x8" \notin mods
    /\ "32x8" \in mods =>
         (IF is_subsampled_yuv(base) \/ base = "RGB_565" THEN "SPLIT" \notin mods
          ELSE "SPLIT" \in mods)
    /\ is_yuv(base) /\ "GPU" \in c.prod => mods \cap {"32x8", "SPLIT"} = {}
    /\ "SPLIT" \in mods /\ "DPU" \in c.cons => is_rgb(base) /\ At(formats[base].bpp, 0) >= 24

\* The corrections that validate_afbc_format applies in turn do not undo each
\* other: the modifiers selected are well formed, and those of a front buffer
\* safe.
AfbcSound == AfbcWellFormed /\ FrontBufferSafe
=============================================================================
