------------------------- MODULE ArmSelectionProofs -------------------------
(***************************************************************************)
(* Proofs about ArmSelection, for every directory of capability files and    *)
(* every set of requests: what select_best_format picks is accepted by the    *)
(* allocator, usable by everyone involved, and well-formed AFBC.              *)
(*                                                                          *)
(* First what the operators of the selection return, one lemma for each, from *)
(* the support table upwards; then the state invariants that tie the request  *)
(* being derived to what was selected for it.                                *)
(***************************************************************************)
EXTENDS BufferQueries, FiniteSetTheorems, WellFoundedInduction, TLAPS

-----------------------------------------------------------------------------
(* Who writes and reads, and what the support table grants them.            *)

\* Producers and consumers are columns of the support table, a buffer always
\* has a producer, and what the GPU reads does not come from the AEU.
LEMMA Parties ==
  ASSUME NEW u
  PROVE  /\ Producers(u) \subseteq Writers /\ Producers(u) # {}
         /\ get_consumers(u) \subseteq Readers
         /\ "GPU" \in get_consumers(u) => "DPU_AEU" \notin Producers(u)
  BY DEF Producers, get_producers, get_consumers, Writers, Readers

\* A layout x of a base format that producers P and consumers C all have: in the
\* support table, and by their capabilities.
Serves(d, P, C, u, base, x) ==
  LET row  == get_format_ip_support(base)
      all(feature) == feature \in Features /\ ip_support_feature(d, P, C, feature) IN
  /\ \A ip \in P : x \in row.wr[ip]
  /\ \A ip \in C : x \in row.rd[ip]
  /\ base = "RGBA_1010102"  => all("FORMAT_R10G10B10A2")
  /\ base = "RGBA_16161616" => all("FORMAT_R16G16B16A16_FLOAT")
  /\ x = "AFBC" => /\ "afbc" \in formats[base].is /\ all("AFBC_16X16")
                   /\ is_yuv(base) => all("AFBC_YUV")
                   /\ base = "RGBA_16161616" => all("AFBC_FORMAT_R16G16B16A16_FLOAT")
                   /\ gralloc_usage_is_frontbuffer(u) => all("AFBC_DOUBLE_BODY")
  /\ x = "AFRC" => "afrc" \in formats[base].is
  /\ x = "BL_YUV" => /\ "block_linear" \in formats[base].is
                     /\ bps(base) = 8  => all("YUV_BL_8")
                     /\ bps(base) = 10 => all("YUV_BL_10")

\* What a context supports is what all its parties have.
LEMMA SupportIs ==
  ASSUME NEW u, NEW d, NEW P, NEW C, NEW x
  PROVE  support(ContextOf(u, d, P, C), x) <=> x \in Features /\ ip_support_feature(d, P, C, x)
  BY DEF support, ContextOf

\* is_format_supported answers only layouts that serve everyone.
LEMMA SupportedServes ==
  ASSUME NEW u, NEW d, NEW P, NEW C, NEW base, NEW x,
         P \subseteq Writers, C \subseteq Readers,
         x \in is_format_supported(ContextOf(u, d, P, C), base)
  PROVE  Serves(d, P, C, u, base, x)
<1> DEFINE c     == ContextOf(u, d, P, C)
           table == usage_supports_base_format(c, ip_supports_base_format(c, base))
           row   == get_format_ip_support(base)
           flags == {f \in table : /\ f = "AFBC"   => AfbcEnabled(c, base)
                                   /\ f = "AFRC"   => AfrcEnabled(c, base)
                                   /\ f = "BL_YUV" => BlEnabled(c, base)}
<1>1. \A f \in table : /\ \A ip \in P : f \in row.wr[ip]
                       /\ \A ip \in C : f \in row.rd[ip]
  BY DEF usage_supports_base_format, ip_supports_base_format, ContextOf
<1>2. /\ flags # {}
      /\ base = "RGBA_1010102"  => support(c, "FORMAT_R10G10B10A2")
      /\ base = "RGBA_16161616" => support(c, "FORMAT_R16G16B16A16_FLOAT")
      /\ IF base = "RGBA_16161616" /\ ~support(c, "AFBC_FORMAT_R16G16B16A16_FLOAT")
         THEN x = "LIN" ELSE x \in flags
  BY Zenon DEF is_format_supported
<1>3. /\ \A ip \in P : x \in row.wr[ip]
      /\ \A ip \in C : x \in row.rd[ip]
  <2>1. CASE base = "RGBA_16161616" /\ x = "LIN"
    <3>1. PICK f : f \in flags
      BY <1>2
    <3>2. /\ \A ip \in P : f \in row.wr[ip]
          /\ \A ip \in C : f \in row.rd[ip]
      BY <3>1, <1>1
    <3> QED
      BY <3>2, <2>1, HalfFloatAssumption
  <2>2. CASE x \in flags
    BY <2>2, <1>1
  <2> QED
    BY <2>1, <2>2, <1>2
<1>4. x # "LIN" => x \in flags
  BY <1>2
<1>5. x = "AFBC" => AfbcEnabled(c, base)
  BY <1>4
<1>6. x = "AFRC" => AfrcEnabled(c, base)
  BY <1>4
<1>7. x = "BL_YUV" => BlEnabled(c, base)
  BY <1>4
<1>8. gralloc_usage_is_frontbuffer(c.usage) = gralloc_usage_is_frontbuffer(u)
  BY DEF ContextOf
<1>9. x = "AFBC" /\ base = "RGBA_16161616" => support(c, "AFBC_FORMAT_R16G16B16A16_FLOAT")
  BY <1>2
<1> HIDE DEF c, table, row, flags
<1> QED
  BY <1>2, <1>3, <1>5, <1>6, <1>7, <1>8, <1>9, SupportIs, Zenon
     DEF Serves, AfbcEnabled, AfrcEnabled, BlEnabled, c, row

\* The consumers that are served: all, or without the DPU, in whose place the
\* GPU composes.
LEMMA FlagsServe ==
  ASSUME NEW u, NEW d, NEW P, NEW C, NEW base, NEW x,
         P \subseteq Writers, C \subseteq Readers,
         x \in SupportedFlags(ContextOf(u, d, P, C), base)
  PROVE  \/ Serves(d, P, C, u, base, x)
         \/ /\ is_format_supported(ContextOf(u, d, P, C), base) = {}
            /\ "GPU" \in C /\ "DPU" \in C
            /\ Serves(d, P, C \ {"DPU"}, u, base, x)
<1> DEFINE c == ContextOf(u, d, P, C)
<1>1. /\ c.usage = u /\ c.device = d /\ c.prod = P /\ c.cons = C
  BY DEF ContextOf
<1>2. \/ x \in is_format_supported(c, base)
      \/ /\ is_format_supported(c, base) = {} /\ {"GPU", "DPU"} \subseteq C
         /\ x \in is_format_supported(ContextOf(u, d, P, C \ {"DPU"}), base)
  BY <1>1, Zenon DEF SupportedFlags
<1> HIDE DEF c
<1>3. x \in is_format_supported(c, base) => Serves(d, P, C, u, base, x)
  BY SupportedServes, Zenon DEF c
<1>4. C \ {"DPU"} \subseteq Readers
  OBVIOUS
<1>5. x \in is_format_supported(ContextOf(u, d, P, C \ {"DPU"}), base)
        => Serves(d, P, C \ {"DPU"}, u, base, x)
  BY <1>4, SupportedServes, Zenon
<1> QED
  BY <1>2, <1>3, <1>5 DEF c

\* Serving more consumers is serving fewer.
LEMMA ServesFewer ==
  ASSUME NEW d, NEW P, NEW C, NEW K \in SUBSET C, NEW u, NEW base, NEW x,
         Serves(d, P, C, u, base, x)
  PROVE  Serves(d, P, K, u, base, x)
<1>1. \A y : ip_support_feature(d, P, C, y) => ip_support_feature(d, P, K, y)
  BY DEF ip_support_feature
<1> QED
  BY <1>1, Zenon DEF Serves

-----------------------------------------------------------------------------
(* The modifiers of each layout.                                            *)

\* AFRC: scan or rotatable layout, as everyone has it, and coding sizes that the
\* allocator knows.
LEMMA AfrcIs ==
  ASSUME NEW u, NEW d, NEW P, NEW C, NEW base,
         is_afrc(get_afrc_format(ContextOf(u, d, P, C), base))
  PROVE  LET f == get_afrc_format(ContextOf(u, d, P, C), base) IN
         /\ f.base = base
         /\ \/ f.mods = {"AFRC", "ROT"} /\ ip_support_feature(d, P, C, "AFRC_ROT_LAYOUT")
            \/ f.mods = {"AFRC"} /\ ip_support_feature(d, P, C, "AFRC_SCAN_LAYOUT")
         /\ f.coding[1] \in {16, 24, 32} /\ f.coding[2] \in {16, 24, 32}
<1> DEFINE c == ContextOf(u, d, P, C)
           luma == luma_coding_size(c.usage)
           chroma_size == chroma_coding_size(c.usage)
           f == get_afrc_format(c, base)
           rot == support(c, "AFRC_ROT_LAYOUT")
           usable == /\ rot \/ support(c, "AFRC_SCAN_LAYOUT")
                     /\ luma # 0
                     /\ is_yuv(base) <=> chroma_size # 0
<1>1. luma \in {0, 16, 24, 32} /\ chroma_size \in {0, 16, 24, 32}
  BY DEF luma_coding_size, chroma_coding_size
<1>2. f = IF usable THEN Format(base, IF rot THEN {"AFRC", "ROT"} ELSE {"AFRC"},
                                <<luma, IF is_yuv(base) THEN chroma_size ELSE 16>>)
          ELSE Linear(base)
  BY Zenon DEF get_afrc_format
<1>3. is_afrc(f)
  OBVIOUS
<1>4. /\ rot <=> "AFRC_ROT_LAYOUT" \in Features /\ ip_support_feature(d, P, C, "AFRC_ROT_LAYOUT")
      /\ support(c, "AFRC_SCAN_LAYOUT") => ip_support_feature(d, P, C, "AFRC_SCAN_LAYOUT")
  BY SupportIs, Zenon
<1> HIDE DEF c, luma, chroma_size, f, rot
<1>5. usable
  <2> SUFFICES ASSUME ~usable PROVE FALSE
    OBVIOUS
  <2>1. f = Linear(base)
    BY <1>2, Zenon
  <2> QED
    BY <2>1, <1>3 DEF is_afrc, Linear, Format
<1>6. f = Format(base, IF rot THEN {"AFRC", "ROT"} ELSE {"AFRC"},
                       <<luma, IF is_yuv(base) THEN chroma_size ELSE 16>>)
  BY <1>2, <1>5, Zenon
<1>7. /\ f.base = base /\ f.mods = IF rot THEN {"AFRC", "ROT"} ELSE {"AFRC"}
      /\ f.coding = <<luma, IF is_yuv(base) THEN chroma_size ELSE 16>>
  BY <1>6 DEF Format
<1>8. f.coding[1] \in {16, 24, 32} /\ f.coding[2] \in {16, 24, 32}
  BY <1>1, <1>5, <1>7
<1>9. \/ f.mods = {"AFRC", "ROT"} /\ ip_support_feature(d, P, C, "AFRC_ROT_LAYOUT")
      \/ f.mods = {"AFRC"} /\ ip_support_feature(d, P, C, "AFRC_SCAN_LAYOUT")
  BY <1>4, <1>5, <1>7
<1> QED
  BY <1>7, <1>8, <1>9 DEF f, c

\* AFBC: which modifiers come out of get_afbc_format and the corrections of
\* validate_afbc_format, taken one after the other.
LEMMA AfbcIs ==
  ASSUME NEW c, NEW base, is_afbc(get_afbc_format(c, base))
  PROVE  LET f == get_afbc_format(c, base) IN
         /\ f.base = base
         /\ f.mods \subseteq {"AFBC", "YTR", "SPARSE", "TILED", "DOUBLE_BODY", "32x8", "SPLIT"}
         /\ "TILED" \in f.mods <=> support(c, "AFBC_TILED_HEADERS")
         /\ "DOUBLE_BODY" \in f.mods <=> /\ support(c, "AFBC_TILED_HEADERS")
                                         /\ gralloc_usage_is_frontbuffer(c.usage)
                                         /\ support(c, "AFBC_DOUBLE_BODY")
         /\ "SPARSE" \notin f.mods => NonSparse(c)
         /\ "32x8" \in f.mods => /\ support(c, "AFBC_32X8") /\ ~is_yuv(base)
                                 /\ "DOUBLE_BODY" \notin f.mods
                                 /\ "SPLIT" \in f.mods <=> base # "RGB_565"
         /\ "SPLIT" \in f.mods => /\ support(c, "AFBC_BLOCK_SPLIT") /\ ~is_yuv(base)
                                  /\ base # "RGB_565"
<1> DEFINE f    == get_afbc_format(c, base)
           All  == {"AFBC", "YTR", "SPARSE", "TILED", "DOUBLE_BODY", "32x8", "SPLIT"}
           m0   == {"AFBC"} \cup {m \in {"YTR"} : base \in yuv_transform}
                       \cup {m \in {"SPARSE"} : ~NonSparse(c)}
                       \cup BodyMods(c) \cup DisplayMods(c, base)
           m1   == IF "DOUBLE_BODY" \in m0 THEN m0 \ {"32x8", "64x4"} ELSE m0
           m2   == IF {"32x8", "SPLIT"} \subseteq m1 /\ is_subsampled_yuv(base)
                   THEN m1 \ {"SPLIT"} ELSE m1
           m3   == WideNeedsSplit(c, base, m2)
           m4   == IF base = "RGB_565" THEN m3 \ {"SPLIT"} ELSE m3
           m5   == IF ~support(c, "AFBC_16X16") THEN {}
                   ELSE {x \in m4 : /\ x = "SPLIT" => support(c, "AFBC_BLOCK_SPLIT")
                                    /\ x = "32x8"  => support(c, "AFBC_32X8")
                                    /\ x = "TILED" => support(c, "AFBC_TILED_HEADERS")}
           m6   == IF NonSparse(c) THEN m5 ELSE m5 \cup {"SPARSE"}
           usable == /\ is_yuv(base) =>
                          /\ c.cons # {} => ip_support_feature(c.device, {}, c.cons, "AFBC_YUV")
                          /\ ip_support_feature(c.device, c.prod, {}, "AFBC_YUV")
                     /\ ~ ("VPU" \in c.prod /\ "VPU" \in c.cons)
                     /\ support(c, "AFBC_16X16")
<1>1. m6 = validate_afbc_format(c, base, m0)
  BY Zenon DEF validate_afbc_format
<1>2. f = IF usable THEN Format(base, validate_afbc_format(c, base, m0), <<16, 16>>) ELSE Linear(base)
  BY Zenon DEF get_afbc_format
<1>3. /\ m0 \subseteq All
      /\ "TILED" \in m0 <=> support(c, "AFBC_TILED_HEADERS")
      /\ "DOUBLE_BODY" \in m0 <=> /\ support(c, "AFBC_TILED_HEADERS")
                                  /\ gralloc_usage_is_frontbuffer(c.usage)
                                  /\ support(c, "AFBC_DOUBLE_BODY")
      /\ "32x8" \in m0 => support(c, "AFBC_32X8") /\ ~is_yuv(base)
      /\ "SPLIT" \in m0 => support(c, "AFBC_BLOCK_SPLIT") /\ ~is_yuv(base)
  BY DEF BodyMods, DisplayMods
<1> HIDE DEF f, m0, usable
<1>4. is_afbc(f)
  BY DEF f
<1>5. usable
  <2> SUFFICES ASSUME ~usable PROVE FALSE
    OBVIOUS
  <2>1. f = Linear(base)
    BY <1>2, Zenon
  <2> QED
    BY <2>1, <1>4 DEF is_afbc, Linear, Format
<1>6. f = Format(base, m6, <<16, 16>>)
  BY <1>1, <1>2, <1>5, Zenon
<1>7. f.base = base /\ f.mods = m6
  BY <1>6 DEF Format
<1>8. support(c, "AFBC_16X16")
  BY <1>5 DEF usable
<1>9. /\ m1 \subseteq m0
      /\ \A x \in m0 : x \notin {"32x8", "64x4"} => x \in m1
      /\ "DOUBLE_BODY" \in m0 => "32x8" \notin m1
  BY Zenon
<1> HIDE DEF m1
<1>10. /\ m2 \subseteq m1
       /\ \A x \in m1 : x # "SPLIT" => x \in m2
  BY Zenon
<1>11. is_subsampled_yuv(base) => is_yuv(base)
  BY DEF is_subsampled_yuv
<1> HIDE DEF m2
<1>12. /\ m3 \subseteq m2 \cup {"SPLIT"}
       /\ \A x \in m2 : x # "32x8" => x \in m3
       /\ "SPLIT" \in m3 => "SPLIT" \in m2 \/ (support(c, "AFBC_BLOCK_SPLIT") /\ "32x8" \in m2)
       /\ "32x8" \in m3 /\ ~is_subsampled_yuv(base) /\ base # "RGB_565" => "SPLIT" \in m3
  BY DEF WideNeedsSplit
<1> HIDE DEF m3
<1>13. /\ m4 \subseteq m3
       /\ \A x \in m3 : x # "SPLIT" \/ base # "RGB_565" => x \in m4
       /\ base = "RGB_565" => "SPLIT" \notin m4
  BY Zenon
<1> HIDE DEF m4
<1>14. \A x : x \in m5 <=> /\ x \in m4
                           /\ x = "SPLIT" => support(c, "AFBC_BLOCK_SPLIT")
                           /\ x = "32x8"  => support(c, "AFBC_32X8")
                           /\ x = "TILED" => support(c, "AFBC_TILED_HEADERS")
  BY <1>8, Zenon
<1> HIDE DEF m5
<1>15. \A x : x \in m6 <=> x \in m5 \/ (x = "SPARSE" /\ ~NonSparse(c))
  BY Zenon
<1> HIDE DEF m6
<1>16. m6 \subseteq All
  BY <1>3, <1>9, <1>10, <1>12, <1>13, <1>14, <1>15
<1>17. "TILED" \in m6 <=> support(c, "AFBC_TILED_HEADERS")
  BY <1>3, <1>9, <1>10, <1>12, <1>13, <1>14, <1>15
<1>18. "DOUBLE_BODY" \in m6 <=> "DOUBLE_BODY" \in m0
  BY <1>3, <1>9, <1>10, <1>12, <1>13, <1>14, <1>15
<1>19. "SPARSE" \notin m6 => NonSparse(c)
  BY <1>15
<1>20. "32x8" \in m6 => /\ support(c, "AFBC_32X8") /\ ~is_yuv(base)
                        /\ "DOUBLE_BODY" \notin m6
                        /\ "SPLIT" \in m6 <=> base # "RGB_565"
  BY <1>3, <1>9, <1>10, <1>11, <1>12, <1>13, <1>14, <1>15, <1>18
<1>21. "SPLIT" \in m6 => /\ support(c, "AFBC_BLOCK_SPLIT") /\ ~is_yuv(base)
                         /\ base # "RGB_565"
  BY <1>3, <1>9, <1>10, <1>12, <1>13, <1>14, <1>15
<1> QED
  BY <1>3, <1>7, <1>16, <1>17, <1>18, <1>19, <1>20, <1>21 DEF f

-----------------------------------------------------------------------------
(* What is selected.                                                        *)

\* A format of layout x, picked because everyone supports the layout.
Picked(c, base, x, f) ==
  /\ x \in SupportedFlags(c, base)
  /\ f.base = base
  /\ \/ x = "AFRC" /\ is_afrc(f) /\ f = get_afrc_format(c, base)
     \/ /\ x = "AFBC" /\ is_afbc(f) /\ f = get_afbc_format(c, base)
        /\ get_alloc_type(f) /\ (formats[base].npln = 1 \/ is_multi_plane(f))
     \/ x = "BL_YUV" /\ f.mods = {"BLOCK_LINEAR"}
     \/ x = "LIN" /\ f.mods = {}

\* get_supported_format answers a picked format.
LEMMA SupportedPicked ==
  ASSUME NEW u, NEW d, NEW P, NEW C, NEW base,
         NEW f \in get_supported_format(ContextOf(u, d, P, C), base)
  PROVE  \E x \in {"AFRC", "AFBC", "BL_YUV", "LIN"} : Picked(ContextOf(u, d, P, C), base, x, f)
<1> DEFINE c     == ContextOf(u, d, P, C)
           flags == SupportedFlags(c, base)
           afrc  == get_afrc_format(c, base)
           afbc  == get_afbc_format(c, base)
           bl    == get_bl_format(c, base)
<1>1. f \in FirstOf(c, base, flags, afrc, afbc, bl)
  BY DEF get_supported_format
<1>2. is_afrc(afrc) => afrc.base = base
  BY AfrcIs
<1> HIDE DEF c
<1>3. is_afbc(afbc) => afbc.base = base
  BY AfbcIs, Zenon
<1>4. is_block_linear(bl) => bl.base = base /\ bl.mods = {"BLOCK_LINEAR"}
  BY DEF get_bl_format, is_block_linear, Format, Linear
<1> HIDE DEF flags, afrc, afbc, bl
<1>5. \/ "AFRC" \in flags /\ is_afrc(afrc) /\ f = afrc
      \/ /\ "AFBC" \in flags /\ is_afbc(afbc) /\ f = afbc
         /\ get_alloc_type(afbc) /\ (formats[base].npln = 1 \/ is_multi_plane(afbc))
      \/ "BL_YUV" \in flags /\ is_block_linear(bl) /\ f = bl
      \/ "LIN" \in flags /\ f = Linear(base)
  BY <1>1, Zenon DEF FirstOf
<1>6. Linear(base).base = base /\ Linear(base).mods = {}
  BY DEF Linear, Format
<1>7. CASE "AFRC" \in flags /\ is_afrc(afrc) /\ f = afrc
  BY <1>7, <1>2, Zenon DEF Picked, flags, afrc, c
<1>8. CASE /\ "AFBC" \in flags /\ is_afbc(afbc) /\ f = afbc
           /\ get_alloc_type(afbc) /\ (formats[base].npln = 1 \/ is_multi_plane(afbc))
  BY <1>8, <1>3, Zenon DEF Picked, flags, afbc, c
<1>9. CASE "BL_YUV" \in flags /\ is_block_linear(bl) /\ f = bl
  BY <1>9, <1>4, Zenon DEF Picked, flags, c
<1>10. CASE "LIN" \in flags /\ f = Linear(base)
  BY <1>10, <1>6, Zenon DEF Picked, flags, c
<1> QED
  BY <1>5, <1>7, <1>8, <1>9, <1>10

\* Whatever its grade, the best format is one that everyone supports.
LEMMA BestSupported ==
  ASSUME NEW c, NEW old \in DOMAIN formats, NEW f \in get_best_format(c, old)
  PROVE  \E base \in DOMAIN formats : /\ is_format_compatible(old, base)
                                      /\ f \in get_supported_format(c, base)
<1> DEFINE found == Candidates(c, old)
           all   == UNION {found[i] : i \in DOMAIN found}
<1>1. PICK g \in BestOf(c, found, old) : f = g[2]
  BY DEF get_best_format
<1>2. BestOf(c, found, old) \subseteq all
  BY Zenon DEF BestOf
<1>3. PICK i \in DOMAIN found : g \in found[i]
  BY <1>1, <1>2
<1>4. /\ DOMAIN found = Compatible[old]
      /\ \A j \in Compatible[old] :
           found[j] = {h \in Graded(get_supported_format(c, get_all_base_formats[j]), old) : h[1] > 0}
  BY DEF Candidates
<1> DEFINE base == get_all_base_formats[i]
<1> HIDE DEF found
<1>5. g \in Graded(get_supported_format(c, base), old)
  BY <1>3, <1>4
<1>6. PICK x \in get_supported_format(c, base) : g = <<grade_format(x, old), x>>
  BY <1>5, Zenon DEF Graded
<1>7. x = f
  BY <1>1, <1>6
<1>8. i \in DOMAIN get_all_base_formats /\ is_format_compatible(old, base)
  BY <1>3, <1>4 DEF Compatible
<1>9. base \in DOMAIN formats
  BY <1>8, FormatsAssumption
<1> QED
  BY <1>6, <1>7, <1>8, <1>9

\* The request derived for a selection was picked for a base format that suits
\* the requested one.
LEMMA SelectionPicked ==
  ASSUME NEW a, NEW f \in mali_gralloc_select_format(a), ~a.private
  PROVE  /\ Permitted(a)
         /\ \E base \in DOMAIN formats : \E x \in {"AFRC", "AFBC", "BL_YUV", "LIN"} :
              is_format_compatible(get_internal_format(a.hal), base) /\ Picked(Context(a), base, x, f)
<1> DEFINE old == get_internal_format(a.hal)
<1>1. Permitted(a) /\ f \in get_best_format(Context(a), old)
  BY Zenon DEF mali_gralloc_select_format, select_best_format
<1>2. old \in DOMAIN formats
  BY <1>1 DEF Permitted
<1>3. PICK base \in DOMAIN formats : /\ is_format_compatible(old, base)
                                     /\ f \in get_supported_format(Context(a), base)
  BY <1>1, <1>2, BestSupported
<1>4. \E x \in {"AFRC", "AFBC", "BL_YUV", "LIN"} : Picked(Context(a), base, x, f)
  BY <1>3, SupportedPicked, Zenon DEF Context
<1> QED
  BY <1>1, <1>3, <1>4, Zenon

\* The consumers but a DPU that the GPU stands in for.
Must(C) == IF "GPU" \in C THEN C \ {"DPU"} ELSE C

\* A picked format serves the producers and these.
LEMMA PickedServes ==
  ASSUME NEW a, NEW base, NEW x, NEW f, Picked(Context(a), base, x, f)
  PROVE  Serves(a.device, Producers(a.usage), Must(get_consumers(a.usage)), a.usage, base, x)
<1> DEFINE P == Producers(a.usage)
           C == get_consumers(a.usage)
<1>1. P \subseteq Writers /\ C \subseteq Readers
  BY Parties
<1>2. x \in SupportedFlags(ContextOf(a.usage, a.device, P, C), base)
  BY Zenon DEF Picked, Context
<1> HIDE DEF P, C
<1>3. \/ Serves(a.device, P, C, a.usage, base, x)
      \/ "GPU" \in C /\ Serves(a.device, P, C \ {"DPU"}, a.usage, base, x)
  BY <1>1, <1>2, FlagsServe, Zenon
<1>4. Must(C) \in SUBSET C /\ ("GPU" \in C => Must(C) = C \ {"DPU"})
  BY DEF Must
<1> QED
  BY <1>3, <1>4, ServesFewer, Zenon DEF P, C

\* The fields of a request.
LEMMA RequestIs ==
  ASSUME NEW a, NEW f
  PROVE  LET r == Request(a, f) IN
         /\ r.base = f.base /\ r.mods = f.mods /\ r.coding = f.coding
         /\ r.usage = a.usage /\ r.width = a.width /\ r.height = a.height /\ r.layers = a.layers
  BY DEF Request

\* get_alloc_type and validate_format do not refuse a picked format, a blob of
\* more than one row excepted.
LEMMA PickedAccepted ==
  ASSUME NEW a, NEW base \in DOMAIN formats, NEW x, NEW f, Picked(Context(a), base, x, f),
         base = "BLOB" => a.height = 1
  PROVE  get_alloc_type(Request(a, f)) /\ validate_format(Request(a, f))
<1> DEFINE r == Request(a, f)
           P == Producers(a.usage)
<1>1. Serves(a.device, P, Must(get_consumers(a.usage)), a.usage, base, x)
  BY PickedServes, Zenon
<1>2. /\ r.base = base /\ r.mods = f.mods /\ r.coding = f.coding /\ r.height = a.height
      /\ f.base = base
  BY RequestIs DEF Picked
<1>3. formats[base].npln \in 1 .. 3
  BY FormatsAssumption
<1> SUFFICES get_alloc_type(r) /\ validate_format(r)
  OBVIOUS
<1> HIDE DEF r
<1>4. CASE x = "AFRC" /\ is_afrc(f) /\ f = get_afrc_format(Context(a), base)
  <2>1. /\ f.mods \in {{"AFRC", "ROT"}, {"AFRC"}}
        /\ f.coding[1] \in {16, 24, 32} /\ f.coding[2] \in {16, 24, 32}
    BY <1>4, AfrcIs DEF Context
  <2>2. "afrc" \in formats[base].is
    BY <1>1, <1>4 DEF Serves
  <2>3. is_afrc(r) /\ ~is_afbc(r) /\ ~is_block_linear(r)
    BY <2>1, <1>2 DEF is_afrc, is_afbc, is_block_linear
  <2>4. \A i \in 1 .. 2 : afrc_plane_alignment(r.coding[i]) # 0
    BY <2>1, <1>2 DEF afrc_plane_alignment
  <2> QED
    BY <2>2, <2>3, <2>4, <1>2 DEF get_alloc_type, validate_format, Uncompressed, Info
<1>5. CASE /\ x = "AFBC" /\ is_afbc(f) /\ f = get_afbc_format(Context(a), base)
           /\ get_alloc_type(f) /\ (formats[base].npln = 1 \/ is_multi_plane(f))
  <2>1. f.mods \subseteq {"AFBC", "YTR", "SPARSE", "TILED", "DOUBLE_BODY", "32x8", "SPLIT"}
    BY <1>5, AfbcIs
  <2>2. "afbc" \in formats[base].is
    BY <1>1, <1>5 DEF Serves
  <2>3. is_afbc(r) /\ ~is_afrc(r) /\ ~is_block_linear(r)
    BY <2>1, <1>2, <1>5 DEF is_afrc, is_afbc, is_block_linear
  <2>4. get_alloc_type(r)
    BY <1>2, <1>5 DEF get_alloc_type, Info, is_afbc, is_afrc, is_tiled
  <2>5. is_multi_plane(r) <=> formats[base].npln > 1
    BY <1>2, <1>3, <1>5 DEF is_multi_plane, Info, is_afbc
  <2> QED
    BY <2>2, <2>3, <2>4, <2>5, <1>2 DEF validate_format, Uncompressed, Info
<1>6. CASE x = "BL_YUV" /\ f.mods = {"BLOCK_LINEAR"}
  <2>1. "block_linear" \in formats[base].is
    BY <1>1, <1>6 DEF Serves
  <2>2. ~is_afbc(r) /\ ~is_afrc(r) /\ is_block_linear(r)
    BY <1>2, <1>6 DEF is_afrc, is_afbc, is_block_linear
  <2> QED
    BY <2>1, <2>2, <1>2 DEF get_alloc_type, validate_format, Uncompressed, Info
<1>7. CASE x = "LIN" /\ f.mods = {}
  <2>1. "linear" \in formats[base].is
    <3>1. PICK ip \in P : TRUE
      BY Parties
    <3>2. ip \in Writers /\ "LIN" \in get_format_ip_support(base).wr[ip]
      BY <3>1, <1>1, <1>7, Parties DEF Serves
    <3> QED
      BY <3>2, LinearAssumption
  <2>2. ~is_afbc(r) /\ ~is_afrc(r) /\ ~is_block_linear(r)
    BY <1>2, <1>7 DEF is_afrc, is_afbc, is_block_linear
  <2> QED
    BY <2>1, <2>2, <1>2 DEF get_alloc_type, validate_format, Uncompressed, Info
<1> QED
  BY <1>4, <1>5, <1>6, <1>7, Zenon DEF Picked

\* Everyone who must use a picked format can.
LEMMA PickedUsable ==
  ASSUME NEW base, NEW x, NEW f, Picked(Context(asked), base, x, f), req = Request(asked, f)
  PROVE  LET row == get_format_ip_support(req.base)
             P   == Producers(asked.usage)
             K   == Must(get_consumers(asked.usage)) IN
         /\ \A ip \in P : Layout \in row.wr[ip]
         /\ \A ip \in K : Layout \in row.rd[ip]
         /\ \A y \in BaseNeeds \cup ModNeeds : ip_support_feature(asked.device, P, K, y)
         /\ is_afbc(req) /\ "SPARSE" \notin req.mods =>
              \A ip \in P : Allows(asked.device, ip, "AFBC_WRITE_NON_SPARSE", Write)
<1> DEFINE row == get_format_ip_support(req.base)
           d   == asked.device
           P   == Producers(asked.usage)
           C   == get_consumers(asked.usage)
           K   == Must(C)
           c   == Context(asked)
           has(y) == ip_support_feature(d, P, K, y)
<1>1. Serves(d, P, K, asked.usage, base, x)
  BY PickedServes, Zenon
<1>2. req.base = base /\ req.mods = f.mods
  BY RequestIs DEF Picked
<1>3. \A y : ip_support_feature(d, P, C, y) => has(y)
  BY DEF ip_support_feature, Must
<1>4. \A y : support(c, y) => has(y)
  BY <1>3, SupportIs, Zenon DEF Context
<1>5. c.prod = P /\ c.device = d
  BY DEF Context, ContextOf
<1>6. NonSparse(c) => \A ip \in P : Allows(d, ip, "AFBC_WRITE_NON_SPARSE", Write)
  BY <1>5 DEF NonSparse, ip_support_feature
<1>7. \A y \in BaseNeeds : has(y)
  BY <1>1, <1>2 DEF Serves, BaseNeeds
<1>8. /\ \A ip \in P : x \in row.wr[ip]
      /\ \A ip \in K : x \in row.rd[ip]
  BY <1>1, <1>2 DEF Serves
<1>9. CASE x = "AFRC" /\ is_afrc(f) /\ f = get_afrc_format(c, base)
  <2>1. \/ f.mods = {"AFRC", "ROT"} /\ ip_support_feature(d, P, C, "AFRC_ROT_LAYOUT")
        \/ f.mods = {"AFRC"} /\ ip_support_feature(d, P, C, "AFRC_SCAN_LAYOUT")
    BY <1>9, AfrcIs DEF Context
  <2>2. is_afrc(req) /\ ~is_afbc(req) /\ ~is_block_linear(req)
    BY <2>1, <1>2 DEF is_afrc, is_afbc, is_block_linear
  <2>3. Layout = x
    BY <2>2, <1>9 DEF Layout
  <2>4. /\ "ROT" \in req.mods => has("AFRC_ROT_LAYOUT")
        /\ "ROT" \notin req.mods => has("AFRC_SCAN_LAYOUT")
        /\ req.mods \cap {"32x8", "SPLIT", "TILED", "DOUBLE_BODY"} = {}
    BY <2>1, <1>2, <1>3
  <2>5. \A y \in ModNeeds : has(y)
    BY <2>2, <2>4 DEF ModNeeds
  <2> QED
    BY <2>2, <2>3, <2>5, <1>7, <1>8
<1>10. CASE x = "AFBC" /\ is_afbc(f) /\ f = get_afbc_format(c, base)
  <2>1. /\ f.mods \subseteq {"AFBC", "YTR", "SPARSE", "TILED", "DOUBLE_BODY", "32x8", "SPLIT"}
        /\ "TILED" \in f.mods => support(c, "AFBC_TILED_HEADERS")
        /\ "DOUBLE_BODY" \in f.mods => support(c, "AFBC_DOUBLE_BODY")
        /\ "SPARSE" \notin f.mods => NonSparse(c)
        /\ "32x8" \in f.mods => support(c, "AFBC_32X8")
        /\ "SPLIT" \in f.mods => support(c, "AFBC_BLOCK_SPLIT")
    BY <1>10, AfbcIs
  <2>2. is_afbc(req) /\ ~is_afrc(req) /\ ~is_block_linear(req) /\ "ROT" \notin req.mods
    BY <2>1, <1>2, <1>10 DEF is_afrc, is_afbc, is_block_linear
  <2>3. Layout = x
    BY <2>2, <1>10 DEF Layout
  <2>4. /\ has("AFBC_16X16")
        /\ is_yuv(req.base) => has("AFBC_YUV")
        /\ req.base = "RGBA_16161616" => has("AFBC_FORMAT_R16G16B16A16_FLOAT")
    BY <1>1, <1>2, <1>10 DEF Serves
  <2>5. /\ "TILED" \in req.mods => has("AFBC_TILED_HEADERS")
        /\ "DOUBLE_BODY" \in req.mods => has("AFBC_DOUBLE_BODY")
        /\ "32x8" \in req.mods => has("AFBC_32X8")
        /\ "SPLIT" \in req.mods => has("AFBC_BLOCK_SPLIT")
    BY <2>1, <1>2, <1>4, Zenon
  <2> HIDE DEF has
  <2>6. \A y \in ModNeeds : has(y)
    BY <2>2, <2>4, <2>5 DEF ModNeeds
  <2> QED
    BY <2>1, <2>2, <2>3, <2>6, <1>2, <1>6, <1>7, <1>8 DEF has
<1>11. CASE x = "BL_YUV" /\ f.mods = {"BLOCK_LINEAR"}
  <2>1. ~is_afrc(req) /\ ~is_afbc(req) /\ is_block_linear(req) /\ req.mods = {"BLOCK_LINEAR"}
    BY <1>2, <1>11 DEF is_afrc, is_afbc, is_block_linear
  <2>2. Layout = x
    BY <2>1, <1>11 DEF Layout
  <2>3. /\ bps(req.base) = 8  => has("YUV_BL_8")
        /\ bps(req.base) = 10 => has("YUV_BL_10")
    BY <1>1, <1>2, <1>11 DEF Serves
  <2> HIDE DEF has
  <2>4. \A y \in ModNeeds : has(y)
    BY <2>1, <2>3 DEF ModNeeds
  <2> QED
    BY <2>1, <2>2, <2>4, <1>7, <1>8 DEF has
<1>12. CASE x = "LIN" /\ f.mods = {}
  <2>1. ~is_afrc(req) /\ ~is_afbc(req) /\ ~is_block_linear(req) /\ req.mods = {}
    BY <1>2, <1>12 DEF is_afrc, is_afbc, is_block_linear
  <2>2. Layout = x
    BY <2>1, <1>12 DEF Layout
  <2>3. ModNeeds = {}
    BY <2>1 DEF ModNeeds
  <2> QED
    BY <2>1, <2>2, <2>3, <1>7, <1>8
<1> QED
  BY <1>9, <1>10, <1>11, <1>12, Zenon DEF Picked

\* Only get_afbc_format gives AFBC.
LEMMA AfbcPicked ==
  ASSUME NEW c, NEW base, NEW x, NEW f, Picked(c, base, x, f), is_afbc(f),
         NEW u, NEW d, NEW P, NEW C, c = ContextOf(u, d, P, C)
  PROVE  x = "AFBC" /\ f = get_afbc_format(c, base)
<1>1. CASE x = "AFRC" /\ is_afrc(f) /\ f = get_afrc_format(c, base)
  <2>1. f.mods \in {{"AFRC", "ROT"}, {"AFRC"}}
    BY <1>1, AfrcIs
  <2> QED
    BY <2>1 DEF is_afbc
<1>2. CASE f.mods \in {{}, {"BLOCK_LINEAR"}}
  BY <1>2 DEF is_afbc
<1> QED
  BY <1>1, <1>2, Zenon DEF Picked

\* The corrections of validate_afbc_format leave a well-formed set.
LEMMA PickedWellFormed ==
  ASSUME NEW base \in DOMAIN formats, NEW x, NEW f,
         Picked(Context(asked), base, x, f), req = Request(asked, f)
  PROVE  AfbcWellFormed
<1> SUFFICES ASSUME is_afbc(req)
             PROVE  LET mods == req.mods  c == Context(asked) IN
                    /\ "DOUBLE_BODY" \in mods => "TILED" \in mods /\ "32x8" \notin mods
                    /\ "32x8" \in mods =>
                         (IF is_subsampled_yuv(base) \/ base = "RGB_565" THEN "SPLIT" \notin mods
                          ELSE "SPLIT" \in mods)
                    /\ is_yuv(base) /\ "GPU" \in c.prod => mods \cap {"32x8", "SPLIT"} = {}
                    /\ "SPLIT" \in mods /\ "DPU" \in c.cons =>
                         is_rgb(base) /\ At(formats[base].bpp, 0) >= 24
  <2>1. req.base = base
    BY RequestIs DEF Picked
  <2> QED
    BY <2>1, Zenon DEF AfbcWellFormed
<1>1. f.mods = req.mods
  BY RequestIs
<1>2. is_afbc(f)
  BY <1>1 DEF is_afbc
<1>3. x = "AFBC" /\ f = get_afbc_format(Context(asked), base)
  BY <1>2, AfbcPicked, Zenon DEF Context
<1>4. /\ "DOUBLE_BODY" \in f.mods => "TILED" \in f.mods /\ "32x8" \notin f.mods
      /\ "32x8" \in f.mods => ~is_yuv(base) /\ ("SPLIT" \in f.mods <=> base # "RGB_565")
      /\ "SPLIT" \in f.mods => ~is_yuv(base) /\ base # "RGB_565"
  BY <1>2, <1>3, AfbcIs
<1>5. "afbc" \in formats[base].is
  BY <1>3, PickedServes DEF Serves
<1>6. "SPLIT" \in f.mods => is_rgb(base) /\ At(formats[base].bpp, 0) >= 24
  BY <1>4, <1>5, CompressibleAssumption
<1> QED
  BY <1>1, <1>4, <1>6 DEF is_subsampled_yuv

\* A DPU that reads a base format linearly is not passed over for AFBC.
LEMMA DisplayKept ==
  ASSUME NEW u, NEW d, NEW P, NEW C, NEW base \in DOMAIN formats,
         P \subseteq Writers \ {"DPU_AEU"}, C \subseteq Readers, "DPU" \in C,
         Serves(d, P, C \ {"DPU"}, u, base, "AFBC"),
         "LIN" \in get_format_ip_support(base).rd["DPU"],
         base = "RGBA_1010102"  => Allows(d, "DPU", "FORMAT_R10G10B10A2", Read),
         base = "RGBA_16161616" => Allows(d, "DPU", "FORMAT_R16G16B16A16_FLOAT", Read)
  PROVE  is_format_supported(ContextOf(u, d, P, C), base) # {}
<1> DEFINE c     == ContextOf(u, d, P, C)
           table == usage_supports_base_format(c, ip_supports_base_format(c, base))
           row   == get_format_ip_support(base)
           flags == {f \in table : /\ f = "AFBC"   => AfbcEnabled(c, base)
                                   /\ f = "AFRC"   => AfrcEnabled(c, base)
                                   /\ f = "BL_YUV" => BlEnabled(c, base)}
<1>1. /\ \A ip \in P : "LIN" \in row.wr[ip]
      /\ \A ip \in C : "LIN" \in row.rd[ip]
  BY DisplayAssumption DEF Serves
<1>2. "LIN" \in table
  BY <1>1 DEF usage_supports_base_format, ip_supports_base_format, ContextOf
<1>3. flags # {}
  BY <1>2
<1>4. \A y : ip_support_feature(d, P, C \ {"DPU"}, y) /\ Allows(d, "DPU", y, Read)
               => ip_support_feature(d, P, C, y)
  BY DEF ip_support_feature
<1>5. /\ base = "RGBA_1010102"  => support(c, "FORMAT_R10G10B10A2")
      /\ base = "RGBA_16161616" => support(c, "FORMAT_R16G16B16A16_FLOAT")
  BY <1>4, SupportIs, Zenon DEF Serves
<1> HIDE DEF c, row
<1> QED
  BY <1>3, <1>5 DEF is_format_supported, c

\* AFBC for the front buffer of a display is tiled, with a double body.
LEMMA PickedSafe ==
  ASSUME NEW base \in DOMAIN formats, NEW x, NEW f,
         Picked(Context(asked), base, x, f), req = Request(asked, f)
  PROVE  FrontBufferSafe
<1> DEFINE u == asked.usage
           d == asked.device
           P == Producers(u)
           C == get_consumers(u)
           c == Context(asked)
<1>1. /\ c = ContextOf(u, d, P, C)
      /\ c.usage = u /\ c.device = d /\ c.prod = P /\ c.cons = C
  BY DEF Context, ContextOf
<1> SUFFICES ASSUME gralloc_usage_is_frontbuffer(u), is_afbc(req),
                    \A ip \in P : Allows(d, ip, "AFBC_DOUBLE_BODY", Write)
                                    => Allows(d, ip, "AFBC_TILED_HEADERS", Write),
                    \A ip \in C : Allows(d, ip, "AFBC_DOUBLE_BODY", Read)
                                    => Allows(d, ip, "AFBC_TILED_HEADERS", Read),
                    "DPU" \in C => /\ "LIN" \in get_format_ip_support(req.base).rd["DPU"]
                                   /\ \A y \in BaseNeeds : Allows(d, "DPU", y, Read)
             PROVE  is_frontbuffer_safe(req)
  BY <1>1, Zenon DEF FrontBufferSafe
<1>2. req.base = base /\ req.mods = f.mods /\ is_afbc(f)
  BY RequestIs DEF Picked, is_afbc
<1> HIDE DEF u, d, P, C, c
<1>3. x = "AFBC" /\ f = get_afbc_format(c, base)
  <2>1. c = ContextOf(u, d, P, C) /\ Picked(c, base, x, f)
    BY <1>1, Zenon DEF c
  <2> QED
    BY <2>1, <1>2, AfbcPicked
<1>4. P \subseteq Writers /\ C \subseteq Readers /\ ("GPU" \in C => "DPU_AEU" \notin P)
  BY Parties DEF P, C
<1>5. x \in SupportedFlags(ContextOf(u, d, P, C), base)
  BY <1>1, Zenon DEF Picked, c
<1>6. \/ Serves(d, P, C, u, base, "AFBC")
      \/ /\ is_format_supported(ContextOf(u, d, P, C), base) = {}
         /\ "GPU" \in C /\ "DPU" \in C
         /\ Serves(d, P, C \ {"DPU"}, u, base, "AFBC")
  BY <1>3, <1>4, <1>5, FlagsServe, Zenon
<1>7. ~ /\ is_format_supported(ContextOf(u, d, P, C), base) = {}
        /\ "GPU" \in C /\ "DPU" \in C
        /\ Serves(d, P, C \ {"DPU"}, u, base, "AFBC")
  <2> SUFFICES ASSUME "GPU" \in C, "DPU" \in C, Serves(d, P, C \ {"DPU"}, u, base, "AFBC")
               PROVE  is_format_supported(ContextOf(u, d, P, C), base) # {}
    OBVIOUS
  <2>1. P \subseteq Writers \ {"DPU_AEU"}
    BY <1>4
  <2>2. /\ base = "RGBA_1010102"  => Allows(d, "DPU", "FORMAT_R10G10B10A2", Read)
        /\ base = "RGBA_16161616" => Allows(d, "DPU", "FORMAT_R16G16B16A16_FLOAT", Read)
    BY <1>2 DEF BaseNeeds
  <2>3. "LIN" \in get_format_ip_support(base).rd["DPU"]
    BY <1>2
  <2> QED
    BY <2>1, <2>2, <2>3, <1>4, DisplayKept, Zenon
<1>8. ip_support_feature(d, P, C, "AFBC_DOUBLE_BODY")
  BY <1>6, <1>7 DEF Serves
<1>9. ip_support_feature(d, P, C, "AFBC_TILED_HEADERS")
  BY <1>8 DEF ip_support_feature
<1>10. support(c, "AFBC_DOUBLE_BODY") /\ support(c, "AFBC_TILED_HEADERS")
  <2>1. "AFBC_DOUBLE_BODY" \in Features /\ "AFBC_TILED_HEADERS" \in Features
    BY DEF Features
  <2> QED
    BY <2>1, <1>1, <1>8, <1>9, SupportIs
<1>11. "TILED" \in f.mods /\ "DOUBLE_BODY" \in f.mods
  BY <1>1, <1>2, <1>3, <1>10, AfbcIs DEF c
<1> QED
  BY <1>2, <1>11 DEF is_frontbuffer_safe, is_tiled, is_afbc

-----------------------------------------------------------------------------
(* The state: what is being derived is what was selected for the request.    *)

\* Nothing is asked, and nothing left of an earlier call, while no call runs; a
\* description is encoded and sent only then.
Quiescent ==
  /\ pc = "idle" => asked = NoAsk /\ req = NoRequest /\ plane = 0
  /\ phase \in {"describe", "send"} => pc = "idle"

\* A call for which nothing is selected has ended without deriving anything; any
\* other derives a format selected for it.
Selected ==
  asked # NoAsk =>
    \/ mali_gralloc_select_format(asked) = {} /\ pc = "end" /\ plane = 0 /\ req = NoRequest
    \/ \E f \in mali_gralloc_select_format(asked) : req = Request(asked, f)

\* A call that ends before its first plane was refused: there is no format, or
\* the allocator did not accept it.
Refusals ==
  asked # NoAsk =>
    /\ pc \in {"layers", "allocated"} => plane # 0
    /\ pc = "end" /\ plane = 0 =>
         mali_gralloc_select_format(asked) = {} \/ ~ (get_alloc_type(req) /\ validate_format(req))

SelectionInv == Quiescent /\ Selected /\ Refusals

\* A selected format is one of the table.
LEMMA SelectedBase ==
  ASSUME NEW a, NEW f \in mali_gralloc_select_format(a)
  PROVE  f.base \in DOMAIN formats
<1>1. CASE a.private
  <2>1. f \in select_forced_format(a)
    BY <1>1 DEF mali_gralloc_select_format
  <2>2. /\ get_internal_format(a.hal) \in DOMAIN formats
        /\ f = Format(get_internal_format(a.hal), a.mods, a.coding)
    BY <2>1 DEF select_forced_format
  <2> QED
    BY <2>2 DEF Format
<1>2. CASE ~a.private
  <2>1. PICK base \in DOMAIN formats : \E x : Picked(Context(a), base, x, f)
    BY <1>2, SelectionPicked, Zenon
  <2> QED
    BY <2>1 DEF Picked
<1> QED
  BY <1>1, <1>2

\* Nothing has been selected at first.
LEMMA SelectionInit == QueryInit => SelectionInv
  BY DEF QueryInit, ArmInit, Init, SelectionInv, Quiescent, Selected, Refusals

\* Selecting, in a query or an allocation, establishes the invariant.
LEMMA SelectStep ==
  ASSUME NEW a, SelectionInv, pc = "idle", Select(a), phase' \notin {"describe", "send"}
  PROVE  SelectionInv'
<1> USE DEF SelectionInv, Quiescent
<1>1. asked' = a /\ plane' = 0 /\ req = NoRequest
  BY DEF Select
<1>2. CASE mali_gralloc_select_format(a) = {} /\ pc' = "end" /\ req' = req
  BY <1>1, <1>2 DEF Selected, Refusals
<1>3. CASE pc' = "derive" /\ req' \in {Request(a, f) : f \in mali_gralloc_select_format(a)}
  BY <1>1, <1>3 DEF Selected, Refusals
<1> QED
  BY <1>2, <1>3 DEF Select, GoOn

\* So does every step of a derivation, which leaves the request alone.
LEMMA DeriveStep ==
  ASSUME SelectionInv, Deriving \/ Making, UNCHANGED <<asked, queryVars>>
  PROVE  SelectionInv'
<1> USE DEF SelectionInv, Quiescent, Selected, Refusals, queryVars
<1>1. asked # NoAsk /\ pc # "end" => formats[req.base].npln \in 1 .. 3
  <2> SUFFICES ASSUME asked # NoAsk, pc # "end" PROVE formats[req.base].npln \in 1 .. 3
    OBVIOUS
  <2>1. PICK f \in mali_gralloc_select_format(asked) : req = Request(asked, f)
    OBVIOUS
  <2>2. req.base = f.base
    BY <2>1, RequestIs
  <2> QED
    BY <2>1, <2>2, SelectedBase, FormatsAssumption
<1>2. CASE Refuse
  BY <1>2 DEF Refuse
<1>3. CASE Derive
  BY <1>3 DEF Derive
<1>4. CASE CalcPlane
  BY <1>4 DEF CalcPlane
<1>5. CASE adjust_rk_video_buffer_size
  BY <1>5, <1>1 DEF adjust_rk_video_buffer_size, Info
<1>6. CASE Layers
  BY <1>6 DEF Layers
<1>7. CASE init_afbc
  BY <1>7 DEF init_afbc
<1>8. CASE NoHeaders
  BY <1>8 DEF NoHeaders
<1>9. CASE Again
  BY <1>9 DEF Again
<1> QED
  BY <1>2, <1>3, <1>4, <1>5, <1>6, <1>7, <1>8, <1>9 DEF Deriving, Making

\* Only a query and an allocation select, and the request keeps what they select.
LEMMA SelectionStep == SelectionInv /\ [QueryNext]_allVars => SelectionInv'
<1> SUFFICES ASSUME SelectionInv, [QueryNext]_allVars PROVE SelectionInv'
  OBVIOUS
<1>1. ASSUME NEW d \in Asks, pc = "idle", getFromBufferDescriptorInfo(d) PROVE SelectionInv'
  BY <1>1, SelectStep DEF getFromBufferDescriptorInfo
<1>2. CASE Foretell
  BY <1>2 DEF Foretell, SelectionInv, Quiescent, Selected, Refusals
<1>3. CASE createDescriptor
  BY <1>3 DEF createDescriptor, armVars, vars, SelectionInv, Quiescent, Selected, Refusals
<1>4. CASE allocate
  <2>1. pc = "idle"
    BY <1>4 DEF allocate, SelectionInv, Quiescent
  <2> QED
    BY <2>1, <1>4, SelectStep DEF allocate
<1>5. CASE phase = "idle" /\ Call /\ UNCHANGED <<asked, queryVars>>
  BY <1>5 DEF Call, queryVars, SelectionInv, Quiescent, Selected, Refusals
<1>6. CASE (Deriving \/ Making) /\ UNCHANGED <<asked, queryVars>>
  BY <1>6, DeriveStep
<1>7. CASE Reply
  BY <1>7 DEF Reply, Return, SelectionInv, Quiescent, Selected, Refusals
<1>8. CASE UNCHANGED allVars
  BY <1>8 DEF allVars, armVars, vars, queryVars, SelectionInv, Quiescent, Selected, Refusals
<1> QED
  BY <1>1, <1>2, <1>3, <1>4, <1>5, <1>6, <1>7, <1>8 DEF QueryNext

\* Every state that a client and the allocator reach satisfies it.
THEOREM SelectionInvariance == QuerySpec => []SelectionInv
<1>1. QueryInit => SelectionInv
  BY SelectionInit
<1>2. SelectionInv /\ [QueryNext]_allVars => SelectionInv'
  BY SelectionStep
<1> QED
  BY <1>1, <1>2, PTL DEF QuerySpec

-----------------------------------------------------------------------------
(* The theorems.                                                            *)

\* A request about to be derived carries a format picked for it.
LEMMA ChosenPicked ==
  ASSUME SelectionInv, Chosen
  PROVE  \E f \in mali_gralloc_select_format(asked) :
         \E base \in DOMAIN formats : \E x \in {"AFRC", "AFBC", "BL_YUV", "LIN"} :
           Picked(Context(asked), base, x, f) /\ req = Request(asked, f)
<1>1. pc = "derive" /\ asked # NoAsk /\ ~asked.private
  BY DEF Chosen
<1>2. PICK f \in mali_gralloc_select_format(asked) : req = Request(asked, f)
  BY <1>1 DEF SelectionInv, Selected
<1>3. \E base \in DOMAIN formats : \E x \in {"AFRC", "AFBC", "BL_YUV", "LIN"} :
        Picked(Context(asked), base, x, f)
  BY <1>1, <1>2, SelectionPicked, Zenon
<1> QED
  BY <1>2, <1>3, Zenon

\* What select_best_format picks, get_alloc_type and validate_format accept,
\* whatever the capability files say.
THEOREM SelectionAccepted == QuerySpec => []AllocatorAccepts
<1>1. SelectionInv => AllocatorAccepts
  <2> SUFFICES ASSUME SelectionInv, Chosen, req.base = "BLOB" => req.height = 1
               PROVE  get_alloc_type(req) /\ validate_format(req)
    BY DEF AllocatorAccepts
  <2>1. PICK f \in mali_gralloc_select_format(asked), base \in DOMAIN formats,
             x \in {"AFRC", "AFBC", "BL_YUV", "LIN"} :
          Picked(Context(asked), base, x, f) /\ req = Request(asked, f)
    BY ChosenPicked, Zenon
  <2>2. req.base = base /\ req.height = asked.height
    BY <2>1, RequestIs DEF Picked
  <2> QED
    BY <2>1, <2>2, PickedAccepted, Zenon
<1> QED
  BY <1>1, SelectionInvariance, PTL

\* Every producer, and every consumer that is not composed for, has the layout
\* selected, in the support table and in its capabilities.
THEOREM SelectionUsable == QuerySpec => []EveryIpCan
<1>1. SelectionInv => EveryIpCan
  <2> SUFFICES ASSUME SelectionInv, Chosen PROVE EveryIpCan
    BY DEF EveryIpCan
  <2>1. PICK f \in mali_gralloc_select_format(asked), base \in DOMAIN formats,
             x \in {"AFRC", "AFBC", "BL_YUV", "LIN"} :
          Picked(Context(asked), base, x, f) /\ req = Request(asked, f)
    BY ChosenPicked, Zenon
  <2> DEFINE row == get_format_ip_support(req.base)
             P   == Producers(asked.usage)
             C   == get_consumers(asked.usage)
  <2>2. /\ \A ip \in P : Layout \in row.wr[ip]
        /\ \A ip \in Must(C) : Layout \in row.rd[ip]
        /\ \A y \in BaseNeeds \cup ModNeeds : ip_support_feature(asked.device, P, Must(C), y)
        /\ is_afbc(req) /\ "SPARSE" \notin req.mods =>
             \A ip \in P : Allows(asked.device, ip, "AFBC_WRITE_NON_SPARSE", Write)
    BY <2>1, PickedUsable, Zenon
  <2>3. Context(asked).prod = P /\ Context(asked).cons = C
    BY DEF Context, ContextOf
  <2> HIDE DEF row, P, C
  <2>4. \A y \in BaseNeeds \cup ModNeeds :
          /\ \A ip \in P : Allows(asked.device, ip, y, Write)
          /\ \A ip \in Must(C) : Allows(asked.device, ip, y, Read)
    BY <2>2 DEF ip_support_feature
  <2> QED
    BY <2>2, <2>3, <2>4, Zenon DEF EveryIpCan, Must, row
<1> QED
  BY <1>1, SelectionInvariance, PTL

\* The modifiers of what is selected as AFBC are well formed, and those of a
\* front buffer safe.
THEOREM SelectionSound == QuerySpec => []AfbcSound
<1>1. SelectionInv => AfbcSound
  <2> SUFFICES ASSUME SelectionInv, Chosen PROVE AfbcSound
    BY DEF AfbcSound, AfbcWellFormed, FrontBufferSafe
  <2>1. PICK f \in mali_gralloc_select_format(asked), base \in DOMAIN formats,
             x \in {"AFRC", "AFBC", "BL_YUV", "LIN"} :
          Picked(Context(asked), base, x, f) /\ req = Request(asked, f)
    BY ChosenPicked, Zenon
  <2> QED
    BY <2>1, PickedWellFormed, PickedSafe, Zenon DEF AfbcSound
<1> QED
  BY <1>1, SelectionInvariance, PTL

-----------------------------------------------------------------------------
(* Linear formats are served.                                                *)

\* A format that everyone has linearly is supported.
LEMMA LinearSupported ==
  ASSUME NEW u, NEW d, NEW P, NEW C, NEW base,
         \A ip \in P : "LIN" \in get_format_ip_support(base).wr[ip],
         \A ip \in C : "LIN" \in get_format_ip_support(base).rd[ip],
         base = "RGBA_1010102"  => support(ContextOf(u, d, P, C), "FORMAT_R10G10B10A2"),
         base = "RGBA_16161616" => support(ContextOf(u, d, P, C), "FORMAT_R16G16B16A16_FLOAT")
  PROVE  get_supported_format(ContextOf(u, d, P, C), base) # {}
<1> DEFINE c     == ContextOf(u, d, P, C)
           table == usage_supports_base_format(c, ip_supports_base_format(c, base))
           flags == {f \in table : /\ f = "AFBC"   => AfbcEnabled(c, base)
                                   /\ f = "AFRC"   => AfrcEnabled(c, base)
                                   /\ f = "BL_YUV" => BlEnabled(c, base)}
<1>1. "LIN" \in table
  BY DEF usage_supports_base_format, ip_supports_base_format, ContextOf
<1>2. "LIN" \in flags
  BY <1>1
<1> HIDE DEF c
<1>3. "LIN" \in is_format_supported(c, base)
  BY <1>2 DEF is_format_supported, c
<1>4. "LIN" \in SupportedFlags(c, base)
  BY <1>3 DEF SupportedFlags
<1>5. ASSUME NEW fl, NEW afrc, NEW afbc, NEW bl, "LIN" \in fl
      PROVE  FirstOf(c, base, fl, afrc, afbc, bl) # {}
  BY <1>5, Zenon DEF FirstOf
<1> QED
  BY <1>4, <1>5 DEF get_supported_format, c

\* A format is compatible with itself.
LEMMA CompatibleSelf ==
  ASSUME NEW base \in DOMAIN formats
  PROVE  is_format_compatible(base, base)
  BY Zenon DEF is_format_compatible, comparable_components

\* A blob is compatible only with itself.
LEMMA CompatibleBlob ==
  ASSUME NEW base \in DOMAIN formats, is_format_compatible(base, "BLOB")
  PROVE  base = "BLOB"
  BY FormatsAssumption, Zenon DEF is_format_compatible, comparable_components

\* The modifiers of what is picked.
Modifiers == {"AFBC", "YTR", "SPARSE", "TILED", "DOUBLE_BODY", "32x8", "SPLIT", "BLOCK_LINEAR",
              "AFRC", "ROT"}
\* They are finitely many.
LEMMA ModifiersFinite == IsFiniteSet(Modifiers)
<1>1. ASSUME NEW S, NEW x, IsFiniteSet(S) PROVE IsFiniteSet(S \cup {x})
  BY <1>1, FS_AddElement
<1>2. IsFiniteSet({} \cup {"AFBC"} \cup {"YTR"} \cup {"SPARSE"} \cup {"TILED"} \cup {"DOUBLE_BODY"})
  BY <1>1, FS_EmptySet, Zenon
<1> DEFINE S5 == {} \cup {"AFBC"} \cup {"YTR"} \cup {"SPARSE"} \cup {"TILED"} \cup {"DOUBLE_BODY"}
<1>3. Modifiers = S5 \cup {"32x8"} \cup {"SPLIT"} \cup {"BLOCK_LINEAR"} \cup {"AFRC"} \cup {"ROT"}
  BY DEF Modifiers
<1> HIDE DEF S5
<1>4. IsFiniteSet(S5 \cup {"32x8"} \cup {"SPLIT"} \cup {"BLOCK_LINEAR"} \cup {"AFRC"} \cup {"ROT"})
  BY <1>1, <1>2, Zenon DEF S5
<1> QED
  BY <1>3, <1>4

\* Nothing else is picked.
LEMMA PickedMods ==
  ASSUME NEW u, NEW d, NEW P, NEW C, NEW base, NEW x, NEW f,
         Picked(ContextOf(u, d, P, C), base, x, f)
  PROVE  f.mods \subseteq Modifiers
<1> DEFINE c == ContextOf(u, d, P, C)
<1>1. CASE is_afrc(f) /\ f = get_afrc_format(c, base)
  <2>1. f.mods \in {{"AFRC", "ROT"}, {"AFRC"}}
    BY <1>1, AfrcIs
  <2> QED
    BY <2>1 DEF Modifiers
<1> HIDE DEF c
<1>2. CASE is_afbc(f) /\ f = get_afbc_format(c, base)
  <2>1. f.mods \subseteq {"AFBC", "YTR", "SPARSE", "TILED", "DOUBLE_BODY", "32x8", "SPLIT"}
    BY <1>2, AfbcIs
  <2> QED
    BY <2>1 DEF Modifiers
<1>3. CASE f.mods = {"BLOCK_LINEAR"} \/ f.mods = {}
  BY <1>3 DEF Modifiers
<1> QED
  BY <1>1, <1>2, <1>3, Zenon DEF Picked, c

Bound == 2^30 + Cardinality(Modifiers) + 5

\* Grades are natural numbers below a bound, and the grade of the requested base
\* format is not 0.
LEMMA Grades ==
  ASSUME NEW f, NEW old, f.mods \subseteq Modifiers
  PROVE  /\ grade_format(f, old) \in 0 .. Bound
         /\ f.base = old => grade_format(f, old) # 0
<1> DEFINE n == Cardinality(f.mods)
           r == Cardinality(f.mods \cap {"ROT"})
           k == Cardinality({i \in 1 .. 2 : f.coding[i] # 16})
<1>1. IsFiniteSet(Modifiers) /\ Cardinality(Modifiers) \in Nat
  BY ModifiersFinite, FS_CardinalityType
<1>2. n \in Nat /\ n <= Cardinality(Modifiers) /\ IsFiniteSet(f.mods)
  BY <1>1, FS_Subset, FS_CardinalityType
<1>3. r \in Nat /\ r <= n
  BY <1>2, FS_Intersection, FS_CardinalityType
<1>4. k \in Nat /\ k <= 2
  <2>1. IsFiniteSet(1 .. 2) /\ Cardinality(1 .. 2) = 2
    <3>1. /\ IsFiniteSet(1 .. 2)
          /\ Cardinality(1 .. 2) = IF 1 > 2 THEN 0 ELSE 2 - 1 + 1
      BY FS_Interval, 1 \in Int, 2 \in Int, Zenon
    <3> QED
      BY <3>1
  <2>2. {i \in 1 .. 2 : f.coding[i] # 16} \in SUBSET (1 .. 2)
    OBVIOUS
  <2> QED
    BY <2>1, <2>2, FS_Subset, FS_CardinalityType
<1>5. 2^30 \in Nat
  OBVIOUS
<1> HIDE DEF n, r, k
<1>6. CASE is_afrc(f)
  <2>1. \E b \in {0, 1} : grade_format(f, old) = 1 + 2^30 + b + r + k
    BY <1>6, Zenon DEF grade_format, r, k
  <2> QED
    BY <2>1, <1>1, <1>2, <1>3, <1>4, <1>5 DEF Bound
<1>7. CASE ~is_afrc(f)
  <2>1. \/ /\ is_rgb(old) /\ At(formats[old].bpp, 0) # At(formats[f.base].bpp, 0)
           /\ grade_format(f, old) = 0
        \/ \E b \in {0, 1} : grade_format(f, old) = 1 + n + b
    BY <1>7, Zenon DEF grade_format, n
  <2> QED
    BY <2>1, <1>1, <1>2, <1>5 DEF Bound
<1> QED
  BY <1>6, <1>7

\* A set of natural numbers has a least one, and below a bound a greatest one.
LEMMA Least ==
  ASSUME NEW T, T \subseteq Nat, T # {}
  PROVE  \E n \in T : \A m \in T : n <= m
<1>1. PICK n \in T : \A m \in T : ~ (<<m, n>> \in OpToRel(<, Nat))
  BY NatLessThanWellFounded, WFMin, Zenon
<1>2. \A m \in T : ~ (m < n)
  BY <1>1 DEF OpToRel
<1> QED
  BY <1>2

\* A bounded set of numbers has a greatest one.
LEMMA Greatest ==
  ASSUME NEW b \in Nat, NEW T, T \subseteq 0 .. b, T # {}
  PROVE  \E n \in T : \A m \in T : m <= n
<1> DEFINE U == {b - n : n \in T}
<1>1. U \subseteq Nat /\ U # {}
  <2>1. \A n \in T : b - n \in Nat
    OBVIOUS
  <2> QED
    BY <2>1, Zenon
<1>2. PICK k \in U : \A l \in U : k <= l
  BY <1>1, Least
<1>3. PICK n \in T : k = b - n
  OBVIOUS
<1>4. \A m \in T : b - n <= b - m
  BY <1>2, <1>3
<1> QED
  BY <1>4

\* If the requested base format is supported, there is a best format.
LEMMA BestExists ==
  ASSUME NEW u, NEW d, NEW P, NEW C, NEW old \in DOMAIN formats,
         get_supported_format(ContextOf(u, d, P, C), old) # {}
  PROVE  get_best_format(ContextOf(u, d, P, C), old) # {}
<1> DEFINE c     == ContextOf(u, d, P, C)
           found == Candidates(c, old)
           all   == UNION {found[i] : i \in DOMAIN found}
           best  == {g \in all : \A h \in all : h[1] <= g[1]}
           kept  == {g \in all : g[2].base = old}
           first_best == {g \in best : \E i \in DOMAIN found :
                            g \in found[i] /\ \A j \in DOMAIN found : found[j] \cap best # {} => i <= j}
<1>1. /\ DOMAIN found = Compatible[old]
      /\ \A j \in Compatible[old] :
           found[j] = {h \in Graded(get_supported_format(c, get_all_base_formats[j]), old) : h[1] > 0}
  BY DEF Candidates
<1>2. \A base, f : f \in get_supported_format(c, base) =>
        f.base = base /\ f.mods \subseteq Modifiers
  <2> SUFFICES ASSUME NEW base, NEW f \in get_supported_format(c, base)
               PROVE  f.base = base /\ f.mods \subseteq Modifiers
    BY Zenon
  <2>1. PICK x : Picked(c, base, x, f)
    BY SupportedPicked, Zenon
  <2>2. f.base = base
    BY <2>1 DEF Picked
  <2> QED
    BY <2>1, <2>2, PickedMods, Zenon
<1> HIDE DEF c
<1>3. \A i \in DOMAIN found : \A g \in found[i] : g[1] \in 0 .. Bound
  <2> SUFFICES ASSUME NEW i \in DOMAIN found, NEW g \in found[i] PROVE g[1] \in 0 .. Bound
    OBVIOUS
  <2>1. PICK f \in get_supported_format(c, get_all_base_formats[i]) : g = <<grade_format(f, old), f>>
    BY <1>1 DEF Graded
  <2>2. grade_format(f, old) \in 0 .. Bound
    BY <2>1, <1>2, Grades
  <2> QED
    BY <2>1, <2>2
<1>4. PICK g0 \in all : g0[2].base = old
  <2>1. PICK f \in get_supported_format(c, old) : TRUE
    BY DEF c
  <2>2. PICK i \in DOMAIN get_all_base_formats : get_all_base_formats[i] = old
    BY FormatsAssumption
  <2>3. i \in Compatible[old]
    BY <2>2, CompatibleSelf DEF Compatible
  <2>4. f.base = old /\ f.mods \subseteq Modifiers
    BY <2>1, <1>2
  <2>5. grade_format(f, old) \in 0 .. Bound /\ grade_format(f, old) # 0
    BY <2>4, Grades
  <2>6. <<grade_format(f, old), f>> \in Graded(get_supported_format(c, get_all_base_formats[i]), old)
    BY <2>1, <2>2, Zenon DEF Graded
  <2>7. <<grade_format(f, old), f>> \in found[i]
    BY <2>3, <2>5, <2>6, <1>1
  <2> QED
    BY <2>3, <2>4, <2>7, <1>1
<1> HIDE DEF found
<1>5. PICK g1 : g1 \in best
  <2> DEFINE T == {g[1] : g \in all}
  <2>1. T \subseteq 0 .. Bound /\ T # {}
    BY <1>3, <1>4
  <2>2. Bound \in Nat
    BY ModifiersFinite, FS_CardinalityType DEF Bound
  <2>3. PICK n \in T : \A m \in T : m <= n
    BY <2>1, <2>2, Greatest
  <2>4. PICK g \in all : g[1] = n
    OBVIOUS
  <2>5. \A h \in all : h[1] <= g[1]
    BY <2>3, <2>4
  <2> QED
    BY <2>4, <2>5
<1>6. first_best # {}
  <2> DEFINE J == {j \in DOMAIN found : found[j] \cap best # {}}
  <2>1. DOMAIN found \subseteq Nat
    BY <1>1, FormatsAssumption DEF Compatible
  <2>2. PICK j \in DOMAIN found : g1 \in found[j]
    BY <1>5
  <2>3. J # {} /\ J \subseteq Nat
    BY <2>1, <2>2, <1>5
  <2>4. PICK i \in J : \A k \in J : i <= k
    BY <2>3, Least
  <2>5. PICK g : g \in found[i] /\ g \in best
    BY <2>4
  <2> QED
    BY <2>4, <2>5
<1>7. kept # {}
  BY <1>4
<1>8. BestOf(c, found, old) \in {first_best, kept}
  BY Zenon DEF BestOf
<1> HIDE DEF first_best, kept
<1>9. PICK g2 : g2 \in BestOf(c, found, old)
  BY <1>6, <1>7, <1>8
<1>10. g2[2] \in get_best_format(c, old)
  BY <1>9, Zenon DEF get_best_format, found
<1> QED
  BY <1>10 DEF c

\* Who is permitted uses no flag but the known ones.
LEMMA PermittedKnown ==
  ASSUME NEW a, Permitted(a)
  PROVE  a.usage \subseteq Standard \cup Vendor
<1>1. permitted_usage(get_internal_format(a.hal)) \subseteq Standard
  BY DEF permitted_usage, CameraUses, VideoUses, Universal, Standard, SwFlags, HwFlags
<1> QED
  BY <1>1 DEF Permitted

\* A permitted request that everyone involved can use linearly is never refused.
THEOREM LinearIsServed == QuerySpec => []LinearServed
<1>1. SelectionInv => LinearServed
  <2> DEFINE base == get_internal_format(asked.hal)
             P    == Producers(asked.usage)
             C    == get_consumers(asked.usage)
             c    == Context(asked)
             row  == get_format_ip_support(base)
  <2>1. c = ContextOf(asked.usage, asked.device, P, C) /\ c.prod = P /\ c.cons = C
    BY DEF Context, ContextOf
  <2> SUFFICES ASSUME SelectionInv, Refused, Permitted(asked),
                      \A ip \in P : "LIN" \in row.wr[ip],
                      \A ip \in C : "LIN" \in row.rd[ip],
                      base = "RGBA_1010102" => support(c, "FORMAT_R10G10B10A2"),
                      base = "RGBA_16161616" => support(c, "FORMAT_R16G16B16A16_FLOAT"),
                      base = "BLOB" => asked.height = 1
               PROVE  FALSE
    BY <2>1, Zenon DEF LinearServed
  <2>2. base \in DOMAIN formats
    BY DEF Permitted
  <2> HIDE DEF base, P, C, c, row
  <2>3. get_supported_format(c, base) # {}
    BY <2>1, LinearSupported DEF row
  <2>4. get_best_format(c, base) # {}
    BY <2>1, <2>2, <2>3, BestExists
  <2>5. asked # NoAsk /\ ~asked.private /\ pc = "end" /\ plane = 0
    BY DEF Refused
  <2>6. mali_gralloc_select_format(asked) # {}
    BY <2>4, <2>5, PermittedKnown DEF mali_gralloc_select_format, select_best_format, c, base
  <2>7. PICK f \in mali_gralloc_select_format(asked) : req = Request(asked, f)
    BY <2>5, <2>6 DEF SelectionInv, Selected
  <2>8. PICK new \in DOMAIN formats, x \in {"AFRC", "AFBC", "BL_YUV", "LIN"} :
          is_format_compatible(base, new) /\ Picked(Context(asked), new, x, f)
    BY <2>5, <2>7, SelectionPicked, Zenon DEF base
  <2>9. new = "BLOB" => asked.height = 1
    BY <2>2, <2>8, CompatibleBlob
  <2>10. get_alloc_type(req) /\ validate_format(req)
    BY <2>7, <2>8, <2>9, PickedAccepted, Zenon
  <2> QED
    BY <2>5, <2>6, <2>10 DEF SelectionInv, Refusals
<1> QED
  BY <1>1, SelectionInvariance, PTL
=============================================================================
