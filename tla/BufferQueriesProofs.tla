------------------------- MODULE BufferQueriesProofs -------------------------
(***************************************************************************)
(* Proofs about BufferQueries, for every set of requests and descriptions and *)
(* every directory of capability files: since a derivation is a function of   *)
(* the request, and the selection one of the description, the mapper foretells*)
(* what the allocator will do; every buffer, and every answer, has the room,  *)
(* the alignments and the strides that AllocSize states; and what its users   *)
(* are told of its layout, by tables written apart, agrees and lies inside it.*)
(***************************************************************************)
EXTENDS AllocSizeProofs

-----------------------------------------------------------------------------
(* Selecting for a description and for its encoding.                        *)

\* At most one format is selected.
LEMMA SelectedOnce ==
  ASSUME NEW a, NEW f \in mali_gralloc_select_format(a), NEW g \in mali_gralloc_select_format(a)
  PROVE  f = g
<1>1. CASE a.private
  <2>1. f \in select_forced_format(a) /\ g \in select_forced_format(a)
    BY <1>1, Zenon DEF mali_gralloc_select_format
  <2> QED
    BY <2>1, Zenon DEF select_forced_format
<1>2. CASE ~a.private
  <2> DEFINE c     == Context(a)
             old   == get_internal_format(a.hal)
             found == Candidates(c, old)
             all   == UNION {found[i] : i \in DOMAIN found}
             best  == {x \in all : \A h \in all : h[1] <= x[1]}
             kept  == {x \in all : x[2].base = old}
             first_best == {x \in best : \E i \in DOMAIN found :
                              x \in found[i] /\ \A j \in DOMAIN found : found[j] \cap best # {} => i <= j}
  <2>1. old \in DOMAIN formats /\ f \in get_best_format(c, old) /\ g \in get_best_format(c, old)
    BY <1>2, Zenon DEF mali_gralloc_select_format, select_best_format, Permitted
  <2>2. \A base : \A x, y \in get_supported_format(c, base) : x = y
    BY Zenon DEF get_supported_format, FirstOf
  <2>3. \A base : \A x \in get_supported_format(c, base) : x.base = base
    <3> SUFFICES ASSUME NEW base, NEW x \in get_supported_format(c, base) PROVE x.base = base
      BY Zenon
    <3>1. PICK layout : Picked(c, base, layout, x)
      BY SupportedPicked, Zenon DEF Context
    <3> QED
      BY <3>1 DEF Picked
  <2>4. /\ DOMAIN found = Compatible[old]
        /\ \A j \in Compatible[old] :
             found[j] = {h \in Graded(get_supported_format(c, get_all_base_formats[j]), old) : h[1] > 0}
    BY <2>1 DEF Candidates
  <2>5. DOMAIN found \subseteq DOMAIN get_all_base_formats
    BY <2>1, <2>4 DEF Compatible
  <2> HIDE DEF c, found, old
  <2>6. \A i \in DOMAIN found : \A x \in found[i] :
          \E y \in get_supported_format(c, get_all_base_formats[i]) : x = <<grade_format(y, old), y>>
    BY <2>4 DEF Graded
  <2>7. \A i \in DOMAIN found : \A x, y \in found[i] : x = y
    <3> SUFFICES ASSUME NEW i \in DOMAIN found, NEW x \in found[i], NEW y \in found[i] PROVE x = y
      BY Zenon
    <3>1. PICK v \in get_supported_format(c, get_all_base_formats[i]) : x = <<grade_format(v, old), v>>
      BY <2>6, Zenon
    <3>2. PICK w \in get_supported_format(c, get_all_base_formats[i]) : y = <<grade_format(w, old), w>>
      BY <2>6, Zenon
    <3> QED
      BY <3>1, <3>2, <2>2, Zenon
  <2>8. \A i \in DOMAIN found : \A x \in found[i] : x[2].base = get_all_base_formats[i]
    BY <2>3, <2>6
  <2>9. \A x, y \in kept : x = y
    <3> SUFFICES ASSUME NEW x \in kept, NEW y \in kept PROVE x = y
      BY Zenon
    <3>1. PICK i \in DOMAIN found : x \in found[i]
      BY Zenon
    <3>2. PICK j \in DOMAIN found : y \in found[j]
      BY Zenon
    <3>3. get_all_base_formats[i] = get_all_base_formats[j]
      BY <3>1, <3>2, <2>8, Zenon
    <3>4. i = j
      BY <3>1, <3>2, <3>3, <2>5, FormatsAssumption, Zenon
    <3> QED
      BY <3>1, <3>2, <3>4, <2>7, Zenon
  <2>10. \A x, y \in first_best : x = y
    <3> SUFFICES ASSUME NEW x \in first_best, NEW y \in first_best PROVE x = y
      BY Zenon
    <3>1. PICK i \in DOMAIN found : /\ x \in found[i]
                                    /\ \A j \in DOMAIN found : found[j] \cap best # {} => i <= j
      BY Zenon
    <3>2. PICK j \in DOMAIN found : /\ y \in found[j]
                                    /\ \A k \in DOMAIN found : found[k] \cap best # {} => j <= k
      BY Zenon
    <3>3. x \in best /\ y \in best
      BY Zenon
    <3> HIDE DEF best
    <3>4. i <= j /\ j <= i
      BY <3>1, <3>2, <3>3
    <3>5. i \in Int /\ j \in Int
      BY <3>1, <3>2, <2>5, FormatsAssumption
    <3>6. i = j
      BY <3>4, <3>5
    <3> QED
      BY <3>1, <3>2, <3>6, <2>7, Zenon
  <2>11. BestOf(c, found, old) \in {first_best, kept}
    BY Zenon DEF BestOf
  <2>12. PICK x \in BestOf(c, found, old) : f = x[2]
    BY <2>1, Zenon DEF get_best_format, found
  <2>13. PICK y \in BestOf(c, found, old) : g = y[2]
    BY <2>1, Zenon DEF get_best_format, found
  <2> HIDE DEF kept, first_best
  <2>14. x = y
    BY <2>9, <2>10, <2>11, <2>12, <2>13
  <2> QED
    BY <2>12, <2>13, <2>14
<1> QED
  BY <1>1, <1>2

\* The selection reads these fields of a descriptor, and its flags.
Alike(a, b) ==
  /\ a.hal = b.hal /\ a.private = b.private /\ a.mods = b.mods /\ a.coding = b.coding
  /\ a.usage = b.usage /\ a.device = b.device
  /\ a.width = b.width /\ a.height = b.height /\ a.layers = b.layers

\* A request is made from these fields alone.
LEMMA AlikeRequests ==
  ASSUME NEW a, NEW b, Alike(a, b), NEW f
  PROVE  Request(a, f) = Request(b, f)
  BY Zenon DEF Alike, Request

\* Without the flags no more is selected than with them.
LEMMA AlikeSelection ==
  ASSUME NEW a, NEW b, Alike(a, b), ~a.aidl, b.aidl \in BOOLEAN
  PROVE  /\ mali_gralloc_select_format(a) \subseteq mali_gralloc_select_format(b)
         /\ ~JudgedByFlags(b) => mali_gralloc_select_format(a) = mali_gralloc_select_format(b)
<1>1. Context(a) = Context(b)
  BY Zenon DEF Context, Alike
<1>2. select_forced_format(a) = select_forced_format(b)
  BY Zenon DEF select_forced_format, Alike
<1>3. Permitted(a) => Permitted(b)
  BY DEF Permitted, Alike
<1>4. ~b.private /\ ~JudgedByFlags(b) => (Permitted(a) <=> Permitted(b))
  BY DEF Permitted, Alike, JudgedByFlags
<1>5. a.private = b.private /\ a.usage = b.usage /\ a.hal = b.hal
  BY DEF Alike
<1>6. CASE b.private
  <2>1. mali_gralloc_select_format(a) = mali_gralloc_select_format(b)
    BY <1>2, <1>5, <1>6, Zenon DEF mali_gralloc_select_format
  <2> QED
    BY <2>1
<1>7. CASE ~b.private
  <2>1. select_best_format(a) \subseteq select_best_format(b)
    BY <1>1, <1>3, <1>5 DEF select_best_format
  <2>2. ~JudgedByFlags(b) => select_best_format(a) = select_best_format(b)
    BY <1>1, <1>4, <1>5, <1>7, Zenon DEF select_best_format
  <2> QED
    BY <2>1, <2>2, <1>5, <1>7 DEF mali_gralloc_select_format
<1> QED
  BY <1>6, <1>7

\* With the same flags the same is selected.
LEMMA AlikeFlags ==
  ASSUME NEW a, NEW b, Alike(a, b), a.aidl = b.aidl
  PROVE  mali_gralloc_select_format(a) = mali_gralloc_select_format(b)
<1>1. Context(a) = Context(b)
  BY Zenon DEF Context, Alike
<1>2. select_forced_format(a) = select_forced_format(b)
  BY Zenon DEF select_forced_format, Alike
<1>3. Permitted(a) <=> Permitted(b)
  BY Zenon DEF Permitted, Alike
<1>4. select_best_format(a) = select_best_format(b)
  BY <1>1, <1>3, Zenon DEF select_best_format, Alike
<1> QED
  BY <1>2, <1>4, Zenon DEF mali_gralloc_select_format, Alike

-----------------------------------------------------------------------------
(* A description on its way to the allocator.                               *)

\* The descriptor getFromBufferDescriptorInfo fills: it has no flags.
Unflagged(d) == [d EXCEPT !.aidl = FALSE]

\* The request it derives, if there is one, and the answers for the derivation
\* when it is done: functions of the description.
Foreseen == LET a == Unflagged(description) IN
            Request(a, CHOOSE f \in mali_gralloc_select_format(a) : TRUE)
Told == INSTANCE BufferQueries WITH
  pc <- "end", req <- Foreseen, plane <- 0, plane_info <- AllInfo(Foreseen),
  size <- AllLayers(Foreseen), pixel_stride <- 0, headers <- {}, first <- <<>>,
  asked <- description, phase <- "query", wire <- <<>>, foretold <- <<>>

\* A query derives the description without its flags, once; an allocation
\* derives what the encoded description decodes to.
Underway ==
  /\ phase \in {"idle", "query", "describe", "send", "allocate"}
  /\ phase = "idle" => asked = NoAsk
  /\ phase # "idle" => description \in Asks
  /\ phase = "query" => /\ asked = Unflagged(description)
                        /\ pc \in {"derive", "end"} => plane = 0
  /\ phase \in {"send", "allocate"} => /\ wire = grallocEncodeBufferDescriptor(description)
                                       /\ validateDescriptorInfo(description)
  /\ phase = "allocate" => asked = grallocDecodeBufferDescriptor(wire)

\* What was foretold are the answers for a format selected and accepted, or
\* there is none.
Foretold ==
  phase \in {"describe", "send", "allocate"} =>
    IF mali_gralloc_select_format(Unflagged(description)) # {} /\ Accepted(Foreseen)
    THEN foretold = Told!partial_answer ELSE foretold = NoAnswer

DescriptionInv == Underway /\ Foretold

\* Clearing the flags changes nothing else.
LEMMA UnflaggedAlike ==
  ASSUME NEW d \in Asks
  PROVE  /\ Alike(Unflagged(d), d) /\ ~Unflagged(d).aidl /\ d.aidl \in BOOLEAN
         /\ Unflagged(d) # NoAsk
<1>1. /\ DOMAIN d = {"hal", "private", "mods", "coding", "aidl", "usage", "device",
                     "width", "height", "layers", "reserved", "name"}
      /\ d.aidl \in BOOLEAN
  BY AsksAssumption
<1>2. DOMAIN Unflagged(d) # DOMAIN NoAsk
  BY <1>1 DEF Unflagged, NoAsk
<1> QED
  BY <1>1, <1>2 DEF Unflagged, Alike

\* The fields arrive in the order in which they were sent, the name cut.
LEMMA DecodedAlike ==
  LET a == grallocDecodeBufferDescriptor(grallocEncodeBufferDescriptor(description)) IN
  /\ Alike(a, description) /\ a.aidl = description.aidl /\ a # NoAsk
  /\ HalFormat(a) = HalFormat(description)
  /\ a.name = Min({description.name, MaxNameLength})
<1> DEFINE w == grallocEncodeBufferDescriptor(description)
           a == grallocDecodeBufferDescriptor(w)
<1>1. /\ w[1] = description.width /\ w[2] = description.height /\ w[3] = description.layers
      /\ w[4] = HalFormat(description) /\ w[5] = description.usage
      /\ w[7] = Min({description.name, MaxNameLength})
  BY DEF grallocEncodeBufferDescriptor
<1>2. /\ w[4].hal = description.hal /\ w[4].private = description.private
      /\ w[4].mods = description.mods /\ w[4].coding = description.coding
  BY <1>1 DEF HalFormat
<1> HIDE DEF w
<1>3. /\ a.hal = w[4].hal /\ a.private = w[4].private /\ a.mods = w[4].mods /\ a.coding = w[4].coding
      /\ a.usage = w[5] /\ a.width = w[1] /\ a.height = w[2] /\ a.layers = w[3] /\ a.name = w[7]
      /\ a.aidl = description.aidl /\ a.device = description.device
      /\ "usage" \in DOMAIN a
  BY DEF grallocDecodeBufferDescriptor, Descriptor
<1>4. "usage" \notin DOMAIN NoAsk
  BY DEF NoAsk
<1> HIDE DEF a
<1>5. a # NoAsk
  BY <1>3, <1>4
<1>6. HalFormat(a) = HalFormat(description)
  BY <1>2, <1>3 DEF HalFormat
<1>7. Alike(a, description)
  BY <1>1, <1>2, <1>3 DEF Alike
<1> QED
  BY <1>1, <1>3, <1>5, <1>6, <1>7 DEF a, w

\* In a finished derivation of it the answers are those.
LEMMA AnswersAre ==
  ASSUME req = Foreseen, plane_info = AllInfo(req), size = AllLayers(req)
  PROVE  partial_answer = Told!partial_answer
<1>1. plane_info = AllInfo(Foreseen) /\ size = AllLayers(Foreseen)
  OBVIOUS
<1>2. formats = Told!formats
  <2>1. rgb_formats = Told!rgb_formats
    BY ZenonT(60) DEF rgb_formats, Row, Told!rgb_formats, Told!Row
  <2>2. yuv_formats = Told!yuv_formats
    BY ZenonT(60) DEF yuv_formats, Row, Told!yuv_formats, Told!Row
  <2>3. yuv_10bit_formats = Told!yuv_10bit_formats
    BY ZenonT(60) DEF yuv_10bit_formats, Row, Told!yuv_10bit_formats, Told!Row
  <2>4. other_formats = Told!other_formats
    BY ZenonT(60) DEF other_formats, Row, Told!other_formats, Told!Row
  <2> QED
    BY <2>1, <2>2, <2>3, <2>4, Zenon DEF formats, Told!formats
<1>3. \A r : Info(r) = Told!Info(r)
  BY <1>2, Zenon DEF Info, Told!Info
<1>4. \A x, p : At(x, p) = Told!At(x, p)
  BY Zenon DEF At, Told!At
<1>5. \A r : /\ is_afbc(r) = Told!is_afbc(r) /\ is_afrc(r) = Told!is_afrc(r)
            /\ is_block_linear(r) = Told!is_block_linear(r)
            /\ Uncompressed(r) = Told!Uncompressed(r)
  BY Zenon DEF is_afbc, is_afrc, is_block_linear, Uncompressed,
       Told!is_afbc, Told!is_afrc, Told!is_block_linear, Told!Uncompressed
<1>6. get_num_planes = Told!get_num_planes
  BY <1>1, Zenon DEF get_num_planes, Told!get_num_planes
<1>7. \A p : plane_size(p) = Told!plane_size(p)
  BY <1>1, <1>6, Zenon DEF plane_size, Told!plane_size
<1>8. Fourccs = Told!Fourccs /\ RawPacked = Told!RawPacked
  BY Zenon DEF Fourccs, Told!Fourccs, RawPacked, Told!RawPacked
<1>9. drm_fourcc_from_handle = Told!drm_fourcc_from_handle
  BY <1>5, <1>8, Zenon DEF drm_fourcc_from_handle, Told!drm_fourcc_from_handle
<1>10. component_table = Told!component_table
  BY ZenonT(60) DEF component_table, Run, Chroma8,
       Told!component_table, Told!Run, Told!Chroma8
<1>11. plane_layout_components_from_handle = Told!plane_layout_components_from_handle
  BY <1>5, <1>8, <1>9, <1>10, Zenon
     DEF plane_layout_components_from_handle, Told!plane_layout_components_from_handle
<1>12. \A p : sample_increment(p) = Told!sample_increment(p)
  BY <1>3, <1>4, <1>5, <1>8, Zenon DEF sample_increment, Told!sample_increment
<1>13. get_plane_layouts = Told!get_plane_layouts
  BY <1>1, <1>3, <1>6, <1>7, <1>11, <1>12, Zenon DEF get_plane_layouts, Told!get_plane_layouts
<1>14. is_multi_plane_handle = Told!is_multi_plane_handle
  BY <1>1, Zenon DEF is_multi_plane_handle, Told!is_multi_plane_handle
<1>15. get_afbc_modifier_tags = Told!get_afbc_modifier_tags
  BY <1>3, <1>14, Zenon DEF get_afbc_modifier_tags, afbc_block_size,
       Told!get_afbc_modifier_tags, Told!afbc_block_size
<1>16. get_afrc_modifier_tags = Told!get_afrc_modifier_tags
  BY <1>3, <1>8, <1>14, Zenon DEF get_afrc_modifier_tags, Told!get_afrc_modifier_tags
<1>17. drm_modifier_from_handle = Told!drm_modifier_from_handle
  BY <1>5, <1>15, <1>16, Zenon DEF drm_modifier_from_handle, Told!drm_modifier_from_handle
<1>18. \A b : bps(b) = Told!bps(b) /\ is_yuv(b) = Told!is_yuv(b)
  BY <1>2, Zenon DEF bps, is_yuv, Told!bps, Told!is_yuv
<1>19. \A r : get_format_dataspace(r) = Told!get_format_dataspace(r)
  <2> SUFFICES ASSUME NEW r PROVE get_format_dataspace(r) = Told!get_format_dataspace(r)
    BY Zenon
  <2>1. is_yuv(r.base) = Told!is_yuv(r.base) /\ bps(r.base) = Told!bps(r.base)
    BY <1>18, Zenon
  <2> QED
    BY <2>1 DEF get_format_dataspace, Told!get_format_dataspace
<1>20. compression = Told!compression /\ HalFormat(description) = Told!HalFormat(description)
       /\ NoAnswer = Told!NoAnswer
  BY <1>5, Zenon DEF compression, HalFormat, NoAnswer, Told!compression, Told!HalFormat, Told!NoAnswer
<1>21. crops = Told!crops
  BY <1>1, <1>6, Zenon DEF crops, Told!crops
<1> QED
  BY <1>1, <1>9, <1>13, <1>17, <1>18, <1>19, <1>20, <1>21, Zenon
  DEF partial_answer, Told!partial_answer

\* They stay the same as long as the description does.
LEMMA AnswersStay ==
  ASSUME description' = description
  PROVE  Foreseen' = Foreseen /\ Told!partial_answer' = Told!partial_answer
<1>1. Foreseen' = Foreseen
  BY DEF Foreseen
<1>2. AllInfo(Foreseen)' = AllInfo(Foreseen) /\ AllLayers(Foreseen)' = AllLayers(Foreseen)
  BY <1>1
<1>3. Told!get_num_planes' = Told!get_num_planes
  BY <1>2, Zenon DEF Told!get_num_planes
<1>4. \A p : Told!plane_size(p)' = Told!plane_size(p)
  BY <1>1, <1>2, <1>3, Zenon DEF Told!plane_size
<1>5. Told!drm_fourcc_from_handle' = Told!drm_fourcc_from_handle
  BY <1>1, Zenon DEF Told!drm_fourcc_from_handle
<1>6. Told!plane_layout_components_from_handle' = Told!plane_layout_components_from_handle
  BY <1>1, <1>5, Zenon DEF Told!plane_layout_components_from_handle
<1>7. \A p : Told!sample_increment(p)' = Told!sample_increment(p)
  BY <1>1, Zenon DEF Told!sample_increment
<1>8. Told!get_plane_layouts' = Told!get_plane_layouts
  BY <1>1, <1>2, <1>3, <1>4, <1>6, <1>7, Zenon DEF Told!get_plane_layouts
<1>9. Told!get_afbc_modifier_tags' = Told!get_afbc_modifier_tags
  BY <1>1, <1>2, Zenon
  DEF Told!get_afbc_modifier_tags, Told!afbc_block_size, Told!is_multi_plane_handle
<1>10. Told!get_afrc_modifier_tags' = Told!get_afrc_modifier_tags
  BY <1>1, <1>2, Zenon DEF Told!get_afrc_modifier_tags, Told!is_multi_plane_handle
<1>11. Told!drm_modifier_from_handle' = Told!drm_modifier_from_handle
  BY <1>1, <1>9, <1>10, Zenon DEF Told!drm_modifier_from_handle
<1>12. Told!compression' = Told!compression
  BY <1>1, Zenon DEF Told!compression
<1>13. Told!crops' = Told!crops
  BY <1>1, <1>2, <1>3, Zenon DEF Told!crops
<1>14. Told!partial_answer' = Told!partial_answer
  BY <1>1, <1>2, <1>5, <1>8, <1>11, <1>12, <1>13, Zenon DEF Told!partial_answer
<1> QED
  BY <1>1, <1>14

\* A query derives what is foreseen.
LEMMA ForeseenIs ==
  ASSUME SelectionInv, asked = Unflagged(description), asked # NoAsk,
         mali_gralloc_select_format(asked) # {}
  PROVE  req = Foreseen
<1>1. PICK f \in mali_gralloc_select_format(asked) : req = Request(asked, f)
  BY DEF SelectionInv, Selected
<1>2. (CHOOSE g \in mali_gralloc_select_format(asked) : TRUE) \in mali_gralloc_select_format(asked)
  BY <1>1, Zenon
<1>3. f = CHOOSE g \in mali_gralloc_select_format(asked) : TRUE
  BY <1>1, <1>2, SelectedOnce
<1> QED
  BY <1>1, <1>3, Zenon DEF Foreseen

\* No description is under way at first.
LEMMA DescriptionInit == QueryInit => DescriptionInv
  BY DEF QueryInit, ArmInit, DescriptionInv, Underway, Foretold

\* The answer to a query is what its closed form gives.
LEMMA ForetellStep ==
  ASSUME SelectionInv, DerivationInv, DescriptionInv, Foretell
  PROVE  DescriptionInv'
<1>1. /\ phase = "query" /\ pc \in {"allocated", "end"} /\ phase' = "describe"
      /\ description' = description /\ asked' = NoAsk
      /\ foretold' = IF pc = "end" THEN NoAnswer ELSE partial_answer
  BY DEF Foretell
<1>2. description \in Asks /\ asked = Unflagged(description) /\ (pc = "end" => plane = 0)
  BY <1>1 DEF DescriptionInv, Underway
<1>3. asked # NoAsk
  BY <1>2, UnflaggedAlike
<1>4. Underway'
  BY <1>1, <1>2 DEF Underway
<1> DEFINE some == mali_gralloc_select_format(Unflagged(description))
<1>5. IF some # {} /\ Accepted(Foreseen) THEN foretold' = Told!partial_answer ELSE foretold' = NoAnswer
  <2>1. CASE pc = "end"
    <3>1. some = {} \/ ~Accepted(req)
      BY <2>1, <1>2, <1>3 DEF SelectionInv, Refusals, Accepted
    <3>2. some # {} => req = Foreseen
      BY <1>2, <1>3, ForeseenIs
    <3> QED
      BY <2>1, <3>1, <3>2, <1>1
  <2>2. CASE pc = "allocated"
    <3>1. some # {}
      BY <2>2, <1>2, <1>3 DEF SelectionInv, Selected
    <3>2. req = Foreseen
      BY <3>1, <1>2, <1>3, ForeseenIs
    <3>3. Accepted(req) /\ plane_info = AllInfo(req) /\ size = AllLayers(req)
      BY <2>2 DEF DerivationInv, Closed, Finished
    <3>4. foretold' = Told!partial_answer
      BY <2>2, <1>1, <3>2, <3>3, AnswersAre
    <3> QED
      BY <3>1, <3>2, <3>3, <3>4
  <2> QED
    BY <2>1, <2>2, <1>1
<1>6. /\ Foreseen' = Foreseen /\ Told!partial_answer' = Told!partial_answer
      /\ some' = some /\ Accepted(Foreseen)' = Accepted(Foreseen)
  BY <1>1, AnswersStay
<1>7. Foretold'
  BY <1>1, <1>5, <1>6 DEF Foretold, NoAnswer
<1> QED
  BY <1>4, <1>7 DEF DescriptionInv

\* Where the description and what was foretold of it stay, and no other was made,
\* it remains what it was.
LEMMA ForetoldStay ==
  ASSUME Foretold, description' = description, foretold' = foretold,
         phase' \in {"describe", "send", "allocate"} => phase \in {"describe", "send", "allocate"}
  PROVE  Foretold'
<1>1. /\ Foreseen' = Foreseen /\ Told!partial_answer' = Told!partial_answer
      /\ Accepted(Foreseen)' = Accepted(Foreseen)
      /\ mali_gralloc_select_format(Unflagged(description))'
           = mali_gralloc_select_format(Unflagged(description))
  BY AnswersStay
<1> QED
  BY <1>1 DEF Foretold, NoAnswer

\* Encoding, decoding, selection and derivation keep what is known of the
\* description.
LEMMA DescriptionStep ==
  SelectionInv /\ DerivationInv /\ DescriptionInv /\ [QueryNext]_allVars => DescriptionInv'
<1> SUFFICES ASSUME SelectionInv, DerivationInv, DescriptionInv, [QueryNext]_allVars
             PROVE  DescriptionInv'
  OBVIOUS
<1> USE DEF DescriptionInv
<1>1. ASSUME NEW d \in Asks, pc = "idle", getFromBufferDescriptorInfo(d) PROVE DescriptionInv'
  <2>1. plane' = 0
    BY <1>1 DEF getFromBufferDescriptorInfo, Select, SelectionInv, Quiescent
  <2> QED
    BY <1>1, <2>1 DEF getFromBufferDescriptorInfo, Select, Underway, Foretold, Unflagged
<1>2. CASE Foretell
  BY <1>2, ForetellStep
<1>3. CASE createDescriptor
  <2>1. CASE validateDescriptorInfo(description)
    <3>1. /\ phase = "describe" /\ phase' = "send" /\ description' = description /\ foretold' = foretold
          /\ wire' = grallocEncodeBufferDescriptor(description)
      BY <1>3, <2>1 DEF createDescriptor
    <3>2. Foretold'
      BY <3>1, ForetoldStay
    <3>3. Underway'
      <4>1. (wire = grallocEncodeBufferDescriptor(description))' /\ validateDescriptorInfo(description)'
        BY <2>1, <3>1
      <4> QED
        BY <3>1, <4>1 DEF Underway
    <3> QED
      BY <3>2, <3>3
  <2>2. CASE ~validateDescriptorInfo(description)
    <3>1. phase = "describe" /\ phase' = "idle" /\ asked' = asked /\ pc = "idle"
      BY <1>3, <2>2 DEF createDescriptor, armVars, SelectionInv, Quiescent
    <3>2. asked = NoAsk
      BY <3>1 DEF SelectionInv, Quiescent
    <3> QED
      BY <3>1, <3>2 DEF Underway, Foretold
  <2> QED
    BY <2>1, <2>2
<1>4. CASE allocate
  <2>1. /\ phase = "send" /\ phase' = "allocate" /\ asked' = grallocDecodeBufferDescriptor(wire)
        /\ description' = description /\ wire' = wire /\ foretold' = foretold
    BY <1>4 DEF allocate, Select
  <2>2. Foretold'
    BY <2>1, ForetoldStay
  <2>3. Underway'
    <3>1. /\ grallocDecodeBufferDescriptor(wire)' = grallocDecodeBufferDescriptor(wire)
          /\ grallocEncodeBufferDescriptor(description)' = grallocEncodeBufferDescriptor(description)
          /\ validateDescriptorInfo(description)' = validateDescriptorInfo(description)
      BY <2>1 DEF grallocDecodeBufferDescriptor, Descriptor
    <3> QED
      BY <2>1, <3>1 DEF Underway
  <2> QED
    BY <2>2, <2>3
<1>5. ASSUME UNCHANGED <<asked, queryVars>>,
             phase = "query" /\ pc' \in {"derive", "end"} => plane' = 0
      PROVE  DescriptionInv'
  <2>1. phase' = phase /\ description' = description /\ wire' = wire /\ foretold' = foretold /\ asked' = asked
    BY <1>5 DEF queryVars
  <2>2. Foretold'
    BY <2>1, ForetoldStay
  <2>3. /\ grallocDecodeBufferDescriptor(wire)' = grallocDecodeBufferDescriptor(wire)
        /\ grallocEncodeBufferDescriptor(description)' = grallocEncodeBufferDescriptor(description)
        /\ validateDescriptorInfo(description)' = validateDescriptorInfo(description)
        /\ Unflagged(description)' = Unflagged(description)
    BY <2>1 DEF grallocDecodeBufferDescriptor, Descriptor
  <2>4. Underway'
    BY <2>1, <2>3, <1>5 DEF Underway
  <2> QED
    BY <2>2, <2>4
<1>6. CASE phase = "idle" /\ Call /\ UNCHANGED <<asked, queryVars>>
  BY <1>5, <1>6
<1>7. CASE (Deriving \/ Making) /\ UNCHANGED <<asked, queryVars>>
  <2>1. phase = "query" /\ pc' \in {"derive", "end"} => plane' = 0
    BY <1>7 DEF Deriving, Making, Refuse, Derive, CalcPlane, adjust_rk_video_buffer_size, Layers, Underway
  <2> QED
    BY <1>5, <1>7, <2>1
<1>8. CASE Reply
  BY <1>8 DEF Reply, Underway, Foretold
<1>9. CASE UNCHANGED allVars
  <2>1. UNCHANGED <<asked, queryVars>> /\ pc' = pc /\ plane' = plane
    BY <1>9 DEF allVars, armVars, vars
  <2>2. phase = "query" /\ pc' \in {"derive", "end"} => plane' = 0
    BY <2>1 DEF Underway
  <2> QED
    BY <2>1, <2>2, <1>5
<1> QED
  BY <1>1, <1>2, <1>3, <1>4, <1>6, <1>7, <1>8, <1>9 DEF QueryNext

\* From the query of a client to the reply of the allocator, what is selected and
\* derived belongs to the description the client passed.
THEOREM DescriptionInvariance == QuerySpec => [](SelectionInv /\ DerivationInv /\ DescriptionInv)
<1>1. QueryInit => DescriptionInv
  BY DescriptionInit
<1>2. SelectionInv /\ DerivationInv /\ DescriptionInv /\ [QueryNext]_allVars => DescriptionInv'
  BY DescriptionStep
<1> QED
  BY <1>1, <1>2, DerivationInvariance, PTL DEF QuerySpec

\* In a call of the allocator that has got through, the descriptor is what the
\* description says, and the request a format selected for both.
LEMMA AllocatedIs ==
  ASSUME SelectionInv, DerivationInv, DescriptionInv, phase = "allocate"
  PROVE  /\ description \in Asks /\ validateDescriptorInfo(description)
         /\ Alike(asked, description) /\ asked # NoAsk
         /\ HalFormat(asked) = HalFormat(description)
         /\ asked.name = Min({description.name, MaxNameLength})
         /\ mali_gralloc_select_format(asked) = mali_gralloc_select_format(description)
         /\ \A f : Request(asked, f) = Request(description, f)
<1>1. /\ description \in Asks /\ validateDescriptorInfo(description)
      /\ asked = grallocDecodeBufferDescriptor(grallocEncodeBufferDescriptor(description))
  BY DEF DescriptionInv, Underway
<1>2. /\ Alike(asked, description) /\ asked.aidl = description.aidl /\ asked # NoAsk
      /\ HalFormat(asked) = HalFormat(description)
      /\ asked.name = Min({description.name, MaxNameLength})
  BY <1>1, DecodedAlike
<1> QED
  BY <1>1, <1>2, AlikeFlags, AlikeRequests

\* What an allocation derived is the closed form of a request selected for it.
LEMMA DerivedIs ==
  ASSUME SelectionInv, DerivationInv, DescriptionInv, Done, Derived
  PROVE  /\ Accepted(req) /\ plane_info = AllInfo(req) /\ size = AllLayers(req)
         /\ pixel_stride = Pixels(req) /\ (first # <<>> => first = Result(req))
         /\ \E f \in mali_gralloc_select_format(asked) : req = Request(asked, f)
         /\ req.usage = asked.usage
<1>1. pc = "end" /\ plane # 0 /\ Finished /\ asked # NoAsk
  BY AllocatedIs DEF Done, Derived, Finished
<1>2. PICK f \in mali_gralloc_select_format(asked) : req = Request(asked, f)
  BY <1>1 DEF SelectionInv, Selected
<1> QED
  BY <1>1, <1>2, RequestIs DEF DerivationInv, Closed, Kept

-----------------------------------------------------------------------------
(* The theorems.                                                            *)

\* AFBC headers are never written through a mapping of secure memory, and a video
\* encoder of rk356x or rk3588 gets memory that it reaches.
THEOREM HeapSuited == QuerySpec => []HeapSuits
<1>1. SelectionInv /\ DerivationInv /\ DescriptionInv => HeapSuits
  <2> SUFFICES ASSUME SelectionInv, DerivationInv, DescriptionInv, Done, Derived PROVE HeapSuits
    BY DEF HeapSuits
  <2>1. headers # {} => "PROTECTED" \notin asked.usage
    BY DerivedIs DEF DerivationInv, Kept
  <2> QED
    BY <2>1 DEF HeapSuits, pick_dma_buf_heap
<1> QED
  BY <1>1, DescriptionInvariance, PTL

\* The mapper foretells what the allocator does: it says of a description that it
\* is supported exactly when the allocator makes the buffer, the buffer is valid
\* for the description, and the answers given before are those given afterwards.
THEOREM Foretelling == QuerySpec => []ForetoldAsGot
<1>1. SelectionInv /\ DerivationInv /\ DescriptionInv => ForetoldAsGot
  <2> SUFFICES ASSUME SelectionInv, DerivationInv, DescriptionInv, Done PROVE ForetoldAsGot
    BY DEF ForetoldAsGot
  <2> DEFINE select == mali_gralloc_select_format(asked)
  <2>1. /\ description \in Asks /\ validateDescriptorInfo(description)
        /\ Alike(asked, description) /\ asked # NoAsk
        /\ HalFormat(asked) = HalFormat(description)
        /\ asked.name = Min({description.name, MaxNameLength})
        /\ select = mali_gralloc_select_format(description)
        /\ \A f : Request(asked, f) = Request(description, f)
    BY AllocatedIs DEF Done
  <2>2. Derived <=> \E f \in select : Accepted(Request(asked, f))
    <3>1. Derived => \E f \in select : Accepted(Request(asked, f))
      BY DerivedIs
    <3>2. ASSUME ~Derived, NEW f \in select, Accepted(Request(asked, f)) PROVE FALSE
      <4>1. pc = "end" /\ plane = 0
        <5>1. plane # 0 => plane \in 1 .. 3
          BY FormatsAssumption DEF Done, DerivationInv, Places, Info
        <5> QED
          BY <3>2, <5>1 DEF Done, Derived
      <4>2. select = {} \/ ~Accepted(req)
        BY <4>1, <2>1 DEF SelectionInv, Refusals, Accepted
      <4>3. PICK g \in select : req = Request(asked, g)
        BY <3>2, <2>1 DEF SelectionInv, Selected
      <4>4. f = g
        BY <3>2, <4>3, SelectedOnce
      <4> QED
        BY <3>2, <4>2, <4>3, <4>4
    <3> QED
      BY <3>1, <3>2
  <2>3. isSupported(description) <=> Derived
    BY <2>1, <2>2 DEF isSupported, Accepted
  <2>4. OwnBufferValid
    <3> SUFFICES ASSUME Derived PROVE OwnBufferValid
      BY DEF OwnBufferValid
    <3>1. req.width = description.width /\ req.height = description.height /\ req.layers = description.layers
      BY <2>1, DerivedIs, RequestIs DEF Alike
    <3>2. \A stride \in {pixel_stride} \cup (IF first = <<>> THEN {} ELSE {first[3]}) : stride = pixel_stride
      BY DerivedIs DEF Result
    <3> QED
      BY <3>1, <3>2, <2>1 DEF OwnBufferValid, validateBufferSize
  <2> DEFINE a == Unflagged(description)
  <2>5. /\ Alike(a, description) /\ ~a.aidl /\ description.aidl \in BOOLEAN
        /\ \A f : Request(a, f) = Request(asked, f)
    BY <2>1, UnflaggedAlike, AlikeRequests
  <2>6. /\ mali_gralloc_select_format(a) \subseteq select
        /\ ~JudgedByFlags(description) => mali_gralloc_select_format(a) = select
    BY <2>1, <2>5, AlikeSelection
  <2>7. ASSUME NEW f \in mali_gralloc_select_format(a) PROVE Foreseen = Request(asked, f)
    <3>1. (CHOOSE g \in mali_gralloc_select_format(a) : TRUE) \in mali_gralloc_select_format(a)
      BY <2>7, Zenon
    <3>2. f = CHOOSE g \in mali_gralloc_select_format(a) : TRUE
      BY <2>7, <3>1, SelectedOnce
    <3>3. Foreseen = Request(a, CHOOSE g \in mali_gralloc_select_format(a) : TRUE)
      BY Zenon DEF Foreseen
    <3> QED
      BY <3>2, <3>3, <2>5
  <2>8. IF mali_gralloc_select_format(a) # {} /\ Accepted(Foreseen)
        THEN foretold = Told!partial_answer ELSE foretold = NoAnswer
    BY DEF Done, DescriptionInv, Foretold
  <2>9. Told!partial_answer # NoAnswer
    <3>1. "WIDTH" \in DOMAIN Told!partial_answer /\ "WIDTH" \notin DOMAIN NoAnswer
      BY DEF Told!partial_answer, NoAnswer
    <3> QED
      BY <3>1
  <2>10. ASSUME ~JudgedByFlags(description) PROVE foretold # NoAnswer <=> Derived
    <3>1. Derived => foretold # NoAnswer
      BY <2>2, <2>6, <2>7, <2>8, <2>9, <2>10
    <3>2. foretold # NoAnswer => Derived
      BY <2>2, <2>6, <2>7, <2>8, <2>10
    <3> QED
      BY <3>1, <3>2
  <2>11. ASSUME Derived, foretold # NoAnswer, NEW t \in DOMAIN get_metadata
         PROVE  \/ foretold[t] = get_metadata[t]
                \/ t = "NAME" /\ description.name > MaxNameLength
                \/ t = "CHROMA_SITING" /\ ~is_rgb(req.base)
    <3>1. foretold = Told!partial_answer /\ mali_gralloc_select_format(a) # {}
      BY <2>8, <2>11
    <3>2. PICK g \in select : req = Request(asked, g)
      BY <2>11, DerivedIs
    <3>3. PICK f \in mali_gralloc_select_format(a) : TRUE
      BY <3>1
    <3>4. req = Foreseen
      BY <2>6, <2>7, <3>2, <3>3, SelectedOnce
    <3>5. foretold = partial_answer
      BY <2>11, <3>1, <3>4, DerivedIs, AnswersAre
    <3>6. /\ req.width = description.width /\ req.height = description.height
          /\ req.layers = description.layers /\ req.usage = description.usage
          /\ req.base \in DOMAIN formats
      BY <2>1, <3>2, RequestIs, SelectedBase DEF Alike
    <3>7. description.name > MaxNameLength \/ asked.name = description.name
      BY <2>1, AsksAssumption DEF MaxNameLength, Min
    <3>8. is_rgb(req.base) => (IF is_yuv(req.base) THEN "Unknown" ELSE "None")
                                = get_format_chroma_siting(req.base)
      BY <3>6, ChromaAssumption
    <3>9. /\ shared_metadata_init.name = asked.name
          /\ shared_metadata_init.dataspace = get_format_dataspace(req)
          /\ shared_metadata_init.chroma_siting = get_format_chroma_siting(req.base)
      BY DEF shared_metadata_init
    <3> QED
      BY <2>1, <3>5, <3>6, <3>7, <3>8, <3>9 DEF partial_answer, get_metadata
  <2> QED
    BY <2>3, <2>4, <2>10, <2>11 DEF ForetoldAsGot
<1> QED
  BY <1>1, DescriptionInvariance, PTL

-----------------------------------------------------------------------------
(* What every buffer and every answer satisfies: the theorems on AllocSize,    *)
(* whose derivations start from a selected or from a given request.           *)

\* A request that was not selected for a description is one of those the
\* allocator is called with directly.
Direct == asked = NoAsk => req = NoRequest \/ req \in Requests

\* Nothing has been asked at first.
LEMMA DirectInit == QueryInit => Direct
  BY DEF QueryInit, ArmInit, Init, Direct

\* A call of the allocator takes one of Requests; all other steps keep the
\* request or select it for a description.
LEMMA DirectStep ==
  SelectionInv /\ DescriptionInv /\ Direct /\ [QueryNext]_allVars => Direct'
<1> SUFFICES ASSUME SelectionInv, DescriptionInv, Direct, [QueryNext]_allVars PROVE Direct'
  OBVIOUS
<1>1. ASSUME NEW d \in Asks, getFromBufferDescriptorInfo(d) PROVE Direct'
  <2>1. asked' = Unflagged(d) /\ Unflagged(d) # NoAsk
    BY <1>1, UnflaggedAlike DEF getFromBufferDescriptorInfo, Select, Unflagged
  <2> QED
    BY <2>1 DEF Direct, NoAsk
<1>2. CASE Foretell \/ Reply
  BY <1>2 DEF Foretell, Reply, Return, Direct, NoRequest
<1>3. CASE createDescriptor \/ UNCHANGED allVars
  BY <1>3 DEF createDescriptor, allVars, armVars, vars, Direct, NoRequest, NoAsk
<1>4. CASE allocate
  <2>1. asked' = grallocDecodeBufferDescriptor(wire) /\ wire = grallocEncodeBufferDescriptor(description)
    BY <1>4 DEF allocate, Select, DescriptionInv, Underway
  <2>2. asked' # NoAsk
    BY <2>1, DecodedAlike
  <2> QED
    BY <2>2 DEF Direct, NoAsk
<1>5. CASE Call
  BY <1>5 DEF Call, Direct
<1>6. CASE (Deriving \/ Making) /\ UNCHANGED <<asked, queryVars>>
  BY <1>6 DEF Deriving, Making, Refuse, Derive, CalcPlane, adjust_rk_video_buffer_size, Layers,
     init_afbc, NoHeaders, Again, Direct, NoRequest, NoAsk
<1> QED
  BY <1>1, <1>2, <1>3, <1>4, <1>5, <1>6 DEF QueryNext

\* All that the theorems rest on.
QueryInv == SelectionInv /\ DerivationInv /\ DescriptionInv /\ Direct

\* The four invariants hold together.
THEOREM QueryInvariance == QuerySpec => []QueryInv
<1>1. QueryInit => Direct
  BY DirectInit
<1>2. SelectionInv /\ DescriptionInv /\ Direct /\ [QueryNext]_allVars => Direct'
  BY DirectStep
<1> QED
  BY <1>1, <1>2, DescriptionInvariance, PTL DEF QuerySpec, QueryInv

\* Every request has a format of the table and numbers for dimensions, which
\* the allocator has validated where it goes on to make a buffer.
LEMMA Measured ==
  ASSUME QueryInv, req # NoRequest
  PROVE  /\ Sound(req) /\ req.layers \in Nat
         /\ phase # "query" => req.width # 0 /\ req.height # 0 /\ req.layers # 0
<1> USE DEF QueryInv
<1>1. CASE asked = NoAsk
  BY <1>1, RequestsAssumption DEF Direct, Sound
<1>2. CASE asked # NoAsk
  <2>1. PICK f \in mali_gralloc_select_format(asked) : req = Request(asked, f)
    BY <1>2 DEF SelectionInv, Selected
  <2>2. /\ req.base \in DOMAIN formats
        /\ req.width = asked.width /\ req.height = asked.height /\ req.layers = asked.layers
    BY <2>1, SelectedBase, RequestIs
  <2>3. phase \in {"query", "allocate"} /\ description \in Asks
    BY <1>2 DEF SelectionInv, Quiescent, DescriptionInv, Underway
  <2>4. Alike(asked, description) /\ (phase # "query" => validateDescriptorInfo(description))
    BY <2>3, UnflaggedAlike, AllocatedIs DEF DescriptionInv, Underway
  <2> QED
    BY <2>2, <2>3, <2>4, AsksAssumption DEF Alike, Sound, validateDescriptorInfo
<1> QED
  BY <1>1, <1>2

\* The planes that are known are those of the closed form.
LEMMA KnownAre ==
  ASSUME QueryInv, NEW p \in Known
  PROVE  /\ req # NoRequest /\ Accepted(req) /\ p \in PlanesOf(req) /\ p \in Planes
         /\ plane_info[p] = InfoOf(req, p)
<1>1. pc \in {"plane", "layers", "allocated", "end"} /\ p \in 0 .. plane - 1
  BY DEF Known
<1>2. plane # 0
  BY <1>1
<1>3. req.base \in DOMAIN formats /\ plane \in 0 .. Info(req).npln /\ Info(req).npln \in 1 .. 3
  BY <1>1, <1>2, TableAssumption DEF QueryInv, DerivationInv, Places, Info
<1>4. p \in PlanesOf(req) /\ p \in Planes /\ p < plane /\ p < Info(req).npln
  BY <1>1, <1>3 DEF PlanesOf, Planes
<1>5. req # NoRequest
  BY <1>3, TableAssumption
<1>6. CASE pc = "plane"
  BY <1>4, <1>5, <1>6 DEF QueryInv, DerivationInv, Loop
<1>7. CASE pc # "plane"
  <2>1. Accepted(req) /\ plane_info = AllInfo(req)
    BY <1>1, <1>2, <1>7 DEF QueryInv, DerivationInv, Closed, Finished
  <2>2. plane_info[p] = InfoOf(req, p)
    BY <1>4, <2>1 DEF AllInfo
  <2> QED
    BY <1>4, <1>5, <2>1, <2>2
<1> QED
  BY <1>6, <1>7

\* The pixels asked for fit.
THEOREM PixelsHaveRoom == QuerySpec => []RowsFit
<1>1. QueryInv => RowsFit
  <2> SUFFICES ASSUME QueryInv, NEW p \in Known
               PROVE  /\ Cols(req, p) <= plane_info[p].alloc_width /\ Rows(req, p) <= plane_info[p].alloc_height
                      /\ Uncompressed(req) /\ OneStrideFlag(req) /\ WholeBytes(req) =>
                           Cols(req, p) * At(Info(req).bpp, p) <= plane_info[p].byte_stride * 8
    BY Zenon DEF RowsFit
  <2>1. Accepted(req) /\ p \in PlanesOf(req) /\ plane_info[p] = InfoOf(req, p) /\ Sound(req)
    BY KnownAre, Measured
  <2> QED
    BY <2>1, RowsAre, Zenon
<1> QED
  BY <1>1, QueryInvariance, PTL

\* What is stored in a plane ends before the next.
THEOREM PlanesHaveRoom == QuerySpec => []PlanesFit
<1>1. QueryInv => PlanesFit
  <2> SUFFICES ASSUME QueryInv, Derived, OneStrideFlag(req), HardwareOnly(req), NEW p \in Known
               PROVE  plane_info[p].offset + PlaneBytes(req, p, plane_info[p])
                        <= IF p + 1 < Info(req).npln THEN plane_info[p + 1].offset ELSE Layer
    BY Zenon DEF PlanesFit
  <2>1. Accepted(req) /\ p \in PlanesOf(req) /\ plane_info[p] = InfoOf(req, p) /\ Sound(req) /\ req # NoRequest
    BY KnownAre, Measured
  <2>2. phase # "query" /\ plane # 0 /\ pc = "end"
    BY DEF Derived, QueryInv, DescriptionInv, Underway
  <2>3. req.height # 0 /\ req.layers \in Nat \ {0}
    BY <2>1, <2>2, Measured
  <2>4. plane_info = AllInfo(req) /\ size = AllLayers(req)
    BY <2>2 DEF QueryInv, DerivationInv, Closed, Finished
  <2>5. p + 1 < Info(req).npln => plane_info[p + 1] = InfoOf(req, p + 1)
    <3>1. Info(req).npln \in 1 .. 3 /\ p \in Nat
      BY <2>1, RowIs DEF PlanesOf
    <3>2. p + 1 < Info(req).npln => p + 1 \in Planes
      BY <3>1 DEF Planes
    <3> QED
      BY <2>4, <3>2 DEF AllInfo
  <2>6. InfoOf(req, p).offset + PlaneBytes(req, p, InfoOf(req, p))
           <= IF p + 1 < Info(req).npln THEN InfoOf(req, p + 1).offset ELSE AllLayers(req) \div req.layers
    BY <2>1, <2>3, FitsIs, Zenon
  <2> QED
    BY <2>1, <2>4, <2>5, <2>6, Zenon DEF Layer
<1> QED
  BY <1>1, QueryInvariance, PTL

\* Planes and strides are where the hardware, the CPU and the client want them.
THEOREM AlignmentsKept == QuerySpec => []Aligned
<1>1. QueryInv => Aligned
  <2> SUFFICES ASSUME QueryInv PROVE Aligned
    OBVIOUS
  <2>1. ASSUME NEW p \in Known
        PROVE  /\ Accepted(req) /\ p \in PlanesOf(req) /\ plane_info[p] = InfoOf(req, p)
               /\ Sound(req) /\ req # NoRequest
    BY <2>1, KnownAre, Measured
  <2>2. ASSUME Derived, is_afbc(req), NEW p \in Known, NEW layer \in 0 .. req.layers - 1
        PROVE  (layer * Layer + plane_info[p].offset) % (IF is_tiled(req) THEN 4096 ELSE 128) = 0
    <3>1. phase # "query" /\ plane # 0 /\ pc = "end"
      BY <2>2 DEF Derived, QueryInv, DescriptionInv, Underway
    <3>2. req.layers \in Nat \ {0}
      BY <2>1, <2>2, <3>1, Measured
    <3>3. size = AllLayers(req)
      BY <3>1 DEF QueryInv, DerivationInv, Closed, Finished
    <3>4. (layer * (AllLayers(req) \div req.layers) + InfoOf(req, p).offset)
             % (IF is_tiled(req) THEN 4096 ELSE 128) = 0
      BY <2>1, <2>2, <3>2, AfbcAligned, Zenon
    <3> QED
      <4>1. plane_info[p].offset = InfoOf(req, p).offset /\ Layer = AllLayers(req) \div req.layers
        BY <2>1, <2>2, <3>3 DEF Layer
      <4> QED
        BY <3>4, <4>1
  <2>3. ASSUME NEW p \in Known, is_afrc(req)
        PROVE  plane_info[p].offset % afrc_plane_alignment(coding_unit_bytes(req, p)) = 0
    BY <2>1, <2>3, PlanesAre, Zenon DEF PlaneIs
  <2>4. ASSUME NEW p \in Known, Uncompressed(req)
        PROVE  /\ plane_info[p].byte_stride = LinearStride(req, p, LumaOf(req, p))
               /\ LumaOf(req, p) \in Nat /\ (p > 0 => LumaOf(req, p) = Luma(req))
               /\ (p = 0 => LumaOf(req, p) = 0)
               /\ "linear" \in Info(req).is
    <3>1. /\ plane_info[p].byte_stride = byte_stride(req, p, LumaOf(req, p)) /\ LumaOf(req, p) \in Nat
      BY <2>1, <2>4, PlanesAre, Zenon DEF PlaneIs
    <3>2. \A q, luma : byte_stride(req, q, luma) = LinearStride(req, q, luma)
      BY <2>4, Zenon DEF byte_stride, Uncompressed
    <3>3. Info0(req).byte_stride = byte_stride(req, 0, 0)
      BY DEF Info0, InfoAt
    <3>4. (p > 0 => LumaOf(req, p) = Luma(req)) /\ (p = 0 => LumaOf(req, p) = 0)
      BY <3>2, <3>3 DEF LumaOf, Luma
    <3>5. "linear" \in Info(req).is
      BY <2>1, <2>4, Zenon DEF Accepted, validate_format
    <3> QED
      BY <3>1, <3>2, <3>4, <3>5, Zenon
  <2>5. ASSUME NEW p \in Known, Uncompressed(req), ~StrideChosen(req), StrideFlags(req) = {}
        PROVE  LET bytes == plane_info[p].byte_stride * Info(req).tile_size IN
               /\ has_hw_usage(req) => bytes % (IF "yuv" \in Info(req).is THEN 128 ELSE 64) = 0
               /\ cpu_align(req, p) # 0 => bytes % cpu_align(req, p) = 0
    <3> DEFINE bytes == plane_info[p].byte_stride * Info(req).tile_size
    <3>1. /\ hw_align(req) # 0 => bytes % hw_align(req) = 0
          /\ cpu_align(req, p) # 0 => bytes % cpu_align(req, p) = 0
      BY <2>1, <2>4, <2>5, LinearAligned, Zenon
    <3>2. has_hw_usage(req) => /\ hw_align(req) = (IF "yuv" \in Info(req).is THEN 128 ELSE 64)
                               /\ hw_align(req) # 0
      BY <2>5 DEF hw_align
    <3> QED
      BY <3>1, <3>2, Zenon
  <2>6. StrideAsAsked
    <3> SUFFICES ASSUME 0 \in Known, Uncompressed(req), RkVideo(req), OneStrideFlag(req), WholeBytes(req)
                 PROVE  LET stride == plane_info[0].byte_stride IN
                        /\ "ALIGN_16"  \in req.usage => stride % 16 = 0
                        /\ "ALIGN_64"  \in req.usage => stride % 64 = 0
                        /\ "ALIGN_128" \in req.usage => stride % 128 = 0
                        /\ "ALIGN_256_ODD" \in req.usage => stride % 512 = 256
                        /\ "SPECIFY_STRIDE" \in req.usage /\ StrideFlags(req) = {} /\ req.base # "NV30" =>
                             stride * 8 = Align(req.width, Info(req).align_w) * At(Info(req).bpp, 0)
      BY Zenon DEF StrideAsAsked
    <3> DEFINE stride == plane_info[0].byte_stride
    <3>1. stride = LinearStride(req, 0, 0) /\ "linear" \in Info(req).is /\ Sound(req)
      BY <2>1, <2>4
    <3>2. ASSUME "SPECIFY_STRIDE" \in req.usage, StrideFlags(req) = {}, req.base # "NV30"
          PROVE  stride * 8 = Align(req.width, Info(req).align_w) * At(Info(req).bpp, 0)
      BY <3>1, <3>2, WidthObeyed, Zenon
    <3>3. StrideFlags(req) # {} => Flagged(StrideFlags(req), stride)
      BY <3>1, FlagObeyed, Zenon
    <3>4. \A x \in {"ALIGN_16", "ALIGN_64", "ALIGN_128", "ALIGN_256_ODD"} :
            x \in req.usage => StrideFlags(req) = {x}
      BY DEF OneStrideFlag, StrideFlags
    <3> HIDE DEF stride
    <3>5. /\ "ALIGN_16"  \in req.usage => stride % 16 = 0
          /\ "ALIGN_64"  \in req.usage => stride % 64 = 0
          /\ "ALIGN_128" \in req.usage => stride % 128 = 0
          /\ "ALIGN_256_ODD" \in req.usage => stride % 512 = 256
      BY <3>3, <3>4 DEF Flagged
    <3> QED
      BY <3>2, <3>5, Zenon DEF stride
  <2> QED
    BY <2>2, <2>3, <2>5, <2>6, Zenon DEF Aligned
<1> QED
  BY <1>1, QueryInvariance, PTL

\* The assertions on strides hold.
THEOREM AssertionsHold == QuerySpec => []StrideAssertions
<1>1. QueryInv => StrideAssertions
  <2> SUFFICES ASSUME QueryInv, Known # {}, HardwareOnly(req), OneStrideFlag(req), FlagsForVideo(req),
                      Uncompressed(req) => KeepsNote(req) /\ req.base # "BGR_888"
               PROVE  StrideAssertions
    BY DEF StrideAssertions
  <2>1. /\ Accepted(req) /\ Sound(req) /\ 0 \in Known /\ 0 \in PlanesOf(req)
    <3>1. PICK q \in Known : TRUE
      OBVIOUS
    <3>2. 0 \in Known
      <4>1. q \in 0 .. plane - 1 /\ Known = 0 .. plane - 1
        BY <3>1 DEF Known
      <4>2. plane \in Int
        <5>1. req.base \in DOMAIN formats /\ plane \in 0 .. Info(req).npln
          BY <3>1, <4>1, TableAssumption DEF QueryInv, DerivationInv, Places, Info, Known
        <5> QED
          BY <5>1, TableAssumption DEF Info
      <4> QED
        BY <4>1, <4>2
    <3> QED
      BY <3>2, KnownAre, Measured
  <2>2. ASSUME NEW p \in Known
        PROVE  /\ p \in PlanesOf(req) /\ plane_info[p] = InfoOf(req, p)
               /\ Shaped(req, p, plane_info[p])
               /\ plane_info[p].byte_stride = byte_stride(req, p, LumaOf(req, p))
    <3>1. p \in PlanesOf(req) /\ plane_info[p] = InfoOf(req, p)
      BY <2>2, KnownAre
    <3> QED
      BY <2>1, <3>1, PlanesAre, Zenon DEF PlaneIs
  <2>3. ASSUME Uncompressed(req), NEW p \in Known
        PROVE  /\ plane_info[p].byte_stride = LinearStride(req, p, LumaOf(req, p))
               /\ (p > 0 => LumaOf(req, p) = Luma(req)) /\ (p = 0 => LumaOf(req, p) = 0)
               /\ "linear" \in Info(req).is
    <3>1. \A q, luma : byte_stride(req, q, luma) = LinearStride(req, q, luma)
      BY <2>3, Zenon DEF byte_stride, Uncompressed
    <3>2. Info0(req).byte_stride = byte_stride(req, 0, 0)
      BY DEF Info0, InfoAt
    <3>3. (p > 0 => LumaOf(req, p) = Luma(req)) /\ (p = 0 => LumaOf(req, p) = 0)
      BY <3>1, <3>2 DEF LumaOf, Luma
    <3>4. "linear" \in Info(req).is
      BY <2>1, <2>3, Zenon DEF Accepted, validate_format
    <3> QED
      BY <2>2, <2>3, <3>1, <3>3, <3>4, Zenon
  <2>4. req.base = "YV12" => StrideFlags(req) = {}
    BY DEF FlagsForVideo, RkVideo
  <2>5. ASSUME req.base = "YV12", has_cpu_usage(req), NEW p \in Known \ {0}
        PROVE  /\ plane_info[p].byte_stride = Align(plane_info[0].byte_stride \div 2, 16)
               /\ has_hw_usage(req) => /\ plane_info[p].byte_stride % stride_align(req, p) = 0
                                       /\ plane_info[p].byte_stride % 16 = 0
    <3>1. Uncompressed(req) /\ p \in PlanesOf(req) /\ p > 0
      <4>1. p \in PlanesOf(req)
        BY <2>2, <2>5
      <4> QED
        BY <2>5, <4>1 DEF HardwareOnly, PlanesOf
    <3>2. /\ plane_info[p].byte_stride = LinearStride(req, p, Luma(req))
          /\ plane_info[0].byte_stride = Luma(req) /\ "linear" \in Info(req).is
      BY <2>1, <2>3, <2>5, <3>1 DEF Luma
    <3> QED
      BY <2>1, <2>4, <2>5, <3>1, <3>2, Yv12Strides, Zenon
  <2>6. ASSUME NEW p \in Known, is_afbc(req)
        PROVE  (plane_info[p].alloc_width * At(Info(req).bpp_afbc, p)) % 8 = 0
    <3>1. ~has_cpu_usage(req)
      BY <2>6 DEF HardwareOnly, Uncompressed
    <3> QED
      BY <2>1, <2>2, <2>6, <3>1, AfbcWhole, Zenon DEF Shaped
  <2>7. ASSUME NEW p \in Known, is_afrc(req)
        PROVE  AfrcTileRow(req, p) % (paging_tile(req)[2] * clump(req, p)[2]) = 0
    BY <2>1, <2>2, <2>7, AfrcWhole, Zenon
  <2>8. ASSUME NEW p \in Known, is_block_linear(req)
        PROVE  /\ (plane_info[p].alloc_width * At(Info(req).bpp, p)) % 8 = 0
               /\ BlockBytes(req, p) % (16 \div Vsub(req, p)) = 0
               /\ req.width # 0 => plane_info[0].alloc_width >= 16
    <3>1. ~has_cpu_usage(req)
      BY <2>8 DEF HardwareOnly, Uncompressed
    <3>2. plane_info[p].alloc_width = get_pixel_w(req, p) /\ plane_info[0].alloc_width = get_pixel_w(req, 0)
      BY <2>1, <2>2, <2>8 DEF Shaped
    <3> QED
      BY <2>1, <2>2, <2>8, <3>1, <3>2, BlockWhole, BlockIs, Zenon
  <2>9. ASSUME NEW p \in Known, Uncompressed(req)
        PROVE  (plane_info[p].alloc_width * At(Info(req).bpp, p)) % 8 = 0
    <3>1. WholeBytes(req) /\ "linear" \in Info(req).is
      BY <2>3, <2>9 DEF WholeBytes
    <3> QED
      BY <2>1, <2>2, <2>9, <3>1, RawExact, Zenon DEF Shaped
  <2>10. ASSUME Uncompressed(req), has_cpu_usage(req)
         PROVE  (plane_info[0].byte_stride * 8) % At(Info(req).bpp, 0) = 0
    <3>1. plane_info[0].byte_stride = LinearStride(req, 0, 0)
      BY <2>1, <2>3, <2>10
    <3> QED
      BY <2>1, <2>10, <3>1, PixelStrideExact, Zenon
  <2>11. \A p \in Known : p > 0 => p # 0
    OBVIOUS
  <2>12. Yv12Chroma
    BY <2>5, Zenon DEF Yv12Chroma
  <2>13. ASSUME NEW p \in Known
         PROVE  LET i == plane_info[p] IN
         /\ is_afbc(req) => (i.alloc_width * At(Info(req).bpp_afbc, p)) % 8 = 0
         /\ is_afrc(req) => AfrcTileRow(req, p) % (paging_tile(req)[2] * clump(req, p)[2]) = 0
         /\ is_block_linear(req) => /\ (i.alloc_width * At(Info(req).bpp, p)) % 8 = 0
                                    /\ BlockBytes(req, p) % (16 \div Vsub(req, p)) = 0
                                    /\ req.width # 0 => plane_info[0].alloc_width >= 16
         /\ Uncompressed(req) =>
              /\ (i.alloc_width * At(Info(req).bpp, p)) % 8 = 0
              /\ has_cpu_usage(req) /\ p = 0 => (i.byte_stride * 8) % At(Info(req).bpp, 0) = 0
              /\ req.base = "YV12" /\ has_hw_usage(req) /\ has_cpu_usage(req) /\ p > 0 =>
                   i.byte_stride % stride_align(req, p) = 0 /\ i.byte_stride % 16 = 0
    BY <2>5, <2>6, <2>7, <2>8, <2>9, <2>10, <2>11, <2>13, Zenon
  <2> QED
    BY <2>12, <2>13, Zenon DEF StrideAssertions
<1> QED
  BY <1>1, QueryInvariance, PTL

-----------------------------------------------------------------------------
(* Types.                                                                    *)

\* The descriptor and the history are typed at every step.
Typed ==
  /\ plane_info \in [Planes -> PlaneType]
  /\ size \in Nat /\ pixel_stride \in Nat
  /\ headers \subseteq Planes

\* An untouched descriptor has its type.
LEMMA FreshTyped == Fresh \in [Planes -> PlaneType]
  BY DEF Fresh, PlaneType

\* Each plane the loop adds has its type, since it is that of the closed form.
LEMMA TypedStep ==
  QueryInv /\ QueryInv' /\ Typed /\ [QueryNext]_allVars => Typed'
<1> SUFFICES ASSUME QueryInv, QueryInv', Typed, [QueryNext]_allVars PROVE Typed'
  OBVIOUS
<1>1. ASSUME UNCHANGED <<plane_info, size, pixel_stride>>, headers' \subseteq Planes PROVE Typed'
  BY <1>1 DEF Typed, Planes
<1>2. CASE \E d \in Asks : getFromBufferDescriptorInfo(d)
  BY <1>1, <1>2 DEF getFromBufferDescriptorInfo, Select, Typed
<1>3. CASE allocate \/ createDescriptor \/ UNCHANGED allVars
  BY <1>1, <1>3 DEF allocate, Select, createDescriptor, allVars, armVars, vars, Typed
<1>4. CASE Foretell \/ Reply
  <2>1. plane_info' = Fresh /\ size' = 0 /\ pixel_stride' = 0 /\ headers' \subseteq headers
    BY <1>4 DEF Foretell, Reply, Return
  <2> QED
    BY <2>1, FreshTyped DEF Typed
<1>5. CASE Call \/ Refuse \/ init_afbc \/ NoHeaders \/ Again
  BY <1>1, <1>5 DEF Call, Refuse, init_afbc, NoHeaders, Again, HeaderPlanes, Typed
<1>6. CASE Derive
  <2>1. /\ plane_info' = [plane_info EXCEPT ![0].offset = 0] /\ size' = 0
        /\ pixel_stride' = pixel_stride /\ headers' = headers
    BY <1>6 DEF Derive
  <2>2. plane_info' \in [Planes -> PlaneType]
    BY <2>1 DEF Typed, PlaneType, Planes
  <2> QED
    BY <2>1, <2>2 DEF Typed
<1>7. ASSUME pc \in {"plane", "layers"}, req' = req, Accepted(req)
      PROVE  Sound(req) /\ req.layers \in Nat /\ Info(req).npln \in 1 .. 3
  <2>1. req.base \in DOMAIN formats
    BY <1>7 DEF QueryInv, DerivationInv, Places
  <2>2. req # NoRequest
    BY <2>1, TableAssumption
  <2> QED
    BY <2>2, Measured, RowIs
<1>8. CASE CalcPlane
  <2>1. /\ pc = "plane" /\ pc' = "plane" /\ req' = req /\ plane' = plane + 1 /\ headers' = headers
        /\ plane < Info(req).npln
        /\ plane_info' = [plane_info EXCEPT ![plane] = PlaneInfo(PlaneStart(req, plane, size))]
    BY <1>8 DEF CalcPlane, AddPlane
  <2>2. /\ Accepted(req) /\ plane \in 0 .. Info(req).npln
    BY <2>1 DEF QueryInv, DerivationInv, Loop, Places
  <2>3. Sound(req) /\ Info(req).npln \in 1 .. 3
    BY <1>7, <2>1, <2>2
  <2>4. plane \in PlanesOf(req) /\ plane \in Planes /\ plane' # 0
    BY <2>1, <2>2, <2>3 DEF PlanesOf, Planes
  <2>5. /\ size' = SizeOf(req, plane + 1) /\ pixel_stride' = Pixels(req)
        /\ plane_info'[plane] = InfoOf(req, plane)
    <3>1. /\ size' = SizeOf(req', plane') /\ pixel_stride' = Pixels(req')
          /\ \A p \in Planes : p < plane' => plane_info'[p] = InfoOf(req', p)
      BY <2>1, <2>4 DEF QueryInv, DerivationInv, Loop, Planes
    <3> QED
      BY <2>1, <2>4, <3>1 DEF Planes
  <2>6. size' \in Nat /\ pixel_stride' \in Nat /\ plane_info'[plane] \in PlaneType
    <3>1. SizeOf(req, plane + 1) \in Nat
      BY <2>2, <2>3, <2>4, PlanesAre, Zenon DEF PlaneIs
    <3> QED
      BY <2>2, <2>3, <2>4, <2>5, <3>1, PixelsTyped, InfoTyped
  <2>7. plane_info' \in [Planes -> PlaneType]
    BY <2>1, <2>4, <2>6, Zenon DEF Typed
  <2> QED
    BY <2>1, <2>6, <2>7 DEF Typed, Planes
<1>9. CASE adjust_rk_video_buffer_size \/ Layers
  <2>1. /\ pc \in {"plane", "layers"} /\ pc' \in {"layers", "allocated"} /\ req' = req
        /\ UNCHANGED <<plane_info, pixel_stride, headers>>
    BY <1>9 DEF adjust_rk_video_buffer_size, Layers
  <2>2. Accepted(req') /\ size' \in {OneLayer(req'), AllLayers(req')}
    BY <2>1 DEF QueryInv, DerivationInv, Closed, Finished
  <2>3. Sound(req) /\ req.layers \in Nat /\ Accepted(req)
    BY <1>7, <2>1, <2>2
  <2>4. size' \in Nat
    BY <2>1, <2>2, <2>3, LayersAre
  <2> QED
    BY <2>1, <2>4 DEF Typed, Planes
<1> QED
  BY <1>2, <1>3, <1>4, <1>5, <1>6, <1>8, <1>9 DEF QueryNext, Deriving, Making

\* Every variable has its type.
THEOREM TypeCorrect == QuerySpec => []TypeOK
<1>1. QueryInit => Typed
  BY FreshTyped DEF QueryInit, ArmInit, Init, Typed
<1>2. QueryInv /\ QueryInv' /\ Typed /\ [QueryNext]_allVars => Typed'
  BY TypedStep
<1>3. QueryInv /\ Typed => TypeOK
  <2> SUFFICES ASSUME QueryInv, Typed PROVE TypeOK
    OBVIOUS
  <2>1. /\ pc \in {"idle", "derive", "plane", "layers", "allocated", "end"}
        /\ pc \in {"layers", "allocated"} => plane = Info(req).npln
    BY DEF QueryInv, DerivationInv, Places
  <2>2. req # NoRequest => req.base \in DOMAIN formats /\ req.width \in Nat /\ req.height \in Nat
    BY Measured DEF Sound
  <2>3. plane \in 0 .. 3
    <3>1. CASE pc = "idle"
      BY <3>1 DEF QueryInv, SelectionInv, Quiescent
    <3>2. CASE pc # "idle" /\ plane # 0
      <4>1. Info(req).npln \in 1 .. 3
        BY <3>2, TableAssumption DEF QueryInv, DerivationInv, Places, Info
      <4> QED
        BY <2>1, <3>2, <4>1 DEF QueryInv, DerivationInv, Places
    <3> QED
      BY <3>1, <3>2
  <2> QED
    BY <2>1, <2>2, <2>3 DEF Typed, TypeOK, PlaneType
<1> QED
  BY <1>1, <1>2, <1>3, QueryInvariance, PTL DEF QuerySpec

-----------------------------------------------------------------------------
(* Headers.                                                                  *)

\* Headers are only there after init_afbc, which writes those of the planes it
\* visits.
Headed == headers # {} => pc = "end" /\ is_afbc(req) /\ headers = HeaderPlanes

\* Only init_afbc writes headers, and whatever follows takes a new descriptor.
LEMMA HeadedStep ==
  QueryInv /\ Headed /\ [QueryNext]_allVars => Headed'
<1> SUFFICES ASSUME QueryInv, Headed, [QueryNext]_allVars PROVE Headed'
  OBVIOUS
<1>1. ASSUME headers = {}, headers' = headers PROVE Headed'
  BY <1>1 DEF Headed
<1>2. pc = "idle" \/ phase = "query" => headers = {}
  BY DEF QueryInv, DerivationInv, Untouched
<1>3. pc # "end" => headers = {}
  BY DEF Headed
<1>4. CASE \E d \in Asks : pc = "idle" /\ getFromBufferDescriptorInfo(d)
  BY <1>1, <1>2, <1>4 DEF getFromBufferDescriptorInfo, Select
<1>5. CASE Foretell
  BY <1>1, <1>2, <1>5 DEF Foretell
<1>6. CASE createDescriptor \/ UNCHANGED allVars
  <2>1. UNCHANGED <<pc, req, plane_info, headers>>
    BY <1>6 DEF createDescriptor, allVars, armVars, vars
  <2> QED
    BY <2>1 DEF Headed, HeaderPlanes, is_afbc
<1>7. CASE allocate
  <2>1. pc = "idle" /\ headers' = headers
    BY <1>7 DEF allocate, Select, QueryInv, SelectionInv, Quiescent
  <2> QED
    BY <1>1, <1>2, <2>1
<1>8. CASE Call \/ Refuse \/ Derive \/ CalcPlane \/ adjust_rk_video_buffer_size \/ Layers
  <2>1. pc # "end" /\ headers' = headers
    BY <1>8 DEF Call, Refuse, Derive, CalcPlane, adjust_rk_video_buffer_size, Layers
  <2> QED
    BY <1>1, <1>3, <2>1
<1>9. CASE init_afbc
  BY <1>9 DEF init_afbc, Headed, HeaderPlanes, is_afbc
<1>10. CASE NoHeaders \/ Again \/ Reply
  <2>1. headers' = {}
    BY <1>10 DEF NoHeaders, Again, Reply, Return
  <2> QED
    BY <2>1 DEF Headed
<1> QED
  BY <1>4, <1>5, <1>6, <1>7, <1>8, <1>9, <1>10 DEF QueryNext, Deriving, Making

\* The headers of all planes are written.
THEOREM HeadersComplete == QuerySpec => []HeadersWritten
<1>1. QueryInit => Headed
  BY DEF QueryInit, ArmInit, Init, Headed
<1>2. QueryInv /\ Headed /\ [QueryNext]_allVars => Headed'
  BY HeadedStep
<1>3. QueryInv /\ Headed => HeadersWritten
  <2> SUFFICES ASSUME QueryInv, Headed, Derived, HardwareOnly(req), headers # {} PROVE HeadersWritten
    BY DEF HeadersWritten
  <2>1. is_afbc(req) /\ headers = HeaderPlanes /\ ~has_cpu_usage(req)
    BY DEF Headed, HardwareOnly, Uncompressed
  <2>2. phase # "query" /\ plane # 0 /\ pc = "end" /\ 0 \in Known
    <3>1. plane \in Nat
      BY TableAssumption DEF Derived, QueryInv, DerivationInv, Places, Info
    <3> QED
      BY <3>1 DEF Derived, QueryInv, DescriptionInv, Underway, Known
  <2>3. req # NoRequest /\ Accepted(req) /\ Sound(req)
    BY <2>2, KnownAre, Measured
  <2>4. req.width # 0
    BY <2>2, <2>3, Measured
  <2>5. plane_info = AllInfo(req) /\ Info(req).npln \in 1 .. 3 /\ PlanesOf(req) \subseteq Planes
    BY <2>2, <2>3, RowIs DEF QueryInv, DerivationInv, Closed, Finished
  <2>6. \A p \in PlanesOf(req) : plane_info[p] = InfoOf(req, p) /\ Shaped(req, p, plane_info[p])
    <3> SUFFICES ASSUME NEW p \in PlanesOf(req)
                 PROVE  plane_info[p] = InfoOf(req, p) /\ Shaped(req, p, plane_info[p])
      OBVIOUS
    <3>1. p \in Planes /\ p < Info(req).npln
      BY <2>5 DEF PlanesOf
    <3>2. plane_info[p] = InfoOf(req, p)
      BY <2>5, <3>1 DEF AllInfo
    <3> QED
      BY <2>3, <3>2, PlanesAre, Zenon DEF PlaneIs
  <2>7. \A p \in Planes : plane_info[p].byte_stride # 0 <=> p \in PlanesOf(req)
    <3>1. \A p \in PlanesOf(req) : plane_info[p].byte_stride # 0
      BY <2>1, <2>3, <2>4, <2>6, AfbcStride
    <3>2. \A p \in Planes \ PlanesOf(req) : plane_info[p].byte_stride = 0
      BY <2>5 DEF AllInfo, Fresh, PlanesOf, Planes
    <3> QED
      BY <3>1, <3>2
  <2>8. headers = 0 .. Info(req).npln - 1
    BY <2>1, <2>5, <2>7 DEF HeaderPlanes, PlanesOf, Planes
  <2>9. \A p \in headers :
         LET i == plane_info[p]
             w == i.alloc_width \div sb(req, p)[1]
             h == i.alloc_height \div sb(req, p)[2] IN
         /\ sb_num(i) = w * h
         /\ Cols(req, p) <= w * sb(req, p)[1] /\ Rows(req, p) <= h * sb(req, p)[2]
         /\ sb_num(i) * 16 <= body_offset(req, i)
    <3>1. headers = PlanesOf(req)
      BY <2>8 DEF PlanesOf
    <3> QED
      BY <2>1, <2>3, <2>6, <3>1, HeadersAre, Zenon
  <2> QED
    BY <2>8, <2>9, Zenon DEF HeadersWritten
<1> QED
  BY <1>1, <1>2, <1>3, QueryInvariance, PTL DEF QuerySpec

-----------------------------------------------------------------------------
(* What the format table says of planes and linear pixels.                  *)

\* Formats of several planes are YUV, of three planes not block-linear, and a
\* linear pixel has a byte at least.
LEMMA TableFacts ==
  \A b \in DOMAIN formats : LET f == formats[b] IN
    /\ f.npln > 1 => "yuv" \in f.is
    /\ f.npln = 3 => "block_linear" \notin f.is
    /\ "linear" \in f.is => f.bpp[1] >= 8
<1> DEFINE P(f) == /\ f.npln > 1 => "yuv" \in f.is
                   /\ f.npln = 3 => "block_linear" \notin f.is
                   /\ "linear" \in f.is => f.bpp[1] >= 8
<1>1. \A b \in DOMAIN rgb_formats : P(rgb_formats[b])
  BY DEF rgb_formats, Row
<1>2. \A b \in DOMAIN yuv_formats : P(yuv_formats[b])
  <2>1. DOMAIN yuv_formats = {"NV12", "NV21", "NV16", "NV24", "NV30", "YV12", "YU12", "YUV422_8BIT",
                              "Y8", "Y16", "YUV420_8BIT_I", "YUV444", "Q410", "Q401"}
    BY DEF yuv_formats
  <2>2. P(yuv_formats["NV12"]) /\ P(yuv_formats["NV21"])
    BY DEF yuv_formats, Row
  <2>3. P(yuv_formats["NV16"]) /\ P(yuv_formats["NV24"])
    BY DEF yuv_formats, Row
  <2>4. P(yuv_formats["NV30"]) /\ P(yuv_formats["YV12"])
    BY DEF yuv_formats, Row
  <2>5. P(yuv_formats["YU12"]) /\ P(yuv_formats["Y8"])
    BY DEF yuv_formats, Row
  <2>6. P(yuv_formats["Y16"]) /\ P(yuv_formats["YUV422_8BIT"])
    BY DEF yuv_formats, Row
  <2>7. P(yuv_formats["YUV420_8BIT_I"]) /\ P(yuv_formats["YUV444"])
    BY DEF yuv_formats, Row
  <2>8. P(yuv_formats["Q410"]) /\ P(yuv_formats["Q401"])
    BY DEF yuv_formats, Row
  <2> HIDE DEF P
  <2> QED
    BY <2>1, <2>2, <2>3, <2>4, <2>5, <2>6, <2>7, <2>8
<1>3. \A b \in DOMAIN yuv_10bit_formats : P(yuv_10bit_formats[b])
  BY DEF yuv_10bit_formats, Row
<1>4. \A b \in DOMAIN other_formats : P(other_formats[b])
  BY DEF other_formats, Row
<1> HIDE DEF P
<1>5. \A b \in DOMAIN formats : P(formats[b])
  BY <1>1, <1>2, <1>3, <1>4, PartsAssumption
<1> QED
  BY <1>5 DEF P

-----------------------------------------------------------------------------
(* The components the mapper reports for each format.                       *)

\* The list of components that is looked up for an uncompressed format.
ListOf(base) ==
  IF base \in DOMAIN Fourccs /\ Fourccs[base] \in DOMAIN component_table
  THEN component_table[Fourccs[base]] ELSE <<>>

\* The lists of the RGB formats, written out.
LEMMA RgbLists ==
  /\ ListOf("RGB_565") = << << <<"B", 0, 5>>, <<"G", 5, 6>>, <<"R", 11, 5>> >> >>
  /\ ListOf("RGB_888") = << << <<"R", 0, 8>>, <<"G", 8, 8>>, <<"B", 16, 8>> >> >>
  /\ ListOf("RGBA_8888") = << << <<"R", 0, 8>>, <<"G", 8, 8>>, <<"B", 16, 8>>, <<"A", 24, 8>> >> >>
  /\ ListOf("BGRA_8888") = << << <<"B", 0, 8>>, <<"G", 8, 8>>, <<"R", 16, 8>>, <<"A", 24, 8>> >> >>
  /\ ListOf("RGBX_8888") = << << <<"R", 0, 8>>, <<"G", 8, 8>>, <<"B", 16, 8>> >> >>
  /\ ListOf("RGBA_1010102") = << << <<"R", 0, 10>>, <<"G", 10, 10>>, <<"B", 20, 10>>, <<"A", 30, 2>> >> >>
  /\ ListOf("RGBA_16161616") = << << <<"R", 0, 16>>, <<"G", 16, 16>>, <<"B", 32, 16>>, <<"A", 48, 16>> >> >>
  /\ ListOf("RGBA_10101010") = << << <<"R", 6, 10>>, <<"G", 22, 10>>, <<"B", 38, 10>>, <<"A", 54, 10>> >> >>
<1>1. /\ Fourccs["RGB_565"] = "RGB565" /\ Fourccs["RGB_888"] = "BGR888"
      /\ Fourccs["RGBA_8888"] = "ABGR8888" /\ Fourccs["BGRA_8888"] = "ARGB8888"
      /\ Fourccs["RGBX_8888"] = "XBGR8888" /\ Fourccs["RGBA_1010102"] = "ABGR2101010"
      /\ Fourccs["RGBA_16161616"] = "ABGR16161616F"
      /\ Fourccs["RGBA_10101010"] = "AXBXGXRX106106106106"
      /\ {"RGB_565", "RGB_888", "RGBA_8888", "BGRA_8888", "RGBX_8888",
          "RGBA_1010102", "RGBA_16161616", "RGBA_10101010"} \subseteq DOMAIN Fourccs
  BY DEF Fourccs
<1>2. /\ component_table["RGB565"] = << << <<"B", 0, 5>>, <<"G", 5, 6>>, <<"R", 11, 5>> >> >>
      /\ component_table["BGR888"] = << << <<"R", 0, 8>>, <<"G", 8, 8>>, <<"B", 16, 8>> >> >>
      /\ component_table["ABGR8888"] = << << <<"R", 0, 8>>, <<"G", 8, 8>>, <<"B", 16, 8>>, <<"A", 24, 8>> >> >>
      /\ {"RGB565", "BGR888", "ABGR8888"} \subseteq DOMAIN component_table
  BY DEF component_table, Run, Chroma8
<1>3. /\ component_table["ARGB8888"] = << << <<"B", 0, 8>>, <<"G", 8, 8>>, <<"R", 16, 8>>, <<"A", 24, 8>> >> >>
      /\ component_table["XBGR8888"] = << << <<"R", 0, 8>>, <<"G", 8, 8>>, <<"B", 16, 8>> >> >>
      /\ component_table["ABGR2101010"] = << << <<"R", 0, 10>>, <<"G", 10, 10>>, <<"B", 20, 10>>, <<"A", 30, 2>> >> >>
      /\ {"ARGB8888", "XBGR8888", "ABGR2101010"} \subseteq DOMAIN component_table
  BY DEF component_table, Run, Chroma8
<1>4. /\ component_table["ABGR16161616F"] = << << <<"R", 0, 16>>, <<"G", 16, 16>>, <<"B", 32, 16>>, <<"A", 48, 16>> >> >>
      /\ component_table["AXBXGXRX106106106106"] = << << <<"R", 6, 10>>, <<"G", 22, 10>>, <<"B", 38, 10>>, <<"A", 54, 10>> >> >>
      /\ {"ABGR16161616F", "AXBXGXRX106106106106"} \subseteq DOMAIN component_table
  BY DEF component_table, Run, Chroma8
<1> QED
  BY <1>1, <1>2, <1>3, <1>4 DEF ListOf

\* Those of the YUV formats with 8 bits.
LEMMA YuvLists ==
  /\ ListOf("NV12") = << << <<"Y", 0, 8>> >>, << <<"Cb", 0, 8>>, <<"Cr", 8, 8>> >> >>
  /\ ListOf("NV21") = << << <<"Y", 0, 8>> >>, << <<"Cr", 0, 8>>, <<"Cb", 8, 8>> >> >>
  /\ ListOf("NV16") = << << <<"Y", 0, 8>> >>, << <<"Cb", 0, 8>>, <<"Cr", 8, 8>> >> >>
  /\ ListOf("NV24") = << << <<"Y", 0, 8>> >>, << <<"Cb", 0, 8>>, <<"Cr", 8, 8>> >> >>
  /\ ListOf("NV30") = << << <<"Y", 0, 10>> >>, << <<"Cb", 0, 10>>, <<"Cr", 10, 10>> >> >>
  /\ ListOf("YV12") = << << <<"Y", 0, 8>> >>, << <<"Cr", 0, 8>> >>, << <<"Cb", 0, 8>> >> >>
  /\ ListOf("YU12") = << << <<"Y", 0, 8>> >>, << <<"Cb", 0, 8>> >>, << <<"Cr", 0, 8>> >> >>
  /\ ListOf("YUV422_8BIT") = << << <<"Y", 0, 8>>, <<"Cb", 8, 8>>, <<"Y", 16, 8>>, <<"Cr", 24, 8>> >> >>
<1>1. /\ Fourccs["NV12"] = "NV12" /\ Fourccs["NV21"] = "NV21" /\ Fourccs["NV16"] = "NV16"
      /\ Fourccs["NV24"] = "NV24" /\ Fourccs["NV30"] = "NV30"
      /\ Fourccs["YV12"] = "YVU420" /\ Fourccs["YU12"] = "YUV420"
      /\ Fourccs["YUV422_8BIT"] = "YUYV"
      /\ {"NV12", "NV21", "NV16", "NV24", "NV30", "YV12", "YU12", "YUV422_8BIT"} \subseteq DOMAIN Fourccs
  BY DEF Fourccs
<1>2. /\ component_table["NV12"] = << << <<"Y", 0, 8>> >>, << <<"Cb", 0, 8>>, <<"Cr", 8, 8>> >> >>
      /\ component_table["NV21"] = << << <<"Y", 0, 8>> >>, << <<"Cr", 0, 8>>, <<"Cb", 8, 8>> >> >>
      /\ component_table["NV16"] = << << <<"Y", 0, 8>> >>, << <<"Cb", 0, 8>>, <<"Cr", 8, 8>> >> >>
      /\ {"NV12", "NV21", "NV16"} \subseteq DOMAIN component_table
  BY DEF component_table, Run, Chroma8
<1>3. /\ component_table["NV24"] = << << <<"Y", 0, 8>> >>, << <<"Cb", 0, 8>>, <<"Cr", 8, 8>> >> >>
      /\ component_table["NV30"] = << << <<"Y", 0, 10>> >>, << <<"Cb", 0, 10>>, <<"Cr", 10, 10>> >> >>
      /\ component_table["YVU420"] = << << <<"Y", 0, 8>> >>, << <<"Cr", 0, 8>> >>, << <<"Cb", 0, 8>> >> >>
      /\ {"NV24", "NV30", "YVU420"} \subseteq DOMAIN component_table
  BY DEF component_table, Run, Chroma8
<1>4. /\ component_table["YUV420"] = << << <<"Y", 0, 8>> >>, << <<"Cb", 0, 8>> >>, << <<"Cr", 0, 8>> >> >>
      /\ component_table["YUYV"] = << << <<"Y", 0, 8>>, <<"Cb", 8, 8>>, <<"Y", 16, 8>>, <<"Cr", 24, 8>> >> >>
      /\ {"YUV420", "YUYV"} \subseteq DOMAIN component_table
  BY DEF component_table, Run, Chroma8
<1> QED
  BY <1>1, <1>2, <1>3, <1>4 DEF ListOf

\* Those of the YUV formats with 10 bits.
LEMMA Yuv10Lists ==
  /\ ListOf("Y210") = << << <<"Y", 6, 10>>, <<"Cb", 22, 10>>, <<"Y", 38, 10>>, <<"Cr", 54, 10>> >> >>
  /\ ListOf("P010") = << << <<"Y", 6, 10>> >>, << <<"Cb", 6, 10>>, <<"Cr", 22, 10>> >> >>
  /\ ListOf("P210") = << << <<"Y", 6, 10>> >>, << <<"Cb", 6, 10>>, <<"Cr", 22, 10>> >> >>
  /\ ListOf("Y410") = << << <<"Cb", 0, 10>>, <<"Y", 10, 10>>, <<"Cr", 20, 10>>, <<"A", 30, 2>> >> >>
  /\ ListOf("Y0L2") = << << <<"Y", 0, 10>>, <<"Cb", 10, 10>>, <<"Y", 20, 10>>, <<"A", 30, 1>>, <<"A", 31, 1>>,
              <<"Y", 32, 10>>, <<"Cr", 42, 10>>, <<"Y", 52, 10>>, <<"A", 62, 1>>, <<"A", 63, 1>> >> >>
<1>1. /\ Fourccs["Y210"] = "Y210" /\ Fourccs["P010"] = "P010" /\ Fourccs["P210"] = "P210"
      /\ Fourccs["Y410"] = "Y410" /\ Fourccs["Y0L2"] = "Y0L2"
      /\ {"Y210", "P010", "P210", "Y410", "Y0L2"} \subseteq DOMAIN Fourccs
  BY DEF Fourccs
<1>2. /\ component_table["Y210"] = << << <<"Y", 6, 10>>, <<"Cb", 22, 10>>, <<"Y", 38, 10>>, <<"Cr", 54, 10>> >> >>
      /\ component_table["P010"] = << << <<"Y", 6, 10>> >>, << <<"Cb", 6, 10>>, <<"Cr", 22, 10>> >> >>
      /\ component_table["P210"] = << << <<"Y", 6, 10>> >>, << <<"Cb", 6, 10>>, <<"Cr", 22, 10>> >> >>
      /\ {"Y210", "P010", "P210"} \subseteq DOMAIN component_table
  BY DEF component_table, Run, Chroma8
<1>3. /\ component_table["Y410"] = << << <<"Cb", 0, 10>>, <<"Y", 10, 10>>, <<"Cr", 20, 10>>, <<"A", 30, 2>> >> >>
      /\ component_table["Y0L2"] = << << <<"Y", 0, 10>>, <<"Cb", 10, 10>>, <<"Y", 20, 10>>, <<"A", 30, 1>>, <<"A", 31, 1>>,
           <<"Y", 32, 10>>, <<"Cr", 42, 10>>, <<"Y", 52, 10>>, <<"A", 62, 1>>, <<"A", 63, 1>> >> >>
      /\ {"Y410", "Y0L2"} \subseteq DOMAIN component_table
  BY DEF component_table, Run, Chroma8
<1> QED
  BY <1>1, <1>2, <1>3 DEF ListOf

\* Those of depth, stencil and data formats, which borrow another's.
LEMMA OtherLists ==
  /\ ListOf("R8") = << << <<"R", 0, 8>> >> >>
  /\ ListOf("STENCIL_8") = << << <<"R", 0, 8>> >> >>
  /\ ListOf("DEPTH_16") = << << <<"B", 0, 5>>, <<"G", 5, 6>>, <<"R", 11, 5>> >> >>
  /\ ListOf("DEPTH_24") = << << <<"R", 0, 8>>, <<"G", 8, 8>>, <<"B", 16, 8>> >> >>
  /\ ListOf("DEPTH_24_STENCIL_8") = << << <<"R", 0, 8>>, <<"G", 8, 8>>, <<"B", 16, 8>> >> >>
  /\ ListOf("DEPTH_32F") = << << <<"R", 0, 8>>, <<"G", 8, 8>>, <<"B", 16, 8>>, <<"A", 24, 8>> >> >>
  /\ ListOf("DEPTH_32F_STENCIL_8") = << << <<"R", 0, 8>>, <<"G", 8, 8>>, <<"B", 16, 8>>, <<"A", 24, 8>> >> >>
<1>1. /\ Fourccs["R8"] = "R8" /\ Fourccs["STENCIL_8"] = "R8"
      /\ Fourccs["DEPTH_16"] = "RGB565" /\ Fourccs["DEPTH_24"] = "BGR888"
      /\ Fourccs["DEPTH_24_STENCIL_8"] = "BGR888" /\ Fourccs["DEPTH_32F"] = "ABGR8888"
      /\ Fourccs["DEPTH_32F_STENCIL_8"] = "ABGR8888"
      /\ {"R8", "STENCIL_8", "DEPTH_16", "DEPTH_24", "DEPTH_24_STENCIL_8",
          "DEPTH_32F", "DEPTH_32F_STENCIL_8"} \subseteq DOMAIN Fourccs
  BY DEF Fourccs
<1>2. /\ component_table["R8"] = << << <<"R", 0, 8>> >> >>
      /\ component_table["RGB565"] = << << <<"B", 0, 5>>, <<"G", 5, 6>>, <<"R", 11, 5>> >> >>
      /\ component_table["BGR888"] = << << <<"R", 0, 8>>, <<"G", 8, 8>>, <<"B", 16, 8>> >> >>
      /\ {"R8", "RGB565", "BGR888"} \subseteq DOMAIN component_table
  BY DEF component_table, Run, Chroma8
<1>3. /\ component_table["ABGR8888"] = << << <<"R", 0, 8>>, <<"G", 8, 8>>, <<"B", 16, 8>>, <<"A", 24, 8>> >> >>
      /\ {"ABGR8888"} \subseteq DOMAIN component_table
  BY DEF component_table, Run, Chroma8
<1> QED
  BY <1>1, <1>2, <1>3 DEF ListOf

\* The bits that a sample of a plane has, or the group of pixels it stands for.
BitsOf(base, p) ==
  LET f == formats[base] IN
  At(f.bpp, p) * (IF f.npln = 1 /\ "yuv" \in f.is THEN f.hsub * f.tile_size ELSE 1)

\* Components one after another, within so many bits.
FitIn(list, bits) ==
  /\ \A c \in Range(list) : c[2] + c[3] <= bits
  /\ \A i, j \in DOMAIN list : i < j => list[i][2] + list[i][3] <= list[j][2]

Fit(base) ==
  \A p \in 0 .. formats[base].npln - 1 :
    FitIn(IF Len(ListOf(base)) > p THEN ListOf(base)[p + 1] ELSE <<>>, BitsOf(base, p))

\* Formats whose list has one, two and three planes, and none.
LEMMA FitOne ==
  ASSUME NEW base, formats[base].npln = 1,
         NEW Y, ListOf(base) = <<Y>>, FitIn(Y, BitsOf(base, 0))
  PROVE  Fit(base)
  BY DEF Fit

\* Two planes.
LEMMA FitTwo ==
  ASSUME NEW base, formats[base].npln = 2,
         NEW Y, NEW S, ListOf(base) = <<Y, S>>, FitIn(Y, BitsOf(base, 0)), FitIn(S, BitsOf(base, 1))
  PROVE  Fit(base)
  BY DEF Fit

\* Three planes.
LEMMA FitThree ==
  ASSUME NEW base, formats[base].npln = 3,
         NEW Y, NEW S, NEW U, ListOf(base) = <<Y, S, U>>,
         FitIn(Y, BitsOf(base, 0)), FitIn(S, BitsOf(base, 1)), FitIn(U, BitsOf(base, 2))
  PROVE  Fit(base)
  BY DEF Fit

\* Three planes in the table, and a list of two (NV30).
LEMMA FitTwoOfThree ==
  ASSUME NEW base, formats[base].npln = 3,
         NEW Y, NEW S, ListOf(base) = <<Y, S>>, FitIn(Y, BitsOf(base, 0)), FitIn(S, BitsOf(base, 1))
  PROVE  Fit(base)
<1>1. \A bits : FitIn(<<>>, bits)
  BY DEF FitIn, Range
<1> QED
  BY <1>1 DEF Fit

\* No list.
LEMMA FitNone ==
  /\ \A base : ListOf(base) = <<>> => Fit(base)
  /\ ListOf("BGR_888") = <<>> /\ ListOf("Y8") = <<>> /\ ListOf("Y16") = <<>>
  /\ ListOf("NV15") = <<>> /\ ListOf("RAW16") = <<>> /\ ListOf("BLOB") = <<>>
<1>1. \A base : ListOf(base) = <<>> => Fit(base)
  BY DEF Fit, FitIn, Range
<1>2. /\ ListOf("BGR_888") = <<>> /\ ListOf("Y8") = <<>> /\ ListOf("Y16") = <<>>
      /\ ListOf("NV15") = <<>> /\ ListOf("RAW16") = <<>> /\ ListOf("BLOB") = <<>>
  <2>1. /\ Fourccs["BGR_888"] = "RGB888" /\ Fourccs["NV15"] = "NV15" /\ Fourccs["RAW16"] = "R16"
        /\ {"Y8", "Y16", "BLOB"} \cap DOMAIN Fourccs = {}
    BY DEF Fourccs
  <2>2. {"RGB888", "NV15", "R16"} \cap DOMAIN component_table = {}
    BY DEF component_table
  <2> QED
    BY <2>1, <2>2 DEF ListOf
<1> QED
  BY <1>1, <1>2

\* The RGB formats.
LEMMA RgbFit ==
  \A base \in DOMAIN rgb_formats :
    "linear" \in formats[base].is /\ base \notin RawPacked => Fit(base)
<1>1. /\ formats["RGB_565"] = rgb_formats["RGB_565"] /\ formats["RGB_888"] = rgb_formats["RGB_888"]
      /\ formats["RGBA_8888"] = rgb_formats["RGBA_8888"]
      /\ formats["BGRA_8888"] = rgb_formats["BGRA_8888"]
      /\ formats["RGBX_8888"] = rgb_formats["RGBX_8888"]
      /\ formats["RGBA_1010102"] = rgb_formats["RGBA_1010102"]
      /\ formats["RGBA_16161616"] = rgb_formats["RGBA_16161616"]
      /\ formats["RGBA_10101010"] = rgb_formats["RGBA_10101010"]
  BY PartsAssumption DEF rgb_formats
<1>2. /\ formats["RGB_565"].npln = 1 /\ BitsOf("RGB_565", 0) = 16
      /\ formats["RGB_888"].npln = 1 /\ BitsOf("RGB_888", 0) = 24
      /\ formats["RGBA_8888"].npln = 1 /\ BitsOf("RGBA_8888", 0) = 32
      /\ formats["BGRA_8888"].npln = 1 /\ BitsOf("BGRA_8888", 0) = 32
      /\ formats["RGBX_8888"].npln = 1 /\ BitsOf("RGBX_8888", 0) = 32
      /\ formats["RGBA_1010102"].npln = 1 /\ BitsOf("RGBA_1010102", 0) = 32
      /\ formats["RGBA_16161616"].npln = 1 /\ BitsOf("RGBA_16161616", 0) = 64
      /\ formats["RGBA_10101010"].npln = 1 /\ BitsOf("RGBA_10101010", 0) = 64
  <2>1. /\ formats["RGB_565"].npln = 1 /\ BitsOf("RGB_565", 0) = 16
        /\ formats["RGB_888"].npln = 1 /\ BitsOf("RGB_888", 0) = 24
        /\ formats["RGBA_8888"].npln = 1 /\ BitsOf("RGBA_8888", 0) = 32
    BY <1>1, SMTT(30) DEF rgb_formats, Row, BitsOf, At
  <2>2. /\ formats["BGRA_8888"].npln = 1 /\ BitsOf("BGRA_8888", 0) = 32
        /\ formats["RGBX_8888"].npln = 1 /\ BitsOf("RGBX_8888", 0) = 32
        /\ formats["RGBA_1010102"].npln = 1 /\ BitsOf("RGBA_1010102", 0) = 32
    BY <1>1, SMTT(30) DEF rgb_formats, Row, BitsOf, At
  <2>3. /\ formats["RGBA_16161616"].npln = 1 /\ BitsOf("RGBA_16161616", 0) = 64
        /\ formats["RGBA_10101010"].npln = 1 /\ BitsOf("RGBA_10101010", 0) = 64
    BY <1>1, SMTT(30) DEF rgb_formats, Row, BitsOf, At
  <2> QED
    BY <2>1, <2>2, <2>3
<1>3. /\ FitIn(<< <<"B", 0, 5>>, <<"G", 5, 6>>, <<"R", 11, 5>> >>, 16)
      /\ FitIn(<< <<"R", 0, 8>>, <<"G", 8, 8>>, <<"B", 16, 8>> >>, 24)
      /\ FitIn(<< <<"R", 0, 8>>, <<"G", 8, 8>>, <<"B", 16, 8>>, <<"A", 24, 8>> >>, 32)
      /\ FitIn(<< <<"B", 0, 8>>, <<"G", 8, 8>>, <<"R", 16, 8>>, <<"A", 24, 8>> >>, 32)
      /\ FitIn(<< <<"R", 0, 8>>, <<"G", 8, 8>>, <<"B", 16, 8>> >>, 32)
      /\ FitIn(<< <<"R", 0, 10>>, <<"G", 10, 10>>, <<"B", 20, 10>>, <<"A", 30, 2>> >>, 32)
      /\ FitIn(<< <<"R", 0, 16>>, <<"G", 16, 16>>, <<"B", 32, 16>>, <<"A", 48, 16>> >>, 64)
      /\ FitIn(<< <<"R", 6, 10>>, <<"G", 22, 10>>, <<"B", 38, 10>>, <<"A", 54, 10>> >>, 64)
  BY DEF FitIn, Range
<1>4. /\ Fit("RGB_565") /\ Fit("RGB_888") /\ Fit("RGBA_8888") /\ Fit("BGRA_8888")
      /\ Fit("RGBX_8888") /\ Fit("RGBA_1010102") /\ Fit("RGBA_16161616") /\ Fit("RGBA_10101010")
  BY <1>2, <1>3, RgbLists, FitOne, ZenonT(40)
<1>5. \A base \in DOMAIN rgb_formats : "linear" \in rgb_formats[base].is /\ base \notin RawPacked =>
        base \in {"RGB_565", "RGB_888", "RGBA_8888", "BGRA_8888", "RGBX_8888", "RGBA_1010102",
                   "RGBA_16161616", "RGBA_10101010", "BGR_888"}
  BY DEF rgb_formats, Row, RawPacked
<1> QED
  BY <1>4, <1>5, FitNone, PartsAssumption

\* The YUV formats with 8 bits.
LEMMA YuvFit ==
  \A base \in DOMAIN yuv_formats :
    "linear" \in formats[base].is /\ base \notin RawPacked => Fit(base)
<1>1. /\ formats["NV12"] = yuv_formats["NV12"] /\ formats["NV21"] = yuv_formats["NV21"]
      /\ formats["NV16"] = yuv_formats["NV16"] /\ formats["NV24"] = yuv_formats["NV24"]
      /\ formats["NV30"] = yuv_formats["NV30"] /\ formats["YV12"] = yuv_formats["YV12"]
      /\ formats["YU12"] = yuv_formats["YU12"]
      /\ formats["YUV422_8BIT"] = yuv_formats["YUV422_8BIT"]
  BY PartsAssumption DEF yuv_formats
<1>2. /\ formats["NV12"].npln = 2 /\ BitsOf("NV12", 0) = 8 /\ BitsOf("NV12", 1) = 16
      /\ formats["NV21"].npln = 2 /\ BitsOf("NV21", 0) = 8 /\ BitsOf("NV21", 1) = 16
      /\ formats["NV16"].npln = 2 /\ BitsOf("NV16", 0) = 8 /\ BitsOf("NV16", 1) = 16
      /\ formats["NV24"].npln = 2 /\ BitsOf("NV24", 0) = 8 /\ BitsOf("NV24", 1) = 16
      /\ formats["NV30"].npln = 3 /\ BitsOf("NV30", 0) = 10 /\ BitsOf("NV30", 1) = 20 /\ BitsOf("NV30", 2) = 0
      /\ formats["YV12"].npln = 3 /\ BitsOf("YV12", 0) = 8 /\ BitsOf("YV12", 1) = 8 /\ BitsOf("YV12", 2) = 8
      /\ formats["YU12"].npln = 3 /\ BitsOf("YU12", 0) = 8 /\ BitsOf("YU12", 1) = 8 /\ BitsOf("YU12", 2) = 8
      /\ formats["YUV422_8BIT"].npln = 1 /\ BitsOf("YUV422_8BIT", 0) = 32
  BY <1>1 DEF yuv_formats, Row, BitsOf, At
<1>3. /\ FitIn(<< <<"Y", 0, 8>> >>, 8)
      /\ FitIn(<< <<"Cb", 0, 8>>, <<"Cr", 8, 8>> >>, 16)
      /\ FitIn(<< <<"Cr", 0, 8>>, <<"Cb", 8, 8>> >>, 16)
      /\ FitIn(<< <<"Y", 0, 10>> >>, 10)
      /\ FitIn(<< <<"Cb", 0, 10>>, <<"Cr", 10, 10>> >>, 20)
      /\ FitIn(<< <<"Cr", 0, 8>> >>, 8)
      /\ FitIn(<< <<"Cb", 0, 8>> >>, 8)
      /\ FitIn(<< <<"Y", 0, 8>>, <<"Cb", 8, 8>>, <<"Y", 16, 8>>, <<"Cr", 24, 8>> >>, 32)
  BY DEF FitIn, Range
<1>4. Fit("YUV422_8BIT")
  BY <1>2, <1>3, YuvLists, FitOne, ZenonT(40)
<1>5. Fit("NV12") /\ Fit("NV21") /\ Fit("NV16") /\ Fit("NV24")
  BY <1>2, <1>3, YuvLists, FitTwo, ZenonT(40)
<1>6. Fit("YV12") /\ Fit("YU12")
  BY <1>2, <1>3, YuvLists, FitThree, ZenonT(40)
<1>7. Fit("NV30")
  BY <1>2, <1>3, YuvLists, FitTwoOfThree, ZenonT(40)
<1>8. \A base \in DOMAIN yuv_formats : "linear" \in yuv_formats[base].is /\ base \notin RawPacked =>
        base \in {"NV12", "NV21", "NV16", "NV24", "NV30", "YV12", "YU12", "YUV422_8BIT", "Y8",
                   "Y16"}
  <2>1. DOMAIN yuv_formats = {"NV12", "NV21", "NV16", "NV24", "NV30", "YV12", "YU12", "YUV422_8BIT",
                              "Y8", "Y16", "YUV420_8BIT_I", "YUV444", "Q410", "Q401"}
    BY DEF yuv_formats
  <2>2. /\ "linear" \notin yuv_formats["YUV420_8BIT_I"].is /\ "linear" \notin yuv_formats["YUV444"].is
        /\ "linear" \notin yuv_formats["Q410"].is /\ "linear" \notin yuv_formats["Q401"].is
    BY DEF yuv_formats, Row
  <2> QED
    BY <2>1, <2>2
<1> QED
  BY <1>4, <1>5, <1>6, <1>7, <1>8, FitNone, PartsAssumption

\* The YUV formats with 10 bits.
LEMMA Yuv10Fit ==
  \A base \in DOMAIN yuv_10bit_formats :
    "linear" \in formats[base].is /\ base \notin RawPacked => Fit(base)
<1>1. /\ formats["Y210"] = yuv_10bit_formats["Y210"] /\ formats["P010"] = yuv_10bit_formats["P010"]
      /\ formats["P210"] = yuv_10bit_formats["P210"] /\ formats["Y410"] = yuv_10bit_formats["Y410"]
      /\ formats["Y0L2"] = yuv_10bit_formats["Y0L2"]
  BY PartsAssumption DEF yuv_10bit_formats
<1>2. /\ formats["Y210"].npln = 1 /\ BitsOf("Y210", 0) = 64
      /\ formats["P010"].npln = 2 /\ BitsOf("P010", 0) = 16 /\ BitsOf("P010", 1) = 32
      /\ formats["P210"].npln = 2 /\ BitsOf("P210", 0) = 16 /\ BitsOf("P210", 1) = 32
      /\ formats["Y410"].npln = 1 /\ BitsOf("Y410", 0) = 32
      /\ formats["Y0L2"].npln = 1 /\ BitsOf("Y0L2", 0) = 64
  BY <1>1 DEF yuv_10bit_formats, Row, BitsOf, At
<1>3. /\ FitIn(<< <<"Y", 6, 10>>, <<"Cb", 22, 10>>, <<"Y", 38, 10>>, <<"Cr", 54, 10>> >>, 64)
      /\ FitIn(<< <<"Y", 6, 10>> >>, 16)
      /\ FitIn(<< <<"Cb", 6, 10>>, <<"Cr", 22, 10>> >>, 32)
      /\ FitIn(<< <<"Cb", 0, 10>>, <<"Y", 10, 10>>, <<"Cr", 20, 10>>, <<"A", 30, 2>> >>, 32)
      /\ FitIn(<< <<"Y", 0, 10>>, <<"Cb", 10, 10>>, <<"Y", 20, 10>>, <<"A", 30, 1>>, <<"A", 31, 1>>,
                 <<"Y", 32, 10>>, <<"Cr", 42, 10>>, <<"Y", 52, 10>>, <<"A", 62, 1>>, <<"A", 63, 1>> >>, 64)
  BY DEF FitIn, Range
<1>4. Fit("Y210") /\ Fit("Y410") /\ Fit("Y0L2")
  BY <1>2, <1>3, Yuv10Lists, FitOne, ZenonT(40)
<1>5. Fit("P010") /\ Fit("P210")
  BY <1>2, <1>3, Yuv10Lists, FitTwo, ZenonT(40)
<1>6. \A base \in DOMAIN yuv_10bit_formats : "linear" \in yuv_10bit_formats[base].is /\ base \notin RawPacked =>
        base \in {"Y210", "P010", "P210", "Y410", "Y0L2", "NV15"}
  BY DEF yuv_10bit_formats, Row, RawPacked
<1> QED
  BY <1>4, <1>5, <1>6, FitNone, PartsAssumption

\* The other formats.
LEMMA OtherFit ==
  \A base \in DOMAIN other_formats :
    "linear" \in formats[base].is /\ base \notin RawPacked => Fit(base)
<1>1. /\ formats["R8"] = other_formats["R8"] /\ formats["STENCIL_8"] = other_formats["STENCIL_8"]
      /\ formats["DEPTH_16"] = other_formats["DEPTH_16"]
      /\ formats["DEPTH_24"] = other_formats["DEPTH_24"]
      /\ formats["DEPTH_24_STENCIL_8"] = other_formats["DEPTH_24_STENCIL_8"]
      /\ formats["DEPTH_32F"] = other_formats["DEPTH_32F"]
      /\ formats["DEPTH_32F_STENCIL_8"] = other_formats["DEPTH_32F_STENCIL_8"]
  BY PartsAssumption DEF other_formats
<1>2. /\ formats["R8"].npln = 1 /\ BitsOf("R8", 0) = 8
      /\ formats["STENCIL_8"].npln = 1 /\ BitsOf("STENCIL_8", 0) = 8
      /\ formats["DEPTH_16"].npln = 1 /\ BitsOf("DEPTH_16", 0) = 16
      /\ formats["DEPTH_24"].npln = 1 /\ BitsOf("DEPTH_24", 0) = 24
      /\ formats["DEPTH_24_STENCIL_8"].npln = 1 /\ BitsOf("DEPTH_24_STENCIL_8", 0) = 32
      /\ formats["DEPTH_32F"].npln = 1 /\ BitsOf("DEPTH_32F", 0) = 32
      /\ formats["DEPTH_32F_STENCIL_8"].npln = 1 /\ BitsOf("DEPTH_32F_STENCIL_8", 0) = 40
  BY <1>1 DEF other_formats, Row, BitsOf, At
<1>3. /\ FitIn(<< <<"R", 0, 8>> >>, 8)
      /\ FitIn(<< <<"B", 0, 5>>, <<"G", 5, 6>>, <<"R", 11, 5>> >>, 16)
      /\ FitIn(<< <<"R", 0, 8>>, <<"G", 8, 8>>, <<"B", 16, 8>> >>, 24)
      /\ FitIn(<< <<"R", 0, 8>>, <<"G", 8, 8>>, <<"B", 16, 8>> >>, 32)
      /\ FitIn(<< <<"R", 0, 8>>, <<"G", 8, 8>>, <<"B", 16, 8>>, <<"A", 24, 8>> >>, 32)
      /\ FitIn(<< <<"R", 0, 8>>, <<"G", 8, 8>>, <<"B", 16, 8>>, <<"A", 24, 8>> >>, 40)
  BY DEF FitIn, Range
<1>4. /\ Fit("R8") /\ Fit("STENCIL_8") /\ Fit("DEPTH_16") /\ Fit("DEPTH_24")
      /\ Fit("DEPTH_24_STENCIL_8") /\ Fit("DEPTH_32F") /\ Fit("DEPTH_32F_STENCIL_8")
  BY <1>2, <1>3, OtherLists, FitOne, ZenonT(40)
<1>5. \A base \in DOMAIN other_formats : "linear" \in other_formats[base].is /\ base \notin RawPacked =>
        base \in {"R8", "STENCIL_8", "DEPTH_16", "DEPTH_24", "DEPTH_24_STENCIL_8", "DEPTH_32F",
                   "DEPTH_32F_STENCIL_8", "RAW16", "BLOB"}
  BY DEF other_formats, Row, RawPacked
<1> QED
  BY <1>4, <1>5, FitNone, PartsAssumption

\* The components reported for a plane of a linear format fit into its samples.
LEMMA AllFit ==
  ASSUME NEW base \in DOMAIN formats, "linear" \in formats[base].is, base \notin RawPacked
  PROVE  Fit(base)
  BY PartsAssumption, RgbFit, YuvFit, Yuv10Fit, OtherFit, Zenon

-----------------------------------------------------------------------------
(* The switch of lock_flex.                                                 *)

\* A row of lock_flex: its plane is one of the format's, its stride that of its
\* plane (or of the other chroma plane of YU12), and its distance from sample to
\* sample, subsampled, that of the format.
InPlane(base, f) ==
  LET i == formats[base]
      h == IF f.p = 0 THEN 1 ELSE i.hsub IN
  /\ f.p \in 0 .. i.npln - 1
  /\ f.strideof = f.p \/ (base = "YU12" /\ f.p \in {1, 2} /\ f.strideof \in {1, 2})
  /\ f.hsub = h \/ (base \in {"YUV422_8BIT", "Y210"} /\ f.p = 0 /\ f.hsub = 2)
  /\ f.vsub = (IF f.p = 0 THEN 1 ELSE i.vsub)
  /\ f.inc * 8 * h = At(i.bpp, f.p) * f.hsub
  /\ f.at \in Nat /\ f.bytes \in 1 .. 2 /\ f.inc \in 1 .. 8 /\ f.at + f.bytes <= f.inc

\* No byte of a sample of one row is one of the other.
Apart(f, g) ==
  \A k, l \in Nat, b \in 0 .. f.bytes - 1, d \in 0 .. g.bytes - 1 :
    f.at + k * f.inc + b # g.at + l * g.inc + d

\* The component is in the list that is reported, at the same byte.
Listed(base, f) ==
  ListOf(base) # <<>> =>
    /\ f.p < Len(ListOf(base))
    /\ LET list == ListOf(base)[f.p + 1] IN
       \E k \in DOMAIN list : list[k][1] = f.c /\ list[k][2] \div 8 = f.at

RowsSound(base, rows) ==
  /\ Len(rows) = total_components(base) /\ DOMAIN rows = 1 .. Len(rows)
  /\ \A i \in DOMAIN rows : InPlane(base, rows[i]) /\ Listed(base, rows[i])
  /\ \A i, j \in DOMAIN rows : i # j /\ rows[i].p = rows[j].p => Apart(rows[i], rows[j])

FlexSound(base) == RowsSound(base, flex_rows(base))

\* Luma in a plane and both chroma components in another: samples of n bytes
\* whose x bits start at bit a.
SemiPlanarFormat(base, c1, c2, n, v, a, x) ==
  LET f == formats[base] IN
  /\ n \in {1, 2} /\ a \in 0 .. 7
  /\ f.npln = 2 /\ f.ncmp = <<1, 2, 0>> /\ f.bpp = <<8 * n, 16 * n, 0>> /\ f.hsub = 2 /\ f.vsub = v
  /\ ListOf(base) = << << <<"Y", a, x>> >>, << <<c1, a, x>>, <<c2, a + 8 * n, x>> >> >>

\* Their rows.
LEMMA SemiPlanarSound ==
  ASSUME NEW base, NEW c1, NEW c2, NEW n, NEW v, NEW a, NEW x,
         SemiPlanarFormat(base, c1, c2, n, v, a, x)
  PROVE  RowsSound(base, SemiPlanar(c1, c2, n, v))
<1> USE DEF SemiPlanarFormat
<1> DEFINE rows == SemiPlanar(c1, c2, n, v)
<1>1. Len(rows) = total_components(base) /\ DOMAIN rows = 1 .. Len(rows)
  BY DEF SemiPlanar, total_components
<1>2. \A i \in DOMAIN rows : InPlane(base, rows[i])
  BY DEF SemiPlanar, Packed, Flex, InPlane, At
<1>3. \A i, j \in DOMAIN rows : i # j /\ rows[i].p = rows[j].p => Apart(rows[i], rows[j])
  <2>1. /\ DOMAIN rows = 1 .. 3 /\ rows[1].p = 0 /\ rows[2].p = 1 /\ rows[3].p = 1
        /\ rows[2].at = 0 /\ rows[2].inc = 2 * n /\ rows[2].bytes = n
        /\ rows[3].at = n /\ rows[3].inc = 2 * n /\ rows[3].bytes = n
    BY DEF SemiPlanar, Packed, Flex
  <2> HIDE DEF rows
  <2>2. Apart(rows[2], rows[3]) /\ Apart(rows[3], rows[2])
    <3>1. CASE n = 1
      BY <2>1, <3>1 DEF Apart
    <3>2. CASE n = 2
      BY <2>1, <3>2 DEF Apart
    <3> QED
      BY <3>1, <3>2
  <2> QED
    BY <2>1, <2>2
<1>4. \A i \in DOMAIN rows : Listed(base, rows[i])
  <2> DEFINE luma   == << <<"Y", a, x>> >>
             chrome == << <<c1, a, x>>, <<c2, a + 8 * n, x>> >>
  <2>1. /\ rows[1].p = 0 /\ rows[1].c = luma[1][1] /\ rows[1].at = 0
        /\ rows[2].p = 1 /\ rows[2].c = chrome[1][1] /\ rows[2].at = 0
        /\ rows[3].p = 1 /\ rows[3].c = chrome[2][1] /\ rows[3].at = n /\ DOMAIN rows = 1 .. 3
    BY DEF SemiPlanar, Packed, Flex
  <2>2. /\ luma[1][2] \div 8 = 0 /\ 1 \in DOMAIN luma
        /\ chrome[1][2] \div 8 = 0 /\ 1 \in DOMAIN chrome
        /\ chrome[2][2] \div 8 = n /\ 2 \in DOMAIN chrome
    OBVIOUS
  <2> HIDE DEF rows, luma, chrome
  <2>3. Len(ListOf(base)) = 2 /\ ListOf(base)[1] = luma /\ ListOf(base)[2] = chrome
    BY DEF luma, chrome
  <2>4. Listed(base, rows[1])
    BY <2>1, <2>2, <2>3 DEF Listed
  <2>5. Listed(base, rows[2])
    BY <2>1, <2>2, <2>3 DEF Listed
  <2>6. Listed(base, rows[3])
    BY <2>1, <2>2, <2>3 DEF Listed
  <2> QED
    BY <2>1, <2>4, <2>5, <2>6
<1> QED
  BY <1>1, <1>2, <1>3, <1>4 DEF RowsSound

\* Luma in a plane and each chroma component in one of its own.
PlanarFormat(base, p, q) ==
  LET f == formats[base] IN
  /\ <<base, p, q>> \in {<<"YV12", 2, 1>>, <<"YU12", 1, 2>>}
  /\ f.npln = 3 /\ f.ncmp = <<1, 1, 1>> /\ f.bpp = <<8, 8, 8>> /\ f.hsub = 2 /\ f.vsub = 2
  /\ Len(ListOf(base)) = 3 /\ ListOf(base)[1] = << <<"Y", 0, 8>> >>
  /\ ListOf(base)[p + 1] = << <<"Cb", 0, 8>> >> /\ ListOf(base)[q + 1] = << <<"Cr", 0, 8>> >>

\* Their rows.
LEMMA PlanarSound ==
  ASSUME NEW base, NEW p, NEW q, PlanarFormat(base, p, q), NEW rows,
         rows = << Packed("Y", 0, 1, 1, 1), Flex("Cb", p, 0, 1, 1, 2, 2, 2), Flex("Cr", q, 0, 1, 1, 1, 2, 2) >>
  PROVE  RowsSound(base, rows)
<1> USE DEF PlanarFormat
<1>1. Len(rows) = total_components(base) /\ DOMAIN rows = 1 .. Len(rows)
  BY DEF total_components
<1>2. \A i \in DOMAIN rows : InPlane(base, rows[i])
  BY DEF Packed, Flex, InPlane, At
<1>3. \A i, j \in DOMAIN rows : i # j /\ rows[i].p = rows[j].p => Apart(rows[i], rows[j])
  BY DEF Packed, Flex, Apart
<1>4. \A i \in DOMAIN rows : Listed(base, rows[i])
  <2> DEFINE y  == << <<"Y", 0, 8>> >>
             cb == << <<"Cb", 0, 8>> >>
             cr == << <<"Cr", 0, 8>> >>
  <2>1. /\ rows[1].p = 0 /\ rows[1].c = y[1][1] /\ rows[1].at = 0
        /\ rows[2].p = p /\ rows[2].c = cb[1][1] /\ rows[2].at = 0
        /\ rows[3].p = q /\ rows[3].c = cr[1][1] /\ rows[3].at = 0 /\ DOMAIN rows = 1 .. 3
    BY DEF Packed, Flex
  <2>2. /\ y[1][2] \div 8 = 0 /\ 1 \in DOMAIN y
        /\ cb[1][2] \div 8 = 0 /\ 1 \in DOMAIN cb
        /\ cr[1][2] \div 8 = 0 /\ 1 \in DOMAIN cr
    OBVIOUS
  <2> HIDE DEF y, cb, cr
  <2>3. /\ Len(ListOf(base)) = 3 /\ ListOf(base)[1] = y /\ ListOf(base)[p + 1] = cb /\ ListOf(base)[q + 1] = cr
        /\ p < 3 /\ q < 3
    BY DEF y, cb, cr
  <2>4. Listed(base, rows[1])
    <3>1. rows[1].p < Len(ListOf(base)) /\ ListOf(base)[rows[1].p + 1] = y
      BY <2>1, <2>3
    <3> QED
      BY <2>1, <2>2, <3>1, Zenon DEF Listed
  <2>5. Listed(base, rows[2])
    BY <2>1, <2>2, <2>3 DEF Listed
  <2>6. Listed(base, rows[3])
    BY <2>1, <2>2, <2>3 DEF Listed
  <2> QED
    BY <2>1, <2>4, <2>5, <2>6
<1> QED
  BY <1>1, <1>2, <1>3, <1>4 DEF RowsSound

\* Two pixels that share their chroma, in one plane.
PackedYuvFormat(base, n, a, x) ==
  LET f == formats[base] IN
  /\ base \in {"YUV422_8BIT", "Y210"} /\ n \in {1, 2} /\ a \in 0 .. 7
  /\ f.npln = 1 /\ f.ncmp = <<3, 0, 0>> /\ f.bpp = <<16 * n, 0, 0>>
  /\ ListOf(base) = << << <<"Y", a, x>>, <<"Cb", a + 8 * n, x>>,
                          <<"Y", a + 16 * n, x>>, <<"Cr", a + 24 * n, x>> >> >>

\* Their rows.
LEMMA PackedYuvSound ==
  ASSUME NEW base, NEW n, NEW a, NEW x, PackedYuvFormat(base, n, a, x)
  PROVE  RowsSound(base, PackedYuv(n))
<1> USE DEF PackedYuvFormat
<1> DEFINE rows == PackedYuv(n)
<1>1. Len(rows) = total_components(base) /\ DOMAIN rows = 1 .. Len(rows)
  BY DEF PackedYuv, total_components
<1>2. \A i \in DOMAIN rows : InPlane(base, rows[i])
  BY DEF PackedYuv, Packed, Flex, InPlane, At
<1>3. \A i, j \in DOMAIN rows : i # j /\ rows[i].p = rows[j].p => Apart(rows[i], rows[j])
  BY DEF PackedYuv, Packed, Flex, Apart
<1>4. \A i \in DOMAIN rows : Listed(base, rows[i])
  <2> DEFINE list == << <<"Y", a, x>>, <<"Cb", a + 8 * n, x>>, <<"Y", a + 16 * n, x>>, <<"Cr", a + 24 * n, x>> >>
  <2>1. /\ rows[1].p = 0 /\ rows[1].c = list[1][1] /\ rows[1].at = 0
        /\ rows[2].p = 0 /\ rows[2].c = list[2][1] /\ rows[2].at = n
        /\ rows[3].p = 0 /\ rows[3].c = list[4][1] /\ rows[3].at = 3 * n /\ DOMAIN rows = 1 .. 3
    BY DEF PackedYuv, Packed, Flex
  <2>2. /\ list[1][2] \div 8 = 0 /\ list[2][2] \div 8 = n /\ list[4][2] \div 8 = 3 * n
        /\ DOMAIN list = 1 .. 4
    OBVIOUS
  <2> HIDE DEF rows, list
  <2>3. Len(ListOf(base)) = 1 /\ ListOf(base)[1] = list
    BY DEF list
  <2>4. Listed(base, rows[1])
    BY <2>1, <2>2, <2>3 DEF Listed
  <2>5. Listed(base, rows[2])
    BY <2>1, <2>2, <2>3 DEF Listed
  <2>6. Listed(base, rows[3])
    BY <2>1, <2>2, <2>3 DEF Listed
  <2> QED
    BY <2>1, <2>4, <2>5, <2>6
<1> QED
  BY <1>1, <1>2, <1>3, <1>4 DEF RowsSound

\* Samples of n bytes at different places of a pixel share no byte.
LEMMA SamplesApart ==
  ASSUME NEW n, NEW inc, <<n, inc>> \in {<<1, 3>>, <<1, 4>>, <<2, 8>>},
         NEW i \in Nat, NEW j \in Nat, i # j, (i + 1) * n <= inc, (j + 1) * n <= inc,
         NEW u \in Nat, NEW v \in Nat, NEW b \in 0 .. n - 1, NEW d \in 0 .. n - 1
  PROVE  i * n + u * inc + b # j * n + v * inc + d
<1>1. CASE n = 1 /\ inc = 3
  BY <1>1
<1>2. CASE n = 1 /\ inc = 4
  BY <1>2
<1>3. CASE n = 2 /\ inc = 8
  BY <1>3
<1> QED
  BY <1>1, <1>2, <1>3

\* Components of a pixel, one after another: k of n bytes.
PackedRgbFormat(base, order, k, n, inc) ==
  LET f    == formats[base]
      list == ListOf(base)[1] IN
  /\ k \in {3, 4} /\ <<n, inc>> \in {<<1, 3>>, <<1, 4>>, <<2, 8>>} /\ k * n <= inc
  /\ Len(order) = k /\ DOMAIN order = 1 .. k
  /\ f.npln = 1 /\ f.ncmp = <<k, 0, 0>> /\ f.bpp = <<8 * inc, 0, 0>>
  /\ Len(ListOf(base)) = 1 /\ DOMAIN list = 1 .. k
  /\ \A i \in 1 .. k : list[i][1] = order[i] /\ list[i][2] \div 8 = (i - 1) * n

\* Their rows.
LEMMA PackedRgbSound ==
  ASSUME NEW base, NEW order, NEW k, NEW n, NEW inc, PackedRgbFormat(base, order, k, n, inc)
  PROVE  RowsSound(base, PackedRgb(order, n, inc))
<1> DEFINE list == ListOf(base)[1]
           rows == PackedRgb(order, n, inc)
<1>0. /\ k \in {3, 4} /\ n \in {1, 2} /\ inc \in {3, 4, 8} /\ k * n <= inc
      /\ <<n, inc>> \in {<<1, 3>>, <<1, 4>>, <<2, 8>>} /\ Len(order) = k
  BY DEF PackedRgbFormat
<1>1. DOMAIN rows = 1 .. k /\ Len(rows) = k
  BY <1>0 DEF PackedRgb
<1>2. total_components(base) = k
  BY <1>0 DEF total_components, PackedRgbFormat
<1>3. \A i \in 1 .. k :
        /\ rows[i].c = order[i] /\ rows[i].p = 0 /\ rows[i].at = (i - 1) * n /\ rows[i].bytes = n
        /\ rows[i].inc = inc /\ rows[i].strideof = 0 /\ rows[i].hsub = 1 /\ rows[i].vsub = 1
  BY <1>0 DEF PackedRgb, Packed, Flex
<1> HIDE DEF rows
<1>4. ASSUME NEW i \in 1 .. k PROVE InPlane(base, rows[i])
  <2>1. formats[base].npln = 1 /\ At(formats[base].bpp, 0) = 8 * inc
    BY DEF At, PackedRgbFormat
  <2>2. (i - 1) * n \in Nat /\ (i - 1) * n + n <= inc
    BY <1>0
  <2>3. /\ rows[i].p = 0 /\ rows[i].at = (i - 1) * n /\ rows[i].bytes = n
        /\ rows[i].inc = inc /\ rows[i].strideof = 0 /\ rows[i].hsub = 1 /\ rows[i].vsub = 1
    BY <1>3
  <2>4. inc * 8 * 1 = 8 * inc * 1 /\ n \in 1 .. 2 /\ inc \in 1 .. 8 /\ 0 \in 0 .. 1 - 1
    BY <1>0
  <2> QED
    BY <2>1, <2>2, <2>3, <2>4, Zenon DEF InPlane
<1>5. ASSUME NEW i \in 1 .. k, NEW j \in 1 .. k, i # j PROVE Apart(rows[i], rows[j])
  <2> DEFINE x == i - 1
             y == j - 1
  <2>1. x \in Nat /\ y \in Nat /\ x # y /\ (x + 1) * n <= inc /\ (y + 1) * n <= inc
    BY <1>0, <1>5
  <2> HIDE DEF x, y
  <2>2. ASSUME NEW u \in Nat, NEW v \in Nat, NEW b \in 0 .. n - 1, NEW d \in 0 .. n - 1
        PROVE  x * n + u * inc + b # y * n + v * inc + d
    BY <1>0, <2>1, SamplesApart
  <2>3. /\ rows[i].at = x * n /\ rows[i].inc = inc /\ rows[i].bytes = n
        /\ rows[j].at = y * n /\ rows[j].inc = inc /\ rows[j].bytes = n
    BY <1>3 DEF x, y
  <2> QED
    BY <2>2, <2>3 DEF Apart
<1>6. ASSUME NEW i \in 1 .. k PROVE Listed(base, rows[i])
  <2>1. /\ Len(ListOf(base)) = 1 /\ i \in DOMAIN list
        /\ list[i][1] = order[i] /\ list[i][2] \div 8 = (i - 1) * n
    BY Zenon DEF PackedRgbFormat
  <2>2. rows[i].p = 0 /\ rows[i].c = list[i][1] /\ list[i][2] \div 8 = rows[i].at
    BY <1>3, <2>1, Zenon
  <2>3. rows[i].p < Len(ListOf(base)) /\ ListOf(base)[rows[i].p + 1] = list
    BY <2>1, <2>2
  <2> QED
    BY <2>1, <2>2, <2>3, Zenon DEF Listed
<1> QED
  BY <1>1, <1>2, <1>4, <1>5, <1>6 DEF RowsSound, rows

\* Luma only.
LumaFormat(base, n) ==
  LET f == formats[base] IN
  /\ n \in {1, 2} /\ ListOf(base) = <<>>
  /\ f.npln = 1 /\ f.ncmp = <<1, 0, 0>> /\ f.bpp = <<8 * n, 0, 0>>

\* Their row.
LEMMA LumaSound ==
  ASSUME NEW base, NEW n, LumaFormat(base, n)
  PROVE  RowsSound(base, << Packed("Y", 0, n, n, 1) >>)
<1> USE DEF LumaFormat
<1> DEFINE rows == << Packed("Y", 0, n, n, 1) >>
<1>1. Len(rows) = total_components(base) /\ DOMAIN rows = 1 .. Len(rows)
  BY DEF total_components
<1>2. \A i \in DOMAIN rows : InPlane(base, rows[i])
  BY DEF Packed, Flex, InPlane, At
<1> QED
  BY <1>1, <1>2 DEF RowsSound, Listed

\* The formats lock_flex knows.
FlexBases == {"Y8", "Y16", "NV12", "NV21", "NV16", "P010", "P210", "YV12", "YU12", "YUV422_8BIT", "Y210",
              "RGBA_16161616", "RGBA_8888", "BGRA_8888", "RGBX_8888", "RGB_888"}

\* The switch of lock_flex fits the format table and the lists of components.
LEMMA FlexIs == \A base \in FlexBases : FlexSound(base)
<1>1. /\ formats["NV12"] = yuv_formats["NV12"] /\ formats["NV21"] = yuv_formats["NV21"]
      /\ formats["NV16"] = yuv_formats["NV16"] /\ formats["YV12"] = yuv_formats["YV12"]
      /\ formats["YU12"] = yuv_formats["YU12"]
      /\ formats["YUV422_8BIT"] = yuv_formats["YUV422_8BIT"]
      /\ formats["Y8"] = yuv_formats["Y8"] /\ formats["Y16"] = yuv_formats["Y16"]
  BY PartsAssumption DEF yuv_formats
<1>2. /\ formats["P010"] = yuv_10bit_formats["P010"] /\ formats["P210"] = yuv_10bit_formats["P210"]
      /\ formats["Y210"] = yuv_10bit_formats["Y210"]
  BY PartsAssumption DEF yuv_10bit_formats
<1>3. /\ formats["RGBA_16161616"] = rgb_formats["RGBA_16161616"]
      /\ formats["RGBA_8888"] = rgb_formats["RGBA_8888"]
      /\ formats["BGRA_8888"] = rgb_formats["BGRA_8888"]
      /\ formats["RGBX_8888"] = rgb_formats["RGBX_8888"]
      /\ formats["RGB_888"] = rgb_formats["RGB_888"]
  BY PartsAssumption DEF rgb_formats
<1>4. FlexSound("NV12")
  <2>1. SemiPlanarFormat("NV12", "Cb", "Cr", 1, 2, 0, 8)
    BY <1>1, YuvLists DEF SemiPlanarFormat, yuv_formats, Row
  <2>2. flex_rows("NV12") = SemiPlanar("Cb", "Cr", 1, 2)
    BY DEF flex_rows
  <2> QED
    BY <2>1, <2>2, SemiPlanarSound, Zenon DEF FlexSound
<1>5. FlexSound("NV21")
  <2>1. SemiPlanarFormat("NV21", "Cr", "Cb", 1, 2, 0, 8)
    BY <1>1, YuvLists DEF SemiPlanarFormat, yuv_formats, Row
  <2>2. flex_rows("NV21") = SemiPlanar("Cr", "Cb", 1, 2)
    BY DEF flex_rows
  <2> QED
    BY <2>1, <2>2, SemiPlanarSound, Zenon DEF FlexSound
<1>6. FlexSound("NV16")
  <2>1. SemiPlanarFormat("NV16", "Cb", "Cr", 1, 1, 0, 8)
    BY <1>1, YuvLists DEF SemiPlanarFormat, yuv_formats, Row
  <2>2. flex_rows("NV16") = SemiPlanar("Cb", "Cr", 1, 1)
    BY DEF flex_rows
  <2> QED
    BY <2>1, <2>2, SemiPlanarSound, Zenon DEF FlexSound
<1>7. FlexSound("P010")
  <2>1. SemiPlanarFormat("P010", "Cb", "Cr", 2, 2, 6, 10)
    BY <1>2, Yuv10Lists DEF SemiPlanarFormat, yuv_10bit_formats, Row
  <2>2. flex_rows("P010") = SemiPlanar("Cb", "Cr", 2, 2)
    BY DEF flex_rows
  <2> QED
    BY <2>1, <2>2, SemiPlanarSound, Zenon DEF FlexSound
<1>8. FlexSound("P210")
  <2>1. SemiPlanarFormat("P210", "Cb", "Cr", 2, 1, 6, 10)
    BY <1>2, Yuv10Lists DEF SemiPlanarFormat, yuv_10bit_formats, Row
  <2>2. flex_rows("P210") = SemiPlanar("Cb", "Cr", 2, 1)
    BY DEF flex_rows
  <2> QED
    BY <2>1, <2>2, SemiPlanarSound, Zenon DEF FlexSound
<1>9. FlexSound("YV12")
  <2>1. PlanarFormat("YV12", 2, 1)
    <3>1. /\ Len(ListOf("YV12")) = 3 /\ ListOf("YV12")[1] = << <<"Y", 0, 8>> >>
          /\ ListOf("YV12")[2 + 1] = << <<"Cb", 0, 8>> >> /\ ListOf("YV12")[1 + 1] = << <<"Cr", 0, 8>> >>
      BY YuvLists
    <3>2. LET f == formats["YV12"] IN
          f.npln = 3 /\ f.ncmp = <<1, 1, 1>> /\ f.bpp = <<8, 8, 8>> /\ f.hsub = 2 /\ f.vsub = 2
      BY <1>1 DEF yuv_formats, Row
    <3> QED
      BY <3>1, <3>2 DEF PlanarFormat
  <2>2. flex_rows("YV12") = << Packed("Y", 0, 1, 1, 1), Flex("Cb", 2, 0, 1, 1, 2, 2, 2),
                          Flex("Cr", 1, 0, 1, 1, 1, 2, 2) >>
    BY DEF flex_rows
  <2> QED
    BY <2>1, <2>2, PlanarSound, Zenon DEF FlexSound
<1>10. FlexSound("YU12")
  <2>1. PlanarFormat("YU12", 1, 2)
    <3>1. /\ Len(ListOf("YU12")) = 3 /\ ListOf("YU12")[1] = << <<"Y", 0, 8>> >>
          /\ ListOf("YU12")[1 + 1] = << <<"Cb", 0, 8>> >> /\ ListOf("YU12")[2 + 1] = << <<"Cr", 0, 8>> >>
      BY YuvLists
    <3>2. LET f == formats["YU12"] IN
          f.npln = 3 /\ f.ncmp = <<1, 1, 1>> /\ f.bpp = <<8, 8, 8>> /\ f.hsub = 2 /\ f.vsub = 2
      BY <1>1 DEF yuv_formats, Row
    <3> QED
      BY <3>1, <3>2 DEF PlanarFormat
  <2>2. flex_rows("YU12") = << Packed("Y", 0, 1, 1, 1), Flex("Cb", 1, 0, 1, 1, 2, 2, 2),
                          Flex("Cr", 2, 0, 1, 1, 1, 2, 2) >>
    BY DEF flex_rows
  <2> QED
    BY <2>1, <2>2, PlanarSound, Zenon DEF FlexSound
<1>11. FlexSound("YUV422_8BIT")
  <2>1. PackedYuvFormat("YUV422_8BIT", 1, 0, 8)
    BY <1>1, YuvLists DEF PackedYuvFormat, yuv_formats, Row
  <2>2. flex_rows("YUV422_8BIT") = PackedYuv(1)
    BY DEF flex_rows
  <2> QED
    BY <2>1, <2>2, PackedYuvSound, Zenon DEF FlexSound
<1>12. FlexSound("Y210")
  <2>1. PackedYuvFormat("Y210", 2, 6, 10)
    BY <1>2, Yuv10Lists DEF PackedYuvFormat, yuv_10bit_formats, Row
  <2>2. flex_rows("Y210") = PackedYuv(2)
    BY DEF flex_rows
  <2> QED
    BY <2>1, <2>2, PackedYuvSound, Zenon DEF FlexSound
<1>13. FlexSound("RGBA_16161616")
  <2>1. PackedRgbFormat("RGBA_16161616", <<"R", "G", "B", "A">>, 4, 2, 8)
    BY <1>3, RgbLists DEF PackedRgbFormat, rgb_formats, Row
  <2>2. flex_rows("RGBA_16161616") = PackedRgb(<<"R", "G", "B", "A">>, 2, 8)
    BY DEF flex_rows
  <2> QED
    BY <2>1, <2>2, PackedRgbSound, Zenon DEF FlexSound
<1>14. FlexSound("RGBA_8888")
  <2>1. PackedRgbFormat("RGBA_8888", <<"R", "G", "B", "A">>, 4, 1, 4)
    BY <1>3, RgbLists DEF PackedRgbFormat, rgb_formats, Row
  <2>2. flex_rows("RGBA_8888") = PackedRgb(<<"R", "G", "B", "A">>, 1, 4)
    BY DEF flex_rows
  <2> QED
    BY <2>1, <2>2, PackedRgbSound, Zenon DEF FlexSound
<1>15. FlexSound("BGRA_8888")
  <2>1. PackedRgbFormat("BGRA_8888", <<"B", "G", "R", "A">>, 4, 1, 4)
    BY <1>3, RgbLists DEF PackedRgbFormat, rgb_formats, Row
  <2>2. flex_rows("BGRA_8888") = PackedRgb(<<"B", "G", "R", "A">>, 1, 4)
    BY DEF flex_rows
  <2> QED
    BY <2>1, <2>2, PackedRgbSound, Zenon DEF FlexSound
<1>16. FlexSound("RGBX_8888")
  <2>1. PackedRgbFormat("RGBX_8888", <<"R", "G", "B">>, 3, 1, 4)
    BY <1>3, RgbLists DEF PackedRgbFormat, rgb_formats, Row
  <2>2. flex_rows("RGBX_8888") = PackedRgb(<<"R", "G", "B">>, 1, 4)
    BY DEF flex_rows
  <2> QED
    BY <2>1, <2>2, PackedRgbSound, Zenon DEF FlexSound
<1>17. FlexSound("RGB_888")
  <2>1. PackedRgbFormat("RGB_888", <<"R", "G", "B">>, 3, 1, 3)
    BY <1>3, RgbLists DEF PackedRgbFormat, rgb_formats, Row
  <2>2. flex_rows("RGB_888") = PackedRgb(<<"R", "G", "B">>, 1, 3)
    BY DEF flex_rows
  <2> QED
    BY <2>1, <2>2, PackedRgbSound, Zenon DEF FlexSound
<1>18. FlexSound("Y8")
  <2>1. LumaFormat("Y8", 1)
    BY <1>1, FitNone DEF LumaFormat, yuv_formats, Row
  <2>2. flex_rows("Y8") = << Packed("Y", 0, 1, 1, 1) >>
    BY DEF flex_rows
  <2> QED
    BY <2>1, <2>2, LumaSound, Zenon DEF FlexSound
<1>19. FlexSound("Y16")
  <2>1. LumaFormat("Y16", 2)
    BY <1>1, FitNone DEF LumaFormat, yuv_formats, Row
  <2>2. flex_rows("Y16") = << Packed("Y", 0, 2, 2, 1) >>
    BY DEF flex_rows
  <2> QED
    BY <2>1, <2>2, LumaSound, Zenon DEF FlexSound
<1> QED
  BY <1>4, <1>5, <1>6, <1>7, <1>8, <1>9, <1>10, <1>11, <1>12, <1>13, <1>14, <1>15, <1>16,
       <1>17, <1>18, <1>19 DEF FlexBases

-----------------------------------------------------------------------------
(* The planes of a buffer, as the mapper counts and reports them.           *)

\* A buffer that was made: what its request and the planes of its handle are.
LEMMA BufferIs ==
  ASSUME QueryInv, Derived
  PROVE  /\ Sound(req) /\ Accepted(req)
         /\ req.width \in Nat \ {0} /\ req.height \in Nat \ {0} /\ req.layers \in Nat \ {0}
         /\ Info(req).npln \in 1 .. 3 /\ Known = PlanesOf(req) /\ PlanesOf(req) \subseteq Planes
         /\ \A p \in PlanesOf(req) : plane_info[p] = InfoOf(req, p)
         /\ \A p \in Planes \ PlanesOf(req) : plane_info[p].offset = 0 /\ plane_info[p].alloc_width = 0
         /\ size = AllLayers(req)
<1>1. pc = "end" /\ plane # 0 /\ phase # "query"
  BY DEF Derived, QueryInv, DescriptionInv, Underway
<1>2. req.base \in DOMAIN formats /\ plane = Info(req).npln
  BY <1>1 DEF QueryInv, DerivationInv, Places
<1>3. Info(req).npln \in 1 .. 3 /\ req # NoRequest
  BY <1>2, TableAssumption DEF Info
<1>4. /\ Sound(req) /\ req.layers \in Nat
      /\ req.width # 0 /\ req.height # 0 /\ req.layers # 0
  BY <1>1, <1>3, Measured
<1>5. Accepted(req) /\ plane_info = AllInfo(req) /\ size = AllLayers(req)
  BY <1>1 DEF QueryInv, DerivationInv, Closed, Finished
<1>6. Known = PlanesOf(req) /\ PlanesOf(req) \subseteq Planes
  BY <1>1, <1>2, <1>3 DEF Known, PlanesOf, Planes
<1>7. \A p \in PlanesOf(req) : plane_info[p] = InfoOf(req, p)
  BY <1>3, <1>5, <1>6 DEF AllInfo, PlanesOf
<1>8. \A p \in Planes \ PlanesOf(req) : plane_info[p].offset = 0 /\ plane_info[p].alloc_width = 0
  BY <1>3, <1>5 DEF AllInfo, PlanesOf, Planes, Fresh
<1> QED
  BY <1>3, <1>4, <1>5, <1>6, <1>7, <1>8 DEF Sound

\* A part of something is something.
LEMMA CeilDivIs ==
  ASSUME NEW m \in Nat \ {0}, NEW k \in Nat \ {0}
  PROVE  CeilDiv(m, k) \in Nat \ {0}
<1> DEFINE x == m + k - 1
           q == x \div k
<1>1. x \in Nat /\ x >= k
  OBVIOUS
<1>2. CeilDiv(m, k) = q
  BY DEF CeilDiv
<1> HIDE DEF x
<1>3. q \in Nat /\ x < q * k + k
  BY <1>1, DivIs
<1> HIDE DEF q
<1>4. q # 0
  BY <1>1, <1>3
<1> QED
  BY <1>2, <1>3, <1>4

\* The first plane of three is never empty, so the third starts behind it.
LEMMA ThirdPlane ==
  ASSUME NEW r, Sound(r), Accepted(r), r.width # 0, r.height # 0, HardwareOnly(r), Info(r).npln = 3
  PROVE  InfoOf(r, 2).offset # 0
<1> DEFINE i == InfoOf(r, 0)
           b == body_size(r, 0, i)
           h == header_size(r, i)
<1>0. 0 \in PlanesOf(r) /\ 1 \in PlanesOf(r) /\ 2 \in PlanesOf(r)
  BY DEF PlanesOf
<1>1. Shaped(r, 0, i) /\ i.byte_stride = byte_stride(r, 0, LumaOf(r, 0)) /\ LumaOf(r, 0) = 0
  BY <1>0, PlanesAre, Zenon DEF PlaneIs, LumaOf
<1>2. b \in Nat /\ h \in Nat
  BY <1>0, <1>1, BodyNat, HeaderIs, Zenon
<1>3. /\ Cols(r, 0) = r.width /\ Rows(r, 0) = r.height /\ r.width \in Nat /\ r.height \in Nat
      /\ r.width > 0 /\ r.height > 0
  BY DEF Cols, Rows, Hsub, Vsub, CeilDiv, Sound
<1>4. b + h > 0
  <2>1. CASE is_afbc(r)
    <3> DEFINE x == sb(r, 0)[1]
               y == sb(r, 0)[2]
               u == i.alloc_width \div x
               v == i.alloc_height \div y
               n == sb_num(i)
    <3>1. ~has_cpu_usage(r)
      BY <2>1 DEF HardwareOnly, Uncompressed
    <3>2. n = u * v /\ r.width <= u * x /\ r.height <= v * y /\ n * 16 <= body_offset(r, i)
      BY <1>0, <1>1, <1>3, <2>1, <3>1, HeadersAre, Zenon
    <3>3. x \in Nat \ {0} /\ y \in Nat \ {0}
      BY SbIs
    <3>4. i.alloc_width \in Nat /\ i.alloc_height \in Nat
      BY <1>0, <1>1, DimensionsIs DEF Shaped
    <3>5. u \in Nat /\ v \in Nat
      BY <3>3, <3>4, DivIs
    <3>6. h = body_offset(r, i)
      BY <1>0, <1>1, <2>1, HeaderIs, Zenon
    <3> HIDE DEF x, y, u, v, n, h, b
    <3>7. u # 0 /\ v # 0
      BY <1>3, <3>2, <3>3, <3>5
    <3>8. n \in Nat /\ n > 0
      BY <3>2, <3>5, <3>7
    <3> QED
      BY <1>2, <3>2, <3>6, <3>8
  <2>2. CASE is_afrc(r)
    <3> DEFINE t == paging_tile(r)
               c == clump(r, 0)
               u == coding_unit_bytes(r, 0)
               d == t[1] * c[1]
               e == t[2] * c[2]
    <3>1. PlaneBytes(r, 0, i) <= b
      BY <1>0, <1>1, <2>2, AfrcRoom DEF HardwareOnly, Uncompressed
    <3>2. PlaneBytes(r, 0, i) = CeilDiv(r.width, d) * CeilDiv(r.height, e) * 64 * u
      BY <1>3, <2>2 DEF PlaneBytes, is_afrc
    <3>3. u \in {16, 24, 32} /\ d \in Nat \ {0} /\ e \in Nat \ {0}
      BY <2>2, ShapesAre, CodingIs
    <3> HIDE DEF b, d, e, u
    <3>4. CeilDiv(r.width, d) \in Nat \ {0} /\ CeilDiv(r.height, e) \in Nat \ {0}
      BY <1>3, <3>3, CeilDivIs
    <3> DEFINE f == CeilDiv(r.width, d)
               g == CeilDiv(r.height, e)
    <3>5. f \in Nat \ {0} /\ g \in Nat \ {0}
      BY <3>4
    <3> HIDE DEF f, g
    <3>6. f * g \in Nat \ {0}
      BY <3>5
    <3>7. f * g * 64 * u > 0 /\ f * g * 64 * u \in Nat
      BY <3>3, <3>6
    <3> QED
      BY <1>2, <3>1, <3>2, <3>7 DEF f, g
  <2>3. CASE is_block_linear(r)
    BY <2>3, TableFacts DEF Accepted, validate_format, Sound, Info
  <2>4. CASE Uncompressed(r)
    <3> DEFINE w == get_pixel_w(r, 0)
               k == At(Info(r).bpp, 0)
               s == i.byte_stride
               v == i.alloc_height
    <3>1. ~Nv12Asked(r) /\ ~FromLuma(r, 0)
      BY NamedAssumption DEF Nv12Asked, FromLuma, Info
    <3>2. s = LinearStride(r, 0, 0)
      BY <1>1, <2>4, Zenon DEF byte_stride, Uncompressed
    <3>3. s \in Nat /\ Raw(r, 0) <= s
      BY <1>0, <3>1, <3>2, LinearIs
    <3>4. k >= 8 /\ k \in Nat
      BY <1>0, <2>4, RowIs, TableFacts DEF Accepted, validate_format, Sound, Info, At
    <3>5. w \in Nat /\ w >= r.width /\ v \in Nat /\ v >= r.height
      BY <1>0, <1>1, <1>3, DimensionsIs DEF Shaped, Cols, Rows
    <3>6. b = s * v
      BY <2>4 DEF body_size, Uncompressed
    <3>7. Raw(r, 0) = (w * k) \div 8
      BY DEF Raw
    <3> HIDE DEF w, k, s, v, b, h
    <3>8. w * k >= 8 /\ w * k \in Nat
      BY <1>3, <3>4, <3>5
    <3>9. s > 0
      BY <3>3, <3>7, <3>8
    <3>10. s * v > 0 /\ v > 0
      BY <1>3, <3>3, <3>5, <3>9
    <3> QED
      BY <1>2, <3>6, <3>10
  <2> QED
    BY <2>1, <2>2, <2>3, <2>4 DEF Uncompressed
<1>5. /\ i.offset \in Nat /\ SizeOf(r, 0 + 1) = i.offset + b + h
      /\ SizeOf(r, 1) <= InfoOf(r, 1).offset /\ InfoOf(r, 1).offset \in Nat
      /\ InfoOf(r, 1).offset <= SizeOf(r, 1 + 1) /\ SizeOf(r, 1 + 1) \in Nat
      /\ SizeOf(r, 2) <= InfoOf(r, 2).offset /\ InfoOf(r, 2).offset \in Nat
  BY <1>0, PlanesAre, Zenon DEF PlaneIs
<1> DEFINE o  == i.offset
           s1 == SizeOf(r, 1)
           o1 == InfoOf(r, 1).offset
           s2 == SizeOf(r, 2)
           o2 == InfoOf(r, 2).offset
<1>6. /\ o \in Nat /\ s1 = o + b + h /\ s1 <= o1 /\ o1 \in Nat
      /\ o1 <= s2 /\ s2 \in Nat /\ s2 <= o2 /\ o2 \in Nat
  BY <1>5
<1> HIDE DEF i, b, h, o, s1, o1, s2, o2
<1>7. o2 # 0
  BY <1>2, <1>4, <1>6
<1> QED
  BY <1>7 DEF o2

\* So the mapper counts the planes right.
LEMMA PlanesCounted ==
  ASSUME QueryInv, Derived
  PROVE  /\ is_multi_plane_handle <=> Info(req).npln > 1
         /\ HardwareOnly(req) => get_num_planes = Info(req).npln
<1>1. /\ Sound(req) /\ Accepted(req) /\ req.width \in Nat \ {0} /\ req.height \in Nat \ {0}
      /\ Info(req).npln \in 1 .. 3
      /\ \A p \in PlanesOf(req) : plane_info[p] = InfoOf(req, p)
      /\ \A p \in Planes \ PlanesOf(req) : plane_info[p].offset = 0 /\ plane_info[p].alloc_width = 0
  BY BufferIs
<1>2. ASSUME Info(req).npln > 1 PROVE plane_info[1].alloc_width # 0
  <2>1. 1 \in PlanesOf(req)
    BY <1>1, <1>2 DEF PlanesOf
  <2>2. plane_info[1].alloc_width = get_pixel_w(req, 1)
    BY <1>1, <2>1, PlanesAre, ZenonT(40) DEF PlaneIs, Shaped
  <2>3. Cols(req, 1) <= get_pixel_w(req, 1) /\ get_pixel_w(req, 1) \in Nat
    BY <1>1, <2>1, DimensionsIs DEF Cols
  <2>4. Hsub(req, 1) \in {1, 2}
    BY <1>1, <2>1, RowIs
  <2>5. Cols(req, 1) \in Nat \ {0}
    BY <1>1, <2>4, CeilDivIs DEF Cols
  <2> DEFINE c == Cols(req, 1)
             w == get_pixel_w(req, 1)
  <2>6. c \in Nat \ {0} /\ w \in Nat /\ c <= w
    BY <2>3, <2>5
  <2> HIDE DEF c, w
  <2>7. w # 0
    BY <2>6
  <2> QED
    BY <2>2, <2>7 DEF w
<1>3. ASSUME Info(req).npln = 1 PROVE plane_info[1].alloc_width = 0
  BY <1>1, <1>3 DEF PlanesOf, Planes
<1>4. is_multi_plane_handle <=> Info(req).npln > 1
  BY <1>1, <1>2, <1>3 DEF is_multi_plane_handle
<1>5. ASSUME Info(req).npln = 2 PROVE plane_info[2].offset = 0
  BY <1>1, <1>5 DEF PlanesOf, Planes
<1>6. ASSUME Info(req).npln = 3, HardwareOnly(req) PROVE plane_info[2].offset # 0
  <2>1. 2 \in PlanesOf(req)
    BY <1>6 DEF PlanesOf
  <2> QED
    BY <1>1, <1>6, <2>1, ThirdPlane
<1> QED
  BY <1>1, <1>2, <1>3, <1>4, <1>5, <1>6 DEF get_num_planes

\* The planes of a buffer one after another, the last up to the end of the layer.
LEMMA PlanesInside ==
  ASSUME QueryInv, Derived
  PROVE  /\ plane_info[0].offset = 0 /\ Layer \in Nat
         /\ \A p \in PlanesOf(req) :
              LET i == plane_info[p] IN
              /\ Shaped(req, p, i) /\ i.byte_stride = byte_stride(req, p, LumaOf(req, p))
              /\ i.offset \in Nat /\ body_size(req, p, i) \in Nat /\ header_size(req, i) \in Nat
              /\ i.offset + body_size(req, p, i) + header_size(req, i) <= PlaneEnd(p)
              /\ PlaneEnd(p) \in Nat /\ PlaneEnd(p) <= Layer
<1>1. /\ Sound(req) /\ Accepted(req) /\ req.layers \in Nat \ {0} /\ Info(req).npln \in 1 .. 3
      /\ PlanesOf(req) \subseteq Planes /\ size = AllLayers(req)
      /\ \A p \in PlanesOf(req) : plane_info[p] = InfoOf(req, p)
  BY BufferIs
<1> DEFINE n    == Info(req).npln
           o(p) == plane_info[p].offset
           s(p) == SizeOf(req, p)
<1>2. Layer \in Nat /\ s(n) \in Nat /\ s(n) <= Layer
  <2> DEFINE a == SizeOf(req, Info(req).npln)
             b == OneLayer(req)
             c == AllLayers(req)
             l == req.layers
             d == c \div l
  <2>1. a \in Nat /\ b \in Nat /\ c \in Nat /\ a <= b /\ b <= d
    BY <1>1, LayersAre
  <2>2. l \in Nat \ {0}
    BY <1>1
  <2>3. d \in Nat
    BY <2>1, <2>2, DivIs
  <2> HIDE DEF d, b
  <2>4. a <= d
    BY <2>1, <2>3
  <2> QED
    BY <1>1, <2>1, <2>3, <2>4 DEF Layer, d
<1>3. ASSUME NEW p \in PlanesOf(req)
      PROVE  LET i == plane_info[p] IN
             /\ Shaped(req, p, i) /\ i.byte_stride = byte_stride(req, p, LumaOf(req, p))
             /\ o(p) \in Nat /\ s(p) <= o(p)
             /\ s(p + 1) = o(p) + body_size(req, p, i) + header_size(req, i)
             /\ s(p + 1) \in Nat /\ o(p) <= s(p + 1)
  <2>1. PlaneIs(req, p) /\ plane_info[p] = InfoOf(req, p)
    BY <1>1, PlanesAre, Zenon
  <2> QED
    BY <2>1, Zenon DEF PlaneIs
<1>4. plane_info[0].offset = 0
  <2>1. 0 \in PlanesOf(req)
    BY <1>1 DEF PlanesOf
  <2> QED
    BY <1>1, <2>1 DEF InfoOf, Info0, InfoAt
<1>5. \A p \in PlanesOf(req) :
        body_size(req, p, plane_info[p]) \in Nat /\ header_size(req, plane_info[p]) \in Nat
  BY <1>1, <1>3, BodyNat, HeaderIs, Zenon
<1>6. ASSUME NEW p \in PlanesOf(req)
      PROVE  s(p + 1) <= PlaneEnd(p) /\ PlaneEnd(p) \in Nat /\ PlaneEnd(p) <= Layer
  <2> HIDE DEF s
  <2>3. (p + 1) + 1 = p + 2 /\ (p + 2) + 1 = p + 3
    BY <1>1 DEF Planes
  <2>1. CASE p + 1 < n
    <3>1. p + 1 \in PlanesOf(req) /\ PlaneEnd(p) = o(p + 1)
      BY <1>1, <2>1 DEF PlanesOf, PlaneEnd
    <3>2. s(p + 1) <= o(p + 1) /\ o(p + 1) \in Nat /\ o(p + 1) <= s(p + 2) /\ s(p + 2) \in Nat
      BY <1>3, <2>3, <3>1, Zenon
    <3>3. CASE p + 2 < n
      <4>1. p + 2 \in PlanesOf(req) /\ p + 3 = n
        BY <1>1, <3>3 DEF PlanesOf
      <4>2. s(p + 2) <= o(p + 2) /\ o(p + 2) \in Nat /\ o(p + 2) <= s(p + 3) /\ s(p + 3) \in Nat
        BY <1>3, <2>3, <4>1, Zenon
      <4>3. s(p + 3) = s(n)
        BY <4>1
      <4> HIDE DEF o
      <4> QED
        BY <1>2, <3>1, <3>2, <4>2, <4>3
    <3>4. CASE ~(p + 2 < n)
      <4>1. p + 2 = n
        BY <1>1, <2>1, <3>4 DEF PlanesOf
      <4> HIDE DEF o
      <4> QED
        BY <1>2, <3>1, <3>2, <4>1
    <3> QED
      BY <3>3, <3>4
  <2>2. CASE ~(p + 1 < n)
    <3>1. p + 1 = n /\ PlaneEnd(p) = Layer
      BY <1>1, <2>2 DEF PlanesOf, PlaneEnd
    <3> QED
      BY <1>2, <3>1
  <2> QED
    BY <2>1, <2>2
<1> QED
  BY <1>2, <1>3, <1>4, <1>5, <1>6, Zenon

\* The planes that get reports are those of the format, and inside the layer.
LEMMA LayoutsAre == ASSUME QueryInv PROVE LayoutsInside
<1> SUFFICES ASSUME Derived, OneStrideFlag(req), HardwareOnly(req)
             PROVE  /\ get_num_planes = Info(req).npln
                    /\ \A p \in 0 .. get_num_planes - 1 : (get_num_planes = 3 => p # 1) =>
                         /\ PlaneBytes(req, p, plane_info[p]) <= plane_size(p)
                         /\ plane_info[p].offset + plane_size(p) <= Layer
  BY Zenon DEF LayoutsInside
<1>1. get_num_planes = Info(req).npln /\ Info(req).npln \in 1 .. 3
  BY PlanesCounted, BufferIs
<1> SUFFICES ASSUME NEW p \in PlanesOf(req), Info(req).npln = 3 => p # 1
             PROVE  /\ PlaneBytes(req, p, plane_info[p]) <= plane_size(p)
                    /\ plane_info[p].offset + plane_size(p) <= Layer
  BY <1>1 DEF PlanesOf
<1>2. /\ Sound(req) /\ Accepted(req) /\ req.height # 0
  BY BufferIs
<1> DEFINE i == plane_info[p]
           o == i.offset
           e == PlaneEnd(p)
           b == body_size(req, p, i)
           h == header_size(req, i)
           x == PlaneBytes(req, p, i)
<1>3. /\ Shaped(req, p, i) /\ i.byte_stride = byte_stride(req, p, LumaOf(req, p))
      /\ o \in Nat /\ b \in Nat /\ h \in Nat /\ o + b + h <= e /\ e \in Nat /\ e <= Layer
      /\ Layer \in Nat /\ plane_info[0].offset = 0
  BY PlanesInside, Zenon
<1>4. x \in Nat /\ x <= b + h
  <2>1. p > 0 /\ Uncompressed(req) => LumaOf(req, p) = Luma(req)
    BY DEF LumaOf, Luma, Info0, InfoAt, byte_stride, Uncompressed
  <2>2. p = 0 => LumaOf(req, p) = 0
    BY DEF LumaOf
  <2> QED
    BY <1>2, <1>3, <2>1, <2>2, PlaneRoom, Zenon
<1>5. plane_size(p) = e - o
  <2>1. CASE p < Info(req).npln - 1
    <3>1. p = 0
      BY <1>1, <2>1 DEF PlanesOf
    <3>2. plane_size(p) = plane_info[1].offset /\ e = plane_info[1].offset /\ o = 0
      BY <1>1, <1>3, <2>1, <3>1 DEF plane_size, PlaneEnd
    <3> QED
      BY <1>3, <3>2
  <2>2. CASE ~(p < Info(req).npln - 1)
    <3>1. plane_size(p) = Layer - o
      BY <1>1, <2>2 DEF plane_size, Layer
    <3>2. e = Layer
      BY <1>1, <2>2 DEF PlaneEnd, PlanesOf
    <3> QED
      BY <3>1, <3>2
  <2> QED
    BY <2>1, <2>2
<1> HIDE DEF o, e, b, h, x, i
<1>6. x <= e - o /\ o + (e - o) <= Layer
  BY <1>3, <1>4
<1> QED
  BY <1>5, <1>6 DEF x, o, i

\* The list that is looked up for an uncompressed buffer, and its sample.
LEMMA ReportedAre ==
  ASSUME Uncompressed(req), req.base \notin RawPacked
  PROVE  /\ plane_layout_components_from_handle = ListOf(req.base)
         /\ \A p : sample_increment(p) = At(Info(req).bpp, p)
<1>1. "INVALID" \notin DOMAIN component_table
  BY DEF component_table
<1>2. ~is_afbc(req)
  BY DEF Uncompressed
<1>3. CASE req.base \in DOMAIN Fourccs
  <2>1. drm_fourcc_from_handle = Fourccs[req.base]
    BY <1>2, <1>3, Zenon DEF drm_fourcc_from_handle
  <2> QED
    BY <1>2, <1>3, <2>1, Zenon DEF plane_layout_components_from_handle, ListOf, sample_increment
<1>4. CASE req.base \notin DOMAIN Fourccs
  <2>1. drm_fourcc_from_handle = "INVALID"
    BY <1>2, <1>4, Zenon DEF drm_fourcc_from_handle
  <2> QED
    BY <1>1, <1>2, <1>4, <2>1, Zenon DEF plane_layout_components_from_handle, ListOf,
         sample_increment
<1> QED
  BY <1>3, <1>4

\* The components that are reported lie apart, within their sample.
LEMMA ComponentsAre == ASSUME QueryInv PROVE ComponentsFit
<1> SUFFICES ASSUME Derived, Uncompressed(req), req.base \notin RawPacked, NEW l \in Range(get_plane_layouts)
             PROVE  FitIn(l.components, l.increment * Group)
  BY Zenon DEF ComponentsFit, Ready, FitIn
<1>1. /\ get_num_planes = Info(req).npln /\ Info(req).npln \in 1 .. 3
      /\ req.base \in DOMAIN formats /\ "linear" \in formats[req.base].is
  BY PlanesCounted, BufferIs DEF HardwareOnly, Sound, Accepted, validate_format, Info
<1>2. PICK i \in 1 .. Info(req).npln : l = get_plane_layouts[i]
  BY <1>1 DEF Range, get_plane_layouts
<1> DEFINE p == i - 1
           c == plane_layout_components_from_handle
<1>3. /\ l.increment = sample_increment(p)
      /\ l.components = IF Len(c) > p THEN c[i] ELSE <<>>
  BY <1>1, <1>2, Zenon DEF get_plane_layouts
<1>4. c = ListOf(req.base) /\ l.increment = At(Info(req).bpp, p)
  BY <1>3, ReportedAre, Zenon
<1>5. p \in 0 .. formats[req.base].npln - 1 /\ i = p + 1
  BY <1>1, <1>2 DEF Info
<1>6. l.increment * Group = BitsOf(req.base, p)
  BY <1>4 DEF Group, BitsOf, Info
<1> HIDE DEF p
<1>7. Fit(req.base)
  BY <1>1, AllFit
<1>8. FitIn(IF Len(ListOf(req.base)) > p THEN ListOf(req.base)[p + 1] ELSE <<>>, BitsOf(req.base, p))
  BY <1>5, <1>7, Zenon DEF Fit
<1> QED
  BY <1>3, <1>4, <1>5, <1>6, <1>8, Zenon

-----------------------------------------------------------------------------
(* What lock_flex hands out.                                                *)

\* The rows of the format table of the formats lock_flex knows: whole bytes, and
\* pairs of pixels where both share a chroma sample.
WholeFormat(base) ==
  LET f == formats[base] IN
  /\ base \in DOMAIN formats /\ total_components(base) \in Nat
  /\ \A p \in 0 .. f.npln - 1 : At(f.bpp, p) % 8 = 0
  /\ base \in {"YUV422_8BIT", "Y210"} => f.align_w = 2 /\ f.npln = 1
  /\ base \in {"YU12", "YV12"} => f.npln = 3 /\ f.bpp = <<8, 8, 8>>

\* They are such rows.
LEMMA FlexWhole == \A base \in FlexBases : WholeFormat(base)
<1>1. WholeFormat("NV12") /\ WholeFormat("NV21") /\ WholeFormat("NV16") /\ WholeFormat("YV12")
  <2>1. /\ formats["NV12"] = yuv_formats["NV12"] /\ formats["NV21"] = yuv_formats["NV21"]
        /\ formats["NV16"] = yuv_formats["NV16"] /\ formats["YV12"] = yuv_formats["YV12"]
        /\ {"NV12", "NV21", "NV16", "YV12"} \subseteq DOMAIN formats
    BY PartsAssumption DEF yuv_formats
  <2>2. /\ formats["NV12"].npln = 2 /\ formats["NV12"].bpp = <<8, 16, 0>>
        /\ formats["NV21"].npln = 2 /\ formats["NV21"].bpp = <<8, 16, 0>>
        /\ formats["NV16"].npln = 2 /\ formats["NV16"].bpp = <<8, 16, 0>>
        /\ formats["YV12"].npln = 3 /\ formats["YV12"].bpp = <<8, 8, 8>>
        /\ formats["NV12"].ncmp = <<1, 2, 0>> /\ formats["NV21"].ncmp = <<1, 2, 0>>
        /\ formats["NV16"].ncmp = <<1, 2, 0>> /\ formats["YV12"].ncmp = <<1, 1, 1>>
    BY <2>1 DEF yuv_formats, Row
  <2> QED
    BY <2>1, <2>2 DEF WholeFormat, total_components, At
<1>2. WholeFormat("YU12") /\ WholeFormat("YUV422_8BIT") /\ WholeFormat("Y8") /\ WholeFormat("Y16")
  <2>1. /\ formats["YU12"] = yuv_formats["YU12"] /\ formats["YUV422_8BIT"] = yuv_formats["YUV422_8BIT"]
        /\ formats["Y8"] = yuv_formats["Y8"] /\ formats["Y16"] = yuv_formats["Y16"]
        /\ {"YU12", "YUV422_8BIT", "Y8", "Y16"} \subseteq DOMAIN formats
    BY PartsAssumption DEF yuv_formats
  <2> QED
    BY <2>1, SMTT(40) DEF WholeFormat, total_components, yuv_formats, Row, At
<1>3. WholeFormat("P010") /\ WholeFormat("P210") /\ WholeFormat("Y210")
  <2>1. /\ formats["P010"] = yuv_10bit_formats["P010"] /\ formats["P210"] = yuv_10bit_formats["P210"]
        /\ formats["Y210"] = yuv_10bit_formats["Y210"]
        /\ {"P010", "P210", "Y210"} \subseteq DOMAIN formats
    BY PartsAssumption DEF yuv_10bit_formats
  <2> QED
    BY <2>1, SMTT(40) DEF WholeFormat, total_components, yuv_10bit_formats, Row, At
<1>4. /\ WholeFormat("RGBA_16161616") /\ WholeFormat("RGBA_8888") /\ WholeFormat("BGRA_8888")
      /\ WholeFormat("RGBX_8888") /\ WholeFormat("RGB_888")
  <2>1. /\ formats["RGBA_16161616"] = rgb_formats["RGBA_16161616"]
        /\ formats["RGBA_8888"] = rgb_formats["RGBA_8888"]
        /\ formats["BGRA_8888"] = rgb_formats["BGRA_8888"]
        /\ formats["RGBX_8888"] = rgb_formats["RGBX_8888"]
        /\ formats["RGB_888"] = rgb_formats["RGB_888"]
        /\ {"RGBA_16161616", "RGBA_8888", "BGRA_8888", "RGBX_8888", "RGB_888"} \subseteq DOMAIN formats
    BY PartsAssumption DEF rgb_formats
  <2> QED
    BY <2>1, SMTT(40) DEF WholeFormat, total_components, rgb_formats, Row, At
<1> QED
  BY <1>1, <1>2, <1>3, <1>4, Zenon DEF FlexBases

\* What lock_flex hands out is its row of the switch, moved to the plane.
FlexRow(f, g) ==
  /\ g.c = f.c /\ g.p = f.p /\ g.at = f.at /\ g.bytes = f.bytes /\ g.inc = f.inc
  /\ g.hsub = f.hsub /\ g.vsub = f.vsub
  /\ g.start = plane_info[f.p].offset + f.at
  /\ g.stride = plane_info[f.strideof].byte_stride

\* So it is, for the formats it knows; for others it has no rows.
LEMMA FlexLocked ==
  /\ req.base \in FlexBases =>
       /\ FlexSound(req.base) /\ (Uncompressed(req) => Len(lock_flex) = get_num_flex_planes)
       /\ DOMAIN lock_flex = DOMAIN flex_rows(req.base)
       /\ \A i \in DOMAIN lock_flex : FlexRow(flex_rows(req.base)[i], lock_flex[i])
  /\ req.base \notin FlexBases => DOMAIN lock_flex = {} /\ lock_flex = <<>>
<1>1. flex_rows("NV24") = <<>> /\ flex_rows("BGR_888") = <<>>
  BY DEF flex_rows
<1>2. FlexBases \subseteq IsFlex /\ IsFlex = FlexBases \cup {"NV24", "BGR_888"}
  BY DEF FlexBases, IsFlex
<1>3. ASSUME req.base \notin FlexBases
      PROVE  DOMAIN lock_flex = {} /\ lock_flex = <<>>
  <2>1. CASE req.base \notin IsFlex
    BY <2>1 DEF lock_flex
  <2>2. CASE req.base \in IsFlex
    <3>1. flex_rows(req.base) = <<>>
      BY <1>1, <1>2, <1>3, <2>2, Zenon
    <3>2. DOMAIN lock_flex = {} /\ lock_flex = [i \in {} |-> lock_flex[i]]
      BY <2>2, <3>1 DEF lock_flex
    <3> QED
      BY <3>2
  <2> QED
    BY <2>1, <2>2
<1>4. ASSUME req.base \in FlexBases
      PROVE  /\ Len(lock_flex) = Len(flex_rows(req.base)) /\ DOMAIN lock_flex = DOMAIN flex_rows(req.base)
             /\ \A i \in DOMAIN lock_flex : FlexRow(flex_rows(req.base)[i], lock_flex[i])
  <2> DEFINE rows == flex_rows(req.base)
  <2> HIDE DEF rows
  <2>1. lock_flex = [i \in DOMAIN rows |->
          LET f == rows[i] IN
          [c |-> f.c, p |-> f.p, start |-> plane_info[f.p].offset + f.at, at |-> f.at,
           bytes |-> f.bytes, inc |-> f.inc, stride |-> plane_info[f.strideof].byte_stride,
           hsub |-> f.hsub, vsub |-> f.vsub]]
    BY <1>2, <1>4 DEF lock_flex, rows
  <2>2. DOMAIN rows = 1 .. Len(rows) /\ Len(rows) \in Nat
    BY <1>4, FlexIs, FlexWhole DEF FlexSound, RowsSound, WholeFormat, rows
  <2>3. Len(lock_flex) = Len(rows)
    BY <2>1, <2>2
  <2> QED
    BY <2>1, <2>3 DEF FlexRow, rows
<1>5. ASSUME req.base \in FlexBases, Uncompressed(req) PROVE get_num_flex_planes = Len(flex_rows(req.base))
  BY <1>2, <1>5, FlexIs, Zenon DEF get_num_flex_planes, FlexSound, RowsSound
<1> QED
  BY <1>3, <1>4, <1>5, FlexIs

\* The smallest of eight and another number.
LEMMA MinIs ==
  ASSUME NEW n \in Nat
  PROVE  Min({8, n}) \in Nat
<1>1. \E x \in {8, n} : \A y \in {8, n} : x <= y
  OBVIOUS
<1>2. Min({8, n}) \in {8, n}
  BY <1>1, Zenon DEF Min
<1> QED
  BY <1>2

\* Two chroma planes of the same bits have the same stride.
LEMMA ChromaAlike ==
  ASSUME NEW r, Uncompressed(r), At(Info(r).bpp, 1) = At(Info(r).bpp, 2), NEW luma
  PROVE  byte_stride(r, 1, luma) = byte_stride(r, 2, luma)
<1>1. PixelAlign(r, 1) = PixelAlign(r, 2) /\ Hsub(r, 1) = Hsub(r, 2)
  BY DEF PixelAlign, Uncompressed, Hsub
<1>2. get_pixel_w(r, 1) = get_pixel_w(r, 2)
  BY <1>1, Zenon DEF get_pixel_w
<1>3. stride_align(r, 1) = stride_align(r, 2)
  BY Zenon DEF stride_align, cpu_align
<1>4. \A raw : AlignedStride(r, 1, raw) = AlignedStride(r, 2, raw)
  BY <1>3, Zenon DEF AlignedStride
<1>5. \A s : update_yv12_stride(r, 1, s, luma) = update_yv12_stride(r, 2, s, luma)
  BY DEF update_yv12_stride
<1>6. LinearStride(r, 1, luma) = LinearStride(r, 2, luma)
  BY <1>1, <1>2, <1>4, <1>5, Zenon DEF LinearStride
<1> QED
  BY <1>6, Zenon DEF byte_stride, Uncompressed

\* An even width holds the pairs of the pixels asked for.
LEMMA Pairs ==
  ASSUME NEW width \in Nat, NEW w \in Nat, Align(width, 2) <= w, NEW k \in Nat
  PROVE  CeilDiv(width, 2) \in Nat /\ CeilDiv(width, 2) * (2 * k) <= w * k
<1> DEFINE c == CeilDiv(width, 2)
<1>1. Align(width, 2) = c * 2
  BY DEF Align, CeilDiv
<1>2. c \in Nat
  BY DEF CeilDiv
<1> HIDE DEF c
<1>3. (c * 2) * k <= w * k
  BY <1>1, <1>2, ProductsGrow
<1>4. c * (2 * k) = (c * 2) * k
  BY <1>2
<1> QED
  BY <1>2, <1>3, <1>4 DEF c

\* The chroma planes of YU12 and YV12 have one stride.
LEMMA ChromaStride ==
  ASSUME QueryInv, Ready, req.base \in {"YU12", "YV12"}
  PROVE  plane_info[1].byte_stride = plane_info[2].byte_stride
<1>1. Derived /\ Uncompressed(req) /\ Info(req) = formats[req.base] /\ WholeFormat(req.base)
  BY FlexWhole DEF Ready, Info, FlexBases
<1>2. Info(req).npln = 3 /\ At(Info(req).bpp, 1) = At(Info(req).bpp, 2)
  BY <1>1 DEF WholeFormat, At
<1>3. 1 \in PlanesOf(req) /\ 2 \in PlanesOf(req)
  BY <1>2 DEF PlanesOf
<1>4. /\ plane_info[1].byte_stride = byte_stride(req, 1, LumaOf(req, 1))
      /\ plane_info[2].byte_stride = byte_stride(req, 2, LumaOf(req, 2))
  BY <1>1, <1>3, PlanesInside, Zenon
<1>5. LumaOf(req, 1) = LumaOf(req, 2)
  BY DEF LumaOf
<1> QED
  BY <1>1, <1>2, <1>4, <1>5, ChromaAlike

\* So the stride of a row of lock_flex is that of its plane.
LEMMA StridesAlike ==
  ASSUME QueryInv, Ready, req.base \in FlexBases, NEW f, InPlane(req.base, f)
  PROVE  plane_info[f.strideof].byte_stride = plane_info[f.p].byte_stride
<1>1. f.strideof = f.p \/ (req.base = "YU12" /\ f.p \in {1, 2} /\ f.strideof \in {1, 2})
  BY DEF InPlane
<1>2. CASE f.strideof = f.p
  BY <1>2
<1>3. CASE req.base = "YU12" /\ f.p \in {1, 2} /\ f.strideof \in {1, 2}
  <2>1. plane_info[1].byte_stride = plane_info[2].byte_stride
    BY <1>3, ChromaStride
  <2> QED
    BY <1>3, <2>1, Zenon
<1> QED
  BY <1>1, <1>2, <1>3

\* The samples of a row of lock_flex fit into the stride of their plane.
LEMMA SamplesFit ==
  ASSUME QueryInv, Ready, OneStrideFlag(req), req.base \in FlexBases, NEW f, InPlane(req.base, f)
  PROVE  LET cols == CeilDiv(req.width, f.hsub)
             rows == CeilDiv(req.height, f.vsub)
             i    == plane_info[f.p] IN
         /\ f.p \in PlanesOf(req) /\ rows = Rows(req, f.p)
         /\ cols \in Nat \ {0} /\ cols * f.inc <= i.byte_stride
         /\ plane_info[f.strideof].byte_stride = i.byte_stride
<1>1. /\ Derived /\ Uncompressed(req)
      /\ Sound(req) /\ Accepted(req) /\ Info(req).npln \in 1 .. 3 /\ Info(req) = formats[req.base]
      /\ req.width \in Nat \ {0} /\ req.height \in Nat \ {0}
      /\ \A p \in PlanesOf(req) : plane_info[p] = InfoOf(req, p)
  BY BufferIs DEF Ready, Info
<1>2. WholeFormat(req.base)
  BY FlexWhole
<1>3. /\ f.p \in PlanesOf(req)
      /\ f.vsub = Vsub(req, f.p)
      /\ f.hsub = Hsub(req, f.p) \/ (req.base \in {"YUV422_8BIT", "Y210"} /\ f.p = 0 /\ f.hsub = 2)
      /\ f.inc * 8 * Hsub(req, f.p) = At(Info(req).bpp, f.p) * f.hsub /\ f.inc \in 1 .. 8
      /\ f.strideof = f.p \/ (req.base = "YU12" /\ f.p \in {1, 2} /\ f.strideof \in {1, 2})
  BY <1>1 DEF InPlane, PlanesOf, Vsub, Hsub
<1> DEFINE p == f.p
           k == At(Info(req).bpp, p)
           s == plane_info[p].byte_stride
           h == Hsub(req, p)
           cols == CeilDiv(req.width, f.hsub)
<1>4. k \in Nat /\ k % 8 = 0 /\ h \in {1, 2}
  BY <1>1, <1>2, <1>3, RowIs DEF WholeFormat, PlanesOf, Planes
<1>5. KeepsNote(req) /\ WholeBytes(req)
  BY <1>1, <1>2, Zenon DEF KeepsNote, WholeBytes, WholeFormat
<1>6. /\ s \in Nat /\ s = byte_stride(req, p, LumaOf(req, p))
  BY <1>1, <1>3, PlanesInside, Zenon DEF Shaped
<1>7. cols \in Nat \ {0}
  <2>1. f.hsub \in {1, 2}
    BY <1>3, <1>4
  <2> QED
    BY <1>1, <2>1, CeilDivIs
<1>8. cols * f.inc <= s
  <2>1. CASE f.hsub = h
    <3>1. Cols(req, p) * k <= s * 8 /\ cols = Cols(req, p)
      BY <1>1, <1>3, <1>5, <2>1, RowsAre, Zenon DEF Cols
    <3> DEFINE c == f.inc
    <3>2. c * 8 * h = k * h /\ c \in 1 .. 8
      BY <1>3, <2>1
    <3>3. cols * k <= s * 8
      BY <3>1
    <3> HIDE DEF h, k, s, cols, c
    <3>4. c * 8 = k
      BY <1>4, <3>2
    <3>5. cols * k = (cols * c) * 8
      BY <1>7, <3>2, <3>4
    <3>6. cols * c <= s
      BY <1>6, <1>7, <3>2, <3>3, <3>5
    <3> QED
      BY <3>6 DEF c
  <2>2. CASE req.base \in {"YUV422_8BIT", "Y210"} /\ p = 0 /\ f.hsub = 2
    <3> DEFINE w == get_pixel_w(req, 0)
               m == k \div 8
    <3>1. m \in Nat /\ k = 8 * m
      BY <1>4
    <3>2. Align(req.width, 2) <= w /\ w \in Nat
      <4>1. Info(req).align_w = 2 /\ Hsub(req, 0) = 1 /\ AdjustedWidth(req) = req.width
        BY <1>1, <1>2, <2>2, AdjustedIs DEF WholeFormat, Hsub, Uncompressed
      <4>2. Align(req.width, 2) \div 1 <= w /\ w \in Nat
        BY <1>1, <1>3, <2>2, <4>1, DimensionsIs
      <4>3. Align(req.width, 2) \in Nat
        BY <1>1, AlignIs
      <4> QED
        BY <4>2, <4>3
    <3>3. ~Nv12Asked(req) /\ ~FromLuma(req, 0)
      BY <2>2 DEF Nv12Asked, FromLuma
    <3>4. s = LinearStride(req, 0, 0)
      BY <1>1, <1>6, <2>2 DEF byte_stride, Uncompressed, LumaOf
    <3>5. Raw(req, 0) <= s
      BY <1>1, <1>3, <2>2, <3>3, <3>4, LinearIs
    <3>6. Raw(req, 0) = (w * k) \div 8
      BY <2>2 DEF Raw
    <3>7. f.inc * 8 = k * 2
      <4>1. h = 1
        BY <2>2 DEF Hsub
      <4> QED
        BY <1>3, <1>4, <2>2, <4>1
    <3>8. cols = CeilDiv(req.width, 2)
      BY <2>2
    <3> HIDE DEF w, m, s, cols, k, h
    <3>9. cols * (2 * m) <= w * m
      BY <1>1, <3>1, <3>2, <3>8, Pairs
    <3>10. f.inc = 2 * m
      BY <1>3, <3>1, <3>7
    <3>11. (w * k) \div 8 = w * m
      <4>1. w * k = (w * m) * 8 /\ w * m \in Nat
        BY <3>1, <3>2
      <4> DEFINE x == w * m
      <4> HIDE DEF x
      <4>2. (x * 8) \div 8 = x
        BY <4>1 DEF x
      <4> QED
        BY <4>1, <4>2 DEF x
    <3>12. w * m <= s
      BY <3>5, <3>6, <3>11
    <3>13. cols * (2 * m) \in Nat /\ w * m \in Nat
      BY <1>7, <3>1, <3>2
    <3>14. cols * (2 * m) <= s
      BY <1>6, <3>9, <3>12, <3>13
    <3> QED
      BY <3>10, <3>14
  <2> QED
    BY <1>3, <2>1, <2>2
<1>9. plane_info[f.strideof].byte_stride = s
  BY StridesAlike
<1> QED
  BY <1>3, <1>7, <1>8, <1>9 DEF Rows

\* What is a byte of the first samples.
LEMMA FirstBytesAre ==
  ASSUME NEW f, NEW x \in FirstBytes(f)
  PROVE  \E k \in 0 .. Min({8, CeilDiv(req.width, f.hsub)}) - 1, b \in 0 .. f.bytes - 1 :
           x = f.at + k * f.inc + b
<1> DEFINE K == 0 .. Min({8, CeilDiv(req.width, f.hsub)}) - 1
           N == 0 .. f.bytes - 1
<1>1. FirstBytes(f) = {f.at + k * f.inc + b : k \in K, b \in N}
  BY DEF FirstBytes
<1> HIDE DEF K, N
<1>2. \E k \in K, b \in N : x = f.at + k * f.inc + b
  BY <1>1, SMT
<1> QED
  BY <1>2 DEF K, N

\* Samples of lock_flex: inside their plane, their row, and apart.
LEMMA FlexFits == ASSUME QueryInv PROVE FlexInside
<1> SUFFICES ASSUME Ready, OneStrideFlag(req), NEW i \in DOMAIN lock_flex
             PROVE  LET f    == lock_flex[i]
                        cols == CeilDiv(req.width, f.hsub)
                        rows == CeilDiv(req.height, f.vsub) IN
                    /\ f.start + (rows - 1) * f.stride + (cols - 1) * f.inc + f.bytes <= PlaneEnd(f.p)
                    /\ f.at + (cols - 1) * f.inc + f.bytes <= f.stride
                    /\ \A j \in DOMAIN lock_flex :
                         j # i /\ lock_flex[j].p = f.p => FirstBytes(f) \cap FirstBytes(lock_flex[j]) = {}
  BY Zenon DEF FlexInside
<1> DEFINE rows(j) == flex_rows(req.base)[j]
           cols(f) == CeilDiv(req.width, f.hsub)
           lines(f) == CeilDiv(req.height, f.vsub)
<1>1. req.base \in FlexBases
  BY FlexLocked, Zenon
<1>2. \A j \in DOMAIN lock_flex :
        j \in DOMAIN flex_rows(req.base) /\ FlexRow(rows(j), lock_flex[j]) /\ InPlane(req.base, rows(j))
  BY <1>1, FlexLocked, Zenon DEF FlexSound, RowsSound
<1>3. ASSUME NEW j \in DOMAIN lock_flex, j # i, lock_flex[j].p = lock_flex[i].p
      PROVE  FirstBytes(lock_flex[i]) \cap FirstBytes(lock_flex[j]) = {}
  <2> DEFINE f == rows(i)
             g == rows(j)
  <2>1. Apart(f, g)
    BY <1>1, <1>2, <1>3, FlexLocked, Zenon DEF FlexSound, RowsSound, FlexRow
  <2>2. cols(f) \in Nat /\ cols(g) \in Nat
    BY <1>1, <1>2, SamplesFit
  <2>3. Min({8, cols(f)}) \in Nat /\ Min({8, cols(g)}) \in Nat
    BY <2>2, MinIs
  <2> DEFINE t == lock_flex[i]
             w == lock_flex[j]
             m == Min({8, cols(t)})
             n == Min({8, cols(w)})
  <2>4. /\ t.at = f.at /\ t.inc = f.inc /\ t.bytes = f.bytes /\ t.hsub = f.hsub
        /\ w.at = g.at /\ w.inc = g.inc /\ w.bytes = g.bytes /\ w.hsub = g.hsub
    BY <1>2, Zenon DEF FlexRow
  <2>5. m \in Nat /\ n \in Nat
    BY <2>3, <2>4, Zenon
  <2>7. ASSUME NEW x \in FirstBytes(t), x \in FirstBytes(w) PROVE FALSE
    <3>1. PICK k \in 0 .. m - 1, b \in 0 .. t.bytes - 1 : x = t.at + k * t.inc + b
      BY FirstBytesAre, Zenon
    <3>2. PICK l \in 0 .. n - 1, d \in 0 .. w.bytes - 1 : x = w.at + l * w.inc + d
      BY <2>7, FirstBytesAre, Zenon
    <3> HIDE DEF m, n, f, g, t, w
    <3>3. k \in Nat /\ l \in Nat
      BY <2>5, <3>1, <3>2
    <3> QED
      BY <2>1, <2>4, <3>1, <3>2, <3>3, Zenon DEF Apart
  <2> QED
    BY <2>7, Zenon
<1> DEFINE f == rows(i)
           c == cols(f)
           r == lines(f)
           q == plane_info[f.p]
           o == q.offset
           s == q.byte_stride
           v == q.alloc_height
           e == PlaneEnd(f.p)
           a == f.at
           d == f.inc
           b == f.bytes
           u == lock_flex[i]
<1>4. /\ f.p \in PlanesOf(req) /\ r = Rows(req, f.p) /\ c \in Nat \ {0} /\ c * d <= s
      /\ plane_info[f.strideof].byte_stride = s
  BY <1>1, <1>2, SamplesFit
<1>5. /\ Derived /\ Uncompressed(req) /\ Sound(req) /\ Accepted(req)
      /\ req.height \in Nat \ {0} /\ plane_info[f.p] = InfoOf(req, f.p)
  BY <1>4, BufferIs DEF Ready
<1>6. /\ u.p = f.p /\ u.at = a /\ u.bytes = b /\ u.inc = d /\ u.hsub = f.hsub /\ u.vsub = f.vsub
      /\ u.start = o + a /\ u.stride = s
  BY <1>2, <1>4, Zenon DEF FlexRow
<1>7. a \in Nat /\ b \in Nat /\ d \in Nat /\ a + b <= d
  BY <1>2 DEF InPlane
<1>8. /\ s \in Nat /\ o \in Nat /\ e \in Nat /\ body_size(req, f.p, q) \in Nat
      /\ header_size(req, q) \in Nat
      /\ o + body_size(req, f.p, q) + header_size(req, q) <= e
  BY <1>4, <1>5, PlanesInside, Zenon DEF Shaped
<1>9. body_size(req, f.p, q) = s * v
  BY <1>5, Zenon DEF body_size, Uncompressed
<1>10. r <= v /\ v \in Nat
  <2>1. v = get_pixel_h(req, f.p)
    BY <1>4, <1>5, PlanesInside, Zenon DEF Shaped
  <2> QED
    BY <1>4, <1>5, <2>1, RowsAre, DimensionsIs, Zenon
<1>11. r \in Nat \ {0}
  <2>1. Vsub(req, f.p) \in {1, 2}
    BY <1>4, <1>5, RowIs
  <2> QED
    BY <1>4, <1>5, <2>1, CeilDivIs DEF Rows
<1> DEFINE x == body_size(req, f.p, q)
           y == header_size(req, q)
<1>12. x = s * v /\ x \in Nat /\ y \in Nat /\ o + x + y <= e
  BY <1>8, <1>9
<1>13. u.start = o + a /\ u.stride = s /\ u.bytes = b /\ u.inc = d /\ u.at = a /\ u.p = f.p
  BY <1>6
<1>14. CeilDiv(req.width, u.hsub) = c /\ CeilDiv(req.height, u.vsub) = r
  BY <1>6, Zenon
<1> HIDE DEF x, y, c, r, o, s, v, e, a, d, b, q
<1>15. a + (c - 1) * d + b <= s
  <2>1. (c - 1) * d = c * d - d /\ c * d \in Nat
    BY <1>4, <1>7
  <2> QED
    BY <1>4, <1>7, <1>8, <2>1
<1>16. (o + a) + (r - 1) * s + (c - 1) * d + b <= e
  <2>1. (r - 1) * s = r * s - s /\ r * s \in Nat
    BY <1>8, <1>11
  <2>2. r * s <= v * s
    BY <1>8, <1>10, <1>11, ProductsGrow
  <2>3. v * s = x
    BY <1>8, <1>10, <1>12
  <2>4. (c - 1) * d \in Int
    BY <1>4, <1>7
  <2> QED
    BY <1>7, <1>8, <1>12, <1>15, <2>1, <2>2, <2>3, <2>4
<1>17. /\ u.start + (r - 1) * u.stride + (c - 1) * u.inc + u.bytes <= PlaneEnd(u.p)
       /\ u.at + (c - 1) * u.inc + u.bytes <= u.stride
  BY <1>13, <1>15, <1>16, Zenon DEF e
<1> QED
  BY <1>3, <1>14, <1>17, Zenon

-----------------------------------------------------------------------------
(* The three descriptions of samples.                                       *)

\* lock_flex and the components that get reports say the same.
LEMMA FlexReported == ASSUME QueryInv PROVE FlexAsReported
<1> SUFFICES ASSUME Ready, lock_flex # <<>>
             PROVE  /\ Len(lock_flex) = get_num_flex_planes
                    /\ plane_layout_components_from_handle # <<>> =>
                         \A f \in Range(lock_flex) :
                           LET l == get_plane_layouts[f.p + 1] IN
                           /\ \E c \in Range(l.components) : c[1] = f.c /\ l.offset + (c[2] \div 8) = f.start
                           /\ f.stride = l.stride
                           /\ f.inc * 8 * l.hsub = l.increment * f.hsub
                           /\ f.vsub = l.vsub
  BY Zenon DEF FlexAsReported
<1>1. req.base \in FlexBases /\ Derived /\ Uncompressed(req)
  BY FlexLocked, Zenon DEF Ready
<1>2. Len(lock_flex) = get_num_flex_planes
  BY <1>1, FlexLocked, Zenon
<1> SUFFICES ASSUME plane_layout_components_from_handle # <<>>, NEW f \in Range(lock_flex)
             PROVE  LET l == get_plane_layouts[f.p + 1] IN
                    /\ \E c \in Range(l.components) : c[1] = f.c /\ l.offset + (c[2] \div 8) = f.start
                    /\ f.stride = l.stride
                    /\ f.inc * 8 * l.hsub = l.increment * f.hsub
                    /\ f.vsub = l.vsub
  BY <1>2, Zenon
<1>3. PICK i \in DOMAIN lock_flex : f = lock_flex[i]
  BY Zenon DEF Range
<1> DEFINE g == flex_rows(req.base)[i]
           p == g.p
           l == get_plane_layouts[p + 1]
           listed == ListOf(req.base)
<1>4. FlexRow(g, f) /\ InPlane(req.base, g) /\ Listed(req.base, g)
  BY <1>1, <1>3, FlexLocked, Zenon DEF FlexSound, RowsSound
<1>5. req.base \notin RawPacked
  BY <1>1 DEF FlexBases, RawPacked
<1>6. plane_layout_components_from_handle = listed /\ sample_increment(p) = At(Info(req).bpp, p)
  BY <1>1, <1>5, ReportedAre, Zenon
<1>7. get_num_planes = Info(req).npln /\ Info(req).npln \in 1 .. 3 /\ Info(req) = formats[req.base]
  BY <1>1, PlanesCounted, BufferIs DEF HardwareOnly, Info
<1>8. p \in 0 .. Info(req).npln - 1
  BY <1>4, <1>7, Zenon DEF InPlane
<1>9. p + 1 \in 1 .. get_num_planes /\ (p + 1) - 1 = p
  <2> DEFINE n == Info(req).npln
  <2>1. n \in 1 .. 3 /\ p \in 0 .. n - 1
    BY <1>7, <1>8
  <2> HIDE DEF n, p
  <2>2. p + 1 \in 1 .. n /\ (p + 1) - 1 = p
    BY <2>1
  <2> QED
    BY <1>7, <2>2, Zenon DEF n
<1>10. /\ p < Len(listed)
       /\ \E k \in DOMAIN listed[p + 1] : listed[p + 1][k][1] = g.c /\ listed[p + 1][k][2] \div 8 = g.at
  BY <1>4, <1>6, Zenon DEF Listed
<1>11. /\ l.offset = plane_info[p].offset /\ l.stride = plane_info[p].byte_stride
       /\ l.increment = sample_increment(p)
       /\ l.hsub = IF p = 0 THEN 1 ELSE Info(req).hsub
       /\ l.vsub = IF p = 0 THEN 1 ELSE Info(req).vsub
       /\ l.components = IF Len(plane_layout_components_from_handle) > p
                         THEN plane_layout_components_from_handle[p + 1] ELSE <<>>
  <2> DEFINE m == p + 1
  <2>1. l = LET q == m - 1 IN
         [offset |-> plane_info[q].offset, total |-> plane_size(q),
          increment |-> sample_increment(q), stride |-> plane_info[q].byte_stride,
          hsub |-> IF q = 0 THEN 1 ELSE Info(req).hsub,
          vsub |-> IF q = 0 THEN 1 ELSE Info(req).vsub,
          components |-> IF Len(plane_layout_components_from_handle) > q
                         THEN plane_layout_components_from_handle[m] ELSE <<>>]
    BY <1>9, Zenon DEF get_plane_layouts
  <2>2. m - 1 = p
    BY <1>9
  <2> HIDE DEF l, p
  <2> QED
    BY <2>1, <2>2
<1>12. l.components = listed[p + 1]
  <2>1. Len(listed) > p
    BY <1>10
  <2> QED
    BY <1>6, <1>11, <2>1, Zenon
<1>13. \E c \in Range(l.components) : c[1] = f.c /\ l.offset + (c[2] \div 8) = f.start
  <2>1. PICK k \in DOMAIN listed[p + 1] : listed[p + 1][k][1] = g.c /\ listed[p + 1][k][2] \div 8 = g.at
    BY <1>10, Zenon
  <2>2. listed[p + 1][k] \in Range(l.components)
    BY <1>12, Zenon DEF Range
  <2>3. f.c = g.c /\ f.start = plane_info[p].offset + g.at
    BY <1>4, Zenon DEF FlexRow
  <2> QED
    BY <1>11, <2>1, <2>2, <2>3, Zenon
<1>14. f.stride = l.stride
  BY <1>1, <1>4, <1>11, StridesAlike, Zenon DEF FlexRow
<1>15. f.vsub = l.vsub /\ f.inc * 8 * l.hsub = l.increment * f.hsub
  BY <1>4, <1>6, <1>7, <1>11, Zenon DEF FlexRow, InPlane
<1>16. f.p = p
  BY <1>4, Zenon DEF FlexRow
<1> QED
  BY <1>13, <1>14, <1>15, <1>16, Zenon

\* A row of lock_flex starts where lock_ycbcr starts.
YcbcrRow(base, f) ==
  /\ f.c \in {"Y", "Cb", "Cr"}
  /\ f.c = "Y" => f.p = 0 /\ f.at = 0 /\ f.strideof = 0
  /\ f.c = "Cb" => f.p = chroma(base).cb[1] /\ f.at = chroma(base).cb[2]
  /\ f.c = "Cr" => f.p = chroma(base).cr[1] /\ f.at = chroma(base).cr[2]
  /\ f.c \in {"Cb", "Cr"} => /\ base \notin {"Y8", "Y16"} /\ f.inc = chroma(base).step
                             /\ f.strideof = 1 \/ (base \in {"YU12", "YV12"} /\ f.strideof = 2)

YcbcrBases == {"Y8", "Y16", "NV12", "NV21", "YV12", "YU12"}

\* Those of the formats lock_ycbcr knows do.
LEMMA YcbcrRows ==
  \A base \in YcbcrBases : \A i \in DOMAIN flex_rows(base) : YcbcrRow(base, flex_rows(base)[i])
<1>1. \A i \in DOMAIN flex_rows("Y8") : YcbcrRow("Y8", flex_rows("Y8")[i])
  BY DEF flex_rows, YcbcrRow, Packed, Flex
<1>2. \A i \in DOMAIN flex_rows("Y16") : YcbcrRow("Y16", flex_rows("Y16")[i])
  BY DEF flex_rows, YcbcrRow, Packed, Flex
<1>3. \A i \in DOMAIN flex_rows("NV12") : YcbcrRow("NV12", flex_rows("NV12")[i])
  <2>1. flex_rows("NV12") = SemiPlanar("Cb", "Cr", 1, 2)
    BY DEF flex_rows
  <2>2. chroma("NV12") = [cb |-> <<1, 0>>, cr |-> <<1, 1>>, step |-> 2]
    BY DEF chroma
  <2> QED
    BY <2>1, <2>2 DEF YcbcrRow, SemiPlanar, Packed, Flex
<1>4. \A i \in DOMAIN flex_rows("NV21") : YcbcrRow("NV21", flex_rows("NV21")[i])
  <2>1. flex_rows("NV21") = SemiPlanar("Cr", "Cb", 1, 2)
    BY DEF flex_rows
  <2>2. chroma("NV21") = [cb |-> <<1, 1>>, cr |-> <<1, 0>>, step |-> 2]
    BY DEF chroma
  <2> QED
    BY <2>1, <2>2 DEF YcbcrRow, SemiPlanar, Packed, Flex
<1>5. \A i \in DOMAIN flex_rows("YV12") : YcbcrRow("YV12", flex_rows("YV12")[i])
  <2>1. flex_rows("YV12") = << Packed("Y", 0, 1, 1, 1), Flex("Cb", 2, 0, 1, 1, 2, 2, 2),
                               Flex("Cr", 1, 0, 1, 1, 1, 2, 2) >>
    BY DEF flex_rows
  <2>2. chroma("YV12") = [cb |-> <<2, 0>>, cr |-> <<1, 0>>, step |-> 1]
    BY DEF chroma
  <2> QED
    BY <2>1, <2>2 DEF YcbcrRow, Packed, Flex
<1>6. \A i \in DOMAIN flex_rows("YU12") : YcbcrRow("YU12", flex_rows("YU12")[i])
  <2>1. flex_rows("YU12") = << Packed("Y", 0, 1, 1, 1), Flex("Cb", 1, 0, 1, 1, 2, 2, 2),
                               Flex("Cr", 2, 0, 1, 1, 1, 2, 2) >>
    BY DEF flex_rows
  <2>2. chroma("YU12") = [cb |-> <<1, 0>>, cr |-> <<2, 0>>, step |-> 1]
    BY DEF chroma
  <2> QED
    BY <2>1, <2>2 DEF YcbcrRow, Packed, Flex
<1> QED
  BY <1>1, <1>2, <1>3, <1>4, <1>5, <1>6, Zenon DEF YcbcrBases

\* lock_ycbcr and lock_flex say the same.
LEMMA YcbcrReported == ASSUME QueryInv PROVE YcbcrAsFlex
<1> SUFFICES ASSUME Ready, lock_ycbcr # <<>>, NEW f \in Range(lock_flex)
             PROVE  CASE f.c = "Y"  -> f.start = lock_ycbcr.y /\ f.stride = lock_ycbcr.ystride
                      [] f.c = "Cb" -> /\ f.start = lock_ycbcr.cb /\ f.stride = lock_ycbcr.cstride
                                       /\ f.inc = lock_ycbcr.chroma_step
                      [] f.c = "Cr" -> /\ f.start = lock_ycbcr.cr /\ f.stride = lock_ycbcr.cstride
                                       /\ f.inc = lock_ycbcr.chroma_step
  BY Zenon DEF YcbcrAsFlex
<1>1. req.base \in YcbcrBases
  BY DEF lock_ycbcr, chroma, YcbcrBases
<1>2. req.base \in FlexBases
  BY <1>1 DEF YcbcrBases, FlexBases
<1>3. PICK i \in DOMAIN lock_flex : f = lock_flex[i]
  BY Zenon DEF Range
<1> DEFINE g == flex_rows(req.base)[i]
           x == chroma(req.base)
           t == lock_ycbcr
<1>4. FlexRow(g, f) /\ YcbcrRow(req.base, g)
  BY <1>1, <1>2, <1>3, FlexLocked, YcbcrRows, Zenon
<1>5. plane_info[0].offset = 0
  BY PlanesInside DEF Ready
<1>6. t.y = 0 /\ t.ystride = plane_info[0].byte_stride
  BY DEF lock_ycbcr
<1>7. ASSUME req.base \notin {"Y8", "Y16"}
      PROVE  /\ t.cb = plane_info[x.cb[1]].offset + x.cb[2] /\ t.cr = plane_info[x.cr[1]].offset + x.cr[2]
             /\ t.cstride = plane_info[1].byte_stride /\ t.chroma_step = x.step
  BY <1>7 DEF lock_ycbcr
<1> HIDE DEF g, x, t
<1>8. /\ f.c = g.c /\ f.inc = g.inc /\ f.start = plane_info[g.p].offset + g.at
      /\ f.stride = plane_info[g.strideof].byte_stride
  BY <1>4, Zenon DEF FlexRow
<1>9. ASSUME f.c = "Y" PROVE f.start = t.y /\ f.stride = t.ystride
  BY <1>4, <1>5, <1>6, <1>8, <1>9 DEF YcbcrRow
<1>10. ASSUME f.c \in {"Cb", "Cr"} PROVE f.stride = t.cstride /\ f.inc = t.chroma_step
  <2>1. /\ req.base \notin {"Y8", "Y16"} /\ g.inc = x.step
        /\ g.strideof = 1 \/ (req.base \in {"YU12", "YV12"} /\ g.strideof = 2)
    BY <1>4, <1>8, <1>10, Zenon DEF YcbcrRow, x
  <2>2. plane_info[g.strideof].byte_stride = plane_info[1].byte_stride
    BY <2>1, ChromaStride, Zenon
  <2> QED
    BY <1>7, <1>8, <2>1, <2>2, Zenon
<1>11. ASSUME f.c = "Cb" PROVE f.start = t.cb
  BY <1>4, <1>7, <1>8, <1>11, Zenon DEF YcbcrRow, x
<1>12. ASSUME f.c = "Cr" PROVE f.start = t.cr
  BY <1>4, <1>7, <1>8, <1>12, Zenon DEF YcbcrRow, x
<1>13. f.c \in {"Y", "Cb", "Cr"}
  BY <1>4, <1>8, Zenon DEF YcbcrRow
<1> QED
  BY <1>9, <1>10, <1>11, <1>12, <1>13 DEF t

-----------------------------------------------------------------------------
(* Modifiers.                                                               *)

\* The block sizes a modifier can name.
BlockTags == {"32x8_64x4", "32x8", "64x4", "16x16"}

\* An AFBC modifier names one, and with it the superblocks of every plane.
LEMMA BlocksTold ==
  ASSUME QueryInv, Derived, is_afbc(req), NEW p \in PlanesOf(req)
  PROVE  BlockSize(get_afbc_modifier_tags, p) = sb(req, p)
<1> DEFINE t == afbc_block_size
           T == get_afbc_modifier_tags
<1>1. /\ Sound(req) /\ Accepted(req) /\ Info(req).npln \in 1 .. 3
      /\ is_multi_plane_handle <=> Info(req).npln > 1
  BY BufferIs, PlanesCounted
<1>2. /\ Info(req).npln > 1 => is_multi_plane(req) /\ {"TILED", "64x4"} \subseteq req.mods
      /\ is_multi_plane(req) => Info(req).npln > 1
  BY <1>1 DEF Accepted, validate_format, is_multi_plane
<1>3. t \in BlockTags
  BY DEF afbc_block_size, BlockTags
<1>4. \A b \in BlockTags : b \in T <=> b = t
  BY <1>3 DEF get_afbc_modifier_tags, BlockTags
<1>5. p \in Nat /\ (p > 0 => Info(req).npln > 1)
  BY <1>1 DEF PlanesOf
<1>6. sb(req, p) = IF p > 0 /\ Info(req).npln > 1 THEN <<64, 4>>
                   ELSE IF "32x8" \in req.mods THEN <<32, 8>>
                   ELSE IF "64x4" \in req.mods THEN <<64, 4>> ELSE <<16, 16>>
  BY <1>2, Zenon DEF sb
<1>7. t = IF "32x8" \in req.mods THEN IF Info(req).npln > 1 THEN "32x8_64x4" ELSE "32x8"
          ELSE IF "64x4" \in req.mods THEN "64x4" ELSE "16x16"
  BY <1>1, Zenon DEF afbc_block_size
<1>8. BlockSize(T, p) = CASE t = "32x8_64x4" -> IF p = 0 THEN <<32, 8>> ELSE <<64, 4>>
                          [] t = "32x8"      -> <<32, 8>>
                          [] t = "64x4"      -> <<64, 4>>
                          [] t = "16x16"     -> <<16, 16>>
  <2>1. /\ "32x8_64x4" \in T <=> t = "32x8_64x4"
        /\ "32x8" \in T <=> t = "32x8"
        /\ "64x4" \in T <=> t = "64x4"
        /\ "16x16" \in T <=> t = "16x16"
    BY <1>4, Zenon DEF BlockTags
  <2> HIDE DEF t, T
  <2>2. t \in {"32x8_64x4", "32x8", "64x4", "16x16"}
    BY <1>3 DEF BlockTags
  <2> QED
    BY <2>1, <2>2 DEF BlockSize
<1> HIDE DEF t, T
<1>9. CASE Info(req).npln > 1
  <2>1. "64x4" \in req.mods
    BY <1>2, <1>9
  <2>2. CASE "32x8" \in req.mods
    BY <1>5, <1>6, <1>7, <1>8, <1>9, <2>2 DEF T
  <2>3. CASE "32x8" \notin req.mods
    BY <1>5, <1>6, <1>7, <1>8, <1>9, <2>1, <2>3 DEF T
  <2> QED
    BY <2>2, <2>3
<1>10. CASE ~(Info(req).npln > 1)
  <2>1. p = 0
    BY <1>5, <1>10
  <2>2. CASE "32x8" \in req.mods
    BY <1>6, <1>7, <1>8, <1>10, <2>1, <2>2 DEF T
  <2>3. CASE "32x8" \notin req.mods /\ "64x4" \in req.mods
    BY <1>6, <1>7, <1>8, <1>10, <2>1, <2>3 DEF T
  <2>4. CASE "32x8" \notin req.mods /\ "64x4" \notin req.mods
    BY <1>6, <1>7, <1>8, <1>10, <2>1, <2>4 DEF T
  <2> QED
    BY <2>2, <2>3, <2>4
<1> QED
  BY <1>9, <1>10

\* Dividing by one shape and then the other is dividing by both.
LEMMA DivTwice ==
  ASSUME NEW w \in Nat, NEW c \in {4, 8, 16}, NEW t \in {8, 16}
  PROVE  (w \div c) \div t = w \div (t * c) /\ (w \div c) \div t \in Nat
<1>1. CASE c = 4
  BY <1>1
<1>2. CASE c = 8
  BY <1>2
<1>3. CASE c = 16
  BY <1>3
<1> QED
  BY <1>1, <1>2, <1>3

\* An AFRC modifier tells the paging tiles and coding units of every plane.
LEMMA TilesTold ==
  ASSUME QueryInv, Derived, is_afrc(req), req.base \in DOMAIN Fourccs, NEW p \in PlanesOf(req),
         NEW tags, tags = get_afrc_modifier_tags
  PROVE  /\ (IF <<"SCAN", 1>> \in tags THEN <<16, 4>> ELSE <<8, 8>>) = paging_tile(req)
         /\ (CHOOSE b \in {16, 24, 32} : <<IF p = 0 THEN "P0" ELSE "P12", b>> \in tags)
              = coding_unit_bytes(req, p)
<1>1. /\ Sound(req) /\ Accepted(req) /\ Info(req).npln \in 1 .. 3
      /\ is_multi_plane_handle <=> Info(req).npln > 1
  BY BufferIs, PlanesCounted
<1>2. /\ "ROT" \notin req.mods => <<"SCAN", 1>> \in tags
      /\ "ROT" \in req.mods => <<"SCAN", 1>> \notin tags
  BY DEF get_afrc_modifier_tags
<1>3. p \in Nat /\ (p > 0 => Info(req).npln > 1)
  BY <1>1 DEF PlanesOf
<1>4. p > 0 => "yuv" \in Info(req).is
  BY <1>1, <1>3, TableFacts DEF Sound, Info
<1> DEFINE u == coding_unit_bytes(req, p)
<1>5. u \in {16, 24, 32}
  BY <1>1, CodingIs
<1>6. \A b \in {16, 24, 32} : <<IF p = 0 THEN "P0" ELSE "P12", b>> \in tags <=> b = u
  <2>1. CASE p = 0
    <3>1. \A b : <<"P0", b>> \in tags <=> b = req.coding[1]
      BY DEF get_afrc_modifier_tags
    <3> QED
      BY <2>1, <3>1, Zenon DEF coding_unit_bytes
  <2>2. CASE p # 0
    <3>1. p > 0 /\ "yuv" \in Info(req).is /\ is_multi_plane_handle
      BY <1>1, <1>3, <1>4, <2>2
    <3>2. \A b : <<"P12", b>> \in tags <=> b = req.coding[2]
      BY <3>1 DEF get_afrc_modifier_tags
    <3> QED
      BY <2>2, <3>2, Zenon DEF coding_unit_bytes
  <2> QED
    BY <2>1, <2>2
<1> HIDE DEF u
<1>7. (CHOOSE b \in {16, 24, 32} : <<IF p = 0 THEN "P0" ELSE "P12", b>> \in tags) = u
  <2> DEFINE P(b) == <<IF p = 0 THEN "P0" ELSE "P12", b>> \in tags
  <2>1. \E b \in {16, 24, 32} : P(b)
    BY <1>5, <1>6, Zenon
  <2>2. LET b == CHOOSE b \in {16, 24, 32} : P(b) IN b \in {16, 24, 32} /\ P(b)
    BY <2>1, Zenon
  <2> QED
    BY <1>6, <2>2, Zenon
<1> QED
  BY <1>2, <1>7 DEF paging_tile, u

\* The stride of an AFRC plane is that of its paging tiles.
LEMMA TileRowIs ==
  ASSUME QueryInv, Derived, is_afrc(req), NEW p \in PlanesOf(req)
  PROVE  LET t == paging_tile(req)
             c == clump(req, p)
             i == plane_info[p] IN
         i.byte_stride * t[2] * c[2] = (i.alloc_width \div (t[1] * c[1])) * 64 * coding_unit_bytes(req, p)
<1> DEFINE t1 == paging_tile(req)[1]
           t2 == paging_tile(req)[2]
           c1 == clump(req, p)[1]
           c2 == clump(req, p)[2]
           w == plane_info[p].alloc_width
           s == plane_info[p].byte_stride
           u == coding_unit_bytes(req, p)
           a == AfrcTileRow(req, p)
           d == t2 * c2
           n == (w \div c1) \div t1
<1>1. Sound(req) /\ Accepted(req)
  BY BufferIs
<1>2. /\ Shaped(req, p, plane_info[p])
      /\ s = byte_stride(req, p, LumaOf(req, p))
  BY PlanesInside, Zenon
<1>3. w = get_pixel_w(req, p) /\ w \in Nat
  BY <1>1, <1>2, DimensionsIs, Zenon DEF Shaped
<1>4. s = a \div d
  BY <1>2, Zenon DEF byte_stride
<1>5. a = n * 64 * u
  BY <1>3, Zenon DEF AfrcTileRow
<1>6. a % d = 0
  BY <1>1, AfrcWhole
<1>7. /\ t1 \in {8, 16} /\ t2 \in {4, 8} /\ c1 \in {4, 8, 16} /\ c2 \in {4, 8} /\ u \in {16, 24, 32}
  BY <1>1, ShapesAre, CodingIs
<1> HIDE DEF t1, t2, c1, c2, w, s, u, a
<1>8. n = w \div (t1 * c1) /\ n \in Nat
  BY <1>3, <1>7, DivTwice
<1> HIDE DEF n
<1>9. a \in Nat
  BY <1>5, <1>7, <1>8
<1>10. d \in Nat \ {0}
  BY <1>7
<1> HIDE DEF d
<1>11. a = (a \div d) * d + (a % d) /\ a \div d \in Nat
  BY <1>9, <1>10, DivIs
<1>12. s * d = a /\ s \in Nat
  BY <1>4, <1>6, <1>9, <1>10, <1>11
<1>13. s * t2 * c2 = s * d
  BY <1>7, <1>12 DEF d
<1>14. s * t2 * c2 = (w \div (t1 * c1)) * 64 * u
  BY <1>5, <1>8, <1>12, <1>13
<1> QED
  BY <1>14 DEF t1, t2, c1, c2, w, s, u

\* Fourcc and modifier tell the layout.
LEMMA ModifierTells == ASSUME QueryInv PROVE ModifierTellsLayout
<1> DEFINE T == drm_modifier_from_handle
           tile == IF <<"SCAN", 1>> \in T THEN <<16, 4>> ELSE <<8, 8>>
           bytes(p) == CHOOSE b \in {16, 24, 32} : <<IF p = 0 THEN "P0" ELSE "P12", b>> \in T
<1> SUFFICES ASSUME Derived, drm_fourcc_from_handle # "INVALID"
             PROVE  /\ T = {} <=> Uncompressed(req)
                    /\ is_afbc(req) => \A p \in Known : BlockSize(T, p) = sb(req, p)
                    /\ is_afrc(req) => \A p \in Known :
                         plane_info[p].byte_stride * tile[2] * clump(req, p)[2]
                           = (plane_info[p].alloc_width \div (tile[1] * clump(req, p)[1])) * 64 * bytes(p)
  BY Zenon DEF ModifierTellsLayout
<1>1. Known = PlanesOf(req)
  BY BufferIs
<1>2. req.base \in DOMAIN Fourccs
  <2>1. "RGB_565" \in DOMAIN Fourccs
    BY DEF Fourccs
  <2> QED
    BY <2>1, Zenon DEF drm_fourcc_from_handle
<1>3. /\ is_afbc(req) => T = get_afbc_modifier_tags
      /\ is_afrc(req) => T = get_afrc_modifier_tags
      /\ is_block_linear(req) => T = {"GENERIC_16_16_TILE"}
      /\ Uncompressed(req) => T = {}
  BY DEF drm_modifier_from_handle, is_afrc, is_block_linear, Uncompressed
<1>4. afbc_block_size \in get_afbc_modifier_tags
  BY DEF get_afbc_modifier_tags
<1>5. <<"P0", req.coding[1]>> \in get_afrc_modifier_tags
  BY <1>2 DEF get_afrc_modifier_tags
<1>6. T = {} <=> Uncompressed(req)
  BY <1>3, <1>4, <1>5, Zenon DEF Uncompressed
<1>7. is_afbc(req) => \A p \in Known : BlockSize(T, p) = sb(req, p)
  BY <1>1, <1>3, BlocksTold, Zenon
<1>8. ASSUME is_afrc(req), NEW p \in Known
      PROVE  plane_info[p].byte_stride * tile[2] * clump(req, p)[2]
               = (plane_info[p].alloc_width \div (tile[1] * clump(req, p)[1])) * 64 * bytes(p)
  <2>1. T = get_afrc_modifier_tags
    BY <1>3, <1>8
  <2>2. tile = paging_tile(req) /\ bytes(p) = coding_unit_bytes(req, p)
    BY <1>1, <1>2, <1>8, <2>1, TilesTold, ZenonT(40)
  <2> HIDE DEF tile, bytes
  <2> QED
    BY <1>1, <1>8, <2>2, TileRowIs, Zenon
<1> QED
  BY <1>6, <1>7, <1>8, Zenon

-----------------------------------------------------------------------------
\* lock_flex, lock_ycbcr and get describe the samples of a buffer alike.
THEOREM DescriptionsAlike == QuerySpec => []DescriptionsAgree
<1>1. QueryInv => DescriptionsAgree
  BY FlexReported, YcbcrReported DEF DescriptionsAgree
<1> QED
  BY <1>1, QueryInvariance, PTL

\* What the users of a buffer are told lies inside it.
THEOREM DescriptionsInside == QuerySpec => []DescribedInside
<1>1. QueryInv => DescribedInside
  BY LayoutsAre, FlexFits, ComponentsAre DEF DescribedInside
<1> QED
  BY <1>1, QueryInvariance, PTL

\* A compressed buffer is laid out as its modifier says.
THEOREM ModifiersTell == QuerySpec => []ModifierTellsLayout
<1>1. QueryInv => ModifierTellsLayout
  BY ModifierTells
<1> QED
  BY <1>1, QueryInvariance, PTL
=============================================================================
