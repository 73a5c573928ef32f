--------------------------- MODULE AllocSizeProofs ---------------------------
(***************************************************************************)
(* Proofs about AllocSize, as a part of BufferQueries, for every set of       *)
(* requests and descriptions and every directory of capability files: a       *)
(* derivation is a function of the request, whatever an earlier one left in   *)
(* the descriptor.                                                           *)
(*                                                                          *)
(* First the arithmetic of strides and sizes and the derivation in closed     *)
(* form, with what it leaves: room for the pixels, planes one after another,  *)
(* alignments, headers, the assertions on strides.  Then the invariant that   *)
(* every step of the loop reaches it.  The theorems on the properties of      *)
(* AllocSize that follow are in BufferQueriesProofs, which knows what a       *)
(* request may be.                                                           *)
(***************************************************************************)
EXTENDS ArmSelectionProofs

-----------------------------------------------------------------------------
(* Rounding.                                                                *)

\* Division with a remainder, as a list of facts.
LEMMA DivIs ==
  ASSUME NEW a \in Nat, NEW b \in Nat \ {0}
  PROVE  /\ a \div b \in Nat
         /\ (a \div b) * b <= a
         /\ a < (a \div b) * b + b
         /\ a = ((a \div b) * b) + (a % b)
         /\ a % b \in 0 .. b - 1
  OBVIOUS

\* GRALLOC_ALIGN rounds up, by less than the base, and not what is aligned.
LEMMA AlignIs ==
  ASSUME NEW v \in Nat, NEW b \in Nat \ {0}
  PROVE  /\ Align(v, b) \in Nat /\ v <= Align(v, b) /\ Align(v, b) < v + b
         /\ Align(v, b) % b = 0
         /\ v % b = 0 => Align(v, b) = v
<1> DEFINE u == v + b - 1
           k == u \div b
<1>u. u \in Nat
  OBVIOUS
<1>2. Align(v, b) = k * b
  BY DEF Align
<1>v. v + b - 1 = u
  OBVIOUS
<1> HIDE DEF u
<1>1. k \in Nat /\ k * b <= v + b - 1 /\ v + b - 1 < k * b + b
  BY <1>u, <1>v, DivIs
<1> HIDE DEF k
<1>3. k * b \in Nat /\ (k * b) % b = 0
  BY <1>1
<1>4. ASSUME v % b = 0 PROVE k * b = v
  <2> DEFINE j == v \div b
  <2>1. j \in Nat /\ v = j * b
    BY <1>4, DivIs
  <2> HIDE DEF j
  <2>2. j * b < k * b + 1 /\ k * b < j * b + b
    BY <1>1, <2>1
  <2>3. k * b - j * b = (k - j) * b /\ k - j \in Int
    BY <1>1, <2>1
  <2>4. k = j
    BY <2>2, <2>3, <1>1, <2>1
  <2> QED
    BY <2>1, <2>4
<1> QED
  BY <1>1, <1>2, <1>3, <1>4

\* The largest of three numbers.
LEMMA MaxIs ==
  ASSUME NEW a \in Nat, NEW b \in Nat, NEW c \in Nat
  PROVE  /\ Max({a, b, c}) \in {a, b, c} /\ a <= Max({a, b, c}) /\ b <= Max({a, b, c}) /\ c <= Max({a, b, c})
<1>1. \E x \in {a, b, c} : \A y \in {a, b, c} : x >= y
  OBVIOUS
<1>2. /\ Max({a, b, c}) \in {a, b, c}
      /\ \A y \in {a, b, c} : Max({a, b, c}) >= y
  BY <1>1, Zenon DEF Max
<1> QED
  BY <1>2

-----------------------------------------------------------------------------
(* Dimensions of a plane.                                                    *)

\* A request whose format is in the table, for one of its planes.
Sound(r) == r.base \in DOMAIN formats /\ r.width \in Nat /\ r.height \in Nat

PlanesOf(r) == 0 .. Info(r).npln - 1

\* What the table says of a request's format.
LEMMA RowIs ==
  ASSUME NEW r, Sound(r)
  PROVE  /\ Info(r).npln \in 1 .. 3 /\ 0 \in PlanesOf(r) /\ PlanesOf(r) \subseteq Planes
         /\ Info(r).align_w \in {1, 2, 4} /\ Info(r).align_h \in {1, 2}
         /\ Info(r).align_w_cpu \in {1, 4, 16} /\ Info(r).tile_size \in {1, 2}
         /\ \A p \in Planes : At(Info(r).bpp, p) \in 0 .. 64 /\ At(Info(r).bpp_afbc, p) \in 0 .. 64
         /\ \A p \in PlanesOf(r) : /\ Hsub(r, p) \in {1, 2} /\ Info(r).align_w % Hsub(r, p) = 0
                                   /\ Vsub(r, p) \in {1, 2} /\ Info(r).align_h % Vsub(r, p) = 0
<1>1. /\ Info(r).npln \in 1 .. 3
      /\ Info(r).align_w \in {1, 2, 4} /\ Info(r).align_h \in {1, 2}
      /\ Info(r).align_w_cpu \in {1, 4, 16} /\ Info(r).tile_size \in {1, 2}
      /\ Info(r).npln > 1 => /\ Info(r).hsub \in {1, 2} /\ Info(r).align_w % Info(r).hsub = 0
                             /\ Info(r).vsub \in {1, 2} /\ Info(r).align_h % Info(r).vsub = 0
      /\ \A p \in Planes : At(Info(r).bpp, p) \in 0 .. 64 /\ At(Info(r).bpp_afbc, p) \in 0 .. 64
  BY TableAssumption, Zenon DEF Sound, Info
<1>2. 0 \in PlanesOf(r) /\ PlanesOf(r) \subseteq Planes
  BY <1>1 DEF Planes, PlanesOf
<1>3. ASSUME NEW p \in PlanesOf(r)
      PROVE  /\ Hsub(r, p) \in {1, 2} /\ Info(r).align_w % Hsub(r, p) = 0
             /\ Vsub(r, p) \in {1, 2} /\ Info(r).align_h % Vsub(r, p) = 0
  <2>1. CASE p = 0
    <3>1. Hsub(r, p) = 1 /\ Vsub(r, p) = 1
      BY <2>1 DEF Hsub, Vsub
    <3> QED
      BY <3>1, <1>1
  <2>2. CASE p # 0
    <3>1. Hsub(r, p) = Info(r).hsub /\ Vsub(r, p) = Info(r).vsub /\ Info(r).npln > 1
      BY <2>2, <1>1 DEF Hsub, Vsub, PlanesOf
    <3> QED
      BY <3>1, <1>1
  <2> QED
    BY <2>1, <2>2
<1> QED
  BY <1>1, <1>2, <1>3

\* Superblocks have 256 pixels.
LEMMA SbIs ==
  ASSUME NEW r, NEW p
  PROVE  sb(r, p) \in {<<16, 16>>, <<32, 8>>, <<64, 4>>}
  BY DEF sb

\* All alignments of dimensions are positive.
LEMMA PixelAlignIs ==
  ASSUME NEW r, Sound(r), NEW p \in PlanesOf(r)
  PROVE  PixelAlign(r, p)[1] \in Nat \ {0} /\ PixelAlign(r, p)[2] \in Nat \ {0}
<1>1. CASE has_cpu_usage(r)
  BY <1>1, RowIs DEF PixelAlign
<1>2. CASE is_afbc(r) /\ ~has_cpu_usage(r)
  <2>1. sb(r, p)[1] \in {16, 32, 64} /\ sb(r, p)[2] \in {4, 8, 16}
    BY SbIs
  <2>2. AfbcTile(r, p) \in {1, 4, 8}
    BY DEF AfbcTile
  <2> DEFINE a == IF is_padded(r) /\ "yuv" \notin Info(r).is THEN 4 * sb(r, p)[1] ELSE 0
             b == AfbcTile(r, p) * sb(r, p)[1]
             c == AfbcTile(r, p) * sb(r, p)[2]
             d == IF "32x8" \in r.mods /\ ~is_tiled(r) THEN 16 ELSE 1
  <2>3. a \in Nat /\ b \in Nat \ {0} /\ c \in Nat \ {0} /\ d \in Nat \ {0}
    BY <2>1, <2>2
  <2>4. AfbcAlign(r, p)[1] = Max({a, b}) /\ AfbcAlign(r, p)[2] = Max({c, d})
    BY DEF AfbcAlign
  <2>5. PixelAlign(r, p) = AfbcAlign(r, p)
    BY <1>2 DEF PixelAlign
  <2> HIDE DEF a, b, c, d
  <2>6. {a, b} = {a, b, b} /\ {c, d} = {c, d, d}
    OBVIOUS
  <2> QED
    BY <2>3, <2>4, <2>5, <2>6, MaxIs
<1>3. CASE is_afrc(r) /\ ~is_afbc(r) /\ ~has_cpu_usage(r)
  <2>1. paging_tile(r)[1] \in {8, 16} /\ paging_tile(r)[2] \in {4, 8}
    BY DEF paging_tile
  <2>2. clump(r, p)[1] \in {4, 8, 16} /\ clump(r, p)[2] \in {4, 8}
    BY DEF paging_tile, clump
  <2>3. PixelAlign(r, p) = << paging_tile(r)[1] * clump(r, p)[1], paging_tile(r)[2] * clump(r, p)[2] >>
    BY <1>3 DEF PixelAlign
  <2> QED
    BY <2>1, <2>2, <2>3
<1>4. CASE ~has_cpu_usage(r) /\ ~is_afbc(r) /\ ~is_afrc(r)
  BY <1>4 DEF PixelAlign
<1> QED
  BY <1>1, <1>2, <1>3, <1>4

\* The dimensions after mali_gralloc_adjust_dimensions are at least those asked for.
LEMMA AdjustedIs ==
  ASSUME NEW r, Sound(r)
  PROVE  /\ AdjustedWidth(r) \in Nat /\ r.width <= AdjustedWidth(r)
         /\ AdjustedHeight(r) \in Nat /\ r.height <= AdjustedHeight(r)
         /\ ~is_afbc(r) => AdjustedWidth(r) = r.width
<1>1. GpuTile(r) \in Nat \ {0} /\ (~is_afbc(r) => GpuTile(r) = 1)
  BY DEF GpuTile
<1>2. HeightAlign(r.usage) \in Nat \ {0}
  BY DEF HeightAlign
<1> DEFINE h == Align(r.height, HeightAlign(r.usage))
           k == IF r.base \in DepthStencil THEN 2 ELSE 1
<1>3. h \in Nat /\ r.height <= h
  BY <1>2, AlignIs DEF Sound
<1> HIDE DEF h
<1>4. h * k \in Nat /\ r.height <= h * k
  BY <1>3 DEF Sound
<1>5. AdjustedHeight(r) = Align(h * k, GpuTile(r))
  BY DEF AdjustedHeight, h
<1> HIDE DEF k
<1>6. AdjustedHeight(r) \in Nat /\ h * k <= AdjustedHeight(r)
  BY <1>1, <1>4, <1>5, AlignIs
<1>7. AdjustedWidth(r) \in Nat /\ r.width <= AdjustedWidth(r)
  BY <1>1, AlignIs DEF AdjustedWidth, Sound
<1>8. ~is_afbc(r) => AdjustedWidth(r) = r.width
  <2>1. r.width % 1 = 0
    BY DEF Sound
  <2> QED
  BY <1>1, <2>1, AlignIs DEF AdjustedWidth, Sound
<1> QED
  BY <1>3, <1>4, <1>6, <1>7, <1>8 DEF Sound

\* What is rounded up to whole samples has room for them in a subsampled plane.
LEMMA Subsampled ==
  ASSUME NEW wanted \in Nat, NEW adjusted \in Nat, wanted <= adjusted,
         NEW a \in {1, 2, 4}, NEW h \in {1, 2}, a % h = 0
  PROVE  /\ Align(adjusted, a) \div h \in Nat
         /\ CeilDiv(wanted, h) \in Nat /\ CeilDiv(wanted, h) <= Align(adjusted, a) \div h
         /\ (Align(adjusted, a) \div h) * h = Align(adjusted, a)
<1> DEFINE w == Align(adjusted, a)
<1>1. w \in Nat /\ wanted <= w /\ w % a = 0
  BY AlignIs
<1> HIDE DEF w
<1>2. w % h = 0
  BY <1>1
<1>3. w \div h \in Nat /\ CeilDiv(wanted, h) \in Nat /\ CeilDiv(wanted, h) <= w \div h /\ (w \div h) * h = w
  BY <1>1, <1>2 DEF CeilDiv
<1> QED
  BY <1>3 DEF w

\* get_pixel_w_h: a plane has room for the pixels wanted for, and its dimensions are
\* multiples of their alignment.
WidthAlign(r, p)  == Max({1, PixelAlign(r, p)[1], Info(r).tile_size})
HeightAlignOf(r, p) == Max({1, PixelAlign(r, p)[2], Info(r).tile_size})

\* The alignment of a dimension is the largest of three.
LEMMA AlignOf ==
  ASSUME NEW r, Sound(r), NEW p \in PlanesOf(r)
  PROVE  /\ WidthAlign(r, p) \in {1, PixelAlign(r, p)[1], Info(r).tile_size}
         /\ WidthAlign(r, p) \in Nat \ {0} /\ HeightAlignOf(r, p) \in Nat \ {0}
         /\ PixelAlign(r, p)[1] <= WidthAlign(r, p) /\ PixelAlign(r, p)[2] <= HeightAlignOf(r, p)
  BY PixelAlignIs, RowIs, MaxIs DEF WidthAlign, HeightAlignOf

\* get_pixel_w_h: a plane has room for the pixels asked for, and its dimensions are
\* multiples of their alignment.
LEMMA DimensionsIs ==
  ASSUME NEW r, Sound(r), NEW p \in PlanesOf(r)
  PROVE  /\ get_pixel_w(r, p) \in Nat /\ get_pixel_h(r, p) \in Nat
         /\ CeilDiv(r.width, Hsub(r, p)) \in Nat /\ CeilDiv(r.height, Vsub(r, p)) \in Nat
         /\ CeilDiv(r.width, Hsub(r, p)) <= get_pixel_w(r, p)
         /\ CeilDiv(r.height, Vsub(r, p)) <= get_pixel_h(r, p)
         /\ get_pixel_w(r, p) % WidthAlign(r, p) = 0
         /\ get_pixel_h(r, p) % HeightAlignOf(r, p) = 0
         /\ Align(AdjustedWidth(r), Info(r).align_w) \div Hsub(r, p) <= get_pixel_w(r, p)
<1> DEFINE w == Align(AdjustedWidth(r), Info(r).align_w) \div Hsub(r, p)
           h == Align(AdjustedHeight(r), Info(r).align_h) \div Vsub(r, p)
<1>a. /\ Info(r).align_w \in {1, 2, 4} /\ Hsub(r, p) \in {1, 2} /\ Info(r).align_w % Hsub(r, p) = 0
      /\ Info(r).align_h \in {1, 2, 4} /\ Vsub(r, p) \in {1, 2} /\ Info(r).align_h % Vsub(r, p) = 0
  BY RowIs
<1>b. /\ r.width \in Nat /\ AdjustedWidth(r) \in Nat /\ r.width <= AdjustedWidth(r)
      /\ r.height \in Nat /\ AdjustedHeight(r) \in Nat /\ r.height <= AdjustedHeight(r)
  BY AdjustedIs DEF Sound
<1>1. w \in Nat /\ CeilDiv(r.width, Hsub(r, p)) \in Nat /\ CeilDiv(r.width, Hsub(r, p)) <= w
  BY <1>a, <1>b, Subsampled, Zenon
<1>2. h \in Nat /\ CeilDiv(r.height, Vsub(r, p)) \in Nat /\ CeilDiv(r.height, Vsub(r, p)) <= h
  BY <1>a, <1>b, Subsampled, Zenon
<1>3. get_pixel_w(r, p) = Align(w, WidthAlign(r, p)) /\ get_pixel_h(r, p) = Align(h, HeightAlignOf(r, p))
  BY DEF get_pixel_w, get_pixel_h, WidthAlign, HeightAlignOf
<1> HIDE DEF w, h
<1>4. WidthAlign(r, p) \in Nat \ {0} /\ HeightAlignOf(r, p) \in Nat \ {0}
  BY AlignOf
<1>5. /\ get_pixel_w(r, p) \in Nat /\ w <= get_pixel_w(r, p)
      /\ get_pixel_w(r, p) % WidthAlign(r, p) = 0
  BY <1>1, <1>3, <1>4, AlignIs
<1>8. /\ get_pixel_h(r, p) \in Nat /\ h <= get_pixel_h(r, p)
      /\ get_pixel_h(r, p) % HeightAlignOf(r, p) = 0
  BY <1>2, <1>3, <1>4, AlignIs
<1>6. CeilDiv(r.width, Hsub(r, p)) <= get_pixel_w(r, p)
  BY <1>1, <1>5
<1>7. CeilDiv(r.height, Vsub(r, p)) <= get_pixel_h(r, p)
  BY <1>2, <1>8
<1> QED
  BY <1>1, <1>2, <1>5, <1>6, <1>7, <1>8, Zenon DEF w

-----------------------------------------------------------------------------
(* Strides.                                                                  *)

\* One stride flag is one of four, and a stride may be as it says.
OneFlag(flags) == \/ flags = {"ALIGN_16"} \/ flags = {"ALIGN_64"}
                  \/ flags = {"ALIGN_128"} \/ flags = {"ALIGN_256_ODD"}
Flagged(flags, stride) ==
  /\ flags = {"ALIGN_16"}  => stride % 16 = 0
  /\ flags = {"ALIGN_64"}  => stride % 64 = 0
  /\ flags = {"ALIGN_128"} => stride % 128 = 0
  /\ flags = {"ALIGN_256_ODD"} => stride % 512 = 256

\* One stride flag is one of four.
LEMMA FlagsAre ==
  ASSUME NEW r, OneStrideFlag(r), StrideFlags(r) # {}
  PROVE  OneFlag(StrideFlags(r))
<1>1. PICK x \in StrideFlags(r) : TRUE
  OBVIOUS
<1>2. StrideFlags(r) = {x}
  BY DEF OneStrideFlag
<1>3. x \in {"ALIGN_16", "ALIGN_64", "ALIGN_128", "ALIGN_256_ODD"}
  BY DEF StrideFlags
<1> QED
  BY <1>2, <1>3 DEF OneFlag

\* A stride that obeys any of them is even.
LEMMA FlaggedEven ==
  ASSUME NEW flags, OneFlag(flags), NEW s \in Nat, Flagged(flags, s)
  PROVE  s % 2 = 0
<1>1. s % 16 = 0 \/ s % 64 = 0 \/ s % 128 = 0 \/ s % 512 = 256
  BY DEF OneFlag, Flagged
<1> QED
  BY <1>1

\* Obeying a stride flag never makes the stride smaller.
LEMMA FlagAlignIs ==
  ASSUME NEW flags, NEW v \in Nat, NEW o \in Nat
  PROVE  /\ FlagAlign(flags, v, o) \in Nat
         /\ FlagAlign(flags, v, v) \in Nat /\ v <= FlagAlign(flags, v, v)
         /\ OneFlag(flags) => v <= FlagAlign(flags, v, o) /\ Flagged(flags, FlagAlign(flags, v, o))
<1>1. Align(v, 16) \in Nat /\ v <= Align(v, 16) /\ Align(v, 16) % 16 = 0
  BY AlignIs
<1>2. Align(v, 64) \in Nat /\ v <= Align(v, 64) /\ Align(v, 64) % 64 = 0
  BY AlignIs
<1>3. Align(v, 128) \in Nat /\ v <= Align(v, 128) /\ Align(v, 128) % 128 = 0
  BY AlignIs
<1>4. Align(v, 256) \in Nat /\ v <= Align(v, 256) /\ Align(v, 256) % 256 = 0
  BY AlignIs
<1> DEFINE odd == Align(v, 256) + (IF (Align(v, 256) \div 256) % 2 = 0 THEN 256 ELSE 0)
<1>5. odd \in Nat /\ v <= odd /\ odd % 512 = 256
  <2> DEFINE k == Align(v, 256) \div 256
  <2>1. k \in Nat /\ Align(v, 256) = 256 * k
    BY <1>4
  <2>2. odd = 256 * k + (IF k % 2 = 0 THEN 256 ELSE 0)
    BY <2>1
  <2> HIDE DEF k, odd
  <2> QED
    BY <1>4, <2>1, <2>2
<1> HIDE DEF odd
<1>6. FlagAlign(flags, v, o) = IF flags = {"ALIGN_16"} THEN Align(v, 16)
        ELSE IF flags = {"ALIGN_64"} THEN Align(v, 64) ELSE IF flags = {"ALIGN_128"} THEN Align(v, 128)
        ELSE IF flags = {"ALIGN_256_ODD"} THEN odd ELSE o
  BY DEF FlagAlign, odd
<1>7. FlagAlign(flags, v, v) = IF flags = {"ALIGN_16"} THEN Align(v, 16)
        ELSE IF flags = {"ALIGN_64"} THEN Align(v, 64) ELSE IF flags = {"ALIGN_128"} THEN Align(v, 128)
        ELSE IF flags = {"ALIGN_256_ODD"} THEN odd ELSE v
  BY DEF FlagAlign, odd
<1>8. /\ {"ALIGN_16"} # {"ALIGN_64"} /\ {"ALIGN_16"} # {"ALIGN_128"} /\ {"ALIGN_16"} # {"ALIGN_256_ODD"}
      /\ {"ALIGN_64"} # {"ALIGN_128"} /\ {"ALIGN_64"} # {"ALIGN_256_ODD"} /\ {"ALIGN_128"} # {"ALIGN_256_ODD"}
  OBVIOUS
<1> QED
  BY <1>1, <1>2, <1>3, <1>5, <1>6, <1>7, <1>8 DEF OneFlag, Flagged

\* A common multiple, also when one of the alignments is absent.
LEMMA LcmIs ==
  ASSUME NEW a \in {0} \cup HwAlignments, NEW b \in {0} \cup CpuAlignments
  PROVE  /\ lcm(a, b) \in Nat /\ (lcm(a, b) = 0 <=> a = 0 /\ b = 0)
         /\ a # 0 => lcm(a, b) % a = 0
         /\ b # 0 => lcm(a, b) % b = 0
<1> USE DEF HwAlignments, CpuAlignments
<1>5. CASE a # 0 /\ b # 0
  <2>1. a \in HwAlignments /\ b \in CpuAlignments
    BY <1>5 DEF HwAlignments, CpuAlignments
  <2>2. lcm(a, b) \in 1 .. a * b /\ lcm(a, b) % a = 0 /\ lcm(a, b) % b = 0
    <3> HIDE DEF HwAlignments, CpuAlignments
    <3> QED
      BY <2>1, LcmAssumption, Zenon
  <2>3. a * b \in Nat
    OBVIOUS
  <2> QED
    BY <2>2, <2>3, <1>5
<1>6. CASE a = 0 \/ b = 0
  <2>1. lcm(a, b) = Max({a, b})
    BY <1>6, Zenon DEF lcm
  <2>2. {a, b} = {a, b, b} /\ a \in Nat /\ b \in Nat
    OBVIOUS
  <2>3. lcm(a, b) \in {a, b} /\ a <= lcm(a, b) /\ b <= lcm(a, b)
    BY <2>1, <2>2, MaxIs
  <2>4. lcm(a, b) = IF a = 0 THEN b ELSE a
    BY <2>3, <1>6
  <2> QED
    BY <2>4, <1>6
<1> QED
  BY <1>5, <1>6

\* The alignment of a linear stride is a multiple of the hardware's and the CPU's.
LEMMA AlignmentsAre ==
  ASSUME NEW r, Sound(r), NEW p \in PlanesOf(r)
  PROVE  /\ hw_align(r) \in {0, 1, 64, 128} /\ cpu_align(r, p) \in 0 .. 128
         /\ stride_align(r, p) \in Nat
         /\ stride_align(r, p) = 0 <=> hw_align(r) = 0 /\ cpu_align(r, p) = 0
         /\ hw_align(r) # 0 => stride_align(r, p) % hw_align(r) = 0
         /\ cpu_align(r, p) # 0 => stride_align(r, p) % cpu_align(r, p) = 0
<1>1. hw_align(r) \in {0, 1, 64, 128}
  BY DEF hw_align
<1>2. cpu_align(r, p) \in 0 .. 128
  <2>1. At(Info(r).bpp, p) \in 0 .. 64 /\ Info(r).align_w_cpu \in {1, 4, 16}
    BY RowIs
  <2> QED
    BY <2>1 DEF cpu_align
<1>3. hw_align(r) \in {0} \cup HwAlignments /\ cpu_align(r, p) \in {0} \cup CpuAlignments
  BY <1>1, <1>2 DEF HwAlignments, CpuAlignments
<1>4. /\ stride_align(r, p) \in Nat
      /\ stride_align(r, p) = 0 <=> hw_align(r) = 0 /\ cpu_align(r, p) = 0
      /\ hw_align(r) # 0 => stride_align(r, p) % hw_align(r) = 0
      /\ cpu_align(r, p) # 0 => stride_align(r, p) % cpu_align(r, p) = 0
  BY <1>3, LcmIs, Zenon DEF stride_align
<1> QED
  BY <1>1, <1>2, <1>4, Zenon

\* When a row of pixels fills whole bytes.
LEMMA EightBits ==
  ASSUME NEW w \in Nat, NEW b \in Nat,
         (b % 8 = 0) \/ (w % 4 = 0 /\ b % 2 = 0) \/ (w % 2 = 0 /\ b % 4 = 0)
  PROVE  (w * b) % 8 = 0 /\ ((w * b) \div 8) * 8 = w * b /\ (w * b) \div 8 \in Nat
<1>1. \E k \in Nat : w * b = 8 * k
  <2>1. CASE b % 8 = 0
    <3>1. PICK m \in Nat : b = 8 * m
      BY <2>1
    <3> WITNESS w * m \in Nat
    <3> QED BY <3>1
  <2>2. CASE w % 4 = 0 /\ b % 2 = 0
    <3>1. PICK m \in Nat : b = 2 * m
      BY <2>2
    <3>2. PICK n \in Nat : w = 4 * n
      BY <2>2
    <3> WITNESS n * m \in Nat
    <3> QED BY <3>1, <3>2
  <2>3. CASE w % 2 = 0 /\ b % 4 = 0
    <3>1. PICK m \in Nat : b = 4 * m
      BY <2>3
    <3>2. PICK n \in Nat : w = 2 * n
      BY <2>3
    <3> WITNESS n * m \in Nat
    <3> QED BY <3>1, <3>2
  <2> QED BY <2>1, <2>2, <2>3
<1>2. PICK k \in Nat : w * b = 8 * k
  BY <1>1
<1> DEFINE x == w * b
<1>3. x = 8 * k
  BY <1>2
<1> HIDE DEF x
<1>4. x % 8 = 0 /\ (x \div 8) * 8 = x /\ x \div 8 \in Nat
  BY <1>3
<1> QED
  BY <1>4 DEF x

\* The row of a linear plane ends with a whole byte.
LEMMA RawExact ==
  ASSUME NEW r, Sound(r), NEW p \in PlanesOf(r), Uncompressed(r), "linear" \in Info(r).is,
         WholeBytes(r)
  PROVE  /\ (get_pixel_w(r, p) * At(Info(r).bpp, p)) % 8 = 0
         /\ ((get_pixel_w(r, p) * At(Info(r).bpp, p)) \div 8) * 8 = get_pixel_w(r, p) * At(Info(r).bpp, p)
         /\ (get_pixel_w(r, p) * At(Info(r).bpp, p)) \div 8 \in Nat
<1> DEFINE w == get_pixel_w(r, p)
           b == At(Info(r).bpp, p)
           t == Align(AdjustedWidth(r), Info(r).align_w) \div Hsub(r, p)
<1>1. w \in Nat /\ b \in Nat /\ r.width \in Nat
  BY DimensionsIs, RowIs DEF Sound
<1>2. \/ b % 8 = 0
      \/ (w % 4 = 0 /\ b % 2 = 0)
      \/ (w % 2 = 0 /\ b % 4 = 0)
  <2>1. SUFFICES ASSUME b % 8 # 0
                 PROVE  (w % 4 = 0 /\ b % 2 = 0) \/ (w % 2 = 0 /\ b % 4 = 0)
    OBVIOUS
  <2>2. /\ Info(r).tile_size = 1 /\ b % (IF p = 0 THEN 2 ELSE 4) = 0
        /\ Info(r).align_w_cpu = 1 \/ (p = 0 /\ Info(r).align_w = 4 /\ Info(r).align_w_cpu = 4)
    BY <2>1, OddBitsAssumption, Zenon DEF Info, Sound, PlanesOf
  <2>3. AdjustedWidth(r) = r.width /\ AdjustedWidth(r) \in Nat /\ r.width <= AdjustedWidth(r)
    BY AdjustedIs DEF Uncompressed
  <2>4. PixelAlign(r, p)[1] \in {1, Info(r).align_w_cpu}
    BY DEF PixelAlign, Uncompressed
  <2>5. /\ Info(r).align_w \in {1, 2, 4} /\ Hsub(r, p) \in {1, 2} /\ Info(r).align_w % Hsub(r, p) = 0
        /\ Info(r).align_w_cpu \in {1, 4, 16}
    BY RowIs
  <2>6. w = Align(t, WidthAlign(r, p))
    BY DEF get_pixel_w, WidthAlign
  <2>7. t \in Nat
    BY <1>1, <2>3, <2>5, Subsampled, Zenon DEF t
  <2>8. CASE Info(r).align_w_cpu = 1
    <3>1. WidthAlign(r, p) = 1
      BY <2>8, <2>4, <2>2, AlignOf
    <3>2. w = t
      BY <3>1, <2>6, <2>7, AlignIs
    <3>3. r.width % 4 = 0
      <4>1. b % 8 # 0 /\ (b * Info(r).align_w_cpu) % 8 # 0
        BY <1>1, <2>1, <2>8
      <4> QED
        BY <4>1 DEF WholeBytes, KeepsNote, PlanesOf
    <3>4. Align(r.width, Info(r).align_w) = r.width
      <4>1. r.width % Info(r).align_w = 0 /\ Info(r).align_w \in Nat \ {0} /\ r.width \in Nat
        BY <3>3, <2>5, <1>1
      <4> QED
        BY <4>1, AlignIs, Zenon
    <3>5. t = r.width \div Hsub(r, p)
      BY <3>4, <2>3
    <3> HIDE DEF t, w, b
    <3>6. CASE p = 0
      <4>1. Hsub(r, p) = 1
        BY <3>6 DEF Hsub
      <4> QED
        BY <4>1, <3>2, <3>3, <3>5, <3>6, <1>1, <2>2
    <3>7. CASE p # 0
      <4>1. b % 4 = 0
        BY <3>7, <2>2
      <4>2. t % 2 = 0
        BY <3>3, <3>5, <1>1, <2>5
      <4> QED
        BY <4>1, <4>2, <3>2
    <3> QED BY <3>6, <3>7
  <2>9. CASE p = 0 /\ Info(r).align_w = 4 /\ Info(r).align_w_cpu = 4
    <3>1. WidthAlign(r, p) \in {1, 4}
      BY <2>9, <2>4, <2>2, AlignOf
    <3>2. Hsub(r, p) = 1 /\ b % 2 = 0
      BY <2>9, <2>2 DEF Hsub
    <3>3. Align(r.width, 4) \in Nat /\ Align(r.width, 4) % 4 = 0
      BY <1>1, AlignIs
    <3>4. t = Align(r.width, 4)
      BY <3>2, <3>3, <2>3, <2>9
    <3> HIDE DEF t, w, b
    <3>5. t % 4 = 0
      BY <3>3, <3>4
    <3>6. CASE WidthAlign(r, p) = 4
      BY <3>6, <2>6, <2>7, <3>2, AlignIs
    <3>7. CASE WidthAlign(r, p) = 1
      <4>1. t % 1 = 0
        BY <2>7
      <4>2. w = t
        BY <4>1, <3>7, <2>6, <2>7, AlignIs
      <4> QED
        BY <4>2, <3>5, <3>2
    <3> QED
      BY <3>1, <3>6, <3>7
  <2> QED
    BY <2>2, <2>8, <2>9
<1> HIDE DEF w, b
<1>3. (w * b) % 8 = 0 /\ ((w * b) \div 8) * 8 = w * b /\ (w * b) \div 8 \in Nat
  BY <1>1, <1>2, EightBits
<1> QED
  BY <1>3 DEF w, b

\* The stride of a linear plane is never below the bytes of a row of pixels.
Raw(r, p)    == (get_pixel_w(r, p) * At(Info(r).bpp, p)) \div 8
FromLuma(r, p) == r.base = "YV12" /\ has_hw_usage(r) /\ has_cpu_usage(r) /\ p > 0
Nv12Asked(r) == r.base = "NV12" /\ StrideFlags(r) # {}

\* Aligning a stride never makes it smaller, tiles of two rows included.
LEMMA AlignedStrideIs ==
  ASSUME NEW r, Sound(r), NEW p \in PlanesOf(r), NEW raw \in Nat
  PROVE  AlignedStride(r, p, raw) \in Nat /\ raw <= AlignedStride(r, p, raw)
<1>1. Info(r).tile_size \in {1, 2}
  BY RowIs
<1>2. stride_align(r, p) \in Nat
  BY AlignmentsAre, Zenon
<1>3. CASE stride_align(r, p) = 0
  BY <1>3 DEF AlignedStride
<1>4. CASE stride_align(r, p) # 0
  <2> DEFINE x == Align(raw * Info(r).tile_size, stride_align(r, p))
  <2>1. raw * Info(r).tile_size \in Nat /\ stride_align(r, p) \in Nat \ {0}
    BY <1>1, <1>2, <1>4
  <2>2. x \in Nat /\ raw * Info(r).tile_size <= x
    BY <2>1, AlignIs, Zenon
  <2>3. AlignedStride(r, p, raw) = x \div Info(r).tile_size
    BY <1>4 DEF AlignedStride
  <2> HIDE DEF x
  <2> QED
    BY <2>2, <2>3, <1>1
<1> QED BY <1>3, <1>4

\* A linear stride is never below the bytes of a row, or half the luma stride.
LEMMA LinearIs ==
  ASSUME NEW r, Sound(r), NEW p \in PlanesOf(r), NEW luma \in Nat
  PROVE  /\ LinearStride(r, p, luma) \in Nat
         /\ ~Nv12Asked(r) /\ ~FromLuma(r, p) => Raw(r, p) <= LinearStride(r, p, luma)
         /\ FromLuma(r, p) => luma \div 2 <= LinearStride(r, p, luma)
<1>1. Raw(r, p) \in Nat
  <2>1. get_pixel_w(r, p) \in Nat /\ At(Info(r).bpp, p) \in Nat
    BY DimensionsIs, RowIs
  <2> QED
    BY <2>1 DEF Raw
<1>2. CASE Nv12Asked(r)
  <2> DEFINE x == FlagAlign(StrideFlags(r), AdjustedWidth(r), 0)
  <2>0. AdjustedWidth(r) \in Nat /\ 0 \in Nat
    BY AdjustedIs
  <2>1. x \in Nat
    BY <2>0, FlagAlignIs, Zenon
  <2>2. LinearStride(r, p, luma) = ((x * At(Info(r).bpp, p)) \div 8) \div Hsub(r, p)
    BY <1>2 DEF LinearStride, Nv12Asked
  <2>3. At(Info(r).bpp, p) \in Nat /\ Hsub(r, p) \in {1, 2}
    BY RowIs
  <2> HIDE DEF x
  <2>4. LinearStride(r, p, luma) \in Nat
    BY <2>1, <2>2, <2>3
  <2> QED
    BY <2>4, <1>2 DEF FromLuma, Nv12Asked
<1>3. CASE ~Nv12Asked(r)
  <2> DEFINE s == AlignedStride(r, p, Raw(r, p))
             y == update_yv12_stride(r, p, s, luma)
             f == FlaggedStride(r, y)
             n == IF r.base = "NV30" THEN 64 ELSE 1
  <2>1. LinearStride(r, p, luma) = Align(f, n)
    BY <1>3, Zenon DEF LinearStride, Nv12Asked, Raw
  <2>2. s \in Nat /\ Raw(r, p) <= s
    BY <1>1, AlignedStrideIs, Zenon
  <2> HIDE DEF s
  <2>3. y \in Nat /\ (IF FromLuma(r, p) THEN y = luma \div 2 ELSE s <= y)
    <3>1. CASE r.base = "YV12" /\ has_hw_usage(r) /\ has_cpu_usage(r)
      <4>1. CASE p = 0
        <5>1. y = Align(s, 2 * stride_align(r, p)) /\ ~FromLuma(r, p)
          BY <3>1, <4>1 DEF update_yv12_stride, FromLuma
        <5>2. stride_align(r, p) \in Nat /\ stride_align(r, p) # 0
          <6>1. hw_align(r) # 0
            BY <3>1 DEF hw_align
          <6> QED
            BY <6>1, AlignmentsAre, Zenon
        <5>3. 2 * stride_align(r, p) \in Nat \ {0}
          BY <5>2
        <5>4. Align(s, 2 * stride_align(r, p)) \in Nat /\ s <= Align(s, 2 * stride_align(r, p))
          BY <5>3, <2>2, AlignIs, Zenon
        <5> QED
          BY <5>1, <5>4, Zenon
      <4>2. CASE p # 0
        <5>1. p > 0
          BY <4>2 DEF PlanesOf
        <5>2. y = luma \div 2 /\ FromLuma(r, p)
          BY <3>1, <4>2, <5>1 DEF update_yv12_stride, FromLuma
        <5> HIDE DEF y
        <5> QED
          BY <5>2
      <4> QED BY <4>1, <4>2
    <3>2. CASE ~(r.base = "YV12" /\ has_hw_usage(r) /\ has_cpu_usage(r))
      <4>1. y = s /\ ~FromLuma(r, p)
        BY <3>2 DEF update_yv12_stride, FromLuma
      <4> HIDE DEF y
      <4> QED
        BY <4>1, <2>2
    <3> QED BY <3>1, <3>2
  <2> HIDE DEF y
  <2>4. f \in Nat /\ y <= f
    BY <2>3, FlagAlignIs DEF FlaggedStride
  <2> HIDE DEF f
  <2>5. n \in Nat \ {0}
    OBVIOUS
  <2> HIDE DEF n
  <2>6. Align(f, n) \in Nat /\ f <= Align(f, n)
    BY <2>4, <2>5, AlignIs
  <2> DEFINE a == Align(f, n)
  <2>7. a \in Nat /\ f <= a /\ LinearStride(r, p, luma) = a
    BY <2>6, <2>1
  <2> HIDE DEF a
  <2> QED
    BY <1>1, <1>3, <2>2, <2>3, <2>4, <2>7
<1> QED BY <1>2, <1>3

Luma(r) == LinearStride(r, 0, 0)

\* Half of an even stride holds half of the pixels, rounded up.
LEMMA HalfLuma ==
  ASSUME NEW width \in Nat, NEW luma \in Nat, Align(width, 2) <= luma
  PROVE  CeilDiv(width, 2) <= luma \div 2
<1>1. Align(width, 2) \in Nat /\ width <= Align(width, 2) /\ Align(width, 2) % 2 = 0
  BY AlignIs
<1> QED
  BY <1>1 DEF CeilDiv

\* The stride of NV12 under a stride flag holds the pixels of a row.
LEMMA Nv12Room ==
  ASSUME NEW r, Sound(r), NEW p \in PlanesOf(r), Uncompressed(r), Nv12Asked(r), OneStrideFlag(r),
         NEW luma \in Nat
  PROVE  CeilDiv(r.width, Hsub(r, p)) * At(Info(r).bpp, p) <= LinearStride(r, p, luma) * 8
<1> DEFINE x == FlagAlign(StrideFlags(r), AdjustedWidth(r), 0)
<1>1. AdjustedWidth(r) \in Nat /\ AdjustedWidth(r) = r.width /\ 0 \in Nat
  BY AdjustedIs DEF Uncompressed
<1>2. x \in Nat /\ r.width <= x /\ x % 2 = 0
  <2>1. OneFlag(StrideFlags(r))
    BY FlagsAre DEF Nv12Asked
  <2>2. x \in Nat /\ AdjustedWidth(r) <= x /\ Flagged(StrideFlags(r), x)
    BY <1>1, <2>1, FlagAlignIs, Zenon
  <2> HIDE DEF x
  <2>3. x % 2 = 0
    BY <2>1, <2>2, FlaggedEven, Zenon
  <2> QED
    BY <2>2, <2>3, <1>1
<1>3. LinearStride(r, p, luma) = ((x * At(Info(r).bpp, p)) \div 8) \div Hsub(r, p)
  BY DEF LinearStride, Nv12Asked
<1> HIDE DEF x
<1>4. Info(r).npln = 2 /\ Info(r).bpp = <<8, 16, 0>> /\ Info(r).hsub = 2
  BY NamedAssumption DEF Info, Nv12Asked
<1>5. r.width \in Nat
  BY DEF Sound
<1>6. CASE p = 0
  <2>1. Hsub(r, p) = 1 /\ At(Info(r).bpp, p) = 8
    BY <1>4, <1>6 DEF Hsub, At
  <2>2. LinearStride(r, p, luma) = x /\ CeilDiv(r.width, Hsub(r, p)) = r.width
    BY <2>1, <1>2, <1>3, <1>5 DEF CeilDiv
  <2> QED
    BY <2>1, <2>2, <1>2, <1>5
<1>7. CASE p = 1
  <2>1. Hsub(r, p) = 2 /\ At(Info(r).bpp, p) = 16
    BY <1>4, <1>7 DEF Hsub, At
  <2>2. LinearStride(r, p, luma) = x /\ CeilDiv(r.width, Hsub(r, p)) = (r.width + 1) \div 2
    BY <2>1, <1>2, <1>3, <1>5 DEF CeilDiv
  <2> QED
    BY <2>1, <2>2, <1>2, <1>5
<1> QED
  BY <1>4, <1>6, <1>7 DEF PlanesOf

\* The chroma of YV12 has half the stride of its luma, and room for half its pixels.
LEMMA ChromaRoom ==
  ASSUME NEW r, Sound(r), NEW p \in PlanesOf(r), Uncompressed(r), FromLuma(r, p),
         NEW luma, luma = Luma(r)
  PROVE  CeilDiv(r.width, Hsub(r, p)) * At(Info(r).bpp, p) <= LinearStride(r, p, luma) * 8
<1>a. 0 \in PlanesOf(r) /\ 0 \in Nat
  BY RowIs
<1>b. Luma(r) \in Nat
  BY <1>a, LinearIs, Zenon DEF Luma
<1>c. luma \in Nat
  BY <1>b
<1>1. r.base = "YV12" /\ p > 0 /\ luma = Luma(r)
  BY DEF FromLuma
<1>2. /\ Info(r).bpp = <<8, 8, 8>> /\ Info(r).hsub = 2 /\ Info(r).align_w = 2 /\ Info(r).npln = 3
  BY <1>1, NamedAssumption DEF Info
<1>3. ~Nv12Asked(r) /\ ~FromLuma(r, 0)
  BY <1>1 DEF Nv12Asked, FromLuma
<1>4. Raw(r, 0) <= Luma(r)
  BY <1>a, <1>3, LinearIs DEF Luma
<1>5. Raw(r, 0) = get_pixel_w(r, 0) /\ get_pixel_w(r, 0) \in Nat
  <2>1. get_pixel_w(r, 0) \in Nat /\ At(Info(r).bpp, 0) = 8
    BY <1>a, <1>2, DimensionsIs DEF At
  <2> QED
    BY <2>1 DEF Raw
<1>6. Align(r.width, 2) <= get_pixel_w(r, 0)
  <2>1. Align(AdjustedWidth(r), Info(r).align_w) \div Hsub(r, 0) <= get_pixel_w(r, 0)
    BY <1>a, DimensionsIs
  <2>2. AdjustedWidth(r) = r.width /\ Hsub(r, 0) = 1 /\ r.width \in Nat
    BY AdjustedIs DEF Uncompressed, Hsub, Sound
  <2>a. 2 \in Nat \ {0}
    OBVIOUS
  <2>3. Align(r.width, 2) \in Nat
    BY <2>a, <2>2, AlignIs, Zenon
  <2> DEFINE a == Align(r.width, 2)
  <2>4. a \div 1 <= get_pixel_w(r, 0)
    BY <2>1, <2>2, <1>2, Zenon
  <2> HIDE DEF a
  <2> QED
    BY <2>3, <2>4 DEF a
<1>7. CeilDiv(r.width, 2) <= Luma(r) \div 2
  <2>1. r.width \in Nat /\ Align(r.width, 2) \in Nat
    BY AlignIs DEF Sound
  <2>2. Align(r.width, 2) <= Luma(r)
    BY <1>4, <1>5, <1>6, <2>1, <1>b
  <2> QED
    BY <2>1, <2>2, <1>b, HalfLuma
<1>8. At(Info(r).bpp, p) = 8 /\ Hsub(r, p) = 2
  BY <1>1, <1>2 DEF At, Hsub, PlanesOf
<1> DEFINE s == LinearStride(r, p, luma)
           c == CeilDiv(r.width, 2)
<1>9. s \in Nat /\ luma \div 2 <= s
  BY <1>c, LinearIs
<1>10. c \in Nat
  <2>1. r.width \in Nat
    BY DEF Sound
  <2> QED
    BY <2>1 DEF CeilDiv
<1>11. c <= luma \div 2 /\ luma \div 2 \in Nat
  BY <1>7, <1>1, <1>c
<1>12. CeilDiv(r.width, Hsub(r, p)) * At(Info(r).bpp, p) = c * 8
  BY <1>8, Zenon
<1> HIDE DEF s, c
<1>13. c * 8 <= s * 8
  BY <1>9, <1>10, <1>11
<1> QED
  BY <1>12, <1>13 DEF s

\* A row of pixels fits into the stride of its plane.
LEMMA RowFits ==
  ASSUME NEW r, Sound(r), NEW p \in PlanesOf(r), Uncompressed(r), "linear" \in Info(r).is,
         WholeBytes(r), OneStrideFlag(r), NEW luma, p > 0 => luma = Luma(r), p = 0 => luma = 0
  PROVE  CeilDiv(r.width, Hsub(r, p)) * At(Info(r).bpp, p) <= LinearStride(r, p, luma) * 8
<1>0. 0 \in PlanesOf(r) /\ 0 \in Nat
  BY RowIs
<1>1. Luma(r) \in Nat
  BY <1>0, LinearIs, Zenon DEF Luma
<1>2. luma \in Nat
  BY <1>1 DEF PlanesOf
<1>3. CASE Nv12Asked(r)
  BY <1>2, <1>3, Nv12Room
<1>4. CASE ~Nv12Asked(r) /\ ~FromLuma(r, p)
  <2> DEFINE c == CeilDiv(r.width, Hsub(r, p))
             w == get_pixel_w(r, p)
             b == At(Info(r).bpp, p)
             x == (w * b) \div 8
             s == LinearStride(r, p, luma)
  <2>1. x <= s /\ s \in Nat
    BY <1>2, <1>4, LinearIs DEF Raw
  <2>2. x \in Nat /\ x * 8 = w * b
    BY RawExact
  <2>3. c \in Nat /\ w \in Nat /\ b \in Nat /\ c <= w
    BY DimensionsIs, RowIs
  <2> HIDE DEF c, w, b, s, x
  <2>4. c * b <= w * b
    BY <2>3
  <2>5. c * b <= s * 8
    <3> DEFINE i == c * b
               j == w * b
    <3>1. i \in Nat /\ j \in Nat /\ i <= j /\ x * 8 = j
      BY <2>2, <2>3, <2>4
    <3> HIDE DEF i, j
    <3>2. i <= s * 8
      BY <3>1, <2>1, <2>2
    <3> QED BY <3>2 DEF i
  <2> QED
    BY <2>5 DEF c, b, s
<1>5. CASE FromLuma(r, p)
  <2>1. p > 0 /\ luma = Luma(r)
    BY <1>5 DEF FromLuma
  <2> QED
    BY <1>5, <2>1, ChromaRoom, Zenon
<1> QED
  BY <1>3, <1>4, <1>5

-----------------------------------------------------------------------------
(* Sizes.                                                                    *)

\* get_alloc_type and validate_format let the request pass.
Accepted(r) == get_alloc_type(r) /\ validate_format(r)

\* A paging tile has 64 coding units.
LEMMA ShapesAre ==
  ASSUME NEW r, NEW p
  PROVE  /\ paging_tile(r)[1] \in {8, 16} /\ paging_tile(r)[2] \in {4, 8}
         /\ paging_tile(r)[1] * paging_tile(r)[2] = 64
         /\ clump(r, p)[1] \in {4, 8, 16} /\ clump(r, p)[2] \in {4, 8}
  BY DEF paging_tile, clump

\* get_alloc_type knows three sizes of coding units.
LEMMA CodingIs ==
  ASSUME NEW r, Accepted(r), is_afrc(r), NEW p
  PROVE  /\ coding_unit_bytes(r, p) \in {16, 24, 32}
         /\ afrc_plane_alignment(coding_unit_bytes(r, p)) \in Nat \ {0}
<1>1. \A i \in 1 .. 2 : afrc_plane_alignment(r.coding[i]) # 0
  BY Zenon DEF Accepted, get_alloc_type
<1>2. afrc_plane_alignment(coding_unit_bytes(r, p)) # 0
  BY <1>1 DEF coding_unit_bytes
<1> QED
  BY <1>2 DEF afrc_plane_alignment

\* A plane starts where the last one ends, or at the next alignment.
LEMMA PlaneStartIs ==
  ASSUME NEW r, Accepted(r), NEW p, NEW sofar \in Nat
  PROVE  /\ PlaneStart(r, p, sofar) \in Nat /\ sofar <= PlaneStart(r, p, sofar)
         /\ is_afrc(r) => PlaneStart(r, p, sofar) % afrc_plane_alignment(coding_unit_bytes(r, p)) = 0
         /\ ~is_afrc(r) \/ sofar = 0 => PlaneStart(r, p, sofar) = sofar
<1>1. CASE is_afrc(r)
  <2> DEFINE a == afrc_plane_alignment(coding_unit_bytes(r, p))
  <2>1. a \in Nat \ {0}
    BY <1>1, CodingIs
  <2>2. PlaneStart(r, p, sofar) = Align(sofar, a)
    BY <1>1 DEF PlaneStart
  <2> HIDE DEF a
  <2>3. /\ Align(sofar, a) \in Nat /\ sofar <= Align(sofar, a) /\ Align(sofar, a) % a = 0
        /\ sofar % a = 0 => Align(sofar, a) = sofar
    BY <2>1, AlignIs, Zenon
  <2>4. sofar = 0 => sofar % a = 0
    BY <2>1
  <2> QED
    BY <1>1, <2>2, <2>3, <2>4, Zenon DEF a
<1>2. CASE ~is_afrc(r)
  BY <1>2 DEF PlaneStart
<1> QED BY <1>1, <1>2

\* A 16x16 block of a block-linear plane: whole rows of whole bytes.
LEMMA BlockIs ==
  ASSUME NEW r, Sound(r), NEW p \in PlanesOf(r)
  PROVE  /\ 16 \div Vsub(r, p) \in {8, 16}
         /\ BlockBytes(r, p) \in Nat /\ BlockBytes(r, p) % (16 \div Vsub(r, p)) = 0
<1>1. Vsub(r, p) \in {1, 2} /\ Hsub(r, p) \in {1, 2} /\ At(Info(r).bpp, p) \in 0 .. 64
  BY RowIs
<1> DEFINE b == At(Info(r).bpp, p)
<1>2. BlockBytes(r, p) = ((16 \div Vsub(r, p)) * (16 \div Hsub(r, p)) * b) \div 8
  BY DEF BlockBytes
<1> HIDE DEF b
<1>3. b \in Nat
  BY <1>1 DEF b
<1>4. CASE Vsub(r, p) = 1 /\ Hsub(r, p) = 1
  BY <1>2, <1>3, <1>4
<1>5. CASE Vsub(r, p) = 1 /\ Hsub(r, p) = 2
  BY <1>2, <1>3, <1>5
<1>6. CASE Vsub(r, p) = 2 /\ Hsub(r, p) = 1
  BY <1>2, <1>3, <1>6
<1>7. CASE Vsub(r, p) = 2 /\ Hsub(r, p) = 2
  BY <1>2, <1>3, <1>7
<1> QED
  BY <1>1, <1>4, <1>5, <1>6, <1>7

\* Every layout has a stride.
LEMMA StrideNat ==
  ASSUME NEW r, Sound(r), Accepted(r), NEW p \in PlanesOf(r), NEW luma \in Nat
  PROVE  byte_stride(r, p, luma) \in Nat
<1>0. 0 \in PlanesOf(r)
  BY RowIs
<1>1. CASE is_afrc(r)
  <2> DEFINE w == get_pixel_w(r, p)
             c == clump(r, p)
             t == paging_tile(r)
             u == coding_unit_bytes(r, p)
             row == AfrcTileRow(r, p)
  <2>1. /\ t[1] \in {8, 16} /\ t[2] \in {4, 8} /\ c[1] \in {4, 8, 16} /\ c[2] \in {4, 8}
        /\ u \in {16, 24, 32} /\ w \in Nat
    BY <1>1, ShapesAre, CodingIs, DimensionsIs
  <2>2. row = ((w \div c[1]) \div t[1]) * 64 * u
    BY DEF AfrcTileRow
  <2>3. byte_stride(r, p, luma) = row \div (t[2] * c[2])
    BY <1>1 DEF byte_stride
  <2> HIDE DEF w, c, t, u, row
  <2>4. (w \div c[1]) \div t[1] \in Nat
    BY <2>1
  <2>5. row \in Nat
    BY <2>1, <2>2, <2>4
  <2> QED
    BY <2>1, <2>3, <2>5
<1>2. CASE is_afbc(r)
  <2> DEFINE w == get_pixel_w(r, p)
             b == At(Info(r).bpp_afbc, p)
  <2>1. w \in Nat /\ b \in Nat
    BY DimensionsIs, RowIs
  <2>2. byte_stride(r, p, luma) = (w * b) \div 8
    BY <1>2 DEF byte_stride, is_afrc
  <2> HIDE DEF w, b
  <2>3. w * b \in Nat
    BY <2>1
  <2> QED
    BY <2>2, <2>3
<1>3. CASE is_block_linear(r)
  <2> DEFINE w == get_pixel_w(r, 0)
             b == BlockBytes(r, p)
             v == 16 \div Vsub(r, p)
  <2>1. w \in Nat /\ b \in Nat /\ v \in {8, 16}
    BY <1>0, DimensionsIs, BlockIs
  <2>2. byte_stride(r, p, luma) = ((w \div 16) * b) \div v
    BY <1>3 DEF byte_stride, is_block_linear
  <2> HIDE DEF w, b, v
  <2>3. (w \div 16) * b \in Nat
    BY <2>1
  <2> QED
    BY <2>1, <2>2, <2>3
<1>4. CASE Uncompressed(r)
  <2>1. byte_stride(r, p, luma) = LinearStride(r, p, luma)
    BY <1>4, Zenon DEF byte_stride, Uncompressed
  <2> QED
    BY <2>1, LinearIs, Zenon
<1> QED
  BY <1>1, <1>2, <1>3, <1>4 DEF Uncompressed

\* A plane as the loop computes it, wherever it lies and whatever its stride.
Shaped(r, p, i) ==
  /\ i.byte_stride \in Nat
  /\ i.alloc_width = get_pixel_w(r, p) /\ i.alloc_height = get_pixel_h(r, p)

\* What AFBC headers and bodies are rounded to.
Granule(r) == IF is_tiled(r) THEN 4096 ELSE 1024

\* Rounding to it.
LEMMA GranuleIs ==
  ASSUME NEW r, NEW bytes \in Nat
  PROVE  /\ Granule(r) \in Nat \ {0}
         /\ afbc_buffer_align(r, bytes) \in Nat /\ bytes <= afbc_buffer_align(r, bytes)
         /\ afbc_buffer_align(r, bytes) % Granule(r) = 0
<1>1. Granule(r) \in Nat \ {0}
  BY DEF Granule
<1>2. afbc_buffer_align(r, bytes) = Align(bytes, Granule(r))
  BY DEF afbc_buffer_align, Granule
<1> QED
  BY <1>1, <1>2, AlignIs, Zenon

\* The number of superblocks.
LEMMA SbNumIs ==
  ASSUME NEW r, Sound(r), NEW p \in PlanesOf(r), NEW i, Shaped(r, p, i)
  PROVE  sb_num(i) \in Nat
<1>1. i.alloc_width \in Nat /\ i.alloc_height \in Nat
  BY DimensionsIs DEF Shaped
<1>2. i.alloc_width * i.alloc_height \in Nat
  BY <1>1
<1> QED
  BY <1>2 DEF sb_num

\* The header of a plane is as long as init_afbc says in it, and holds 16 bytes for
\* each superblock.
LEMMA HeaderIs ==
  ASSUME NEW r, Sound(r), NEW p \in PlanesOf(r), NEW i, Shaped(r, p, i)
  PROVE  /\ header_size(r, i) \in Nat
         /\ is_afbc(r) => /\ header_size(r, i) = body_offset(r, i)
                          /\ header_size(r, i) % Granule(r) = 0
                          /\ sb_num(i) * 16 <= header_size(r, i)
<1>1. CASE is_afbc(r)
  <2>1. sb_num(i) * 16 \in Nat
    BY SbNumIs
  <2>2. header_size(r, i) = afbc_buffer_align(r, sb_num(i) * 16)
    BY <1>1 DEF header_size
  <2>3. /\ header_size(r, i) \in Nat /\ header_size(r, i) % Granule(r) = 0
        /\ sb_num(i) * 16 <= header_size(r, i)
    BY <2>1, <2>2, GranuleIs, Zenon
  <2>4. header_size(r, i) = body_offset(r, i)
    <3>1. is_tiled(r) <=> "TILED" \in r.mods
      BY <1>1 DEF is_tiled
    <3>2. CASE is_tiled(r)
      BY <2>2, <3>1, <3>2 DEF body_offset, sb_num, afbc_buffer_align
    <3>3. CASE ~is_tiled(r)
      BY <2>2, <3>1, <3>3 DEF body_offset, sb_num, afbc_buffer_align
    <3> QED BY <3>2, <3>3
  <2> QED
    BY <2>3, <2>4, Zenon
<1>2. CASE ~is_afbc(r)
  BY <1>2 DEF header_size
<1> QED BY <1>1, <1>2

\* The sum of two multiples is one.
LEMMA SumOfMultiples ==
  ASSUME NEW a \in Nat, NEW b \in Nat, NEW g \in Nat \ {0}, a % g = 0, b % g = 0
  PROVE  (a + b) % g = 0
<1> DEFINE k == a \div g
           l == b \div g
<1>1. k \in Nat /\ l \in Nat /\ a = k * g /\ b = l * g
  <2>1. k \in Nat /\ a = (k * g) + (a % g)
    BY DivIs, Zenon
  <2>2. l \in Nat /\ b = (l * g) + (b % g)
    BY DivIs, Zenon
  <2> HIDE DEF k, l
  <2> QED
    BY <2>1, <2>2
<1> HIDE DEF k, l
<1>2. k + l \in Nat /\ a + b = (k + l) * g
  BY <1>1
<1>3. \A m \in Nat : (m * g) % g = 0
  OBVIOUS
<1>4. ((k + l) * g) % g = 0
  BY <1>2, <1>3
<1> QED
  BY <1>2, <1>4, Zenon

\* The bytes of an uncompressed superblock.
LEMMA SuperblockIs ==
  ASSUME NEW r, NEW p
  PROVE  \A b \in Nat : (b * sb(r, p)[1] * sb(r, p)[2]) \div 8 = 32 * b
<1>1. sb(r, p) \in {<<16, 16>>, <<32, 8>>, <<64, 4>>}
  BY SbIs
<1>2. CASE sb(r, p) = <<16, 16>>
  BY <1>2
<1>3. CASE sb(r, p) = <<32, 8>>
  BY <1>3
<1>4. CASE sb(r, p) = <<64, 4>>
  BY <1>4
<1> QED BY <1>1, <1>2, <1>3, <1>4

\* The body of an AFBC plane holds the payload of all its superblocks, twice in a
\* front buffer, and ends aligned when another plane follows.
LEMMA AfbcBodyIs ==
  ASSUME NEW r, Sound(r), NEW p \in PlanesOf(r), NEW i, Shaped(r, p, i)
  PROVE  /\ AfbcBody(r, p, i) \in Nat
         /\ (IF is_frontbuffer_safe(r) THEN 2 ELSE 1) * sb_num(i)
              * CeilDiv(At(Info(r).bpp_afbc, p) * 256, 8) <= AfbcBody(r, p, i)
         /\ Info(r).npln > 1 /\ p < 2 => AfbcBody(r, p, i) % Granule(r) = 0
<1> DEFINE b == At(Info(r).bpp_afbc, p)
           n == sb_num(i)
           u == Align(32 * b, 128)
           bytes == n * u
           aligned == IF Info(r).npln > 1 /\ p < 2 THEN afbc_buffer_align(r, bytes) ELSE bytes
           whole == IF is_frontbuffer_safe(r) THEN aligned + afbc_buffer_align(r, aligned) ELSE aligned
<1>1. b \in Nat /\ n \in Nat
  BY RowIs, SbNumIs
<1>2. AfbcBody(r, p, i) = whole
  <2>1. (b * sb(r, p)[1] * sb(r, p)[2]) \div 8 = 32 * b
    BY <1>1, SuperblockIs
  <2> QED
    BY <2>1, Zenon DEF AfbcBody
<1>3. CeilDiv(b * 256, 8) = 32 * b
  <2> HIDE DEF b
  <2> QED
    BY <1>1 DEF CeilDiv
<1> HIDE DEF b, n
<1>4. u \in Nat /\ 32 * b <= u
  BY <1>1, AlignIs
<1> HIDE DEF u
<1>5. bytes \in Nat /\ n * (32 * b) <= bytes
  <2>1. n * u - n * (32 * b) = n * (u - 32 * b) /\ u - 32 * b \in Nat
    BY <1>1, <1>4
  <2>2. n * (u - 32 * b) \in Nat
    BY <2>1, <1>1
  <2> QED
    BY <1>1, <1>4, <2>1, <2>2
<1> HIDE DEF bytes
<1>6. /\ aligned \in Nat /\ bytes <= aligned
      /\ Info(r).npln > 1 /\ p < 2 => aligned % Granule(r) = 0
  BY <1>5, GranuleIs
<1> HIDE DEF aligned
<1>7. /\ afbc_buffer_align(r, aligned) \in Nat /\ aligned <= afbc_buffer_align(r, aligned)
      /\ afbc_buffer_align(r, aligned) % Granule(r) = 0 /\ Granule(r) \in Nat \ {0}
  BY <1>6, GranuleIs, Zenon
<1>8. whole \in Nat
  BY <1>6, <1>7
<1>9. Info(r).npln > 1 /\ p < 2 => whole % Granule(r) = 0
  BY <1>6, <1>7, SumOfMultiples
<1> DEFINE m == n * (32 * b)
<1>10. m \in Nat /\ m <= aligned
  BY <1>1, <1>5, <1>6
<1>11. (IF is_frontbuffer_safe(r) THEN 2 ELSE 1) * n * (32 * b) = IF is_frontbuffer_safe(r) THEN m + m ELSE m
  BY <1>1
<1> HIDE DEF m
<1>12. (IF is_frontbuffer_safe(r) THEN m + m ELSE m) <= whole
  BY <1>6, <1>7, <1>10
<1>13. (IF is_frontbuffer_safe(r) THEN 2 ELSE 1) * n * CeilDiv(b * 256, 8)
         = IF is_frontbuffer_safe(r) THEN m + m ELSE m
  BY <1>3, <1>11, Zenon
<1>14. (IF is_frontbuffer_safe(r) THEN 2 ELSE 1) * n * CeilDiv(b * 256, 8) <= whole
  BY <1>12, <1>13, Zenon
<1> HIDE DEF whole
<1> QED
  BY <1>2, <1>8, <1>9, <1>14, Zenon DEF b, n

\* Whole multiples of an alignment, and how many of them cover what is asked.
LEMMA Cover ==
  ASSUME NEW wanted \in Nat, NEW total \in Nat, NEW unit \in Nat \ {0}, wanted <= total, total % unit = 0
  PROVE  /\ CeilDiv(wanted, unit) \in Nat /\ total \div unit \in Nat
         /\ CeilDiv(wanted, unit) <= total \div unit
         /\ total = (total \div unit) * unit
<1> DEFINE k == total \div unit
           x == wanted + unit - 1
           c == x \div unit
<1>1. k \in Nat /\ total = k * unit
  <2>1. k \in Nat /\ total = (k * unit) + (total % unit)
    BY DivIs, Zenon
  <2> HIDE DEF k
  <2> QED BY <2>1
<1>2. x \in Nat /\ x = wanted + unit - 1
  OBVIOUS
<1> HIDE DEF x
<1>3. c \in Nat /\ c * unit <= x
  BY <1>2, DivIs, Zenon
<1>5. CeilDiv(wanted, unit) = c
  BY DEF CeilDiv, x
<1> HIDE DEF k, c
<1>4. c * unit < (k + 1) * unit
  BY <1>1, <1>2, <1>3
<1>6. c < k + 1
  <2>1. (k + 1) * unit - c * unit = (k + 1 - c) * unit
    BY <1>1, <1>3
  <2>2. (k + 1 - c) * unit > 0
    BY <1>1, <1>3, <1>4, <2>1
  <2> QED
    BY <2>2, <1>1, <1>3
<1>7. c <= k
  BY <1>1, <1>3, <1>6
<1> QED
  BY <1>1, <1>3, <1>5, <1>7 DEF k

\* Products are monotone.
LEMMA ProductsGrow ==
  ASSUME NEW a \in Nat, NEW b \in Nat, NEW c \in Nat, NEW d \in Nat, a <= c, b <= d
  PROVE  a * b \in Nat /\ c * d \in Nat /\ a * b <= c * d
<1>1. a * b <= a * d
  OBVIOUS
<1>2. a * d <= c * d
  OBVIOUS
<1> QED
  BY <1>1, <1>2

\* Without CPU usage the dimensions of AFRC and block-linear planes are whole
\* paging tiles and blocks.
LEMMA WholeTiles ==
  ASSUME NEW r, Sound(r), NEW p \in PlanesOf(r), ~has_cpu_usage(r)
  PROVE  /\ is_afrc(r) => /\ get_pixel_w(r, p) % (paging_tile(r)[1] * clump(r, p)[1]) = 0
                          /\ get_pixel_h(r, p) % (paging_tile(r)[2] * clump(r, p)[2]) = 0
         /\ is_block_linear(r) => get_pixel_w(r, p) % 16 = 0 /\ get_pixel_h(r, p) % 16 = 0
<1>1. Info(r).tile_size \in {1, 2}
  BY RowIs
<1>2. get_pixel_w(r, p) % WidthAlign(r, p) = 0 /\ get_pixel_h(r, p) % HeightAlignOf(r, p) = 0
  BY DimensionsIs, Zenon
<1>3. \A a \in Nat : a >= 2 => Max({1, a, Info(r).tile_size}) = a
  <2> SUFFICES ASSUME NEW a \in Nat, a >= 2 PROVE Max({1, a, Info(r).tile_size}) = a
    OBVIOUS
  <2>1. 1 \in Nat /\ Info(r).tile_size \in Nat
    BY <1>1
  <2> DEFINE t == Info(r).tile_size
  <2>2. /\ Max({1, a, t}) \in {1, a, t} /\ 1 <= Max({1, a, t}) /\ a <= Max({1, a, t})
        /\ t <= Max({1, a, t})
    BY <2>1, MaxIs, Zenon
  <2> DEFINE m == Max({1, a, t})
  <2>3. m \in {1, a, t} /\ a <= m /\ t \in {1, 2}
    BY <2>2, <1>1
  <2> HIDE DEF m, t
  <2>4. m = a
    BY <2>3
  <2> QED
    BY <2>4 DEF m, t
<1>4. ASSUME is_afrc(r)
      PROVE  /\ get_pixel_w(r, p) % (paging_tile(r)[1] * clump(r, p)[1]) = 0
             /\ get_pixel_h(r, p) % (paging_tile(r)[2] * clump(r, p)[2]) = 0
  <2> DEFINE a == paging_tile(r)[1] * clump(r, p)[1]
             b == paging_tile(r)[2] * clump(r, p)[2]
  <2>1. PixelAlign(r, p)[1] = a /\ PixelAlign(r, p)[2] = b
    BY <1>4 DEF PixelAlign, is_afrc
  <2>2. a \in Nat /\ a >= 2 /\ b \in Nat /\ b >= 2
    BY ShapesAre
  <2> HIDE DEF a, b
  <2>3. WidthAlign(r, p) = a /\ HeightAlignOf(r, p) = b
    BY <1>3, <2>1, <2>2, Zenon DEF WidthAlign, HeightAlignOf
  <2> QED
    BY <1>2, <2>3, Zenon DEF a, b
<1>5. ASSUME is_block_linear(r)
      PROVE  get_pixel_w(r, p) % 16 = 0 /\ get_pixel_h(r, p) % 16 = 0
  <2>1. PixelAlign(r, p)[1] = 16 /\ PixelAlign(r, p)[2] = 16
    BY <1>5 DEF PixelAlign, is_block_linear
  <2>2. 16 \in Nat /\ 16 >= 2
    OBVIOUS
  <2>3. WidthAlign(r, p) = 16 /\ HeightAlignOf(r, p) = 16
    BY <1>3, <2>1, <2>2, Zenon DEF WidthAlign, HeightAlignOf
  <2> QED
    BY <1>2, <2>3, Zenon
<1> QED
  BY <1>4, <1>5, Zenon

\* A plane has room for the coding units of its paging tiles,
LEMMA AfrcRoom ==
  ASSUME NEW r, Sound(r), Accepted(r), NEW p \in PlanesOf(r), ~has_cpu_usage(r), is_afrc(r),
         NEW i, Shaped(r, p, i)
  PROVE  PlaneBytes(r, p, i) \in Nat /\ PlaneBytes(r, p, i) <= body_size(r, p, i)
<1> DEFINE w == get_pixel_w(r, p)
           h == get_pixel_h(r, p)
           t == paging_tile(r)
           c == clump(r, p)
           u == coding_unit_bytes(r, p)
           m == w \div (t[1] * c[1])
           n == h \div (t[2] * c[2])
           x == CeilDiv(Cols(r, p), t[1] * c[1])
           y == CeilDiv(Rows(r, p), t[2] * c[2])
<1>1. /\ t[1] \in {8, 16} /\ t[2] \in {4, 8} /\ t[1] * t[2] = 64
      /\ c[1] \in {4, 8, 16} /\ c[2] \in {4, 8} /\ u \in {16, 24, 32}
  BY ShapesAre, CodingIs
<1>2. /\ w \in Nat /\ h \in Nat /\ Cols(r, p) \in Nat /\ Rows(r, p) \in Nat
      /\ Cols(r, p) <= w /\ Rows(r, p) <= h
  BY DimensionsIs DEF Cols, Rows
<1>3. w % (t[1] * c[1]) = 0 /\ h % (t[2] * c[2]) = 0
  BY WholeTiles
<1>4. PlaneBytes(r, p, i) = x * y * 64 * u
  BY DEF PlaneBytes, is_afrc
<1>5. body_size(r, p, i) = (w \div c[1]) * (h \div c[2]) * u
  BY DEF body_size, is_afrc, Shaped
<1> HIDE DEF t, c, u, w, h
<1>6. t[1] * c[1] \in Nat \ {0} /\ t[2] * c[2] \in Nat \ {0}
  BY <1>1
<1>7. x \in Nat /\ m \in Nat /\ x <= m /\ w = m * (t[1] * c[1])
  BY <1>2, <1>3, <1>6, Cover, Zenon
<1>8. y \in Nat /\ n \in Nat /\ y <= n /\ h = n * (t[2] * c[2])
  BY <1>2, <1>3, <1>6, Cover, Zenon
<1> HIDE DEF x, y, m, n
<1>9. w \div c[1] = m * t[1]
  <2>1. w = (m * t[1]) * c[1] /\ m * t[1] \in Nat
    BY <1>1, <1>7
  <2> DEFINE e == m * t[1]
  <2> HIDE DEF e
  <2>2. w = e * c[1] /\ e \in Nat
    BY <2>1 DEF e
  <2>3. w \div c[1] = e
    BY <2>2, <1>1
  <2> QED BY <2>3 DEF e
<1>10. h \div c[2] = n * t[2]
  <2>1. h = (n * t[2]) * c[2] /\ n * t[2] \in Nat
    BY <1>1, <1>8
  <2> DEFINE e == n * t[2]
  <2> HIDE DEF e
  <2>2. h = e * c[2] /\ e \in Nat
    BY <2>1 DEF e
  <2>3. h \div c[2] = e
    BY <2>2, <1>1
  <2> QED BY <2>3 DEF e
<1>11. x * y \in Nat /\ m * n \in Nat /\ x * y <= m * n
  BY <1>7, <1>8, ProductsGrow, Zenon
<1>12. (m * t[1]) * (n * t[2]) = (m * n) * 64
  BY <1>1, <1>7, <1>8
<1> DEFINE d == x * y
           e == m * n
<1>13. d \in Nat /\ e \in Nat /\ d <= e
  BY <1>11
<1>14. PlaneBytes(r, p, i) = d * 64 * u /\ body_size(r, p, i) = e * 64 * u
  BY <1>4, <1>5, <1>9, <1>10, <1>12, Zenon
<1> HIDE DEF d, e
<1>15. d * 64 * u \in Nat /\ d * 64 * u <= e * 64 * u
  BY <1>1, <1>13
<1> QED
  BY <1>14, <1>15, Zenon

\* and for its blocks.
LEMMA BlockRoom ==
  ASSUME NEW r, Sound(r), NEW p \in PlanesOf(r), ~has_cpu_usage(r), is_block_linear(r),
         NEW luma, NEW i, Shaped(r, p, i), i.byte_stride = byte_stride(r, p, luma)
  PROVE  PlaneBytes(r, p, i) \in Nat /\ PlaneBytes(r, p, i) <= body_size(r, p, i)
<1> DEFINE w == get_pixel_w(r, 0)
           h == get_pixel_h(r, 0)
           m == w \div 16
           n == h \div 16
           x == CeilDiv(r.width, 16)
           y == CeilDiv(r.height, 16)
           b == BlockBytes(r, p)
           v == 16 \div Vsub(r, p)
<1>0. 0 \in PlanesOf(r)
  BY RowIs
<1>1. w \in Nat /\ h \in Nat /\ r.width <= w /\ r.height <= h /\ r.width \in Nat /\ r.height \in Nat
  <2>1. w \in Nat /\ h \in Nat /\ CeilDiv(r.width, Hsub(r, 0)) <= w /\ CeilDiv(r.height, Vsub(r, 0)) <= h
    BY <1>0, DimensionsIs
  <2>2. Hsub(r, 0) = 1 /\ Vsub(r, 0) = 1 /\ r.width \in Nat /\ r.height \in Nat
    BY DEF Hsub, Vsub, Sound
  <2>3. CeilDiv(r.width, 1) = r.width /\ CeilDiv(r.height, 1) = r.height
    BY <2>2 DEF CeilDiv
  <2> QED
    BY <2>1, <2>2, <2>3, Zenon
<1>2. w % 16 = 0 /\ h % 16 = 0
  BY <1>0, WholeTiles, Zenon
<1>3. v \in {8, 16} /\ b \in Nat /\ b % v = 0
  BY BlockIs
<1>4. PlaneBytes(r, p, i) = x * y * b
  BY DEF PlaneBytes, is_block_linear
<1>5. body_size(r, p, i) = i.byte_stride * v * n
  BY DEF body_size, is_block_linear
<1>6. i.byte_stride = (m * b) \div v
  BY DEF byte_stride, is_block_linear
<1> HIDE DEF w, h, b, v
<1>a. 16 \in Nat \ {0}
  OBVIOUS
<1>7. x \in Nat /\ m \in Nat /\ x <= m
  BY <1>1, <1>2, <1>a, Cover, Zenon
<1>8. y \in Nat /\ n \in Nat /\ y <= n
  BY <1>1, <1>2, <1>a, Cover, Zenon
<1> HIDE DEF x, y, m, n
<1>9. i.byte_stride * v = m * b /\ i.byte_stride \in Nat
  <2>1. PICK k \in Nat : b = k * v
    BY <1>3
  <2>2. m * b = (m * k) * v /\ m * k \in Nat
    BY <2>1, <1>3, <1>7
  <2> DEFINE e == m * k
             f == m * b
  <2>3. f = e * v /\ e \in Nat /\ i.byte_stride = f \div v
    BY <2>2, <1>6
  <2> HIDE DEF e, f
  <2>4. f \div v = e
    BY <2>3, <1>3
  <2> QED
    BY <2>3, <2>4 DEF f
<1>11. x * y \in Nat /\ m * n \in Nat /\ x * y <= m * n
  BY <1>7, <1>8, ProductsGrow, Zenon
<1>12. (m * b) * n = (m * n) * b
  BY <1>3, <1>7, <1>8
<1>13. body_size(r, p, i) = (m * n) * b
  BY <1>5, <1>9, <1>12, Zenon
<1> DEFINE d == x * y
           e == m * n
<1>14. d \in Nat /\ e \in Nat /\ d <= e /\ PlaneBytes(r, p, i) = d * b /\ body_size(r, p, i) = e * b
  BY <1>4, <1>11, <1>13, Zenon
<1> HIDE DEF d, e
<1>15. d * b \in Nat /\ d * b <= e * b
  <2>1. b <= b
    BY <1>3
  <2> QED
    BY <1>3, <1>14, <2>1, ProductsGrow
<1> QED
  BY <1>14, <1>15, Zenon

\* Sizes are numbers, whatever the usage.
LEMMA BodyNat ==
  ASSUME NEW r, Sound(r), Accepted(r), NEW p \in PlanesOf(r), NEW i, Shaped(r, p, i)
  PROVE  body_size(r, p, i) \in Nat
<1>1. i.byte_stride \in Nat /\ i.alloc_width \in Nat /\ i.alloc_height \in Nat
  BY DimensionsIs DEF Shaped
<1>2. CASE is_afbc(r)
  <2>1. body_size(r, p, i) = AfbcBody(r, p, i)
    BY <1>2 DEF body_size
  <2> QED BY <2>1, AfbcBodyIs, Zenon
<1>3. CASE is_afrc(r)
  <2> DEFINE c == clump(r, p)
             u == coding_unit_bytes(r, p)
             a == i.alloc_width \div c[1]
             b == i.alloc_height \div c[2]
  <2>1. c[1] \in {4, 8, 16} /\ c[2] \in {4, 8} /\ u \in {16, 24, 32}
    BY <1>3, ShapesAre, CodingIs
  <2>2. body_size(r, p, i) = a * b * u
    BY <1>3 DEF body_size, is_afrc
  <2> HIDE DEF c, u
  <2>3. a \in Nat /\ b \in Nat
    BY <1>1, <2>1
  <2> HIDE DEF a, b
  <2>4. a * b * u \in Nat
    BY <2>1, <2>3
  <2> QED BY <2>2, <2>4
<1>4. CASE is_block_linear(r)
  <2> DEFINE v == 16 \div Vsub(r, p)
             n == get_pixel_h(r, 0) \div 16
  <2>1. v \in {8, 16}
    BY BlockIs
  <2>2. n \in Nat
    <3>1. get_pixel_h(r, 0) \in Nat
      BY RowIs, DimensionsIs
    <3> QED BY <3>1
  <2>3. body_size(r, p, i) = i.byte_stride * v * n
    BY <1>4 DEF body_size, is_block_linear
  <2> HIDE DEF v, n
  <2>4. i.byte_stride * v * n \in Nat
    BY <1>1, <2>1, <2>2
  <2> QED BY <2>3, <2>4
<1>5. CASE Uncompressed(r)
  <2>1. body_size(r, p, i) = i.byte_stride * i.alloc_height
    BY <1>5 DEF body_size, Uncompressed
  <2>2. i.byte_stride * i.alloc_height \in Nat
    BY <1>1
  <2> QED BY <2>1, <2>2
<1> QED
  BY <1>2, <1>3, <1>4, <1>5 DEF Uncompressed

\* The last row of a linear plane ends inside it.
LEMMA LastRow ==
  ASSUME NEW r, Sound(r), NEW p \in PlanesOf(r), Uncompressed(r), OneStrideFlag(r),
         NEW luma, p > 0 => luma = Luma(r), p = 0 => luma = 0
  PROVE  (Cols(r, p) * At(Info(r).bpp, p)) \div 8 <= LinearStride(r, p, luma)
<1>0. 0 \in PlanesOf(r) /\ 0 \in Nat
  BY RowIs
<1>1. Luma(r) \in Nat
  BY <1>0, LinearIs, Zenon DEF Luma
<1>2. luma \in Nat
  BY <1>1 DEF PlanesOf
<1> DEFINE c == Cols(r, p)
           w == get_pixel_w(r, p)
           b == At(Info(r).bpp, p)
           s == LinearStride(r, p, luma)
<1>3. c \in Nat /\ w \in Nat /\ b \in Nat /\ c <= w /\ s \in Nat
  BY <1>2, DimensionsIs, RowIs, LinearIs DEF Cols
<1>4. ASSUME c * b <= s * 8 PROVE (c * b) \div 8 <= s
  <2> DEFINE x == c * b
  <2> HIDE DEF c, b, s
  <2>1. x \in Nat /\ x <= s * 8
    BY <1>3, <1>4
  <2> HIDE DEF x
  <2>2. x \div 8 <= s
    BY <2>1, <1>3
  <2> QED BY <2>2 DEF x
<1>5. CASE Nv12Asked(r)
  BY <1>2, <1>4, <1>5, Nv12Room, Zenon DEF Cols
<1>6. CASE FromLuma(r, p)
  <2>1. p > 0
    BY <1>6 DEF FromLuma
  <2> QED
    BY <1>4, <1>6, <2>1, ChromaRoom, Zenon DEF Cols
<1>7. CASE ~Nv12Asked(r) /\ ~FromLuma(r, p)
  <2>1. (w * b) \div 8 <= s
    BY <1>2, <1>7, LinearIs DEF Raw
  <2> HIDE DEF c, w, b, s
  <2>2. c * b \in Nat /\ w * b \in Nat /\ c * b <= w * b
    BY <1>3
  <2> DEFINE x == c * b
             y == w * b
  <2>3. x \in Nat /\ y \in Nat /\ x <= y /\ y \div 8 <= s
    BY <2>1, <2>2
  <2> HIDE DEF x, y
  <2>4. x \div 8 <= s
    BY <2>3, <1>3
  <2> QED BY <2>4 DEF x, c, b, s
<1> QED BY <1>5, <1>6, <1>7

\* A linear plane has room for its rows.
LEMMA LinearRoom ==
  ASSUME NEW r, Sound(r), r.height # 0, NEW p \in PlanesOf(r), Uncompressed(r), OneStrideFlag(r),
         NEW luma, p > 0 => luma = Luma(r), p = 0 => luma = 0,
         NEW i, Shaped(r, p, i), i.byte_stride = byte_stride(r, p, luma)
  PROVE  PlaneBytes(r, p, i) \in Nat /\ PlaneBytes(r, p, i) <= body_size(r, p, i)
<1> DEFINE n == Rows(r, p)
           h == get_pixel_h(r, p)
           s == i.byte_stride
           e == (Cols(r, p) * At(Info(r).bpp, p)) \div 8
<1>1. PlaneBytes(r, p, i) = (n - 1) * s + e
  BY DEF PlaneBytes, Uncompressed
<1>2. body_size(r, p, i) = s * h
  BY DEF body_size, Uncompressed, Shaped
<1>3. s = LinearStride(r, p, luma) /\ s \in Nat
  BY Zenon DEF byte_stride, Uncompressed, Shaped
<1>4. e <= s
  BY <1>3, LastRow, Zenon
<1>5. h \in Nat /\ n \in Nat /\ n <= h
  BY DimensionsIs DEF Rows
<1>6. e \in Nat
  <2>1. Cols(r, p) \in Nat /\ At(Info(r).bpp, p) \in Nat
    BY DimensionsIs, RowIs DEF Cols
  <2>2. Cols(r, p) * At(Info(r).bpp, p) \in Nat
    BY <2>1
  <2> QED BY <2>2
<1>7. n >= 1
  <2>1. Vsub(r, p) \in {1, 2} /\ r.height \in Nat /\ r.height # 0
    BY RowIs DEF Sound
  <2> QED
    BY <2>1 DEF Rows, CeilDiv
<1> HIDE DEF n, h, s, e
<1>8. (n - 1) * s + e <= n * s
  BY <1>3, <1>4, <1>5, <1>6, <1>7
<1>9. n * s <= s * h
  BY <1>3, <1>5
<1>10. (n - 1) * s + e \in Nat /\ (n - 1) * s + e <= s * h
  <2>1. (n - 1) * s + e \in Nat /\ n * s \in Nat /\ s * h \in Nat
    BY <1>3, <1>5, <1>6, <1>7
  <2> QED
    BY <1>8, <1>9, <2>1
<1> QED
  BY <1>1, <1>2, <1>10

\* What is stored in a plane fits into its body and header, in every layout.
LEMMA PlaneRoom ==
  ASSUME NEW r, Sound(r), r.height # 0, Accepted(r), HardwareOnly(r), OneStrideFlag(r),
         NEW p \in PlanesOf(r), NEW luma, p > 0 /\ Uncompressed(r) => luma = Luma(r), p = 0 => luma = 0,
         NEW i, Shaped(r, p, i), i.byte_stride = byte_stride(r, p, luma)
  PROVE  /\ PlaneBytes(r, p, i) \in Nat
         /\ PlaneBytes(r, p, i) <= body_size(r, p, i) + header_size(r, i)
<1>1. body_size(r, p, i) \in Nat
  BY BodyNat
<1>2. CASE is_afbc(r)
  <2> DEFINE h == header_size(r, i)
             x == (IF is_frontbuffer_safe(r) THEN 2 ELSE 1) * sb_num(i)
                    * CeilDiv(At(Info(r).bpp_afbc, p) * 256, 8)
  <2>1. h \in Nat /\ h = body_offset(r, i)
    BY <1>2, HeaderIs
  <2>2. x <= AfbcBody(r, p, i) /\ AfbcBody(r, p, i) \in Nat
    BY AfbcBodyIs, Zenon
  <2>3. PlaneBytes(r, p, i) = h + x
    BY <1>2, <2>1, Zenon DEF PlaneBytes
  <2>4. body_size(r, p, i) = AfbcBody(r, p, i)
    BY <1>2 DEF body_size
  <2>5. x \in Nat
    <3> DEFINE b == At(Info(r).bpp_afbc, p)
               k == IF is_frontbuffer_safe(r) THEN 2 ELSE 1
    <3>1. b \in Nat /\ sb_num(i) \in Nat /\ k \in Nat
      BY RowIs, SbNumIs
    <3> HIDE DEF b, k
    <3>2. CeilDiv(b * 256, 8) \in Nat
      BY <3>1 DEF CeilDiv
    <3> DEFINE d == CeilDiv(b * 256, 8)
    <3>3. d \in Nat
      BY <3>2
    <3> HIDE DEF d
    <3>4. k * sb_num(i) * d \in Nat
      BY <3>1, <3>3
    <3> QED
      BY <3>4 DEF d, b, k
  <2> HIDE DEF h, x
  <2>6. header_size(r, i) = h
    BY DEF h
  <2> QED
    BY <2>1, <2>2, <2>3, <2>4, <2>5, <2>6
<1>3. CASE ~is_afbc(r)
  <2>1. header_size(r, i) = 0
    BY <1>3 DEF header_size
  <2>2. PlaneBytes(r, p, i) \in Nat /\ PlaneBytes(r, p, i) <= body_size(r, p, i)
    <3>1. CASE is_afrc(r)
      BY <3>1, AfrcRoom DEF HardwareOnly, Uncompressed
    <3>2. CASE is_block_linear(r)
      BY <3>2, BlockRoom DEF HardwareOnly, Uncompressed
    <3>3. CASE Uncompressed(r)
      BY <3>3, LinearRoom
    <3> QED
      BY <1>3, <3>1, <3>2, <3>3 DEF Uncompressed
  <2> QED
    BY <1>1, <2>1, <2>2
<1> QED BY <1>2, <1>3

-----------------------------------------------------------------------------
(* The derivation as a function of the request.                             *)

\* A plane, and the bytes up to its end, from the bytes before it and the stride
\* of plane 0.
InfoAt(r, p, sofar, luma) ==
  [offset       |-> IF p > 0 THEN PlaneStart(r, p, sofar) ELSE 0,
   byte_stride  |-> byte_stride(r, p, luma),
   alloc_width  |-> get_pixel_w(r, p),
   alloc_height |-> get_pixel_h(r, p)]
SizeAt(r, p, sofar, info) ==
  PlaneStart(r, p, sofar) + body_size(r, p, info) + header_size(r, info)

Info0(r) == InfoAt(r, 0, 0, 0)
Size1(r) == SizeAt(r, 0, 0, Info0(r))
Info1(r) == InfoAt(r, 1, Size1(r), Info0(r).byte_stride)
Size2(r) == SizeAt(r, 1, Size1(r), Info1(r))
Info2(r) == InfoAt(r, 2, Size2(r), Info0(r).byte_stride)
Size3(r) == SizeAt(r, 2, Size2(r), Info2(r))

InfoOf(r, p) == IF p = 0 THEN Info0(r) ELSE IF p = 1 THEN Info1(r) ELSE Info2(r)
SizeOf(r, n) == IF n = 0 THEN 0 ELSE IF n = 1 THEN Size1(r) ELSE IF n = 2 THEN Size2(r) ELSE Size3(r)

\* What the whole derivation leaves.
AllInfo(r)   == [p \in Planes |-> IF p < Info(r).npln THEN InfoOf(r, p) ELSE Fresh[p]]
OneLayer(r)  == LET bytes == SizeOf(r, Info(r).npln) IN
                IF StrideChosen(r) THEN Max({bytes, size_needed_by_rk_video(r, Info0(r))}) ELSE bytes
AllLayers(r) == IF r.layers > 1 THEN Align(OneLayer(r), LayerAlign(r)) * r.layers ELSE OneLayer(r)
Pixels(r)    == IF Uncompressed(r) /\ has_cpu_usage(r) THEN PixelStride(r, Info0(r)) ELSE 0
Result(r)    == <<AllInfo(r), AllLayers(r), Pixels(r)>>

\* The stride of plane 0 does not depend on what an earlier derivation left.
LEMMA LumaFresh ==
  ASSUME NEW r, NEW luma
  PROVE  byte_stride(r, 0, luma) = byte_stride(r, 0, 0)
<1>1. \A stride : update_yv12_stride(r, 0, stride, luma) = update_yv12_stride(r, 0, stride, 0)
  BY Zenon DEF update_yv12_stride
<1>2. LinearStride(r, 0, luma) = LinearStride(r, 0, 0)
  BY <1>1, Zenon DEF LinearStride
<1> QED
  BY <1>2, Zenon DEF byte_stride

-----------------------------------------------------------------------------
(* What the closed form leaves: planes of the right shape, one after another, *)
(* inside the layer.                                                         *)

\* The stride of plane 0 that a plane is computed from.
LumaOf(r, p) == IF p = 0 THEN 0 ELSE Info0(r).byte_stride

\* One plane of the closed form.
LEMMA PlaneAt ==
  ASSUME NEW r, Sound(r), Accepted(r), NEW p \in PlanesOf(r), NEW sofar \in Nat, NEW luma \in Nat,
         p = 0 => sofar = 0
  PROVE  LET i == InfoAt(r, p, sofar, luma) IN
         /\ Shaped(r, p, i) /\ i.byte_stride = byte_stride(r, p, luma)
         /\ i.offset \in Nat /\ sofar <= i.offset
         /\ ~is_afrc(r) => i.offset = sofar
         /\ is_afrc(r) => i.offset % afrc_plane_alignment(coding_unit_bytes(r, p)) = 0
         /\ SizeAt(r, p, sofar, i) = i.offset + body_size(r, p, i) + header_size(r, i)
         /\ SizeAt(r, p, sofar, i) \in Nat /\ i.offset <= SizeAt(r, p, sofar, i)
<1> DEFINE i == InfoAt(r, p, sofar, luma)
           a == afrc_plane_alignment(coding_unit_bytes(r, p))
           s == PlaneStart(r, p, sofar)
<1>1. /\ i.offset = IF p > 0 THEN s ELSE 0
      /\ i.byte_stride = byte_stride(r, p, luma)
      /\ i.alloc_width = get_pixel_w(r, p) /\ i.alloc_height = get_pixel_h(r, p)
  BY DEF InfoAt
<1>2. SizeAt(r, p, sofar, i) = s + body_size(r, p, i) + header_size(r, i)
  BY DEF SizeAt
<1> HIDE DEF i
<1>3. Shaped(r, p, i)
  BY <1>1, StrideNat DEF Shaped
<1>4. /\ s \in Nat /\ sofar <= s
      /\ is_afrc(r) => s % a = 0
      /\ ~is_afrc(r) \/ sofar = 0 => s = sofar
  BY PlaneStartIs, Zenon
<1> HIDE DEF s, a
<1>5. p = 0 \/ p > 0
  BY DEF PlanesOf
<1>6. i.offset = s
  BY <1>1, <1>4, <1>5
<1>7. body_size(r, p, i) \in Nat /\ header_size(r, i) \in Nat
  BY <1>3, BodyNat, HeaderIs, Zenon
<1>8. /\ SizeAt(r, p, sofar, i) = i.offset + body_size(r, p, i) + header_size(r, i)
      /\ SizeAt(r, p, sofar, i) \in Nat /\ i.offset <= SizeAt(r, p, sofar, i)
  BY <1>2, <1>4, <1>6, <1>7
<1> QED
  BY <1>1, <1>3, <1>4, <1>6, <1>8, Zenon DEF i, a

\* What holds of a plane and of the bytes before it and up to its end.
PlaneIs(r, p) ==
  LET i == InfoOf(r, p) IN
  /\ Shaped(r, p, i) /\ i.byte_stride = byte_stride(r, p, LumaOf(r, p))
  /\ i.offset \in Nat /\ SizeOf(r, p) <= i.offset
  /\ ~is_afrc(r) => i.offset = SizeOf(r, p)
  /\ is_afrc(r) => i.offset % afrc_plane_alignment(coding_unit_bytes(r, p)) = 0
  /\ SizeOf(r, p + 1) = i.offset + body_size(r, p, i) + header_size(r, i)
  /\ SizeOf(r, p + 1) \in Nat /\ i.offset <= SizeOf(r, p + 1)

\* Every plane of the closed form.
LEMMA PlanesAre ==
  ASSUME NEW r, Sound(r), Accepted(r), NEW p \in PlanesOf(r)
  PROVE  /\ PlaneIs(r, p) /\ SizeOf(r, p) \in Nat
         /\ InfoOf(r, p) = InfoAt(r, p, SizeOf(r, p), LumaOf(r, p))
         /\ LumaOf(r, p) \in Nat
<1>0. 0 \in PlanesOf(r) /\ 0 \in Nat /\ PlanesOf(r) \subseteq {0, 1, 2}
  BY RowIs DEF Planes
<1>1. ASSUME NEW q \in PlanesOf(r), SizeOf(r, q) \in Nat, LumaOf(r, q) \in Nat, q = 0 => SizeOf(r, q) = 0,
             InfoOf(r, q) = InfoAt(r, q, SizeOf(r, q), LumaOf(r, q)),
             SizeOf(r, q + 1) = SizeAt(r, q, SizeOf(r, q), InfoOf(r, q))
      PROVE  PlaneIs(r, q)
  <2> DEFINE s == SizeOf(r, q)
             l == LumaOf(r, q)
  <2>1. s \in Nat /\ l \in Nat /\ (q = 0 => s = 0)
    BY <1>1
  <2> HIDE DEF s, l
  <2>2. LET i == InfoAt(r, q, s, l) IN
         /\ Shaped(r, q, i) /\ i.byte_stride = byte_stride(r, q, l)
         /\ i.offset \in Nat /\ s <= i.offset
         /\ ~is_afrc(r) => i.offset = s
         /\ is_afrc(r) => i.offset % afrc_plane_alignment(coding_unit_bytes(r, q)) = 0
         /\ SizeAt(r, q, s, i) = i.offset + body_size(r, q, i) + header_size(r, i)
         /\ SizeAt(r, q, s, i) \in Nat /\ i.offset <= SizeAt(r, q, s, i)
    BY <2>1, PlaneAt, Zenon
  <2> QED
    BY <1>1, <2>2, Zenon DEF PlaneIs, s, l
<1>2. PlaneIs(r, 0) /\ SizeOf(r, 0) = 0 /\ LumaOf(r, 0) = 0
      /\ InfoOf(r, 0) = InfoAt(r, 0, SizeOf(r, 0), LumaOf(r, 0))
  <2>1. SizeOf(r, 0) = 0 /\ LumaOf(r, 0) = 0 /\ InfoOf(r, 0) = Info0(r) /\ SizeOf(r, 0 + 1) = Size1(r)
    BY DEF SizeOf, LumaOf, InfoOf
  <2>2. InfoOf(r, 0) = InfoAt(r, 0, SizeOf(r, 0), LumaOf(r, 0))
    BY <2>1, Zenon DEF Info0
  <2>3. SizeOf(r, 0 + 1) = SizeAt(r, 0, SizeOf(r, 0), InfoOf(r, 0))
    BY <2>1, Zenon DEF Size1
  <2>4. SizeOf(r, 0) \in Nat /\ LumaOf(r, 0) \in Nat
    BY <2>1
  <2> QED
    BY <1>0, <1>1, <2>1, <2>2, <2>3, <2>4, Zenon
<1>3. Size1(r) \in Nat /\ Info0(r).byte_stride \in Nat
  <2>1. InfoOf(r, 0) = Info0(r) /\ SizeOf(r, 0 + 1) = Size1(r)
    BY DEF InfoOf, SizeOf
  <2> QED
    BY <1>2, <2>1, Zenon DEF PlaneIs, Shaped
<1>4. ASSUME 1 \in PlanesOf(r)
      PROVE  PlaneIs(r, 1) /\ SizeOf(r, 1) \in Nat /\ LumaOf(r, 1) \in Nat
             /\ InfoOf(r, 1) = InfoAt(r, 1, SizeOf(r, 1), LumaOf(r, 1)) /\ Size2(r) \in Nat
  <2>1. /\ SizeOf(r, 1) = Size1(r) /\ LumaOf(r, 1) = Info0(r).byte_stride /\ InfoOf(r, 1) = Info1(r)
        /\ SizeOf(r, 1 + 1) = Size2(r)
    BY DEF SizeOf, LumaOf, InfoOf
  <2>2. InfoOf(r, 1) = InfoAt(r, 1, SizeOf(r, 1), LumaOf(r, 1))
    BY <2>1, Zenon DEF Info1
  <2>3. SizeOf(r, 1 + 1) = SizeAt(r, 1, SizeOf(r, 1), InfoOf(r, 1))
    BY <2>1, Zenon DEF Size2
  <2>4. SizeOf(r, 1) \in Nat /\ LumaOf(r, 1) \in Nat
    BY <1>3, <2>1
  <2>5. 1 # 0
    OBVIOUS
  <2>6. PlaneIs(r, 1)
    BY <1>4, <1>1, <2>2, <2>3, <2>4, <2>5, Zenon
  <2> QED
    BY <2>1, <2>2, <2>4, <2>6, Zenon DEF PlaneIs
<1>5. ASSUME 2 \in PlanesOf(r)
      PROVE  PlaneIs(r, 2) /\ SizeOf(r, 2) \in Nat /\ LumaOf(r, 2) \in Nat
             /\ InfoOf(r, 2) = InfoAt(r, 2, SizeOf(r, 2), LumaOf(r, 2))
  <2>0. 1 \in PlanesOf(r)
    BY <1>5, RowIs DEF PlanesOf
  <2>1. /\ SizeOf(r, 2) = Size2(r) /\ LumaOf(r, 2) = Info0(r).byte_stride /\ InfoOf(r, 2) = Info2(r)
        /\ SizeOf(r, 2 + 1) = Size3(r)
    BY DEF SizeOf, LumaOf, InfoOf
  <2>2. InfoOf(r, 2) = InfoAt(r, 2, SizeOf(r, 2), LumaOf(r, 2))
    BY <2>1, Zenon DEF Info2
  <2>3. SizeOf(r, 2 + 1) = SizeAt(r, 2, SizeOf(r, 2), InfoOf(r, 2))
    BY <2>1, Zenon DEF Size3
  <2>4. SizeOf(r, 2) \in Nat /\ LumaOf(r, 2) \in Nat
    BY <1>3, <1>4, <2>0, <2>1
  <2>5. 2 # 0
    OBVIOUS
  <2> QED
    BY <1>5, <1>1, <2>2, <2>3, <2>4, <2>5, Zenon
<1> QED
  BY <1>0, <1>2, <1>4, <1>5

\* The stride in pixels, where it is asked for.
LEMMA PixelStrideNat ==
  ASSUME NEW r, NEW i, i.byte_stride \in Nat, At(Info(r).bpp, 0) \in Nat \ {0}
  PROVE  PixelStride(r, i) \in Nat
<1> DEFINE b == At(Info(r).bpp, 0)
           s == i.byte_stride * 8
<1>1. s \in Nat /\ b \in Nat \ {0}
  OBVIOUS
<1>2. PixelStride(r, i) = s \div b
  BY DEF PixelStride
<1> HIDE DEF b, s
<1> QED
  BY <1>1, <1>2, DivIs

\* What the video decoder asks for is a number of bytes.
LEMMA NeededNat ==
  ASSUME NEW r, Sound(r), NEW i, Shaped(r, 0, i)
  PROVE  size_needed_by_rk_video(r, i) \in Nat
<1> DEFINE h == i.alloc_height
           s == i.byte_stride
           x == PixelStride(r, i)
<1>1. h \in Nat /\ s \in Nat
  BY RowIs, DimensionsIs DEF Shaped
<1>2. r.base \in {"NV12", "NV16"} => x \in Nat
  <2>1. r.base \in {"NV12", "NV16"} => At(Info(r).bpp, 0) = 8
    BY NamedAssumption DEF Info, At
  <2> QED
    BY <1>1, <2>1, PixelStrideNat
<1>3. size_needed_by_rk_video(r, i) =
        IF r.base = "NV12" THEN 2 * x * h ELSE IF r.base = "NV16" THEN (5 * x * h) \div 2
        ELSE IF r.base = "NV15" THEN 2 * s * h ELSE IF r.base = "NV24" THEN 3 * s * h ELSE 0
  BY DEF size_needed_by_rk_video
<1> HIDE DEF h, s, x
<1>4. CASE r.base \in {"NV12", "NV16"}
  <2>1. x * h \in Nat
    BY <1>1, <1>2, <1>4
  <2> DEFINE y == x * h
  <2>2. 2 * x * h = 2 * y /\ 5 * x * h = 5 * y
    BY <1>1, <1>2, <1>4
  <2> HIDE DEF y
  <2>3. y \in Nat
    BY <2>1 DEF y
  <2> QED
    BY <1>3, <1>4, <2>2, <2>3
<1>5. CASE r.base \notin {"NV12", "NV16"}
  <2>1. 2 * s * h \in Nat /\ 3 * s * h \in Nat
    BY <1>1
  <2> QED
    BY <1>3, <1>5, <2>1
<1> QED BY <1>4, <1>5

\* The layer holds all planes, and the allocation all layers.
LEMMA LayersAre ==
  ASSUME NEW r, Sound(r), Accepted(r), r.layers \in Nat
  PROVE  /\ SizeOf(r, Info(r).npln) \in Nat /\ OneLayer(r) \in Nat /\ AllLayers(r) \in Nat
         /\ SizeOf(r, Info(r).npln) <= OneLayer(r)
         /\ r.layers # 0 => OneLayer(r) <= AllLayers(r) \div r.layers
         /\ r.layers > 1 => AllLayers(r) \div r.layers = Align(OneLayer(r), LayerAlign(r))
<1> DEFINE n == Info(r).npln
           b == SizeOf(r, n)
           v == size_needed_by_rk_video(r, Info0(r))
<1>1. n \in 1 .. 3 /\ n - 1 \in PlanesOf(r) /\ 0 \in PlanesOf(r)
  BY RowIs DEF PlanesOf
<1>2. b \in Nat
  <2>1. SizeOf(r, (n - 1) + 1) \in Nat
    BY <1>1, PlanesAre, Zenon DEF PlaneIs
  <2>2. (n - 1) + 1 = n
    BY <1>1
  <2> QED
    BY <2>1, <2>2
<1>3. v \in Nat
  <2>1. InfoOf(r, 0) = Info0(r)
    BY DEF InfoOf
  <2>2. Shaped(r, 0, Info0(r))
    BY <1>1, <2>1, PlanesAre, Zenon DEF PlaneIs
  <2> QED
    BY <2>2, NeededNat, Zenon
<1>4. OneLayer(r) = IF StrideChosen(r) THEN Max({b, v}) ELSE b
  BY Zenon DEF OneLayer
<1> HIDE DEF b, v, n
<1>5. OneLayer(r) \in Nat /\ b <= OneLayer(r)
  <2>1. {b, v} = {b, v, v}
    OBVIOUS
  <2>2. Max({b, v, v}) \in {b, v, v} /\ b <= Max({b, v, v})
    BY <1>2, <1>3, MaxIs, Zenon
  <2> DEFINE m == Max({b, v})
  <2>3. m \in {b, v} /\ b <= m
    BY <2>1, <2>2
  <2> HIDE DEF m
  <2> QED
    BY <1>2, <1>3, <1>4, <2>3 DEF m
<1> DEFINE o == OneLayer(r)
           l == LayerAlign(r)
           a == Align(o, l)
           k == r.layers
<1>6. l \in Nat \ {0}
  BY DEF LayerAlign
<1>7. AllLayers(r) = IF k > 1 THEN a * k ELSE o
  BY DEF AllLayers
<1>8. o \in Nat /\ k \in Nat
  BY <1>5
<1> HIDE DEF o, l, k
<1>9. a \in Nat /\ o <= a
  BY <1>6, <1>8, AlignIs, Zenon
<1> HIDE DEF a
<1>10. CASE k > 1
  <2>1. AllLayers(r) = a * k /\ a * k \in Nat
    BY <1>7, <1>8, <1>9, <1>10
  <2>2. (a * k) \div k = a
    BY <1>8, <1>9, <1>10
  <2> QED
    BY <1>2, <1>5, <1>9, <1>10, <2>1, <2>2 DEF b, n, o, k, a, l
<1>11. CASE ~(k > 1)
  <2>1. AllLayers(r) = o /\ (k # 0 => o \div k = o)
    BY <1>7, <1>8, <1>11
  <2>2. o <= o
    BY <1>8
  <2>3. k # 0 => o <= AllLayers(r) \div k
    BY <2>1, <2>2, Zenon
  <2> QED
    BY <1>2, <1>5, <1>8, <1>11, <2>1, <2>3, Zenon DEF b, n, o, k
<1> QED BY <1>10, <1>11

\* What is stored in a plane ends before the next one, and before the next layer.
LEMMA FitsIs ==
  ASSUME NEW r, Sound(r), Accepted(r), r.height # 0, r.layers \in Nat \ {0},
         HardwareOnly(r), OneStrideFlag(r), NEW p \in PlanesOf(r)
  PROVE  InfoOf(r, p).offset + PlaneBytes(r, p, InfoOf(r, p))
           <= IF p + 1 < Info(r).npln THEN InfoOf(r, p + 1).offset ELSE AllLayers(r) \div r.layers
<1> DEFINE i == InfoOf(r, p)
           e == SizeOf(r, p + 1)
           x == PlaneBytes(r, p, i)
           b == body_size(r, p, i)
           h == header_size(r, i)
<1>1. /\ Shaped(r, p, i) /\ i.byte_stride = byte_stride(r, p, LumaOf(r, p)) /\ i.offset \in Nat
      /\ e = i.offset + b + h /\ e \in Nat
  BY PlanesAre, Zenon DEF PlaneIs
<1>2. /\ p > 0 /\ Uncompressed(r) => LumaOf(r, p) = Luma(r)
      /\ p = 0 => LumaOf(r, p) = 0
  <2>1. Info0(r).byte_stride = byte_stride(r, 0, 0)
    BY DEF Info0, InfoAt
  <2>2. Uncompressed(r) => byte_stride(r, 0, 0) = LinearStride(r, 0, 0)
    BY Zenon DEF byte_stride, Uncompressed
  <2> QED
    BY <2>1, <2>2 DEF LumaOf, Luma, PlanesOf
<1>3. x \in Nat /\ x <= b + h
  BY <1>1, <1>2, PlaneRoom, Zenon
<1>4. b \in Nat /\ h \in Nat
  BY <1>1, BodyNat, HeaderIs, Zenon
<1> DEFINE f == i.offset
<1>5. f + x <= e /\ f \in Nat
  <2>1. e = f + b + h /\ f \in Nat
    BY <1>1
  <2> HIDE DEF i, e, x, b, h, f
  <2> QED
    BY <1>3, <1>4, <2>1
<1>6. Info(r).npln \in 1 .. 3 /\ p \in Nat
  BY RowIs DEF PlanesOf
<1>7. CASE p + 1 < Info(r).npln
  <2>1. p + 1 \in PlanesOf(r)
    BY <1>6, <1>7 DEF PlanesOf
  <2>2. e <= InfoOf(r, p + 1).offset /\ InfoOf(r, p + 1).offset \in Nat
    BY <2>1, PlanesAre, Zenon DEF PlaneIs
  <2> DEFINE g == InfoOf(r, p + 1).offset
  <2>3. e <= g /\ g \in Nat /\ e \in Nat
    BY <1>1, <2>2
  <2> HIDE DEF e, x, f, g
  <2>4. f + x <= g
    BY <1>3, <1>5, <2>3
  <2> QED
    BY <1>7, <2>4, Zenon DEF g, f, x
<1>8. CASE ~(p + 1 < Info(r).npln)
  <2>1. p + 1 = Info(r).npln
    BY <1>6, <1>8 DEF PlanesOf
  <2> DEFINE o == OneLayer(r)
             g == AllLayers(r) \div r.layers
  <2>2. e <= o /\ o \in Nat /\ o <= g /\ AllLayers(r) \in Nat
    BY <2>1, LayersAre
  <2>3. g \in Int
    BY <2>2
  <2>4. e \in Nat
    BY <1>1
  <2> HIDE DEF e, x, f, g, o
  <2>5. f + x <= g
    BY <1>3, <1>5, <2>2, <2>3, <2>4
  <2> QED
    BY <1>8, <2>5, Zenon DEF g, f, x
<1> QED BY <1>7, <1>8

\* The pixels asked for fit into every plane.
LEMMA RowsAre ==
  ASSUME NEW r, Sound(r), Accepted(r), NEW p \in PlanesOf(r)
  PROVE  /\ Cols(r, p) <= InfoOf(r, p).alloc_width /\ Rows(r, p) <= InfoOf(r, p).alloc_height
         /\ Uncompressed(r) /\ OneStrideFlag(r) /\ WholeBytes(r) =>
              Cols(r, p) * At(Info(r).bpp, p) <= InfoOf(r, p).byte_stride * 8
<1> DEFINE i == InfoOf(r, p)
<1>1. Shaped(r, p, i) /\ i.byte_stride = byte_stride(r, p, LumaOf(r, p))
  BY PlanesAre, Zenon DEF PlaneIs
<1>2. Cols(r, p) <= i.alloc_width /\ Rows(r, p) <= i.alloc_height
  BY <1>1, DimensionsIs DEF Shaped, Cols, Rows
<1>3. ASSUME Uncompressed(r), OneStrideFlag(r), WholeBytes(r)
      PROVE  Cols(r, p) * At(Info(r).bpp, p) <= i.byte_stride * 8
  <2>1. Info0(r).byte_stride = byte_stride(r, 0, 0)
    BY DEF Info0, InfoAt
  <2>2. \A luma : byte_stride(r, p, luma) = LinearStride(r, p, luma) /\ byte_stride(r, 0, 0) = LinearStride(r, 0, 0)
    BY <1>3, Zenon DEF byte_stride, Uncompressed
  <2>3. (p > 0 => LumaOf(r, p) = Luma(r)) /\ (p = 0 => LumaOf(r, p) = 0)
    BY <2>1, <2>2 DEF LumaOf, Luma, PlanesOf
  <2>4. "linear" \in Info(r).is
    BY <1>3, Zenon DEF Accepted, validate_format
  <2>5. CeilDiv(r.width, Hsub(r, p)) * At(Info(r).bpp, p) <= LinearStride(r, p, LumaOf(r, p)) * 8
    BY <1>3, <2>3, <2>4, RowFits, Zenon
  <2> QED
    BY <1>1, <2>2, <2>5, Zenon DEF Cols
<1> QED
  BY <1>2, <1>3, Zenon

-----------------------------------------------------------------------------
(* The types and the alignments of the closed form.                           *)

\* What calc_allocation_size says of a plane.
PlaneType == [offset : Nat, byte_stride : Nat, alloc_width : Nat, alloc_height : Nat]

\* A plane of the closed form has its type, and so have the sizes.
LEMMA InfoTyped ==
  ASSUME NEW r, Sound(r), Accepted(r), NEW p \in PlanesOf(r)
  PROVE  InfoOf(r, p) \in PlaneType
<1> DEFINE i == InfoOf(r, p)
<1>1. i = [offset |-> i.offset, byte_stride |-> i.byte_stride,
           alloc_width |-> i.alloc_width, alloc_height |-> i.alloc_height]
  <2>1. i = InfoAt(r, p, SizeOf(r, p), LumaOf(r, p))
    BY PlanesAre, Zenon
  <2> QED
    BY <2>1 DEF InfoAt
<1>2. /\ i.offset \in Nat /\ i.byte_stride \in Nat
      /\ i.alloc_width = get_pixel_w(r, p) /\ i.alloc_height = get_pixel_h(r, p)
  BY PlanesAre, Zenon DEF PlaneIs, Shaped
<1>3. i.alloc_width \in Nat /\ i.alloc_height \in Nat
  BY <1>2, DimensionsIs
<1> HIDE DEF i
<1> QED
  BY <1>1, <1>2, <1>3 DEF PlaneType, i

\* The stride in pixels of an accepted request is a number.
LEMMA PixelsTyped ==
  ASSUME NEW r, Sound(r), Accepted(r)
  PROVE  Pixels(r) \in Nat
<1>1. ASSUME Uncompressed(r) PROVE PixelStride(r, Info0(r)) \in Nat
  <2>1. "linear" \in Info(r).is
    BY <1>1, Zenon DEF Accepted, validate_format
  <2>2. At(Info(r).bpp, 0) \in Nat \ {0}
    BY <2>1, TableAssumption DEF Sound, Info, Planes
  <2>3. 0 \in PlanesOf(r) /\ InfoOf(r, 0) = Info0(r)
    BY RowIs DEF InfoOf
  <2>4. Info0(r).byte_stride \in Nat
    BY <2>3, InfoTyped DEF PlaneType
  <2> QED
    BY <2>2, <2>4, PixelStrideNat, Zenon
<1> QED
  BY <1>1 DEF Pixels

\* Divisibility is transitive.
LEMMA Transitive ==
  ASSUME NEW a \in Nat, NEW b \in Nat \ {0}, NEW c \in Nat \ {0}, a % b = 0, b % c = 0
  PROVE  a % c = 0
<1> DEFINE k == a \div b
           l == b \div c
<1>1. k \in Nat /\ a = k * b
  <2>1. k \in Nat /\ a = (k * b) + (a % b)
    BY DivIs, Zenon
  <2> HIDE DEF k
  <2> QED
    BY <2>1
<1>2. l \in Nat /\ b = l * c
  <2>1. l \in Nat /\ b = (l * c) + (b % c)
    BY DivIs
  <2> HIDE DEF l
  <2> QED
    BY <2>1
<1> HIDE DEF k, l
<1>3. k * l \in Nat /\ a = (k * l) * c
  BY <1>1, <1>2
<1>4. \A m \in Nat : (m * c) % c = 0
  OBVIOUS
<1>5. ((k * l) * c) % c = 0
  BY <1>3, <1>4
<1> QED
  BY <1>3, <1>5, Zenon

\* A multiple of a multiple of g is one of g.
LEMMA MultipleTimes ==
  ASSUME NEW a \in Nat, NEW n \in Nat, NEW g \in Nat \ {0}, a % g = 0
  PROVE  (n * a) % g = 0
<1> DEFINE k == a \div g
<1>1. k \in Nat /\ a = k * g
  <2>1. k \in Nat /\ a = (k * g) + (a % g)
    BY DivIs, Zenon
  <2> HIDE DEF k
  <2> QED
    BY <2>1
<1> HIDE DEF k
<1>2. n * k \in Nat /\ n * a = (n * k) * g
  BY <1>1
<1>3. \A m \in Nat : (m * g) % g = 0
  OBVIOUS
<1>4. ((n * k) * g) % g = 0
  BY <1>2, <1>3
<1> QED
  BY <1>2, <1>4, Zenon

\* Half of a multiple of 2 * g is a multiple of g.
LEMMA HalfOf ==
  ASSUME NEW a \in Nat, NEW g \in Nat \ {0}, a % (2 * g) = 0
  PROVE  (a \div 2) % g = 0 /\ a \div 2 \in Nat
<1> DEFINE h == 2 * g
           k == a \div h
<1>0. h \in Nat \ {0} /\ h = 2 * g /\ a % h = 0
  OBVIOUS
<1> HIDE DEF h
<1>1. k \in Nat /\ a = (k * h) + (a % h)
  BY <1>0, DivIs, Zenon
<1> HIDE DEF k
<1>2. k * g \in Nat /\ a = 2 * (k * g)
  BY <1>0, <1>1
<1> DEFINE m == k * g
<1>3. m \in Nat /\ a = 2 * m
  BY <1>2
<1>4. \A n \in Nat : (n * g) % g = 0
  OBVIOUS
<1>5. m % g = 0
  BY <1>1, <1>4
<1> HIDE DEF m
<1>6. a \div 2 = m
  BY <1>3
<1> QED
  BY <1>3, <1>5, <1>6

\* Formats in tiles of two rows have an even alignment.
LEMMA TiledEven ==
  ASSUME NEW r, Sound(r), NEW p \in PlanesOf(r), "linear" \in Info(r).is, Info(r).tile_size # 1
  PROVE  stride_align(r, p) % 2 = 0 /\ Info(r).tile_size = 2
<1>1. Info(r).tile_size = 2 /\ p \in Planes
  BY RowIs
<1>2. At(Info(r).bpp, p) \in {0, 16} /\ Info(r).align_w_cpu = 1
  BY <1>1, VideoAssumption, Zenon DEF Info, Sound
<1>3. ~RkVideo(r)
  <2>1. RkVideo([base |-> r.base]) = RkVideo(r)
    BY DEF RkVideo
  <2>2. RkVideo([base |-> r.base]) => Info(r).tile_size = 1
    BY VideoAssumption, Zenon DEF Info, Sound
  <2> QED
    BY <2>1, <2>2
<1>4. hw_align(r) \in {0, 64, 128}
  BY <1>3 DEF hw_align, StrideChosen
<1>5. cpu_align(r, p) % 2 = 0
  BY <1>2 DEF cpu_align
<1> DEFINE a == stride_align(r, p)
           c == cpu_align(r, p)
           h == hw_align(r)
<1>6. /\ a \in Nat /\ c \in Nat /\ h \in {0, 64, 128} /\ c % 2 = 0
      /\ a = 0 <=> h = 0 /\ c = 0
      /\ h # 0 => a % h = 0
      /\ c # 0 => a % c = 0
  BY <1>4, <1>5, AlignmentsAre
<1> HIDE DEF a, c, h
<1>7. a % 2 = 0
  <2>1. CASE h = 0 /\ c = 0
    BY <1>6, <2>1
  <2>2. CASE h # 0
    <3>1. a \in Nat /\ h \in Nat \ {0} /\ 2 \in Nat \ {0} /\ a % h = 0 /\ h % 2 = 0
      BY <1>6, <2>2
    <3> QED
      BY <3>1, Transitive
  <2>3. CASE c # 0
    <3>1. a \in Nat /\ c \in Nat \ {0} /\ 2 \in Nat \ {0} /\ a % c = 0 /\ c % 2 = 0
      BY <1>6, <2>3
    <3> QED
      BY <3>1, Transitive
  <2> QED
    BY <2>1, <2>2, <2>3
<1> QED
  BY <1>1, <1>7 DEF a

\* A stride that is aligned is a multiple, tiles of two rows included.
LEMMA AlignedMultiple ==
  ASSUME NEW r, Sound(r), NEW p \in PlanesOf(r), "linear" \in Info(r).is, NEW raw \in Nat,
         stride_align(r, p) # 0
  PROVE  (AlignedStride(r, p, raw) * Info(r).tile_size) % stride_align(r, p) = 0
<1> DEFINE t == Info(r).tile_size
           a == stride_align(r, p)
           u == raw * t
           x == Align(u, a)
<1>1. t \in {1, 2} /\ a \in Nat \ {0}
  BY RowIs, AlignmentsAre
<1>2. AlignedStride(r, p, raw) = x \div t
  BY DEF AlignedStride
<1>3. t # 1 => a % 2 = 0
  BY TiledEven
<1> HIDE DEF t, a
<1>4. u \in Nat
  BY <1>1
<1> HIDE DEF u
<1>5. x \in Nat /\ x % a = 0
  BY <1>1, <1>4, AlignIs, Zenon
<1> HIDE DEF x
<1>6. t # 1 => x % 2 = 0
  <2>1. 2 \in Nat \ {0}
    OBVIOUS
  <2> QED
    BY <1>1, <1>3, <1>5, <2>1, Transitive
<1>7. (x \div t) * t = x
  BY <1>1, <1>5, <1>6
<1> QED
  BY <1>2, <1>5, <1>7, Zenon DEF t, a

\* The two alignments of NV30 without a chosen stride divide 64.
LEMMA Nv30Aligned ==
  ASSUME NEW r, Sound(r), NEW p \in PlanesOf(r), "linear" \in Info(r).is,
         r.base = "NV30", ~StrideChosen(r)
  PROVE  /\ Info(r).tile_size = 1
         /\ hw_align(r) # 0 => stride_align(r, p) % 64 = 0
         /\ cpu_align(r, p) # 0 => 64 % cpu_align(r, p) = 0
<1>1. hw_align(r) # 0 => hw_align(r) \in {64, 128}
  BY DEF hw_align
<1>2. hw_align(r) # 0 => stride_align(r, p) % 64 = 0
  <2>1. stride_align(r, p) \in Nat /\ (hw_align(r) # 0 => stride_align(r, p) % hw_align(r) = 0)
    BY AlignmentsAre, Zenon
  <2> QED
    BY <1>1, <2>1
<1>3. Info(r).align_w_cpu = 1 /\ Info(r).tile_size = 1 /\ At(Info(r).bpp, p) \in 0 .. 23
  <2>1. p \in Planes /\ At(Info(r).bpp, p) \in 0 .. 64
    BY RowIs
  <2>2. RkVideo([base |-> "NV30"])
    BY DEF RkVideo
  <2>3. Info(r).align_w_cpu = 1 /\ Info(r).tile_size = 1
    BY <2>2, VideoAssumption, Zenon DEF Info, Sound
  <2>4. At(Info(r).bpp, p) < 24
    BY <2>1, VideoAssumption, Zenon DEF Info, Sound
  <2> QED
    BY <2>1, <2>3, <2>4
<1>4. cpu_align(r, p) \in {0, 1, 2}
  BY <1>3 DEF cpu_align
<1> QED
  BY <1>2, <1>3, <1>4

\* Where the stride of a chroma plane of YV12 is half the luma stride, that is
\* aligned to twice the alignment of both.
LEMMA Yv12Aligned ==
  ASSUME NEW r, Sound(r), r.base = "YV12", has_hw_usage(r), has_cpu_usage(r), StrideFlags(r) = {}
  PROVE  /\ Luma(r) \in Nat /\ stride_align(r, 0) \in Nat \ {0}
         /\ Luma(r) % (2 * stride_align(r, 0)) = 0
         /\ \A p \in PlanesOf(r) : stride_align(r, p) = stride_align(r, 0)
<1>0. 0 \in PlanesOf(r) /\ 0 \in Nat
  BY RowIs
<1>1. hw_align(r) # 0
  BY DEF hw_align
<1>2. stride_align(r, 0) \in Nat \ {0}
  BY <1>0, <1>1, AlignmentsAre
<1>3. \A p \in PlanesOf(r) : stride_align(r, p) = stride_align(r, 0)
  <2>1. \A p \in Planes : At(Info(r).bpp, p) = 8
    BY NamedAssumption DEF Info, At, Planes
  <2>2. PlanesOf(r) \subseteq Planes
    BY RowIs
  <2>3. \A p \in PlanesOf(r) : cpu_align(r, p) = cpu_align(r, 0)
    BY <1>0, <2>1, <2>2, Zenon DEF cpu_align
  <2> QED
    BY <2>3, Zenon DEF stride_align
<1> DEFINE s == AlignedStride(r, 0, Raw(r, 0))
           a == stride_align(r, 0)
           d == 2 * a
           y == Align(s, d)
<1>4. Raw(r, 0) \in Nat
  <2>1. get_pixel_w(r, 0) \in Nat /\ At(Info(r).bpp, 0) \in Nat
    BY <1>0, DimensionsIs, RowIs
  <2> QED
    BY <2>1 DEF Raw
<1>5. s \in Nat
  BY <1>0, <1>4, AlignedStrideIs, Zenon
<1>6. Luma(r) = Align(y, 1)
  <2>1. update_yv12_stride(r, 0, s, 0) = y
    BY Zenon DEF update_yv12_stride
  <2>2. r.base # "NV12" /\ r.base # "NV30"
    OBVIOUS
  <2> QED
    BY <2>1, <2>2, Zenon DEF Luma, LinearStride, FlaggedStride, Raw
<1> HIDE DEF s, a
<1>7. d \in Nat \ {0}
  BY <1>2 DEF a
<1> HIDE DEF d
<1>8. y \in Nat /\ y % d = 0
  BY <1>5, <1>7, AlignIs, Zenon
<1> HIDE DEF y
<1>9. Align(y, 1) = y
  <2>1. y % 1 = 0 /\ 1 \in Nat \ {0}
    BY <1>8
  <2> QED
    BY <1>8, <2>1, AlignIs, Zenon
<1> QED
  BY <1>2, <1>3, <1>6, <1>8, <1>9, Zenon DEF a, d

\* A linear stride that gralloc chose suits the hardware and the CPU.
LEMMA LinearAligned ==
  ASSUME NEW r, Sound(r), NEW p \in PlanesOf(r), "linear" \in Info(r).is,
         ~StrideChosen(r), StrideFlags(r) = {},
         NEW luma \in Nat, p > 0 => luma = Luma(r)
  PROVE  LET bytes == LinearStride(r, p, luma) * Info(r).tile_size IN
         /\ hw_align(r) # 0 => bytes % hw_align(r) = 0
         /\ cpu_align(r, p) # 0 => bytes % cpu_align(r, p) = 0
<1> DEFINE t == Info(r).tile_size
           a == stride_align(r, p)
           s == AlignedStride(r, p, Raw(r, p))
           y == update_yv12_stride(r, p, s, luma)
           n == IF r.base = "NV30" THEN 64 ELSE 1
           z == Align(y, n)
<1>1. LinearStride(r, p, luma) = z
  BY Zenon DEF LinearStride, FlaggedStride, Raw
<1>2. Raw(r, p) \in Nat
  <2>1. get_pixel_w(r, p) \in Nat /\ At(Info(r).bpp, p) \in Nat
    BY DimensionsIs, RowIs
  <2> QED
    BY <2>1 DEF Raw
<1>3. s \in Nat /\ (a # 0 => (s * t) % a = 0) /\ a \in Nat /\ t \in {1, 2}
  BY <1>2, AlignedStrideIs, AlignedMultiple, AlignmentsAre, RowIs
<1>4. y \in Nat /\ (a # 0 => (y * t) % a = 0)
  <2>1. CASE FromLuma(r, p)
    <3> DEFINE b == stride_align(r, 0)
    <3>0. p # 0 /\ r.base = "YV12" /\ has_hw_usage(r) /\ has_cpu_usage(r)
      BY <2>1 DEF FromLuma
    <3>1. y = luma \div 2
      BY <3>0, Zenon DEF update_yv12_stride
    <3>2. luma \in Nat /\ b \in Nat \ {0} /\ luma % (2 * b) = 0 /\ a = b
      BY <2>1, Yv12Aligned DEF FromLuma
    <3> HIDE DEF b, y, a, t
    <3>3. (luma \div 2) % b = 0 /\ luma \div 2 \in Nat
      BY <3>2, HalfOf
    <3>4. y \in Nat /\ y % a = 0 /\ a \in Nat \ {0} /\ t \in Nat
      BY <1>3, <3>1, <3>2, <3>3
    <3>5. (t * y) % a = 0
      BY <3>4, MultipleTimes, Zenon
    <3>6. t * y = y * t
      BY <3>4
    <3> QED
      BY <3>4, <3>5, <3>6, Zenon
  <2>2. CASE ~FromLuma(r, p) /\ r.base = "YV12" /\ has_hw_usage(r) /\ has_cpu_usage(r)
    <3>1. p = 0 /\ 0 \in Nat
      BY <2>2 DEF FromLuma, PlanesOf
    <3> DEFINE d == 2 * a
    <3>2. y = Align(s, d)
      BY <2>2, <3>1, Zenon DEF update_yv12_stride
    <3>3. a \in Nat \ {0}
      BY <2>2, <3>1, Yv12Aligned
    <3> HIDE DEF s, a, y, t
    <3>4. d \in Nat \ {0} /\ d % a = 0
      BY <3>3
    <3> HIDE DEF d
    <3>5. y \in Nat /\ y % d = 0
      BY <1>3, <3>2, <3>4, AlignIs, Zenon
    <3>6. y % a = 0
      BY <3>3, <3>4, <3>5, Transitive, Zenon
    <3>7. t \in Nat /\ t * y = y * t
      BY <1>3, <3>5
    <3>8. (t * y) % a = 0
      BY <3>3, <3>5, <3>6, <3>7, MultipleTimes, Zenon
    <3> QED
      BY <3>5, <3>7, <3>8, Zenon
  <2>3. CASE ~(r.base = "YV12" /\ has_hw_usage(r) /\ has_cpu_usage(r))
    <3>1. y = s
      BY <2>3 DEF update_yv12_stride
    <3> QED
      BY <1>3, <3>1, Zenon
  <2> QED
    BY <2>1, <2>2, <2>3
<1> DEFINE h == hw_align(r)
           c == cpu_align(r, p)
<1>5. /\ h \in Nat /\ c \in Nat
      /\ a = 0 <=> h = 0 /\ c = 0
      /\ h # 0 => a % h = 0
      /\ c # 0 => a % c = 0
  BY AlignmentsAre
<1>6. r.base = "NV30" => t = 1 /\ (h # 0 => a % 64 = 0) /\ (c # 0 => 64 % c = 0)
  BY Nv30Aligned
<1> SUFFICES (h # 0 => (z * t) % h = 0) /\ (c # 0 => (z * t) % c = 0)
  BY <1>1, Zenon
<1> HIDE DEF t, a, s, y, h, c
<1>7. ASSUME z = y PROVE (h # 0 => (z * t) % h = 0) /\ (c # 0 => (z * t) % c = 0)
  <2> DEFINE b == y * t
  <2>1. b \in Nat /\ (a # 0 => b % a = 0)
    BY <1>3, <1>4
  <2> HIDE DEF b
  <2>2. h # 0 => b % h = 0
    <3>1. h # 0 => a \in Nat \ {0} /\ h \in Nat \ {0} /\ b % a = 0 /\ a % h = 0
      BY <1>3, <1>5, <2>1
    <3> QED
      BY <2>1, <3>1, Transitive
  <2>3. c # 0 => b % c = 0
    <3>1. c # 0 => a \in Nat \ {0} /\ c \in Nat \ {0} /\ b % a = 0 /\ a % c = 0
      BY <1>3, <1>5, <2>1
    <3> QED
      BY <2>1, <3>1, Transitive
  <2> QED
    BY <1>7, <2>2, <2>3 DEF b
<1>8. n \in Nat \ {0}
  OBVIOUS
<1>9. z \in Nat /\ z % n = 0 /\ (y % n = 0 => z = y)
  <2> HIDE DEF n
  <2> QED
    BY <1>4, <1>8, AlignIs, Zenon
<1>10. CASE r.base # "NV30"
  <2>1. y % n = 0
    BY <1>4, <1>10
  <2> QED
    BY <1>7, <1>9, <2>1
<1>11. CASE r.base = "NV30"
  <2>1. n = 64 /\ t = 1
    BY <1>6, <1>11
  <2>2. CASE h # 0
    <3>1. y * t = y /\ a \in Nat \ {0} /\ y % a = 0 /\ a % 64 = 0 /\ 64 \in Nat \ {0}
      BY <1>3, <1>4, <1>5, <1>6, <1>11, <2>1, <2>2
    <3>2. y % 64 = 0
      BY <1>4, <3>1, Transitive
    <3> QED
      BY <1>7, <1>9, <2>1, <3>2
  <2>3. CASE h = 0
    <3> HIDE DEF z, n
    <3>1. z * t = z /\ z % 64 = 0 /\ 64 \in Nat \ {0}
      BY <1>9, <2>1
    <3>2. c # 0 => c \in Nat \ {0} /\ 64 % c = 0
      BY <1>5, <1>6, <1>11
    <3>3. c # 0 => z % c = 0
      BY <1>9, <3>1, <3>2, Transitive
    <3> QED
      BY <2>3, <3>1, <3>3
  <2> QED
    BY <2>2, <2>3
<1> QED
  BY <1>10, <1>11

\* What is obeyed stays so when it is rounded up to 64, too.
LEMMA FlaggedStays ==
  ASSUME NEW flags, OneFlag(flags), NEW v \in Nat, Flagged(flags, v)
  PROVE  Flagged(flags, Align(v, 64)) /\ Flagged(flags, Align(v, 1))
<1>1. /\ Align(v, 64) \in Nat /\ Align(v, 64) % 64 = 0 /\ (v % 64 = 0 => Align(v, 64) = v)
  BY AlignIs
<1>2. Align(v, 1) = v
  BY AlignIs
<1> DEFINE x == Align(v, 64)
<1>3. x \in Nat /\ x % 64 = 0 /\ (v % 64 = 0 => x = v)
  BY <1>1
<1> HIDE DEF x
<1>4. Flagged(flags, x)
  BY <1>3 DEF Flagged
<1> QED
  BY <1>2, <1>4, Zenon DEF x

\* A client that passes a stride flag gets the stride it asks for.
LEMMA FlagObeyed ==
  ASSUME NEW r, Sound(r), Uncompressed(r), OneStrideFlag(r), StrideFlags(r) # {}
  PROVE  Flagged(StrideFlags(r), LinearStride(r, 0, 0))
<1> DEFINE flags == StrideFlags(r)
<1>0. 0 \in PlanesOf(r) /\ 0 \in Nat /\ OneFlag(flags)
  BY RowIs, FlagsAre
<1>1. CASE r.base = "NV12"
  <2> DEFINE x == FlagAlign(flags, AdjustedWidth(r), 0)
  <2>1. AdjustedWidth(r) \in Nat
    BY AdjustedIs
  <2>2. x \in Nat /\ Flagged(flags, x)
    BY <1>0, <2>1, FlagAlignIs, Zenon
  <2>3. At(Info(r).bpp, 0) = 8 /\ Hsub(r, 0) = 1
    BY <1>1, NamedAssumption DEF Info, At, Hsub
  <2>4. LinearStride(r, 0, 0) = ((x * 8) \div 8) \div 1
    BY <1>1, <2>3, Zenon DEF LinearStride
  <2> HIDE DEF x
  <2>5. ((x * 8) \div 8) \div 1 = x
    BY <2>2
  <2> QED
    BY <2>2, <2>4, <2>5, Zenon
<1>2. CASE r.base # "NV12"
  <2> DEFINE y == update_yv12_stride(r, 0, AlignedStride(r, 0, Raw(r, 0)), 0)
             f == FlagAlign(flags, y, y)
             n == IF r.base = "NV30" THEN 64 ELSE 1
  <2>1. LinearStride(r, 0, 0) = Align(f, n)
    BY <1>2, Zenon DEF LinearStride, FlaggedStride, Raw
  <2>2. y \in Nat
    <3>1. get_pixel_w(r, 0) \in Nat /\ At(Info(r).bpp, 0) \in Nat
      BY <1>0, DimensionsIs, RowIs
    <3>2. Raw(r, 0) \in Nat
      BY <3>1 DEF Raw
    <3> DEFINE s == AlignedStride(r, 0, Raw(r, 0))
               d == 2 * stride_align(r, 0)
    <3>3. s \in Nat
      BY <1>0, <3>2, AlignedStrideIs, Zenon
    <3>4. y = s \/ (has_hw_usage(r) /\ y = Align(s, d))
      BY DEF update_yv12_stride
    <3>5. has_hw_usage(r) => d \in Nat \ {0}
      <4>1. has_hw_usage(r) => hw_align(r) # 0
        BY DEF hw_align
      <4> QED
        BY <4>1, <1>0, AlignmentsAre
    <3> HIDE DEF s, d, y
    <3> QED
      BY <3>3, <3>4, <3>5, AlignIs
  <2> HIDE DEF y
  <2>3. f \in Nat /\ Flagged(flags, f)
    BY <1>0, <2>2, FlagAlignIs, Zenon
  <2> HIDE DEF f
  <2>4. Flagged(flags, Align(f, n))
    <3>1. n = 64 \/ n = 1
      OBVIOUS
    <3> HIDE DEF n
    <3> QED
      BY <1>0, <2>3, <3>1, FlaggedStays
  <2> QED
    BY <2>1, <2>4, Zenon
<1> QED
  BY <1>1, <1>2

\* A client that specifies the stride gets the width it passed.
LEMMA WidthObeyed ==
  ASSUME NEW r, Sound(r), Uncompressed(r), "linear" \in Info(r).is, RkVideo(r), WholeBytes(r),
         "SPECIFY_STRIDE" \in r.usage, StrideFlags(r) = {}, r.base # "NV30"
  PROVE  LinearStride(r, 0, 0) * 8 = Align(r.width, Info(r).align_w) * At(Info(r).bpp, 0)
<1> DEFINE b == At(Info(r).bpp, 0)
           w == get_pixel_w(r, 0)
           raw == Raw(r, 0)
           a == stride_align(r, 0)
           c == cpu_align(r, 0)
<1>0. 0 \in PlanesOf(r) /\ 0 \in Nat
  BY RowIs
<1>1. Info(r).align_w_cpu = 1 /\ Info(r).tile_size = 1 /\ b \in {8, 10, 16, 32}
  <2>1. RkVideo([base |-> r.base])
    BY DEF RkVideo
  <2> QED
    BY <2>1, VideoAssumption, Zenon DEF Info, Sound
<1>2. w = Align(r.width, Info(r).align_w) /\ w \in Nat
  <2>1. AdjustedWidth(r) = r.width /\ r.width \in Nat
    BY AdjustedIs DEF Uncompressed, Sound
  <2>2. Info(r).align_w \in {1, 2, 4} /\ Hsub(r, 0) = 1
    BY RowIs DEF Hsub
  <2> DEFINE v == Align(r.width, Info(r).align_w)
  <2>3. v \in Nat
    <3>1. Info(r).align_w \in Nat \ {0}
      BY <2>2
    <3> QED
      BY <2>1, <3>1, AlignIs, Zenon
  <2>4. PixelAlign(r, 0)[1] = 1
    BY <1>1 DEF PixelAlign, Uncompressed
  <2>5. WidthAlign(r, 0) = 1
    BY <1>0, <1>1, <2>4, AlignOf
  <2>6. w = Align(v \div 1, WidthAlign(r, 0))
    BY <2>1, <2>2, Zenon DEF get_pixel_w, WidthAlign
  <2> HIDE DEF v, w
  <2>7. v \div 1 = v /\ v % 1 = 0 /\ 1 \in Nat \ {0}
    BY <2>3
  <2>8. w = v
    BY <2>3, <2>5, <2>6, <2>7, AlignIs, Zenon
  <2> QED
    BY <2>3, <2>8 DEF v
<1>3. raw \in Nat /\ raw * 8 = w * b
  BY <1>0, RawExact, Zenon DEF Raw
<1>4. c \in {0, 1, 2, 4} /\ (c # 0 => c = b \div 8)
  BY <1>1 DEF cpu_align
<1>5. a \in {0, 1} \/ (a = c /\ c # 0)
  <2>1. hw_align(r) \in {0, 1}
    BY DEF hw_align, StrideChosen
  <2>2. CASE hw_align(r) = 0 \/ c = 0
    <3>1. a = Max({hw_align(r), c})
      BY <2>2, Zenon DEF stride_align, lcm
    <3>2. {hw_align(r), c} = {hw_align(r), c, c} /\ hw_align(r) \in Nat /\ c \in Nat
      BY <1>4, <2>1
    <3>3. a \in {hw_align(r), c}
      BY <3>1, <3>2, MaxIs
    <3> QED
      BY <2>1, <2>2, <3>3
  <2>3. CASE hw_align(r) = 1 /\ c # 0
    <3>1. 1 \in HwAlignments /\ c \in CpuAlignments
      BY <1>4, <2>3 DEF HwAlignments, CpuAlignments
    <3>2. a = lcm(1, c)
      BY <2>3, Zenon DEF stride_align
    <3>3. lcm(1, c) \in 1 .. 1 * c /\ lcm(1, c) % c = 0
      BY <3>1, LcmAssumption, Zenon
    <3> HIDE DEF a, c
    <3>4. a \in 1 .. 1 * c /\ a % c = 0
      BY <3>2, <3>3, Zenon
    <3> QED
      BY <1>4, <2>3, <3>4
  <2> QED
    BY <2>1, <2>2, <2>3
<1>6. AlignedStride(r, 0, raw) = IF a # 0 THEN Align(raw * 1, a) \div 1 ELSE raw
  BY <1>1, Zenon DEF AlignedStride
<1>7. LinearStride(r, 0, 0) = Align(AlignedStride(r, 0, raw), 1)
  <2>1. r.base # "YV12"
    BY DEF RkVideo
  <2>2. update_yv12_stride(r, 0, AlignedStride(r, 0, raw), 0) = AlignedStride(r, 0, raw)
    BY <2>1, Zenon DEF update_yv12_stride
  <2> QED
    BY <2>2, Zenon DEF LinearStride, FlaggedStride, Raw
<1>8. b \in Nat
  BY <1>1
<1> HIDE DEF b, w, raw, a, c
<1>9. a # 0 => raw % a = 0
  BY <1>1, <1>2, <1>3, <1>4, <1>5
<1>10. AlignedStride(r, 0, raw) = raw
  <2>1. CASE a # 0
    <3>1. raw * 1 = raw /\ raw \div 1 = raw /\ a \in Nat \ {0}
      BY <1>3, <1>4, <1>5, <2>1
    <3>2. Align(raw, a) = raw
      BY <1>3, <1>9, <2>1, <3>1, AlignIs, Zenon
    <3> QED
      BY <1>6, <2>1, <3>1, <3>2, Zenon
  <2>2. CASE a = 0
    BY <1>6, <2>2, Zenon
  <2> QED
    BY <2>1, <2>2
<1>11. LinearStride(r, 0, 0) = raw
  <2>1. raw % 1 = 0 /\ 1 \in Nat \ {0}
    BY <1>3
  <2> QED
    BY <1>3, <1>7, <1>10, <2>1, AlignIs, Zenon
<1> QED
  BY <1>2, <1>3, <1>11, Zenon DEF b, w

\* Planes of AFBC follow each other at multiples of the granule.
LEMMA AfbcOffsets ==
  ASSUME NEW r, Sound(r), Accepted(r), is_afbc(r), NEW p \in PlanesOf(r)
  PROVE  InfoOf(r, p).offset \in Nat /\ InfoOf(r, p).offset % Granule(r) = 0
<1> DEFINE g == Granule(r)
<1>0. g \in Nat \ {0} /\ 0 \in PlanesOf(r) /\ 0 \in Nat
  <2>1. g \in Nat \ {0}
    BY DEF Granule
  <2> QED
    BY <2>1, RowIs
<1>1. ~is_afrc(r)
  BY DEF is_afrc
<1>2. ASSUME NEW q \in PlanesOf(r) PROVE InfoOf(r, q).offset = SizeOf(r, q) /\ SizeOf(r, q) \in Nat
  BY <1>1, PlanesAre, Zenon DEF PlaneIs
<1>3. ASSUME NEW q \in PlanesOf(r), q + 1 \in PlanesOf(r), SizeOf(r, q) % g = 0
      PROVE  SizeOf(r, q + 1) % g = 0
  <2> DEFINE i == InfoOf(r, q)
             o == i.offset
             b == body_size(r, q, i)
             h == header_size(r, i)
  <2>1. /\ Shaped(r, q, i) /\ o = SizeOf(r, q) /\ o \in Nat
        /\ SizeOf(r, q + 1) = o + b + h
    BY <1>1, PlanesAre, Zenon DEF PlaneIs
  <2>2. Info(r).npln > 1 /\ q < 2
    BY <1>3, RowIs DEF PlanesOf
  <2>3. b = AfbcBody(r, q, i)
    BY Zenon DEF body_size
  <2>4. b \in Nat /\ b % g = 0
    BY <2>1, <2>2, <2>3, AfbcBodyIs, Zenon
  <2>5. h \in Nat /\ h % g = 0
    BY <2>1, HeaderIs, Zenon
  <2>6. o % g = 0
    BY <1>3, <2>1
  <2> HIDE DEF i, o, b, h, g
  <2>7. (o + b) % g = 0
    BY <1>0, <2>1, <2>4, <2>6, SumOfMultiples, Zenon
  <2>8. o + b \in Nat
    BY <2>1, <2>4
  <2>9. ((o + b) + h) % g = 0
    BY <1>0, <2>5, <2>7, <2>8, SumOfMultiples, Zenon
  <2> QED
    BY <2>1, <2>9, Zenon
<1>4. SizeOf(r, 0) % g = 0
  <2>1. SizeOf(r, 0) = 0
    BY DEF SizeOf
  <2>2. 0 % g = 0
    <3> HIDE DEF g
    <3> QED
      BY <1>0
  <2> QED
    BY <2>1, <2>2, Zenon
<1>5. 1 \in PlanesOf(r) => SizeOf(r, 1) % g = 0
  <2>1. 0 + 1 = 1
    OBVIOUS
  <2> QED
    BY <1>0, <1>3, <1>4, <2>1
<1>6. 2 \in PlanesOf(r) => SizeOf(r, 2) % g = 0
  <2>1. 1 + 1 = 2 /\ (2 \in PlanesOf(r) => 1 \in PlanesOf(r))
    BY RowIs DEF PlanesOf
  <2> QED
    BY <1>3, <1>5, <2>1
<1>7. p \in {0, 1, 2}
  BY RowIs DEF Planes
<1> HIDE DEF g
<1>8. SizeOf(r, p) % g = 0
  BY <1>4, <1>5, <1>6, <1>7
<1> QED
  BY <1>2, <1>8 DEF g

\* Every layer of an AFBC buffer begins where its headers may.
LEMMA AfbcAligned ==
  ASSUME NEW r, Sound(r), Accepted(r), is_afbc(r), NEW p \in PlanesOf(r),
         r.layers \in Nat \ {0}, NEW layer \in 0 .. r.layers - 1
  PROVE  (layer * (AllLayers(r) \div r.layers) + InfoOf(r, p).offset)
           % (IF is_tiled(r) THEN 4096 ELSE 128) = 0
<1> DEFINE g == IF is_tiled(r) THEN 4096 ELSE 128
           o == InfoOf(r, p).offset
           l == AllLayers(r) \div r.layers
<1>1. g \in Nat \ {0} /\ g = LayerAlign(r) /\ Granule(r) % g = 0 /\ Granule(r) \in Nat \ {0}
  BY DEF LayerAlign, Granule
<1>2. o \in Nat /\ o % Granule(r) = 0
  BY AfbcOffsets, Zenon
<1>3. layer = 0 \/ r.layers > 1
  OBVIOUS
<1>4. r.layers > 1 => l = Align(OneLayer(r), g) /\ OneLayer(r) \in Nat
  BY <1>1, LayersAre
<1>5. AllLayers(r) \in Nat
  BY LayersAre
<1>6. l \in Nat
  <2> DEFINE x == AllLayers(r)
  <2>1. x \in Nat
    BY <1>5
  <2> HIDE DEF x
  <2> QED
    BY <2>1 DEF x
<1> HIDE DEF g, o, l
<1>7. o % g = 0
  BY <1>1, <1>2, Transitive, Zenon
<1>8. layer * l \in Nat /\ (layer * l) % g = 0
  <2>1. CASE layer = 0
    <3>1. layer * l = 0 /\ 0 % g = 0
      BY <1>1, <1>6, <2>1
    <3> QED
      BY <3>1
  <2>2. CASE r.layers > 1
    <3>1. l % g = 0
      <4>1. l = Align(OneLayer(r), g) /\ OneLayer(r) \in Nat
        BY <1>4, <2>2
      <4> QED
        BY <1>1, <4>1, AlignIs, Zenon
    <3>2. layer \in Nat
      OBVIOUS
    <3>3. (layer * l) % g = 0
      BY <1>1, <1>6, <3>1, <3>2, MultipleTimes, Zenon
    <3> QED
      BY <1>6, <3>2, <3>3
  <2> QED
    BY <1>3, <2>1, <2>2
<1>9. (layer * l + o) % g = 0
  BY <1>1, <1>2, <1>7, <1>8, SumOfMultiples, Zenon
<1> QED
  BY <1>9 DEF g, o, l

-----------------------------------------------------------------------------
(* AFBC headers.                                                             *)

\* The dimensions of an AFBC plane for hardware are whole superblocks.
LEMMA Superblocks ==
  ASSUME NEW r, Sound(r), Accepted(r), is_afbc(r), ~has_cpu_usage(r), NEW p \in PlanesOf(r)
  PROVE  /\ get_pixel_w(r, p) % sb(r, p)[1] = 0 /\ get_pixel_h(r, p) % sb(r, p)[2] = 0
         /\ get_pixel_w(r, p) % 16 = 0
<1> DEFINE x == sb(r, p)[1]
           y == sb(r, p)[2]
           n == AfbcTile(r, p)
           e == IF is_padded(r) /\ "yuv" \notin Info(r).is THEN 4 * x ELSE 0
           f == IF "32x8" \in r.mods /\ ~is_tiled(r) THEN 16 ELSE 1
           c == n * x
           d == n * y
<1>1. x \in {16, 32, 64} /\ y \in {4, 8, 16} /\ n \in {1, 4, 8}
  BY SbIs DEF AfbcTile
<1>2. f = 16 => y \in {8, 16}
  <2>1. is_multi_plane(r) => is_tiled(r)
    BY DEF is_multi_plane, is_tiled
  <2> QED
    BY <2>1 DEF sb
<1>3. PixelAlign(r, p) = <<Max({e, c}), Max({d, f})>>
  BY Zenon DEF PixelAlign, AfbcAlign
<1>4. Info(r).tile_size \in {1, 2}
  BY RowIs
<1> DEFINE a == Max({e, c})
           b == Max({d, f})
           v == WidthAlign(r, p)
           u == HeightAlignOf(r, p)
<1>5. a \in {e, c} /\ c <= a /\ b \in {d, f} /\ d <= b /\ f <= b
  <2>1. {e, c} = {e, c, c} /\ {d, f} = {d, f, f}
    OBVIOUS
  <2>2. e \in Nat /\ c \in Nat /\ d \in Nat /\ f \in Nat
    BY <1>1
  <2> HIDE DEF e, c, d, f
  <2> QED
    BY <2>1, <2>2, MaxIs
<1>6. PixelAlign(r, p)[1] = a /\ PixelAlign(r, p)[2] = b
  BY <1>3
<1>7. v \in {1, a, Info(r).tile_size} /\ a <= v /\ u \in {1, b, Info(r).tile_size} /\ b <= u
  <2>1. a \in Nat /\ b \in Nat
    BY <1>1, <1>5
  <2>2. v = Max({1, a, Info(r).tile_size}) /\ u = Max({1, b, Info(r).tile_size})
    BY <1>6, Zenon DEF WidthAlign, HeightAlignOf
  <2> HIDE DEF a, b, v, u
  <2> QED
    BY <1>4, <2>1, <2>2, MaxIs
<1>8. get_pixel_w(r, p) % v = 0 /\ get_pixel_h(r, p) % u = 0
      /\ get_pixel_w(r, p) \in Nat /\ get_pixel_h(r, p) \in Nat
  BY DimensionsIs, Zenon
<1> HIDE DEF x, y, n, v, u, a, b
<1>9. v \in Nat \ {0} /\ v % x = 0 /\ v % 16 = 0
  BY <1>1, <1>4, <1>5, <1>7
<1>10. u \in Nat \ {0} /\ u % y = 0
  BY <1>1, <1>2, <1>4, <1>5, <1>7
<1>11. x \in Nat \ {0} /\ y \in Nat \ {0} /\ 16 \in Nat \ {0}
  BY <1>1
<1>12. get_pixel_w(r, p) % x = 0 /\ get_pixel_h(r, p) % y = 0 /\ get_pixel_w(r, p) % 16 = 0
  BY <1>8, <1>9, <1>10, <1>11, Transitive
<1> QED
  BY <1>12 DEF x, y

\* So their number is counted right, each has a header, and none is missing.
LEMMA HeadersAre ==
  ASSUME NEW r, Sound(r), Accepted(r), is_afbc(r), ~has_cpu_usage(r), NEW p \in PlanesOf(r),
         NEW i, Shaped(r, p, i)
  PROVE  LET w == i.alloc_width \div sb(r, p)[1]
             h == i.alloc_height \div sb(r, p)[2] IN
         /\ sb_num(i) = w * h
         /\ Cols(r, p) <= w * sb(r, p)[1] /\ Rows(r, p) <= h * sb(r, p)[2]
         /\ sb_num(i) * 16 <= body_offset(r, i)
<1> DEFINE x == sb(r, p)[1]
           y == sb(r, p)[2]
           a == i.alloc_width
           b == i.alloc_height
           w == a \div x
           h == b \div y
<1>1. /\ a \in Nat /\ b \in Nat /\ a % x = 0 /\ b % y = 0
      /\ Cols(r, p) <= a /\ Rows(r, p) <= b
  BY DimensionsIs, Superblocks DEF Shaped, Cols, Rows
<1>2. <<x, y>> \in {<<16, 16>>, <<32, 8>>, <<64, 4>>}
  BY SbIs
<1>3. x \in Nat \ {0} /\ y \in Nat \ {0} /\ x * y = 256
  BY <1>2
<1>4. sb_num(i) = (a * b) \div 256
  BY DEF sb_num
<1>5. sb_num(i) * 16 <= body_offset(r, i)
  BY HeaderIs, Zenon
<1> HIDE DEF x, y, a, b
<1>6. /\ w \in Nat /\ a = w * x + (a % x)
      /\ h \in Nat /\ b = h * y + (b % y)
  BY <1>1, <1>3, DivIs
<1> HIDE DEF w, h
<1>7. a = w * x /\ b = h * y
  BY <1>1, <1>3, <1>6
<1>8. a * b = (w * h) * (x * y) /\ w * h \in Nat
  BY <1>3, <1>6, <1>7
<1> DEFINE k == w * h
<1>9. a * b = k * 256 /\ k \in Nat
  BY <1>3, <1>8
<1> HIDE DEF k
<1>10. (k * 256) \div 256 = k
  BY <1>9
<1>11. sb_num(i) = k
  BY <1>4, <1>9, <1>10, Zenon
<1> QED
  BY <1>1, <1>5, <1>7, <1>11, Zenon DEF k, w, h, a, b, x, y

\* The stride of an AFBC plane for hardware is not zero.
LEMMA AfbcStride ==
  ASSUME NEW r, Sound(r), Accepted(r), is_afbc(r), ~has_cpu_usage(r), r.width # 0,
         NEW p \in PlanesOf(r)
  PROVE  InfoOf(r, p).byte_stride # 0
<1> DEFINE w == get_pixel_w(r, p)
           b == At(Info(r).bpp_afbc, p)
<1>1. w \in Nat /\ w % 16 = 0 /\ CeilDiv(r.width, Hsub(r, p)) <= w
  BY DimensionsIs, Superblocks
<1>2. CeilDiv(r.width, Hsub(r, p)) > 0
  <2>1. Hsub(r, p) \in {1, 2}
    BY RowIs
  <2> QED
    BY <2>1 DEF Sound, CeilDiv
<1>3. b \in Nat /\ b > 0
  <2>1. "afbc" \in Info(r).is
    BY Zenon DEF Accepted, validate_format
  <2>2. b > 0
    BY <2>1, AfbcAssumption, Zenon DEF Info, Sound, PlanesOf
  <2> QED
    BY <2>2, RowIs
<1>4. InfoOf(r, p).byte_stride = (w * b) \div 8
  <2>1. InfoOf(r, p).byte_stride = byte_stride(r, p, LumaOf(r, p))
    BY PlanesAre, Zenon DEF PlaneIs
  <2> QED
    BY <2>1, Zenon DEF byte_stride, is_afrc
<1>5. CeilDiv(r.width, Hsub(r, p)) \in Nat
  BY DimensionsIs
<1> DEFINE m == CeilDiv(r.width, Hsub(r, p))
<1>6. m \in Nat /\ m > 0 /\ m <= w
  BY <1>1, <1>2, <1>5
<1> HIDE DEF w, b, m
<1>7. w >= 16
  BY <1>1, <1>6
<1>8. w * b >= 16
  BY <1>1, <1>3, <1>7
<1> DEFINE z == w * b
<1>9. z >= 16 /\ z \in Nat
  BY <1>1, <1>3, <1>8
<1> HIDE DEF z
<1>10. z \div 8 # 0
  BY <1>9
<1> QED
  BY <1>4, <1>10 DEF z

-----------------------------------------------------------------------------
(* What calc_allocation_size and update_yv12_stride assert of strides.          *)

\* A row of AFBC superblocks is whole bytes.
LEMMA AfbcWhole ==
  ASSUME NEW r, Sound(r), Accepted(r), is_afbc(r), ~has_cpu_usage(r), NEW p \in PlanesOf(r)
  PROVE  (get_pixel_w(r, p) * At(Info(r).bpp_afbc, p)) % 8 = 0
<1> DEFINE w == get_pixel_w(r, p)
           b == At(Info(r).bpp_afbc, p)
<1>1. w \in Nat /\ w % 16 = 0 /\ b \in Nat
  BY DimensionsIs, Superblocks, RowIs
<1> HIDE DEF w, b
<1>2. w % 8 = 0 /\ 8 \in Nat \ {0}
  BY <1>1
<1>3. (b * w) % 8 = 0
  BY <1>1, <1>2, MultipleTimes, Zenon
<1>4. b * w = w * b
  BY <1>1
<1> QED
  BY <1>3, <1>4, Zenon DEF w, b

\* A row of AFRC paging tiles divides into rows of coding units, and those into
\* rows of pixels.
LEMMA AfrcWhole ==
  ASSUME NEW r, Sound(r), Accepted(r), is_afrc(r), NEW p \in PlanesOf(r)
  PROVE  AfrcTileRow(r, p) % (paging_tile(r)[2] * clump(r, p)[2]) = 0
<1> DEFINE w == get_pixel_w(r, p)
           k == (w \div clump(r, p)[1]) \div paging_tile(r)[1]
           c == coding_unit_bytes(r, p)
           d == paging_tile(r)[2] * clump(r, p)[2]
<1>1. w \in Nat /\ c \in Nat
  BY DimensionsIs, CodingIs
<1>2. paging_tile(r)[1] \in {8, 16} /\ clump(r, p)[1] \in {4, 8, 16} /\ d \in {16, 32, 64}
  BY ShapesAre
<1>3. k \in Nat
  <2> HIDE DEF w
  <2> QED
    BY <1>1, <1>2
<1>4. AfrcTileRow(r, p) = k * 64 * c
  BY Zenon DEF AfrcTileRow
<1> HIDE DEF k, c, d
<1>5. k * c \in Nat /\ k * 64 * c = (k * c) * 64
  BY <1>1, <1>3
<1>6. d \in Nat \ {0} /\ 64 % d = 0 /\ 64 \in Nat
  BY <1>2
<1>7. ((k * c) * 64) % d = 0
  BY <1>5, <1>6, MultipleTimes, Zenon
<1> QED
  BY <1>4, <1>5, <1>7, Zenon DEF d

\* A block-linear plane for hardware is whole blocks, one at least.
LEMMA BlockWhole ==
  ASSUME NEW r, Sound(r), is_block_linear(r), ~has_cpu_usage(r), NEW p \in PlanesOf(r)
  PROVE  /\ (get_pixel_w(r, p) * At(Info(r).bpp, p)) % 8 = 0
         /\ r.width # 0 => get_pixel_w(r, 0) >= 16
<1>1. ASSUME NEW q \in PlanesOf(r) PROVE get_pixel_w(r, q) \in Nat /\ get_pixel_w(r, q) % 16 = 0
  <2>1. PixelAlign(r, q)[1] = 16
    BY DEF PixelAlign, is_block_linear, is_afrc
  <2>2. WidthAlign(r, q) = 16
    BY <2>1, RowIs, AlignOf
  <2> QED
    BY <2>2, DimensionsIs
<1> DEFINE w == get_pixel_w(r, p)
           b == At(Info(r).bpp, p)
<1>2. w \in Nat /\ w % 16 = 0 /\ b \in Nat
  BY <1>1, RowIs
<1>3. (w * b) % 8 = 0
  <2> HIDE DEF w, b
  <2>1. w % 8 = 0 /\ 8 \in Nat \ {0}
    BY <1>2
  <2>2. (b * w) % 8 = 0
    BY <1>2, <2>1, MultipleTimes, Zenon
  <2>3. b * w = w * b
    BY <1>2
  <2> QED
    BY <2>2, <2>3, Zenon
<1>4. r.width # 0 => get_pixel_w(r, 0) >= 16
  <2>1. get_pixel_w(r, 0) \in Nat /\ get_pixel_w(r, 0) % 16 = 0 /\ r.width \in Nat
    BY <1>1, RowIs DEF Sound
  <2>2. CeilDiv(r.width, Hsub(r, 0)) <= get_pixel_w(r, 0)
    BY RowIs, DimensionsIs
  <2>3. CeilDiv(r.width, Hsub(r, 0)) = r.width
    BY <2>1 DEF CeilDiv, Hsub
  <2> DEFINE v == get_pixel_w(r, 0)
  <2>4. v \in Nat /\ v % 16 = 0 /\ r.width <= v /\ r.width \in Nat
    BY <2>1, <2>2, <2>3
  <2> HIDE DEF v
  <2>5. r.width # 0 => v >= 16
    BY <2>4
  <2> QED
    BY <2>5 DEF v
<1> QED
  BY <1>3, <1>4

\* A format that keeps the note of format_info.h has a CPU alignment of whole
\* pixels and whole bytes.
LEMMA NoteKept ==
  ASSUME NEW r, Sound(r), KeepsNote(r), "linear" \in Info(r).is,
         has_cpu_usage(r), r.base # "BGR_888"
  PROVE  /\ At(Info(r).bpp, 0) \in Nat \ {0} /\ cpu_align(r, 0) \in Nat \ {0}
         /\ cpu_align(r, 0) * 8 = Info(r).align_w_cpu * At(Info(r).bpp, 0)
<1> DEFINE b == At(Info(r).bpp, 0)
           n == Info(r).align_w_cpu
           c == cpu_align(r, 0)
<1>1. b \in 0 .. 64 /\ n \in {1, 4, 16} /\ 0 \in 0 .. Info(r).npln - 1
  BY RowIs DEF Planes
<1>2. b > 0
  BY TableAssumption DEF Sound, Info
<1>3. b % 8 = 0 \/ (b * n) % 8 = 0
  BY <1>1, Zenon DEF KeepsNote
<1>4. c = (b * n) \div 8
  BY Zenon DEF cpu_align
<1> HIDE DEF b, n, c
<1>5. b \in Nat \ {0} /\ c \in Nat \ {0} /\ c * 8 = n * b
  BY <1>1, <1>2, <1>3, <1>4
<1> QED
  BY <1>5 DEF b, n, c

\* A multiple of the CPU alignment is whole pixels.
LEMMA WholePixels ==
  ASSUME NEW s \in Nat, NEW c \in Nat \ {0}, NEW n \in Nat, NEW b \in Nat \ {0},
         c * 8 = n * b, s % c = 0
  PROVE  (s * 8) % b = 0
<1> DEFINE k == s \div c
<1>1. k \in Nat /\ s = (k * c) + (s % c)
  BY DivIs, Zenon
<1> HIDE DEF k
<1>2. s = k * c
  BY <1>1
<1>3. s * 8 = k * (c * 8)
  BY <1>1, <1>2
<1>4. s * 8 = (k * n) * b /\ k * n \in Nat
  BY <1>1, <1>3
<1>5. \A m \in Nat : (m * b) % b = 0
  OBVIOUS
<1>6. ((k * n) * b) % b = 0
  BY <1>4, <1>5
<1> QED
  BY <1>4, <1>6, Zenon

\* Of a format in tiles of two rows the stride is even.
LEMMA TiledStride ==
  ASSUME NEW r, Sound(r), "linear" \in Info(r).is, Info(r).tile_size = 2,
         has_cpu_usage(r), r.base # "BGR_888", StrideFlags(r) = {}, At(Info(r).bpp, 0) > 0
  PROVE  LinearStride(r, 0, 0) \in Nat /\ LinearStride(r, 0, 0) % 2 = 0 /\ At(Info(r).bpp, 0) = 16
<1> DEFINE w == get_pixel_w(r, 0)
           a == stride_align(r, 0)
           h == hw_align(r)
           raw == Raw(r, 0)
           s == AlignedStride(r, 0, raw)
           x == Align(raw * 2, a)
<1>0. 0 \in PlanesOf(r) /\ w \in Nat /\ 0 \in Planes
  BY RowIs, DimensionsIs DEF Planes
<1>1. At(Info(r).bpp, 0) = 16 /\ Info(r).align_w_cpu = 1
  <2>1. At(Info(r).bpp, 0) \in {0, 16} /\ Info(r).align_w_cpu = 1
    BY <1>0, VideoAssumption, Zenon DEF Info, Sound
  <2> QED
    BY <2>1
<1>2. cpu_align(r, 0) = 2
  BY <1>1 DEF cpu_align
<1>3. a \in Nat \ {0} /\ a % 2 = 0 /\ (h # 0 => a % h = 0) /\ h \in {0, 1, 64, 128}
  BY <1>0, <1>2, AlignmentsAre
<1>4. raw = 2 * w
  <2>1. raw = (w * 16) \div 8
    BY <1>1, Zenon DEF Raw
  <2> HIDE DEF w
  <2> QED
    BY <1>0, <2>1
<1>5. ~RkVideo(r)
  <2>1. RkVideo([base |-> r.base]) = RkVideo(r)
    BY DEF RkVideo
  <2>2. RkVideo([base |-> r.base]) => Info(r).tile_size = 1
    BY VideoAssumption, Zenon DEF Info, Sound
  <2> QED
    BY <2>1, <2>2
<1>6. h \in {0, 64, 128}
  BY <1>5 DEF hw_align, StrideChosen
<1>7. h = 0 => a = 2
  <2>1. h = 0 => a = Max({0, 2})
    BY <1>2, Zenon DEF stride_align, lcm
  <2>2. Max({0, 2, 2}) = 2 /\ {0, 2} = {0, 2, 2}
    BY MaxIs
  <2> QED
    BY <2>1, <2>2
<1>8. s = x \div 2
  BY <1>3, Zenon DEF AlignedStride
<1>9. LinearStride(r, 0, 0) = Align(s, 1)
  <2>1. r.base # "YV12"
    BY <1>1, NamedAssumption DEF Info, At
  <2>2. update_yv12_stride(r, 0, s, 0) = s
    BY <2>1, Zenon DEF update_yv12_stride
  <2>3. r.base # "NV30" /\ r.base # "NV12"
    BY <1>5 DEF RkVideo
  <2> QED
    BY <2>2, <2>3, Zenon DEF LinearStride, FlaggedStride, Raw
<1> HIDE DEF w, a, h, raw
<1>10. raw * 2 \in Nat /\ (raw * 2) % 2 = 0 /\ (raw * 2) % 4 = 0
  BY <1>0, <1>4
<1>11. x \in Nat /\ x % a = 0 /\ ((raw * 2) % a = 0 => x = raw * 2)
  BY <1>3, <1>10, AlignIs, Zenon
<1> HIDE DEF x
<1>12. x % 4 = 0
  <2>1. CASE h = 0
    BY <1>7, <1>10, <1>11, <2>1
  <2>2. CASE h # 0
    <3>1. h \in Nat \ {0} /\ a % h = 0 /\ h % 4 = 0 /\ 4 \in Nat \ {0} /\ a \in Nat
      BY <1>3, <1>6, <2>2
    <3>2. a % 4 = 0
      BY <3>1, Transitive, Zenon
    <3>3. a \in Nat \ {0} /\ x \in Nat /\ x % a = 0
      BY <1>3, <1>11
    <3> QED
      BY <3>1, <3>2, <3>3, Transitive, Zenon
  <2> QED
    BY <2>1, <2>2
<1>13. x \div 2 \in Nat /\ (x \div 2) % 2 = 0
  BY <1>11, <1>12
<1>14. s \in Nat /\ s % 2 = 0 /\ s % 1 = 0 /\ 1 \in Nat \ {0}
  BY <1>8, <1>13
<1> HIDE DEF s
<1>15. Align(s, 1) = s
  BY <1>14, AlignIs, Zenon
<1> QED
  BY <1>1, <1>9, <1>14, <1>15

\* calc_allocation_size: the pixel stride of a buffer for the CPU is exact.
LEMMA PixelStrideExact ==
  ASSUME NEW r, Sound(r), Accepted(r), Uncompressed(r), OneStrideFlag(r), FlagsForVideo(r),
         KeepsNote(r), r.base # "BGR_888", has_cpu_usage(r)
  PROVE  (LinearStride(r, 0, 0) * 8) % At(Info(r).bpp, 0) = 0
<1> DEFINE b == At(Info(r).bpp, 0)
           c == cpu_align(r, 0)
           n == Info(r).align_w_cpu
           s == LinearStride(r, 0, 0)
<1>0. "linear" \in Info(r).is /\ 0 \in PlanesOf(r) /\ 0 \in Nat
  BY RowIs, Zenon DEF Accepted, validate_format
<1>1. /\ b \in Nat \ {0} /\ c \in Nat \ {0} /\ c * 8 = n * b /\ n \in Nat
  BY <1>0, NoteKept, RowIs
<1>2. s \in Nat
  <2>1. InfoOf(r, 0).byte_stride = byte_stride(r, 0, LumaOf(r, 0)) /\ InfoOf(r, 0).byte_stride \in Nat
    BY <1>0, PlanesAre, Zenon DEF PlaneIs, Shaped
  <2>2. byte_stride(r, 0, LumaOf(r, 0)) = s
    BY Zenon DEF byte_stride, Uncompressed, LumaOf
  <2> QED
    BY <2>1, <2>2, Zenon
<1>3. RkVideo(r) => n = 1 /\ b \in {8, 16, 32} /\ r.base # "NV30"
  <2>1. RkVideo([base |-> r.base]) = RkVideo(r)
    BY DEF RkVideo
  <2>2. RkVideo([base |-> r.base]) => n = 1 /\ b \in {8, 10, 16, 32}
    BY <1>0, VideoAssumption, Zenon DEF Info, Sound
  <2>3. r.base = "NV30" => b = 10
    BY VideoAssumption, Zenon DEF Info, Sound
  <2> HIDE DEF b, n, c
  <2>4. RkVideo(r) => b # 10
    BY <1>1, <2>1, <2>2
  <2>5. RkVideo(r) => n = 1 /\ b \in {8, 16, 32}
    BY <2>1, <2>2, <2>4
  <2> QED
    BY <2>3, <2>4, <2>5
<1>4. CASE StrideFlags(r) # {}
  <2>1. RkVideo(r) /\ Flagged(StrideFlags(r), s) /\ OneFlag(StrideFlags(r))
    BY <1>4, FlagObeyed, FlagsAre DEF FlagsForVideo
  <2> HIDE DEF s, b
  <2>2. s % 16 = 0
    BY <1>2, <2>1 DEF Flagged, OneFlag
  <2>3. (s * 8) % b = 0
    BY <1>2, <1>3, <2>1, <2>2
  <2> QED
    BY <2>3 DEF s, b
<1>5. CASE StrideFlags(r) = {} /\ StrideChosen(r)
  <2>1. RkVideo(r) /\ "SPECIFY_STRIDE" \in r.usage
    BY <1>5 DEF StrideChosen
  <2>2. WholeBytes(r)
    BY DEF WholeBytes
  <2> DEFINE v == Align(r.width, Info(r).align_w)
  <2>3. s * 8 = v * b
    BY <1>0, <1>3, <1>5, <2>1, <2>2, WidthObeyed, Zenon
  <2>4. v \in Nat
    <3>1. Info(r).align_w \in Nat \ {0} /\ r.width \in Nat
      BY RowIs DEF Sound
    <3> QED
      BY <3>1, AlignIs, Zenon
  <2> HIDE DEF s, b, v
  <2>5. \A m \in Nat : (m * b) % b = 0
    BY <1>1
  <2>6. (s * 8) % b = 0
    BY <2>3, <2>4, <2>5
  <2> QED
    BY <2>6 DEF s, b
<1>6. CASE StrideFlags(r) = {} /\ ~StrideChosen(r) /\ Info(r).tile_size = 1
  <2>1. (s * 1) % c = 0
    BY <1>0, <1>1, <1>6, LinearAligned
  <2>2. s % c = 0
    <3> HIDE DEF s, c
    <3> QED
      BY <1>2, <2>1
  <2> QED
    BY <1>1, <1>2, <2>2, WholePixels, Zenon
<1>7. CASE StrideFlags(r) = {} /\ ~StrideChosen(r) /\ Info(r).tile_size = 2
  <2>1. s \in Nat /\ s % 2 = 0 /\ b = 16
    BY <1>0, <1>1, <1>7, TiledStride
  <2> HIDE DEF s, b
  <2>2. (s * 8) % b = 0
    BY <2>1
  <2> QED
    BY <2>2 DEF s, b
<1>8. Info(r).tile_size \in {1, 2}
  BY RowIs
<1> QED
  BY <1>4, <1>5, <1>6, <1>7, <1>8

\* Rounding a half is halving what was rounded, and rounding again.
LEMMA HalfRounded ==
  ASSUME NEW m \in Nat
  PROVE  Align(m, 16) = Align(Align(2 * m, 16) \div 2, 16)
<1> DEFINE x == Align(2 * m, 16)
           y == Align(m, 16)
           k == (m + 15) \div 16
           l == (2 * m + 15) \div 16
<1>1. k \in Nat /\ 16 * k <= m + 15 /\ m + 15 < 16 * k + 16 /\ y = k * 16
  BY DEF Align
<1>2. l \in Nat /\ 16 * l <= 2 * m + 15 /\ 2 * m + 15 < 16 * l + 16 /\ x = l * 16
  BY DEF Align
<1> HIDE DEF x, y, k, l
<1>3. x \div 2 = l * 8
  BY <1>2
<1>4. (l * 8 + 15) \div 16 = k
  BY <1>1, <1>2
<1>5. Align(l * 8, 16) = k * 16
  BY <1>1, <1>2, <1>4 DEF Align
<1> QED
  BY <1>1, <1>3, <1>5 DEF x, y

\* The strides of YV12 for the CPU.
LEMMA Yv12Strides ==
  ASSUME NEW r, Sound(r), r.base = "YV12", Uncompressed(r), has_cpu_usage(r),
         StrideFlags(r) = {}, "linear" \in Info(r).is, NEW p \in PlanesOf(r), p > 0
  PROVE  /\ LinearStride(r, p, Luma(r)) = Align(Luma(r) \div 2, 16)
         /\ has_hw_usage(r) => /\ LinearStride(r, p, Luma(r)) % stride_align(r, p) = 0
                               /\ LinearStride(r, p, Luma(r)) % 16 = 0
<1>0. 0 \in PlanesOf(r) /\ 0 \in Planes /\ p \in Planes /\ 0 \in Nat
  BY RowIs DEF Planes
<1>1. /\ \A q \in Planes : At(Info(r).bpp, q) = 8
      /\ Info(r).align_w_cpu = 16 /\ Info(r).hsub = 2 /\ Info(r).align_w = 2
  BY NamedAssumption DEF Info, At, Planes
<1>2. Info(r).tile_size = 1
  <2>1. Info(r).tile_size = 2 => Info(r).align_w_cpu = 1
    BY VideoAssumption, Zenon DEF Info, Sound
  <2> QED
    BY <1>1, <2>1, RowIs
<1>3. \A q \in PlanesOf(r) : cpu_align(r, q) = 16
  <2>1. \A q \in PlanesOf(r) : cpu_align(r, q) = (8 * 16) \div 8
    BY <1>1, RowIs, Zenon DEF cpu_align
  <2> QED
    BY <2>1
<1>4. r.base # "NV12" /\ r.base # "NV30"
  OBVIOUS
<1>5. CASE has_hw_usage(r)
  <2> DEFINE l == Luma(r)
             a == stride_align(r, 0)
             s == l \div 2
  <2>1. l \in Nat /\ a \in Nat \ {0} /\ l % (2 * a) = 0 /\ stride_align(r, p) = a
    BY <1>5, Yv12Aligned
  <2>2. a % 16 = 0
    BY <1>0, <1>3, AlignmentsAre
  <2>3. update_yv12_stride(r, p, AlignedStride(r, p, Raw(r, p)), l) = s
    <3>1. p # 0
      BY <1>0
    <3> QED
      BY <1>5, <3>1, Zenon DEF update_yv12_stride
  <2>4. LinearStride(r, p, l) = Align(s, 1)
    BY <1>4, <2>3, Zenon DEF LinearStride, FlaggedStride, Raw
  <2> HIDE DEF l, a
  <2>5. s % a = 0 /\ s \in Nat
    BY <2>1, HalfOf
  <2> HIDE DEF s
  <2>6. 16 \in Nat \ {0} /\ 1 \in Nat \ {0} /\ s % 1 = 0
    BY <2>5
  <2>7. s % 16 = 0
    <3>1. s \in Nat /\ a \in Nat \ {0} /\ 16 \in Nat \ {0} /\ s % a = 0 /\ a % 16 = 0
      BY <2>1, <2>2, <2>5
    <3> QED
      BY <3>1, Transitive, Zenon
  <2>8. Align(s, 16) = s /\ Align(s, 1) = s
    BY <2>5, <2>6, <2>7, AlignIs, Zenon
  <2> QED
    BY <2>1, <2>4, <2>5, <2>7, <2>8, Zenon DEF l, s
<1>6. CASE ~has_hw_usage(r)
  <2>1. hw_align(r) = 0
    BY <1>6 DEF hw_align
  <2>2. \A q \in PlanesOf(r) : stride_align(r, q) = 16
    <3>1. \A q \in PlanesOf(r) : stride_align(r, q) = Max({0, 16})
      BY <1>3, <2>1, Zenon DEF stride_align, lcm
    <3>2. Max({0, 16, 16}) = 16 /\ {0, 16} = {0, 16, 16}
      BY MaxIs
    <3> QED
      BY <3>1, <3>2
  <2> DEFINE v == Align(AdjustedWidth(r), 2)
  <2>3. v \in Nat /\ v % 2 = 0
    <3>1. AdjustedWidth(r) \in Nat /\ 2 \in Nat \ {0}
      BY AdjustedIs
    <3> QED
      BY <3>1, AlignIs, Zenon
  <2>4. ASSUME NEW q \in PlanesOf(r)
        PROVE  /\ get_pixel_w(r, q) = Align(v \div Hsub(r, q), 16)
               /\ get_pixel_w(r, q) \in Nat /\ get_pixel_w(r, q) % 16 = 0
    <3>1. PixelAlign(r, q)[1] = 16
      BY <1>1 DEF PixelAlign
    <3>2. WidthAlign(r, q) = 16
      BY <1>2, <3>1, AlignOf
    <3>3. get_pixel_w(r, q) = Align(v \div Hsub(r, q), WidthAlign(r, q))
      BY <1>1, Zenon DEF get_pixel_w, WidthAlign
    <3>4. get_pixel_w(r, q) \in Nat /\ get_pixel_w(r, q) % WidthAlign(r, q) = 0
      BY DimensionsIs, Zenon
    <3> QED
      BY <3>2, <3>3, <3>4, Zenon
  <2>5. ASSUME NEW q \in PlanesOf(r), NEW luma
        PROVE  LinearStride(r, q, luma) = get_pixel_w(r, q)
    <3> DEFINE w == get_pixel_w(r, q)
    <3>1. w \in Nat /\ w % 16 = 0
      BY <2>4
    <3>2. q \in Planes
      BY RowIs
    <3>3. Raw(r, q) = (w * 8) \div 8
      BY <1>1, <3>2, Zenon DEF Raw
    <3>4. stride_align(r, q) = 16
      BY <2>2
    <3>5. AlignedStride(r, q, Raw(r, q)) = Align(Raw(r, q) * 1, 16) \div 1
      <4>1. 16 # 0
        OBVIOUS
      <4> QED
        BY <1>2, <3>4, <4>1, Zenon DEF AlignedStride
    <3>6. LinearStride(r, q, luma) = Align(AlignedStride(r, q, Raw(r, q)), 1)
      <4>1. update_yv12_stride(r, q, AlignedStride(r, q, Raw(r, q)), luma) = AlignedStride(r, q, Raw(r, q))
        BY <1>6, Zenon DEF update_yv12_stride
      <4> QED
        BY <1>4, <4>1, Zenon DEF LinearStride, FlaggedStride, Raw
    <3> HIDE DEF w
    <3>7. (w * 8) \div 8 = w /\ w * 1 = w /\ w \div 1 = w /\ w % 1 = 0
          /\ 16 \in Nat \ {0} /\ 1 \in Nat \ {0}
      BY <3>1
    <3>8. Align(w, 16) = w /\ Align(w, 1) = w
      BY <3>1, <3>7, AlignIs, Zenon
    <3>9. Raw(r, q) = w
      BY <3>3, <3>7, Zenon
    <3>10. AlignedStride(r, q, w) = w
      BY <3>5, <3>7, <3>8, <3>9, Zenon
    <3> QED
      BY <3>6, <3>8, <3>9, <3>10, Zenon DEF w
  <2> DEFINE m == v \div 2
  <2>6. m \in Nat /\ v = 2 * m /\ v \div 1 = v
    <3> HIDE DEF v
    <3> QED
      BY <2>3
  <2>7. Hsub(r, 0) = 1 /\ Hsub(r, p) = 2
    BY <1>1 DEF Hsub
  <2>8. Luma(r) = Align(2 * m, 16)
    <3>1. Luma(r) = Align(v \div 1, 16)
      BY <1>0, <2>4, <2>5, <2>7, Zenon DEF Luma
    <3> HIDE DEF m, v
    <3> QED
      BY <2>6, <3>1, Zenon
  <2>9. LinearStride(r, p, Luma(r)) = Align(m, 16)
    BY <2>4, <2>5, <2>7, Zenon
  <2> HIDE DEF m
  <2>10. Align(m, 16) = Align(Align(2 * m, 16) \div 2, 16)
    BY <2>6, HalfRounded, Zenon
  <2> QED
    BY <1>6, <2>8, <2>9, <2>10, Zenon
<1> QED
  BY <1>5, <1>6

-----------------------------------------------------------------------------
(* The invariant.                                                           *)

\* A descriptor is empty before a call, and a query leaves it so.
Untouched ==
  /\ plane_info = [p \in Planes |-> plane_info[p]]
  /\ \A p \in Planes : "offset" \in DOMAIN plane_info[p]
  /\ pc = "idle" => /\ plane_info = Fresh /\ size = 0 /\ pixel_stride = 0
                    /\ headers = {} /\ first = <<>>
  /\ phase = "query" => headers = {} /\ first = <<>>
  /\ pc \in {"derive", "end"} /\ plane = 0 => plane_info = Fresh

\* Where the loop is.
Places ==
  /\ pc \in {"idle", "derive", "plane", "layers", "allocated", "end"}
  /\ pc \in {"derive", "plane", "layers", "allocated"} \/ plane # 0 => req.base \in DOMAIN formats
  /\ pc \in {"derive", "end"} /\ plane # 0 => plane = Info(req).npln
  /\ pc = "plane" => plane \in 0 .. Info(req).npln
  /\ pc \in {"layers", "allocated"} => plane = Info(req).npln

\* In the loop the planes before the current one are as the closed form says,
\* and those the format has not were never touched.
Loop ==
  pc = "plane" =>
    /\ Accepted(req)
    /\ size = SizeOf(req, plane)
    /\ \A p \in Planes : /\ p < plane => plane_info[p] = InfoOf(req, p)
                         /\ p >= Info(req).npln => plane_info[p] = Fresh[p]
    /\ IF plane = 0 THEN plane_info[0].offset = 0 ELSE pixel_stride = Pixels(req)

\* After it so is the whole descriptor, and it stays so for the next buffer.
Finished == pc \in {"layers", "allocated"} \/ (pc \in {"derive", "end"} /\ plane # 0)
Closed ==
  Finished => /\ Accepted(req)
              /\ plane_info = AllInfo(req) /\ pixel_stride = Pixels(req)
              /\ size = IF pc = "layers" THEN OneLayer(req) ELSE AllLayers(req)

\* The history holds the closed form, too; headers are written to memory that
\* the CPU may map.
Kept ==
  /\ first # <<>> => first = Result(req)
  /\ headers # {} => "PROTECTED" \notin req.usage

DerivationInv == Untouched /\ Places /\ Loop /\ Closed /\ Kept

\* The descriptor is untouched at first.
LEMMA DerivationInit == QueryInit => DerivationInv
<1>1. Fresh = [p \in Planes |-> Fresh[p]] /\ \A p \in Planes : "offset" \in DOMAIN Fresh[p]
  BY DEF Fresh
<1> QED
  BY <1>1 DEF QueryInit, ArmInit, Init, DerivationInv, Untouched, Places, Loop, Closed, Finished, Kept

\* A request arrives: from the selection or directly.
LEMMA ArriveStep ==
  ASSUME DerivationInv, SelectionInv, pc = "idle",
         UNCHANGED <<plane, plane_info, size, pixel_stride, headers, first>>,
         pc' = "end" \/ (pc' = "derive" /\ req'.base \in DOMAIN formats)
  PROVE  DerivationInv'
<1>1. /\ plane' = 0 /\ plane_info' = Fresh /\ headers' = {} /\ first' = <<>>
      /\ plane_info' = [p \in Planes |-> plane_info'[p]]
      /\ \A p \in Planes : "offset" \in DOMAIN plane_info'[p]
  BY Zenon DEF DerivationInv, Untouched, SelectionInv, Quiescent
<1> QED
  BY <1>1 DEF DerivationInv, Untouched, Places, Loop, Closed, Finished, Kept

\* The call ends, and the descriptor with it.
LEMMA EndStep ==
  ASSUME pc' = "idle", plane' = 0, plane_info' = Fresh, size' = 0, pixel_stride' = 0,
         headers' = {}, first' = <<>>
  PROVE  DerivationInv'
<1>1. Fresh = [p \in Planes |-> Fresh[p]] /\ \A p \in Planes : "offset" \in DOMAIN Fresh[p]
  BY DEF Fresh
<1> QED
  BY <1>1 DEF DerivationInv, Untouched, Places, Loop, Closed, Finished, Kept

\* Nothing of the descriptor changes.
LEMMA StayStep ==
  ASSUME DerivationInv, UNCHANGED vars, phase' = "query" => phase = "query"
  PROVE  DerivationInv'
  BY DEF vars, DerivationInv, Untouched, Places, Loop, Closed, Finished, Kept

\* calc_allocation_size begins.
LEMMA BeginStep ==
  ASSUME DerivationInv, Derive, phase' = phase
  PROVE  DerivationInv'
<1> USE DEF DerivationInv
<1>1. /\ pc = "derive" /\ Accepted(req) /\ pc' = "plane" /\ plane' = 0
      /\ plane_info' = [plane_info EXCEPT ![0].offset = 0] /\ size' = 0
      /\ req' = req /\ headers' = headers /\ first' = first /\ pixel_stride' = pixel_stride
  BY DEF Derive, Accepted
<1>2. req.base \in DOMAIN formats
  BY <1>1 DEF Places
<1>3. formats[req.base].npln \in 1 .. 3
  BY <1>2, FormatsAssumption
<1>4. \A p \in Planes : p >= Info(req).npln => plane_info[p] = Fresh[p]
  <2>1. CASE plane = 0
    BY <2>1, <1>1 DEF Untouched
  <2>2. CASE plane # 0
    BY <2>2, <1>1, <1>3 DEF Closed, Finished, AllInfo, Info, Planes
  <2> QED
    BY <2>1, <2>2
<1>5. /\ plane_info' = [p \in Planes |-> plane_info'[p]]
      /\ \A p \in Planes : "offset" \in DOMAIN plane_info'[p]
      /\ plane_info'[0].offset = 0
      /\ \A p \in Planes : p # 0 => plane_info'[p] = plane_info[p]
  <2>1. /\ plane_info = [p \in Planes |-> plane_info[p]] /\ 0 \in Planes
        /\ \A p \in Planes : "offset" \in DOMAIN plane_info[p]
    BY DEF Untouched, Planes
  <2> QED
    BY <2>1, <1>1
<1>6. Loop'
  BY <1>1, <1>3, <1>4, <1>5 DEF Loop, SizeOf, Planes, Info, Accepted
<1>7. Untouched'
  BY <1>1, <1>5 DEF Untouched
<1>8. Places'
  BY <1>1, <1>2, <1>3 DEF Places, Info
<1>9. Closed' /\ Kept'
  BY <1>1 DEF Closed, Finished, Kept
<1> QED
  BY <1>6, <1>7, <1>8, <1>9

\* One iteration computes the plane of the closed form.
LEMMA PlaneStep ==
  ASSUME DerivationInv, CalcPlane, phase' = phase
  PROVE  DerivationInv'
<1> USE DEF DerivationInv
<1> DEFINE start == PlaneStart(req, plane, size)
           info  == PlaneInfo(start)
<1>1. /\ pc = "plane" /\ pc' = "plane" /\ plane < Info(req).npln /\ plane' = plane + 1
      /\ plane_info' = [plane_info EXCEPT ![plane] = info]
      /\ size' = start + body_size(req, plane, info) + header_size(req, info)
      /\ pixel_stride' = IF plane > 0 THEN pixel_stride
                         ELSE IF Uncompressed(req) /\ has_cpu_usage(req)
                         THEN PixelStride(req, info) ELSE 0
      /\ req' = req /\ headers' = headers /\ first' = first
  BY Zenon DEF CalcPlane, AddPlane
<1>2. req.base \in DOMAIN formats /\ plane \in 0 .. Info(req).npln
  BY <1>1 DEF Places
<1>3. Info(req).npln \in 1 .. 3
  BY <1>2, FormatsAssumption DEF Info
<1>4. plane \in Planes /\ plane \in {0, 1, 2}
  BY <1>1, <1>2, <1>3 DEF Planes
<1>5. info = InfoOf(req, plane) /\ size' = SizeOf(req, plane + 1)
  <2>1. info = [offset       |-> IF plane > 0 THEN start ELSE plane_info[0].offset,
                byte_stride  |-> byte_stride(req, plane, plane_info[0].byte_stride),
                alloc_width  |-> get_pixel_w(req, plane),
                alloc_height |-> get_pixel_h(req, plane)]
    BY DEF PlaneInfo
  <2>2. size = SizeOf(req, plane)
    BY <1>1 DEF Loop
  <2> HIDE DEF info
  <2>3. CASE plane = 0
    <3>1. size = 0 /\ plane_info[0].offset = 0
      BY <2>2, <2>3, <1>1 DEF Loop, SizeOf
    <3>2. info = Info0(req)
      BY <2>1, <2>3, <3>1, LumaFresh DEF Info0, InfoAt
    <3>3. size' = Size1(req)
      BY <1>1, <2>3, <3>1, <3>2, Zenon DEF Size1, SizeAt
    <3> QED
      BY <2>3, <3>2, <3>3 DEF InfoOf, SizeOf
  <2>4. CASE plane \in {1, 2}
    <3>1. plane_info[0] = Info0(req)
      BY <2>4, <1>1 DEF Loop, InfoOf, Planes
    <3>2. CASE plane = 1
      <4>1. info = Info1(req) /\ size = Size1(req)
        BY <2>1, <2>2, <3>1, <3>2 DEF Info1, InfoAt, SizeOf
      <4>2. size' = Size2(req)
        BY <1>1, <3>2, <4>1, Zenon DEF Size2, SizeAt
      <4> QED
        BY <3>2, <4>1, <4>2 DEF InfoOf, SizeOf
    <3>3. CASE plane = 2
      <4>1. info = Info2(req) /\ size = Size2(req)
        BY <2>1, <2>2, <3>1, <3>3 DEF Info2, InfoAt, SizeOf
      <4>2. size' = Size3(req)
        BY <1>1, <3>3, <4>1, Zenon DEF Size3, SizeAt
      <4> QED
        BY <3>3, <4>1, <4>2 DEF InfoOf, SizeOf
    <3> QED
      BY <2>4, <3>2, <3>3
  <2> QED
    BY <2>3, <2>4, <1>4
<1>6. "offset" \in DOMAIN info
  BY DEF PlaneInfo
<1> HIDE DEF info, start
<1>7. /\ plane_info = [p \in Planes |-> plane_info[p]]
      /\ \A p \in Planes : "offset" \in DOMAIN plane_info[p]
  BY DEF Untouched
<1>8. /\ plane_info' = [p \in Planes |-> plane_info'[p]]
      /\ \A p \in Planes : plane_info'[p] = IF p = plane THEN info ELSE plane_info[p]
  BY <1>1, <1>4, <1>7
<1>9. \A p \in Planes : "offset" \in DOMAIN plane_info'[p]
  BY <1>6, <1>7, <1>8
<1>10. pixel_stride' = Pixels(req)
  <2>1. CASE plane = 0
    BY <2>1, <1>1, <1>5 DEF Pixels, InfoOf
  <2>2. CASE plane # 0
    BY <2>2, <1>1, <1>4 DEF Loop
  <2> QED
    BY <2>1, <2>2
<1>11. \A p \in Planes : /\ p < plane + 1 => plane_info'[p] = InfoOf(req, p)
                         /\ p >= Info(req).npln => plane_info'[p] = Fresh[p]
  <2> SUFFICES ASSUME NEW p \in Planes
               PROVE  /\ p < plane + 1 => plane_info'[p] = InfoOf(req, p)
                      /\ p >= Info(req).npln => plane_info'[p] = Fresh[p]
    OBVIOUS
  <2>1. CASE p = plane
    BY <2>1, <1>1, <1>3, <1>4, <1>5, <1>8
  <2>2. CASE p # plane
    <3>1. p < plane + 1 => p < plane
      BY <2>2, <1>4 DEF Planes
    <3> QED
      BY <2>2, <3>1, <1>1, <1>8 DEF Loop
  <2> QED
    BY <2>1, <2>2
<1>12. Loop'
  <2>1. plane' # 0 /\ Accepted(req)'
    BY <1>1, <1>4 DEF Loop, Accepted
  <2>2. Info(req)' = Info(req) /\ Pixels(req)' = Pixels(req)
    BY <1>1
  <2>3. \A p \in Planes : InfoOf(req, p)' = InfoOf(req, p)
    BY <1>1
  <2>4. SizeOf(req, plane)' = SizeOf(req, plane + 1)
    BY <1>1
  <2> QED
    BY <2>1, <2>2, <2>3, <2>4, <1>1, <1>5, <1>10, <1>11 DEF Loop
<1>13. Untouched'
  BY <1>1, <1>8, <1>9 DEF Untouched
<1>14. Places'
  BY <1>1, <1>2, <1>3, <1>4 DEF Places, Info
<1>15. Closed' /\ Kept'
  BY <1>1 DEF Closed, Finished, Kept
<1> QED
  BY <1>12, <1>13, <1>14, <1>15

\* The loop ends with all planes of the format.
LEMMA VideoStep ==
  ASSUME DerivationInv, adjust_rk_video_buffer_size, phase' = phase
  PROVE  DerivationInv'
<1> USE DEF DerivationInv
<1>1. /\ pc = "plane" /\ pc' = "layers" /\ plane = Info(req).npln
      /\ size' = IF StrideChosen(req)
                 THEN Max({size, size_needed_by_rk_video(req, plane_info[0])}) ELSE size
      /\ req' = req /\ plane' = plane /\ plane_info' = plane_info
      /\ pixel_stride' = pixel_stride /\ headers' = headers /\ first' = first
  BY DEF adjust_rk_video_buffer_size
<1>2. req.base \in DOMAIN formats
  BY <1>1 DEF Places
<1>3. Info(req).npln \in 1 .. 3
  BY <1>2, FormatsAssumption DEF Info
<1>4. /\ Accepted(req) /\ size = SizeOf(req, Info(req).npln) /\ pixel_stride = Pixels(req)
      /\ \A p \in Planes : /\ p < plane => plane_info[p] = InfoOf(req, p)
                           /\ p >= Info(req).npln => plane_info[p] = Fresh[p]
  BY <1>1, <1>3 DEF Loop
<1>5. \A p \in Planes : plane_info[p] = IF p < Info(req).npln THEN InfoOf(req, p) ELSE Fresh[p]
  BY <1>1, <1>3, <1>4 DEF Planes
<1>6. plane_info = AllInfo(req)
  BY <1>5 DEF Untouched, AllInfo
<1>7. plane_info[0] = Info0(req)
  BY <1>3, <1>5 DEF Planes, InfoOf
<1>8. size' = OneLayer(req)
  BY <1>1, <1>4, <1>7, Zenon DEF OneLayer
<1>9. Closed'
  <2>1. /\ Accepted(req)' = Accepted(req) /\ AllInfo(req)' = AllInfo(req)
        /\ Pixels(req)' = Pixels(req) /\ OneLayer(req)' = OneLayer(req)
    BY <1>1
  <2> QED
    BY <2>1, <1>1, <1>4, <1>6, <1>8 DEF Closed
<1>10. Untouched' /\ Places' /\ Loop' /\ Kept'
  BY <1>1, <1>2, <1>3 DEF Untouched, Places, Loop, Kept
<1> QED
  BY <1>9, <1>10

\* The steps after the loop keep the descriptor.
LEMMA LaterStep ==
  ASSUME DerivationInv, Refuse \/ Layers \/ init_afbc \/ NoHeaders \/ Again,
         phase' = phase, phase = "query" => Refuse \/ Layers
  PROVE  DerivationInv'
<1> USE DEF DerivationInv
<1>1. req' = req /\ plane' = plane /\ plane_info' = plane_info /\ pixel_stride' = pixel_stride
  BY DEF Refuse, Layers, init_afbc, NoHeaders, Again
<1>2. /\ Accepted(req)' = Accepted(req) /\ AllInfo(req)' = AllInfo(req) /\ Result(req)' = Result(req)
      /\ Pixels(req)' = Pixels(req) /\ AllLayers(req)' = AllLayers(req) /\ Info(req)' = Info(req)
  BY <1>1
<1>3. Finished => Info(req).npln # 0
  BY FormatsAssumption DEF Places, Finished, Info
<1>4. CASE Refuse
  BY <1>4, <1>1, <1>2 DEF Refuse, Untouched, Places, Loop, Closed, Finished, Kept
<1>5. CASE Layers
  BY <1>5, <1>1, <1>2, <1>3 DEF Layers, Untouched, Places, Loop, Closed, Finished, Kept, AllLayers
<1>6. CASE phase # "query" /\ init_afbc
  BY <1>6, <1>1, <1>2, <1>3 DEF init_afbc, Untouched, Places, Loop, Closed, Finished, Kept
<1>7. CASE phase # "query" /\ NoHeaders
  BY <1>7, <1>1, <1>2, <1>3 DEF NoHeaders, Untouched, Places, Loop, Closed, Finished, Kept
<1>8. CASE phase # "query" /\ Again
  <2>1. pc = "end" /\ plane > 0 /\ pc' = "derive" /\ first' = result /\ headers' = {} /\ size' = size
    BY <1>8 DEF Again
  <2>2. plane # 0 /\ Finished
    BY <2>1 DEF Finished
  <2>3. first' = Result(req)
    BY <2>1, <2>2 DEF Closed, result, Result
  <2> QED
    BY <1>8, <2>1, <2>2, <2>3, <1>1, <1>2 DEF Untouched, Places, Loop, Closed, Finished, Kept
<1> QED
  BY <1>4, <1>5, <1>6, <1>7, <1>8

\* Every step of a derivation, of a query and of an allocation keeps the
\* invariant.
LEMMA DerivationStep ==
  SelectionInv /\ DerivationInv /\ [QueryNext]_allVars => DerivationInv'
<1> SUFFICES ASSUME SelectionInv, DerivationInv, [QueryNext]_allVars PROVE DerivationInv'
  OBVIOUS
<1>1. ASSUME NEW a, pc = "idle", Select(a) PROVE DerivationInv'
  <2>1. ASSUME NEW f \in mali_gralloc_select_format(a), req' = Request(a, f)
        PROVE  req'.base \in DOMAIN formats
    BY <2>1, SelectedBase, RequestIs
  <2>2. pc' = "end" \/ (pc' = "derive" /\ req'.base \in DOMAIN formats)
    BY <1>1, <2>1 DEF Select, GoOn
  <2> QED
    BY <1>1, <2>2, ArriveStep DEF Select
<1>2. ASSUME NEW d \in Asks, pc = "idle", getFromBufferDescriptorInfo(d) PROVE DerivationInv'
  BY <1>1, <1>2 DEF getFromBufferDescriptorInfo
<1>3. CASE allocate
  BY <1>1, <1>3 DEF allocate, SelectionInv, Quiescent
<1>4. CASE Foretell
  BY <1>4, EndStep DEF Foretell, DerivationInv, Untouched
<1>5. CASE createDescriptor
  <2>1. UNCHANGED vars /\ (phase' = "query" => phase = "query")
    BY <1>5 DEF createDescriptor, armVars
  <2> QED
    BY <2>1, StayStep
<1>6. CASE phase = "idle" /\ Call /\ UNCHANGED <<asked, queryVars>>
  <2>1. req'.base \in DOMAIN formats
    BY <1>6, RequestsAssumption DEF Call
  <2> QED
    BY <1>6, <2>1, ArriveStep DEF Call
<1>7. CASE (Deriving \/ Making) /\ UNCHANGED <<asked, queryVars>>
  <2>1. phase' = phase
    BY <1>7 DEF queryVars
  <2> QED
    BY <1>7, <2>1, BeginStep, PlaneStep, VideoStep, LaterStep DEF Deriving, Making
<1>8. CASE Reply
  BY <1>8, EndStep DEF Reply, Return
<1>9. CASE UNCHANGED allVars
  BY <1>9, StayStep DEF allVars, armVars, queryVars
<1> QED
  BY <1>2, <1>3, <1>4, <1>5, <1>6, <1>7, <1>8, <1>9 DEF QueryNext

\* At every step of calc_allocation_size the descriptor holds the closed form of
\* the planes computed so far, and afterwards the closed form of the request,
\* with the first derivation on a descriptor as with the second.
THEOREM DerivationInvariance == QuerySpec => [](SelectionInv /\ DerivationInv)
<1>1. QueryInit => DerivationInv
  BY DerivationInit
<1>2. SelectionInv /\ DerivationInv /\ [QueryNext]_allVars => DerivationInv'
  BY DerivationStep
<1> QED
  BY <1>1, <1>2, SelectionInvariance, PTL DEF QuerySpec

\* All buffers made from one descriptor are alike, although each derivation finds
\* what the one before left in it.
THEOREM BuffersAlike == QuerySpec => []SameAgain
<1>1. DerivationInv => SameAgain
  <2> SUFFICES ASSUME DerivationInv, pc = "end", plane > 0, first # <<>> PROVE result = first
    BY DEF SameAgain, Derived
  <2>1. plane # 0
    OBVIOUS
  <2>2. plane_info = AllInfo(req) /\ size = AllLayers(req) /\ pixel_stride = Pixels(req)
    BY <2>1 DEF DerivationInv, Closed, Finished
  <2> QED
    BY <2>2 DEF DerivationInv, Kept, result, Result
<1> QED
  BY <1>1, DerivationInvariance, PTL
=============================================================================
