------------------------- MODULE SharedMetadataProofs -------------------------
(***************************************************************************)
(* Proofs about SharedMetadata, for any number of clients, any capacity and *)
(* any values: the type invariant, that a get nobody disturbs answers what  *)
(* the last undisturbed set stored, and that a get of a one-word field      *)
(* answers a value of its own time under every race.                        *)
(***************************************************************************)
EXTENDS SharedMetadata, SequenceTheorems, TLAPS

\* A set in progress works on an argument set_metadata let through, and has
\* left only words of that argument to write.  Every client has its locals.
Calls ==
  /\ DOMAIN val = Clients /\ DOMAIN got = Clients /\ DOMAIN may = Clients
  /\ \A c \in Clients : pc[c] = "set" =>
       /\ val[c] \in Values(type) /\ Accepts(type, val[c])
       /\ todo[c] \subseteq Writes(type, val[c])

\* A get that no set overlaps has read the words that are there.
QuietReads ==
  \A c \in Clients : pc[c] = "get" /\ alone[c] =>
    /\ ~Setting
    /\ \A j \in (0..Words(type)) \ todo[c] : got[c][j] = words[j]

\* A set that no set overlaps finds what it has written.
QuietWrites ==
  \A c \in Clients : pc[c] = "set" /\ alone[c] =>
    /\ \A x \in Clients : pc[x] = "set" => x = c
    /\ \A j \in Writes(type, val[c]) \ todo[c] : words[j] = WordOf(type, val[c], j)

\* Between sets, the field holds what the last undisturbed one stored.
FieldHolds == ~Setting /\ stored # Mixed => Agrees(Decode(type, words), stored)

QuietInv == TypeOK /\ Calls /\ QuietReads /\ QuietWrites /\ FieldHolds

\* The value of a one-word field whose payload is the word x.
OneItem(x) == Item(type, <<x>>)

\* The tag of a one-word field, once written, stays.
TagStays ==
  type \in OneWord =>
    \A c \in Clients : pc[c] = "set" /\ 0 \notin todo[c] => words[0] = 1

\* The payload is the value a get would answer, or comes from a set that has not
\* returned.
PayloadKnown ==
  type \in OneWord =>
    \/ OneItem(words[1]) \in {Decode(type, words)} \cup died
    \/ \E x \in Clients : pc[x] = "set" /\ Kept(type, val[x]) = OneItem(words[1])

\* A get may answer whatever it has read and whatever it may still read.
MayCovers ==
  type \in OneWord => \A c \in Clients : pc[c] = "get" =>
    /\ words[0] = 0 => Default(type) \in may[c]
    /\ 0 \notin todo[c] /\ got[c][0] = 0 => Default(type) \in may[c]
    /\ OneItem(words[1]) \in may[c]
    /\ 1 \notin todo[c] => OneItem(got[c][1]) \in may[c]
    /\ \A x \in Clients : pc[x] = "set" => Kept(type, val[x]) \in may[c]

RegularInv == TypeOK /\ Calls /\ TagStays /\ PayloadKnown /\ MayCovers

-----------------------------------------------------------------------------
\* What a value looks like once the decoders and the accessors have let it
\* through, for each kind of field.
LEMMA AcceptedShape ==
  ASSUME NEW ty \in Types, NEW v \in Values(ty), Accepts(ty, v)
  PROVE  \/ ty \in {"DATASPACE", "BLEND_MODE"} /\ v # NoValue /\ \E x \in Nat : v = <<x>>
         \/ ty = "CHROMA_SITING" /\ v # NoValue /\ \E n, x : x \in Nat /\ v = <<n, x>>
         \/ ty = "CROP" /\ v # NoValue /\ v \in Nat \X Nat
         \/ ty \in Hdr /\ (v = NoValue \/ v \in Nat \X Nat)
         \/ /\ ty \in Vectors \ {"NAME"}
            /\ v = NoValue \/ (v \in Seq(Nat) /\ Len(v) \in 1..Capacity)
<1>1. CASE ty \in {"DATASPACE", "BLEND_MODE"}
  <2>1. PICK x \in Scalars : v = <<x>>
    BY <1>1 DEF Values, Hdr
  <2>2. x \in Nat /\ <<x>> \in Seq(Int)
    BY ValuesAssumption
  <2>3. QED
    BY <1>1, <2>1, <2>2, NoValueAssumption
<1>2. CASE ty = "CHROMA_SITING"
  <2>1. v \in {"standard", "arm", "other"} \X Scalars
    BY <1>2 DEF Values, Hdr
  <2>2. v[1] \in {"standard", "arm"}
    BY <1>2 DEF Accepts, Hdr
  <2>3. v = <<v[1], v[2]>> /\ v[2] \in Scalars
    BY ONLY <2>1
  <2>4. v[2] \in Nat
    BY <2>3, ValuesAssumption
  <2>5. v \in {"standard", "arm"} \X Nat
    BY <2>2, <2>3, <2>4
  <2>6. QED
    BY <1>2, <2>3, <2>4, <2>5, NoValueAssumption
<1>3. CASE ty = "CROP"
  <2>1. v \in (-1..alloc_width + 1) \X (-1..alloc_width + 1) /\ ValidCrop(v)
    BY <1>3 DEF Values, Accepts, Hdr
  <2>2. v \in Nat \X Nat
    BY <2>1, SizesAssumption DEF ValidCrop
  <2>3. v = <<v[1], v[2]>> /\ v[1] \in Int /\ v[2] \in Int
    BY <2>2
  <2>4. <<v[1], v[2]>> \in Seq(Int)
    BY <2>3
  <2>5. QED
    BY <1>3, <2>2, <2>3, <2>4, NoValueAssumption
<1>4. CASE ty \in Hdr
  BY <1>4, ValuesAssumption DEF Values, Hdr
<1>5. CASE ty \in Vectors
  <2>1. ty # "NAME"
    BY <1>5 DEF Accepts, Vectors, Hdr
  <2>2. v \in (UNION {[1..n -> Bytes] : n \in 0..Capacity + 1}) \cup {NoValue}
    BY <1>5 DEF Values, Vectors, Hdr
  <2>3. CASE v # NoValue
    <3> v \in UNION {[1..n -> Bytes] : n \in 0..Capacity + 1}
      BY <2>2, <2>3
    <3>1. PICK n \in 0..Capacity + 1 : v \in [1..n -> Bytes]
      OBVIOUS
    <3>2. v \in Seq(Nat)
      <4>1. n \in Nat
        BY SizesAssumption
      <4>2. v \in [1..n -> Nat]
        BY <3>1, ValuesAssumption
      <4>3. QED
        BY <4>1, <4>2, SeqDef
    <3>3. Len(v) \in 1..Capacity
      <4>1. ty \in {"SMPTE2094_40", "SMPTE2094_10"}
        BY <1>5, <2>1 DEF Vectors
      <4>2. QED
        BY <2>3, <4>1 DEF Accepts, Hdr
    <3>4. QED
      BY <1>5, <2>1, <3>2, <3>3
  <2>4. QED
    BY <1>5, <2>1, <2>3
<1>6. QED
  BY <1>1, <1>2, <1>3, <1>4, <1>5, TypesAssumption DEF OneWord

\* A set writes words of its field only, and no tag the accessors cannot read.
LEMMA WordTypes ==
  ASSUME NEW ty \in Types, NEW v \in Values(ty), Accepts(ty, v), NEW j \in Writes(ty, v)
  PROVE  /\ j \in 0..Words(ty)
         /\ WordOf(ty, v, j) \in Nat
         /\ j = 0 => WordOf(ty, v, j) \in 0..(IF ty \in Vectors THEN Capacity ELSE 1)
<1> USE DEF Words, Writes, WordOf, Tag, Encode, OneWord, Vectors, Hdr
<1>1. CASE v = NoValue
  BY <1>1, SizesAssumption
<1>2. CASE v # NoValue /\ ty \in {"DATASPACE", "BLEND_MODE"}
  BY <1>2, AcceptedShape
<1>3. CASE v # NoValue /\ ty = "CHROMA_SITING"
  BY <1>3, AcceptedShape
<1>4. CASE v # NoValue /\ ty \in Hdr \cup {"CROP"}
  BY <1>4, AcceptedShape
<1>5. CASE v # NoValue /\ ty \in Vectors
  <2>1. v \in Seq(Nat) /\ Len(v) \in 1..Capacity
    BY <1>5, AcceptedShape
  <2>2. j \in 0..Len(v) /\ Words(ty) = Capacity
    BY <1>5
  <2>3. CASE j = 0
    BY <1>5, <2>1, <2>3, SizesAssumption
  <2>4. CASE j # 0
    <3>1. WordOf(ty, v, j) = v[j]
      BY <1>5, <2>4
    <3>2. QED
      BY <2>1, <2>2, <2>4, <3>1, SizesAssumption
  <2>5. QED
    BY <2>3, <2>4
<1>6. QED
  BY <1>1, <1>2, <1>3, <1>4, <1>5, TypesAssumption

\* The first elements of a sequence that agrees with v are v.
LEMMA PrefixIs ==
  ASSUME NEW s \in Seq(Nat), NEW v \in Seq(Nat), Len(v) <= Len(s),
         \A j \in 1..Len(v) : s[j] = v[j]
  PROVE  SubSeq(s, 1, Len(v)) = v
<1>1. Len(v) \in Nat /\ Len(s) \in Nat
  OBVIOUS
<1>2. SubSeq(s, 1, Len(v)) \in Seq(Nat) /\ Len(SubSeq(s, 1, Len(v))) = Len(v)
  BY <1>1
<1>3. \A j \in 1..Len(v) : SubSeq(s, 1, Len(v))[j] = v[j]
  BY <1>1
<1>4. QED
  BY <1>2, <1>3, SeqEqual

\* Nothing but the name of a chroma siting is lost.
LEMMA KeptIs ==
  ASSUME NEW ty, NEW v
  PROVE  /\ ty # "CHROMA_SITING" => Kept(ty, v) = v
         /\ \A n, x : ty = "CHROMA_SITING" /\ v = <<n, x>> => Kept(ty, v) = <<ChromaName(x), x>>
BY DEF Kept, Encode, Item

\* An undisturbed set repairs the field: when every word it writes is there, a
\* get answers what is kept of its argument, with the rest of the array behind a
\* vector.
LEMMA Restored ==
  ASSUME type \in Types, NEW v \in Values(type), Accepts(type, v),
         NEW w \in [0..Words(type) -> Nat],
         \A j \in Writes(type, v) : w[j] = WordOf(type, v, j)
  PROVE  Agrees(Decode(type, w), Kept(type, v))
<1>0. type # "CHROMA_SITING" => Kept(type, v) = v
  BY KeptIs
<1> USE DEF Words, Writes, WordOf, Tag, Encode, OneWord, Vectors, Hdr
<1>1. CASE v = NoValue
  <2>1. type \in {"SMPTE2086", "CTA861_3", "SMPTE2094_40", "SMPTE2094_10"}
    BY <1>1, AcceptedShape
  <2>2. w[0] = 0
    BY <1>1
  <2>3. QED
    BY <1>0, <1>1, <2>1, <2>2 DEF Default, Decode, Agrees
<1>2. CASE v # NoValue /\ type \in {"DATASPACE", "BLEND_MODE"}
  <2>1. PICK x \in Nat : v = <<x>>
    BY <1>2, AcceptedShape
  <2>2. w[0] = 1 /\ w[1] = x
    BY <1>2, <2>1
  <2>3. Payload(w, 1) = <<x>>
    BY <2>2 DEF Payload
  <2>4. QED
    BY <1>0, <1>2, <2>1, <2>2, <2>3 DEF Item, Decode, Agrees
<1>3. CASE v # NoValue /\ type = "CHROMA_SITING"
  <2>1. PICK n, x : x \in Nat /\ v = <<n, x>>
    BY <1>3, AcceptedShape
  <2>2. w[0] = 1 /\ w[1] = x
    BY <1>3, <2>1
  <2>3. Payload(w, 1)[1] = x
    BY <2>2 DEF Payload
  <2>4. Kept(type, v) = <<ChromaName(x), x>>
    BY <1>3, <2>1, KeptIs
  <2>5. QED
    BY <1>3, <2>2, <2>3, <2>4 DEF Item, Decode, Agrees
<1>4. CASE v # NoValue /\ type \in Hdr \cup {"CROP"}
  <2>1. v \in Nat \X Nat
    BY <1>4, AcceptedShape
  <2>2. w[0] = 1 /\ w[1] = v[1] /\ w[2] = v[2]
    BY <1>4, <2>1
  <2>3. Payload(w, 2) = <<v[1], v[2]>>
    BY <2>2 DEF Payload
  <2>4. Payload(w, 2) = v
    BY <2>1, <2>3
  <2>5. QED
    BY <1>0, <1>4, <2>2, <2>4 DEF Item, Decode, Agrees
<1>5. CASE v # NoValue /\ type \in Vectors
  <2>1. v \in Seq(Nat) /\ Len(v) \in 1..Capacity /\ type # "NAME"
    BY <1>5, AcceptedShape
  <2>2. w[0] = Len(v) /\ \A j \in 1..Len(v) : w[j] = v[j]
    <3>1. Writes(type, v) = 0..Len(v)
      BY <1>5
    <3>2. w[0] = Len(v)
      BY <1>5, <2>1, <3>1
    <3>3. ASSUME NEW j \in 1..Len(v) PROVE w[j] = v[j]
      <4> j \in 0..Len(v) /\ j # 0
        BY <2>1
      <4>1. j \in Writes(type, v) /\ j # 0
        BY <3>1, Zenon
      <4>2. type # "CHROMA_SITING"
        BY <1>5
      <4>3. WordOf(type, v, j) = v[j]
        BY <4>1, <4>2, Zenon DEF WordOf, Encode
      <4>4. QED
        BY <4>1, <4>3
    <3>4. QED
      BY <3>2, <3>3
  <2>3. Decode(type, w) = Payload(w, Capacity)
    BY <1>5, <2>1, <2>2 DEF Item, Decode
  <2>4. /\ Payload(w, Capacity) \in Seq(Nat)
        /\ Len(Payload(w, Capacity)) = Capacity
        /\ \A j \in 1..Capacity : Payload(w, Capacity)[j] = w[j]
    <3>1. Capacity \in Nat /\ \A j \in 1..Capacity : w[j] \in Nat
      <4>1. Words(type) = Capacity
        BY <1>5
      <4>2. QED
        BY <4>1, SizesAssumption
    <3>2. Payload(w, Capacity) \in [1..Capacity -> Nat]
      BY <3>1 DEF Payload
    <3>3. Payload(w, Capacity) \in Seq(Nat)
      BY <3>1, <3>2, SeqDef
    <3>4. QED
      BY <3>1, <3>2, <3>3, LenProperties DEF Payload
  <2>5. SubSeq(Payload(w, Capacity), 1, Len(v)) = v
    <3>1. Len(v) <= Len(Payload(w, Capacity))
      BY <2>1, <2>4, SizesAssumption
    <3>2. ASSUME NEW j \in 1..Len(v) PROVE Payload(w, Capacity)[j] = v[j]
      <4>1. j \in 1..Capacity
        BY <2>1, SizesAssumption
      <4>2. QED
        BY <2>2, <2>4, <4>1, Zenon
    <3>3. QED
      BY <2>1, <2>4, <3>1, <3>2, PrefixIs
  <2>6. Payload(w, Capacity) # NoValue
    <3>1. Payload(w, Capacity) \in Seq(Int)
      BY <2>4, SeqMonotonic
    <3>2. QED
      BY <3>1, NoValueAssumption
  <2>7. Len(v) <= Len(Payload(w, Capacity))
    BY <2>1, <2>4, SizesAssumption
  <2>8. QED
    <3>1. Kept(type, v) = v
      BY <1>0, <1>5
    <3>2. QED
      BY <1>5, <2>3, <2>5, <2>6, <2>7, <3>1, Zenon DEF Agrees
<1>6. QED
  BY <1>1, <1>2, <1>3, <1>4, <1>5, TypesAssumption

-----------------------------------------------------------------------------
\* A new buffer's field has the words of its type.
LEMMA TypeInit == Init => TypeOK /\ Calls
<1> SUFFICES ASSUME Init PROVE TypeOK /\ Calls
  OBVIOUS
<1>1. PICK tag \in InitialTags(type) : words \in InitialWords(type, tag)
  BY DEF Init
<1>2. tag \in 0..(IF type \in Vectors THEN Capacity ELSE 1)
  BY SizesAssumption, TypesAssumption DEF Init, InitialTags, OneWord, Vectors, Hdr
<1>3. tag \in Nat /\ Words(type) \in Nat \ {0}
  BY <1>2, SizesAssumption DEF Words
<1> DEFINE Payloads == CASE type = "NAME"                           -> Bytes
                         [] type \in {"DATASPACE", "CHROMA_SITING"} -> Scalars
                         [] OTHER                                   -> {0}
<1>4. PICK p \in [1..Words(type) -> Payloads] :
        words = [j \in 0..Words(type) |->
                   IF j = 0 THEN tag ELSE IF type = "NAME" /\ j > tag THEN 0 ELSE p[j]]
  BY <1>1 DEF InitialWords
<1>5. Payloads \subseteq Nat
  BY ValuesAssumption
<1> HIDE DEF Payloads
<1>6. words \in [0..Words(type) -> Nat] /\ words[0] = tag
  <2>1. ASSUME NEW j \in 0..Words(type) PROVE words[j] \in Nat
    <3>1. CASE j = 0
      BY <1>3, <1>4, <3>1
    <3>2. CASE j # 0
      <4>1. j \in 1..Words(type)
        BY <1>3, <3>2
      <4>2. p[j] \in Nat
        BY <1>5, <4>1
      <4>3. QED
        BY <1>4, <3>2, <4>2
    <3>3. QED
      BY <3>1, <3>2
  <2>2. words = [j \in 0..Words(type) |-> words[j]]
    BY <1>4
  <2>3. words[0] = tag
    BY <1>3, <1>4
  <2>4. QED
    BY <2>1, <2>2, <2>3
<1>7. QED
  BY <1>2, <1>6 DEF Init, TypeOK, Calls

\* A set of a CROP without a rectangle is refused, works on some rectangle, or
\* changes nothing.
LEMMA NoCropIs ==
  ASSUME NEW c \in Clients, SetNoCrop(c)
  PROVE  \/ UNCHANGED vars
         \/ \E v \in Values(type) \cup {Malformed} : SetRefused(c, v) \/ SetBegin(c, v)
BY DEF SetNoCrop

\* A call in progress keeps its argument.
LEMMA CallsKept ==
  ASSUME Calls, type' = type, is_yuv' = is_yuv, NEW c \in Clients, pc[c] = "set",
         val'[c] = val[c], todo'[c] \subseteq todo[c]
  PROVE  /\ val'[c] \in Values(type') /\ Accepts(type, val[c])'
         /\ todo'[c] \subseteq Writes(type', val'[c])
BY DEF Calls, Accepts

\* Every step keeps the types: SetWord writes what the accepted argument has.
LEMMA TypeStep == TypeOK /\ Calls /\ [Next]_vars => TypeOK' /\ Calls'
<1> SUFFICES ASSUME TypeOK, Calls, [Next]_vars PROVE TypeOK' /\ Calls'
  OBVIOUS
<1>1. CASE UNCHANGED vars
  BY <1>1 DEF vars, history, TypeOK, Calls, Accepts
<1>2. ASSUME NEW c \in Clients, Step(c) PROVE TypeOK' /\ Calls'
  <2>1. CASE \E v \in Values(type) \cup {Malformed} :
                SetRefused(c, v) \/ SetIgnored(c, v) \/ SetBegin(c, v)
    <3>1. PICK v \in Values(type) \cup {Malformed} :
                 SetRefused(c, v) \/ SetIgnored(c, v) \/ SetBegin(c, v)
      BY <2>1
    <3>2. CASE SetRefused(c, v)
      BY <3>2 DEF SetRefused, vars, history, TypeOK, Calls, Accepts
    <3>3. CASE SetIgnored(c, v)
      BY <3>3 DEF SetIgnored, TypeOK, Calls, Accepts
    <3>4. CASE SetBegin(c, v)
      <4>1. v \in Values(type) /\ Accepts(type, v)
        BY <3>4 DEF SetBegin, Accepts
      <4>2. Writes(type, v) \subseteq 0..Words(type)
        BY <4>1, WordTypes DEF TypeOK
      <4>3. /\ type' = type /\ is_yuv' = is_yuv
            /\ \A x \in Clients : x # c => pc'[x] = pc[x] /\ val'[x] = val[x] /\ todo'[x] = todo[x]
            /\ val'[c] = v /\ todo'[c] = Writes(type, v)
            /\ DOMAIN val' = Clients /\ DOMAIN got' = Clients /\ DOMAIN may' = Clients
        BY <3>4 DEF SetBegin, TypeOK, Calls
      <4>4. TypeOK'
        BY <3>4, <4>2 DEF SetBegin, TypeOK
      <4>5. Accepts(type, v)'
        BY <4>1, <4>3 DEF Accepts
      <4>6. QED
        BY <4>1, <4>3, <4>4, <4>5, CallsKept DEF Calls
    <3>5. QED
      BY <3>1, <3>2, <3>3, <3>4
  <2>2. CASE SetWord(c)
        <3>1. PICK j \in todo[c] : /\ words' = [words EXCEPT ![j] = WordOf(type, val[c], j)]
                              /\ todo' = [todo EXCEPT ![c] = @ \ {j}]
      BY <2>2 DEF SetWord
    <3>2. /\ type' = type /\ is_yuv' = is_yuv /\ pc' = pc /\ val' = val /\ got' = got
          /\ alone' = alone /\ may' = may /\ pc[c] = "set"
      BY <2>2 DEF SetWord, history
    <3>3. /\ j \in 0..Words(type) /\ WordOf(type, val[c], j) \in Nat
          /\ j = 0 => WordOf(type, val[c], j) \in 0..(IF type \in Vectors THEN Capacity ELSE 1)
      BY <3>2, WordTypes DEF Calls, TypeOK
    <3>4. words' \in [0..Words(type) -> Nat]
      BY <3>1, <3>3 DEF TypeOK
    <3>5. words'[0] \in 0..(IF type \in Vectors THEN Capacity ELSE 1)
      <4>1. 0 \in 0..Words(type)
        BY SizesAssumption DEF Words
      <4>2. QED
        BY <3>1, <3>3, <4>1 DEF TypeOK
    <3>6. TypeOK'
      BY <3>1, <3>2, <3>4, <3>5 DEF TypeOK
    <3>7. \A x \in Clients : todo'[x] \subseteq todo[x]
      BY <3>1 DEF TypeOK
    <3>8. QED
      BY <3>2, <3>6, <3>7, CallsKept DEF Calls
  <2>3. CASE SetReturn(c) \/ GetReturn(c) \/ Die(c)
    <3>1. /\ Leave(c) /\ type' = type /\ is_yuv' = is_yuv /\ words' = words /\ alone' = alone
      BY <2>3 DEF SetReturn, GetReturn, Die
    <3>2. TypeOK'
      BY <3>1 DEF Leave, TypeOK, Calls
    <3>3. \A x \in Clients : pc'[x] = "set" =>
             pc[x] = "set" /\ val'[x] = val[x] /\ todo'[x] = todo[x]
      BY <3>1 DEF Leave, TypeOK, Calls
    <3>4. DOMAIN val' = Clients /\ DOMAIN got' = Clients /\ DOMAIN may' = Clients
      BY <3>1 DEF Leave, Calls
    <3>5. QED
      BY <3>1, <3>2, <3>3, <3>4, CallsKept DEF Calls
  <2>4. CASE GetBegin(c)
    <3>1. /\ type' = type /\ is_yuv' = is_yuv /\ words' = words /\ val' = val
          /\ DOMAIN got' = Clients /\ DOMAIN may' = Clients
          /\ pc[c] = "idle" /\ pc' = [pc EXCEPT ![c] = "get"]
          /\ todo' = [todo EXCEPT ![c] = 0..Words(type)]
      BY <2>4 DEF GetBegin, Calls
    <3>2. Words(type) \in Nat
      BY SizesAssumption DEF Words
    <3>3. TypeOK'
      BY <2>4, <3>1, <3>2 DEF GetBegin, TypeOK, Calls
    <3>4. \A x \in Clients : pc'[x] = "set" => pc[x] = "set" /\ todo'[x] = todo[x]
      BY <3>1 DEF TypeOK
    <3>5. QED
      BY <3>1, <3>3, <3>4, CallsKept DEF Calls
  <2>5. CASE GetWord(c)
    <3>1. PICK j \in todo[c] : /\ got' = [got EXCEPT ![c][j] = words[j]]
                              /\ todo' = [todo EXCEPT ![c] = @ \ {j}]
      BY <2>5 DEF GetWord
    <3>2. /\ type' = type /\ is_yuv' = is_yuv /\ words' = words /\ pc' = pc /\ val' = val
          /\ alone' = alone /\ may' = may /\ pc[c] = "get"
      BY <2>5 DEF GetWord, history
    <3>3. TypeOK'
      BY <3>1, <3>2 DEF TypeOK, Calls
    <3>4. \A x \in Clients : todo'[x] \subseteq todo[x]
      BY <3>1 DEF TypeOK
    <3>5. DOMAIN got' = Clients
      BY <3>1 DEF Calls
    <3>6. QED
      BY <3>2, <3>3, <3>4, <3>5, CallsKept DEF Calls
  <2>6. CASE SetNoCrop(c)
    BY <1>1, <2>1, <2>6, NoCropIs
  <2>7. QED
    BY <1>2, <2>1, <2>2, <2>3, <2>4, <2>5, <2>6 DEF Step
<1>3. QED
  BY <1>1, <1>2 DEF Next

\* The type invariant holds: no call of the accessors reads or writes outside
\* its field of the region, and no tag says more than the field can hold.
THEOREM TypeCorrect == Spec => []TypeOK
<1>1. Init => TypeOK /\ Calls
  BY TypeInit
<1>2. TypeOK /\ Calls /\ [Next]_vars => (TypeOK /\ Calls)'
  BY TypeStep
<1>3. QED
  BY <1>1, <1>2, PTL DEF Spec

-----------------------------------------------------------------------------
\* What the field holds depends on the field, the format and stored only.
LEMMA FieldKept ==
  ASSUME FieldHolds, type' = type, is_yuv' = is_yuv, words' = words, stored' = stored,
         Setting => Setting'
  PROVE  FieldHolds'
BY DEF FieldHolds, Agrees, Decode, Default

\* A quiet call stays quiet unless a set begins, which marks the calls it
\* overlaps; so a quiet set finds its words untouched and a quiet get reads the
\* words of one moment.
LEMMA QuietStep == QuietInv /\ [Next]_vars => QuietReads' /\ QuietWrites' /\ FieldHolds'
<1> SUFFICES ASSUME QuietInv, [Next]_vars PROVE QuietReads' /\ QuietWrites' /\ FieldHolds'
  OBVIOUS
<1>0. TypeOK /\ Calls /\ QuietReads /\ QuietWrites /\ FieldHolds
  BY DEF QuietInv
<1>1. CASE UNCHANGED vars
  <2>1. QuietReads' /\ QuietWrites'
    BY <1>0, <1>1 DEF vars, history, QuietReads, QuietWrites, Setting
  <2>2. QED
    BY <1>0, <1>1, <2>1, FieldKept DEF vars, history, Setting
<1>2. ASSUME NEW c \in Clients, NEW v \in Values(type) \cup {Malformed},
             SetRefused(c, v) \/ SetIgnored(c, v) \/ SetBegin(c, v)
      PROVE  QuietReads' /\ QuietWrites' /\ FieldHolds'
  <2>1. CASE SetRefused(c, v)
    BY <1>1, <2>1 DEF SetRefused
  <2>2. CASE SetIgnored(c, v)
    <3>1. QuietReads' /\ QuietWrites'
      BY <1>0, <2>2 DEF SetIgnored, QuietReads, QuietWrites, Setting
    <3>2. QED
      BY <1>0, <2>2, <3>1, FieldKept DEF SetIgnored, Setting
  <2>3. CASE SetBegin(c, v)
    <3>1. /\ pc'[c] = "set" /\ val'[c] = v /\ todo'[c] = Writes(type', v)
          /\ alone'[c] => ~Setting
          /\ \A x \in Clients : x # c => ~alone'[x] /\ pc'[x] = pc[x]
      BY <1>0, <2>3 DEF SetBegin, TypeOK, Calls
    <3>2. QuietReads'
      BY <3>1 DEF QuietReads
    <3>3. QuietWrites'
      BY <3>1 DEF QuietWrites, Setting
    <3>4. QED
      BY <3>1, <3>2, <3>3 DEF FieldHolds, Setting
  <2>4. QED
    BY <1>2, <2>1, <2>2, <2>3
<1>3. ASSUME NEW c \in Clients, SetWord(c) PROVE QuietReads' /\ QuietWrites' /\ FieldHolds'
  <2>1. PICK j \in todo[c] : /\ words' = [words EXCEPT ![j] = WordOf(type, val[c], j)]
                            /\ todo' = [todo EXCEPT ![c] = @ \ {j}]
    BY <1>3 DEF SetWord
  <2>2. /\ type' = type /\ is_yuv' = is_yuv /\ pc' = pc /\ val' = val /\ got' = got
        /\ alone' = alone /\ pc[c] = "set"
    BY <1>3 DEF SetWord, history
  <2>3. QuietReads'
    BY <1>0, <2>2 DEF QuietReads, Setting
  <2>4. QuietWrites'
    <3> SUFFICES ASSUME NEW x \in Clients, pc'[x] = "set", alone'[x]
                 PROVE  /\ \A y \in Clients : pc'[y] = "set" => y = x
                        /\ \A i \in Writes(type', val'[x]) \ todo'[x] :
                              words'[i] = WordOf(type', val'[x], i)
      BY DEF QuietWrites
    <3>1. x = c /\ \A y \in Clients : pc[y] = "set" => y = c
      BY <1>0, <2>2 DEF QuietWrites
    <3>2. ASSUME NEW i \in Writes(type, val[c]) \ todo'[c]
          PROVE  words'[i] = WordOf(type, val[c], i)
      <4>1. i \in 0..Words(type)
        BY <1>0, <2>2, WordTypes DEF Calls, TypeOK
      <4>2. CASE i = j
        BY <1>0, <2>1, <4>1, <4>2 DEF TypeOK
      <4>3. CASE i # j
        <5>1. i \notin todo[c]
          BY <1>0, <2>1, <4>3 DEF TypeOK
        <5>2. words'[i] = words[i]
          BY <1>0, <2>1, <4>1, <4>3 DEF TypeOK
        <5>3. QED
          BY <1>0, <2>2, <3>1, <5>1, <5>2 DEF QuietWrites
      <4>4. QED
        BY <4>2, <4>3
    <3>3. QED
      BY <2>2, <3>1, <3>2
  <2>5. QED
    BY <2>2, <2>3, <2>4 DEF FieldHolds, Setting
<1>4. ASSUME NEW c \in Clients, SetReturn(c) \/ (Die(c) /\ pc[c] = "set")
      PROVE  QuietReads' /\ QuietWrites' /\ FieldHolds'
  <2>1. /\ pc[c] = "set" /\ type' = type /\ is_yuv' = is_yuv /\ words' = words /\ alone' = alone
        /\ pc'[c] = "idle" /\ \A x \in Clients : x # c => pc'[x] = pc[x]
    BY <1>0, <1>4 DEF SetReturn, Die, Leave, TypeOK
  <2>2. QuietReads'
    BY <1>0, <2>1 DEF QuietReads, Setting
  <2>3. QuietWrites'
    BY <1>0, <2>1 DEF QuietWrites
  <2>4. FieldHolds'
    <3>1. CASE SetReturn(c) /\ alone[c]
      <4>1. stored' = Kept(type, val[c]) /\ todo[c] = {}
        BY <3>1 DEF SetReturn
      <4>2. \A j \in Writes(type, val[c]) : words[j] = WordOf(type, val[c], j)
        BY <1>0, <2>1, <3>1, <4>1 DEF QuietWrites
      <4>3. Agrees(Decode(type, words), Kept(type, val[c]))
        BY <1>0, <2>1, <4>2, Restored DEF TypeOK, Calls
      <4>4. Agrees(Decode(type, words), stored)'
        BY <2>1, <4>1, <4>3 DEF Agrees, Decode, Default
      <4>5. QED
        BY <4>4 DEF FieldHolds
    <3>2. CASE ~(SetReturn(c) /\ alone[c])
      <4>1. stored' = Mixed
        BY <1>4, <2>1, <3>2 DEF SetReturn, Die
      <4>2. QED
        BY <4>1 DEF FieldHolds
    <3>3. QED
      BY <3>1, <3>2
  <2>5. QED
    BY <2>2, <2>3, <2>4
<1>5. ASSUME NEW c \in Clients, GetBegin(c) PROVE QuietReads' /\ QuietWrites' /\ FieldHolds'
  <2>1. /\ type' = type /\ is_yuv' = is_yuv /\ words' = words /\ val' = val /\ stored' = stored
        /\ pc[c] = "idle" /\ pc'[c] = "get" /\ todo'[c] = 0..Words(type)
        /\ alone'[c] => ~Setting
        /\ \A x \in Clients : x # c => /\ pc'[x] = pc[x] /\ todo'[x] = todo[x]
                                      /\ got'[x] = got[x] /\ alone'[x] = alone[x]
    BY <1>0, <1>5 DEF GetBegin, TypeOK, Calls
  <2>2. Setting' <=> Setting
    BY <2>1 DEF Setting
  <2>3. QuietReads'
    <3> SUFFICES ASSUME NEW x \in Clients, pc'[x] = "get", alone'[x]
                 PROVE  /\ ~Setting'
                        /\ \A i \in (0..Words(type')) \ todo'[x] : got'[x][i] = words'[i]
      BY DEF QuietReads
    <3>1. CASE x = c
      BY <2>1, <2>2, <3>1
    <3>2. CASE x # c
      BY <1>0, <2>1, <2>2, <3>2 DEF QuietReads
    <3>3. QED
      BY <3>1, <3>2
  <2>4. QuietWrites'
    BY <1>0, <2>1 DEF QuietWrites
  <2>5. QED
    BY <1>0, <2>1, <2>2, <2>3, <2>4, FieldKept
<1>6. ASSUME NEW c \in Clients, GetWord(c) PROVE QuietReads' /\ QuietWrites' /\ FieldHolds'
  <2>1. PICK j \in todo[c] : /\ got' = [got EXCEPT ![c][j] = words[j]]
                            /\ todo' = [todo EXCEPT ![c] = @ \ {j}]
    BY <1>6 DEF GetWord
  <2>2. /\ type' = type /\ is_yuv' = is_yuv /\ words' = words /\ pc' = pc /\ val' = val
        /\ alone' = alone /\ stored' = stored /\ pc[c] = "get"
    BY <1>6 DEF GetWord, history
  <2>3. /\ got[c] \in [0..Words(type) -> Nat] /\ got'[c] = [got[c] EXCEPT ![j] = words[j]]
        /\ todo'[c] = todo[c] \ {j}
        /\ \A x \in Clients : x # c => todo'[x] = todo[x] /\ got'[x] = got[x]
    BY <1>0, <2>1, <2>2 DEF TypeOK, Calls
  <2>4. QuietReads'
    <3> SUFFICES ASSUME NEW x \in Clients, pc'[x] = "get", alone'[x]
                 PROVE  /\ ~Setting'
                        /\ \A i \in (0..Words(type')) \ todo'[x] : got'[x][i] = words'[i]
      BY DEF QuietReads
    <3>1. /\ ~Setting /\ \A i \in (0..Words(type)) \ todo[x] : got[x][i] = words[i]
      BY <1>0, <2>2 DEF QuietReads
    <3>2. ASSUME NEW i \in (0..Words(type)) \ todo'[x] PROVE got'[x][i] = words[i]
      <4>1. CASE x = c /\ i = j
        BY <2>3, <4>1
      <4>2. CASE x = c /\ i # j
        BY <2>3, <3>1, <4>2
      <4>3. CASE x # c
        BY <2>3, <3>1, <4>3
      <4>4. QED
        BY <4>1, <4>2, <4>3
    <3>3. QED
      BY <2>2, <3>1, <3>2 DEF Setting
  <2>5. QuietWrites'
    BY <1>0, <2>2, <2>3 DEF QuietWrites
  <2>6. QED
    BY <1>0, <2>2, <2>4, <2>5, FieldKept DEF Setting
<1>7. ASSUME NEW c \in Clients, GetReturn(c) \/ (Die(c) /\ pc[c] # "set")
      PROVE  QuietReads' /\ QuietWrites' /\ FieldHolds'
  <2>1. /\ type' = type /\ is_yuv' = is_yuv /\ words' = words /\ stored' = stored /\ alone' = alone
        /\ pc[c] # "set" /\ pc'[c] = "idle"
        /\ \A x \in Clients : x # c => /\ pc'[x] = pc[x] /\ todo'[x] = todo[x]
                                      /\ got'[x] = got[x] /\ val'[x] = val[x]
    BY <1>0, <1>7 DEF GetReturn, Die, Leave, TypeOK, Calls
  <2>2. Setting' <=> Setting
    BY <2>1 DEF Setting
  <2>3. QuietReads'
    BY <1>0, <2>1, <2>2 DEF QuietReads
  <2>4. QuietWrites'
    BY <1>0, <2>1 DEF QuietWrites
  <2>5. QED
    BY <1>0, <2>1, <2>2, <2>3, <2>4, FieldKept
<1>8. ASSUME NEW c \in Clients, SetNoCrop(c) PROVE QuietReads' /\ QuietWrites' /\ FieldHolds'
  BY <1>1, <1>2, <1>8, NoCropIs
<1>9. QED
  BY <1>1, <1>2, <1>3, <1>4, <1>5, <1>6, <1>7, <1>8 DEF Next, Step

\* A new buffer answers the name, the dataspace and the chroma siting it was
\* given, and the defaults of the rest.
LEMMA QuietInit == Init => QuietInv
<1> SUFFICES ASSUME Init PROVE QuietInv
  OBVIOUS
<1>1. TypeOK /\ Calls
  BY TypeInit
<1>2. QuietReads /\ QuietWrites
  BY DEF Init, QuietReads, QuietWrites
<1>3. stored = Decode(type, words)
  BY DEF Init
<1>4. CASE type \notin Vectors \/ stored = NoValue
  BY <1>1, <1>2, <1>3, <1>4 DEF QuietInv, FieldHolds, Agrees
<1>5. CASE type \in Vectors /\ stored # NoValue
  <2>1. type = "NAME"
    <3>1. CASE type \in {"SMPTE2094_40", "SMPTE2094_10"}
      <4>1. PICK tag \in InitialTags(type) : words \in InitialWords(type, tag)
        BY DEF Init
      <4>2. tag = 0
        BY <3>1, <4>1 DEF InitialTags
      <4>3. words[0] = 0
        <5>1. 0 \in 0..Words(type)
          BY SizesAssumption DEF Words
        <5>2. QED
          BY <4>1, <4>2, <5>1 DEF InitialWords
      <4>4. stored = NoValue
        BY <1>3, <3>1, <4>3 DEF Decode, Default
      <4>5. QED
        BY <1>5, <4>4
    <3>2. QED
      BY <1>5, <3>1 DEF Vectors
  <2>2. stored \in Seq(Nat)
    <3>1. CASE words[0] = 0
      <4>1. stored = <<>>
        BY <1>3, <2>1, <3>1 DEF Decode, Default
      <4>2. QED
        BY <4>1
    <3>2. CASE words[0] # 0
      <4>1. stored = [j \in 1..words[0] |-> words[j]]
        BY <1>3, <2>1, <3>2 DEF Decode, Payload
      <4>2. words[0] \in Nat /\ words[0] <= Capacity /\ Words(type) = Capacity
        BY <1>1, <2>1, SizesAssumption DEF TypeOK, Words, OneWord, Vectors
      <4>3. \A j \in 1..words[0] : words[j] \in Nat
        BY <1>1, <4>2, SizesAssumption DEF TypeOK
      <4>4. stored \in [1..words[0] -> Nat]
        BY <4>1, <4>3
      <4>5. QED
        BY <4>2, <4>4, SeqDef
    <3>3. QED
      BY <3>1, <3>2
  <2>3. Len(stored) <= Len(stored) /\ SubSeq(stored, 1, Len(stored)) = stored
    BY <2>2, PrefixIs
  <2>4. QED
    BY <1>1, <1>2, <1>3, <1>5, <2>3 DEF QuietInv, FieldHolds, Agrees
<1>6. QED
  BY <1>4, <1>5

\* QuietGet holds: a get of get_metadata that no set overlaps answers what the
\* last set stored if nothing disturbed that set, after any races and any
\* deaths of clients before it.
THEOREM QuietGetCorrect == Spec => []QuietGet
<1>1. Init => QuietInv
  BY QuietInit
<1>2. QuietInv /\ [Next]_vars => QuietInv'
  BY TypeStep, QuietStep DEF QuietInv
<1>3. QuietInv => QuietGet
  <2> SUFFICES ASSUME QuietInv, NEW c \in Clients, Answering(c), alone[c], stored # Mixed
               PROVE  Agrees(Answer(c), stored)
    BY DEF QuietGet
  <2>1. /\ ~Setting /\ \A j \in 0..Words(type) : got[c][j] = words[j]
        /\ got[c] \in [0..Words(type) -> Nat] /\ words \in [0..Words(type) -> Nat]
    BY DEF QuietInv, QuietReads, TypeOK, Answering
  <2>2. got[c] = words
    <3>1. got[c] = [j \in 0..Words(type) |-> got[c][j]]
      BY <2>1
    <3>2. words = [j \in 0..Words(type) |-> words[j]]
      BY <2>1
    <3>3. [j \in 0..Words(type) |-> got[c][j]] = [j \in 0..Words(type) |-> words[j]]
      BY <2>1
    <3>4. QED
      BY <3>1, <3>2, <3>3, Zenon
  <2>3. Agrees(Decode(type, words), stored)
    BY <2>1, Zenon DEF QuietInv, FieldHolds
  <2>4. QED
    BY <2>2, <2>3, Zenon DEF Answer
<1>4. QED
  BY <1>1, <1>2, <1>3, PTL DEF Spec

-----------------------------------------------------------------------------
\* A set of a one-word field writes the tag 1 and a payload that is read back
\* as what is kept of its argument.
LEMMA OneWordSet ==
  ASSUME type \in Types, type \in OneWord, NEW v \in Values(type), Accepts(type, v)
  PROVE  /\ Writes(type, v) = {0, 1}
         /\ WordOf(type, v, 0) = 1
         /\ OneItem(WordOf(type, v, 1)) = Kept(type, v)
<1> USE DEF Words, Writes, WordOf, Tag, Encode, OneWord, Vectors, Hdr, OneItem, Item
<1>1. CASE type \in {"DATASPACE", "BLEND_MODE"}
  <2>1. PICK x \in Nat : v = <<x>> /\ v # NoValue
    BY <1>1, AcceptedShape
  <2>2. QED
    BY <1>1, <2>1, KeptIs
<1>2. CASE type = "CHROMA_SITING"
  <2>1. PICK n, x : x \in Nat /\ v = <<n, x>> /\ v # NoValue
    BY <1>2, AcceptedShape
  <2>2. QED
    BY <1>2, <2>1, KeptIs
<1>3. QED
  BY <1>1, <1>2

\* What a get makes of a tag and a payload word.
LEMMA OneWordGet ==
  ASSUME type \in OneWord, NEW w \in [0..Words(type) -> Nat]
  PROVE  /\ Words(type) = 1
         /\ w[0] = 0 => Decode(type, w) = Default(type)
         /\ w[0] # 0 => Decode(type, w) = OneItem(w[1])
<1>1. Words(type) = 1
  BY DEF Words
<1>2. w[0] = 0 => Decode(type, w) = Default(type)
  BY DEF Decode
<1>3. w[0] # 0 => Decode(type, w) = Item(type, Payload(w, 1))
  BY <1>1 DEF Decode, OneWord
<1>4. Payload(w, 1) = <<w[1]>>
  BY DEF Payload
<1>5. QED
  BY <1>1, <1>2, <1>3, <1>4 DEF OneItem

\* The value of an item nobody has written is the default of its type: the
\* word is zero and the blend mode INVALID.
LEMMA RegularInit == Init => RegularInv
<1> SUFFICES ASSUME Init PROVE RegularInv
  OBVIOUS
<1>1. TypeOK /\ Calls
  BY TypeInit
<1>2. TagStays /\ MayCovers
  BY DEF Init, TagStays, MayCovers
<1>3. ASSUME type \in OneWord PROVE OneItem(words[1]) = Decode(type, words)
  <2>1. PICK tag \in InitialTags(type) : words \in InitialWords(type, tag)
    BY DEF Init
  <2>2. Words(type) = 1 /\ words[0] = tag
    BY <1>3, <2>1 DEF Words, InitialWords
  <2>3. CASE tag # 0
    BY <1>1, <1>3, <2>2, <2>3, OneWordGet DEF TypeOK
  <2>4. CASE tag = 0
    <3>1. type = "BLEND_MODE"
      BY <1>3, <2>4 DEF OneWord, InitialTags
    <3>2. words[1] = 0
      BY <2>1, <2>2, <3>1 DEF InitialWords
    <3>3. Decode(type, words) = <<0>>
      BY <2>2, <2>4, <3>1 DEF Decode, Default
    <3>4. QED
      BY <3>1, <3>2, <3>3 DEF OneItem, Item
  <2>5. QED
    BY <2>3, <2>4
<1>4. QED
  BY <1>1, <1>2, <1>3 DEF RegularInv, PayloadKnown

\* One step of a one-word field.  The payload of a set that has not returned is
\* in every get that overlaps it; one that has returned has written the tag, so
\* its payload is the value of the field.
LEMMA RegularStep ==
  RegularInv /\ type \in OneWord /\ [Next]_vars => TagStays' /\ PayloadKnown' /\ MayCovers'
<1> SUFFICES ASSUME RegularInv, type \in OneWord, [Next]_vars
             PROVE  TagStays' /\ PayloadKnown' /\ MayCovers'
  OBVIOUS
<1> DEFINE Known == TagStays' /\ PayloadKnown' /\ MayCovers'
<1>0. TypeOK /\ Calls /\ TagStays /\ PayloadKnown /\ MayCovers
  BY DEF RegularInv
<1>1. TypeOK' /\ Calls'
  BY <1>0, TypeStep
<1>2. type' = type /\ is_yuv' = is_yuv
  BY DEF Next, Step, vars, SetRefused, SetIgnored, SetBegin, SetNoCrop, SetWord, SetReturn,
     GetBegin, GetWord, GetReturn, Die
<1>3. /\ Words(type) = 1 /\ words \in [0..1 -> Nat] /\ words' \in [0..1 -> Nat]
      /\ Decode(type, words) = IF words[0] = 0 THEN Default(type) ELSE OneItem(words[1])
  BY <1>0, <1>1, <1>2, OneWordGet DEF TypeOK
<1>4. /\ Default(type)' = Default(type)
      /\ \A x : Item(type', <<x>>) = OneItem(x)
      /\ Decode(type, words)' = IF words'[0] = 0 THEN Default(type) ELSE OneItem(words'[1])
  <2>1. Default(type)' = Default(type)
    BY <1>2 DEF Default
  <2>2. \A x : Item(type', <<x>>) = OneItem(x)
    BY <1>2 DEF OneItem
  <2>3. Decode(type, words)' = Decode(type, words')
    BY <1>2, <2>1 DEF Decode
  <2>4. Decode(type, words') = IF words'[0] = 0 THEN Default(type) ELSE OneItem(words'[1])
    BY <1>3, OneWordGet
  <2>5. QED
    BY <2>1, <2>2, <2>3, <2>4
<1>5. ASSUME NEW c \in Clients, NEW v \in Values(type) \cup {Malformed}, SetBegin(c, v) PROVE Known
  <2>1. v \in Values(type) /\ Accepts(type, v)
    BY <1>5 DEF SetBegin, Accepts
  <2>2. /\ words' = words /\ got' = got /\ died' = died /\ pc[c] = "idle"
        /\ pc'[c] = "set" /\ todo'[c] = Writes(type, v) /\ val'[c] = v
        /\ \A x \in Clients : x # c => pc'[x] = pc[x] /\ todo'[x] = todo[x] /\ val'[x] = val[x]
        /\ \A x \in Clients : pc[x] = "get" => may'[x] = may[x] \cup {Kept(type, v)}
    BY <1>0, <1>5 DEF SetBegin, TypeOK, Calls, Noted
  <2>3. TagStays'
    BY <1>0, <2>1, <2>2, OneWordSet DEF TagStays, TypeOK
  <2>4. PayloadKnown'
    BY <1>0, <1>2, <1>3, <1>4, <2>2 DEF PayloadKnown, OneItem
  <2>5. MayCovers'
    BY <1>0, <1>2, <1>4, <2>2 DEF MayCovers, OneItem
  <2>6. QED
    BY <2>3, <2>4, <2>5
<1>6. ASSUME NEW c \in Clients, SetWord(c) PROVE Known
  <2>1. PICK j \in todo[c] : /\ words' = [words EXCEPT ![j] = WordOf(type, val[c], j)]
                            /\ todo' = [todo EXCEPT ![c] = @ \ {j}]
    BY <1>6 DEF SetWord
  <2>2. /\ pc' = pc /\ val' = val /\ got' = got /\ may' = may /\ died' = died /\ pc[c] = "set"
    BY <1>6 DEF SetWord, history
  <2>3. /\ j \in {0, 1} /\ WordOf(type, val[c], 0) = 1
        /\ OneItem(WordOf(type, val[c], 1)) = Kept(type, val[c])
    BY <1>0, <2>2, OneWordSet DEF Calls, TypeOK
  <2>4. /\ \A x \in Clients : pc[x] = "get" => todo'[x] = todo[x]
        /\ \A x \in Clients : x # c => todo'[x] = todo[x]
        /\ todo'[c] = todo[c] \ {j}
    BY <1>0, <2>1, <2>2 DEF TypeOK
  <2>5. CASE j = 0
    <3>1. words'[0] = 1 /\ words'[1] = words[1]
      BY <1>3, <2>1, <2>3, <2>5
    <3>2. TagStays'
      BY <3>1 DEF TagStays
    <3>3. PayloadKnown'
      BY <1>4, <3>1 DEF PayloadKnown, OneItem
    <3>4. MayCovers'
      BY <1>0, <1>2, <1>4, <2>2, <2>4, <3>1 DEF MayCovers, OneItem
    <3>5. QED
      BY <3>2, <3>3, <3>4
  <2>6. CASE j = 1
    <3>1. words'[0] = words[0] /\ OneItem(words'[1]) = Kept(type, val[c])
      BY <1>3, <2>1, <2>3, <2>6
    <3>2. TagStays'
      BY <1>0, <2>2, <2>4, <2>6, <3>1 DEF TagStays
    <3>3. PayloadKnown'
      BY <1>2, <1>4, <2>2, <3>1 DEF PayloadKnown, OneItem
    <3>4. MayCovers'
      BY <1>0, <1>2, <1>4, <2>2, <2>4, <3>1 DEF MayCovers, OneItem
    <3>5. QED
      BY <3>2, <3>3, <3>4
  <2>7. QED
    BY <2>3, <2>5, <2>6
<1>7. ASSUME NEW c \in Clients, SetReturn(c) \/ GetReturn(c) \/ Die(c) PROVE Known
  <2>1. /\ words' = words /\ pc'[c] = "idle"
        /\ \A x \in Clients : x # c => /\ pc'[x] = pc[x] /\ todo'[x] = todo[x] /\ val'[x] = val[x]
                                      /\ got'[x] = got[x] /\ may'[x] = may[x]
    BY <1>0, <1>7 DEF SetReturn, GetReturn, Die, Leave, TypeOK, Calls
  <2>2. TagStays'
    BY <1>0, <2>1 DEF TagStays
  <2>3. MayCovers'
    BY <1>0, <1>2, <1>4, <2>1 DEF MayCovers, OneItem
  <2>4. PayloadKnown'
    <3>1. CASE SetReturn(c)
      <4>1. words'[0] = 1
        BY <1>0, <2>1, <3>1 DEF SetReturn, TagStays
      <4>2. QED
        BY <1>4, <4>1 DEF PayloadKnown, OneItem
    <3>2. CASE GetReturn(c) \/ (Die(c) /\ pc[c] # "set")
      <4>1. died' = died /\ pc[c] # "set"
        BY <3>2 DEF GetReturn, Die
      <4>2. QED
        BY <1>0, <1>2, <1>3, <1>4, <2>1, <4>1 DEF PayloadKnown, OneItem
    <3>3. CASE Die(c) /\ pc[c] = "set"
      <4>1. died' = died \cup {Kept(type, val[c])}
        BY <3>3 DEF Die, Noted
      <4>2. QED
        BY <1>0, <1>2, <1>3, <1>4, <2>1, <4>1 DEF PayloadKnown, OneItem
    <3>4. QED
      BY <1>7, <3>1, <3>2, <3>3
  <2>5. QED
    BY <2>2, <2>3, <2>4
<1>8. ASSUME NEW c \in Clients, GetBegin(c) PROVE Known
  <2>1. /\ words' = words /\ val' = val /\ died' = died /\ pc[c] = "idle"
        /\ pc'[c] = "get" /\ todo'[c] = {0, 1}
        /\ \A x \in Clients : x # c => /\ pc'[x] = pc[x] /\ todo'[x] = todo[x]
                                      /\ got'[x] = got[x] /\ may'[x] = may[x]
    BY <1>0, <1>3, <1>8 DEF GetBegin, TypeOK, Calls
  <2>2. may'[c] = {Decode(type, words)} \cup died
                    \cup {Kept(type, val[x]) : x \in {y \in Clients : pc[y] = "set"}}
    BY <1>0, <1>8 DEF GetBegin, Calls, Noted
  <2>3. /\ words[0] = 0 => Default(type) \in may'[c]
        /\ OneItem(words[1]) \in may'[c]
        /\ \A x \in Clients : pc[x] = "set" => Kept(type, val[x]) \in may'[c]
    BY <1>0, <1>3, <2>2 DEF PayloadKnown
  <2>4. TagStays'
    BY <1>0, <2>1 DEF TagStays
  <2>5. PayloadKnown'
    BY <1>0, <1>2, <1>3, <1>4, <2>1 DEF PayloadKnown, OneItem
  <2>6. MayCovers'
    BY <1>0, <1>2, <1>4, <2>1, <2>3 DEF MayCovers, OneItem
  <2>7. QED
    BY <2>4, <2>5, <2>6
<1>9. ASSUME NEW c \in Clients, GetWord(c) PROVE Known
  <2>1. PICK j \in todo[c] : /\ got' = [got EXCEPT ![c][j] = words[j]]
                            /\ todo' = [todo EXCEPT ![c] = @ \ {j}]
    BY <1>9 DEF GetWord
  <2>2. /\ words' = words /\ pc' = pc /\ val' = val /\ may' = may /\ died' = died /\ pc[c] = "get"
    BY <1>9 DEF GetWord, history
  <2>3. /\ j \in {0, 1} /\ got[c] \in [0..1 -> Nat] /\ got'[c] = [got[c] EXCEPT ![j] = words[j]]
        /\ todo'[c] = todo[c] \ {j}
        /\ \A x \in Clients : x # c => todo'[x] = todo[x] /\ got'[x] = got[x]
    BY <1>0, <1>3, <2>1, <2>2 DEF TypeOK, Calls
  <2>4. TagStays'
    BY <1>0, <2>2, <2>3 DEF TagStays
  <2>5. PayloadKnown'
    BY <1>0, <1>2, <1>3, <1>4, <2>2 DEF PayloadKnown, OneItem
  <2>6. MayCovers'
    <3> SUFFICES ASSUME NEW x \in Clients, pc[x] = "get"
                 PROVE  /\ 0 \notin todo'[x] /\ got'[x][0] = 0 => Default(type) \in may[x]
                        /\ 1 \notin todo'[x] => OneItem(got'[x][1]) \in may[x]
      BY <1>0, <1>2, <1>4, <2>2 DEF MayCovers, OneItem
    <3>1. CASE x # c
      BY <1>0, <2>3, <3>1 DEF MayCovers
    <3>2. CASE x = c /\ j = 0
      <4>1. got'[c][0] = words[0] /\ got'[c][1] = got[c][1]
        BY <2>3, <3>2
      <4>2. QED
        BY <1>0, <2>2, <2>3, <3>2, <4>1 DEF MayCovers
    <3>3. CASE x = c /\ j = 1
      <4>1. got'[c][1] = words[1] /\ got'[c][0] = got[c][0]
        BY <2>3, <3>3
      <4>2. QED
        BY <1>0, <2>2, <2>3, <3>3, <4>1 DEF MayCovers
    <3>4. QED
      BY <2>3, <3>1, <3>2, <3>3
  <2>7. QED
    BY <2>4, <2>5, <2>6
<1>10. CASE UNCHANGED <<words, pc, todo, val, got, may, died>>
  BY <1>0, <1>2, <1>3, <1>4, <1>10 DEF TagStays, PayloadKnown, MayCovers, OneItem
<1>11. QED
  <2>1. ASSUME NEW c \in Clients, SetNoCrop(c) PROVE FALSE
    BY <2>1 DEF SetNoCrop, OneWord
  <2>2. QED
    BY <1>5, <1>6, <1>7, <1>8, <1>9, <1>10, <2>1
       DEF Next, Step, SetRefused, SetIgnored, vars, history

\* RegularGet holds: the dataspace, the blend mode and the chroma siting can be
\* read without a lock.  Whatever sets race with the get and wherever their
\* processes die, it answers the value at its beginning, or what is kept of the
\* argument of a set that overlaps it or of one that died.
THEOREM RegularGetCorrect == Spec => []RegularGet
<1>1. Init => RegularInv
  BY RegularInit
<1>2. RegularInv /\ [Next]_vars => RegularInv'
  <2> SUFFICES ASSUME RegularInv, [Next]_vars PROVE RegularInv'
    OBVIOUS
  <2>1. TypeOK' /\ Calls'
    BY TypeStep DEF RegularInv
  <2>2. CASE type \in OneWord
    BY <2>1, <2>2, RegularStep DEF RegularInv
  <2>3. CASE type \notin OneWord
    <3>1. type' = type
      BY DEF Next, Step, vars, SetRefused, SetIgnored, SetBegin, SetNoCrop, SetWord,
         SetReturn, GetBegin, GetWord, GetReturn, Die
    <3>2. QED
      BY <2>1, <2>3, <3>1 DEF RegularInv, TagStays, PayloadKnown, MayCovers
  <2>4. QED
    BY <2>2, <2>3
<1>3. RegularInv => RegularGet
  <2> SUFFICES ASSUME RegularInv, NEW c \in Clients, Answering(c), type \in OneWord
               PROVE  Answer(c) \in may[c]
    BY DEF RegularGet
  <2>1. got[c] \in [0..Words(type) -> Nat]
    BY DEF RegularInv, TypeOK, Answering
  <2>2. /\ got[c][0] = 0 => Default(type) \in may[c]
        /\ OneItem(got[c][1]) \in may[c]
    BY DEF RegularInv, MayCovers, Answering
  <2>3. QED
    BY <2>1, <2>2, OneWordGet DEF Answer
<1>4. QED
  BY <1>1, <1>2, <1>3, PTL DEF Spec
=============================================================================
