---------------------------- MODULE SharedMetadata ----------------------------
(***************************************************************************)
(* The metadata a buffer carries in its attribute region, which every       *)
(* process that imported the buffer maps shared and reads and writes        *)
(* without synchronisation: get_metadata and set_metadata for the types     *)
(* kept there, with the accessors of shared_metadata.cpp.                   *)
(*                                                                          *)
(* The fields do not overlap (the static_asserts on their offsets), so a    *)
(* behaviour is about one of them: the variable type, chosen in the         *)
(* initial state.  A field is a tag, the item_state of an aligned_optional  *)
(* or the size of an aligned_inline_vector, followed by the words of its    *)
(* payload.  The accesses are data races between processes: a call may      *)
(* read or write its words in any order, interleaved with other calls, and  *)
(* its process may die in between.                                          *)
(*                                                                          *)
(* A Rect is represented by its horizontal edges, the vertical ones are     *)
(* treated alike; the HDR structures by two words.                          *)
(***************************************************************************)
EXTENDS Integers, Sequences

CONSTANTS
  Clients,      \* threads that work on the buffer, in any processes
  Types,        \* metadata types the clients may use
  SdkVersion,   \* PLATFORM_SDK_VERSION of the build
  width, alloc_width, \* of the buffer: requested, and allocated in plane 0
  Capacity,     \* bound: bytes an aligned_inline_vector holds
  Scalars,      \* bound: values of a one-word item, 0 being UNKNOWN or INVALID
  Bytes,        \* bound: values of a byte or of a word of an HDR structure
  NoValue,      \* std::nullopt
  Malformed,    \* bytes the gralloc4 decoders reject
  Mixed         \* history: no value known, because sets overlapped or died

OneWord == {"DATASPACE", "BLEND_MODE", "CHROMA_SITING"}
Hdr     == {"SMPTE2086", "CTA861_3"}
Vectors == {"SMPTE2094_40", "SMPTE2094_10", "NAME"}

ASSUME TypesAssumption == Types \subseteq OneWord \cup Hdr \cup Vectors \cup {"CROP"}
ASSUME SizesAssumption ==
  /\ SdkVersion \in Nat
  /\ width \in Nat /\ alloc_width \in Nat /\ width <= alloc_width
  /\ Capacity \in Nat \ {0}
ASSUME ValuesAssumption ==
  /\ Scalars \subseteq Nat /\ 0 \in Scalars
  /\ Bytes \subseteq Nat
\* std::nullopt is none of the values an item or a vector can hold.
ASSUME NoValueAssumption == NoValue \notin Seq(Int) /\ NoValue \notin {"standard", "arm"} \X Nat

VARIABLES
  type,     \* the field this behaviour is about
  is_yuv,   \* of the buffer's format
  words,    \* the field: words[0] the tag, then the payload
  pc,       \* each client: "idle", or inside "set" or "get"
  todo,     \* the words the call has yet to access
  val,      \* the argument of a set
  got,      \* the words a get has read
  stored,   \* history: what the last set left, Mixed if it was disturbed
  told,     \* history: the last value a set answered NONE for, or Mixed
  alone,    \* history: no set overlapped the client's call
  may,      \* history: what the get may answer: see RegularGet
  died      \* history: what is kept of the arguments of sets whose process died

history == <<stored, told, alone, may, died>>
vars == <<type, is_yuv, words, pc, todo, val, got, history>>

\* Number of payload words of a field.
Words(ty) == IF ty \in OneWord THEN 1 ELSE IF ty \in Vectors THEN Capacity ELSE 2

\* Only the value of a chroma siting is stored; the name of the ExtendableType
\* is found again from it (chroma_siting_is_arm_value).
ChromaName(v) == IF v \in {256, 512} THEN "arm" ELSE "standard"

\* The payload words of a value, the value of payload words w, and the value
\* that is left of an argument: a chroma siting keeps no name.
Encode(ty, v) == IF ty = "CHROMA_SITING" THEN <<v[2]>> ELSE v
Item(ty, w)   == IF ty = "CHROMA_SITING" THEN <<ChromaName(w[1]), w[1]>> ELSE w
Kept(ty, v)   == IF ty = "CHROMA_SITING" THEN Item(ty, Encode(ty, v)) ELSE v

\* (A slip: a blend mode that was never set is reported as another mode than
\* INVALID, the value of an item nobody has written.)
Default_BlendNone(ty) ==
  CASE ty = "CHROMA_SITING" -> <<"standard", IF is_yuv THEN 1 ELSE 0>>
    [] ty = "DATASPACE"     -> <<0>>
    [] ty = "BLEND_MODE"    -> <<1>>
    [] ty = "CROP"          -> <<0, width>>
    [] ty = "NAME"          -> <<>>
    [] OTHER                -> NoValue

\* What get_metadata encodes for an absent value: the chroma sitings None and
\* Unknown, the dataspace UNKNOWN, the blend mode INVALID, the whole buffer.
Default(ty) ==
  IF ty = "CHROMA_SITING" THEN <<"standard", IF is_yuv THEN 1 ELSE 0>>
  ELSE IF ty \in {"DATASPACE", "BLEND_MODE"} THEN <<0>>
  ELSE IF ty = "CROP" THEN <<0, width>>
  ELSE IF ty = "NAME" THEN <<>> ELSE NoValue

Payload(w, n) == [j \in 1..n |-> w[j]]

\* What a get makes of the words w it has read.  aligned_inline_vector::end()
\* is the end of the array: only get_name looks at the size.
Decode(ty, w) ==
  IF w[0] = 0 THEN Default(ty)
  ELSE IF ty = "NAME" THEN Payload(w, w[0])
  ELSE Item(ty, Payload(w, Words(ty)))

-----------------------------------------------------------------------------
\* The arguments of set_metadata.  A chroma siting comes with any name.
Values(ty) ==
  IF ty \in {"DATASPACE", "BLEND_MODE"} THEN {<<v>> : v \in Scalars}
  ELSE IF ty = "CHROMA_SITING" THEN {"standard", "arm", "other"} \X Scalars
  ELSE IF ty = "CROP" THEN (-1..alloc_width + 1) \X (-1..alloc_width + 1)
  ELSE IF ty \in Hdr  THEN {<<b, b>> : b \in Bytes} \cup {NoValue}
  ELSE (UNION {[1..n -> Bytes] : n \in 0..Capacity + 1}) \cup {NoValue}

\* Whether the decoder and the accessor let a value through.
ValidCrop(v) == 0 <= v[1] /\ v[1] <= v[2] /\ v[2] <= alloc_width /\ v[2] - v[1] = width

\* (A slip: a vector longer than the capacity is let through.)
Accepts_NoLimit(ty, v) ==
  /\ v # Malformed
  /\ CASE ty \in {"DATASPACE", "BLEND_MODE"} -> TRUE
       [] ty = "CHROMA_SITING" -> is_yuv /\ v[1] \in {"standard", "arm"}
       [] ty = "CROP"          -> ValidCrop(v)
       [] ty \in Hdr           -> v = NoValue => SdkVersion >= 33
       [] ty = "NAME"          -> FALSE
       [] OTHER -> /\ ty = "SMPTE2094_10" => SdkVersion >= 33
                   /\ IF v = NoValue THEN SdkVersion >= 33 ELSE Len(v) > 0

Accepts(ty, v) ==
  /\ v # Malformed
  /\ IF ty \in {"DATASPACE", "BLEND_MODE"} THEN TRUE
     ELSE IF ty = "CHROMA_SITING" THEN is_yuv /\ v[1] \in {"standard", "arm"}
     ELSE IF ty = "CROP" THEN ValidCrop(v)
     ELSE IF ty \in Hdr THEN v = NoValue => SdkVersion >= 33
     ELSE /\ ty # "NAME"
          /\ ty = "SMPTE2094_10" => SdkVersion >= 33
          /\ IF v = NoValue THEN SdkVersion >= 33 ELSE Len(v) \in 1..Capacity

\* An unknown dataspace is accepted and not written.
Ignores(ty, v) == ty = "DATASPACE" /\ v = <<0>>

\* The tag a set writes, and the words it writes: an optional is assigned as a
\* whole, reset() and size = 0 write the tag only, a vector is written as far
\* as the argument goes.
Tag(ty, v) ==
  IF v = NoValue THEN 0 ELSE IF ty \in Vectors THEN Len(v) ELSE 1

\* (A slip: assigning an item does not mark it occupied.)
Writes_NoState(ty, v) ==
  IF v = NoValue THEN {0} ELSE IF ty \in Vectors THEN 0..Len(v) ELSE 1..Words(ty)

Writes(ty, v) ==
  IF v = NoValue THEN {0} ELSE IF ty \in Vectors THEN 0..Len(v) ELSE 0..Words(ty)

WordOf(ty, v, j) == IF j = 0 THEN Tag(ty, v) ELSE Encode(ty, v)[j]

-----------------------------------------------------------------------------
\* shared_metadata_init: the allocator writes the name, the dataspace and the
\* chroma siting of a new buffer, everything else is absent and zero.
InitialTags(ty) ==
  IF ty \in {"DATASPACE", "CHROMA_SITING"} THEN {1} ELSE IF ty = "NAME" THEN 0..Capacity ELSE {0}

InitialWords(ty, tag) ==
  {[j \in 0..Words(ty) |-> IF j = 0 THEN tag ELSE IF ty = "NAME" /\ j > tag THEN 0 ELSE p[j]] :
     p \in [1..Words(ty) -> IF ty = "NAME" THEN Bytes
                            ELSE IF ty \in {"DATASPACE", "CHROMA_SITING"} THEN Scalars ELSE {0}]}

Init ==
  /\ type \in Types
  /\ is_yuv \in BOOLEAN
  /\ \E tag \in InitialTags(type) : words \in InitialWords(type, tag)
  /\ pc = [c \in Clients |-> "idle"]
  /\ todo = [c \in Clients |-> {}]
  /\ val = [c \in Clients |-> NoValue]
  /\ got = [c \in Clients |-> <<>>]
  /\ stored = Decode(type, words)
  /\ told = stored
  /\ alone = [c \in Clients |-> TRUE]
  /\ may = [c \in Clients |-> {}]
  /\ died = {}

\* may and died are kept for the one-word fields only.
Noted(S) == IF type \in OneWord THEN S ELSE {}

Setting == \E c \in Clients : pc[c] = "set"

\* Back to idle, the locals gone.
Leave(c) ==
  /\ pc' = [pc EXCEPT ![c] = "idle"]
  /\ todo' = [todo EXCEPT ![c] = {}]
  /\ val' = [val EXCEPT ![c] = NoValue]
  /\ got' = [got EXCEPT ![c] = <<>>]
  /\ may' = [may EXCEPT ![c] = {}]

\* set_metadata refuses the value, or the type: UNSUPPORTED or BAD_VALUE.
SetRefused(c, v) ==
  /\ pc[c] = "idle"
  /\ ~Accepts(type, v)
  /\ UNCHANGED vars

\* set_metadata answers NONE without having written anything.
SetIgnored(c, v) ==
  /\ pc[c] = "idle"
  /\ Accepts(type, v) /\ Ignores(type, v)
  /\ told' = IF Setting THEN Mixed ELSE v
  /\ UNCHANGED <<type, is_yuv, words, pc, todo, val, got, stored, alone, may, died>>

SetBegin(c, v) ==
  /\ pc[c] = "idle"
  /\ Accepts(type, v) /\ ~Ignores(type, v)
  /\ pc' = [pc EXCEPT ![c] = "set"]
  /\ todo' = [todo EXCEPT ![c] = Writes(type, v)]
  /\ val' = [val EXCEPT ![c] = v]
  /\ alone' = [x \in Clients |-> x = c /\ ~Setting]
  /\ may' = [x \in Clients |-> IF pc[x] = "get" THEN may[x] \cup Noted({Kept(type, v)})
                                                ELSE may[x]]
  /\ UNCHANGED <<type, is_yuv, words, got, stored, told, died>>

\* A CROP of no rectangle: crops[0] of the empty vector is undefined.  The read
\* faults, and the process is gone before it has written anything, or it yields
\* some rectangle, which is checked like any other.
SetNoCrop(c) ==
  /\ type = "CROP"
  /\ pc[c] = "idle"
  /\ \/ UNCHANGED vars
     \/ \E v \in Values(type) : SetRefused(c, v) \/ SetBegin(c, v)

SetWord(c) ==
  /\ pc[c] = "set"
  /\ \E j \in todo[c] :
       /\ words' = [words EXCEPT ![j] = WordOf(type, val[c], j)]
       /\ todo' = [todo EXCEPT ![c] = @ \ {j}]
  /\ UNCHANGED <<type, is_yuv, pc, val, got, history>>

SetReturn(c) ==
  /\ pc[c] = "set"
  /\ todo[c] = {}
  /\ stored' = IF alone[c] THEN Kept(type, val[c]) ELSE Mixed
  /\ told' = IF alone[c] THEN val[c] ELSE Mixed
  /\ Leave(c)
  /\ UNCHANGED <<type, is_yuv, words, alone, died>>

GetBegin(c) ==
  /\ pc[c] = "idle"
  /\ pc' = [pc EXCEPT ![c] = "get"]
  /\ todo' = [todo EXCEPT ![c] = 0..Words(type)]
  /\ got' = [got EXCEPT ![c] = [j \in 0..Words(type) |-> 0]]
  /\ alone' = [alone EXCEPT ![c] = ~Setting]
  /\ may' = [may EXCEPT ![c] = Noted({Decode(type, words)} \cup died
                                        \cup {Kept(type, val[x]) : x \in {y \in Clients : pc[y] = "set"}})]
  /\ UNCHANGED <<type, is_yuv, words, val, stored, told, died>>

GetWord(c) ==
  /\ pc[c] = "get"
  /\ \E j \in todo[c] :
       /\ got' = [got EXCEPT ![c][j] = words[j]]
       /\ todo' = [todo EXCEPT ![c] = @ \ {j}]
  /\ UNCHANGED <<type, is_yuv, words, pc, val, history>>

GetReturn(c) ==
  /\ pc[c] = "get"
  /\ todo[c] = {}
  /\ Leave(c)
  /\ UNCHANGED <<type, is_yuv, words, stored, told, alone, died>>

\* The client's process dies in a call and another client takes its place;
\* what it wrote stays in the region.
Die(c) ==
  /\ pc[c] # "idle"
  /\ IF pc[c] = "set"
     THEN stored' = Mixed /\ told' = Mixed /\ died' = died \cup Noted({Kept(type, val[c])})
     ELSE UNCHANGED <<stored, told, died>>
  /\ Leave(c)
  /\ UNCHANGED <<type, is_yuv, words, alone>>

Step(c) ==
  \/ \E v \in Values(type) \cup {Malformed} : SetRefused(c, v) \/ SetIgnored(c, v) \/ SetBegin(c, v)
  \/ SetNoCrop(c) \/ SetWord(c) \/ SetReturn(c)
  \/ GetBegin(c) \/ GetWord(c) \/ GetReturn(c)
  \/ Die(c)

Next == \E c \in Clients : Step(c)

Spec == Init /\ [][Next]_vars

-----------------------------------------------------------------------------
\* The type invariant: the tag never exceeds what the accessors can make of it,
\* and no call touches a word outside its field.
TypeOK ==
  /\ type \in Types
  /\ is_yuv \in BOOLEAN
  /\ words \in [0..Words(type) -> Nat]
  /\ words[0] \in 0..(IF type \in Vectors THEN Capacity ELSE 1)
  /\ pc \in [Clients -> {"idle", "set", "get"}]
  /\ todo \in [Clients -> SUBSET (0..Words(type))]
  /\ \A c \in Clients : pc[c] = "get" => got[c] \in [0..Words(type) -> Nat]
  /\ alone \in [Clients -> BOOLEAN]

\* What a get that has read all its words will answer.
Answering(c) == pc[c] = "get" /\ todo[c] = {}
Answer(c)    == Decode(type, got[c])

\* v is what a get may answer after a set of s: a vector comes with the rest of
\* its array, whose bytes nobody promised.
Agrees(v, s) ==
  IF type \in Vectors /\ s # NoValue
  THEN v # NoValue /\ Len(s) <= Len(v) /\ SubSeq(v, 1, Len(s)) = s
  ELSE v = s

\* A get that no set of the field overlaps answers what the last set stored, or
\* the initial value, if no other set overlapped that one.  It does so whatever
\* races and deaths there were before: an undisturbed set (aligned_optional's
\* assignment, reset(), size and memcpy) repairs the field.  What a set stores
\* is Kept: of a chroma siting the value, whose name a get finds again.
QuietGet ==
  \A c \in Clients : Answering(c) /\ alone[c] /\ stored # Mixed => Agrees(Answer(c), stored)

\* The dataspace, the blend mode and the chroma siting need no lock: a get that
\* races with sets answers the value at its beginning or what is Kept of the
\* argument of a set that overlaps it, or of one whose process died, never
\* anything else.  It rests on the default of value_or being the value of an
\* item never written.
RegularGet == \A c \in Clients : Answering(c) /\ type \in OneWord => Answer(c) \in may[c]

\* mapper.h describes the argument of set as the new value for the metadata
\* associated with the buffer and the answer of get as the metadata value: an
\* undisturbed get answers exactly what the last undisturbed set, answered with
\* NONE, was given.  The code does not keep to it for vectors, of which a get
\* answers the whole array, for chroma sitings with the name of the other kind,
\* and for the dataspace UNKNOWN.
ReadBack ==
  \A c \in Clients : Answering(c) /\ alone[c] /\ told # Mixed => Answer(c) = told
=============================================================================
