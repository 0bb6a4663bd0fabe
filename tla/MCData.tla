------------------------------- MODULE MCData -------------------------------
(***************************************************************************)
(* For TLC, one at a time: the containers and texts of Tf, the weak        *)
(* pointers, and the notice registry with handlers that call back.  part   *)
(* says which of them a behaviour is about; the variables of the other     *)
(* containers stay Off, and the pointers and the registry rest.            *)
(***************************************************************************)
EXTENDS BitSets, DenseHash, SmallVector, Texts, CountedPtr, Compression, WeakPtr,
        MCNoticeRegistry

CONSTANT DataParts   \* the parts that are checked

VARIABLE part

dataVars == <<part, bitSetsVars, denseVars, smallVars, utf8Vars, textVars, countedVars,
             lzVars, refVars, weakVars, vars>>

Off == 0
BitSetsOff == bits = Off /\ cbits = Off /\ ref = Off /\ overwritten = Off
DenseOff == vec = Off /\ index = Off /\ contents = Off /\ refilled = Off
SmallOff == object = Off /\ heap = Off /\ expected = Off /\ wrong = Off
Utf8Off == bytes = Off
TextOff == subject = Off /\ text = Off
CountedOff == held = Off
LzOff == /\ inputSize = Off /\ room = Off /\ packing = Off /\ compressed = Off
         /\ bytesWritten = Off /\ output = Off /\ answer = Off

DataInit == \E d \in DataParts :
  /\ part = d
  /\ IF d = "bits" THEN BitSetsInit ELSE BitSetsOff
  /\ IF d = "dense" THEN DenseInit ELSE DenseOff
  /\ IF d = "small" THEN SmallInit ELSE SmallOff
  /\ IF d = "utf8" THEN Utf8Init ELSE Utf8Off
  /\ IF d = "text" THEN TextInit ELSE TextOff
  /\ IF d = "counted" THEN CountedInit ELSE CountedOff
  /\ IF d = "lz" THEN LzInit ELSE LzOff
  /\ WeakInit /\ Init

OthersStay(d) ==
  /\ part = d /\ UNCHANGED part
  /\ IF d = "bits" THEN TRUE ELSE UNCHANGED bitSetsVars
  /\ IF d = "dense" THEN TRUE ELSE UNCHANGED denseVars
  /\ IF d = "small" THEN TRUE ELSE UNCHANGED smallVars
  /\ IF d = "utf8" THEN TRUE ELSE UNCHANGED utf8Vars
  /\ IF d = "text" THEN TRUE ELSE UNCHANGED textVars
  /\ IF d = "counted" THEN TRUE ELSE UNCHANGED countedVars
  /\ IF d = "lz" THEN TRUE ELSE UNCHANGED lzVars
  /\ IF d = "weak" THEN TRUE ELSE UNCHANGED <<refVars, weakVars>>
  /\ IF d = "notice" THEN TRUE ELSE UNCHANGED vars

BitSetsMove == OthersStay("bits") /\ BitSetsNext
DenseMoves == OthersStay("dense") /\ DenseNext
SmallMoves == OthersStay("small") /\ SmallNext
Utf8Moves == OthersStay("utf8") /\ Utf8Next
TextMoves == OthersStay("text") /\ TextNext
CountedMoves == OthersStay("counted") /\ CountedNext
LzMoves == OthersStay("lz") /\ LzNext
WeakMoves == OthersStay("weak") /\ WeakNext
NoticeMoves == OthersStay("notice") /\ Next

DataNext ==
  \/ BitSetsMove \/ DenseMoves \/ SmallMoves \/ Utf8Moves \/ TextMoves \/ CountedMoves
  \/ LzMoves \/ WeakMoves \/ NoticeMoves

DataSpec == DataInit /\ [][DataNext]_dataVars

-----------------------------------------------------------------------------
(* The instances. *)

\* Digits with and without a leading zero, both cases, and a character between them;
\* digits up to both bounds of six bits; spaces, quotes, escapes and brackets.
MCCharsOf == [s \in Subjects |->
  CASE s = "order" -> {48, 49, 65, 97, 95}
    [] s = "number" -> {45, 48, 49, 50, 51, 52, 53, 54, 57}
    [] s = "words" -> {32, 34, 92, 97, 123, 125}]
MCLengthOf == [s \in Subjects |-> IF s = "words" THEN 5 ELSE 3]

\* Each side of each bound that the decoder tests.
MCBytes == {65, 128, 143, 144, 159, 160, 191, 193, 194, 224, 225, 237, 240, 241, 244, 245, 248}
MCSamples == {0, 127, 128, 2047, 2048, 55295, 55296, 57343, 57344, 65535, 65536, 1114111}

-----------------------------------------------------------------------------
(* The properties of the modules, each of its part. *)

\* BitSets: both forms of an array hold the set, and give the answers the set has, but
\* for an end that Set or growth stored over while it was unknown
\* (bits.cpp:27-428, compressedBits.h:321-1641).
BitArraysAgree ==
  part = "bits" => BitsHoldTheSet /\ CompressedHoldTheSet /\ AnswersAgree
\* DenseHash: DenseMapsAgree, with the lookups of a map that insert_unique refilled
\* excepted (denseHashMap.h:237-628).
HashMapsAgree == part = "dense" => DenseMapsAgree
\* SmallVector: VectorsHoldTheirElements, with own elements excepted that the insertion
\* moved or freed before it read them (smallVector.h:195-915).
VectorsHold == part = "small" => VectorsHoldTheirElements
\* CountedPtr: CountsAreOfCells, up to an assignment that uses a cell it has deleted
\* (delegatedCountPtr.h:104-257).
CountsHold == part = "counted" => CountsAreOfCells
\* Texts and Compression: DecodesWhatIsThere, CompressionRoundTrips,
\* DictionaryOrderIsTotal, NumbersAreClamped and WordsComeBack
\* (unicodeUtils.cpp:15-205, fastCompression.cpp:26-136, stringUtils.cpp:109-897).
CodesComeBack ==
  /\ part = "utf8" => DecodesWhatIsThere
  /\ part = "lz" => CompressionRoundTrips
  /\ part = "text" => DictionaryOrderIsTotal /\ NumbersAreClamped /\ WordsComeBack
=============================================================================
