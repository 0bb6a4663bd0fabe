----------------------------- MODULE Compression -----------------------------
(***************************************************************************)
(* TfFastCompression: a buffer of any size as a number of chunks that LZ4, *)
(* which is external, can take, and back into a buffer of some size.  A    *)
(* piece of the input is <<offset, size>>; the compressed buffer is a      *)
(* sequence of what was written, each with its number of bytes.            *)
(***************************************************************************)
EXTENDS Integers, Sequences, SequencesExt

CONSTANTS
  ChunkMax,      \* LZ4_MAX_INPUT_SIZE
  MaxChunks,     \* 127
  CharBits,      \* of the signed byte that holds the number of chunks
  WordIntBits,   \* of an int
  SizeOfInt,     \* sizeof(int32_t)
  Rooms          \* the sizes of the buffers that callers decompress into

ASSUME CompressionAssumption ==
  MaxChunks < 2 ^ (CharBits - 1) /\ ChunkMax < 2 ^ (WordIntBits - 1)

VARIABLES
  inputSize,
  room,        \* maxOutputSize
  packing,     \* the step, and the number of chunks that are left
  compressed,  \* what was written, or what is still to be read
  bytesWritten,
  output,      \* the pieces that were decompressed, in order
  answer       \* what the call returns

lzVars == <<inputSize, room, packing, compressed, bytesWritten, output, answer>>

MaxInputSize == MaxChunks * ChunkMax

LzInit ==
  /\ inputSize \in 0..(MaxInputSize + 1)
  /\ room \in Rooms
  /\ packing = [step |-> "Compress", left |-> 0]
  /\ compressed = <<>> /\ bytesWritten = 0 /\ output = <<>> /\ answer = 0

AsInt(n) == LET m == n % 2 ^ WordIntBits
            IN IF m < 2 ^ (WordIntBits - 1) THEN m ELSE m - 2 ^ WordIntBits
AsChar(n) == LET m == n % 2 ^ CharBits
             IN IF m < 2 ^ (CharBits - 1) THEN m ELSE m - 2 ^ CharBits

-----------------------------------------------------------------------------
(* LZ4 (external). *)

CompressBound(n) == n + 1

\* A chunk becomes short, or as long as it may.
LzLengths(n) == {1, CompressBound(n)}

\* LZ4_decompress_safe: fails unless the whole chunk is there and fits.
LzFails(chunk, length, space) ==
  chunk.length # length \/ AsInt(space) < chunk.piece[2]

-----------------------------------------------------------------------------

GetCompressedBufferSize(n) ==
  LET whole == n \div ChunkMax
      part == n % ChunkMax
  IN IF n > MaxInputSize THEN 0
     ELSE IF n <= ChunkMax THEN CompressBound(n) + 1
     ELSE 1 + whole * (CompressBound(ChunkMax) + SizeOfInt)
            + (IF part # 0 THEN CompressBound(part) + SizeOfInt ELSE 0)

ChunksOf_WholeOnly(n) == n \div ChunkMax

ChunksOf(n) == n \div ChunkMax + (IF n % ChunkMax # 0 THEN 1 ELSE 0)

Goes(step, left) == packing' = [step |-> step, left |-> left]
AtWork(step) == packing.step = step
OfPiece(p, length) == [piece |-> p, length |-> length]

TooLarge ==
  /\ AtWork("Compress") /\ inputSize > MaxInputSize
  /\ Goes("Done", 0)
  /\ UNCHANGED <<inputSize, room, compressed, bytesWritten, output, answer>>

\* A zero byte means one chunk, without its length.
CompressOne ==
  /\ AtWork("Compress") /\ inputSize <= ChunkMax
  /\ \E length \in LzLengths(inputSize) :
       /\ compressed' = <<0, OfPiece(<<0, inputSize>>, length)>>
       /\ bytesWritten' = 1 + length
  /\ Goes("Decompress", 0)
  /\ UNCHANGED <<inputSize, room, output, answer>>

CompressMany ==
  /\ AtWork("Compress") /\ inputSize > ChunkMax /\ inputSize <= MaxInputSize
  /\ compressed' = <<AsChar(ChunksOf(inputSize))>>
  /\ bytesWritten' = 1
  /\ Goes("Chunk", inputSize)
  /\ UNCHANGED <<inputSize, room, output, answer>>

\* writeChunk, whole chunks first; left is what remains of the input.
WriteChunk ==
  LET size == IF packing.left >= ChunkMax THEN ChunkMax ELSE packing.left IN
  /\ AtWork("Chunk") /\ packing.left > 0
  /\ \E length \in LzLengths(size) :
       /\ compressed' = compressed \o
            <<length, OfPiece(<<inputSize - packing.left, size>>, length)>>
       /\ bytesWritten' = bytesWritten + SizeOfInt + length
  /\ Goes("Chunk", packing.left - size)
  /\ UNCHANGED <<inputSize, room, output, answer>>

WrittenAll ==
  /\ AtWork("Chunk") /\ packing.left = 0
  /\ Goes("Decompress", 0)
  /\ UNCHANGED <<inputSize, room, compressed, bytesWritten, output, answer>>

LzFailed == Goes("Done", 0) /\ answer' = 0 /\ UNCHANGED output

Unpacked(piece) == output' = Append(output, piece) /\ answer' = answer + piece[2]

\* The number of chunks, and the only chunk if it says zero.
DecompressStart ==
  /\ AtWork("Decompress")
  /\ IF Head(compressed) # 0
     THEN Goes("Unpack", Head(compressed)) /\ UNCHANGED <<output, answer>>
     ELSE IF LzFails(compressed[2], bytesWritten - 1, room) THEN LzFailed
     ELSE Unpacked(compressed[2].piece) /\ Goes("Done", 0)
  /\ compressed' = Tail(compressed)
  /\ UNCHANGED <<inputSize, room, bytesWritten>>

SpaceForChunk == LET space == room - answer IN IF space < ChunkMax THEN space ELSE ChunkMax

DecompressChunk ==
  /\ AtWork("Unpack") /\ packing.left # 0
  /\ IF LzFails(compressed[2], compressed[1], SpaceForChunk) THEN LzFailed
     ELSE Unpacked(compressed[2].piece) /\ Goes("Unpack", packing.left - 1)
  /\ compressed' = SubSeq(compressed, 3, Len(compressed))
  /\ UNCHANGED <<inputSize, room, bytesWritten>>

DecompressEnd ==
  /\ AtWork("Unpack") /\ packing.left = 0
  /\ Goes("Done", 0)
  /\ UNCHANGED <<inputSize, room, compressed, bytesWritten, output, answer>>

LzNext == \/ TooLarge \/ CompressOne \/ CompressMany \/ WriteChunk \/ WrittenAll
          \/ DecompressStart \/ DecompressChunk \/ DecompressEnd

LzSpec == LzInit /\ [][LzNext]_lzVars

-----------------------------------------------------------------------------

BytesOf(pieces) == FoldLeft(LAMBDA sum, p : sum + p[2], 0, pieces)

\* The room that LZ4 is told of: for one chunk it is passed as an int.
RoomTold == IF inputSize <= ChunkMax THEN AsInt(room) ELSE room

\* What CompressToBuffer returns.
CompressReturns == IF inputSize > MaxInputSize THEN 0 ELSE bytesWritten

\* However well each chunk compresses, compressing writes no more than the size
\* that was asked for, which is nothing where there are too many chunks for a char;
\* decompressing writes no more than there is room for, gives the input back byte
\* for byte where LZ4 is told of enough room for it, and fails where it is not
\* (fastCompression.cpp:26-136).
CompressionRoundTrips ==
  /\ bytesWritten <= GetCompressedBufferSize(inputSize)
  /\ BytesOf(output) <= room
  /\ AtWork("Done") /\ inputSize <= MaxInputSize =>
       /\ answer = IF RoomTold >= inputSize THEN inputSize ELSE 0
       /\ answer # 0 =>
            \A i \in DOMAIN output : output[i][1] = BytesOf(SubSeq(output, 1, i - 1))

\* "Issue a runtime error and return ~0 in case of an error" (fastCompression.h:38-39).
TooLargeIsAnError == AtWork("Done") /\ inputSize > MaxInputSize => CompressReturns = -1

\* "Decompress compressedSize bytes in compressed and store the result in output. No
\* more than maxOutputSize bytes will be written": more room does no harm
\* (fastCompression.h:43-45).
EnoughRoomIsEnough ==
  AtWork("Done") /\ inputSize <= MaxInputSize /\ room >= inputSize => answer = inputSize
=============================================================================
