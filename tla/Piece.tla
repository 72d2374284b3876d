-------------------------------- MODULE Piece --------------------------------
(***************************************************************************)
(* Piece arithmetic of src/src/piece.zig: how a file of file_size bytes is *)
(* cut into pieces of piece_size bytes, which pieces a byte span touches   *)
(* and which it covers entirely.  A span is [off, off + len).  U32Max and  *)
(* U64Max are maxInt(u32) and maxInt(u64); `+|` saturates at U64Max and an *)
(* index clamps at U32Max, so both are parameters and TLC reaches the      *)
(* clamps with small values.                                               *)
(***************************************************************************)
EXTENDS Integers

CONSTANTS U32Max, U64Max

ASSUME WidthAssumption ==
    /\ U32Max \in Nat \ {0}
    /\ U64Max \in Nat
    /\ U32Max <= U64Max

MinOf(a, b) == IF a <= b THEN a ELSE b

\* Zig's `a +| b` and `a -| b` on u64.
SatAdd(a, b) == MinOf(a + b, U64Max)
SatSub(a, b) == IF a <= b THEN 0 ELSE a - b

DivCeil(n, d) == (n \div d) + (IF n % d # 0 THEN 1 ELSE 0)

\* Number of pieces of a file; a sparse file near the u64 limit clamps.
Count(fileSize, ps) ==
    IF fileSize = 0 \/ ps = 0 THEN 0 ELSE MinOf(DivCeil(fileSize, ps), U32Max)

Offset(idx, ps) == idx * ps

\* Bytes of piece idx: short for the last piece, 0 past the end of the file.
PieceLen(fileSize, idx, ps) ==
    IF Offset(idx, ps) >= fileSize THEN 0
    ELSE MinOf(fileSize - Offset(idx, ps), ps)

IndexAt(off, ps) == IF ps = 0 THEN 0 ELSE MinOf(off \div ps, U32Max)

\* Exclusive end of the bytes some bit of the bitfield can name.
TrackedEnd(fileSize, ps) ==
    LET n == Count(fileSize, ps) IN
    IF n = 0 THEN 0 ELSE Offset(n - 1, ps) + PieceLen(fileSize, n - 1, ps)

RangeTracked(off, len, fileSize, ps) ==
    \/ len = 0
    \/ off >= fileSize
    \/ MinOf(SatAdd(off, len), fileSize) <= TrackedEnd(fileSize, ps)

\* First piece, and one past the last piece, overlapping the span.
CoverStart(off, len, fileSize, ps) ==
    IF len = 0 \/ ps = 0 \/ off >= fileSize THEN 0 ELSE IndexAt(off, ps)

\* Mutant: the span's end is taken for its last byte.
CoverEndInclusive(off, len, fileSize, ps) ==
    IF len = 0 \/ ps = 0 \/ off >= fileSize THEN 0
    ELSE MinOf(IndexAt(MinOf(SatAdd(off, len), fileSize), ps) + 1, U32Max)

CoverEnd(off, len, fileSize, ps) ==
    IF len = 0 \/ ps = 0 \/ off >= fileSize THEN 0
    ELSE MinOf(IndexAt(SatSub(MinOf(SatAdd(off, len), fileSize), 1), ps) + 1, U32Max)

Cover(off, len, fileSize, ps) ==
    CoverStart(off, len, fileSize, ps) .. CoverEnd(off, len, fileSize, ps) - 1

\* The pieces entirely inside the span.
FullCover(off, len, ps) ==
    LET first == DivCeil(off, ps)
        stop  == SatAdd(off, len) \div ps
    IN  IF len = 0 \/ ps = 0 THEN {}
        ELSE IF first >= stop THEN {}
        ELSE MinOf(first, U32Max) .. MinOf(stop, U32Max) - 1

\* Bytes a bitfield of nbits bits occupies; byteBits is 8 in the code.
BytesLen(nbits, byteBits) == (nbits + byteBits - 1) \div byteBits
=============================================================================
