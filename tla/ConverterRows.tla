---------------------------- MODULE ConverterRows ----------------------------
(***************************************************************************)
(* The loops of ColorConversions.c that convert a picture row by row, or   *)
(* by pairs of rows where two rows share their chroma, and the ones that   *)
(* clear it.  A sample is a plane, a row, a column and the number of low   *)
(* bits shifted out of it; out is what has been written so far, a function *)
(* of rows and bytes, so that a byte nobody writes is not in its domain.   *)
(***************************************************************************)
EXTENDS Integers

CONSTANTS
  Widths, Heights,   \* of the pictures
  MaxOverrun         \* blocks followed of a loop that missed its end

Converts420 == {"Y420toY422_x86_scalar", "Y420toY422_sse2", "Y420_10toY422_8",
                "Y420_10toY422_8_sse2"}
ConvertsRGB == {"BGR24toRGB24", "RGB24toRGB24", "RGB32toRGB32Copy", "RGB32toARGB",
                "RGB32toRGB32Swap"}
Clears      == {"ClearY422", "ClearRGB24", "ClearRGB32", "ClearV408"}
Functions   == Converts420 \cup {"Y422toY422", "YA420toV408"} \cup ConvertsRGB \cup Clears

TenBit == {"Y420_10toY422_8", "Y420_10toY422_8_sse2"}

ASSUME SizeAssumption ==
  Widths \subseteq Nat \ {0} /\ Heights \subseteq Nat \ {0} /\ MaxOverrun \in Nat

VARIABLES
  convert, width, height,   \* the function called and its arguments
  y,                        \* its row or pair of rows
  n,                        \* vector blocks left in these rows
  out,
  pc

vars == <<convert, width, height, y, n, out, pc>>

(* The 10-bit functions exclude single rows and columns as impossible.     *)
Convertible(c, w, h) == c \in TenBit => w > 1 /\ h > 1

Init ==
  /\ convert \in Functions /\ width \in Widths /\ height \in Heights
  /\ Convertible(convert, width, height)
  /\ y = 0 /\ n = 0
  /\ out = [b \in {} |-> <<>>]
  /\ pc = "rows"

Sample(plane, row, column) == <<plane, row, column, IF convert \in TenBit THEN 2 ELSE 0>>

halfwidth  == width \div 2
halfheight == height \div 2

(* Bytes are written over those that are there.                            *)
Over(f, g) ==
  [b \in DOMAIN f \cup DOMAIN g |-> IF b \in DOMAIN f THEN f[b] ELSE g[b]]

Write(bytes) == out' = Over(bytes, out)

-----------------------------------------------------------------------------
(* Two luma samples and their chroma, packed as U Y V Y, for every chroma  *)
(* column in xs.                                                           *)
Packed(row, chromaRow, xs) ==
  [b \in {<<row, 4 * x + i>> : x \in xs, i \in 0 .. 3} |->
     LET x == b[2] \div 4
     IN  CASE b[2] % 4 = 0 -> Sample("U", chromaRow, x)
           [] b[2] % 4 = 1 -> Sample("Y", row, 2 * x)
           [] b[2] % 4 = 2 -> Sample("V", chromaRow, x)
           [] b[2] % 4 = 3 -> Sample("Y", row, 2 * x + 1)]

(* Vector registers, as functions of their lanes                           *)
Load(plane, row, column, lanes) == [i \in 0 .. lanes - 1 |-> <<plane, row, column + i, 0>>]

Unpacklo(a, b) == [i \in 0 .. 15 |-> IF i % 2 = 0 THEN a[i \div 2] ELSE b[i \div 2]]
Unpackhi(a, b) == [i \in 0 .. 15 |-> IF i % 2 = 0 THEN a[8 + i \div 2] ELSE b[8 + i \div 2]]
Srli2(a)       == [i \in DOMAIN a |-> [a[i] EXCEPT ![4] = @ + 2]]
Packus(a, b)   == [i \in 0 .. 15 |-> IF i < 8 THEN a[i] ELSE b[i - 8]]

(* Block k of a row in Y420toY422_sse2: 32 luma samples                    *)
Block8(row, k) ==
  LET u  == Load("U", y, 16 * k, 16)
      v  == Load("V", y, 16 * k, 16)
      y0 == Load("Y", row, 32 * k, 16)
      y1 == Load("Y", row, 32 * k + 16, 16)
      lo == Unpacklo(u, v)
      hi == Unpackhi(u, v)
      stored == <<Unpacklo(lo, y0), Unpackhi(lo, y0), Unpacklo(hi, y1), Unpackhi(hi, y1)>>
  IN  [b \in {<<row, 64 * k + i>> : i \in 0 .. 63} |->
         stored[1 + ((b[2] - 64 * k) \div 16)][b[2] % 16]]

(* Block k of a row in Y420_10toY422_8_sse2: 16 luma samples               *)
Block10(row, k) ==
  LET u  == Srli2(Load("U", y, 8 * k, 8))
      v  == Srli2(Load("V", y, 8 * k, 8))
      yy == Packus(Srli2(Load("Y", row, 16 * k, 8)), Srli2(Load("Y", row, 16 * k + 8, 8)))
      xs == {x \in 8 * k .. 8 * k + 7 : 4 * x + 3 < width * 2}
  IN  [b \in {<<row, 4 * x + i>> : x \in xs, i \in 0 .. 3} |->
         LET i == (b[2] \div 4) - 8 * k
         IN  CASE b[2] % 4 = 0 -> u[i]
               [] b[2] % 4 = 1 -> yy[2 * i]
               [] b[2] % 4 = 2 -> v[i]
               [] b[2] % 4 = 3 -> yy[2 * i + 1]]

(* A faulty width: one block for a rest of the row as well.                *)
vWidthRoundedUp ==
  CASE convert = "Y420toY422_sse2"      -> (width + 31) \div 32
    [] convert = "Y420_10toY422_8_sse2" -> (halfwidth + 7) \div 8
    [] OTHER                            -> 0

(* vWidth, the blocks in a row *)
vWidth ==
  CASE convert = "Y420toY422_sse2"      -> width \div 32
    [] convert = "Y420_10toY422_8_sse2" -> halfwidth \div 8
    [] OTHER                            -> 0

(* The columns of chroma in a block *)
BlockColumns == IF convert = "Y420toY422_sse2" THEN 16 ELSE 8

-----------------------------------------------------------------------------
(* The intrinsics of the 10-bit function are in a for loop.  The assembly  *)
(* of Y420toY422_sse2 has its only test at the end, so that a first block  *)
(* is always run.                                                          *)
EntersBlocks == vWidth > 0 \/ convert = "Y420toY422_sse2"

(* The functions for 4:2:0 video take two rows at a time.                  *)
RowPair ==
  /\ pc = "rows"
  /\ convert \in Converts420
  /\ y < halfheight
  /\ n' = vWidth
  /\ pc' = IF EntersBlocks THEN "vector" ELSE "scalar"
  /\ UNCHANGED <<convert, width, height, y, out>>

(* One block of both rows; the loop ends when its count reaches zero.  A   *)
(* count that starts there is followed for MaxOverrun blocks of the 2^32   *)
(* it takes to come round.                                                 *)
Vector ==
  LET Block(row, k) ==
        IF convert = "Y420toY422_sse2" THEN Block8(row, k) ELSE Block10(row, k)
  IN  /\ pc = "vector"
      /\ n > -MaxOverrun
      /\ Write(Over(Block(2 * y, vWidth - n), Block(2 * y + 1, vWidth - n)))
      /\ n' = n - 1
      /\ pc' = IF n' = 0 THEN "scalar" ELSE "vector"
      /\ UNCHANGED <<convert, width, height, y>>

(* What the blocks leave of the rows, or all of them *)
Scalar ==
  LET rest == vWidth * BlockColumns .. halfwidth - 1
  IN  /\ pc = "scalar"
      /\ Write(Over(Packed(2 * y, y, rest), Packed(2 * y + 1, y, rest)))
      /\ y' = y + 1
      /\ pc' = "rows"
      /\ UNCHANGED <<convert, width, height, n>>

(* A faulty end: an odd last row is forgotten.                             *)
LastRowForgotten ==
  /\ pc = "rows"
  /\ convert \in Converts420
  /\ y = halfheight
  /\ pc' = "done"
  /\ UNCHANGED <<convert, width, height, y, n, out>>

(* HandleLastRow, and its counterparts for 10 bits *)
LastRow ==
  /\ pc = "rows"
  /\ convert \in Converts420
  /\ y = halfheight
  /\ IF height % 2 = 1 THEN Write(Packed(2 * y, y, 0 .. halfwidth - 1)) ELSE UNCHANGED out
  /\ pc' = "done"
  /\ UNCHANGED <<convert, width, height, y, n>>

-----------------------------------------------------------------------------
(* The byte of the source pixel that goes to byte i of the destination's   *)
SourceByte(i) ==
  CASE convert = "BGR24toRGB24"     -> 2 - i
    [] convert = "RGB32toARGB"      -> (i + 3) % 4
    [] convert = "RGB32toRGB32Swap" -> 3 - i
    [] OTHER                        -> i

BytesPerPixel ==
  CASE convert \in {"BGR24toRGB24", "RGB24toRGB24", "ClearRGB24"} -> 3
    [] convert = "ClearY422"                                      -> 2
    [] OTHER                                                      -> 4

RowBytes == {<<y, b>> : b \in 0 .. BytesPerPixel * width - 1}

RGBRow ==
  [b \in RowBytes |->
     LET x == b[2] \div BytesPerPixel
     IN  Sample("RGB", y, BytesPerPixel * x + SourceByte(b[2] % BytesPerPixel))]

(* Row y of YA420toV408; the chroma pointers advance after each odd row.   *)
V408Row ==
  [b \in RowBytes |->
     LET x == b[2] \div 4
     IN  CASE b[2] % 4 = 0 -> Sample("U", y \div 2, x \div 2)
           [] b[2] % 4 = 1 -> Sample("Y", y, x)
           [] b[2] % 4 = 2 -> Sample("V", y \div 2, x \div 2)
           [] b[2] % 4 = 3 -> Sample("A", y, x)]

(* A faulty clearing: by pairs of columns, like the conversions.           *)
ClearedPairs ==
  [b \in {<<y, i>> : i \in 0 .. BytesPerPixel * 2 * halfwidth - 1} |->
     CASE convert = "ClearY422" -> <<128, 16>>[1 + (b[2] % 2)]
       [] convert = "ClearV408" -> <<128, 16, 128, 235>>[1 + (b[2] % 4)]
       [] OTHER                 -> 0]

(* Row y of the functions that clear *)
ClearedRow ==
  [b \in RowBytes |->
     CASE convert = "ClearY422" -> <<128, 16>>[1 + (b[2] % 2)]
       [] convert = "ClearV408" -> <<128, 16, 128, 235>>[1 + (b[2] % 4)]
       [] OTHER                 -> 0]

(* The other functions take one row at a time.                             *)
Row ==
  /\ pc = "rows"
  /\ convert \notin Converts420
  /\ y < height
  /\ Write(CASE convert = "Y422toY422"  -> Packed(y, y, 0 .. halfwidth - 1)
             [] convert = "YA420toV408" -> V408Row
             [] convert \in ConvertsRGB -> RGBRow
             [] convert \in Clears      -> ClearedRow)
  /\ y' = y + 1
  /\ UNCHANGED <<convert, width, height, n, pc>>

Finish ==
  /\ pc = "rows"
  /\ convert \notin Converts420
  /\ y = height
  /\ pc' = "done"
  /\ UNCHANGED <<convert, width, height, y, n, out>>

Next == RowPair \/ Vector \/ Scalar \/ LastRow \/ Row \/ Finish

Spec == Init /\ [][Next]_vars

-----------------------------------------------------------------------------
(* Properties *)

(* The components of a pixel of the source and of the destination, in the  *)
(* order of their names in FFmpeg and in QuickTime.                        *)
SourceOrder ==
  CASE convert = "BGR24toRGB24"     -> <<"B", "G", "R">>
    [] convert = "RGB32toRGB32Copy" -> <<"A", "R", "G", "B">>
    [] convert = "RGB32toARGB"      -> <<"R", "G", "B", "A">>
    [] convert = "RGB32toRGB32Swap" -> <<"B", "G", "R", "A">>
    [] OTHER                        -> <<"R", "G", "B">>

DestinationOrder ==
  IF convert \in ConvertsRGB
  THEN IF BytesPerPixel = 3 THEN <<"R", "G", "B">> ELSE <<"A", "R", "G", "B">>
  ELSE IF convert = "YA420toV408" THEN <<"U", "Y", "V", "A">> ELSE <<"U", "Y", "V", "Y">>

Subsampled(plane) == plane \in {"U", "V"}

(* What a reader of the destination expects at a byte: the component of    *)
(* its pixel, taken from the same place of the source picture.             *)
Expected(row, b) ==
  LET order     == DestinationOrder
      size      == IF order = <<"U", "Y", "V", "Y">> THEN 2 ELSE BytesPerPixel
      x         == b \div size
      component == order[1 + (b % (IF size = 2 THEN 4 ELSE size))]
  IN  IF convert \in ConvertsRGB
      THEN Sample("RGB", row,
                  size * x + (CHOOSE i \in 1 .. size : SourceOrder[i] = component) - 1)
      ELSE Sample(component,
                  IF Subsampled(component) /\ convert # "Y422toY422" THEN row \div 2 ELSE row,
                  IF Subsampled(component) THEN x \div 2 ELSE x)

(* The bytes of the destination's pixels; 4:2:2 has them in pairs, and the *)
(* last column of an odd width is lost (ColorConversions.c:52).            *)
Destination ==
  LET bytes == IF DestinationOrder[1] = "U" /\ convert \notin {"YA420toV408"} \cup Clears
               THEN 4 * halfwidth ELSE BytesPerPixel * width
  IN  {<<row, b>> : row \in 0 .. height - 1, b \in 0 .. bytes - 1}

(* FindFor picks Y420toY422_sse2 at any width, but below 32 the count of   *)
(* its assembly loop starts at zero, and the loop runs away; not with a    *)
(* single row, which has no pair to enter the loop for.                    *)
Narrow == convert = "Y420toY422_sse2" /\ width < 32 /\ height > 1

(* But for narrow pictures, the functions write nothing outside of the     *)
(* picture, and read nothing but the samples that the planes of a picture  *)
(* of this size have: blocks, the rest of a row and the last row all stop  *)
(* at the edge.                                                            *)
InsideThePicture ==
  ~Narrow =>
  /\ DOMAIN out \subseteq Destination
  /\ convert \notin Clears => \A b \in DOMAIN out :
       LET s == out[b]
       IN  /\ s[2] < IF Subsampled(s[1]) /\ convert # "Y422toY422"
                     THEN (height + 1) \div 2 ELSE height
           /\ s[3] < IF Subsampled(s[1]) THEN (width + 1) \div 2
                     ELSE IF s[1] = "RGB" THEN BytesPerPixel * width ELSE width

(* But for narrow pictures, each of the eleven converters leaves every     *)
(* pixel of the picture converted: vector blocks, the rest of a row and an *)
(* odd last row meet without a gap, and the SSE2 functions agree with the  *)
(* scalar ones.                                                            *)
EveryPixelConverted ==
  pc = "done" /\ convert \notin Clears /\ ~Narrow =>
    out = [b \in Destination |-> Expected(b[1], b[2])]

(* A cleared picture is black all over, its last odd column included.      *)
ClearedToBlack ==
  pc = "done" /\ convert \in Clears =>
    /\ DOMAIN out = Destination
    /\ \A b \in Destination :
         out[b] = CASE convert = "ClearY422" -> IF b[2] % 2 = 0 THEN 128 ELSE 16
                    [] convert = "ClearV408" ->
                         IF b[2] % 4 = 1 THEN 16 ELSE IF b[2] % 4 = 3 THEN 235 ELSE 128
                    [] OTHER                 -> 0

=============================================================================
