----------------------------- MODULE TiledFrame -----------------------------
(***************************************************************************)
(* What vp9_decode_frame promises of the picture it fills: it returns only *)
(* with every tile decoded from the unfiltered row above it, the rows then *)
(* loop-filtered from the top when the frame asks for it; or it fails.     *)
(* Nothing writes the picture after that.                                  *)
(***************************************************************************)
EXTENDS Naturals

CONSTANTS
  SbRows,     \* superblock rows of a picture
  TileCounts  \* the numbers of tile columns a frame may have

VARIABLES
  decoding,  \* whether a frame is being decoded
  cols,      \* its number of tile columns
  level,     \* whether it is loop-filtered
  tile,      \* what each superblock row of each tile column holds
  result     \* how the last frame ended

frameVars == <<decoding, cols, level, tile, result>>

Rows    == 0 .. SbRows - 1
Columns == UNION {0 .. n - 1 : n \in TileCounts}

Undecoded == [r \in Rows |-> [c \in Columns |-> "old"]]

FrameInit ==
  /\ decoding = FALSE
  /\ cols \in TileCounts
  /\ level = FALSE
  /\ tile = Undecoded
  /\ result = "none"

Begin(n, lf) ==
  /\ ~decoding
  /\ decoding' = TRUE
  /\ cols' = n /\ level' = lf
  /\ tile' = Undecoded
  /\ result' = "none"

Decode(r, c) ==
  /\ decoding
  /\ tile[r][c] = "old"
  /\ r > 0 => tile[r - 1][c] # "old"
  /\ tile' = [tile EXCEPT ![r][c] = "decoded"]
  /\ UNCHANGED <<decoding, cols, level, result>>

(* Rows are filtered in order, a row only when it is decoded completely.   *)
Filter(r) ==
  /\ decoding /\ level
  /\ \A c \in 0 .. cols - 1 : tile[r][c] = "decoded"
  /\ r > 0 => \A c \in 0 .. cols - 1 : tile[r - 1][c] = "filtered"
  /\ tile' = [tile EXCEPT ![r] =
                [c \in Columns |-> IF c < cols THEN "filtered" ELSE @[c]]]
  /\ UNCHANGED <<decoding, cols, level, result>>

Complete ==
  \A r \in Rows, c \in 0 .. cols - 1 :
    tile[r][c] = IF level THEN "filtered" ELSE "decoded"

End ==
  /\ decoding
  /\ decoding' = FALSE
  /\ \/ result' = "complete" /\ Complete
     \/ result' = "failed"
  /\ UNCHANGED <<cols, level, tile>>

(* A frame that fails before any of it is decoded.                         *)
Reject ==
  /\ ~decoding
  /\ result' = "failed"
  /\ UNCHANGED <<decoding, cols, level, tile>>

FrameNext ==
  \/ \E n \in TileCounts, lf \in BOOLEAN : Begin(n, lf)
  \/ \E r \in Rows : Filter(r) \/ \E c \in Columns : Decode(r, c)
  \/ End
  \/ Reject

FrameSpec == FrameInit /\ [][FrameNext]_frameVars

=============================================================================
