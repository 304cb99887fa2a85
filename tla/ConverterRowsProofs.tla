-------------------------- MODULE ConverterRowsProofs --------------------------
(***************************************************************************)
(* Proofs about ConverterRows, for pictures of any size; of the narrow     *)
(* ones, whose conversion runs away, nothing is claimed.                   *)
(***************************************************************************)
EXTENDS ConverterRows, TLAPS

(* The bytes of a line of the destination that are written.                *)
LineBytes ==
  IF convert \in Converts420 \cup {"Y422toY422"} THEN 4 * halfwidth ELSE BytesPerPixel * width

(* What each byte of the destination is to hold, cleared or converted.     *)
Black(b) ==
  CASE convert = "ClearY422" -> IF b % 2 = 0 THEN 128 ELSE 16
    [] convert = "ClearV408" -> IF b % 4 = 1 THEN 16 ELSE IF b % 4 = 3 THEN 235 ELSE 128
    [] OTHER                 -> 0

Due(t) == IF convert \in Clears THEN Black(t[2]) ELSE Expected(t[1], t[2])

(* How far the loops have got: the rows before the present ones and, of    *)
(* these, the blocks that are through.                                     *)
Blocks == IF pc = "vector" THEN vWidth - n ELSE vWidth

Reached(r, b) ==
  \/ pc = "done"
  \/ convert \notin Converts420 /\ r < y
  \/ /\ convert \in Converts420
     /\ r < 2 * y \/ (pc \in {"vector", "scalar"} /\ r < 2 * y + 2 /\ b < 4 * BlockColumns * Blocks)

Line(r, from, to) == {<<r, b>> : b \in from .. to - 1}
Covered == {t \in Destination : Reached(t[1], t[2])}

(* The sizes and counters, but for narrow pictures                         *)
LoopInv ==
  /\ ~Narrow
  /\ convert \in Functions /\ width \in Nat \ {0} /\ height \in Nat \ {0}
  /\ y \in Nat /\ n \in Nat
  /\ pc \in {"rows", "vector", "scalar", "done"}
  /\ convert \notin Converts420 => pc \in {"rows", "done"} /\ y <= height
  /\ convert \in Converts420 => y <= halfheight
  /\ pc \in {"vector", "scalar"} => y < halfheight
  /\ pc = "vector" => 1 <= n /\ n <= vWidth

(* So far the destination holds just what it is to hold.                   *)
RowsInv == LoopInv /\ out = [t \in Covered |-> Due(t)]

(* The loop of a narrow picture never leaves its first pair of rows.       *)
NarrowInv ==
  /\ Narrow /\ width \in Nat /\ height \in Nat
  /\ y = 0 /\ n \in Int /\ n <= 0
  /\ pc \in {"rows", "vector"}

-----------------------------------------------------------------------------
LEMMA SameDue ==
  ASSUME convert' = convert
  PROVE  \A t : Due(t)' = Due(t)
BY DEF Due, Black, Expected, DestinationOrder, SourceOrder, BytesPerPixel, Sample

(* What is written is added to what is there.                              *)
LEMMA Added ==
  ASSUME NEW S, NEW T
  PROVE  Over([t \in S |-> Due(t)], [t \in T |-> Due(t)]) = [t \in S \cup T |-> Due(t)]
BY DEF Over

LEMMA Tuple2 == \A a, b : <<a, b>>[1] = a /\ <<a, b>>[2] = b
OBVIOUS

LEMMA Shifted == \A p, r, c, v : [<<p, r, c, 0>> EXCEPT ![4] = @ + 2] = <<p, r, c, 2>>
OBVIOUS

LEMMA ChooseOne ==
  ASSUME NEW S, NEW order, NEW c, NEW e \in S, order[e] = c,
         \A i \in S : order[i] = c => i = e
  PROVE  (CHOOSE i \in S : order[i] = c) = e
OBVIOUS

(* A byte of a packed pair of pixels                                       *)
LEMMA Quotients ==
  ASSUME NEW x \in Nat, NEW i \in 0 .. 3
  PROVE  /\ (4 * x + i) \div 4 = x /\ (4 * x + i) % 4 = i
         /\ (4 * x + i) \div 2 = 2 * x + (i \div 2)
         /\ ((4 * x + i) \div 2) \div 2 = x
OBVIOUS

LEMMA LastByte ==
  ASSUME NEW b \in Nat
  PROVE  /\ b \div 4 \in Nat /\ b % 4 \in 0 .. 3 /\ b = 4 * (b \div 4) + (b % 4)
OBVIOUS

-----------------------------------------------------------------------------
(* What 4:2:2 bytes are due.                                               *)
ChromaRow(r) == IF convert = "Y422toY422" THEN r ELSE r \div 2

PackedSample(r, x, i) ==
  IF i = 0 THEN Sample("U", ChromaRow(r), x)
  ELSE IF i = 1 THEN Sample("Y", r, 2 * x)
  ELSE IF i = 2 THEN Sample("V", ChromaRow(r), x)
  ELSE Sample("Y", r, 2 * x + 1)

Converts422 == Converts420 \cup {"Y422toY422"}

LEMMA DuePacked ==
  ASSUME convert \in Converts422, NEW r \in Nat, NEW b \in Nat
  PROVE  Due(<<r, b>>) = PackedSample(r, b \div 4, b % 4)
<1>1. /\ convert \notin Clears /\ convert \notin ConvertsRGB
      /\ DestinationOrder = <<"U", "Y", "V", "Y">>
  BY DEF Converts422, Converts420, Clears, ConvertsRGB, DestinationOrder
<1>2. Due(<<r, b>>) = Expected(r, b)
  BY <1>1 DEF Due
<1> PICK i \in 0 .. 3 : i = b % 4
  OBVIOUS
<1>3. b \div 2 = 2 * (b \div 4) + (i \div 2) /\ (b \div 2) \div 2 = b \div 4
  OBVIOUS
<1>4. Expected(r, b) =
        LET component == <<"U", "Y", "V", "Y">>[1 + i]
        IN  Sample(component,
                   IF Subsampled(component) THEN ChromaRow(r) ELSE r,
                   IF Subsampled(component) THEN b \div 4 ELSE 2 * (b \div 4) + (i \div 2))
  BY <1>1, <1>3 DEF Expected, ChromaRow
<1>5. CASE i = 0
  BY <1>2, <1>4, <1>5 DEF PackedSample, Subsampled
<1>6. CASE i = 1
  BY <1>2, <1>4, <1>6 DEF PackedSample, Subsampled
<1>7. CASE i = 2
  BY <1>2, <1>4, <1>7 DEF PackedSample, Subsampled
<1>8. CASE i = 3
  BY <1>2, <1>4, <1>8 DEF PackedSample, Subsampled
<1> QED  BY <1>5, <1>6, <1>7, <1>8

(* The bytes of a range of chroma columns.                                 *)
LEMMA PackedLine ==
  ASSUME NEW r \in Nat, NEW from \in Nat, NEW to \in Nat
  PROVE  {<<r, 4 * x + i>> : x \in from .. to - 1, i \in 0 .. 3} = Line(r, 4 * from, 4 * to)
<1>1. ASSUME NEW x \in from .. to - 1, NEW i \in 0 .. 3
      PROVE  4 * x + i \in 4 * from .. 4 * to - 1
  OBVIOUS
<1>2. ASSUME NEW b \in 4 * from .. 4 * to - 1
      PROVE  \E x \in from .. to - 1, i \in 0 .. 3 : b = 4 * x + i
  <2>1. /\ b \div 4 \in from .. to - 1 /\ b % 4 \in 0 .. 3 /\ b = 4 * (b \div 4) + (b % 4)
    OBVIOUS
  <2> QED  BY <2>1
<1> QED  BY <1>1, <1>2 DEF Line

LEMMA PackedDue ==
  ASSUME convert \in Converts422, NEW r \in Nat, NEW from \in Nat, width \in Nat
  PROVE  Packed(r, ChromaRow(r), from .. halfwidth - 1)
           = [t \in Line(r, 4 * from, 4 * halfwidth) |-> Due(t)]
<1> DEFINE S == {<<r, 4 * x + i>> : x \in from .. halfwidth - 1, i \in 0 .. 3}
<1>1. halfwidth \in Nat
  BY DEF halfwidth
<1>2. S = Line(r, 4 * from, 4 * halfwidth)
  BY <1>1, PackedLine
<1>3. ASSUME NEW t \in S
      PROVE  (LET x == t[2] \div 4
              IN  CASE t[2] % 4 = 0 -> Sample("U", ChromaRow(r), x)
                    [] t[2] % 4 = 1 -> Sample("Y", r, 2 * x)
                    [] t[2] % 4 = 2 -> Sample("V", ChromaRow(r), x)
                    [] t[2] % 4 = 3 -> Sample("Y", r, 2 * x + 1)) = Due(t)
  <2> PICK b \in 4 * from .. 4 * halfwidth - 1 : t = <<r, b>>
    BY <1>2 DEF Line
  <2>1. b \in Nat /\ t[2] = b
    BY <1>1
  <2>2. Due(t) = PackedSample(r, b \div 4, b % 4)
    BY <2>1, DuePacked
  <2> HIDE DEF S
  <2> PICK i \in 0 .. 3 : i = b % 4
    BY <2>1
  <2>3. CASE i = 0  BY <2>1, <2>2, <2>3 DEF PackedSample
  <2>4. CASE i = 1  BY <2>1, <2>2, <2>4 DEF PackedSample
  <2>5. CASE i = 2  BY <2>1, <2>2, <2>5 DEF PackedSample
  <2>6. CASE i = 3  BY <2>1, <2>2, <2>6 DEF PackedSample
  <2> QED  BY <2>3, <2>4, <2>5, <2>6
<1> QED  BY <1>2, <1>3 DEF Packed

-----------------------------------------------------------------------------
(* The vector registers: chroma interleaved, then with luma, is the order  *)
(* of the destination.                                                     *)
LEMMA Interleaved ==
  ASSUME NEW u, NEW v, NEW w, NEW j \in 0 .. 15
  PROVE  /\ Unpacklo(Unpacklo(u, v), w)[j] =
              IF j % 4 = 0 THEN u[j \div 4] ELSE IF j % 4 = 2 THEN v[j \div 4] ELSE w[j \div 2]
         /\ Unpackhi(Unpacklo(u, v), w)[j] =
              IF j % 4 = 0 THEN u[4 + j \div 4] ELSE IF j % 4 = 2 THEN v[4 + j \div 4]
              ELSE w[8 + j \div 2]
         /\ Unpacklo(Unpackhi(u, v), w)[j] =
              IF j % 4 = 0 THEN u[8 + j \div 4] ELSE IF j % 4 = 2 THEN v[8 + j \div 4]
              ELSE w[j \div 2]
         /\ Unpackhi(Unpackhi(u, v), w)[j] =
              IF j % 4 = 0 THEN u[12 + j \div 4] ELSE IF j % 4 = 2 THEN v[12 + j \div 4]
              ELSE w[8 + j \div 2]
<1>1. /\ j % 2 = 1 <=> j % 4 \in {1, 3}
      /\ j % 4 = 0 => j % 2 = 0 /\ (j \div 2) % 2 = 0 /\ (j \div 2) \div 2 = j \div 4
      /\ j % 4 = 2 => j % 2 = 0 /\ (j \div 2) % 2 = 1 /\ (j \div 2) \div 2 = j \div 4
      /\ j % 4 = 0 => (8 + (j \div 2)) % 2 = 0 /\ (8 + (j \div 2)) \div 2 = 4 + (j \div 4)
      /\ j % 4 = 2 => (8 + (j \div 2)) % 2 = 1 /\ (8 + (j \div 2)) \div 2 = 4 + (j \div 4)
      /\ j % 4 \in 0 .. 3 /\ j \div 2 \in 0 .. 7 /\ 8 + (j \div 2) \in 0 .. 15
      /\ j % 2 \in {0, 1} /\ j \div 2 \in 0 .. 15 /\ j \div 4 \in 0 .. 3
  OBVIOUS
<1>2. /\ Unpacklo(Unpacklo(u, v), w)[j] =
           IF j % 2 = 0 THEN Unpacklo(u, v)[j \div 2] ELSE w[j \div 2]
      /\ Unpackhi(Unpacklo(u, v), w)[j] =
           IF j % 2 = 0 THEN Unpacklo(u, v)[8 + j \div 2] ELSE w[8 + j \div 2]
      /\ Unpacklo(Unpackhi(u, v), w)[j] =
           IF j % 2 = 0 THEN Unpackhi(u, v)[j \div 2] ELSE w[j \div 2]
      /\ Unpackhi(Unpackhi(u, v), w)[j] =
           IF j % 2 = 0 THEN Unpackhi(u, v)[8 + j \div 2] ELSE w[8 + j \div 2]
  BY DEF Unpacklo, Unpackhi
<1>3. \A m \in 0 .. 15 :
        /\ Unpacklo(u, v)[m] = IF m % 2 = 0 THEN u[m \div 2] ELSE v[m \div 2]
        /\ Unpackhi(u, v)[m] = IF m % 2 = 0 THEN u[8 + m \div 2] ELSE v[8 + m \div 2]
  BY DEF Unpacklo, Unpackhi
<1>4. CASE j % 4 \in {1, 3}
  BY <1>1, <1>2, <1>4
<1>5. CASE j % 4 \in {0, 2}
  <2>1. /\ Unpacklo(u, v)[j \div 2] = IF j % 4 = 0 THEN u[j \div 4] ELSE v[j \div 4]
        /\ Unpacklo(u, v)[8 + j \div 2] = IF j % 4 = 0 THEN u[4 + j \div 4] ELSE v[4 + j \div 4]
        /\ Unpackhi(u, v)[j \div 2] = IF j % 4 = 0 THEN u[8 + j \div 4] ELSE v[8 + j \div 4]
    BY <1>1, <1>3, <1>5
  <2>2. Unpackhi(u, v)[8 + j \div 2] = IF j % 4 = 0 THEN u[12 + j \div 4] ELSE v[12 + j \div 4]
    <3>1. 8 + (4 + (j \div 4)) = 12 + (j \div 4)
      BY <1>1
    <3> QED  BY <1>1, <1>3, <1>5, <3>1
  <2> QED  BY <1>1, <1>2, <1>5, <2>1, <2>2
<1> QED  BY <1>1, <1>4, <1>5

LEMMA ShiftedLane ==
  ASSUME NEW a, NEW i \in DOMAIN a, NEW p, NEW r, NEW c, a[i] = <<p, r, c, 0>>
  PROVE  Srli2(a)[i] = <<p, r, c, 2>>
<1>1. Srli2(a)[i] = [a[i] EXCEPT ![4] = @ + 2]
  BY DEF Srli2
<1> QED  BY <1>1, Shifted

LEMMA LineShifted ==
  ASSUME NEW r, NEW from \in Nat, NEW m \in Nat
  PROVE  {<<r, from + i>> : i \in 0 .. m - 1} = Line(r, from, from + m)
<1>1. ASSUME NEW i \in 0 .. m - 1
      PROVE  from + i \in from .. from + m - 1
  OBVIOUS
<1>2. ASSUME NEW b \in from .. from + m - 1
      PROVE  b - from \in 0 .. m - 1 /\ b = from + (b - from)
  OBVIOUS
<1> QED  BY <1>1, <1>2 DEF Line

(* A block of Y420toY422_sse2 holds what the scalar loop would write.      *)
LEMMA Block8Due ==
  ASSUME convert = "Y420toY422_sse2", y \in Nat, NEW k \in Nat, NEW row \in {2 * y, 2 * y + 1}
  PROVE  Block8(row, k) = [t \in Line(row, 64 * k, 64 * k + 64) |-> Due(t)]
<1> DEFINE u  == Load("U", y, 16 * k, 16)
           v  == Load("V", y, 16 * k, 16)
           y0 == Load("Y", row, 32 * k, 16)
           y1 == Load("Y", row, 32 * k + 16, 16)
           stored == <<Unpacklo(Unpacklo(u, v), y0), Unpackhi(Unpacklo(u, v), y0),
                       Unpacklo(Unpackhi(u, v), y1), Unpackhi(Unpackhi(u, v), y1)>>
<1>1. row \in Nat /\ ChromaRow(row) = y /\ convert \in Converts422 /\ convert \notin TenBit
  BY DEF ChromaRow, Converts422, Converts420, TenBit
<1>2. Block8(row, k) = [t \in {<<row, 64 * k + i>> : i \in 0 .. 63} |->
                          stored[1 + ((t[2] - 64 * k) \div 16)][t[2] % 16]]
  BY DEF Block8
<1>3. {<<row, 64 * k + i>> : i \in 0 .. 63} = Line(row, 64 * k, 64 * k + 64)
  <2>1. 64 * k \in Nat /\ 64 - 1 = 63
    OBVIOUS
  <2>2. {<<row, 64 * k + i>> : i \in 0 .. 64 - 1} = Line(row, 64 * k, 64 * k + 64)
    BY <2>1, LineShifted
  <2> QED  BY <2>1, <2>2
<1>4. \A i \in 0 .. 15 : /\ u[i] = <<"U", y, 16 * k + i, 0>> /\ v[i] = <<"V", y, 16 * k + i, 0>>
                         /\ y0[i] = <<"Y", row, 32 * k + i, 0>>
                         /\ y1[i] = <<"Y", row, (32 * k + 16) + i, 0>>
  BY DEF Load
<1>9. /\ stored[1] = Unpacklo(Unpacklo(u, v), y0) /\ stored[2] = Unpackhi(Unpacklo(u, v), y0)
      /\ stored[3] = Unpacklo(Unpackhi(u, v), y1) /\ stored[4] = Unpackhi(Unpackhi(u, v), y1)
  OBVIOUS
<1> HIDE DEF u, v, y0, y1, stored
<1>5. ASSUME NEW b \in 64 * k .. 64 * k + 63
      PROVE  stored[1 + ((b - 64 * k) \div 16)][b % 16] = PackedSample(row, b \div 4, b % 4)
  <2> PICK q \in 0 .. 3, j \in 0 .. 15 : q = (b - 64 * k) \div 16 /\ j = b % 16
    OBVIOUS
  <2> PICK a \in 0 .. 3, s \in 0 .. 3 : a = j \div 4 /\ s = j % 4
    OBVIOUS
  <2>1. /\ b = 64 * k + 16 * q + j /\ j = 4 * a + s
        /\ b \div 4 = 16 * k + 4 * q + a /\ b % 4 = s
    OBVIOUS
  <2>2. \A plane, r, c : Sample(plane, r, c) = <<plane, r, c, 0>>
    BY <1>1 DEF Sample
  <2>3. PackedSample(row, b \div 4, b % 4) =
          IF s = 0 THEN <<"U", y, 16 * k + 4 * q + a, 0>>
          ELSE IF s = 2 THEN <<"V", y, 16 * k + 4 * q + a, 0>>
          ELSE <<"Y", row, 32 * k + 8 * q + 2 * a + (s \div 2), 0>>
    <3>1. CASE s = 0  BY <1>1, <2>1, <2>2, <3>1 DEF PackedSample
    <3>2. CASE s = 1
      <4>1. 2 * (b \div 4) = 32 * k + 8 * q + 2 * a + (s \div 2)
        BY <2>1, <3>2
      <4> QED  BY <2>1, <2>2, <3>2, <4>1 DEF PackedSample
    <3>3. CASE s = 2  BY <1>1, <2>1, <2>2, <3>3 DEF PackedSample
    <3>4. CASE s = 3
      <4>1. 2 * (b \div 4) + 1 = 32 * k + 8 * q + 2 * a + (s \div 2)
        BY <2>1, <3>4
      <4> QED  BY <2>1, <2>2, <3>4, <4>1 DEF PackedSample
    <3> QED  BY <3>1, <3>2, <3>3, <3>4
  <2>4. /\ a \in 0 .. 15 /\ 4 + a \in 0 .. 15 /\ 8 + a \in 0 .. 15 /\ 12 + a \in 0 .. 15
        /\ j \div 2 \in 0 .. 15 /\ 8 + j \div 2 \in 0 .. 15
        /\ s # 0 /\ s # 2 => j \div 2 = 2 * a + (s \div 2)
    BY <2>1
  <2>5. /\ Unpacklo(Unpacklo(u, v), y0)[j] =
             IF s = 0 THEN u[a] ELSE IF s = 2 THEN v[a] ELSE y0[j \div 2]
        /\ Unpackhi(Unpacklo(u, v), y0)[j] =
             IF s = 0 THEN u[4 + a] ELSE IF s = 2 THEN v[4 + a] ELSE y0[8 + j \div 2]
        /\ Unpacklo(Unpackhi(u, v), y1)[j] =
             IF s = 0 THEN u[8 + a] ELSE IF s = 2 THEN v[8 + a] ELSE y1[j \div 2]
        /\ Unpackhi(Unpackhi(u, v), y1)[j] =
             IF s = 0 THEN u[12 + a] ELSE IF s = 2 THEN v[12 + a] ELSE y1[8 + j \div 2]
    BY Interleaved
  <2>6. stored[1 + ((b - 64 * k) \div 16)][b % 16] = stored[1 + q][j]
    OBVIOUS
  <2>7. CASE q = 0
    <3>1. stored[1 + q][j] =
            IF s = 0 THEN u[a] ELSE IF s = 2 THEN v[a] ELSE y0[j \div 2]
      BY <1>9, <2>5, <2>7
    <3>2. /\ u[a] = <<"U", y, 16 * k + (a), 0>>
          /\ v[a] = <<"V", y, 16 * k + (a), 0>>
          /\ y0[j \div 2] = <<"Y", row, 32 * k + (j \div 2), 0>>
      BY <1>4, <2>4
    <3>3. /\ 16 * k + (a) = 16 * k + 4 * q + a
          /\ s # 0 /\ s # 2 => 32 * k + (j \div 2) = 32 * k + 8 * q + 2 * a + (s \div 2)
      BY <2>4, <2>7
    <3> QED  BY <2>3, <2>6, <3>1, <3>2, <3>3
  <2>8. CASE q = 1
    <3>1. stored[1 + q][j] =
            IF s = 0 THEN u[4 + a] ELSE IF s = 2 THEN v[4 + a] ELSE y0[8 + j \div 2]
      BY <1>9, <2>5, <2>8
    <3>2. /\ u[4 + a] = <<"U", y, 16 * k + (4 + a), 0>>
          /\ v[4 + a] = <<"V", y, 16 * k + (4 + a), 0>>
          /\ y0[8 + j \div 2] = <<"Y", row, 32 * k + (8 + j \div 2), 0>>
      BY <1>4, <2>4
    <3>3. /\ 16 * k + (4 + a) = 16 * k + 4 * q + a
          /\ s # 0 /\ s # 2 => 32 * k + (8 + j \div 2) = 32 * k + 8 * q + 2 * a + (s \div 2)
      BY <2>4, <2>8
    <3> QED  BY <2>3, <2>6, <3>1, <3>2, <3>3
  <2>9. CASE q = 2
    <3>1. stored[1 + q][j] =
            IF s = 0 THEN u[8 + a] ELSE IF s = 2 THEN v[8 + a] ELSE y1[j \div 2]
      BY <1>9, <2>5, <2>9
    <3>2. /\ u[8 + a] = <<"U", y, 16 * k + (8 + a), 0>>
          /\ v[8 + a] = <<"V", y, 16 * k + (8 + a), 0>>
          /\ y1[j \div 2] = <<"Y", row, (32 * k + 16) + (j \div 2), 0>>
      BY <1>4, <2>4
    <3>3. /\ 16 * k + (8 + a) = 16 * k + 4 * q + a
          /\ s # 0 /\ s # 2 => (32 * k + 16) + (j \div 2) = 32 * k + 8 * q + 2 * a + (s \div 2)
      BY <2>4, <2>9
    <3> QED  BY <2>3, <2>6, <3>1, <3>2, <3>3
  <2>10. CASE q = 3
    <3>1. stored[1 + q][j] =
            IF s = 0 THEN u[12 + a] ELSE IF s = 2 THEN v[12 + a] ELSE y1[8 + j \div 2]
      BY <1>9, <2>5, <2>10
    <3>2. /\ u[12 + a] = <<"U", y, 16 * k + (12 + a), 0>>
          /\ v[12 + a] = <<"V", y, 16 * k + (12 + a), 0>>
          /\ y1[8 + j \div 2] = <<"Y", row, (32 * k + 16) + (8 + j \div 2), 0>>
      BY <1>4, <2>4
    <3>3. /\ 16 * k + (12 + a) = 16 * k + 4 * q + a
          /\ s # 0 /\ s # 2 => (32 * k + 16) + (8 + j \div 2) = 32 * k + 8 * q + 2 * a + (s \div 2)
      BY <2>4, <2>10
    <3> QED  BY <2>3, <2>6, <3>1, <3>2, <3>3
  <2> QED  BY <2>7, <2>8, <2>9, <2>10
<1>6. ASSUME NEW t \in Line(row, 64 * k, 64 * k + 64)
      PROVE  stored[1 + ((t[2] - 64 * k) \div 16)][t[2] % 16] = Due(t)
  <2> PICK b \in 64 * k .. 64 * k + 64 - 1 : t = <<row, b>>
    BY DEF Line
  <2>1. b \in Nat /\ t[2] = b /\ b \in 64 * k .. 64 * k + 63
    OBVIOUS
  <2> QED  BY <1>1, <1>5, <2>1, DuePacked
<1> QED  BY <1>2, <1>3, <1>6

(* So does one of Y420_10toY422_8_sse2, which never passes the row's end.  *)
LEMMA Block10Due ==
  ASSUME convert = "Y420_10toY422_8_sse2", y \in Nat, width \in Nat,
         NEW k \in Nat, k < halfwidth \div 8, NEW row \in {2 * y, 2 * y + 1}
  PROVE  Block10(row, k) = [t \in Line(row, 32 * k, 32 * k + 32) |-> Due(t)]
<1> DEFINE lu == Load("U", y, 8 * k, 8)
           lv == Load("V", y, 8 * k, 8)
           l1 == Load("Y", row, 16 * k, 8)
           l2 == Load("Y", row, 16 * k + 8, 8)
           u  == Srli2(lu)
           v  == Srli2(lv)
           yl == Srli2(l1)
           yh == Srli2(l2)
           yy == Packus(yl, yh)
           xs == {x \in 8 * k .. 8 * k + 7 : 4 * x + 3 < width * 2}
           B(t) == LET i == (t[2] \div 4) - 8 * k
                   IN  CASE t[2] % 4 = 0 -> u[i]
                         [] t[2] % 4 = 1 -> yy[2 * i]
                         [] t[2] % 4 = 2 -> v[i]
                         [] t[2] % 4 = 3 -> yy[2 * i + 1]
<1>1. row \in Nat /\ ChromaRow(row) = y /\ convert \in Converts422 /\ convert \in TenBit
  BY DEF ChromaRow, Converts422, Converts420, TenBit
<1>2. Block10(row, k) = [t \in {<<row, 4 * x + i>> : x \in xs, i \in 0 .. 3} |-> B(t)]
  BY DEF Block10
<1>3. xs = 8 * k .. (8 * k + 8) - 1
  <2>1. 8 * k + 8 <= halfwidth /\ 2 * halfwidth <= width
    BY DEF halfwidth
  <2>2. \A x \in 8 * k .. 8 * k + 7 : 4 * x + 3 < width * 2
    BY <2>1 DEF halfwidth
  <2> QED  BY <2>2
<1>4. {<<row, 4 * x + i>> : x \in xs, i \in 0 .. 3} = Line(row, 32 * k, 32 * k + 32)
  <2>1. \A x \in xs, i \in 0 .. 3 : 4 * x + i \in 32 * k .. 32 * k + 32 - 1
    BY <1>3
  <2>2. ASSUME NEW b \in 32 * k .. 32 * k + 32 - 1
        PROVE  \E x \in xs, i \in 0 .. 3 : b = 4 * x + i
    <3>1. /\ b \div 4 \in xs /\ b % 4 \in 0 .. 3 /\ b = 4 * (b \div 4) + (b % 4)
      BY <1>3
    <3> HIDE DEF xs
    <3> QED  BY <3>1
  <2> DEFINE A == {<<row, 4 * x + i>> : x \in xs, i \in 0 .. 3}
  <2> HIDE DEF xs
  <2>3. A \subseteq Line(row, 32 * k, 32 * k + 32)
    <3> SUFFICES ASSUME NEW t \in A
                 PROVE  t \in Line(row, 32 * k, 32 * k + 32)
      OBVIOUS
    <3> PICK x \in xs, i \in 0 .. 3 : t = <<row, 4 * x + i>>
      OBVIOUS
    <3> DEFINE b == 4 * x + i
    <3>1. t = <<row, b>>
      OBVIOUS
    <3>2. b \in 32 * k .. 32 * k + 32 - 1
      <4>1. x \in 8 * k .. (8 * k + 8) - 1 /\ i \in 0 .. 3
        BY <1>3
      <4> QED  BY ONLY k \in Nat, <4>1
    <3> HIDE DEF A, b
    <3> QED  BY <3>1, <3>2 DEF Line
  <2>4. Line(row, 32 * k, 32 * k + 32) \subseteq A
    BY <2>2 DEF Line
  <2> HIDE DEF A
  <2>5. A = Line(row, 32 * k, 32 * k + 32)
    BY <2>3, <2>4
  <2> QED  BY <2>5 DEF A
<1>5. \A i \in 0 .. 7 : /\ u[i] = <<"U", y, 8 * k + i, 2>> /\ v[i] = <<"V", y, 8 * k + i, 2>>
                        /\ yl[i] = <<"Y", row, 16 * k + i, 2>>
                        /\ yh[i] = <<"Y", row, (16 * k + 8) + i, 2>>
  <2> TAKE i \in 0 .. 7
  <2>1. /\ lu[i] = <<"U", y, 8 * k + i, 0>> /\ lv[i] = <<"V", y, 8 * k + i, 0>>
        /\ l1[i] = <<"Y", row, 16 * k + i, 0>> /\ l2[i] = <<"Y", row, (16 * k + 8) + i, 0>>
    BY DEF Load
  <2>2. i \in DOMAIN lu /\ i \in DOMAIN lv /\ i \in DOMAIN l1 /\ i \in DOMAIN l2
    BY DEF Load
  <2> HIDE DEF lu, lv, l1, l2
  <2> QED  BY <2>1, <2>2, ShiftedLane
<1>6. \A i \in 0 .. 15 : yy[i] = IF i < 8 THEN yl[i] ELSE yh[i - 8]
  BY DEF Packus
<1> HIDE DEF u, v, yl, yh, yy
<1>7. \A i \in 0 .. 15 : yy[i] = <<"Y", row, 16 * k + i, 2>>
  <2> TAKE i \in 0 .. 15
  <2>1. CASE i < 8
    <3>1. i \in 0 .. 7  BY <2>1
    <3> QED  BY <1>5, <1>6, <2>1, <3>1
  <2>2. CASE ~(i < 8)
    <3>1. i - 8 \in 0 .. 7 /\ (16 * k + 8) + (i - 8) = 16 * k + i  BY <2>2
    <3> QED  BY <1>5, <1>6, <2>2, <3>1
  <2> QED  BY <2>1, <2>2
<1>8. ASSUME NEW t \in Line(row, 32 * k, 32 * k + 32)
      PROVE  B(t) = Due(t)
  <2> PICK b \in 32 * k .. 32 * k + 32 - 1 : t = <<row, b>>
    BY DEF Line
  <2> PICK i \in 0 .. 7, s \in 0 .. 3 : i = (b \div 4) - 8 * k /\ s = b % 4
    OBVIOUS
  <2>1. /\ t[2] = b /\ b \in Nat /\ b \div 4 = 8 * k + i
        /\ 2 * i \in 0 .. 15 /\ 2 * i + 1 \in 0 .. 15
        /\ 16 * k + 2 * i = 2 * (8 * k + i) /\ 16 * k + (2 * i + 1) = 2 * (8 * k + i) + 1
    OBVIOUS
  <2>2. Due(t) = PackedSample(row, 8 * k + i, s)
    BY <1>1, <2>1, DuePacked
  <2>3. \A plane, r, c : Sample(plane, r, c) = <<plane, r, c, 2>>
    BY <1>1 DEF Sample
  <2>4. /\ u[i] = <<"U", y, 8 * k + i, 2>> /\ v[i] = <<"V", y, 8 * k + i, 2>>
        /\ yy[2 * i] = <<"Y", row, 2 * (8 * k + i), 2>>
        /\ yy[2 * i + 1] = <<"Y", row, 2 * (8 * k + i) + 1, 2>>
    BY <1>5, <1>7, <2>1
  <2>5. (t[2] \div 4) - 8 * k = i /\ t[2] % 4 = s
    BY <2>1
  <2>6. B(t) = CASE s = 0 -> u[i] [] s = 1 -> yy[2 * i] [] s = 2 -> v[i] [] s = 3 -> yy[2 * i + 1]
    BY <2>5
  <2> HIDE DEF B, xs
  <2> PICK x \in Nat : x = 8 * k + i
    BY <2>1
  <2>7. PackedSample(row, x, s) = IF s = 0 THEN <<"U", y, x, 2>>
                                  ELSE IF s = 1 THEN <<"Y", row, 2 * x, 2>>
                                  ELSE IF s = 2 THEN <<"V", y, x, 2>>
                                  ELSE <<"Y", row, 2 * x + 1, 2>>
    BY <1>1, <2>3 DEF PackedSample
  <2>8. /\ Due(t) = PackedSample(row, x, s)
        /\ u[i] = <<"U", y, x, 2>> /\ v[i] = <<"V", y, x, 2>>
        /\ yy[2 * i] = <<"Y", row, 2 * x, 2>> /\ yy[2 * i + 1] = <<"Y", row, 2 * x + 1, 2>>
    BY <2>2, <2>4
  <2>9. CASE s = 0  BY ONLY <2>6, <2>7, <2>8, <2>9
  <2>10. CASE s = 1  BY ONLY <2>6, <2>7, <2>8, <2>10
  <2>11. CASE s = 2  BY ONLY <2>6, <2>7, <2>8, <2>11
  <2>12. CASE s = 3  BY ONLY <2>6, <2>7, <2>8, <2>12
  <2> QED  BY <2>9, <2>10, <2>11, <2>12
<1> HIDE DEF B, xs
<1> QED  BY <1>2, <1>4, <1>8

-----------------------------------------------------------------------------
(* The functions that take single rows.                                    *)
LEMMA DueRGB ==
  ASSUME convert \in ConvertsRGB, NEW r \in Nat, NEW b \in Nat
  PROVE  Due(<<r, b>>) =
           Sample("RGB", r, BytesPerPixel * (b \div BytesPerPixel) + SourceByte(b % BytesPerPixel))
<1>1. /\ convert \notin Clears /\ BytesPerPixel \in {3, 4}
      /\ DestinationOrder # <<"U", "Y", "V", "Y">>
      /\ b % BytesPerPixel \in 0 .. BytesPerPixel - 1
  BY DEF ConvertsRGB, Clears, BytesPerPixel, DestinationOrder
<1> PICK i \in 0 .. BytesPerPixel - 1 : i = b % BytesPerPixel
  BY <1>1
<1> DEFINE c == DestinationOrder[1 + i]
           m == CHOOSE j \in 1 .. BytesPerPixel : SourceOrder[j] = c
           e == SourceByte(i) + 1
<1>2. Due(<<r, b>>) = Sample("RGB", r, BytesPerPixel * (b \div BytesPerPixel) + m - 1)
  BY <1>1 DEF Due, Expected
<1>3. /\ e \in 1 .. BytesPerPixel /\ SourceOrder[e] = c
      /\ \A j \in 1 .. BytesPerPixel : SourceOrder[j] = c => j = e
  <2>1. CASE convert = "BGR24toRGB24"
    <3>1. /\ BytesPerPixel = 3 /\ SourceByte(i) = 2 - i
          /\ SourceOrder = <<"B", "G", "R">> /\ DestinationOrder = <<"R", "G", "B">>
      <4>1. BytesPerPixel = 3
        BY <2>1 DEF BytesPerPixel
      <4>2. SourceByte(i) = 2 - i
        BY <2>1 DEF SourceByte
      <4>3. SourceOrder = <<"B", "G", "R">>
        BY <2>1 DEF SourceOrder
      <4>4. DestinationOrder = <<"R", "G", "B">>
        BY <2>1, <4>1 DEF DestinationOrder, ConvertsRGB
      <4> QED  BY <4>1, <4>2, <4>3, <4>4
    <3>2. /\ SourceOrder[1] = "B" /\ SourceOrder[2] = "G" /\ SourceOrder[3] = "R"
          /\ DestinationOrder[1] = "R" /\ DestinationOrder[2] = "G" /\ DestinationOrder[3] = "B"
      BY <3>1
    <3>3. CASE i = 0  BY <3>1, <3>2, <3>3
    <3>4. CASE i = 1  BY <3>1, <3>2, <3>4
    <3>5. CASE i = 2  BY <3>1, <3>2, <3>5
    <3> QED  BY <1>1, <3>1, <3>3, <3>4, <3>5
  <2>2. CASE convert = "RGB24toRGB24"
    <3>1. /\ BytesPerPixel = 3 /\ SourceByte(i) = i
          /\ SourceOrder = <<"R", "G", "B">> /\ DestinationOrder = <<"R", "G", "B">>
      <4>1. BytesPerPixel = 3
        BY <2>2 DEF BytesPerPixel
      <4>2. SourceByte(i) = i
        BY <2>2 DEF SourceByte
      <4>3. SourceOrder = <<"R", "G", "B">>
        BY <2>2 DEF SourceOrder
      <4>4. DestinationOrder = <<"R", "G", "B">>
        BY <2>2, <4>1 DEF DestinationOrder, ConvertsRGB
      <4> QED  BY <4>1, <4>2, <4>3, <4>4
    <3>2. /\ SourceOrder[1] = "R" /\ SourceOrder[2] = "G" /\ SourceOrder[3] = "B"
          /\ DestinationOrder[1] = "R" /\ DestinationOrder[2] = "G" /\ DestinationOrder[3] = "B"
      BY <3>1
    <3>3. CASE i = 0  BY <3>1, <3>2, <3>3
    <3>4. CASE i = 1  BY <3>1, <3>2, <3>4
    <3>5. CASE i = 2  BY <3>1, <3>2, <3>5
    <3> QED  BY <1>1, <3>1, <3>3, <3>4, <3>5
  <2>3. CASE convert = "RGB32toRGB32Copy"
    <3>1. /\ BytesPerPixel = 4 /\ SourceByte(i) = i
          /\ SourceOrder = <<"A", "R", "G", "B">> /\ DestinationOrder = <<"A", "R", "G", "B">>
      <4>1. BytesPerPixel = 4
        BY <2>3 DEF BytesPerPixel
      <4>2. SourceByte(i) = i
        BY <2>3 DEF SourceByte
      <4>3. SourceOrder = <<"A", "R", "G", "B">>
        BY <2>3 DEF SourceOrder
      <4>4. DestinationOrder = <<"A", "R", "G", "B">>
        BY <2>3, <4>1 DEF DestinationOrder, ConvertsRGB
      <4> QED  BY <4>1, <4>2, <4>3, <4>4
    <3>2. /\ SourceOrder[1] = "A" /\ SourceOrder[2] = "R" /\ SourceOrder[3] = "G" /\ SourceOrder[4] = "B"
          /\ DestinationOrder[1] = "A" /\ DestinationOrder[2] = "R" /\ DestinationOrder[3] = "G" /\ DestinationOrder[4] = "B"
      BY <3>1
    <3>3. CASE i = 0  BY <3>1, <3>2, <3>3
    <3>4. CASE i = 1  BY <3>1, <3>2, <3>4
    <3>5. CASE i = 2  BY <3>1, <3>2, <3>5
    <3>6. CASE i = 3  BY <3>1, <3>2, <3>6
    <3> QED  BY <1>1, <3>1, <3>3, <3>4, <3>5, <3>6
  <2>4. CASE convert = "RGB32toARGB"
    <3>1. /\ BytesPerPixel = 4 /\ SourceByte(i) = (i + 3) % 4
          /\ SourceOrder = <<"R", "G", "B", "A">> /\ DestinationOrder = <<"A", "R", "G", "B">>
      <4>1. BytesPerPixel = 4
        BY <2>4 DEF BytesPerPixel
      <4>2. SourceByte(i) = (i + 3) % 4
        BY <2>4 DEF SourceByte
      <4>3. SourceOrder = <<"R", "G", "B", "A">>
        BY <2>4 DEF SourceOrder
      <4>4. DestinationOrder = <<"A", "R", "G", "B">>
        BY <2>4, <4>1 DEF DestinationOrder, ConvertsRGB
      <4> QED  BY <4>1, <4>2, <4>3, <4>4
    <3>2. /\ SourceOrder[1] = "R" /\ SourceOrder[2] = "G" /\ SourceOrder[3] = "B" /\ SourceOrder[4] = "A"
          /\ DestinationOrder[1] = "A" /\ DestinationOrder[2] = "R" /\ DestinationOrder[3] = "G" /\ DestinationOrder[4] = "B"
      BY <3>1
    <3>3. CASE i = 0  BY <3>1, <3>2, <3>3
    <3>4. CASE i = 1  BY <3>1, <3>2, <3>4
    <3>5. CASE i = 2  BY <3>1, <3>2, <3>5
    <3>6. CASE i = 3  BY <3>1, <3>2, <3>6
    <3> QED  BY <1>1, <3>1, <3>3, <3>4, <3>5, <3>6
  <2>5. CASE convert = "RGB32toRGB32Swap"
    <3>1. /\ BytesPerPixel = 4 /\ SourceByte(i) = 3 - i
          /\ SourceOrder = <<"B", "G", "R", "A">> /\ DestinationOrder = <<"A", "R", "G", "B">>
      <4>1. BytesPerPixel = 4
        BY <2>5 DEF BytesPerPixel
      <4>2. SourceByte(i) = 3 - i
        BY <2>5 DEF SourceByte
      <4>3. SourceOrder = <<"B", "G", "R", "A">>
        BY <2>5 DEF SourceOrder
      <4>4. DestinationOrder = <<"A", "R", "G", "B">>
        BY <2>5, <4>1 DEF DestinationOrder, ConvertsRGB
      <4> QED  BY <4>1, <4>2, <4>3, <4>4
    <3>2. /\ SourceOrder[1] = "B" /\ SourceOrder[2] = "G" /\ SourceOrder[3] = "R" /\ SourceOrder[4] = "A"
          /\ DestinationOrder[1] = "A" /\ DestinationOrder[2] = "R" /\ DestinationOrder[3] = "G" /\ DestinationOrder[4] = "B"
      BY <3>1
    <3>3. CASE i = 0  BY <3>1, <3>2, <3>3
    <3>4. CASE i = 1  BY <3>1, <3>2, <3>4
    <3>5. CASE i = 2  BY <3>1, <3>2, <3>5
    <3>6. CASE i = 3  BY <3>1, <3>2, <3>6
    <3> QED  BY <1>1, <3>1, <3>3, <3>4, <3>5, <3>6
  <2> QED  BY <2>1, <2>2, <2>3, <2>4, <2>5 DEF ConvertsRGB
<1>4. m = e
  <2> HIDE DEF e, c
  <2> QED  BY <1>3, ChooseOne
<1>5. SourceByte(i) \in Int /\ SourceByte(i) = m - 1 /\ m \in Int
  <2>1. SourceByte(i) \in Int
    BY <1>1 DEF SourceByte, BytesPerPixel
  <2> HIDE DEF m, c
  <2> QED  BY <1>4, <2>1
<1>6. BytesPerPixel * (b \div BytesPerPixel) \in Int
  BY <1>1
<1> HIDE DEF m
<1>7. BytesPerPixel * (b \div BytesPerPixel) + m - 1
        = BytesPerPixel * (b \div BytesPerPixel) + SourceByte(i)
  BY <1>5, <1>6
<1> QED  BY <1>2, <1>7

LEMMA DueV408 ==
  ASSUME convert = "YA420toV408", NEW r \in Nat, NEW b \in Nat
  PROVE  Due(<<r, b>>) =
           IF b % 4 = 0 THEN Sample("U", r \div 2, (b \div 4) \div 2)
           ELSE IF b % 4 = 1 THEN Sample("Y", r, b \div 4)
           ELSE IF b % 4 = 2 THEN Sample("V", r \div 2, (b \div 4) \div 2)
           ELSE Sample("A", r, b \div 4)
<1> DEFINE c == <<"U", "Y", "V", "A">>[1 + (b % 4)]
<1>1. /\ convert \notin Clears /\ convert \notin ConvertsRGB /\ BytesPerPixel = 4
      /\ DestinationOrder = <<"U", "Y", "V", "A">>
      /\ <<"U", "Y", "V", "A">> # <<"U", "Y", "V", "Y">>
  BY DEF ConvertsRGB, Clears, BytesPerPixel, DestinationOrder
<1>2. Due(<<r, b>>) = Sample(c, IF Subsampled(c) THEN r \div 2 ELSE r,
                             IF Subsampled(c) THEN (b \div 4) \div 2 ELSE b \div 4)
  BY <1>1 DEF Due, Expected
<1> PICK i \in 0 .. 3 : i = b % 4
  OBVIOUS
<1>3. CASE i = 0  BY <1>2, <1>3 DEF Subsampled
<1>4. CASE i = 1  BY <1>2, <1>4 DEF Subsampled
<1>5. CASE i = 2  BY <1>2, <1>5 DEF Subsampled
<1>6. CASE i = 3  BY <1>2, <1>6 DEF Subsampled
<1> QED  BY <1>3, <1>4, <1>5, <1>6
-----------------------------------------------------------------------------
(* A row of each kind holds what its bytes are due.                        *)
LEMMA RowDue ==
  ASSUME convert \in Functions \ Converts420, y \in Nat, width \in Nat
  PROVE  (CASE convert = "Y422toY422"  -> Packed(y, y, 0 .. halfwidth - 1)
            [] convert = "YA420toV408" -> V408Row
            [] convert \in ConvertsRGB -> RGBRow
            [] convert \in Clears      -> ClearedRow)
           = [t \in Line(y, 0, LineBytes) |-> Due(t)]
<1>1. BytesPerPixel \in {2, 3, 4} /\ BytesPerPixel * width \in Nat
  BY DEF BytesPerPixel
<1>2. \A t \in RowBytes : t[1] = y /\ t[2] \in Nat /\ t = <<y, t[2]>>
  BY <1>1 DEF RowBytes
<1>3. convert # "Y422toY422" => Line(y, 0, LineBytes) = RowBytes
  BY DEF Line, RowBytes, LineBytes
<1>4. CASE convert = "Y422toY422"
  <2>1. convert \in Converts422 /\ ChromaRow(y) = y /\ LineBytes = 4 * halfwidth
        /\ convert # "YA420toV408" /\ convert \notin ConvertsRGB /\ convert \notin Clears
    BY <1>4 DEF Converts422, ChromaRow, LineBytes, ConvertsRGB, Clears
  <2>2. Packed(y, ChromaRow(y), 0 .. halfwidth - 1)
          = [t \in Line(y, 4 * 0, 4 * halfwidth) |-> Due(t)]
    BY <2>1, PackedDue
  <2> QED  BY <1>4, <2>1, <2>2
<1>5. CASE convert = "YA420toV408"
  <2>1. convert # "Y422toY422" /\ convert \notin ConvertsRGB /\ convert \notin Clears
    BY <1>5 DEF ConvertsRGB, Clears
  <2>2. V408Row = [t \in RowBytes |-> Due(t)]
    <3>1. ASSUME NEW t \in RowBytes
          PROVE  (LET x == t[2] \div 4
                  IN  CASE t[2] % 4 = 0 -> Sample("U", y \div 2, x \div 2)
                        [] t[2] % 4 = 1 -> Sample("Y", y, x)
                        [] t[2] % 4 = 2 -> Sample("V", y \div 2, x \div 2)
                        [] t[2] % 4 = 3 -> Sample("A", y, x)) = Due(t)
      <4> PICK b \in Nat : b = t[2] /\ t = <<y, b>>
        BY <1>2
      <4> PICK i \in 0 .. 3 : i = b % 4
        OBVIOUS
      <4>1. Due(t) = IF i = 0 THEN Sample("U", y \div 2, (b \div 4) \div 2)
                     ELSE IF i = 1 THEN Sample("Y", y, b \div 4)
                     ELSE IF i = 2 THEN Sample("V", y \div 2, (b \div 4) \div 2)
                     ELSE Sample("A", y, b \div 4)
        BY <1>5, DueV408
      <4>2. CASE i = 0  BY <4>1, <4>2
      <4>3. CASE i = 1  BY <4>1, <4>3
      <4>4. CASE i = 2  BY <4>1, <4>4
      <4>5. CASE i = 3  BY <4>1, <4>5
      <4> QED  BY <4>2, <4>3, <4>4, <4>5
    <3> QED  BY <3>1 DEF V408Row
  <2> QED  BY <1>3, <1>5, <2>1, <2>2
<1>6. CASE convert \in ConvertsRGB
  <2>1. convert # "Y422toY422" /\ convert # "YA420toV408" /\ convert \notin Clears
    BY <1>6 DEF ConvertsRGB, Clears
  <2>2. RGBRow = [t \in RowBytes |-> Due(t)]
    <3>1. ASSUME NEW t \in RowBytes
          PROVE  Sample("RGB", y, BytesPerPixel * (t[2] \div BytesPerPixel)
                                    + SourceByte(t[2] % BytesPerPixel)) = Due(t)
      <4>1. t = <<y, t[2]>> /\ t[2] \in Nat
        BY <1>2
      <4>2. Due(<<y, t[2]>>) = Sample("RGB", y, BytesPerPixel * (t[2] \div BytesPerPixel)
                                                  + SourceByte(t[2] % BytesPerPixel))
        BY <1>6, <4>1, DueRGB
      <4> QED  BY <4>1, <4>2
    <3> QED  BY <3>1 DEF RGBRow
  <2> QED  BY <1>3, <1>6, <2>1, <2>2
<1>7. CASE convert \in Clears
  <2>1. convert # "Y422toY422" /\ convert # "YA420toV408" /\ convert \notin ConvertsRGB
    BY <1>7 DEF ConvertsRGB, Clears
  <2>2. ClearedRow = [t \in RowBytes |-> Due(t)]
    <3>1. ASSUME NEW t \in RowBytes
          PROVE  (CASE convert = "ClearY422" -> <<128, 16>>[1 + (t[2] % 2)]
                    [] convert = "ClearV408" -> <<128, 16, 128, 235>>[1 + (t[2] % 4)]
                    [] OTHER                 -> 0) = Due(t)
      <4> PICK b \in Nat : b = t[2]
        BY <1>2
      <4>1. Due(t) = Black(b)
        BY <1>7 DEF Due
      <4>2. CASE convert = "ClearY422"
        <5> PICK i \in 0 .. 1 : i = b % 2
          OBVIOUS
        <5>1. CASE i = 0  BY <4>1, <4>2, <5>1 DEF Black
        <5>2. CASE i = 1  BY <4>1, <4>2, <5>2 DEF Black
        <5> QED  BY <5>1, <5>2
      <4>3. CASE convert = "ClearV408"
        <5> PICK i \in 0 .. 3 : i = b % 4
          OBVIOUS
        <5>1. CASE i = 0  BY <4>1, <4>3, <5>1 DEF Black
        <5>2. CASE i = 1  BY <4>1, <4>3, <5>2 DEF Black
        <5>3. CASE i = 2  BY <4>1, <4>3, <5>3 DEF Black
        <5>4. CASE i = 3  BY <4>1, <4>3, <5>4 DEF Black
        <5> QED  BY <5>1, <5>2, <5>3, <5>4
      <4>4. CASE convert # "ClearY422" /\ convert # "ClearV408"
        BY <4>1, <4>4 DEF Black
      <4> QED  BY <4>2, <4>3, <4>4
    <3> QED  BY <3>1 DEF ClearedRow
  <2> QED  BY <1>3, <1>7, <2>1, <2>2
<1> QED  BY <1>4, <1>5, <1>6, <1>7 DEF Functions

-----------------------------------------------------------------------------
(* The destination has LineBytes bytes in every row.                       *)
LEMMA DestinationLines ==
  ASSUME convert \in Functions
  PROVE  Destination = {<<r, b>> : r \in 0 .. height - 1, b \in 0 .. LineBytes - 1}
<1>1. CASE convert \in Converts420 \cup {"Y422toY422"}
  <2>1. DestinationOrder = <<"U", "Y", "V", "Y">> /\ convert \notin {"YA420toV408"} \cup Clears
    BY <1>1 DEF DestinationOrder, Converts420, ConvertsRGB, Clears
  <2> QED  BY <1>1, <2>1 DEF Destination, LineBytes
<1>2. CASE convert \in ConvertsRGB
  <2>1. DestinationOrder[1] # "U" /\ convert \notin Converts420 \cup {"Y422toY422"}
    BY <1>2 DEF DestinationOrder, Converts420, ConvertsRGB
  <2> QED  BY <2>1 DEF Destination, LineBytes
<1>3. CASE convert \in {"YA420toV408"} \cup Clears
  <2>1. convert \notin Converts420 \cup {"Y422toY422"}
    BY <1>3 DEF Converts420, Clears
  <2> QED  BY <1>3, <2>1 DEF Destination, LineBytes
<1> QED  BY <1>1, <1>2, <1>3 DEF Functions

LEMMA InDestination ==
  ASSUME convert \in Functions, NEW r, NEW b
  PROVE  <<r, b>> \in Destination <=> r \in 0 .. height - 1 /\ b \in 0 .. LineBytes - 1
BY DestinationLines

LEMMA DestinationPairs ==
  ASSUME convert \in Functions
  PROVE  \A t \in Destination : \E r \in 0 .. height - 1, b \in 0 .. LineBytes - 1 : t = <<r, b>>
BY DestinationLines

LEMMA Sizes ==
  ASSUME LoopInv
  PROVE  /\ halfwidth \in Nat /\ halfheight \in Nat /\ LineBytes \in Nat /\ vWidth \in Nat
         /\ 2 * halfheight <= height /\ height <= 2 * halfheight + 1
         /\ convert \in Converts420 => LineBytes = 4 * halfwidth
         /\ convert = "Y420toY422_sse2" => BlockColumns = 16 /\ 16 * vWidth <= halfwidth
         /\ convert # "Y420toY422_sse2" => BlockColumns = 8 /\ 8 * vWidth <= halfwidth
<1>1. halfwidth \in Nat /\ halfheight \in Nat
      /\ 2 * halfheight <= height /\ height <= 2 * halfheight + 1
  BY DEF LoopInv, halfwidth, halfheight
<1>2. BytesPerPixel \in {2, 3, 4} /\ BytesPerPixel * width \in Nat
  BY DEF BytesPerPixel, LoopInv
<1>3. LineBytes \in Nat /\ (convert \in Converts420 => LineBytes = 4 * halfwidth)
  BY <1>1, <1>2 DEF LineBytes
<1>4. CASE convert = "Y420toY422_sse2"
  BY <1>1, <1>3, <1>4 DEF vWidth, BlockColumns, halfwidth, LoopInv
<1>5. CASE convert = "Y420_10toY422_8_sse2"
  <2>1. vWidth = halfwidth \div 8 /\ BlockColumns = 8
    BY <1>5 DEF vWidth, BlockColumns
  <2> QED  BY <1>1, <1>3, <1>5, <2>1
<1>6. CASE convert # "Y420toY422_sse2" /\ convert # "Y420_10toY422_8_sse2"
  <2>1. vWidth = 0 /\ BlockColumns = 8
    BY <1>6 DEF vWidth, BlockColumns
  <2> QED  BY <1>1, <1>3, <1>6, <2>1
<1> QED  BY <1>4, <1>5, <1>6

-----------------------------------------------------------------------------
(* What an action writes, S, is added to what was covered before.          *)
LEMMA Covers ==
  ASSUME RowsInv, NEW S, Covered' = S \cup Covered, convert' = convert,
         out' = Over([t \in S |-> Due(t)], out)
  PROVE  out' = [t \in Covered' |-> Due(t)']
<1>1. out = [t \in Covered |-> Due(t)]
  BY DEF RowsInv
<1>2. out' = [t \in S \cup Covered |-> Due(t)]
  BY <1>1, Added
<1>3. \A t : Due(t)' = Due(t)
  BY SameDue
<1> QED  BY <1>2, <1>3

LEMMA CoversNoMore ==
  ASSUME RowsInv, Covered' = Covered, convert' = convert, out' = out
  PROVE  out' = [t \in Covered' |-> Due(t)']
<1>1. \A t : Due(t)' = Due(t)
  BY SameDue
<1> QED  BY <1>1 DEF RowsInv

LEMMA SameDestination ==
  ASSUME convert' = convert, width' = width, height' = height
  PROVE  Destination' = Destination /\ LineBytes' = LineBytes /\ vWidth' = vWidth
         /\ BlockColumns' = BlockColumns /\ halfwidth' = halfwidth /\ halfheight' = halfheight
         /\ Narrow' = Narrow
BY DEF Narrow, Destination, DestinationOrder, BytesPerPixel, LineBytes, vWidth, BlockColumns,
       halfwidth, halfheight

(* A set of pairs of a row and a byte is what it says of each pair.        *)
LEMMA CoveredIs ==
  ASSUME convert \in Functions, convert' = convert, width' = width, height' = height,
         NEW S, S \subseteq Destination,
         \A r \in 0 .. height - 1, b \in 0 .. LineBytes - 1 :
            Reached(r, b)' <=> <<r, b>> \in S \/ Reached(r, b)
  PROVE  Covered' = S \cup Covered
<1>1. Covered' = {t \in Destination : Reached(t[1], t[2])'}
  BY SameDestination DEF Covered
<1>2. ASSUME NEW t \in Destination
      PROVE  Reached(t[1], t[2])' <=> t \in S \/ Reached(t[1], t[2])
  <2> PICK r \in 0 .. height - 1, b \in 0 .. LineBytes - 1 : t = <<r, b>>
    BY DestinationPairs
  <2>1. t[1] = r /\ t[2] = b
    OBVIOUS
  <2> QED  BY <2>1
<1> QED  BY <1>1, <1>2 DEF Covered

LEMMA InLine ==
  ASSUME NEW y1, NEW from, NEW to, NEW r, NEW b
  PROVE  <<r, b>> \in Line(y1, from, to) <=> r = y1 /\ b \in from .. to - 1
BY DEF Line

LEMMA LineInside ==
  ASSUME LoopInv, NEW r \in 0 .. height - 1, NEW from \in Nat, NEW to \in Nat, to <= LineBytes
  PROVE  Line(r, from, to) \subseteq Destination
<1>1. ASSUME NEW t \in Line(r, from, to)
      PROVE  t \in Destination
  <2> PICK b \in from .. to - 1 : t = <<r, b>>
    BY DEF Line
  <2>1. b \in 0 .. LineBytes - 1
    BY Sizes
  <2> QED  BY <2>1, InDestination DEF LoopInv
<1> QED  BY <1>1

-----------------------------------------------------------------------------
(* The steps.                                                              *)
LEMMA RowStep == RowsInv /\ Row => RowsInv'
<1> SUFFICES ASSUME RowsInv, Row
             PROVE  RowsInv'
  OBVIOUS
<1> USE DEF RowsInv
<1>1. /\ convert' = convert /\ width' = width /\ height' = height /\ pc' = pc /\ y' = y + 1
      /\ convert \in Functions \ Converts420 /\ y \in Nat /\ width \in Nat /\ height \in Nat
      /\ y < height /\ pc = "rows"
  BY DEF Row, LoopInv
<1>2. LoopInv'
  BY <1>1, SameDestination DEF Row, LoopInv
<1> DEFINE S == Line(y, 0, LineBytes)
<1>3. out' = Over([t \in S |-> Due(t)], out)
  BY <1>1, RowDue DEF Row, Write
<1>4. S \subseteq Destination
  BY <1>1, LineInside, Sizes
<1>5. ASSUME NEW r \in 0 .. height - 1, NEW b \in 0 .. LineBytes - 1
      PROVE  Reached(r, b)' <=> <<r, b>> \in S \/ Reached(r, b)
  <2>1. <<r, b>> \in S <=> r = y
    BY InLine
  <2>2. /\ Reached(r, b) <=> r < y
        /\ Reached(r, b)' <=> r < y + 1
    BY <1>1 DEF Reached
  <2> HIDE DEF S
  <2> QED  BY <1>1, <2>1, <2>2
<1> HIDE DEF S
<1>6. Covered' = S \cup Covered
  BY <1>1, <1>4, <1>5, CoveredIs
<1> QED  BY <1>1, <1>2, <1>3, <1>6, Covers

LEMMA FinishStep == RowsInv /\ Finish => RowsInv'
<1> SUFFICES ASSUME RowsInv, Finish
             PROVE  RowsInv'
  OBVIOUS
<1>1. /\ convert' = convert /\ width' = width /\ height' = height /\ pc' = "done"
      /\ convert \in Functions \ Converts420 /\ y = height /\ pc = "rows" /\ out' = out
      /\ height \in Nat
  BY DEF Finish, RowsInv, LoopInv
<1>2. LoopInv'
  BY <1>1, SameDestination DEF Finish, RowsInv, LoopInv
<1>3. ASSUME NEW r \in 0 .. height - 1, NEW b \in 0 .. LineBytes - 1
      PROVE  Reached(r, b)' <=> <<r, b>> \in {} \/ Reached(r, b)
  BY <1>1 DEF Reached
<1>4. Covered' = {} \cup Covered
  BY <1>1, <1>3, CoveredIs
<1> QED  BY <1>1, <1>2, <1>4, CoversNoMore DEF RowsInv

LEMMA RowPairStep == RowsInv /\ RowPair => RowsInv'
<1> SUFFICES ASSUME RowsInv, RowPair
             PROVE  RowsInv'
  OBVIOUS
<1>1. /\ convert' = convert /\ width' = width /\ height' = height /\ out' = out /\ y' = y
      /\ convert \in Converts420 /\ convert \in Functions /\ y < halfheight /\ pc = "rows"
      /\ n' = vWidth /\ pc' = IF EntersBlocks THEN "vector" ELSE "scalar"
      /\ y \in Nat /\ width \in Nat /\ height \in Nat /\ ~Narrow
  BY DEF RowPair, RowsInv, LoopInv
<1>7. EntersBlocks <=> vWidth > 0
  <2>1. convert = "Y420toY422_sse2" => width >= 32
    BY <1>1 DEF Narrow, halfheight
  <2> QED  BY <1>1, <2>1 DEF EntersBlocks, vWidth
<1>2. vWidth \in Nat /\ vWidth' = vWidth /\ halfheight' = halfheight
      /\ BlockColumns' = BlockColumns /\ BlockColumns \in {8, 16}
  BY <1>1, Sizes, SameDestination DEF RowsInv, BlockColumns
<1>3. LoopInv'
  <2>1. CASE vWidth > 0
    BY <1>1, <1>2, <1>7, <2>1, SameDestination DEF RowPair, RowsInv, LoopInv
  <2>2. CASE ~(vWidth > 0)
    BY <1>1, <1>2, <1>7, <2>2, SameDestination DEF RowPair, RowsInv, LoopInv
  <2> QED  BY <2>1, <2>2
<1>4. Blocks' = 0
  <2>1. CASE vWidth > 0
    BY <1>1, <1>2, <1>7, <2>1 DEF Blocks
  <2>2. CASE ~(vWidth > 0)
    BY <1>1, <1>2, <1>7, <2>2 DEF Blocks
  <2> QED  BY <2>1, <2>2
<1>5. ASSUME NEW r \in 0 .. height - 1, NEW b \in 0 .. LineBytes - 1
      PROVE  Reached(r, b)' <=> <<r, b>> \in {} \/ Reached(r, b)
  <2>1. Reached(r, b) <=> r < 2 * y
    BY <1>1 DEF Reached
  <2>2. Reached(r, b)' <=> r < 2 * y \/ (r < 2 * y + 2 /\ b < 4 * BlockColumns * 0)
    <3>1. pc' \in {"vector", "scalar"} /\ pc' # "done"
      BY <1>1
    <3> QED  BY <1>1, <1>2, <1>4, <3>1 DEF Reached
  <2>3. ~(b < 4 * BlockColumns * 0)
    BY <1>2
  <2> QED  BY <2>1, <2>2, <2>3
<1>6. Covered' = {} \cup Covered
  BY <1>1, <1>5, CoveredIs
<1> QED  BY <1>1, <1>3, <1>6, CoversNoMore DEF RowsInv

(* What is written of two lines                                            *)
LEMMA TwoLines ==
  ASSUME NEW S, NEW T, out' = Over(Over([t \in S |-> Due(t)], [t \in T |-> Due(t)]), out)
  PROVE  out' = Over([t \in S \cup T |-> Due(t)], out)
BY Added

LEMMA VectorStep == RowsInv /\ Vector => RowsInv'
<1> SUFFICES ASSUME RowsInv, Vector
             PROVE  RowsInv'
  OBVIOUS
<1>1. /\ convert' = convert /\ width' = width /\ height' = height /\ y' = y
      /\ convert \in Functions /\ pc = "vector"
      /\ n' = n - 1 /\ pc' = IF n' = 0 THEN "scalar" ELSE "vector"
      /\ y \in Nat /\ width \in Nat /\ height \in Nat /\ n \in Nat /\ 1 <= n /\ n <= vWidth
      /\ convert \in Converts420 /\ y < halfheight /\ LoopInv
  BY DEF Vector, RowsInv, LoopInv
<1>2. /\ vWidth \in Nat /\ vWidth' = vWidth /\ BlockColumns' = BlockColumns
      /\ halfheight \in Nat /\ halfheight' = halfheight /\ 2 * halfheight <= height
      /\ halfwidth \in Nat /\ LineBytes = 4 * halfwidth
      /\ convert = "Y420toY422_sse2" => BlockColumns = 16 /\ 16 * vWidth <= halfwidth
      /\ convert # "Y420toY422_sse2" => BlockColumns = 8 /\ 8 * vWidth <= halfwidth
  BY <1>1, Sizes, SameDestination
<1>3. convert \in {"Y420toY422_sse2", "Y420_10toY422_8_sse2"}
  BY <1>1 DEF vWidth
<1>4. LoopInv'
  <2>1. CASE n = 1  BY <1>1, <1>2, <2>1, SameDestination DEF LoopInv
  <2>2. CASE n # 1  BY <1>1, <1>2, <2>2, SameDestination DEF LoopInv
  <2> QED  BY <2>1, <2>2
<1> DEFINE k    == vWidth - n
           size == 4 * BlockColumns
           from == size * k
           to   == size * k + size
           S(r) == Line(r, from, to)
<1>5. k \in Nat /\ k + 1 <= vWidth /\ Blocks = k /\ Blocks' = k + 1
  <2>1. CASE n = 1  BY <1>1, <1>2, <2>1 DEF Blocks
  <2>2. CASE n # 1  BY <1>1, <1>2, <2>2 DEF Blocks
  <2> QED  BY <2>1, <2>2
<1>6. size \in {32, 64} /\ from \in Nat /\ to \in Nat /\ to = from + size /\ to <= LineBytes
  BY <1>2, <1>5
<1>7. out' = Over(Over([t \in S(2 * y) |-> Due(t)], [t \in S(2 * y + 1) |-> Due(t)]), out)
  <2>1. CASE convert = "Y420toY422_sse2"
    <3>1. out' = Over(Over(Block8(2 * y, k), Block8(2 * y + 1, k)), out)
      BY <2>1 DEF Vector, Write
    <3>2. size = 64
      BY <1>2, <2>1
    <3> HIDE DEF k
    <3>3. \A row \in {2 * y, 2 * y + 1} :
             Block8(row, k) = [t \in Line(row, 64 * k, 64 * k + 64) |-> Due(t)]
      BY <1>1, <1>5, <2>1, Block8Due
    <3> QED  BY <3>1, <3>2, <3>3
  <2>2. CASE convert = "Y420_10toY422_8_sse2"
    <3>1. out' = Over(Over(Block10(2 * y, k), Block10(2 * y + 1, k)), out)
      BY <2>2 DEF Vector, Write
    <3>2. size = 32
      BY <1>2, <2>2
    <3>4. vWidth = halfwidth \div 8
      BY <2>2 DEF vWidth
    <3> HIDE DEF k
    <3>5. k < halfwidth \div 8
      BY <1>2, <1>5, <3>4
    <3>3. \A row \in {2 * y, 2 * y + 1} :
             Block10(row, k) = [t \in Line(row, 32 * k, 32 * k + 32) |-> Due(t)]
      BY <1>1, <1>5, <2>2, <3>5, Block10Due
    <3> QED  BY <3>1, <3>2, <3>3
  <2> QED  BY <1>3, <2>1, <2>2
<1>8. 2 * y \in 0 .. height - 1 /\ 2 * y + 1 \in 0 .. height - 1
  BY <1>1, <1>2
<1> HIDE DEF k, size
<1>9. size * (k + 1) = to /\ size * k = from
  BY <1>5, <1>6
<1> HIDE DEF from, to
<1>10. S(2 * y) \cup S(2 * y + 1) \subseteq Destination
  BY <1>1, <1>6, <1>8, LineInside
<1>11. ASSUME NEW r \in 0 .. height - 1, NEW b \in 0 .. LineBytes - 1
       PROVE  Reached(r, b)' <=> <<r, b>> \in S(2 * y) \cup S(2 * y + 1) \/ Reached(r, b)
  <2>1. <<r, b>> \in S(2 * y) \cup S(2 * y + 1)
          <=> (r = 2 * y \/ r = 2 * y + 1) /\ b \in from .. to - 1
    BY InLine
  <2>2. Reached(r, b) <=> r < 2 * y \/ (r < 2 * y + 2 /\ b < from)
    BY <1>1, <1>5, <1>9 DEF Reached, size
  <2>3. Reached(r, b)' <=> r < 2 * y \/ (r < 2 * y + 2 /\ b < to)
    <3>1. pc' \in {"vector", "scalar"} /\ pc' # "done"
      BY <1>1
    <3> QED  BY <1>1, <1>2, <1>5, <1>9, <3>1 DEF Reached, size
  <2> HIDE DEF S
  <2>4. r \in Int /\ b \in Int /\ LineBytes \in Nat
    BY <1>1, <1>2
  <2> QED  BY <1>1, <1>6, <2>1, <2>2, <2>3, <2>4
<1> HIDE DEF S
<1>12. Covered' = (S(2 * y) \cup S(2 * y + 1)) \cup Covered
  BY <1>1, <1>10, <1>11, CoveredIs
<1>13. out' = Over([t \in S(2 * y) \cup S(2 * y + 1) |-> Due(t)], out)
  BY <1>7, TwoLines
<1> QED  BY <1>1, <1>4, <1>12, <1>13, Covers DEF RowsInv

LEMMA ScalarStep == RowsInv /\ Scalar => RowsInv'
<1> SUFFICES ASSUME RowsInv, Scalar
             PROVE  RowsInv'
  OBVIOUS
<1>1. /\ convert' = convert /\ width' = width /\ height' = height /\ y' = y + 1
      /\ convert \in Functions /\ pc = "scalar" /\ pc' = "rows" /\ n' = n
      /\ y \in Nat /\ width \in Nat /\ height \in Nat /\ n \in Nat
      /\ convert \in Converts420 /\ y < halfheight /\ LoopInv
  BY DEF Scalar, RowsInv, LoopInv
<1>2. /\ vWidth \in Nat /\ vWidth' = vWidth
      /\ halfheight \in Nat /\ halfheight' = halfheight /\ 2 * halfheight <= height
      /\ halfwidth \in Nat /\ LineBytes = 4 * halfwidth
      /\ convert = "Y420toY422_sse2" => BlockColumns = 16 /\ 16 * vWidth <= halfwidth
      /\ convert # "Y420toY422_sse2" => BlockColumns = 8 /\ 8 * vWidth <= halfwidth
  BY <1>1, Sizes, SameDestination
<1>3. LoopInv'
  BY <1>1, <1>2, SameDestination DEF LoopInv
<1> DEFINE from == vWidth * BlockColumns
           S(r) == Line(r, 4 * from, 4 * halfwidth)
<1>4. from \in Nat /\ 4 * from \in Nat /\ 4 * halfwidth \in Nat
      /\ 4 * from = 4 * BlockColumns * vWidth
  BY <1>2
<1>5. out' = Over(Over([t \in S(2 * y) |-> Due(t)], [t \in S(2 * y + 1) |-> Due(t)]), out)
  <2>1. out' = Over(Over(Packed(2 * y, y, from .. halfwidth - 1),
                         Packed(2 * y + 1, y, from .. halfwidth - 1)), out)
    BY DEF Scalar, Write
  <2>2. /\ convert \in Converts422 /\ 2 * y \in Nat /\ 2 * y + 1 \in Nat
        /\ ChromaRow(2 * y) = y /\ ChromaRow(2 * y + 1) = y
    BY <1>1 DEF Converts422, Converts420, ChromaRow
  <2> HIDE DEF from
  <2>3. /\ Packed(2 * y, y, from .. halfwidth - 1) = [t \in S(2 * y) |-> Due(t)]
        /\ Packed(2 * y + 1, y, from .. halfwidth - 1) = [t \in S(2 * y + 1) |-> Due(t)]
    <3>1. \A r \in Nat : Packed(r, ChromaRow(r), from .. halfwidth - 1) = [t \in S(r) |-> Due(t)]
      BY <1>1, <1>4, <2>2, PackedDue
    <3> HIDE DEF S
    <3> QED  BY <2>2, <3>1
  <2> QED  BY <2>1, <2>3
<1>6. 2 * y \in 0 .. height - 1 /\ 2 * y + 1 \in 0 .. height - 1
  BY <1>1, <1>2
<1> HIDE DEF from
<1>7. S(2 * y) \cup S(2 * y + 1) \subseteq Destination
  <2>1. 4 * halfwidth <= LineBytes
    BY <1>2
  <2> QED  BY <1>1, <1>4, <1>6, <2>1, LineInside
<1>8. ASSUME NEW r \in 0 .. height - 1, NEW b \in 0 .. LineBytes - 1
      PROVE  Reached(r, b)' <=> <<r, b>> \in S(2 * y) \cup S(2 * y + 1) \/ Reached(r, b)
  <2>1. <<r, b>> \in S(2 * y) \cup S(2 * y + 1)
          <=> (r = 2 * y \/ r = 2 * y + 1) /\ b \in 4 * from .. 4 * halfwidth - 1
    BY InLine
  <2>2. Reached(r, b) <=> r < 2 * y \/ (r < 2 * y + 2 /\ b < 4 * from)
    <3>1. Blocks = vWidth
      BY <1>1 DEF Blocks
    <3> QED  BY <1>1, <1>4, <3>1 DEF Reached
  <2>3. Reached(r, b)' <=> r < 2 * (y + 1)
    BY <1>1 DEF Reached
  <2> HIDE DEF S
  <2>4. r \in Int /\ b \in Int /\ b \in 0 .. 4 * halfwidth - 1
    BY <1>1, <1>2
  <2> QED  BY <1>1, <1>2, <1>4, <2>1, <2>2, <2>3, <2>4
<1> HIDE DEF S
<1>9. Covered' = (S(2 * y) \cup S(2 * y + 1)) \cup Covered
  BY <1>1, <1>7, <1>8, CoveredIs
<1>10. out' = Over([t \in S(2 * y) \cup S(2 * y + 1) |-> Due(t)], out)
  BY <1>5, TwoLines
<1> QED  BY <1>1, <1>3, <1>9, <1>10, Covers DEF RowsInv

LEMMA LastRowStep == RowsInv /\ LastRow => RowsInv'
<1> SUFFICES ASSUME RowsInv, LastRow
             PROVE  RowsInv'
  OBVIOUS
<1>1. /\ convert' = convert /\ width' = width /\ height' = height /\ y' = y /\ n' = n
      /\ convert \in Functions /\ pc = "rows" /\ pc' = "done"
      /\ y \in Nat /\ width \in Nat /\ height \in Nat
      /\ convert \in Converts420 /\ y = halfheight /\ LoopInv
  BY DEF LastRow, RowsInv, LoopInv
<1>2. /\ halfheight' = halfheight /\ halfwidth \in Nat /\ LineBytes = 4 * halfwidth
      /\ 4 * halfwidth \in Nat
  BY <1>1, Sizes, SameDestination
<1>3. LoopInv'
  BY <1>1, <1>2, SameDestination DEF LoopInv
<1>4. ASSUME NEW r \in 0 .. height - 1, NEW b \in 0 .. LineBytes - 1
      PROVE  (Reached(r, b) <=> r < 2 * y) /\ Reached(r, b)'
  BY <1>1 DEF Reached
<1>5. CASE height % 2 = 1
  <2> DEFINE S == Line(2 * y, 0, 4 * halfwidth)
  <2>1. height = 2 * y + 1
    BY <1>1, <1>5 DEF halfheight
  <2>2. out' = Over([t \in S |-> Due(t)], out)
    <3>1. out' = Over(Packed(2 * y, y, 0 .. halfwidth - 1), out)
      BY <1>5 DEF LastRow, Write
    <3>2. convert \in Converts422 /\ 2 * y \in Nat /\ ChromaRow(2 * y) = y /\ 4 * 0 = 0
      BY <1>1 DEF Converts422, Converts420, ChromaRow
    <3>3. Packed(2 * y, ChromaRow(2 * y), 0 .. halfwidth - 1)
            = [t \in Line(2 * y, 4 * 0, 4 * halfwidth) |-> Due(t)]
      BY <1>1, <3>2, PackedDue
    <3> QED  BY <3>1, <3>2, <3>3
  <2>3. S \subseteq Destination
    <3>1. 2 * y \in 0 .. height - 1 /\ 4 * halfwidth <= LineBytes
      BY <1>1, <1>2, <2>1
    <3> QED  BY <1>1, <1>2, <3>1, LineInside
  <2>4. ASSUME NEW r \in 0 .. height - 1, NEW b \in 0 .. LineBytes - 1
        PROVE  Reached(r, b)' <=> <<r, b>> \in S \/ Reached(r, b)
    <3>1. <<r, b>> \in S <=> r = 2 * y
      BY <1>2, InLine
    <3> HIDE DEF S
    <3> QED  BY <1>1, <1>4, <2>1, <3>1
  <2> HIDE DEF S
  <2>5. Covered' = S \cup Covered
    BY <1>1, <2>3, <2>4, CoveredIs
  <2> QED  BY <1>1, <1>3, <2>2, <2>5, Covers DEF RowsInv
<1>6. CASE height % 2 # 1
  <2>1. height = 2 * y /\ out' = out
    BY <1>1, <1>6 DEF halfheight, LastRow
  <2>2. ASSUME NEW r \in 0 .. height - 1, NEW b \in 0 .. LineBytes - 1
        PROVE  Reached(r, b)' <=> <<r, b>> \in {} \/ Reached(r, b)
    BY <1>1, <1>4, <2>1
  <2>3. Covered' = {} \cup Covered
    BY <1>1, <2>2, CoveredIs
  <2> QED  BY <1>1, <1>3, <2>1, <2>3, CoversNoMore DEF RowsInv
<1> QED  BY <1>5, <1>6

-----------------------------------------------------------------------------
LEMMA RowsInitially == Init /\ ~Narrow => RowsInv
<1> SUFFICES ASSUME Init, ~Narrow
             PROVE  RowsInv
  OBVIOUS
<1>1. LoopInv
  BY SizeAssumption DEF Init, LoopInv, halfheight
<1>2. \A r \in 0 .. height - 1, b \in 0 .. LineBytes - 1 : ~Reached(r, b)
  BY DEF Init, Reached
<1>3. Covered = {}
  <2>1. ASSUME NEW t \in Destination
        PROVE  ~Reached(t[1], t[2])
    <3> PICK r \in 0 .. height - 1, b \in 0 .. LineBytes - 1 : t = <<r, b>>
      BY <1>1, DestinationPairs DEF LoopInv
    <3>1. t[1] = r /\ t[2] = b
      OBVIOUS
    <3> QED  BY <1>2, <3>1
  <2> QED  BY <2>1 DEF Covered
<1>4. out = [t \in {} |-> Due(t)]
  BY DEF Init
<1> QED  BY <1>1, <1>3, <1>4 DEF RowsInv

LEMMA NarrowInitially == Init /\ Narrow => NarrowInv
BY SizeAssumption DEF Init, NarrowInv

LEMMA NarrowStep == NarrowInv /\ [Next]_vars => NarrowInv'
<1> SUFFICES ASSUME NarrowInv, [Next]_vars
             PROVE  NarrowInv'
  OBVIOUS
<1>1. /\ convert = "Y420toY422_sse2" /\ width \in Nat /\ width < 32
      /\ height \in Nat /\ height > 1 /\ y = 0 /\ n \in Int /\ n <= 0
      /\ pc \in {"rows", "vector"} /\ convert \in Converts420
  BY DEF NarrowInv, Narrow, Converts420
<1>2. vWidth = 0 /\ halfheight > 0 /\ EntersBlocks
  BY <1>1 DEF vWidth, halfheight, EntersBlocks
<1>3. CASE RowPair
  <2>1. n' = 0 /\ pc' = "vector" /\ UNCHANGED <<convert, width, height, y>>
    BY <1>2, <1>3 DEF RowPair
  <2> QED  BY <1>1, <2>1, SameDestination DEF NarrowInv
<1>4. CASE Vector
  <2>1. n' = n - 1 /\ UNCHANGED <<convert, width, height, y>>
        /\ pc' = IF n' = 0 THEN "scalar" ELSE "vector"
    BY <1>4 DEF Vector
  <2>2. n' \in Int /\ n' <= 0 /\ n' # 0
    BY <1>1, <2>1
  <2> QED  BY <1>1, <2>1, <2>2, SameDestination DEF NarrowInv
<1>5. CASE UNCHANGED vars
  BY <1>1, <1>5, SameDestination DEF vars, NarrowInv
<1>6. ~Scalar /\ ~LastRow /\ ~Row /\ ~Finish
  BY <1>1, <1>2 DEF Scalar, LastRow, Row, Finish
<1> QED  BY <1>3, <1>4, <1>5, <1>6 DEF Next

LEMMA RowsInvariant == Spec => [](RowsInv \/ NarrowInv)
<1>1. RowsInv /\ UNCHANGED vars => RowsInv'
  <2> SUFFICES ASSUME RowsInv, UNCHANGED vars
               PROVE  RowsInv'
    OBVIOUS
  <2>1. /\ convert' = convert /\ width' = width /\ height' = height /\ out' = out
        /\ y' = y /\ n' = n /\ pc' = pc
    BY DEF vars
  <2>2. LoopInv'
    BY <2>1, SameDestination DEF RowsInv, LoopInv
  <2>3. \A r, b : Reached(r, b)' <=> Reached(r, b)
    BY <2>1, SameDestination DEF Reached, Blocks
  <2>4. Covered' = Covered
    BY <2>1, <2>3, SameDestination DEF Covered
  <2> QED  BY <2>1, <2>2, <2>4, CoversNoMore DEF RowsInv
<1>2. RowsInv /\ Next => RowsInv'
  BY RowPairStep, VectorStep, ScalarStep, LastRowStep, RowStep, FinishStep DEF Next
<1>3. Init => RowsInv \/ NarrowInv
  BY RowsInitially, NarrowInitially
<1>4. (RowsInv \/ NarrowInv) /\ [Next]_vars => (RowsInv \/ NarrowInv)'
  BY <1>1, <1>2, NarrowStep
<1> QED  BY <1>3, <1>4, PTL DEF Spec

-----------------------------------------------------------------------------
(* What the rows add up to.                                                *)
LEMMA DoneCoversAll == RowsInv /\ pc = "done" => Covered = Destination
BY DEF Covered, Reached

(* The planes and places of the samples that are due.                      *)
LEMMA DueInside ==
  ASSUME LoopInv, convert \notin Clears,
         NEW r \in 0 .. height - 1, NEW b \in 0 .. LineBytes - 1,
         NEW s, s = Due(<<r, b>>)
  PROVE  /\ s[2] < IF Subsampled(s[1]) /\ convert # "Y422toY422"
                   THEN (height + 1) \div 2 ELSE height
         /\ s[3] < IF Subsampled(s[1]) THEN (width + 1) \div 2
                   ELSE IF s[1] = "RGB" THEN BytesPerPixel * width ELSE width
<1>1. /\ height \in Nat \ {0} /\ width \in Nat \ {0} /\ LineBytes \in Nat /\ r \in Nat /\ b \in Nat
      /\ r < height /\ b < LineBytes /\ convert \in Functions
  BY Sizes DEF LoopInv
<1>2. \A p, i, x : /\ Sample(p, i, x)[1] = p /\ Sample(p, i, x)[2] = i /\ Sample(p, i, x)[3] = x
  BY DEF Sample
<1>3. r \div 2 < (height + 1) \div 2
  BY <1>1
<1>4. CASE convert \in Converts422
  <2> PICK x \in Nat, i \in 0 .. 3 : x = b \div 4 /\ i = b % 4
    BY <1>1
  <2>1. LineBytes = 4 * halfwidth /\ 2 * halfwidth <= width /\ halfwidth <= (width + 1) \div 2
        /\ halfwidth \in Nat
    BY <1>1, <1>4 DEF LineBytes, Converts422, halfwidth
  <2>2. x < halfwidth /\ 2 * x + 1 < width /\ 2 * x < width /\ x < (width + 1) \div 2
    BY <1>1, <2>1
  <2>3. s = PackedSample(r, x, i)
    BY <1>1, <1>4, DuePacked
  <2>4. ChromaRow(r) < IF convert # "Y422toY422" THEN (height + 1) \div 2 ELSE height
    BY <1>1, <1>3 DEF ChromaRow
  <2>5. CASE i = 0
    <3>1. s[1] = "U" /\ s[2] = ChromaRow(r) /\ s[3] = x
      BY <1>2, <2>3, <2>5 DEF PackedSample
    <3> QED  BY <2>2, <2>4, <3>1 DEF Subsampled
  <2>6. CASE i = 1
    <3>1. s[1] = "Y" /\ s[2] = r /\ s[3] = 2 * x
      BY <1>2, <2>3, <2>6 DEF PackedSample
    <3> QED  BY <1>1, <2>2, <3>1 DEF Subsampled
  <2>7. CASE i = 2
    <3>1. s[1] = "V" /\ s[2] = ChromaRow(r) /\ s[3] = x
      BY <1>2, <2>3, <2>7 DEF PackedSample
    <3> QED  BY <2>2, <2>4, <3>1 DEF Subsampled
  <2>8. CASE i = 3
    <3>1. s[1] = "Y" /\ s[2] = r /\ s[3] = 2 * x + 1
      BY <1>2, <2>3, <2>8 DEF PackedSample
    <3> QED  BY <1>1, <2>2, <3>1 DEF Subsampled
  <2> QED  BY <2>5, <2>6, <2>7, <2>8
<1>5. CASE convert = "YA420toV408"
  <2> PICK x \in Nat, i \in 0 .. 3 : x = b \div 4 /\ i = b % 4
    BY <1>1
  <2>1. LineBytes = 4 * width
    BY <1>5 DEF LineBytes, BytesPerPixel, Converts420
  <2>2. x < width /\ x \div 2 < (width + 1) \div 2
    BY <1>1, <2>1
  <2>3. s = IF i = 0 THEN Sample("U", r \div 2, x \div 2)
            ELSE IF i = 1 THEN Sample("Y", r, x)
            ELSE IF i = 2 THEN Sample("V", r \div 2, x \div 2)
            ELSE Sample("A", r, x)
    BY <1>1, <1>5, DueV408
  <2>5. CASE i = 0
    <3>1. s[1] = "U" /\ s[2] = r \div 2 /\ s[3] = x \div 2
      BY <1>2, <2>3, <2>5
    <3> QED  BY <1>3, <1>5, <2>2, <3>1 DEF Subsampled
  <2>6. CASE i = 1
    <3>1. s[1] = "Y" /\ s[2] = r /\ s[3] = x
      BY <1>2, <2>3, <2>6
    <3> QED  BY <1>1, <2>2, <3>1 DEF Subsampled
  <2>7. CASE i = 2
    <3>1. s[1] = "V" /\ s[2] = r \div 2 /\ s[3] = x \div 2
      BY <1>2, <2>3, <2>7
    <3> QED  BY <1>3, <1>5, <2>2, <3>1 DEF Subsampled
  <2>8. CASE i = 3
    <3>1. s[1] = "A" /\ s[2] = r /\ s[3] = x
      BY <1>2, <2>3, <2>8
    <3> QED  BY <1>1, <2>2, <3>1 DEF Subsampled
  <2> QED  BY <2>5, <2>6, <2>7, <2>8
<1>6. CASE convert \in ConvertsRGB
  <2>1. BytesPerPixel \in {3, 4} /\ LineBytes = BytesPerPixel * width
    BY <1>6 DEF LineBytes, BytesPerPixel, Converts420, ConvertsRGB
  <2> PICK x \in Nat, i \in 0 .. BytesPerPixel - 1 :
           x = b \div BytesPerPixel /\ i = b % BytesPerPixel
    BY <1>1, <2>1
  <2>2. x < width
    <3>1. CASE BytesPerPixel = 3  BY <1>1, <2>1, <3>1
    <3>2. CASE BytesPerPixel = 4  BY <1>1, <2>1, <3>2
    <3> QED  BY <2>1, <3>1, <3>2
  <2>3. SourceByte(i) \in Int /\ SourceByte(i) < BytesPerPixel
    BY <1>6, <2>1 DEF SourceByte, BytesPerPixel, ConvertsRGB
  <2>4. BytesPerPixel * x + SourceByte(i) < BytesPerPixel * width
    <3>1. CASE BytesPerPixel = 3  BY <1>1, <2>2, <2>3, <3>1
    <3>2. CASE BytesPerPixel = 4  BY <1>1, <2>2, <2>3, <3>2
    <3> QED  BY <2>1, <3>1, <3>2
  <2>5. s = Sample("RGB", r, BytesPerPixel * x + SourceByte(i))
    BY <1>1, <1>6, DueRGB
  <2>6. s[1] = "RGB" /\ s[2] = r /\ s[3] = BytesPerPixel * x + SourceByte(i)
    BY <1>2, <2>5
  <2> QED  BY <1>1, <2>4, <2>6 DEF Subsampled
<1> QED  BY <1>1, <1>4, <1>5, <1>6 DEF Functions, Converts422

(* Pictures of any width and height but the narrow ones: no converter      *)
(* writes outside the picture or reads a sample that its planes do not     *)
(* have.                                                                   *)
THEOREM RowsStayInside == Spec => []InsideThePicture
<1>1. RowsInv \/ NarrowInv => InsideThePicture
  <2> SUFFICES ASSUME RowsInv
               PROVE  InsideThePicture
    BY DEF InsideThePicture, NarrowInv
  <2>1. DOMAIN out = Covered /\ Covered \subseteq Destination
    BY DEF RowsInv, Covered
  <2>2. ASSUME convert \notin Clears, NEW t \in DOMAIN out
        PROVE  /\ out[t][2] < IF Subsampled(out[t][1]) /\ convert # "Y422toY422"
                              THEN (height + 1) \div 2 ELSE height
               /\ out[t][3] < IF Subsampled(out[t][1]) THEN (width + 1) \div 2
                              ELSE IF out[t][1] = "RGB" THEN BytesPerPixel * width ELSE width
    <3> PICK r \in 0 .. height - 1, b \in 0 .. LineBytes - 1 : t = <<r, b>>
      BY <2>1, DestinationPairs DEF RowsInv, LoopInv
    <3>1. out[t] = Due(<<r, b>>)
      BY <2>1 DEF RowsInv
    <3> QED  BY <2>2, <3>1, DueInside DEF RowsInv
  <2> QED  BY <2>1, <2>2 DEF InsideThePicture
<1> QED  BY <1>1, RowsInvariant, PTL

(* Pictures of any width and height but the narrow ones: each converter    *)
(* leaves every pixel converted, the vector loops just as the scalar ones. *)
THEOREM RowsConvertAll == Spec => []EveryPixelConverted
<1>1. RowsInv \/ NarrowInv => EveryPixelConverted
  <2> SUFFICES ASSUME RowsInv, pc = "done", convert \notin Clears
               PROVE  out = [b \in Destination |-> Expected(b[1], b[2])]
    BY DEF EveryPixelConverted, NarrowInv
  <2>1. out = [t \in Destination |-> Due(t)]
    BY DoneCoversAll DEF RowsInv
  <2>2. \A t : Due(t) = Expected(t[1], t[2])
    BY DEF Due
  <2> QED  BY <2>1, <2>2
<1> QED  BY <1>1, RowsInvariant, PTL

(* Pictures of any width and height: clearing leaves every pixel black.    *)
THEOREM RowsClearAll == Spec => []ClearedToBlack
<1>1. RowsInv \/ NarrowInv => ClearedToBlack
  <2> SUFFICES ASSUME RowsInv, pc = "done", convert \in Clears
               PROVE  /\ DOMAIN out = Destination
                      /\ \A b \in Destination :
                           out[b] = CASE convert = "ClearY422" -> IF b[2] % 2 = 0 THEN 128 ELSE 16
                                      [] convert = "ClearV408" ->
                                           IF b[2] % 4 = 1 THEN 16
                                           ELSE IF b[2] % 4 = 3 THEN 235 ELSE 128
                                      [] OTHER                 -> 0
    BY DEF ClearedToBlack, NarrowInv
  <2>1. out = [t \in Destination |-> Due(t)]
    BY DoneCoversAll DEF RowsInv
  <2>2. \A t : Due(t) = Black(t[2])
    BY DEF Due
  <2> QED  BY <2>1, <2>2 DEF Black
<1> QED  BY <1>1, RowsInvariant, PTL

=============================================================================
