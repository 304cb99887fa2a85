------------------------- MODULE FFusionIntactProofs -------------------------
(***************************************************************************)
(* Proofs about FFusionBands, continued: the packets reach the decoder in  *)
(* an order from which every picture of an intact stream can be decoded,   *)
(* so no frame of it is drawn black while it has a buffer.                 *)
(***************************************************************************)
EXTENDS FFusionBandsProofs, WellFoundedInduction

-----------------------------------------------------------------------------
(* The stream *)

(* A bounded set of naturals has a greatest element.                       *)
LEMMA Greatest ==
  ASSUME NEW S \in SUBSET Nat, NEW n \in Nat, S # {}, \A g \in S : g <= n
  PROVE  \E g \in S : \A h \in S : h <= g
<1> DEFINE T == {n - g : g \in S}
<1>1. T \subseteq Nat /\ T # {}
  <2>1. ASSUME NEW g \in S PROVE n - g \in Nat
    OBVIOUS
  <2>2. T # {}
    OBVIOUS
  <2> QED  BY <2>1, <2>2
<1>2. PICK x \in T : \A y \in T : ~ (<<y, x>> \in OpToRel(<, Nat))
  BY <1>1, NatLessThanWellFounded, WFMin
<1>3. \A y \in T : ~ (y < x)
  BY <1>1, <1>2 DEF OpToRel
<1>4. PICK g \in S : x = n - g
  OBVIOUS
<1>5. ASSUME NEW h \in S PROVE h <= g
  <2>1. n - h \in T
    OBVIOUS
  <2>2. ~ (n - h < n - g)
    BY <1>3, <1>4, <2>1
  <2>3. n \in Nat /\ h \in Nat /\ g \in Nat
    OBVIOUS
  <2> QED  BY <2>2, <2>3
<1> QED  BY <1>5

(* Before every delta frame there is a frame that is not droppable, at the *)
(* latest the first one, so the frame it predicts from exists.             *)
LEMMA RefOfFacts ==
  ASSUME NEW f \in Frame, f \notin KeyFrames
  PROVE  /\ RefOf(f) \in Frame
         /\ RefOf(f) < f
         /\ RefOf(f) \notin Droppable
         /\ \A h \in Frame : RefOf(f) < h /\ h < f => h \in Droppable
<1> DEFINE S == {g \in Frame : g < f /\ g \notin Droppable}
<1>1. 0 \in S
  BY FrameFacts, StreamAssumption DEF Frame
<1>2. S \subseteq Frame /\ Frame \subseteq Nat /\ f \in Nat
  BY FrameFacts
<1>3. PICK g \in S : \A h \in S : h <= g
  <2>1. \A g \in S : g < f
    OBVIOUS
  <2> HIDE DEF S
  <2>2. S \in SUBSET Nat /\ S # {} /\ \A g \in S : g <= f
    BY <1>1, <1>2, <2>1
  <2> QED  BY <1>2, <2>2, Greatest
<1>4. \A h \in Frame : g < h /\ h < f => h \in Droppable
  BY <1>3, FrameFacts
<1> DEFINE P(h) == /\ h < f
                   /\ h \notin Droppable
                   /\ \A i \in Frame : (h < i /\ i < f) => i \in Droppable
<1>5. \E h \in Frame : P(h)
  BY <1>3, <1>4
<1>6. RefOf(f) = CHOOSE h \in Frame : P(h)
  BY DEF RefOf
<1> HIDE DEF P
<1>7. RefOf(f) \in Frame /\ P(RefOf(f))
  BY <1>5, <1>6
<1> QED  BY <1>7 DEF P

(* Damage spreads from the frame a delta frame predicts from to that frame.*)
LEMMA DamagedRef ==
  ASSUME NEW f \in Frame, f \notin KeyFrames, Damaged(RefOf(f))
  PROVE  Damaged(f)
<1> DEFINE g == RefOf(f)
<1>1. g \in Nat /\ f \in Nat /\ g < f /\ g \notin Droppable
  BY RefOfFacts, FrameFacts
<1>2. \A h \in Frame : g < h /\ h < f => h \in Droppable
  BY RefOfFacts
<1> HIDE DEF g
<1>3. Damaged(g)
  BY DEF g
<1>4. PICK u \in Undecodable : /\ u <= g
                               /\ u = g \/ u \notin Droppable
                               /\ \A k \in KeyFrames : ~(u < k /\ k <= g)
  BY <1>3 DEF Damaged
<1>5. u \in Nat /\ u <= f /\ u \notin Droppable
  BY <1>1, <1>4, StreamAssumption, FrameFacts
<1>6. ASSUME NEW k \in KeyFrames, u < k, k <= f
      PROVE  FALSE
  <2>1. k \in Frame /\ k \in Nat /\ k \notin Droppable /\ k # f
    BY StreamAssumption, FrameFacts
  <2>2. ~(k <= g)
    BY <1>4, <1>6
  <2> QED  BY <1>1, <1>2, <1>6, <2>1, <2>2
<1> QED  BY <1>5, <1>6 DEF Damaged

(* The reference the decoder should hold once frame p has passed it.       *)
NextRef(p) == IF p \in Droppable THEN RefOf(p) ELSE p

(* A decoder that holds the reference of f, unless that is damaged, turns  *)
(* the packet of f into picture f and the reference of its successors,     *)
(* unless these are damaged.                                               *)
Prepared(ctx, f) == f \notin KeyFrames => (~Damaged(RefOf(f)) => ctx.ref = RefOf(f))

LEMMA DecodedIntact ==
  ASSUME NEW ctx, NEW f \in Frame, Prepared(ctx, f)
  PROVE  /\ ~Damaged(f) => Decoded(ctx, f) = f
         /\ ~Damaged(NextRef(f)) => RefAfter(ctx, f) = NextRef(f)
<1>1. ~Damaged(f) => f \notin Undecodable
  <2>1. f \in Nat /\ \A k \in KeyFrames : ~(f < k /\ k <= f)
    BY FrameFacts
  <2> QED  BY <2>1 DEF Damaged
<1>2. ~Damaged(f) => Decoded(ctx, f) = f
  <2>1. CASE f \in KeyFrames
    BY <1>1, <2>1 DEF Decoded
  <2>2. CASE f \notin KeyFrames
    <3>1. RefOf(f) # NULL
      BY <2>2, RefOfFacts, FrameFacts DEF Picture
    <3> QED  BY <1>1, <2>2, <3>1, DamagedRef DEF Decoded, Prepared
  <2> QED  BY <2>1, <2>2
<1>3. CASE f \in Droppable
  <2>1. f \notin KeyFrames /\ NextRef(f) = RefOf(f) /\ RefAfter(ctx, f) = ctx.ref
    BY <1>3, StreamAssumption DEF RefAfter, NextRef
  <2> QED  BY <1>2, <2>1 DEF Prepared
<1>4. CASE f \notin Droppable
  <2>1. f # NULL
    BY FrameFacts DEF Picture
  <2> QED  BY <1>2, <1>4, <2>1 DEF RefAfter, NextRef
<1> QED  BY <1>2, <1>3, <1>4

(* f is the delta frame to decode next after p: nothing between them is a  *)
(* reference of f.                                                         *)
Follows(p, f) == p < f /\ f \notin KeyFrames /\ RefOf(f) = NextRef(p)

LEMMA FollowsDroppable ==
  ASSUME NEW p \in Frame, NEW d \in Droppable, NEW f \in Frame,
         Follows(p, d), Follows(d, f)
  PROVE  Follows(p, f)
<1>1. p \in Nat /\ d \in Nat /\ f \in Nat
  BY FrameFacts, StreamAssumption
<1>2. RefOf(f) = RefOf(d) /\ RefOf(d) = NextRef(p)
  BY DEF Follows, NextRef
<1> QED  BY <1>1, <1>2 DEF Follows

-----------------------------------------------------------------------------
(* The queue of records begun and not yet decoded *)

(* The decoder is ready for the frames after the one it decoded last.      *)
RefHeld == ~Damaged(NextRef(lastFrame)) => av.ref = NextRef(lastFrame)

(* ahead orders the waiting records in a queue.                            *)
OrderInv ==
  \A r \in Records :
    /\ ~Waiting(r) => ahead[r] = {}
    /\ r \notin ahead[r]
    /\ \A q \in ahead[r] : Waiting(q) /\ ahead[q] \subseteq ahead[r]
    /\ \A q \in Records :
         Waiting(r) /\ Waiting(q) /\ r # q => q \in ahead[r] \/ r \in ahead[q]

(* The delta frame of record r comes next after what the decoder was given *)
(* last, and the flush test will not mistake it for a jump.                *)
IsNext(r) ==
  /\ ahead[r] = {}
  /\ Follows(lastFrame, drp[r].frameNumber)
  /\ RefHeld
  /\ drp[r].GOPStartFrameNumber <= lastFrame

(* The delta frame of record r comes next after that of p, the record just *)
(* ahead of r in the queue.                                                *)
ComesAfter(p, r) ==
  /\ ahead[r] = ahead[p] \cup {p}
  /\ Follows(drp[p].frameNumber, drp[r].frameNumber)
  /\ drp[r].GOPStartFrameNumber = drp[p].GOPStartFrameNumber

ChainInv ==
  \A r \in Records : Waiting(r) =>
    /\ drp[r].GOPStartFrameNumber <= drp[r].frameNumber
    /\ drp[r].frameNumber \notin KeyFrames =>
         IsNext(r) \/ \E p \in ahead[r] : ComesAfter(p, r)

(* What was scheduled last is p, or a droppable frame after p.             *)
Reaches(p) == scheduled = p \/ (scheduled \in Droppable /\ Follows(p, scheduled))

(* The last record of the queue, and what a frame scheduled next will      *)
(* follow: that record or, when nothing waits, the frame decoded last.     *)
IsLast(l) == Waiting(l) /\ \A q \in Records : Waiting(q) => q = l \/ q \in ahead[l]

TailInv ==
  scheduled # NULL =>
    \/ /\ \A r \in Records : ~Waiting(r)
       /\ Reaches(lastFrame) /\ RefHeld /\ lastIFrame <= lastFrame
    \/ \E l \in Records : /\ IsLast(l)
                          /\ Reaches(drp[l].frameNumber)
                          /\ lastIFrame = drp[l].GOPStartFrameNumber

QueueInv == OrderInv /\ ChainInv /\ TailInv

(* What the proofs need of a record's state.                               *)
SameQueue(q) == /\ Waiting(q)' = Waiting(q)
                /\ drp'[q].frameNumber = drp[q].frameNumber
                /\ drp'[q].GOPStartFrameNumber = drp[q].GOPStartFrameNumber

LEMMA InitQueue == Init => QueueInv
<1> SUFFICES ASSUME Init PROVE QueueInv
  OBVIOUS
<1>1. scheduled = NULL /\ \A r \in Records : ~Waiting(r) /\ ahead[r] = {}
  BY DEF Init, Waiting, Begun, IdleRecord
<1> QED  BY <1>1 DEF QueueInv, OrderInv, ChainInv, TailInv

(* Steps that neither begin, decode nor give up a band.                    *)
LEMMA QueueKept ==
  ASSUME TypeOK, QueueInv, \A q \in Records : Waiting(q)' = Waiting(q),
         \A q \in Records : Waiting(q) => SameQueue(q),
         ahead' = ahead, av' = av, lastFrame' = lastFrame,
         lastIFrame' = lastIFrame, scheduled' = scheduled
  PROVE  QueueInv'
<1>1. OrderInv'
  BY DEF QueueInv, OrderInv, TypeOK
<1>2. RefHeld' = RefHeld
  BY DEF RefHeld
<1>3. ASSUME NEW q \in Records, Waiting(q)
      PROVE  /\ drp'[q].frameNumber = drp[q].frameNumber
             /\ drp'[q].GOPStartFrameNumber = drp[q].GOPStartFrameNumber
  BY <1>3 DEF SameQueue
<1>4. ChainInv'
  <2> SUFFICES ASSUME NEW r \in Records, Waiting(r)
               PROVE  /\ drp'[r].GOPStartFrameNumber <= drp'[r].frameNumber
                      /\ drp'[r].frameNumber \notin KeyFrames =>
                           IsNext(r)' \/ \E p \in ahead'[r] : ComesAfter(p, r)'
    BY DEF ChainInv
  <2>1. \A p \in ahead[r] : p \in Records /\ Waiting(p)
    BY DEF QueueInv, OrderInv, Waiting, TypeOK
  <2>2. IsNext(r)' = IsNext(r)
    BY <1>2, <1>3 DEF IsNext
  <2>3. \A p \in ahead[r] : p \in Records => ComesAfter(p, r)' = ComesAfter(p, r)
    BY <1>3, <2>1 DEF ComesAfter
  <2> QED  BY <1>3, <2>1, <2>2, <2>3 DEF QueueInv, ChainInv
<1>5. TailInv'
  <2>1. \A p : Reaches(p)' = Reaches(p)
    BY DEF Reaches
  <2>2. \A l \in Records : IsLast(l)' = IsLast(l)
    BY DEF IsLast
  <2> QED  BY <1>2, <1>3, <2>1, <2>2 DEF QueueInv, TailInv, IsLast
<1> QED  BY <1>1, <1>4, <1>5 DEF QueueInv

(* A band begun joins the end of the queue.                                *)
LEMMA QueueJoined ==
  ASSUME TypeOK, QueueInv, NEW r \in Records, NEW f \in Frame, BeginBand(r, f)
  PROVE  QueueInv'
<1> DEFINE W == {q \in Records : Waiting(q)}
<1>1. /\ ~Waiting(r) /\ Waiting(r)'
      /\ drp'[r].frameNumber = f /\ drp'[r].GOPStartFrameNumber = lastIFrame'
      /\ ahead'[r] = W
  BY DEF BeginBand, Waiting, Begun, IdleRecord, TypeOK
<1>2. \A q \in Records \ {r} : drp'[q] = drp[q] /\ ahead'[q] = ahead[q]
  BY DEF BeginBand, TypeOK
<1>3. \A q \in Records \ {r} : Waiting(q)' = Waiting(q)
  BY <1>2 DEF Waiting, Begun
<1>4. av' = av /\ lastFrame' = lastFrame /\ scheduled' = f
  BY DEF BeginBand
<1>5. \A q \in Records : /\ ahead[q] \subseteq Records \ {r}
                         /\ \A p \in ahead[q] : Waiting(p)
  BY <1>1 DEF QueueInv, OrderInv, TypeOK
<1>6. OrderInv'
  <2>1. ASSUME NEW q \in Records
        PROVE  /\ ~Waiting(q)' => ahead'[q] = {}
               /\ q \notin ahead'[q]
               /\ \A p \in ahead'[q] : Waiting(p)' /\ ahead'[p] \subseteq ahead'[q]
               /\ \A p \in Records : Waiting(q)' /\ Waiting(p)' /\ q # p
                                       => p \in ahead'[q] \/ q \in ahead'[p]
    <3>1. CASE q = r
      BY <3>1, <1>1, <1>2, <1>3, <1>5 DEF QueueInv, OrderInv
    <3>2. CASE q # r
      BY <3>2, <1>1, <1>2, <1>3, <1>5 DEF QueueInv, OrderInv
    <3> QED  BY <3>1, <3>2
  <2> QED  BY <2>1 DEF OrderInv
<1>7. \A q \in Records : drp[q].frameNumber \in Nat /\ drp[q].GOPStartFrameNumber \in Nat
  BY FrameFacts DEF TypeOK, DecompressRecord
<1>8. f \in Nat /\ lastFrame \in Nat /\ lastIFrame \in Nat
  BY FrameFacts DEF TypeOK
<1>9. f \notin KeyFrames =>
        /\ lastIFrame' = lastIFrame /\ scheduled # NULL
        /\ Follows(scheduled, f)
  BY DEF BeginBand, MayFollow, Follows, NextRef
<1>10. \A p \in Frame : f \notin KeyFrames /\ Reaches(p) => Follows(p, f)
  BY <1>9, FollowsDroppable DEF Reaches
<1>11. f \in KeyFrames => lastIFrame' = f
  BY DEF BeginBand
<1>12. ASSUME f \notin KeyFrames
       PROVE  /\ lastIFrame' <= f
              /\ IsNext(r)' \/ \E p \in ahead'[r] : ComesAfter(p, r)'
  <2>1. CASE /\ \A q \in Records : ~Waiting(q)
             /\ Reaches(lastFrame) /\ RefHeld /\ lastIFrame <= lastFrame
    <3>1. ahead'[r] = {} /\ Follows(lastFrame, f)
      BY <1>1, <1>10, <1>12, <2>1 DEF TypeOK
    <3>2. lastFrame < f
      BY <3>1 DEF Follows
    <3>3. IsNext(r)'
      BY <1>1, <1>4, <1>9, <1>12, <2>1, <3>1 DEF IsNext, RefHeld
    <3> QED  BY <1>8, <1>9, <1>12, <2>1, <3>2, <3>3
  <2>2. CASE \E l \in Records : /\ IsLast(l)
                                /\ Reaches(drp[l].frameNumber)
                                /\ lastIFrame = drp[l].GOPStartFrameNumber
    <3>1. PICK l \in Records : /\ IsLast(l)
                               /\ Reaches(drp[l].frameNumber)
                               /\ lastIFrame = drp[l].GOPStartFrameNumber
      BY <2>2
    <3>2. Waiting(l) /\ l # r /\ W = ahead[l] \cup {l}
      BY <1>1, <1>5, <3>1 DEF IsLast
    <3>3. Follows(drp[l].frameNumber, f)
      BY <1>10, <1>12, <3>1 DEF TypeOK, DecompressRecord
    <3>4. drp[l].GOPStartFrameNumber <= drp[l].frameNumber
      BY <3>2 DEF QueueInv, ChainInv
    <3>5. lastIFrame' <= f
      BY <1>7, <1>8, <1>9, <1>12, <3>1, <3>3, <3>4 DEF Follows
    <3>6. l \in ahead'[r] /\ ComesAfter(l, r)'
      BY <1>1, <1>2, <1>9, <1>12, <3>1, <3>2, <3>3 DEF ComesAfter
    <3> QED  BY <3>5, <3>6
  <2> QED  BY <1>9, <1>12, <2>1, <2>2 DEF QueueInv, TailInv
<1>13. ChainInv'
  <2>1. ASSUME NEW q \in Records, Waiting(q)'
        PROVE  /\ drp'[q].GOPStartFrameNumber <= drp'[q].frameNumber
               /\ drp'[q].frameNumber \notin KeyFrames =>
                    IsNext(q)' \/ \E p \in ahead'[q] : ComesAfter(p, q)'
    <3>1. CASE q = r
      BY <3>1, <1>1, <1>8, <1>11, <1>12
    <3>2. CASE q # r
      <4>1. Waiting(q) /\ drp'[q] = drp[q] /\ ahead'[q] = ahead[q]
        BY <1>2, <1>3, <2>1, <3>2
      <4>2. IsNext(q) => IsNext(q)'
        BY <1>4, <4>1 DEF IsNext, RefHeld
      <4>3. \A p \in ahead[q] : ComesAfter(p, q) => ComesAfter(p, q)'
        BY <1>2, <1>5, <4>1 DEF ComesAfter
      <4> QED  BY <4>1, <4>2, <4>3 DEF QueueInv, ChainInv
    <3> QED  BY <3>1, <3>2
  <2> QED  BY <2>1 DEF ChainInv
<1>14. TailInv'
  <2>1. IsLast(r)' /\ Reaches(drp[r].frameNumber)'
    BY <1>1, <1>3, <1>4 DEF IsLast, Reaches
  <2> QED  BY <1>1, <2>1 DEF TailInv
<1> QED  BY <1>6, <1>13, <1>14 DEF QueueInv

(* Record r leaves the queue, the others keep their order.                 *)
Leaves(r) ==
  /\ Waiting(r) /\ ~Waiting(r)' /\ ahead'[r] = {}
  /\ \A q \in Records \ {r} : SameQueue(q) /\ ahead'[q] = ahead[q] \ {r}

LEMMA OrderLeft ==
  ASSUME TypeOK, QueueInv, NEW r \in Records, Leaves(r)
  PROVE  /\ OrderInv'
         /\ \A q \in Records \ {r} : \A p \in ahead[q] \ {r} :
              /\ p \in ahead'[q]
              /\ ComesAfter(p, q) => ComesAfter(p, q)'
<1>1. \A q \in Records \ {r} : Waiting(q)' = Waiting(q) /\ ahead'[q] = ahead[q] \ {r}
  BY DEF Leaves, SameQueue
<1>2. ~Waiting(r)' /\ ahead'[r] = {}
  BY DEF Leaves
<1>3. \A q \in Records : ahead[q] \subseteq Records /\ \A p \in ahead[q] : Waiting(p)
  BY DEF QueueInv, OrderInv, TypeOK
<1>4. ASSUME NEW q \in Records
      PROVE  /\ ~Waiting(q)' => ahead'[q] = {}
             /\ q \notin ahead'[q]
             /\ \A p \in ahead'[q] : Waiting(p)' /\ ahead'[p] \subseteq ahead'[q]
             /\ \A p \in Records : Waiting(q)' /\ Waiting(p)' /\ q # p
                                     => p \in ahead'[q] \/ q \in ahead'[p]
  <2>1. CASE q = r
    BY <2>1, <1>2
  <2>2. CASE q # r
    <3>1. \A p \in ahead'[q] : /\ p \in ahead[q] /\ p # r
                               /\ Waiting(p)' /\ ahead'[p] = ahead[p] \ {r}
      BY <2>2, <1>1, <1>3
    <3>2. \A p \in ahead[q] : ahead[p] \subseteq ahead[q]
      BY DEF QueueInv, OrderInv
    <3>3. \A p \in Records : Waiting(q)' /\ Waiting(p)' /\ q # p
                               => p \in ahead'[q] \/ q \in ahead'[p]
      BY <2>2, <1>1, <1>2 DEF QueueInv, OrderInv
    <3> QED  BY <2>2, <1>1, <3>1, <3>2, <3>3 DEF QueueInv, OrderInv
  <2> QED  BY <2>1, <2>2
<1>5. ASSUME NEW q \in Records \ {r}, NEW p \in ahead[q] \ {r}, ComesAfter(p, q)
      PROVE  ComesAfter(p, q)'
  <2>1. p \in Records \ {r}
    BY <1>3
  <2>2. SameQueue(p) /\ SameQueue(q)
    BY <2>1 DEF Leaves
  <2>3. ahead'[q] = ahead'[p] \cup {p}
    BY <1>1, <1>5, <2>1 DEF ComesAfter
  <2> QED  BY <1>5, <2>2, <2>3 DEF ComesAfter, SameQueue
<1> QED  BY <1>1, <1>3, <1>4, <1>5 DEF OrderInv

(* What the decoder makes of the record at the head of the queue.          *)
LEMMA FrontDecodes ==
  ASSUME TypeOK, DecoderInv, QueueInv,
         NEW r \in Records, Waiting(r), ahead[r] = {}
  PROVE  LET f == drp[r].frameNumber
         IN  /\ ~Damaged(f) => Decompressed(r).frame = f
             /\ ~Damaged(NextRef(f)) => Decompressed(r).ctx.ref = NextRef(f)
<1> DEFINE f == drp[r].frameNumber
           ctx == IF FlushNeeded(r) THEN FlushBuffers(av) ELSE av
<1>1. f \in Frame /\ av \in AVCodecContext
  BY DEF TypeOK, DecompressRecord
<1>2. ctx \in AVCodecContext /\ Drained(ctx)
  BY <1>1, FlushBuffersType, FlushDrained DEF DecoderInv
<1>3. Prepared(ctx, f)
  <2>1. ASSUME f \notin KeyFrames
        PROVE  IsNext(r)
    BY <2>1 DEF QueueInv, ChainInv
  <2>2. ASSUME f \notin KeyFrames
        PROVE  ~FlushNeeded(r)
    <3>1. drp[r].GOPStartFrameNumber <= lastFrame /\ lastFrame < f
      BY <2>1, <2>2 DEF IsNext, Follows
    <3>2. drp[r].GOPStartFrameNumber \in Nat /\ lastFrame \in Nat /\ f \in Nat
      BY FrameFacts DEF TypeOK, DecompressRecord
    <3> QED  BY <2>2, <3>1, <3>2 DEF FlushNeeded
  <2> QED  BY <2>1, <2>2 DEF Prepared, IsNext, Follows, RefHeld
<1> HIDE DEF ctx
<1>4. Decompressed(r) = FFusionDecompress(ctx, f)
  BY DEF Decompressed, ctx
<1>5. /\ FFusionDecompress(ctx, f).frame = Decoded(ctx, f)
      /\ FFusionDecompress(ctx, f).ctx.ref = RefAfter(ctx, f)
  BY <1>1, <1>2, DecompressDrained
<1> QED  BY <1>1, <1>3, <1>4, <1>5, DecodedIntact

(* The head of the queue is decoded.                                       *)
LEMMA QueueDecoded ==
  ASSUME TypeOK, DecoderInv, QueueInv, NEW r \in Records, NEW s, Decode(r, s),
         Leaves(r)
  PROVE  QueueInv'
<1>1. /\ Waiting(r) /\ ahead[r] = {} /\ av' = Decompressed(r).ctx
      /\ lastFrame' = drp[r].frameNumber
      /\ lastIFrame' = lastIFrame /\ scheduled' = scheduled
  BY DEF Decode
<1>2. RefHeld'
  BY <1>1, FrontDecodes DEF RefHeld
<1>3. drp[r].GOPStartFrameNumber <= lastFrame'
  BY <1>1 DEF QueueInv, ChainInv
<1>4. \A q \in Records \ {r} : /\ Waiting(q)' = Waiting(q)
                               /\ drp'[q].frameNumber = drp[q].frameNumber
                               /\ drp'[q].GOPStartFrameNumber
                                    = drp[q].GOPStartFrameNumber
                               /\ ahead'[q] = ahead[q] \ {r}
  BY DEF Leaves, SameQueue
<1>5. ~Waiting(r)'
  BY DEF Leaves
<1>6. ChainInv'
  <2>1. ASSUME NEW q \in Records, Waiting(q)', drp[q].frameNumber \notin KeyFrames
        PROVE  IsNext(q)' \/ \E p \in ahead'[q] : ComesAfter(p, q)'
    <3>1. q # r /\ Waiting(q)
      BY <1>4, <1>5, <2>1
    <3>2. r \in ahead[q]
      BY <1>1, <3>1 DEF QueueInv, OrderInv
    <3>3. PICK p \in ahead[q] : ComesAfter(p, q)
      BY <2>1, <3>1, <3>2 DEF QueueInv, ChainInv, IsNext
    <3>4. CASE p = r
      <4>1. IsNext(q)'
        BY <1>1, <1>2, <1>3, <1>4, <3>1, <3>3, <3>4 DEF ComesAfter, IsNext
      <4> QED  BY <4>1
    <3>5. CASE p # r
      BY <3>1, <3>3, <3>5, OrderLeft
    <3> QED  BY <3>4, <3>5
  <2>2. ASSUME NEW q \in Records, Waiting(q)'
        PROVE  /\ drp'[q].frameNumber = drp[q].frameNumber
               /\ drp'[q].GOPStartFrameNumber <= drp'[q].frameNumber
    BY <1>4, <1>5, <2>2 DEF QueueInv, ChainInv
  <2> QED  BY <2>1, <2>2 DEF ChainInv
<1>7. TailInv'
  <2> SUFFICES ASSUME scheduled # NULL
               PROVE  TailInv'
    BY <1>1 DEF TailInv
  <2>1. PICK l \in Records : /\ IsLast(l)
                             /\ Reaches(drp[l].frameNumber)
                             /\ lastIFrame = drp[l].GOPStartFrameNumber
    BY <1>1 DEF QueueInv, TailInv
  <2>2. CASE l = r
    <3>1. \A q \in Records : ~Waiting(q)'
      BY <1>1, <1>4, <1>5, <2>1, <2>2 DEF IsLast
    <3>2. Reaches(lastFrame)'
      BY <1>1, <2>1, <2>2 DEF Reaches
    <3> QED  BY <1>1, <1>2, <1>3, <2>1, <2>2, <3>1, <3>2 DEF TailInv
  <2>3. CASE l # r
    <3>1. IsLast(l)'
      BY <1>4, <1>5, <2>1, <2>3 DEF IsLast
    <3>2. Reaches(drp[l].frameNumber)'
      BY <1>1, <1>4, <2>1, <2>3 DEF Reaches
    <3> QED  BY <1>1, <1>4, <2>1, <2>3, <3>1, <3>2 DEF TailInv
  <2> QED  BY <2>2, <2>3
<1> QED  BY <1>6, <1>7, OrderLeft DEF QueueInv

(* A band given up before it was decoded leaves no gap behind: its frame   *)
(* is droppable, or nothing scheduled after it is waiting.                 *)
LEMMA QueueGivenUp ==
  ASSUME TypeOK, QueueInv, NEW r \in Records, EndBand(r), Waiting(r), Leaves(r)
  PROVE  QueueInv'
<1>1. /\ av' = av /\ lastFrame' = lastFrame /\ lastIFrame' = lastIFrame
      /\ scheduled' = IF drp[r].frameNumber \notin Droppable THEN NULL ELSE scheduled
      /\ drp[r].frameNumber \in Droppable \/ \A q \in Records : r \notin ahead[q]
  BY DEF EndBand, MayTerminate
<1>2. RefHeld' = RefHeld
  BY <1>1 DEF RefHeld
<1>4. \A q \in Records \ {r} : /\ Waiting(q)' = Waiting(q)
                               /\ drp'[q].frameNumber = drp[q].frameNumber
                               /\ drp'[q].GOPStartFrameNumber
                                    = drp[q].GOPStartFrameNumber
                               /\ ahead'[q] = ahead[q] \ {r}
  BY DEF Leaves, SameQueue
<1>5. ~Waiting(r)'
  BY DEF Leaves
<1>6. ASSUME NEW q \in Records
      PROVE  drp[q].frameNumber \in Frame /\ q \notin ahead[q]
             /\ \A p \in ahead[q] : p \in Records /\ Waiting(p) /\ ahead[p] \subseteq ahead[q]
  BY DEF TypeOK, DecompressRecord, QueueInv, OrderInv
<1>7. drp[r].frameNumber \in Droppable =>
        IsNext(r) \/ \E p \in ahead[r] : ComesAfter(p, r)
  BY StreamAssumption DEF QueueInv, ChainInv
<1>8. ChainInv'
  <2>1. ASSUME NEW q \in Records, Waiting(q)', drp[q].frameNumber \notin KeyFrames
        PROVE  IsNext(q)' \/ \E p \in ahead'[q] : ComesAfter(p, q)'
    <3>1. q # r /\ Waiting(q)
      BY <1>4, <1>5, <2>1
    <3>2. CASE IsNext(q)
      BY <1>1, <1>2, <1>4, <3>1, <3>2 DEF IsNext
    <3>3. ASSUME NEW p \in ahead[q], ComesAfter(p, q), p # r
          PROVE  \E i \in ahead'[q] : ComesAfter(i, q)'
      BY <3>1, <3>3, OrderLeft
    <3>4. ASSUME r \in ahead[q], ComesAfter(r, q)
          PROVE  IsNext(q)' \/ \E p \in ahead'[q] : ComesAfter(p, q)'
      <4>1. drp[r].frameNumber \in Droppable
        BY <1>1, <3>4
      <4>2. CASE IsNext(r)
        <5>1. ahead'[q] = {}
          BY <1>4, <3>1, <3>4, <4>2 DEF IsNext, ComesAfter
        <5>2. Follows(lastFrame, drp[q].frameNumber)
          BY <1>6, <3>4, <4>1, <4>2, FollowsDroppable
             DEF IsNext, ComesAfter, TypeOK
        <5> QED
          BY <1>1, <1>2, <1>4, <3>1, <3>4, <4>2, <5>1, <5>2 DEF IsNext, ComesAfter
      <4>3. ASSUME NEW p \in ahead[r], ComesAfter(p, r)
            PROVE  \E i \in ahead'[q] : ComesAfter(i, q)'
        <5>1. p \in Records \ {r} /\ p \in ahead[q] /\ r \notin ahead[p]
          BY <1>6, <3>4, <4>3
        <5>2. ahead'[q] = ahead'[p] \cup {p}
          BY <1>4, <3>1, <3>4, <4>3, <5>1, <1>6 DEF ComesAfter
        <5>3. Follows(drp[p].frameNumber, drp[q].frameNumber)
          BY <1>6, <3>4, <4>1, <4>3, <5>1, FollowsDroppable DEF ComesAfter
        <5> QED  BY <1>4, <3>1, <3>4, <4>3, <5>1, <5>2, <5>3 DEF ComesAfter
      <4> QED  BY <1>7, <4>1, <4>2, <4>3
    <3> QED  BY <2>1, <3>1, <3>2, <3>3, <3>4 DEF QueueInv, ChainInv
  <2>2. ASSUME NEW q \in Records, Waiting(q)'
        PROVE  /\ drp'[q].frameNumber = drp[q].frameNumber
               /\ drp'[q].GOPStartFrameNumber <= drp'[q].frameNumber
    BY <1>4, <1>5, <2>2 DEF QueueInv, ChainInv
  <2> QED  BY <2>1, <2>2 DEF ChainInv
<1>9. TailInv'
  <2> SUFFICES ASSUME scheduled' # NULL
               PROVE  TailInv'
    BY DEF TailInv
  <2>1. drp[r].frameNumber \in Droppable /\ scheduled' = scheduled
    BY <1>1
  <2>2. PICK l \in Records : /\ IsLast(l)
                             /\ Reaches(drp[l].frameNumber)
                             /\ lastIFrame = drp[l].GOPStartFrameNumber
    BY <2>1 DEF QueueInv, TailInv
  <2>3. CASE l # r
    <3>1. IsLast(l)'
      BY <1>4, <1>5, <2>2, <2>3 DEF IsLast
    <3>2. Reaches(drp[l].frameNumber)'
      BY <1>1, <1>4, <2>1, <2>2, <2>3 DEF Reaches
    <3> QED  BY <1>1, <1>4, <2>2, <2>3, <3>1, <3>2 DEF TailInv
  <2>4. ASSUME l = r, NEW p \in Frame, Follows(p, drp[r].frameNumber)
        PROVE  Reaches(p)'
    <3>1. scheduled \in Frame
      BY <2>1 DEF TypeOK
    <3>2. CASE scheduled = drp[r].frameNumber
      BY <2>1, <2>4, <3>2 DEF Reaches
    <3>3. CASE scheduled \in Droppable /\ Follows(drp[r].frameNumber, scheduled)
      BY <2>1, <2>4, <3>1, <3>3, FollowsDroppable DEF Reaches
    <3> QED  BY <2>2, <2>4, <3>2, <3>3 DEF Reaches
  <2>5. CASE l = r /\ IsNext(r)
    <3>1. \A q \in Records : ~Waiting(q)'
      BY <1>4, <1>5, <2>2, <2>5 DEF IsLast, IsNext
    <3>2. Reaches(lastFrame)'
      BY <1>1, <2>4, <2>5 DEF IsNext, TypeOK
    <3> QED  BY <1>1, <1>2, <2>2, <2>5, <3>1, <3>2 DEF TailInv, IsNext
  <2>6. ASSUME l = r, NEW p \in ahead[r], ComesAfter(p, r)
        PROVE  TailInv'
    <3>1. p \in Records \ {r} /\ Waiting(p)
      BY <1>6
    <3>2. IsLast(p)'
      BY <1>4, <1>5, <2>2, <2>6, <3>1 DEF IsLast, ComesAfter
    <3>3. Reaches(drp[p].frameNumber)'
      BY <1>4, <1>6, <2>4, <2>6, <3>1 DEF ComesAfter
    <3> QED  BY <1>1, <1>4, <2>2, <2>6, <3>1, <3>2, <3>3 DEF TailInv, ComesAfter
  <2> QED  BY <1>7, <2>1, <2>3, <2>5, <2>6
<1> QED  BY <1>8, <1>9, OrderLeft DEF QueueInv

(* Both ways to decode a record change its state alike.                    *)
LEMMA DecodeStep ==
  ASSUME TypeOK, NEW r \in Records,
         DecodeBand(r) \/ \E aligned \in Alignments : DecodeAndDrawBand(r, aligned)
  PROVE  \E s \in Slots \cup {NULL} :
           /\ Decode(r, s)
           /\ drp'[r].decoded /\ drp'[r].buffer = s
           /\ drp'[r].phase = drp[r].phase
           /\ drp'[r].frameNumber = drp[r].frameNumber
           /\ \A q \in Records \ {r} : drp'[q] = drp[q]
           /\ \/ drp'[r].shown = drp[r].shown
              \/ \E funcs, aligned :
                   drp'[r].shown = DrawnWith(funcs, PictureIn(buffers', s),
                                             aligned, drp[r].shown)
<1>1. CASE DecodeBand(r)
  <2>1. PICK s \in Slots \cup {NULL} :
          /\ Decode(r, s)
          /\ drp' = [drp EXCEPT ![r] = [@ EXCEPT !.decoded = TRUE, !.buffer = s]]
    BY <1>1 DEF DecodeBand
  <2> QED  BY <2>1 DEF TypeOK, DecompressRecord
<1>2. ASSUME NEW aligned \in Alignments, DecodeAndDrawBand(r, aligned)
      PROVE  \E s \in Slots \cup {NULL} :
               /\ Decode(r, s)
               /\ drp'[r].decoded /\ drp'[r].buffer = s
               /\ drp'[r].phase = drp[r].phase
               /\ drp'[r].frameNumber = drp[r].frameNumber
               /\ \A q \in Records \ {r} : drp'[q] = drp[q]
               /\ drp'[r].shown = DrawnWith(colorConv', PictureIn(buffers', s),
                                            aligned, drp[r].shown)
  <2>1. PICK s \in Slots \cup {NULL} :
          /\ Decode(r, s)
          /\ drp' = [drp EXCEPT ![r] =
                       [@ EXCEPT !.decoded = TRUE,
                                 !.buffer  = s,
                                 !.shown   = DrawnWith(colorConv',
                                               PictureIn(buffers', s), aligned,
                                               drp[r].shown)]]
    BY <1>2 DEF DecodeAndDrawBand
  <2> DEFINE shown == DrawnWith(colorConv', PictureIn(buffers', s), aligned,
                                drp[r].shown)
  <2>2. drp' = [drp EXCEPT ![r] = [@ EXCEPT !.decoded = TRUE, !.buffer = s,
                                            !.shown = shown]]
    BY <2>1
  <2> HIDE DEF shown
  <2>3. /\ drp'[r].decoded /\ drp'[r].buffer = s /\ drp'[r].shown = shown
        /\ drp'[r].phase = drp[r].phase
        /\ drp'[r].frameNumber = drp[r].frameNumber
        /\ \A q \in Records \ {r} : drp'[q] = drp[q]
    BY <2>2 DEF TypeOK, DecompressRecord
  <2> QED  BY <2>1, <2>3 DEF shown
<1> QED  BY <1>1, <1>2

LEMMA NextQueue ==
  ASSUME TypeOK, SlotOwnership, DecoderInv, QueueInv, [Next]_vars
  PROVE  QueueInv'
<1>1. ASSUME NEW r \in Records, NEW f \in Frame, BeginBand(r, f)
      PROVE  QueueInv'
  BY <1>1, QueueJoined
<1>2. ASSUME NEW r \in Records, NEW f \in Frame, BeginBandDecoded(r, f)
      PROVE  QueueInv'
  <2>1. /\ ~Waiting(r) /\ ~Waiting(r)'
        /\ \A q \in Records \ {r} : drp'[q] = drp[q]
        /\ UNCHANGED <<globVars, ahead, scheduled>>
    BY <1>2 DEF BeginBandDecoded, IdleRecord, Waiting, Begun, TypeOK
  <2> QED  BY <2>1, QueueKept DEF SameQueue, Waiting, Begun, globVars
<1>3. ASSUME NEW r \in Records,
             DecodeBand(r) \/ \E aligned \in Alignments : DecodeAndDrawBand(r, aligned)
      PROVE  QueueInv'
  <2>1. PICK s \in Slots \cup {NULL} :
           /\ Decode(r, s)
           /\ drp'[r].decoded
           /\ \A q \in Records \ {r} : drp'[q] = drp[q]
    BY <1>3, DecodeStep
  <2>2. Leaves(r)
    BY <2>1 DEF Leaves, SameQueue, Decode, Waiting, Begun
  <2> QED  BY <2>1, <2>2, QueueDecoded
<1>4. ASSUME NEW r \in Records, NEW aligned \in Alignments, DrawBand(r, aligned)
      PROVE  QueueInv'
  <2>1. PICK shown : drp' = [drp EXCEPT ![r] = [@ EXCEPT !.shown = shown]]
    BY <1>4 DEF DrawBand
  <2>2. \A q \in Records :
          /\ drp'[q].phase = drp[q].phase /\ drp'[q].decoded = drp[q].decoded
          /\ drp'[q].frameNumber = drp[q].frameNumber
          /\ drp'[q].GOPStartFrameNumber = drp[q].GOPStartFrameNumber
    BY <2>1 DEF TypeOK, DecompressRecord
  <2>3. \A q \in Records : SameQueue(q)
    BY <2>2 DEF SameQueue, Waiting, Begun
  <2> QED  BY <1>4, <2>3, QueueKept DEF DrawBand, SameQueue
<1>5. ASSUME NEW r \in Records, EndBand(r)
      PROVE  QueueInv'
  <2>1. /\ ~Waiting(r)'
        /\ \A q \in Records \ {r} : drp'[q] = drp[q] /\ ahead'[q] = ahead[q] \ {r}
        /\ ahead'[r] = {}
    BY <1>5 DEF EndBand, IdleRecord, Waiting, Begun, TypeOK
  <2>2. \A q \in Records \ {r} : SameQueue(q)
    BY <2>1 DEF SameQueue, Waiting, Begun
  <2>3. CASE Waiting(r)
    <3>1. Leaves(r)
      BY <2>1, <2>2, <2>3 DEF Leaves
    <3> QED  BY <1>5, <2>3, <3>1, QueueGivenUp
  <2>4. CASE ~Waiting(r)
    <3>1. ahead' \in [Records -> SUBSET Records]
      BY <1>5 DEF EndBand, TypeOK
    <3>2. \A q \in Records : r \notin ahead[q]
      BY <2>4 DEF QueueInv, OrderInv
    <3>3. ASSUME NEW q \in Records
          PROVE  ahead'[q] = ahead[q]
      <4>1. CASE q = r
        BY <2>1, <2>4, <4>1 DEF QueueInv, OrderInv
      <4>2. CASE q # r
        BY <2>1, <3>2, <4>2
      <4> QED  BY <4>1, <4>2
    <3>4. ahead' = ahead
      BY <3>1, <3>3 DEF TypeOK
    <3>5. UNCHANGED <<av, lastFrame, lastIFrame, scheduled>>
      BY <1>5, <2>4 DEF EndBand
    <3>6. \A q \in Records : Waiting(q)' = Waiting(q)
      BY <2>1, <2>2, <2>4 DEF SameQueue, Waiting, Begun
    <3> QED  BY <2>2, <2>4, <3>4, <3>5, <3>6, QueueKept
  <2> QED  BY <2>3, <2>4
<1>6. CASE UNCHANGED vars
  BY <1>6, QueueKept DEF vars, globVars, SameQueue, Waiting, Begun
<1> QED  BY <1>1, <1>2, <1>3, <1>4, <1>5, <1>6 DEF Next

-----------------------------------------------------------------------------
(* What the buffers hold and what the draws have shown *)

(* As long as a decode finds the memory to keep its picture, a record with *)
(* a slot holds the very picture of its frame.                             *)
Intact(r) ==
  /\ ~drp[r].decoded => drp[r].shown = NULL
  /\ drp[r].buffer # NULL /\ ~Damaged(drp[r].frameNumber) =>
       /\ buffers[drp[r].buffer].frame = drp[r].frameNumber
       /\ drp[r].shown # NULL => drp[r].shown.picture = drp[r].frameNumber

IntactInv == \A r \in Records : Intact(r)

LEMMA DrawIntact ==
  ASSUME NEW funcs, NEW bufs, NEW s, NEW aligned, NEW old, NEW f \in Frame,
         s # NULL, bufs[s].frame = f,
         old # NULL => old.picture = f,
         DrawnWith(funcs, PictureIn(bufs, s), aligned, old) # NULL
  PROVE  DrawnWith(funcs, PictureIn(bufs, s), aligned, old).picture = f
<1>1. PictureIn(bufs, s) = f /\ f # NULL
  BY FrameFacts DEF PictureIn, Picture
<1> QED  BY <1>1 DEF DrawnWith

LEMMA DecodeKeepsIntact ==
  ASSUME TypeOK, SlotOwnership, DecoderInv, QueueInv, ~AllocMayFail,
         NEW r \in Records, NEW s \in Slots, Decode(r, s),
         ~Damaged(drp[r].frameNumber)
  PROVE  buffers'[s].frame = drp[r].frameNumber
<1> DEFINE f == drp[r].frameNumber
<1>1. Waiting(r) /\ ahead[r] = {}
  BY DEF Decode
<1>2. Decompressed(r).frame = f /\ f # NULL
  BY <1>1, FrontDecodes, FrameFacts DEF TypeOK, DecompressRecord, Picture
<1>3. buffers' = [buffers EXCEPT ![s] = Stored(r, s, f, TRUE)]
  <2>1. s # NULL
    BY SlotFacts
  <2>2. PICK allocated \in {TRUE, ~AllocMayFail},
             p \in ReferencesTo(Decompressed(r).frame) :
          buffers' = [buffers EXCEPT ![s] = Stored(r, s, p, allocated)]
    BY <2>1, DecodeSlot
  <2>3. allocated = TRUE /\ p = f
    BY <1>2, <2>2 DEF ReferencesTo
  <2> QED  BY <2>2, <2>3
<1>4. buffers'[s] = Stored(r, s, f, TRUE)
  BY <1>3 DEF TypeOK
<1> QED  BY <1>2, <1>4 DEF Stored

LEMMA NextIntact ==
  ASSUME TypeOK, SlotOwnership, DecoderInv, QueueInv, IntactInv, ~AllocMayFail,
         [Next]_vars
  PROVE  IntactInv'
<1>1. \A q \in Records : Intact(q)
  BY DEF IntactInv
<1>2. ASSUME NEW r \in Records, NEW f \in Frame,
             BeginBand(r, f) \/ BeginBandDecoded(r, f)
      PROVE  IntactInv'
  <2>1. /\ buffers' = buffers
        /\ drp'[r].buffer = NULL /\ drp'[r].shown = NULL
        /\ \A q \in Records \ {r} : drp'[q] = drp[q]
    <3>1. CASE BeginBand(r, f)
      BY <3>1 DEF BeginBand, IdleRecord, TypeOK
    <3>2. CASE BeginBandDecoded(r, f)
      BY <3>2 DEF BeginBandDecoded, globVars, IdleRecord, TypeOK
    <3> QED  BY <1>2, <3>1, <3>2
  <2> QED  BY <1>1, <2>1 DEF IntactInv, Intact
<1>3. ASSUME NEW r \in Records,
             DecodeBand(r) \/ \E aligned \in Alignments : DecodeAndDrawBand(r, aligned)
      PROVE  IntactInv'
  <2>1. PICK s \in Slots \cup {NULL} :
           /\ Decode(r, s)
           /\ drp'[r].decoded /\ drp'[r].buffer = s
           /\ drp'[r].frameNumber = drp[r].frameNumber
           /\ \A q \in Records \ {r} : drp'[q] = drp[q]
           /\ \/ drp'[r].shown = drp[r].shown
              \/ \E funcs, aligned :
                   drp'[r].shown = DrawnWith(funcs, PictureIn(buffers', s),
                                             aligned, drp[r].shown)
    BY <1>3, DecodeStep
  <2>2. drp[r].shown = NULL /\ drp[r].frameNumber \in Frame
    BY <1>1, <2>1 DEF Intact, Decode, Waiting, TypeOK, DecompressRecord
  <2>3. ASSUME s # NULL, ~Damaged(drp[r].frameNumber)
        PROVE  /\ buffers'[s].frame = drp[r].frameNumber
               /\ drp'[r].shown # NULL => drp'[r].shown.picture = drp[r].frameNumber
    <3>1. buffers'[s].frame = drp[r].frameNumber
      BY <2>1, <2>3, DecodeKeepsIntact
    <3> QED  BY <2>1, <2>2, <2>3, <3>1, DrawIntact
  <2>4. Intact(r)'
    BY <2>1, <2>3 DEF Intact
  <2>5. ASSUME NEW q \in Records \ {r}
        PROVE  Intact(q)'
    BY <1>1, <2>1, DecodeLeavesOthers DEF Intact
  <2> QED  BY <2>4, <2>5 DEF IntactInv
<1>4. ASSUME NEW r \in Records, NEW aligned \in Alignments, DrawBand(r, aligned)
      PROVE  IntactInv'
  <2> DEFINE shown == DrawnWith(colorConv', PictureIn(buffers, drp[r].buffer),
                                aligned, drp[r].shown)
  <2>1. /\ drp' = [drp EXCEPT ![r] = [@ EXCEPT !.shown = shown]]
        /\ buffers' = buffers /\ drp[r].decoded
    BY <1>4 DEF DrawBand
  <2>2. ASSUME drp[r].buffer # NULL, ~Damaged(drp[r].frameNumber), shown # NULL
        PROVE  shown.picture = drp[r].frameNumber
    <3>1. drp[r].frameNumber \in Frame
      BY DEF TypeOK, DecompressRecord
    <3> QED  BY <1>1, <2>2, <3>1, DrawIntact DEF Intact
  <2> HIDE DEF shown
  <2>3. /\ drp'[r].buffer = drp[r].buffer /\ drp'[r].decoded
        /\ drp'[r].frameNumber = drp[r].frameNumber
        /\ drp'[r].shown = shown
        /\ \A q \in Records \ {r} : drp'[q] = drp[q]
    BY <2>1 DEF TypeOK, DecompressRecord
  <2>4. Intact(r)'
    BY <1>1, <2>1, <2>2, <2>3 DEF Intact
  <2> QED  BY <1>1, <2>1, <2>3, <2>4 DEF Intact, IntactInv
<1>5. ASSUME NEW r \in Records, EndBand(r)
      PROVE  IntactInv'
  <2>1. /\ drp'[r] = IdleRecord
        /\ \A q \in Records \ {r} : drp'[q] = drp[q]
        /\ \A t \in Slots : t # drp[r].buffer => buffers'[t] = buffers[t]
    BY <1>5 DEF EndBand, TypeOK
  <2>2. ASSUME NEW q \in Records \ {r}, drp[q].buffer # NULL
        PROVE  buffers'[drp[q].buffer] = buffers[drp[q].buffer]
    BY <2>1, <2>2 DEF SlotOwnership, TypeOK, DecompressRecord
  <2>3. Intact(r)'
    BY <2>1 DEF Intact, IdleRecord
  <2> QED  BY <1>1, <2>1, <2>2, <2>3 DEF Intact, IntactInv
<1>6. CASE UNCHANGED vars
  <2>1. buffers' = buffers /\ drp' = drp
    BY <1>6 DEF vars, globVars
  <2> QED  BY <1>1, <2>1 DEF Intact, IntactInv
<1> QED  BY <1>2, <1>3, <1>4, <1>5, <1>6 DEF Next

(* No flicker to black: as long as the memory lasts, a band that found a   *)
(* free slot shows the very picture asked for, for any stream, any number  *)
(* of records and buffers and any order of band calls the base             *)
(* decompressor may make.  The flush test of FFusionCodecDecodeBand never  *)
(* takes the reference of an undamaged frame away from the decoder.        *)
THEOREM IntactShown ==
  ASSUME ~AllocMayFail
  PROVE  Spec => []IntactFramesShown
<1>1. Init => TypeOK /\ SlotOwnership /\ DecoderInv /\ QueueInv /\ IntactInv
  <2>1. Init => IntactInv
    BY DEF Init, IdleRecord, IntactInv, Intact
  <2> QED  BY <2>1, InitType, InitOwnership, OpenedDrained, InitQueue
           DEF Init, DecoderInv
<1>2. TypeOK /\ SlotOwnership /\ DecoderInv /\ QueueInv /\ IntactInv /\ [Next]_vars
        => TypeOK' /\ SlotOwnership' /\ DecoderInv' /\ QueueInv' /\ IntactInv'
  BY NextType, NextOwnership, NextDrained, NextQueue, NextIntact
<1>3. IntactInv => IntactFramesShown
  BY DEF IntactInv, Intact, IntactFramesShown
<1> QED  BY <1>1, <1>2, <1>3, PTL DEF Spec

=============================================================================
