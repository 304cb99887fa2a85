------------------------- MODULE FFusionBandsProofs -------------------------
(***************************************************************************)
(* Proofs about FFusionBands, for any number of records and buffers and    *)
(* any stream.                                                             *)
(***************************************************************************)
EXTENDS FFusionBands, SequenceTheorems, TLAPS

-----------------------------------------------------------------------------
(* The decoder, one call at a time *)

LEMMA FrameFacts == /\ Frame \subseteq Nat
                    /\ 0 \in Frame
                    /\ NULL \notin Picture
                    /\ EMPTY \notin Picture
                    /\ BLACK \notin Picture
                    /\ GARBLED \notin Frame
                    /\ KeyFrames \subseteq Frame
BY StreamAssumption, SentinelAssumption, BandsAssumption DEF Frame, Picture

(* A packet decodes to its own frame, to GARBLED, or to nothing. *)
LEMMA DecodedCases ==
  ASSUME NEW ctx, NEW f \in Frame
  PROVE  Decoded(ctx, f) \in {NULL, GARBLED, f}
BY DEF Decoded

LEMMA AllocContextType == AllocContext \in AVCodecContext
<1>1. <<>> \in Seq(Picture)
  BY EmptySeq
<1> QED  BY <1>1 DEF AllocContext, AVCodecContext, PixFmt

LEMMA FlushBuffersType ==
  ASSUME NEW ctx \in AVCodecContext
  PROVE  FlushBuffers(ctx) \in AVCodecContext
<1>1. <<>> \in Seq(Picture)
  BY EmptySeq
<1> QED  BY <1>1 DEF FlushBuffers, AVCodecContext

LEMMA ReceiveInternalType ==
  ASSUME NEW ctx \in AVCodecContext
  PROVE  /\ ReceiveInternal(ctx).ctx \in AVCodecContext
         /\ ReceiveInternal(ctx).frame \in Picture \cup {NULL}
<1>1. CASE ctx.bsf = NULL
  BY <1>1 DEF ReceiveInternal
<1>2. CASE ctx.bsf # NULL
  <2> DEFINE f == ctx.bsf
             p == Decoded(ctx, f)
             queue == IF p = NULL THEN ctx.inFlight ELSE Append(ctx.inFlight, p)
             out == p # NULL /\ Len(queue) > ctx.delay
  <2>1. f \in Frame /\ ctx.inFlight \in Seq(Picture) /\ ctx.delay \in Nat
    BY <1>2 DEF AVCodecContext
  <2>2. p \in Picture \cup {NULL}
    BY <2>1, DecodedCases DEF Picture
  <2>3. queue \in Seq(Picture)
    BY <2>1, <2>2, AppendProperties
  <2>4. out => queue # <<>>
    BY <2>1, <2>2, AppendProperties
  <2>5. out => Head(queue) \in Picture /\ Tail(queue) \in Seq(Picture)
    BY <2>3, <2>4, HeadTailProperties
  <2>6. RefAfter(ctx, f) \in Picture \cup {NULL}
    BY <2>2 DEF RefAfter, AVCodecContext
  <2>7. PixFmtOf[f] \in PixFmt
    BY <2>1, StreamAssumption
  <2> DEFINE next == [ctx EXCEPT !.bsf      = NULL,
                                 !.ref      = RefAfter(ctx, f),
                                 !.pix_fmt  = IF p = NULL THEN @ ELSE PixFmtOf[f],
                                 !.inFlight = IF out THEN Tail(queue) ELSE queue]
  <2>8. ReceiveInternal(ctx) = [ctx |-> next, frame |-> IF out THEN Head(queue) ELSE NULL]
    BY <1>2 DEF ReceiveInternal
  <2>9. (IF out THEN Tail(queue) ELSE queue) \in Seq(Picture)
    BY <2>3, <2>5
  <2> HIDE DEF p, queue, out
  <2>10. next \in AVCodecContext
    BY <2>6, <2>7, <2>9 DEF AVCodecContext
  <2> HIDE DEF next
  <2> QED  BY <2>5, <2>8, <2>10
<1> QED  BY <1>1, <1>2

LEMMA FFusionDecompressType ==
  ASSUME NEW ctx \in AVCodecContext, NEW f \in Frame
  PROVE  /\ FFusionDecompress(ctx, f).ctx \in AVCodecContext
         /\ FFusionDecompress(ctx, f).frame \in Picture \cup {NULL}
<1> DEFINE taken == [ctx EXCEPT !.bsf = f]
           sent  == SendPacket(ctx, f)
<1>1. taken \in AVCodecContext
  BY DEF AVCodecContext
<1>2. sent \in AVCodecContext
  <2>1. /\ ReceiveInternal(taken).ctx \in AVCodecContext
        /\ ReceiveInternal(taken).frame \in Picture \cup {NULL}
    BY <1>1, ReceiveInternalType
  <2>2. [ReceiveInternal(taken).ctx EXCEPT !.bufferFrame = ReceiveInternal(taken).frame]
          \in AVCodecContext
    BY <2>1 DEF AVCodecContext
  <2> QED  BY <1>1, <2>2 DEF SendPacket
<1> HIDE DEF sent
<1>3. /\ ReceiveInternal(sent).ctx \in AVCodecContext
      /\ ReceiveInternal(sent).frame \in Picture \cup {NULL}
  BY <1>2, ReceiveInternalType
<1>4. [sent EXCEPT !.bufferFrame = NULL] \in AVCodecContext
  BY <1>2 DEF AVCodecContext
<1>5. sent.bufferFrame \in Picture \cup {NULL}
  BY <1>2 DEF AVCodecContext
<1>6. FFusionDecompress(ctx, f) = ReceiveFrame(sent)
  BY DEF FFusionDecompress, sent
<1> QED  BY <1>2, <1>3, <1>4, <1>5, <1>6 DEF ReceiveFrame

LEMMA DecompressedType ==
  ASSUME TypeOK, NEW r \in Records
  PROVE  /\ Decompressed(r).ctx \in AVCodecContext
         /\ Decompressed(r).frame \in Picture \cup {NULL}
<1>1. av \in AVCodecContext /\ drp[r].frameNumber \in Frame
  BY DEF TypeOK, DecompressRecord
<1>2. (IF FlushNeeded(r) THEN FlushBuffers(av) ELSE av) \in AVCodecContext
  BY <1>1, FlushBuffersType
<1> QED  BY <1>1, <1>2, FFusionDecompressType DEF Decompressed

LEMMA OpenedContextType ==
  ASSUME NEW codecID, NEW pf \in PixFmt
  PROVE  OpenedContext(codecID, pf) \in AVCodecContext
<1>1. DecoderDelay(FindDecoder(codecID), ContextFlags(codecID),
                   SetupMultithreadedDecoding) \in Nat
  BY StreamAssumption DEF DecoderDelay
<1> QED  BY <1>1, AllocContextType DEF OpenedContext, AVCodecContext

-----------------------------------------------------------------------------
(* Typing *)

LEMMA IdleRecordType == IdleRecord \in DecompressRecord
BY FrameFacts DEF IdleRecord, DecompressRecord

LEMMA FreeBufferType == FreeBuffer \in Buffer
BY FrameFacts DEF FreeBuffer, Buffer

(* A decode stores a typed buffer into an existing slot. *)
LEMMA DecodeType ==
  ASSUME TypeOK, NEW r \in Records, NEW s \in Slots \cup {NULL}, Decode(r, s)
  PROVE  /\ av' \in AVCodecContext
         /\ buffers' \in [Slots -> Buffer]
         /\ lastAllocatedBuffer' \in Slots
         /\ lastIFrame' \in Frame
         /\ lastFrame' \in Frame
         /\ ahead' \in [Records -> SUBSET Records]
         /\ scheduled' \in Frame \cup {NULL}
<1>1. /\ Decompressed(r).ctx \in AVCodecContext
      /\ ReferencesTo(Decompressed(r).frame) \subseteq Picture \cup {NULL}
  BY DecompressedType DEF ReferencesTo
<1>2. drp[r] \in DecompressRecord
  BY DEF TypeOK
<1>3. ASSUME s # NULL, NEW allocated \in BOOLEAN, NEW p \in Picture \cup {NULL}
      PROVE  Stored(r, s, p, allocated) \in Buffer
  <2>1. buffers[s] \in Buffer
    BY <1>3 DEF TypeOK
  <2> QED  BY <1>1, <1>2, <2>1 DEF Stored, Buffer, DecompressRecord
<1>4. buffers' \in [Slots -> Buffer]
  <2>1. CASE s = NULL
    BY <2>1 DEF Decode, TypeOK
  <2>2. CASE s # NULL
    <3>1. PICK allocated \in {TRUE, ~AllocMayFail},
               p \in ReferencesTo(Decompressed(r).frame) :
            buffers' = [buffers EXCEPT ![s] = Stored(r, s, p, allocated)]
      BY <2>2 DEF Decode
    <3>2. Stored(r, s, p, allocated) \in Buffer
      BY <1>1, <1>3, <2>2, <3>1
    <3> QED  BY <3>1, <3>2, <2>2 DEF TypeOK
  <2> QED  BY <2>1, <2>2
<1> QED  BY <1>1, <1>2, <1>4 DEF Decode, TypeOK, DecompressRecord

LEMMA FindForType ==
  ASSUME NEW funcs \in ColorConversionFuncs, NEW pf \in PixFmt,
         NEW have \in BOOLEAN, NEW aligned \in BOOLEAN
  PROVE  ColorConversionFindFor(funcs, pf, have, aligned) \in ColorConversionFuncs
<1>1. ClearFor(pf) \in Clears
  BY DEF ClearFor, Clears
<1>2. ConvertFor(pf, have /\ aligned) \in Converts
  BY DEF ConvertFor, Converts
<1> QED  BY <1>1, <1>2 DEF ColorConversionFindFor, ColorConversionFuncs

LEMMA FuncsToDrawType ==
  ASSUME TypeOK, NEW p, NEW pf \in PixFmt, NEW aligned \in BOOLEAN
  PROVE  FuncsToDraw(p, pf, aligned) \in ColorConversionFuncs
<1>1. (p # NULL) \in BOOLEAN
  OBVIOUS
<1>2. ColorConversionFindFor(colorConv, pf, p # NULL, aligned) \in ColorConversionFuncs
  BY <1>1, FindForType DEF TypeOK
<1> QED  BY <1>2 DEF FuncsToDraw, TypeOK

LEMMA DrawnWithType ==
  ASSUME NEW funcs \in ColorConversionFuncs, NEW p \in Picture \cup {NULL},
         NEW aligned \in BOOLEAN, NEW old \in Shown \cup {NULL}
  PROVE  DrawnWith(funcs, p, aligned, old) \in Shown \cup {NULL}
BY DEF DrawnWith, ColorConversionFuncs, Shown

LEMMA PictureInType ==
  ASSUME NEW bufs, NEW s
  PROVE  PictureIn(bufs, s) \in Picture \cup {NULL}
BY DEF PictureIn


LEMMA InitType == Init => TypeOK
<1> SUFFICES ASSUME Init PROVE TypeOK
  OBVIOUS
<1>1. av \in AVCodecContext
  <2>1. PICK codecID \in {"VP9", "AV1"}, pf \in {"NONE", PixFmtOf[0]} :
          av = OpenedContext(codecID, pf)
    BY DEF Init
  <2>2. PixFmtOf[0] \in PixFmt
    BY FrameFacts, StreamAssumption
  <2>3. pf \in PixFmt
    BY <2>1, <2>2 DEF PixFmt
  <2> QED  BY <2>1, <2>3, OpenedContextType
<1>2. 0 \in Slots
  BY BandsAssumption DEF Slots
<1>3. colorConv \in ColorConversionFuncs
  BY DEF Init, NoFuncs, ColorConversionFuncs
<1> QED
  BY <1>1, <1>2, <1>3, FrameFacts, IdleRecordType, FreeBufferType DEF Init, TypeOK

(* EndBand decrements a retainCount: only because the slot is owned does it *)
(* stay a natural number, so typing is preserved together with ownership.  *)
LEMMA NextType == TypeOK /\ SlotOwnership /\ [Next]_vars => TypeOK'
<1> SUFFICES ASSUME TypeOK, SlotOwnership, [Next]_vars PROVE TypeOK'
  OBVIOUS
<1> USE FrameFacts
<1>1. ASSUME NEW r \in Records, NEW f \in Frame, BeginBand(r, f)
      PROVE  TypeOK'
  <2>1. lastIFrame' \in Frame
    BY <1>1 DEF BeginBand, TypeOK
  <2>2. [IdleRecord EXCEPT !.phase = "begun", !.frameNumber = f,
                           !.GOPStartFrameNumber = lastIFrame'] \in DecompressRecord
    BY <2>1, IdleRecordType DEF DecompressRecord
  <2>3. drp' \in [Records -> DecompressRecord]
    BY <1>1, <2>2 DEF BeginBand, TypeOK
  <2> QED  BY <1>1, <2>1, <2>3 DEF BeginBand, TypeOK
<1>2. ASSUME NEW r \in Records, NEW f \in Frame, BeginBandDecoded(r, f)
      PROVE  TypeOK'
  <2>1. [IdleRecord EXCEPT !.phase = "begun", !.already = TRUE, !.decoded = TRUE,
                           !.frameNumber = f] \in DecompressRecord
    BY IdleRecordType DEF DecompressRecord
  <2>2. drp' \in [Records -> DecompressRecord]
    BY <1>2, <2>1 DEF BeginBandDecoded, TypeOK
  <2> QED  BY <1>2, <2>2 DEF BeginBandDecoded, TypeOK, globVars
<1>3. ASSUME NEW r \in Records, DecodeBand(r)
      PROVE  TypeOK'
  <2>1. PICK s \in Slots \cup {NULL} :
          /\ Decode(r, s)
          /\ drp' = [drp EXCEPT ![r] = [@ EXCEPT !.decoded = TRUE, !.buffer = s]]
          /\ UNCHANGED colorConv
    BY <1>3 DEF DecodeBand
  <2>2. [drp[r] EXCEPT !.decoded = TRUE, !.buffer = s] \in DecompressRecord
    BY DEF TypeOK, DecompressRecord
  <2>3. drp' \in [Records -> DecompressRecord]
    BY <2>1, <2>2 DEF TypeOK
  <2> QED  BY <2>1, <2>3, DecodeType DEF TypeOK
<1>4. ASSUME NEW r \in Records, NEW aligned \in Alignments, DrawBand(r, aligned)
      PROVE  TypeOK'
  <2> DEFINE p == PictureIn(buffers, drp[r].buffer)
             shown == DrawnWith(colorConv', p, aligned, drp[r].shown)
  <2>1. aligned \in BOOLEAN /\ av.pix_fmt \in PixFmt /\ p \in Picture \cup {NULL}
    BY BandsAssumption, PictureInType DEF TypeOK, AVCodecContext
  <2>2. colorConv' \in ColorConversionFuncs
    BY <1>4, <2>1, FuncsToDrawType DEF DrawBand
  <2>3. drp[r].shown \in Shown \cup {NULL}
    BY DEF TypeOK, DecompressRecord
  <2>4. shown \in Shown \cup {NULL}
    BY <2>1, <2>2, <2>3, DrawnWithType
  <2>5. drp' = [drp EXCEPT ![r] = [@ EXCEPT !.shown = shown]]
    BY <1>4 DEF DrawBand
  <2> HIDE DEF shown
  <2>6. [drp[r] EXCEPT !.shown = shown] \in DecompressRecord
    BY <2>4 DEF TypeOK, DecompressRecord
  <2>7. drp' \in [Records -> DecompressRecord]
    BY <2>5, <2>6 DEF TypeOK
  <2> QED  BY <1>4, <2>2, <2>7 DEF DrawBand, TypeOK
<1>5. ASSUME NEW r \in Records, NEW aligned \in Alignments,
             DecodeAndDrawBand(r, aligned)
      PROVE  TypeOK'
  <2>1. PICK s \in Slots \cup {NULL} :
          /\ Decode(r, s)
          /\ colorConv' = FuncsToDraw(PictureIn(buffers', s), av'.pix_fmt, aligned)
          /\ drp' = [drp EXCEPT ![r] =
                       [@ EXCEPT !.decoded = TRUE,
                                 !.buffer  = s,
                                 !.shown   = DrawnWith(colorConv',
                                               PictureIn(buffers', s), aligned,
                                               drp[r].shown)]]
    BY <1>5 DEF DecodeAndDrawBand
  <2> DEFINE p == PictureIn(buffers', s)
             shown == DrawnWith(colorConv', p, aligned, drp[r].shown)
  <2>2. av' \in AVCodecContext
    BY <2>1, DecodeType
  <2>3. aligned \in BOOLEAN /\ av'.pix_fmt \in PixFmt /\ p \in Picture \cup {NULL}
    BY <2>2, BandsAssumption, PictureInType DEF AVCodecContext
  <2>4. colorConv' \in ColorConversionFuncs
    BY <2>1, <2>3, FuncsToDrawType
  <2>5. drp[r].shown \in Shown \cup {NULL}
    BY DEF TypeOK, DecompressRecord
  <2>6. shown \in Shown \cup {NULL}
    BY <2>3, <2>4, <2>5, DrawnWithType
  <2>7. drp' = [drp EXCEPT ![r] = [@ EXCEPT !.decoded = TRUE, !.buffer = s,
                                            !.shown = shown]]
    BY <2>1
  <2> HIDE DEF shown
  <2>8. [drp[r] EXCEPT !.decoded = TRUE, !.buffer = s, !.shown = shown]
          \in DecompressRecord
    BY <2>6 DEF TypeOK, DecompressRecord
  <2>9. drp' \in [Records -> DecompressRecord]
    BY <2>7, <2>8 DEF TypeOK
  <2> QED  BY <2>1, <2>4, <2>9, DecodeType DEF TypeOK
<1>6. ASSUME NEW r \in Records, EndBand(r)
      PROVE  TypeOK'
  <2> DEFINE s == drp[r].buffer
  <2>1. s \in Slots \cup {NULL}
    BY DEF TypeOK, DecompressRecord
  <2>2. ASSUME s # NULL
        PROVE  Released(buffers[s]) \in Buffer
    BY <2>1, <2>2, FreeBufferType DEF SlotOwnership, Released
  <2>3. buffers' \in [Slots -> Buffer]
    BY <1>6, <2>1, <2>2 DEF EndBand, TypeOK
  <2>4. drp' \in [Records -> DecompressRecord]
    BY <1>6, IdleRecordType DEF EndBand, TypeOK
  <2>5. ahead' \in [Records -> SUBSET Records]
    BY <1>6 DEF EndBand, TypeOK
  <2>6. scheduled' \in Frame \cup {NULL}
    BY <1>6 DEF EndBand, TypeOK
  <2> QED  BY <1>6, <2>3, <2>4, <2>5, <2>6 DEF EndBand, TypeOK
<1>7. CASE UNCHANGED vars
  BY <1>7 DEF vars, globVars, TypeOK
<1> QED  BY <1>1, <1>2, <1>3, <1>4, <1>5, <1>6, <1>7 DEF Next

-----------------------------------------------------------------------------
(* Slot ownership *)

LEMMA SlotFacts == NULL \notin Slots
BY SentinelAssumption, BandsAssumption DEF Slots

(* Every slot is free or not, and the search of DecodeBand for a record    *)
(* that has no slot ends at a free one, which no record holds.             *)
LEMMA DecodeSlot ==
  ASSUME TypeOK, SlotOwnership, NEW r \in Records, NEW s \in Slots \cup {NULL},
         Decode(r, s)
  PROVE  /\ drp[r].buffer = NULL
         /\ s = NULL => FreeSlots = {} /\ buffers' = buffers
         /\ s # NULL => /\ s \in FreeSlots
                        /\ \A q \in Records : drp[q].buffer # s
                        /\ \E allocated \in {TRUE, ~AllocMayFail},
                              p \in ReferencesTo(Decompressed(r).frame) :
                             buffers' = [buffers EXCEPT ![s] =
                                           Stored(r, s, p, allocated)]
                        /\ buffers'[s].retainCount = 1
                        /\ \A t \in Slots \ {s} : buffers'[t] = buffers[t]
<1>1. drp[r].buffer = NULL
  BY DEF SlotOwnership, Decode, Waiting
<1>2. CASE s = NULL
  <2>1. FreeSlots = {}
    BY <1>1, <1>2, SlotFacts DEF Decode, SlotFor, NextFree, FreeSlots
  <2> QED  BY <1>1, <1>2, <2>1 DEF Decode
<1>3. CASE s # NULL
  <2>1. s \in FreeSlots
    BY <1>1, <1>3 DEF Decode, SlotFor, NextFree
  <2>2. \A q \in Records : drp[q].buffer # s
    BY <2>1, <1>3 DEF FreeSlots, SlotOwnership
  <2>3. PICK allocated \in {TRUE, ~AllocMayFail},
             p \in ReferencesTo(Decompressed(r).frame) :
          buffers' = [buffers EXCEPT ![s] = Stored(r, s, p, allocated)]
    BY <1>3 DEF Decode
  <2>4. buffers'[s] = Stored(r, s, p, allocated)
    BY <1>3, <2>3 DEF TypeOK
  <2>5. buffers'[s].retainCount = 1
    BY <1>1, <2>4 DEF Stored
  <2>6. \A t \in Slots \ {s} : buffers'[t] = buffers[t]
    BY <2>3 DEF TypeOK
  <2> QED  BY <1>1, <1>3, <2>1, <2>2, <2>3, <2>5, <2>6
<1> QED  BY <1>2, <1>3

(* Ownership survives any step that gives r the slot s of a decode and     *)
(* leaves the other records alone.                                         *)
LEMMA DecodeOwnership ==
  ASSUME TypeOK, SlotOwnership, NEW r \in Records, NEW s \in Slots \cup {NULL},
         Decode(r, s), drp' \in [Records -> DecompressRecord],
         drp'[r].phase = drp[r].phase, drp'[r].already = drp[r].already,
         drp'[r].decoded, drp'[r].buffer = s,
         \A q \in Records \ {r} : drp'[q] = drp[q]
  PROVE  SlotOwnership'
<1>1. s # NULL => /\ \A q \in Records : drp[q].buffer # s
                  /\ buffers'[s].retainCount = 1
                  /\ \A t \in Slots \ {s} : buffers'[t] = buffers[t]
  BY DecodeSlot
<1>2. s = NULL => buffers' = buffers
  BY DecodeSlot
<1>3. Begun(r)' /\ ~drp'[r].already
  BY DEF Decode, Waiting, Begun, SlotOwnership
<1>4. \A q \in Records : drp[q].buffer \in Slots \cup {NULL}
  BY DEF TypeOK, DecompressRecord
<1>5. ASSUME NEW q \in Records, drp'[q].buffer # NULL
      PROVE  /\ Begun(q)' /\ drp'[q].decoded
             /\ buffers'[drp'[q].buffer].retainCount = 1
             /\ q # r => drp'[q].buffer # s
  <2>1. CASE q = r
    BY <2>1, <1>1, <1>3, <1>5
  <2>2. CASE q # r
    <3>1. drp'[q] = drp[q]
      BY <2>2
    <3>2. drp[q].buffer # s /\ buffers'[drp[q].buffer] = buffers[drp[q].buffer]
      BY <3>1, <1>1, <1>2, <1>4, <1>5
    <3>3. Begun(q) /\ drp[q].decoded /\ buffers[drp[q].buffer].retainCount = 1
      BY <3>1, <1>5 DEF SlotOwnership
    <3> QED  BY <2>2, <3>1, <3>2, <3>3 DEF Begun
  <2> QED  BY <2>1, <2>2
<1>6. ASSUME NEW p \in Records, NEW q \in Records,
             drp'[p].buffer # NULL, drp'[p].buffer = drp'[q].buffer
      PROVE  p = q
  BY <1>5, <1>6 DEF SlotOwnership
<1>7. \A q \in Records : drp'[q].already => drp'[q].decoded /\ drp'[q].buffer = NULL
  BY <1>3 DEF SlotOwnership
<1> QED  BY <1>5, <1>6, <1>7 DEF SlotOwnership

LEMMA InitOwnership == Init => SlotOwnership
BY DEF Init, SlotOwnership, IdleRecord

LEMMA NextOwnership ==
  ASSUME TypeOK, TypeOK', SlotOwnership, [Next]_vars
  PROVE  SlotOwnership'
<1>1. ASSUME NEW r \in Records, NEW f \in Frame,
             BeginBand(r, f) \/ BeginBandDecoded(r, f)
      PROVE  SlotOwnership'
  <2>1. /\ buffers' = buffers
        /\ drp'[r].buffer = NULL
        /\ drp'[r].already => drp'[r].decoded
        /\ \A q \in Records \ {r} : drp'[q] = drp[q]
    <3>1. CASE BeginBand(r, f)
      BY <3>1 DEF BeginBand, IdleRecord, TypeOK
    <3>2. CASE BeginBandDecoded(r, f)
      BY <3>2 DEF BeginBandDecoded, globVars, IdleRecord, TypeOK
    <3> QED  BY <1>1, <3>1, <3>2
  <2> QED  BY <2>1 DEF SlotOwnership, Begun
<1>2. ASSUME NEW r \in Records, DecodeBand(r)
      PROVE  SlotOwnership'
  <2>1. PICK s \in Slots \cup {NULL} :
          /\ Decode(r, s)
          /\ drp' = [drp EXCEPT ![r] = [@ EXCEPT !.decoded = TRUE, !.buffer = s]]
    BY <1>2 DEF DecodeBand
  <2>2. /\ drp' \in [Records -> DecompressRecord]
        /\ drp'[r].phase = drp[r].phase /\ drp'[r].already = drp[r].already
        /\ drp'[r].decoded /\ drp'[r].buffer = s
        /\ \A q \in Records \ {r} : drp'[q] = drp[q]
    BY <2>1 DEF TypeOK, DecompressRecord
  <2> QED  BY <2>1, <2>2, DecodeOwnership
<1>3. ASSUME NEW r \in Records, NEW aligned \in Alignments, DrawBand(r, aligned)
      PROVE  SlotOwnership'
  <2>1. PICK shown : drp' = [drp EXCEPT ![r] = [@ EXCEPT !.shown = shown]]
    BY <1>3 DEF DrawBand
  <2>2. /\ buffers' = buffers
        /\ \A q \in Records : /\ drp'[q].phase = drp[q].phase
                              /\ drp'[q].already = drp[q].already
                              /\ drp'[q].decoded = drp[q].decoded
                              /\ drp'[q].buffer = drp[q].buffer
    BY <1>3, <2>1 DEF DrawBand, TypeOK, DecompressRecord
  <2> QED  BY <2>2 DEF SlotOwnership, Begun
<1>4. ASSUME NEW r \in Records, NEW aligned \in Alignments,
             DecodeAndDrawBand(r, aligned)
      PROVE  SlotOwnership'
  <2>1. PICK s \in Slots \cup {NULL} :
          /\ Decode(r, s)
          /\ drp' = [drp EXCEPT ![r] =
                       [@ EXCEPT !.decoded = TRUE,
                                 !.buffer  = s,
                                 !.shown   = DrawnWith(colorConv',
                                               PictureIn(buffers', s), aligned,
                                               drp[r].shown)]]
    BY <1>4 DEF DecodeAndDrawBand
  <2>2. /\ drp' \in [Records -> DecompressRecord]
        /\ drp'[r].phase = drp[r].phase /\ drp'[r].already = drp[r].already
        /\ drp'[r].decoded /\ drp'[r].buffer = s
        /\ \A q \in Records \ {r} : drp'[q] = drp[q]
    BY <2>1 DEF TypeOK, DecompressRecord
  <2> QED  BY <2>1, <2>2, DecodeOwnership
<1>5. ASSUME NEW r \in Records, EndBand(r)
      PROVE  SlotOwnership'
  <2>1. /\ drp'[r] = IdleRecord
        /\ \A q \in Records \ {r} : drp'[q] = drp[q]
        /\ \A t \in Slots : t # drp[r].buffer => buffers'[t] = buffers[t]
    BY <1>5 DEF EndBand, TypeOK
  <2>2. \A q \in Records : drp[q].buffer \in Slots \cup {NULL}
    BY DEF TypeOK, DecompressRecord
  <2> QED  BY <2>1, <2>2 DEF SlotOwnership, Begun, IdleRecord
<1>6. CASE UNCHANGED vars
  BY <1>6 DEF vars, globVars, SlotOwnership, Begun
<1> QED  BY <1>1, <1>2, <1>3, <1>4, <1>5, <1>6 DEF Next

(* Type correctness, for every number of records and buffers and every     *)
(* stream: the indices the band routines keep never leave their arrays.    *)
THEOREM TypeCorrect == Spec => []TypeOK
<1>1. Init => TypeOK /\ SlotOwnership
  BY InitType, InitOwnership
<1>2. TypeOK /\ SlotOwnership /\ [Next]_vars => TypeOK' /\ SlotOwnership'
  BY NextType, NextOwnership
<1> QED  BY <1>1, <1>2, PTL DEF Spec

(* DecodeBand and EndBand agree on the owners of the frame buffers.        *)
THEOREM Ownership == Spec => []SlotOwnership
<1>1. Init => TypeOK /\ SlotOwnership
  BY InitType, InitOwnership
<1>2. TypeOK /\ SlotOwnership /\ [Next]_vars => TypeOK' /\ SlotOwnership'
  BY NextType, NextOwnership
<1> QED  BY <1>1, <1>2, PTL DEF Spec

-----------------------------------------------------------------------------
(* The decoder holds nothing between two calls of FFusionDecompress *)

Drained(ctx) ==
  /\ ctx.open
  /\ ctx.delay = 0
  /\ ctx.bsf = NULL
  /\ ctx.bufferFrame = NULL
  /\ ctx.inFlight = <<>>

LEMMA OpenedDrained ==
  ASSUME NEW codecID \in {"VP9", "AV1"}, NEW pf
  PROVE  Drained(OpenedContext(codecID, pf))
<1>1. DecoderDelay(FindDecoder(codecID), ContextFlags(codecID),
                   SetupMultithreadedDecoding) = 0
  BY DEF DecoderDelay, FindDecoder, ContextFlags, SetupMultithreadedDecoding
<1> QED  BY <1>1 DEF OpenedContext, AllocContext, Drained

LEMMA FlushDrained ==
  ASSUME NEW ctx \in AVCodecContext, Drained(ctx)
  PROVE  Drained(FlushBuffers(ctx))
BY DEF Drained, FlushBuffers, AVCodecContext

(* A decoder without delay answers a packet with its own picture, or with  *)
(* nothing, in the same call.                                              *)
LEMMA ReceiveDrained ==
  ASSUME NEW ctx \in AVCodecContext, NEW f \in Frame,
         ctx.bsf = f, ctx.open, ctx.delay = 0, ctx.inFlight = <<>>
  PROVE  /\ ReceiveInternal(ctx).frame = Decoded(ctx, f)
         /\ ReceiveInternal(ctx).ctx.open
         /\ ReceiveInternal(ctx).ctx.delay = 0
         /\ ReceiveInternal(ctx).ctx.bsf = NULL
         /\ ReceiveInternal(ctx).ctx.inFlight = <<>>
         /\ ReceiveInternal(ctx).ctx.ref = RefAfter(ctx, f)
<1> DEFINE p == Decoded(ctx, f)
           queue == IF p = NULL THEN ctx.inFlight ELSE Append(ctx.inFlight, p)
           out == p # NULL /\ Len(queue) > ctx.delay
<1>1. ctx.bsf # NULL
  BY FrameFacts DEF Picture
<1>2. p \in Picture \cup {NULL}
  BY DecodedCases DEF Picture
<1>3. p # NULL => queue = <<p>>
  BY <1>2
<1>4. p # NULL => Len(queue) = 1 /\ Head(queue) = p /\ Tail(queue) = <<>>
  BY <1>2, <1>3
<1>5. (IF out THEN Head(queue) ELSE NULL) = p
  BY <1>4
<1>6. (IF out THEN Tail(queue) ELSE queue) = <<>>
  BY <1>4
<1> DEFINE next == [ctx EXCEPT !.bsf      = NULL,
                               !.ref      = RefAfter(ctx, f),
                               !.pix_fmt  = IF p = NULL THEN @ ELSE PixFmtOf[f],
                               !.inFlight = IF out THEN Tail(queue) ELSE queue]
<1>7. ReceiveInternal(ctx) =
        [ctx |-> next, frame |-> IF out THEN Head(queue) ELSE NULL]
  BY <1>1 DEF ReceiveInternal
<1>8. Decoded(ctx, f) = p
  OBVIOUS
<1> HIDE DEF p, queue, out
<1>9. /\ next.open /\ next.delay = 0 /\ next.bsf = NULL /\ next.inFlight = <<>>
      /\ next.ref = RefAfter(ctx, f)
  BY <1>6 DEF AVCodecContext
<1> HIDE DEF next
<1> QED  BY <1>5, <1>7, <1>8, <1>9

LEMMA DecompressDrained ==
  ASSUME NEW ctx \in AVCodecContext, NEW f \in Frame, Drained(ctx)
  PROVE  /\ Drained(FFusionDecompress(ctx, f).ctx)
         /\ FFusionDecompress(ctx, f).frame = Decoded(ctx, f)
         /\ FFusionDecompress(ctx, f).ctx.ref = RefAfter(ctx, f)
<1> DEFINE taken == [ctx EXCEPT !.bsf = f]
           got   == ReceiveInternal(taken)
           sent  == SendPacket(ctx, f)
<1>1. taken \in AVCodecContext
  BY DEF AVCodecContext
<1>2. /\ taken.bsf = f /\ taken.open /\ taken.delay = 0 /\ taken.inFlight = <<>>
      /\ taken.ref = ctx.ref
  BY DEF Drained, AVCodecContext
<1>3. Decoded(taken, f) = Decoded(ctx, f) /\ RefAfter(taken, f) = RefAfter(ctx, f)
  BY <1>2 DEF Decoded, RefAfter
<1> HIDE DEF taken
<1>4. /\ got.frame = Decoded(ctx, f)
      /\ got.ctx.open /\ got.ctx.delay = 0 /\ got.ctx.bsf = NULL
      /\ got.ctx.inFlight = <<>> /\ got.ctx.ref = RefAfter(ctx, f)
  BY <1>1, <1>2, <1>3, ReceiveDrained
<1>5. got.ctx \in AVCodecContext
  BY <1>1, ReceiveInternalType
<1> HIDE DEF got
<1>6. sent = [got.ctx EXCEPT !.bufferFrame = got.frame]
  BY DEF SendPacket, Drained, taken, got
<1> HIDE DEF sent
<1>7. /\ sent.open /\ sent.delay = 0 /\ sent.bsf = NULL /\ sent.inFlight = <<>>
      /\ sent.bufferFrame = Decoded(ctx, f) /\ sent.ref = RefAfter(ctx, f)
  BY <1>4, <1>5, <1>6 DEF AVCodecContext
<1>8. FFusionDecompress(ctx, f) = ReceiveFrame(sent)
  BY DEF FFusionDecompress, sent
<1>9. CASE Decoded(ctx, f) = NULL
  <2>1. ReceiveFrame(sent) = [ctx |-> sent, frame |-> NULL]
    BY <1>7, <1>9 DEF ReceiveFrame, ReceiveInternal
  <2> QED  BY <1>7, <1>8, <1>9, <2>1 DEF Drained
<1>10. CASE Decoded(ctx, f) # NULL
  <2> DEFINE left == [sent EXCEPT !.bufferFrame = NULL]
  <2>1. ReceiveFrame(sent) = [ctx |-> left, frame |-> Decoded(ctx, f)]
    BY <1>7, <1>10 DEF ReceiveFrame
  <2>2. sent \in AVCodecContext
    BY <1>4, <1>5, <1>6, <1>10, DecodedCases DEF AVCodecContext, Picture
  <2>3. Drained(left) /\ left.ref = RefAfter(ctx, f)
    BY <1>7, <2>2 DEF Drained, AVCodecContext
  <2> HIDE DEF left
  <2> QED  BY <1>8, <2>1, <2>3
<1> QED  BY <1>9, <1>10

-----------------------------------------------------------------------------
(* The decoder between band calls is always drained.                       *)
DecoderInv == Drained(av)

LEMMA NextDrained ==
  ASSUME TypeOK, DecoderInv, [Next]_vars
  PROVE  DecoderInv'
<1>1. ASSUME NEW r \in Records, NEW s, Decode(r, s)
      PROVE  DecoderInv'
  <2>1. av \in AVCodecContext /\ drp[r].frameNumber \in Frame
    BY DEF TypeOK, DecompressRecord
  <2>2. /\ (IF FlushNeeded(r) THEN FlushBuffers(av) ELSE av) \in AVCodecContext
        /\ Drained(IF FlushNeeded(r) THEN FlushBuffers(av) ELSE av)
    BY <2>1, FlushBuffersType, FlushDrained DEF DecoderInv
  <2>3. Drained(Decompressed(r).ctx)
    BY <2>1, <2>2, DecompressDrained DEF Decompressed
  <2>4. av' = Decompressed(r).ctx
    BY <1>1 DEF Decode
  <2> QED  BY <2>3, <2>4 DEF DecoderInv
<1>2. ASSUME av' = av
      PROVE  DecoderInv'
  BY <1>2 DEF DecoderInv
<1> QED
  BY <1>1, <1>2 DEF Next, vars, globVars, BeginBand, BeginBandDecoded, DecodeBand,
     DrawBand, DecodeAndDrawBand, EndBand

(* FFusionDecompress may ignore the decoder's answers: no packet and no    *)
(* picture ever waits inside the decoder, for any stream and call order.   *)
THEOREM Drains == Spec => []DecoderDrained
<1>1. Init => TypeOK /\ SlotOwnership /\ DecoderInv
  BY InitType, InitOwnership, OpenedDrained DEF Init, DecoderInv
<1>2. TypeOK /\ SlotOwnership /\ DecoderInv /\ [Next]_vars
        => TypeOK' /\ SlotOwnership' /\ DecoderInv'
  BY NextType, NextOwnership, NextDrained
<1>3. DecoderInv => DecoderDrained
  BY DEF DecoderInv, Drained, DecoderDrained
<1> QED  BY <1>1, <1>2, <1>3, PTL DEF Spec

-----------------------------------------------------------------------------
(* What the buffers hold and what the draws have shown *)

(* The slot a record owns holds nothing but its own picture.               *)
SlotsHoldOwnPicture ==
  \A r \in Records : drp[r].buffer # NULL =>
    buffers[drp[r].buffer].frame \in {NULL, EMPTY, GARBLED, drp[r].frameNumber}

PictureInv == SlotsHoldOwnPicture /\ ShowsNoOtherFrame

(* An unopened decoder takes no packet and yields no picture.              *)
LEMMA ClosedYieldsNothing ==
  ASSUME NEW ctx, NEW f, ~ctx.open
  PROVE  FFusionDecompress(ctx, f) = [ctx |-> ctx, frame |-> NULL]
BY DEF FFusionDecompress, SendPacket, ReceiveFrame

LEMMA DecodeStores ==
  ASSUME TypeOK, SlotOwnership, av.open => DecoderInv,
         NEW r \in Records, NEW s \in Slots, Decode(r, s)
  PROVE  /\ buffers'[s].frame \in {NULL, EMPTY, GARBLED, drp[r].frameNumber}
         /\ ~AllocMayFail => buffers'[s].frame # NULL
<1> DEFINE ctx == IF FlushNeeded(r) THEN FlushBuffers(av) ELSE av
           f == drp[r].frameNumber
<1>1. f \in Frame /\ av \in AVCodecContext
  BY DEF TypeOK, DecompressRecord
<1>2. /\ ctx \in AVCodecContext
      /\ av.open => Drained(ctx)
      /\ ~av.open => ~ctx.open
  <2>1. FlushBuffers(av).open = av.open
    BY <1>1 DEF FlushBuffers, AVCodecContext
  <2> QED  BY <1>1, <2>1, FlushBuffersType, FlushDrained DEF DecoderInv
<1>3. ReferencesTo(Decompressed(r).frame) \subseteq {NULL, GARBLED, f}
  <2> HIDE DEF ctx
  <2>1. Decoded(ctx, f) \in {NULL, GARBLED, f}
    BY <1>1, DecodedCases
  <2>2. Decompressed(r).frame \in {NULL, GARBLED, f}
    <3>1. CASE av.open
      BY <1>1, <1>2, <2>1, <3>1, DecompressDrained DEF Decompressed, ctx
    <3>2. CASE ~av.open
      BY <1>2, <3>2, ClosedYieldsNothing DEF Decompressed, ctx
    <3> QED  BY <3>1, <3>2
  <2> QED  BY <2>2 DEF ReferencesTo
<1>4. s # NULL
  BY SlotFacts
<1>5. PICK allocated \in {TRUE, ~AllocMayFail},
           p \in ReferencesTo(Decompressed(r).frame) :
        buffers' = [buffers EXCEPT ![s] = Stored(r, s, p, allocated)]
  BY <1>4, DecodeSlot
<1>6. buffers'[s] = Stored(r, s, p, allocated)
  BY <1>5 DEF TypeOK
<1>7. EMPTY # NULL /\ GARBLED # NULL /\ f # NULL
  BY <1>1, FrameFacts, SentinelAssumption, BandsAssumption DEF Picture
<1>8. buffers'[s].frame = (IF buffers[s].frame = NULL /\ ~allocated THEN NULL
                           ELSE IF p = NULL THEN EMPTY ELSE p)
  BY <1>6 DEF Stored
<1>9. CASE buffers[s].frame = NULL /\ ~allocated
  BY <1>5, <1>8, <1>9, BandsAssumption
<1>10. CASE ~(buffers[s].frame = NULL /\ ~allocated)
  <2>1. buffers'[s].frame = (IF p = NULL THEN EMPTY ELSE p)
    BY <1>8, <1>10
  <2> QED  BY <1>3, <1>5, <1>7, <2>1
<1> QED  BY <1>9, <1>10

LEMMA InitPictures == Init => PictureInv
BY DEF Init, PictureInv, SlotsHoldOwnPicture, ShowsNoOtherFrame, IdleRecord

(* A decode that stores into s leaves the slots of other records alone.    *)
LEMMA DecodeLeavesOthers ==
  ASSUME TypeOK, SlotOwnership, NEW r \in Records, NEW s \in Slots \cup {NULL},
         Decode(r, s), NEW q \in Records, drp[q].buffer # NULL
  PROVE  drp[q].buffer # s /\ buffers'[drp[q].buffer] = buffers[drp[q].buffer]
<1>1. drp[q].buffer \in Slots
  BY DEF TypeOK, DecompressRecord
<1>2. CASE s = NULL
  BY <1>1, <1>2, DecodeSlot, SlotFacts
<1>3. CASE s # NULL
  <2>1. /\ \A p \in Records : drp[p].buffer # s
        /\ \A t \in Slots \ {s} : buffers'[t] = buffers[t]
    BY <1>3, DecodeSlot
  <2> QED  BY <1>1, <2>1
<1> QED  BY <1>2, <1>3

(* What a draw shows of a slot that holds the picture of frame f.          *)
LEMMA DrawShows ==
  ASSUME NEW funcs, NEW bufs, NEW s, NEW aligned, NEW old, NEW f,
         s # NULL => bufs[s].frame \in {NULL, EMPTY, GARBLED, f},
         old # NULL => old.picture \in {BLACK, GARBLED, f},
         DrawnWith(funcs, PictureIn(bufs, s), aligned, old) # NULL
  PROVE  DrawnWith(funcs, PictureIn(bufs, s), aligned, old).picture
           \in {BLACK, GARBLED, f}
<1>1. PictureIn(bufs, s) \in {NULL, GARBLED, f}
  BY FrameFacts DEF PictureIn
<1> DEFINE p == PictureIn(bufs, s)
<1> HIDE DEF p
<1>2. PictureIn(bufs, s) = p /\ p \in {NULL, GARBLED, f}
  BY <1>1 DEF p
<1> QED  BY <1>2 DEF DrawnWith

LEMMA NextPictures ==
  ASSUME TypeOK, TypeOK', SlotOwnership, av.open => DecoderInv, PictureInv,
         [Next]_vars
  PROVE  PictureInv'
<1> DEFINE Ok(r) ==
      /\ drp[r].buffer # NULL =>
           buffers[drp[r].buffer].frame
             \in {NULL, EMPTY, GARBLED, drp[r].frameNumber}
      /\ drp[r].shown # NULL =>
           drp[r].shown.picture \in {BLACK, GARBLED, drp[r].frameNumber}
<1>1. \A q \in Records : Ok(q)
  BY DEF PictureInv, SlotsHoldOwnPicture, ShowsNoOtherFrame
<1>2. (\A q \in Records : Ok(q)') => PictureInv'
  BY DEF PictureInv, SlotsHoldOwnPicture, ShowsNoOtherFrame
<1>3. ASSUME NEW r \in Records, NEW f \in Frame,
             BeginBand(r, f) \/ BeginBandDecoded(r, f)
      PROVE  \A q \in Records : Ok(q)'
  <2>1. /\ buffers' = buffers
        /\ drp'[r].buffer = NULL /\ drp'[r].shown = NULL
        /\ \A q \in Records \ {r} : drp'[q] = drp[q]
    <3>1. CASE BeginBand(r, f)
      BY <3>1 DEF BeginBand, IdleRecord, TypeOK
    <3>2. CASE BeginBandDecoded(r, f)
      BY <3>2 DEF BeginBandDecoded, globVars, IdleRecord, TypeOK
    <3> QED  BY <1>3, <3>1, <3>2
  <2> QED  BY <2>1, <1>1
<1>4. ASSUME NEW r \in Records, NEW s \in Slots \cup {NULL}, Decode(r, s),
             drp'[r].buffer = s, drp'[r].frameNumber = drp[r].frameNumber,
             drp'[r].shown # NULL =>
               drp'[r].shown.picture \in {BLACK, GARBLED, drp[r].frameNumber},
             \A q \in Records \ {r} : drp'[q] = drp[q]
      PROVE  \A q \in Records : Ok(q)'
  <2>1. Ok(r)'
    BY <1>4, DecodeStores
  <2>2. ASSUME NEW q \in Records \ {r}
        PROVE  Ok(q)'
    BY <1>1, <1>4, DecodeLeavesOthers
  <2> QED  BY <2>1, <2>2
<1>5. ASSUME NEW r \in Records, DecodeBand(r)
      PROVE  \A q \in Records : Ok(q)'
  <2>1. PICK s \in Slots \cup {NULL} :
          /\ Decode(r, s)
          /\ drp' = [drp EXCEPT ![r] = [@ EXCEPT !.decoded = TRUE, !.buffer = s]]
    BY <1>5 DEF DecodeBand
  <2>2. /\ drp'[r].buffer = s /\ drp'[r].frameNumber = drp[r].frameNumber
        /\ drp'[r].shown = drp[r].shown
        /\ \A q \in Records \ {r} : drp'[q] = drp[q]
    BY <2>1 DEF TypeOK, DecompressRecord
  <2> QED  BY <1>1, <1>4, <2>1, <2>2
<1>6. ASSUME NEW r \in Records, NEW aligned \in Alignments, DrawBand(r, aligned)
      PROVE  \A q \in Records : Ok(q)'
  <2> DEFINE shown == DrawnWith(colorConv', PictureIn(buffers, drp[r].buffer),
                                aligned, drp[r].shown)
  <2>1. drp' = [drp EXCEPT ![r] = [@ EXCEPT !.shown = shown]] /\ buffers' = buffers
    BY <1>6 DEF DrawBand
  <2>2. shown # NULL => shown.picture \in {BLACK, GARBLED, drp[r].frameNumber}
    BY <1>1, DrawShows
  <2> HIDE DEF shown
  <2>3. /\ drp'[r].buffer = drp[r].buffer
        /\ drp'[r].frameNumber = drp[r].frameNumber
        /\ drp'[r].shown = shown
        /\ \A q \in Records \ {r} : drp'[q] = drp[q]
    BY <2>1 DEF TypeOK, DecompressRecord
  <2> QED  BY <1>1, <2>1, <2>2, <2>3
<1>7. ASSUME NEW r \in Records, NEW aligned \in Alignments,
             DecodeAndDrawBand(r, aligned)
      PROVE  \A q \in Records : Ok(q)'
  <2>1. PICK s \in Slots \cup {NULL} :
          /\ Decode(r, s)
          /\ drp' = [drp EXCEPT ![r] =
                       [@ EXCEPT !.decoded = TRUE,
                                 !.buffer  = s,
                                 !.shown   = DrawnWith(colorConv',
                                               PictureIn(buffers', s), aligned,
                                               drp[r].shown)]]
    BY <1>7 DEF DecodeAndDrawBand
  <2> DEFINE shown == DrawnWith(colorConv', PictureIn(buffers', s), aligned,
                                drp[r].shown)
  <2>2. s # NULL => buffers'[s].frame \in {NULL, EMPTY, GARBLED, drp[r].frameNumber}
    BY <2>1, DecodeStores
  <2>3. shown # NULL => shown.picture \in {BLACK, GARBLED, drp[r].frameNumber}
    BY <1>1, <2>2, DrawShows
  <2>4. drp' = [drp EXCEPT ![r] = [@ EXCEPT !.decoded = TRUE, !.buffer = s,
                                            !.shown = shown]]
    BY <2>1
  <2> HIDE DEF shown
  <2>5. /\ drp'[r].buffer = s /\ drp'[r].frameNumber = drp[r].frameNumber
        /\ drp'[r].shown = shown
        /\ \A q \in Records \ {r} : drp'[q] = drp[q]
    BY <2>4 DEF TypeOK, DecompressRecord
  <2> QED  BY <1>4, <2>1, <2>3, <2>5
<1>8. ASSUME NEW r \in Records, EndBand(r)
      PROVE  \A q \in Records : Ok(q)'
  <2>1. /\ drp'[r] = IdleRecord
        /\ \A q \in Records \ {r} : drp'[q] = drp[q]
        /\ \A t \in Slots : t # drp[r].buffer => buffers'[t] = buffers[t]
    BY <1>8 DEF EndBand, TypeOK
  <2>2. ASSUME NEW q \in Records \ {r}, drp[q].buffer # NULL
        PROVE  buffers'[drp[q].buffer] = buffers[drp[q].buffer]
    BY <2>1, <2>2 DEF SlotOwnership, TypeOK, DecompressRecord
  <2> QED  BY <1>1, <2>1, <2>2 DEF IdleRecord
<1>9. CASE UNCHANGED vars
  <2>1. buffers' = buffers /\ drp' = drp
    BY <1>9 DEF vars, globVars
  <2> QED  BY <1>1, <1>2, <2>1
<1> HIDE DEF Ok
<1> QED  BY <1>2, <1>3, <1>5, <1>6, <1>7, <1>8, <1>9 DEF Next

(* No record is ever shown another record's picture, for any stream, any   *)
(* number of records and buffers, any allocation failures and any order of *)
(* band calls the base decompressor may make.                              *)
THEOREM NoOtherFrame == Spec => []ShowsNoOtherFrame
<1>1. Init => TypeOK /\ SlotOwnership /\ DecoderInv /\ PictureInv
  BY InitType, InitOwnership, OpenedDrained, InitPictures DEF Init, DecoderInv
<1>2. TypeOK /\ SlotOwnership /\ DecoderInv /\ PictureInv /\ [Next]_vars
        => TypeOK' /\ SlotOwnership' /\ DecoderInv' /\ PictureInv'
  BY NextType, NextOwnership, NextDrained, NextPictures
<1>3. PictureInv => ShowsNoOtherFrame
  BY DEF PictureInv
<1> QED  BY <1>1, <1>2, <1>3, PTL DEF Spec

-----------------------------------------------------------------------------
(* Refinement of PictureStore *)

(* The place of a record whose own state and slot are not touched.         *)
LEMMA PlaceKept ==
  ASSUME NEW q \in Records, drp'[q] = drp[q],
         drp[q].buffer # NULL => buffers'[drp[q].buffer] = buffers[drp[q].buffer]
  PROVE  Place(q)' = Place(q) /\ DrawnPicture(q)' = DrawnPicture(q)
BY DEF Place, DrawnPicture, Begun, PictureIn

(* The place of record r after it was decoded into s.                      *)
LEMMA PlaceFilled ==
  ASSUME NEW r \in Records, NEW s, drp'[r].phase = "begun", drp'[r].decoded,
         drp'[r].buffer = s
  PROVE  /\ Place(r)' = IF PictureIn(buffers', s) = NULL THEN BLACK
                        ELSE PictureIn(buffers', s)
         /\ Place(r)' \in Store!Content
<1>1. PictureIn(buffers', s) \in Picture \cup {NULL}
  BY PictureInType
<1>2. Place(r)' = IF PictureIn(buffers', s) = NULL THEN BLACK
                  ELSE PictureIn(buffers', s)
  BY DEF Place, Begun
<1> QED  BY <1>1, <1>2 DEF Store!Content

(* A draw of p leaves the old picture, or shows p.                         *)
LEMMA DrawnCases ==
  ASSUME NEW funcs \in ColorConversionFuncs, NEW p \in Picture \cup {NULL},
         NEW aligned \in BOOLEAN, NEW old
  PROVE  \/ DrawnWith(funcs, p, aligned, old) = old
         \/ /\ DrawnWith(funcs, p, aligned, old) # NULL
            /\ DrawnWith(funcs, p, aligned, old).picture
                 = IF p = NULL THEN BLACK ELSE p
<1> DEFINE f == IF p = NULL THEN funcs.clear ELSE funcs.convert
           shown == [picture |-> IF p = NULL THEN BLACK ELSE p,
                     by |-> f, aligned |-> aligned]
<1>1. CASE f = NULL
  BY <1>1 DEF DrawnWith
<1>2. CASE f # NULL
  <2>1. DrawnWith(funcs, p, aligned, old) = shown
    BY <1>2 DEF DrawnWith
  <2>2. f \in Clears \cup Converts
    BY <1>2 DEF ColorConversionFuncs
  <2> HIDE DEF f
  <2>3. shown \in Shown
    BY <2>2 DEF Shown
  <2> QED  BY <2>1, <2>3, BandsAssumption
<1> QED  BY <1>1, <1>2

(* A step that touches record r alone changes both functions at r alone.   *)
LEMMA StoreStep ==
  ASSUME NEW r \in Records,
         \A q \in Records \ {r} : Place(q)' = Place(q) /\ DrawnPicture(q)' = DrawnPicture(q)
  PROVE  /\ [q \in Records |-> Place(q)]'
              = [[q \in Records |-> Place(q)] EXCEPT ![r] = Place(r)']
         /\ [q \in Records |-> DrawnPicture(q)]'
              = [[q \in Records |-> DrawnPicture(q)] EXCEPT ![r] = DrawnPicture(r)']
         /\ DrawnPicture(r)' = DrawnPicture(r) =>
              [q \in Records |-> DrawnPicture(q)]' = [q \in Records |-> DrawnPicture(q)]
         /\ Place(r)' = Place(r) =>
              [q \in Records |-> Place(q)]' = [q \in Records |-> Place(q)]
OBVIOUS

LEMMA InitStore == Init => Store!StoreInit
<1> SUFFICES ASSUME Init PROVE Store!StoreInit
  OBVIOUS
<1>1. \A r \in Records : Place(r) = EMPTY /\ DrawnPicture(r) = EMPTY
  BY DEF Init, IdleRecord, Place, DrawnPicture, Begun
<1> QED  BY <1>1 DEF Store!StoreInit

(* The record a decode is for goes from empty to filled, the others keep   *)
(* their places: the decode stores into a slot nobody else owns.           *)
LEMMA DecodePlaces ==
  ASSUME TypeOK, SlotOwnership, NEW r \in Records, NEW s \in Slots \cup {NULL},
         Decode(r, s), drp'[r].phase = drp[r].phase, drp'[r].decoded,
         drp'[r].buffer = s, \A q \in Records \ {r} : drp'[q] = drp[q]
  PROVE  /\ Place(r) = EMPTY
         /\ Place(r)' \in Store!Content
         /\ Place(r)' = IF PictureIn(buffers', s) = NULL THEN BLACK
                        ELSE PictureIn(buffers', s)
         /\ \A q \in Records \ {r} :
              Place(q)' = Place(q) /\ DrawnPicture(q)' = DrawnPicture(q)
<1>1. drp[r].phase = "begun" /\ ~drp[r].decoded
  BY DEF Decode, Waiting, Begun
<1>2. Place(r) = EMPTY
  BY <1>1 DEF Place
<1>3. /\ Place(r)' \in Store!Content
      /\ Place(r)' = IF PictureIn(buffers', s) = NULL THEN BLACK
                     ELSE PictureIn(buffers', s)
  BY <1>1, PlaceFilled
<1>4. ASSUME NEW q \in Records \ {r}
      PROVE  Place(q)' = Place(q) /\ DrawnPicture(q)' = DrawnPicture(q)
  BY PlaceKept, DecodeLeavesOthers
<1> QED  BY <1>2, <1>3, <1>4

LEMMA NextStore ==
  ASSUME TypeOK, TypeOK', SlotOwnership, [Next]_vars
  PROVE  [Store!StoreNext]_(Store!storeVars)
<1>1. ASSUME NEW r \in Records, NEW f \in Frame,
             BeginBand(r, f) \/ BeginBandDecoded(r, f)
      PROVE  Store!StoreBegin(r)
  <2>1. /\ buffers' = buffers
        /\ drp'[r].phase = "begun" /\ drp'[r].buffer = NULL /\ drp'[r].shown = NULL
        /\ \A q \in Records \ {r} : drp'[q] = drp[q]
    <3>1. CASE BeginBand(r, f)
      BY <3>1 DEF BeginBand, IdleRecord, TypeOK
    <3>2. CASE BeginBandDecoded(r, f)
      BY <3>2 DEF BeginBandDecoded, globVars, IdleRecord, TypeOK
    <3> QED  BY <1>1, <3>1, <3>2
  <2>2. Place(r)' \in {EMPTY, BLACK} /\ DrawnPicture(r)' = EMPTY
    BY <2>1 DEF Place, DrawnPicture, PictureIn
  <2>3. \A q \in Records \ {r} : Place(q)' = Place(q) /\ DrawnPicture(q)' = DrawnPicture(q)
    BY <2>1, PlaceKept
  <2> QED  BY <2>2, <2>3, StoreStep DEF Store!StoreBegin
<1>2. ASSUME NEW r \in Records, DecodeBand(r)
      PROVE  Store!StoreDecode(r)
  <2>1. PICK s \in Slots \cup {NULL} :
          /\ Decode(r, s)
          /\ drp' = [drp EXCEPT ![r] = [@ EXCEPT !.decoded = TRUE, !.buffer = s]]
    BY <1>2 DEF DecodeBand
  <2>2. /\ drp'[r].phase = drp[r].phase /\ drp'[r].decoded
        /\ drp'[r].buffer = s /\ drp'[r].shown = drp[r].shown
        /\ \A q \in Records \ {r} : drp'[q] = drp[q]
    BY <2>1 DEF TypeOK, DecompressRecord
  <2>3. /\ Place(r) = EMPTY /\ Place(r)' \in Store!Content
        /\ \A q \in Records \ {r} :
             Place(q)' = Place(q) /\ DrawnPicture(q)' = DrawnPicture(q)
    BY <2>1, <2>2, DecodePlaces
  <2>4. DrawnPicture(r)' = DrawnPicture(r)
    BY <2>2 DEF DrawnPicture
  <2> QED  BY <2>3, <2>4, StoreStep DEF Store!StoreDecode
<1>3. ASSUME NEW r \in Records, NEW aligned \in Alignments, DrawBand(r, aligned)
      PROVE  Store!StoreDraw(r) \/ UNCHANGED Store!storeVars
  <2> DEFINE p == PictureIn(buffers, drp[r].buffer)
             shown == DrawnWith(colorConv', p, aligned, drp[r].shown)
  <2>1. /\ drp' = [drp EXCEPT ![r] = [@ EXCEPT !.shown = shown]]
        /\ buffers' = buffers /\ drp[r].phase = "begun" /\ drp[r].decoded
    BY <1>3 DEF DrawBand, Begun
  <2>2. Place(r) = IF p = NULL THEN BLACK ELSE p
    BY <2>1 DEF Place, Begun
  <2>3. p \in Picture \cup {NULL} /\ aligned \in BOOLEAN
    BY PictureInType, BandsAssumption
  <2>4. \/ shown = drp[r].shown
        \/ shown # NULL /\ shown.picture = IF p = NULL THEN BLACK ELSE p
    BY <2>3, DrawnCases DEF TypeOK
  <2> HIDE DEF shown, p
  <2>5. /\ drp'[r].phase = drp[r].phase /\ drp'[r].decoded = drp[r].decoded
        /\ drp'[r].buffer = drp[r].buffer /\ drp'[r].shown = shown
        /\ \A q \in Records \ {r} : drp'[q] = drp[q]
    <3>1. drp' = [drp EXCEPT ![r] = [@ EXCEPT !.shown = shown]]
      BY <2>1
    <3> QED  BY <3>1 DEF TypeOK, DecompressRecord
  <2>6. Place(r)' = Place(r)
    BY <2>1, <2>5 DEF Place, Begun
  <2>7. \A q \in Records \ {r} : Place(q)' = Place(q) /\ DrawnPicture(q)' = DrawnPicture(q)
    BY <2>1, <2>5, PlaceKept
  <2>8. Place(r) # EMPTY
    BY <2>2, <2>3, BandsAssumption
  <2>9. DrawnPicture(r)' = DrawnPicture(r) \/ DrawnPicture(r)' = Place(r)
    BY <2>2, <2>4, <2>5 DEF DrawnPicture
  <2> QED
    BY <2>6, <2>7, <2>8, <2>9, StoreStep DEF Store!StoreDraw, Store!storeVars
<1>4. ASSUME NEW r \in Records, NEW aligned \in Alignments,
             DecodeAndDrawBand(r, aligned)
      PROVE  Store!StoreDecode(r) \/ Store!StoreDecodeAndDraw(r)
  <2>1. PICK s \in Slots \cup {NULL} :
          /\ Decode(r, s)
          /\ drp' = [drp EXCEPT ![r] =
                       [@ EXCEPT !.decoded = TRUE,
                                 !.buffer  = s,
                                 !.shown   = DrawnWith(colorConv',
                                               PictureIn(buffers', s), aligned,
                                               drp[r].shown)]]
    BY <1>4 DEF DecodeAndDrawBand
  <2> DEFINE p == PictureIn(buffers', s)
             shown == DrawnWith(colorConv', p, aligned, drp[r].shown)
  <2>2. p \in Picture \cup {NULL} /\ aligned \in BOOLEAN
    BY PictureInType, BandsAssumption
  <2>3. \/ shown = drp[r].shown
        \/ shown # NULL /\ shown.picture = IF p = NULL THEN BLACK ELSE p
    BY <2>2, DrawnCases DEF TypeOK
  <2>4. drp' = [drp EXCEPT ![r] = [@ EXCEPT !.decoded = TRUE, !.buffer = s,
                                            !.shown = shown]]
    BY <2>1
  <2> HIDE DEF shown
  <2>5. /\ drp'[r].phase = drp[r].phase /\ drp'[r].decoded
        /\ drp'[r].buffer = s /\ drp'[r].shown = shown
        /\ \A q \in Records \ {r} : drp'[q] = drp[q]
    BY <2>4 DEF TypeOK, DecompressRecord
  <2>6. /\ Place(r) = EMPTY /\ Place(r)' \in Store!Content
        /\ Place(r)' = IF p = NULL THEN BLACK ELSE p
        /\ \A q \in Records \ {r} :
             Place(q)' = Place(q) /\ DrawnPicture(q)' = DrawnPicture(q)
    BY <2>1, <2>5, DecodePlaces
  <2>7. DrawnPicture(r)' = DrawnPicture(r) \/ DrawnPicture(r)' = Place(r)'
    BY <2>3, <2>5, <2>6 DEF DrawnPicture
  <2> QED
    BY <2>6, <2>7, StoreStep DEF Store!StoreDecode, Store!StoreDecodeAndDraw
<1>5. ASSUME NEW r \in Records, EndBand(r)
      PROVE  Store!StoreEnd(r)
  <2>1. /\ drp'[r] = IdleRecord
        /\ \A q \in Records \ {r} : drp'[q] = drp[q]
        /\ \A t \in Slots : t # drp[r].buffer => buffers'[t] = buffers[t]
    BY <1>5 DEF EndBand, TypeOK
  <2>2. ASSUME NEW q \in Records \ {r}, drp[q].buffer # NULL
        PROVE  buffers'[drp[q].buffer] = buffers[drp[q].buffer]
    BY <2>1, <2>2 DEF SlotOwnership, TypeOK, DecompressRecord
  <2>3. \A q \in Records \ {r} : Place(q)' = Place(q) /\ DrawnPicture(q)' = DrawnPicture(q)
    BY <2>1, <2>2, PlaceKept
  <2>4. Place(r)' = EMPTY /\ DrawnPicture(r)' = EMPTY
    BY <2>1 DEF Place, DrawnPicture, Begun, IdleRecord
  <2> QED  BY <2>3, <2>4, StoreStep DEF Store!StoreEnd
<1>6. CASE UNCHANGED vars
  <2>1. buffers' = buffers /\ drp' = drp
    BY <1>6 DEF vars, globVars
  <2>2. \A q \in Records : Place(q)' = Place(q) /\ DrawnPicture(q)' = DrawnPicture(q)
    BY <2>1, PlaceKept
  <2> QED  BY <2>2 DEF Store!storeVars
<1>7. CASE Next
  BY <1>1, <1>2, <1>3, <1>4, <1>5, <1>7 DEF Next, Store!StoreNext
<1> QED  BY <1>6, <1>7

(* FFusionBands implements PictureStore: what a record decoded is what it  *)
(* draws until its band ends, whatever the other records do.               *)
THEOREM ImplementsStore == Spec => StoreSpec
<1>1. Init => TypeOK /\ SlotOwnership /\ Store!StoreInit
  BY InitType, InitOwnership, InitStore
<1>2. TypeOK /\ SlotOwnership /\ [Next]_vars
        => TypeOK' /\ SlotOwnership' /\ [Store!StoreNext]_(Store!storeVars)
  BY NextType, NextOwnership, NextStore
<1> QED  BY <1>1, <1>2, PTL DEF Spec, StoreSpec, Store!StoreSpec

-----------------------------------------------------------------------------
(* Every slot comes back *)

(* As long as av_frame_alloc succeeds every owned slot has an AVFrame,     *)
(* which is what EndBand tests before it releases the slot.                *)
OwnedSlotsHaveFrames ==
  \A r \in Records : drp[r].buffer # NULL => buffers[drp[r].buffer].frame # NULL

LeakInv == OwnedSlotsHaveFrames /\ NoSlotLeak

LEMMA InitLeak == Init => LeakInv
<1> SUFFICES ASSUME Init PROVE LeakInv
  OBVIOUS
<1>1. \A s \in Slots : buffers[s] = FreeBuffer
  BY DEF Init
<1>2. \A r \in Records : drp[r].buffer = NULL
  BY DEF Init, IdleRecord
<1> QED  BY <1>1, <1>2 DEF LeakInv, OwnedSlotsHaveFrames, NoSlotLeak

(* A step that leaves the slots and their owners alone leaks nothing.      *)
LEMMA LeakKept ==
  ASSUME LeakInv, buffers' = buffers,
         \A q \in Records : drp'[q].buffer = drp[q].buffer
  PROVE  LeakInv'
<1>1. \A s \in Slots : Holders(s)' = Holders(s)
  BY DEF Holders
<1> QED  BY <1>1 DEF LeakInv, OwnedSlotsHaveFrames, NoSlotLeak, FreeBuffer

LEMMA DecodeLeak ==
  ASSUME TypeOK, SlotOwnership, DecoderInv, LeakInv, ~AllocMayFail,
         NEW r \in Records, NEW s \in Slots \cup {NULL}, Decode(r, s),
         drp'[r].buffer = s, \A q \in Records \ {r} : drp'[q] = drp[q]
  PROVE  LeakInv'
<1>1. drp[r].buffer = NULL
  BY DecodeSlot
<1>2. CASE s = NULL
  BY <1>1, <1>2, DecodeSlot, LeakKept
<1>3. CASE s # NULL
  <2>1. buffers'[s].frame # NULL
    BY <1>3, DecodeStores
  <2>2. \A t \in Slots \ {s} : buffers'[t] = buffers[t]
    BY <1>3, DecodeSlot
  <2>3. OwnedSlotsHaveFrames'
    <3>1. ASSUME NEW q \in Records \ {r}, drp[q].buffer # NULL
          PROVE  buffers'[drp[q].buffer].frame # NULL
      BY <3>1, DecodeLeavesOthers DEF LeakInv, OwnedSlotsHaveFrames
    <3> QED  BY <2>1, <3>1 DEF OwnedSlotsHaveFrames
  <2>4. ASSUME NEW t \in Slots, Holders(t)' = {}
        PROVE  buffers'[t] = FreeBuffer
    <3>1. t # s
      BY <2>4 DEF Holders
    <3>2. Holders(t) = {}
      BY <1>1, <2>4, SlotFacts DEF Holders
    <3> QED  BY <2>2, <3>1, <3>2 DEF LeakInv, NoSlotLeak
  <2> QED  BY <2>3, <2>4 DEF LeakInv, NoSlotLeak, FreeBuffer
<1> QED  BY <1>2, <1>3

LEMMA NextLeak ==
  ASSUME TypeOK, TypeOK', SlotOwnership, DecoderInv, LeakInv, ~AllocMayFail,
         [Next]_vars
  PROVE  LeakInv'
<1>1. ASSUME NEW r \in Records, NEW f \in Frame, BeginBand(r, f)
      PROVE  LeakInv'
  <2>1. /\ buffers' = buffers
        /\ drp'[r].buffer = NULL
        /\ \A q \in Records \ {r} : drp'[q] = drp[q]
    BY <1>1 DEF BeginBand, IdleRecord, TypeOK
  <2>2. drp[r].buffer = NULL
    BY <1>1 DEF BeginBand, SlotOwnership
  <2> QED  BY <2>1, <2>2, LeakKept
<1>2. ASSUME NEW r \in Records, NEW f \in Frame, BeginBandDecoded(r, f)
      PROVE  LeakInv'
  <2>1. /\ buffers' = buffers
        /\ drp'[r].buffer = NULL
        /\ \A q \in Records \ {r} : drp'[q] = drp[q]
    BY <1>2 DEF BeginBandDecoded, globVars, IdleRecord, TypeOK
  <2>2. drp[r].buffer = NULL
    BY <1>2 DEF BeginBandDecoded, SlotOwnership
  <2> QED  BY <2>1, <2>2, LeakKept
<1>3. ASSUME NEW r \in Records, DecodeBand(r)
      PROVE  LeakInv'
  <2>1. PICK s \in Slots \cup {NULL} :
          /\ Decode(r, s)
          /\ drp' = [drp EXCEPT ![r] = [@ EXCEPT !.decoded = TRUE, !.buffer = s]]
    BY <1>3 DEF DecodeBand
  <2>2. drp'[r].buffer = s /\ \A q \in Records \ {r} : drp'[q] = drp[q]
    BY <2>1 DEF TypeOK, DecompressRecord
  <2> QED  BY <2>1, <2>2, DecodeLeak
<1>4. ASSUME NEW r \in Records, NEW aligned \in Alignments, DrawBand(r, aligned)
      PROVE  LeakInv'
  <2>1. PICK shown : drp' = [drp EXCEPT ![r] = [@ EXCEPT !.shown = shown]]
    BY <1>4 DEF DrawBand
  <2>2. buffers' = buffers /\ \A q \in Records : drp'[q].buffer = drp[q].buffer
    BY <1>4, <2>1 DEF DrawBand, TypeOK, DecompressRecord
  <2> QED  BY <2>2, LeakKept
<1>5. ASSUME NEW r \in Records, NEW aligned \in Alignments,
             DecodeAndDrawBand(r, aligned)
      PROVE  LeakInv'
  <2>1. PICK s \in Slots \cup {NULL} :
          /\ Decode(r, s)
          /\ drp' = [drp EXCEPT ![r] =
                       [@ EXCEPT !.decoded = TRUE,
                                 !.buffer  = s,
                                 !.shown   = DrawnWith(colorConv',
                                               PictureIn(buffers', s), aligned,
                                               drp[r].shown)]]
    BY <1>5 DEF DecodeAndDrawBand
  <2>2. drp'[r].buffer = s /\ \A q \in Records \ {r} : drp'[q] = drp[q]
    BY <2>1 DEF TypeOK, DecompressRecord
  <2> QED  BY <2>1, <2>2, DecodeLeak
<1>6. ASSUME NEW r \in Records, EndBand(r)
      PROVE  LeakInv'
  <2> DEFINE s == drp[r].buffer
  <2>1. /\ drp'[r] = IdleRecord
        /\ \A q \in Records \ {r} : drp'[q] = drp[q]
        /\ \A t \in Slots : t # s => buffers'[t] = buffers[t]
    BY <1>6 DEF EndBand, TypeOK
  <2>2. s # NULL => s \in Slots /\ buffers'[s] = FreeBuffer
    <3>1. ASSUME s # NULL
          PROVE  /\ s \in Slots /\ buffers[s].frame # NULL
                 /\ buffers[s].retainCount = 1
      BY <3>1 DEF LeakInv, OwnedSlotsHaveFrames, SlotOwnership, TypeOK,
         DecompressRecord
    <3> QED  BY <1>6, <3>1 DEF EndBand, Released, TypeOK
  <2>3. OwnedSlotsHaveFrames'
    <3>1. ASSUME NEW q \in Records \ {r}, drp[q].buffer # NULL
          PROVE  buffers'[drp[q].buffer] = buffers[drp[q].buffer]
      BY <2>1, <3>1 DEF SlotOwnership, TypeOK, DecompressRecord
    <3> QED  BY <2>1, <3>1 DEF LeakInv, OwnedSlotsHaveFrames, IdleRecord
  <2>4. ASSUME NEW t \in Slots, Holders(t)' = {}
        PROVE  buffers'[t] = FreeBuffer
    <3>1. CASE t = s
      BY <2>2, <3>1, SlotFacts
    <3>2. CASE t # s
      <4>1. Holders(t) = {}
        BY <2>1, <2>4, <3>2 DEF Holders
      <4> QED  BY <2>1, <3>2, <4>1 DEF LeakInv, NoSlotLeak
    <3> QED  BY <3>1, <3>2
  <2> QED  BY <2>3, <2>4 DEF LeakInv, NoSlotLeak, FreeBuffer
<1>7. CASE UNCHANGED vars
  <2>1. buffers' = buffers /\ drp' = drp
    BY <1>7 DEF vars, globVars
  <2> QED  BY <2>1, LeakKept
<1> QED  BY <1>1, <1>2, <1>3, <1>4, <1>5, <1>6, <1>7 DEF Next

(* A decode finds no slot only when every slot has an owner.               *)
LEMMA StarvedStep ==
  ASSUME TypeOK, SlotOwnership, LeakInv, [Next]_vars, NEW r \in Records,
         Waiting(r), drp'[r].decoded, drp'[r].buffer = NULL
  PROVE  \A s \in Slots : Holders(s) # {}
<1>1. ASSUME FreeSlots = {}
      PROVE  \A s \in Slots : Holders(s) # {}
  BY <1>1 DEF FreeSlots, LeakInv, NoSlotLeak, FreeBuffer
<1>2. ASSUME NEW q \in Records, NEW s \in Slots \cup {NULL}, Decode(q, s),
             drp'[q].buffer = s, \A p \in Records \ {q} : drp'[p] = drp[p]
      PROVE  FreeSlots = {}
  <2>1. q = r
    BY <1>2 DEF Waiting
  <2> QED  BY <1>2, <2>1, DecodeSlot
<1>3. ASSUME NEW q \in Records, DecodeBand(q)
      PROVE  FreeSlots = {}
  <2>1. PICK s \in Slots \cup {NULL} :
          /\ Decode(q, s)
          /\ drp' = [drp EXCEPT ![q] = [@ EXCEPT !.decoded = TRUE, !.buffer = s]]
    BY <1>3 DEF DecodeBand
  <2>2. drp'[q].buffer = s /\ \A p \in Records \ {q} : drp'[p] = drp[p]
    BY <2>1 DEF TypeOK, DecompressRecord
  <2> QED  BY <1>2, <2>1, <2>2
<1>4. ASSUME NEW q \in Records, NEW aligned \in Alignments,
             DecodeAndDrawBand(q, aligned)
      PROVE  FreeSlots = {}
  <2>1. PICK s \in Slots \cup {NULL} :
          /\ Decode(q, s)
          /\ drp' = [drp EXCEPT ![q] =
                       [@ EXCEPT !.decoded = TRUE,
                                 !.buffer  = s,
                                 !.shown   = DrawnWith(colorConv',
                                               PictureIn(buffers', s), aligned,
                                               drp[q].shown)]]
    BY <1>4 DEF DecodeAndDrawBand
  <2>2. drp'[q].buffer = s /\ \A p \in Records \ {q} : drp'[p] = drp[p]
    BY <2>1 DEF TypeOK, DecompressRecord
  <2> QED  BY <1>2, <2>1, <2>2
<1>5. ASSUME NEW q \in Records, NEW f \in Frame, BeginBand(q, f)
      PROVE  FALSE
  BY <1>5 DEF BeginBand, Waiting, IdleRecord, TypeOK
<1>6. ASSUME NEW q \in Records, NEW f \in Frame, BeginBandDecoded(q, f)
      PROVE  FALSE
  BY <1>6 DEF BeginBandDecoded, Waiting, TypeOK
<1>7. ASSUME NEW q \in Records, NEW aligned \in Alignments, DrawBand(q, aligned)
      PROVE  FALSE
  <2>1. PICK shown : drp' = [drp EXCEPT ![q] = [@ EXCEPT !.shown = shown]]
    BY <1>7 DEF DrawBand
  <2> QED  BY <1>7, <2>1 DEF DrawBand, Waiting, TypeOK, DecompressRecord
<1>8. ASSUME NEW q \in Records, EndBand(q)
      PROVE  FALSE
  BY <1>8 DEF EndBand, Waiting, IdleRecord, TypeOK
<1>9. CASE UNCHANGED vars
  BY <1>9 DEF vars, Waiting
<1> QED  BY <1>1, <1>3, <1>4, <1>5, <1>6, <1>7, <1>8, <1>9 DEF Next

(* No slot is lost: one that no record owns is free, over any number of    *)
(* bands.                                                                  *)
THEOREM NoLeak ==
  ASSUME ~AllocMayFail
  PROVE  Spec => []NoSlotLeak
<1>1. Init => TypeOK /\ SlotOwnership /\ DecoderInv /\ LeakInv
  BY InitType, InitOwnership, OpenedDrained, InitLeak DEF Init, DecoderInv
<1>2. TypeOK /\ SlotOwnership /\ DecoderInv /\ LeakInv /\ [Next]_vars
        => TypeOK' /\ SlotOwnership' /\ DecoderInv' /\ LeakInv'
  BY NextType, NextOwnership, NextDrained, NextLeak
<1>3. LeakInv => NoSlotLeak
  BY DEF LeakInv
<1> QED  BY <1>1, <1>2, <1>3, PTL DEF Spec

(* A record is drawn black for want of a slot only when every slot holds   *)
(* the picture of another record.                                          *)
THEOREM Starves ==
  ASSUME ~AllocMayFail
  PROVE  Spec => StarvedOnlyWhenFull
<1>1. Init => TypeOK /\ SlotOwnership /\ DecoderInv /\ LeakInv
  BY InitType, InitOwnership, OpenedDrained, InitLeak DEF Init, DecoderInv
<1>2. TypeOK /\ SlotOwnership /\ DecoderInv /\ LeakInv /\ [Next]_vars
        => TypeOK' /\ SlotOwnership' /\ DecoderInv' /\ LeakInv'
  BY NextType, NextOwnership, NextDrained, NextLeak
<1>3. TypeOK /\ SlotOwnership /\ LeakInv /\ [Next]_vars
        => [\A r \in Records :
              Waiting(r) /\ drp'[r].decoded /\ drp'[r].buffer = NULL
                => \A s \in Slots : Holders(s) # {}]_vars
  BY StarvedStep
<1> QED  BY <1>1, <1>2, <1>3, PTL DEF Spec, StarvedOnlyWhenFull

-----------------------------------------------------------------------------
(* The pixel format and the converter *)

(* Decoding opens and closes nothing, and the pixel format it learns is    *)
(* that of some frame.                                                     *)
LEMMA ReceiveFormat ==
  ASSUME NEW ctx \in AVCodecContext
  PROVE  /\ ReceiveInternal(ctx).ctx.open = ctx.open
         /\ ReceiveInternal(ctx).ctx.pix_fmt
              \in {ctx.pix_fmt} \cup {PixFmtOf[g] : g \in Frame}
<1>1. CASE ctx.bsf = NULL
  BY <1>1 DEF ReceiveInternal
<1>2. CASE ctx.bsf # NULL
  <2> DEFINE p == Decoded(ctx, ctx.bsf)
             queue == IF p = NULL THEN ctx.inFlight ELSE Append(ctx.inFlight, p)
             out == p # NULL /\ Len(queue) > ctx.delay
             rest == IF out THEN Tail(queue) ELSE queue
             next == [ctx EXCEPT !.bsf      = NULL,
                                 !.ref      = RefAfter(ctx, ctx.bsf),
                                 !.pix_fmt  = IF p = NULL THEN @
                                              ELSE PixFmtOf[ctx.bsf],
                                 !.inFlight = rest]
  <2>1. ReceiveInternal(ctx) =
          [ctx |-> next, frame |-> IF out THEN Head(queue) ELSE NULL]
    BY <1>2 DEF ReceiveInternal
  <2>2. ctx.bsf \in Frame
    BY <1>2 DEF AVCodecContext
  <2> HIDE DEF p, queue, out, rest
  <2>3. /\ next.open = ctx.open
        /\ next.pix_fmt = IF p = NULL THEN ctx.pix_fmt ELSE PixFmtOf[ctx.bsf]
    BY DEF AVCodecContext
  <2> HIDE DEF next
  <2> QED  BY <2>1, <2>2, <2>3
<1> QED  BY <1>1, <1>2

LEMMA DecompressFormat ==
  ASSUME NEW ctx \in AVCodecContext, NEW f \in Frame
  PROVE  /\ FFusionDecompress(ctx, f).ctx.open = ctx.open
         /\ FFusionDecompress(ctx, f).ctx.pix_fmt
              \in {ctx.pix_fmt} \cup {PixFmtOf[g] : g \in Frame}
<1> DEFINE Formats == {ctx.pix_fmt} \cup {PixFmtOf[g] : g \in Frame}
           taken == [ctx EXCEPT !.bsf = f]
           tried == ReceiveInternal(taken)
           kept  == [tried.ctx EXCEPT !.bufferFrame = tried.frame]
           sent  == SendPacket(ctx, f)
           left  == [sent EXCEPT !.bufferFrame = NULL]
<1>1. /\ taken \in AVCodecContext /\ taken.open = ctx.open
      /\ taken.pix_fmt = ctx.pix_fmt
  BY DEF AVCodecContext
<1>2. sent \in {ctx, taken, kept}
  BY DEF SendPacket
<1> HIDE DEF taken
<1>3. /\ tried.ctx \in AVCodecContext /\ tried.frame \in Picture \cup {NULL}
      /\ tried.ctx.open = ctx.open /\ tried.ctx.pix_fmt \in Formats
  BY <1>1, ReceiveInternalType, ReceiveFormat
<1> HIDE DEF tried, sent
<1>4. kept \in AVCodecContext /\ kept.open = ctx.open /\ kept.pix_fmt \in Formats
  BY <1>3 DEF AVCodecContext
<1> HIDE DEF kept
<1>5. sent \in AVCodecContext /\ sent.open = ctx.open /\ sent.pix_fmt \in Formats
  BY <1>1, <1>2, <1>4
<1>6. left.open = ctx.open /\ left.pix_fmt \in Formats
  BY <1>5 DEF AVCodecContext
<1>7. /\ ReceiveInternal(sent).ctx.open = ctx.open
      /\ ReceiveInternal(sent).ctx.pix_fmt \in Formats
  BY <1>5, ReceiveFormat
<1>8. FFusionDecompress(ctx, f).ctx \in {sent, left, ReceiveInternal(sent).ctx}
  BY DEF FFusionDecompress, ReceiveFrame, sent
<1> HIDE DEF left
<1> QED  BY <1>5, <1>6, <1>7, <1>8

LEMMA NextFormat ==
  ASSUME TypeOK, [Next]_vars
  PROVE  /\ av'.open = av.open
         /\ av'.pix_fmt \in {av.pix_fmt} \cup {PixFmtOf[g] : g \in Frame}
<1>1. ASSUME NEW r \in Records, NEW s, Decode(r, s)
      PROVE  /\ av'.open = av.open
             /\ av'.pix_fmt \in {av.pix_fmt} \cup {PixFmtOf[g] : g \in Frame}
  <2> DEFINE ctx == IF FlushNeeded(r) THEN FlushBuffers(av) ELSE av
  <2>1. av \in AVCodecContext /\ drp[r].frameNumber \in Frame
    BY DEF TypeOK, DecompressRecord
  <2>2. ctx \in AVCodecContext /\ ctx.open = av.open /\ ctx.pix_fmt = av.pix_fmt
    BY <2>1, FlushBuffersType DEF FlushBuffers, AVCodecContext
  <2>3. av' = FFusionDecompress(ctx, drp[r].frameNumber).ctx
    BY <1>1 DEF Decode, Decompressed
  <2> HIDE DEF ctx
  <2> QED  BY <2>1, <2>2, <2>3, DecompressFormat
<1>2. ASSUME av' = av
      PROVE  /\ av'.open = av.open
             /\ av'.pix_fmt \in {av.pix_fmt} \cup {PixFmtOf[g] : g \in Frame}
  BY <1>2
<1> QED
  BY <1>1, <1>2 DEF Next, vars, globVars, BeginBand, BeginBandDecoded, DecodeBand,
     DrawBand, DecodeAndDrawBand, EndBand

(* What a step draws, and with which functions: nothing, or one record     *)
(* with the functions it found.                                            *)
DrawsNothing ==
  /\ colorConv' = colorConv
  /\ \A q \in Records : \/ drp'[q].shown = NULL
                        \/ /\ drp'[q].shown = drp[q].shown
                           /\ drp'[q].phase = drp[q].phase

Draws(r, p, aligned) ==
  /\ Begun(r) /\ drp'[r].phase = drp[r].phase
  /\ colorConv' = FuncsToDraw(p, av'.pix_fmt, aligned)
  /\ drp'[r].shown = DrawnWith(colorConv', p, aligned, drp[r].shown)
  /\ \A q \in Records \ {r} : drp'[q] = drp[q]

LEMMA NextDraws ==
  ASSUME TypeOK, [Next]_vars
  PROVE  \/ DrawsNothing
         \/ \E r \in Records, p \in Picture \cup {NULL}, aligned \in Alignments :
              Draws(r, p, aligned)
<1>1. ASSUME NEW r \in Records, NEW f \in Frame,
             BeginBand(r, f) \/ BeginBandDecoded(r, f)
      PROVE  DrawsNothing
  <2>1. /\ colorConv' = colorConv /\ drp'[r].shown = NULL
        /\ \A q \in Records \ {r} : drp'[q] = drp[q]
    <3>1. CASE BeginBand(r, f)
      BY <3>1 DEF BeginBand, IdleRecord, TypeOK
    <3>2. CASE BeginBandDecoded(r, f)
      BY <3>2 DEF BeginBandDecoded, globVars, IdleRecord, TypeOK
    <3> QED  BY <1>1, <3>1, <3>2
  <2> QED  BY <2>1 DEF DrawsNothing
<1>2. ASSUME NEW r \in Records, DecodeBand(r)
      PROVE  DrawsNothing
  <2>1. PICK s : /\ drp' = [drp EXCEPT ![r] = [@ EXCEPT !.decoded = TRUE, !.buffer = s]]
                 /\ colorConv' = colorConv
    BY <1>2 DEF DecodeBand
  <2> QED  BY <2>1 DEF DrawsNothing, TypeOK, DecompressRecord
<1>3. ASSUME NEW r \in Records, NEW aligned \in Alignments, DrawBand(r, aligned)
      PROVE  \E p \in Picture \cup {NULL} : Draws(r, p, aligned)
  <2> DEFINE p == PictureIn(buffers, drp[r].buffer)
             shown == DrawnWith(colorConv', p, aligned, drp[r].shown)
  <2>1. /\ drp' = [drp EXCEPT ![r] = [@ EXCEPT !.shown = shown]]
        /\ colorConv' = FuncsToDraw(p, av'.pix_fmt, aligned) /\ Begun(r)
    BY <1>3 DEF DrawBand
  <2>2. p \in Picture \cup {NULL}
    BY PictureInType
  <2> HIDE DEF shown, p
  <2>3. /\ drp'[r].shown = shown /\ drp'[r].phase = drp[r].phase
        /\ \A q \in Records \ {r} : drp'[q] = drp[q]
    BY <2>1 DEF TypeOK, DecompressRecord
  <2> QED  BY <2>1, <2>2, <2>3 DEF Draws, shown
<1>4. ASSUME NEW r \in Records, NEW aligned \in Alignments,
             DecodeAndDrawBand(r, aligned)
      PROVE  \E p \in Picture \cup {NULL} : Draws(r, p, aligned)
  <2>1. PICK s \in Slots \cup {NULL} :
          /\ Decode(r, s)
          /\ colorConv' = FuncsToDraw(PictureIn(buffers', s), av'.pix_fmt, aligned)
          /\ drp' = [drp EXCEPT ![r] =
                       [@ EXCEPT !.decoded = TRUE,
                                 !.buffer  = s,
                                 !.shown   = DrawnWith(colorConv',
                                               PictureIn(buffers', s), aligned,
                                               drp[r].shown)]]
    BY <1>4 DEF DecodeAndDrawBand
  <2> DEFINE p == PictureIn(buffers', s)
             shown == DrawnWith(colorConv', p, aligned, drp[r].shown)
  <2>2. p \in Picture \cup {NULL} /\ Begun(r)
    BY <2>1, PictureInType DEF Decode, Waiting
  <2>3. /\ drp' = [drp EXCEPT ![r] = [@ EXCEPT !.decoded = TRUE, !.buffer = s,
                                               !.shown = shown]]
        /\ colorConv' = FuncsToDraw(p, av'.pix_fmt, aligned)
    BY <2>1
  <2> HIDE DEF shown, p
  <2>4. /\ drp'[r].shown = shown /\ drp'[r].phase = drp[r].phase
        /\ \A q \in Records \ {r} : drp'[q] = drp[q]
    BY <2>3 DEF TypeOK, DecompressRecord
  <2> QED  BY <2>2, <2>3, <2>4 DEF Draws, shown
<1>5. ASSUME NEW r \in Records, EndBand(r)
      PROVE  DrawsNothing
  <2>1. /\ colorConv' = colorConv /\ drp'[r] = IdleRecord
        /\ \A q \in Records \ {r} : drp'[q] = drp[q]
    BY <1>5 DEF EndBand, TypeOK
  <2> QED  BY <2>1 DEF DrawsNothing, IdleRecord
<1>6. CASE UNCHANGED vars
  BY <1>6 DEF vars, globVars, DrawsNothing
<1> QED  BY <1>1, <1>2, <1>3, <1>4, <1>5, <1>6 DEF Next

(* The convert function the component keeps is one for the stream's only   *)
(* format pf, whichever draw chose it.                                     *)
ConverterInv(pf) ==
  /\ av.pix_fmt \in {"NONE", pf}
  /\ colorConv.convert # NULL => colorConv.convert \in ConvertersOf(pf)
  /\ \A r \in Records :
       drp[r].shown # NULL /\ drp[r].shown.picture # BLACK =>
         drp[r].shown.by \in ConvertersOf(pf)

LEMMA FindForConverts ==
  ASSUME NEW pf, NEW fmt \in {"NONE", pf}, NEW funcs, NEW have \in BOOLEAN,
         NEW aligned \in BOOLEAN,
         funcs.convert # NULL => funcs.convert \in ConvertersOf(pf)
  PROVE  LET found == ColorConversionFindFor(funcs, fmt, have, aligned)
         IN  found.convert # NULL => found.convert \in ConvertersOf(pf)
<1>1. CASE fmt \in Unconvertible
  BY <1>1 DEF ColorConversionFindFor
<1>2. CASE fmt \notin Unconvertible
  <2>1. fmt = pf
    BY <1>2 DEF Unconvertible
  <2>2. ConvertFor(pf, have /\ aligned) \in ConvertersOf(pf)
    BY DEF ConvertersOf
  <2>3. ColorConversionFindFor(funcs, fmt, have, aligned).convert
          \in {ConvertFor(pf, have /\ aligned), funcs.convert}
    BY <1>2, <2>1 DEF ColorConversionFindFor
  <2> QED  BY <2>2, <2>3
<1> QED  BY <1>1, <1>2

LEMMA NextConverter ==
  ASSUME TypeOK, TypeOK', NEW pf, \A f \in Frame : PixFmtOf[f] = pf,
         ConverterInv(pf), [Next]_vars
  PROVE  ConverterInv(pf)'
<1>1. av'.pix_fmt \in {"NONE", pf}
  BY NextFormat DEF ConverterInv
<1>2. CASE DrawsNothing
  BY <1>1, <1>2 DEF DrawsNothing, ConverterInv
<1>3. ASSUME NEW r \in Records, NEW p \in Picture \cup {NULL},
             NEW aligned \in Alignments, Draws(r, p, aligned)
      PROVE  ConverterInv(pf)'
  <2> DEFINE have == p # NULL
             found == ColorConversionFindFor(colorConv, av'.pix_fmt, have, aligned)
  <2>1. found.convert # NULL => found.convert \in ConvertersOf(pf)
    <3>1. aligned \in BOOLEAN
      BY BandsAssumption
    <3> QED  BY <1>1, <3>1, FindForConverts DEF ConverterInv
  <2>2. colorConv' = colorConv \/ colorConv' = found
    BY <1>3 DEF Draws, FuncsToDraw
  <2> HIDE DEF found
  <2>3. colorConv'.convert # NULL => colorConv'.convert \in ConvertersOf(pf)
    BY <2>1, <2>2 DEF ConverterInv
  <2>4. drp'[r].shown # NULL /\ drp'[r].shown.picture # BLACK =>
          drp'[r].shown.by \in ConvertersOf(pf)
    <3>1. CASE drp'[r].shown = drp[r].shown
      BY <3>1 DEF ConverterInv
    <3>2. CASE p = NULL
      BY <1>3, <3>1, <3>2 DEF Draws, DrawnWith
    <3>3. CASE p # NULL /\ drp'[r].shown # drp[r].shown
      <4>1. drp'[r].shown.by = colorConv'.convert /\ colorConv'.convert # NULL
        BY <1>3, <3>3 DEF Draws, DrawnWith
      <4> QED  BY <2>3, <4>1
    <3> QED  BY <3>1, <3>2, <3>3
  <2> QED  BY <1>1, <1>3, <2>3, <2>4 DEF Draws, ConverterInv
<1> QED  BY <1>2, <1>3, NextDraws

(* In a stream of one pixel format, the convert function kept for the life *)
(* of the component is one for that format, though it may be chosen while  *)
(* the format is unknown, by a draw without a picture, and for any mixture *)
(* of aligned and unaligned destinations.                                  *)
THEOREM ConverterKept ==
  ASSUME \A f, g \in Frame : PixFmtOf[f] = PixFmtOf[g]
  PROVE  Spec => []ConverterOfTheFormat
<1> DEFINE pf == PixFmtOf[0]
<1>1. \A f \in Frame : PixFmtOf[f] = pf
  BY FrameFacts
<1>2. Init => TypeOK /\ SlotOwnership /\ ConverterInv(pf)
  <2>1. ASSUME Init
        PROVE  ConverterInv(pf)
    <3>1. av.pix_fmt \in {"NONE", pf}
      BY <2>1 DEF Init, OpenedContext, AllocContext
    <3> QED  BY <2>1, <3>1 DEF Init, ConverterInv, NoFuncs, IdleRecord
  <2> QED  BY <2>1, InitType, InitOwnership
<1>3. TypeOK /\ SlotOwnership /\ ConverterInv(pf) /\ [Next]_vars
        => TypeOK' /\ SlotOwnership' /\ ConverterInv(pf)'
  BY <1>1, NextType, NextOwnership, NextConverter
<1>4. ConverterInv(pf) => ConverterOfTheFormat
  <2>1. \A f \in Frame : f # BLACK
    BY FrameFacts DEF Picture
  <2> QED  BY <1>1, <2>1 DEF ConverterInv, ConverterOfTheFormat
<1> HIDE DEF pf
<1> QED  BY <1>2, <1>3, <1>4, PTL DEF Spec

=============================================================================
