------------------------- MODULE FFusionCodecProofs -------------------------
(***************************************************************************)
(* Proofs about FFusionCodec: the facts about the band routines carry over *)
(* to the whole life of an instance, and hold for any stream, any number   *)
(* of records and buffers and any sequence of Preflights.                  *)
(***************************************************************************)
EXTENDS FFusionCodec, FFusionIntactProofs

-----------------------------------------------------------------------------
(* Typing and slot ownership *)

LEMMA BandsAreNext ==
  ASSUME NEW r \in Records, Bands(r) \/ DecodingBands(r)
  PROVE  Next
BY DEF Bands, DecodingBands, Next

LEMMA FindDecoderType ==
  ASSUME NEW codecID
  PROVE  FindDecoder(codecID) \in {NULL, "vp9", "libdav1d"}
BY DEF FindDecoder

LEMMA FindPixFmtType ==
  ASSUME NEW f \in Frame
  PROVE  FindPixFmtFromVideo(f) \in PixFmt
<1> DEFINE probe == [AllocContext EXCEPT !.open = TRUE]
<1>1. probe \in AVCodecContext
  BY AllocContextType DEF AVCodecContext
<1> HIDE DEF probe
<1>2. FFusionDecompress(probe, f).ctx.pix_fmt \in PixFmt
  BY <1>1, FFusionDecompressType DEF AVCodecContext
<1> QED  BY <1>2 DEF FindPixFmtFromVideo, probe, PixFmt

LEMMA PreflightFirstType ==
  ASSUME CodecTypeOK, NEW f \in KeyFrames \cup {NULL}, NEW opens \in BOOLEAN,
         PreflightFirst(f, opens)
  PROVE  /\ av' \in AVCodecContext
         /\ avCodec' \in {NULL, "vp9", "libdav1d"}
         /\ haveContext' \in BOOLEAN
         /\ extradata' \in {"none", "allocated", "dangling"}
         /\ err' \in {"none", "noErr", "paramErr"}
         /\ leaked' \subseteq {"context", "frame"}
<1> DEFINE pf == IF opens /\ f # NULL THEN FindPixFmtFromVideo(f) ELSE "NONE"
           codecID == getCodecID(componentType)
<1>1. pf \in PixFmt
  <2>1. CASE opens /\ f # NULL
    BY <2>1, FrameFacts, FindPixFmtType
  <2>2. CASE ~(opens /\ f # NULL)
    BY <2>2 DEF PixFmt
  <2> QED  BY <2>1, <2>2
<1>2. av' = IF opens THEN OpenedContext(codecID, pf) ELSE AllocContext
  BY DEF PreflightFirst
<1>3. av' \in AVCodecContext
  <2> HIDE DEF pf, codecID
  <2> QED  BY <1>1, <1>2, OpenedContextType, AllocContextType
<1>4. avCodec' \in {NULL, "vp9", "libdav1d"}
  BY FindDecoderType DEF PreflightFirst
<1> QED  BY <1>3, <1>4 DEF PreflightFirst, OpenResult, CodecTypeOK

LEMMA DstType ==
  ASSUME NEW pf
  PROVE  ColorConversionDstForPixFmt(pf) \in Layouts
BY DEF ColorConversionDstForPixFmt, Layouts

(* The band variables an instance starts with, and Close leaves behind.    *)
LEMMA FreshType ==
  /\ [s \in Slots |-> FreeBuffer] \in [Slots -> Buffer]
  /\ NoFuncs \in ColorConversionFuncs
  /\ 0 \in Slots
  /\ 0 \in Frame
  /\ AllocContext \in AVCodecContext
<1>1. 0 \in Slots
  BY BandsAssumption DEF Slots
<1> QED  BY <1>1, FreeBufferType, FrameFacts, AllocContextType
         DEF NoFuncs, ColorConversionFuncs

LEMMA CodecInitType == CodecInit => CodecTypeOK /\ SlotOwnership
<1> SUFFICES ASSUME CodecInit PROVE CodecTypeOK /\ SlotOwnership
  OBVIOUS
<1>1. TypeOK
  BY FreshType, IdleRecordType DEF CodecInit, TypeOK
<1>2. SlotOwnership
  BY DEF CodecInit, SlotOwnership, IdleRecord
<1> QED  BY <1>1, <1>2 DEF CodecInit, CodecTypeOK

LEMMA CodecNextType ==
  ASSUME CodecTypeOK, SlotOwnership, [CodecNext]_allVars
  PROVE  CodecTypeOK' /\ SlotOwnership'
<1>1. TypeOK
  BY DEF CodecTypeOK
<1>2. CASE Open
  <2>1. TypeOK' /\ SlotOwnership'
    BY <1>1, <1>2, NextType, NextOwnership DEF Open
  <2> QED  BY <1>2, <2>1 DEF Open, CodecTypeOK
<1>3. CASE Preflight
  <2>1. /\ av' \in AVCodecContext
        /\ avCodec' \in {NULL, "vp9", "libdav1d"}
        /\ haveContext' \in BOOLEAN
        /\ extradata' \in {"none", "allocated", "dangling"}
        /\ err' \in {"none", "noErr", "paramErr"}
        /\ leaked' \subseteq {"context", "frame"}
    <3>1. CASE PreflightAgain
      BY <1>1, <3>1 DEF PreflightAgain, CodecTypeOK, TypeOK
    <3>2. CASE \E f \in KeyFrames \cup {NULL}, opens \in BOOLEAN :
                 PreflightFirst(f, opens)
      BY <3>2, PreflightFirstType
    <3> QED  BY <1>3, <3>1, <3>2 DEF Preflight
  <2>2. wanted' \in Layouts \cup {NULL}
    BY <1>3, DstType DEF Preflight, CodecTypeOK
  <2>3. TypeOK' /\ SlotOwnership'
    BY <1>1, <1>3, <2>1 DEF Preflight, TypeOK, SlotOwnership, Begun
  <2> QED  BY <1>3, <2>1, <2>2, <2>3 DEF Preflight, CodecTypeOK
<1>4. ASSUME NEW r \in Records, Bands(r) \/ DecodingBands(r)
      PROVE  CodecTypeOK' /\ SlotOwnership'
  <2>1. TypeOK' /\ SlotOwnership'
    BY <1>1, <1>4, BandsAreNext, NextType, NextOwnership
  <2> QED  BY <1>4, <2>1 DEF Bands, DecodingBands, codecVars, CodecTypeOK
<1>5. ASSUME NEW r \in Records, DecodeCrashes(r)
      PROVE  CodecTypeOK' /\ SlotOwnership'
  <2>1. TypeOK' /\ SlotOwnership'
    BY <1>1, <1>5, NextType, NextOwnership DEF DecodeCrashes
  <2> QED  BY <1>5, <2>1 DEF DecodeCrashes, CodecTypeOK
<1>6. CASE Close
  <2>1. /\ av' \in AVCodecContext /\ buffers' \in [Slots -> Buffer]
        /\ lastAllocatedBuffer' \in Slots /\ lastIFrame' \in Frame
        /\ lastFrame' \in Frame /\ colorConv' \in ColorConversionFuncs
        /\ scheduled' = NULL /\ drp' = drp /\ ahead' = ahead
    BY <1>6, FreshType DEF Close
  <2>2. TypeOK'
    BY <1>1, <2>1 DEF TypeOK
  <2>3. \A r \in Records : drp[r].buffer = NULL
    BY <1>6 DEF Close, SlotOwnership
  <2>4. SlotOwnership'
    BY <2>1, <2>3 DEF SlotOwnership
  <2> QED  BY <1>6, <2>2, <2>4 DEF Close, CodecTypeOK
<1>7. CASE UNCHANGED allVars
  <2>1. TypeOK' /\ SlotOwnership'
    BY <1>1, <1>7, NextType, NextOwnership DEF allVars
  <2> QED  BY <1>7, <2>1 DEF allVars, codecVars, CodecTypeOK
<1> QED  BY <1>2, <1>3, <1>4, <1>5, <1>6, <1>7 DEF CodecNext

(* Over any number of Opens, Preflights and Closes every field keeps its   *)
(* type.                                                                   *)
THEOREM CodecTypeCorrect == CodecSpec => []CodecTypeOK
<1>1. CodecTypeOK /\ SlotOwnership /\ [CodecNext]_allVars
        => CodecTypeOK' /\ SlotOwnership'
  BY CodecNextType
<1> QED  BY <1>1, CodecInitType, PTL DEF CodecSpec

-----------------------------------------------------------------------------
(* Nothing is lost *)

(* An AVFrame waits only in a slot some record owns, and a context without *)
(* its codec exists only on an instance of an unsupported type.            *)
FramesHeld == \A s \in Slots : Holders(s) = {} => buffers[s].frame = NULL

FreedInv ==
  /\ FramesHeld
  /\ componentType # "other" => /\ haveContext => avCodec # NULL
                                /\ leaked = {}

(* A step on r alone that leaves the slots alone, and r its slot.          *)
LEMMA HeldKept ==
  ASSUME FramesHeld, buffers' = buffers,
         \A q \in Records : drp'[q].buffer = drp[q].buffer
  PROVE  FramesHeld'
<1>1. \A s \in Slots : Holders(s)' = Holders(s)
  BY DEF Holders
<1> QED  BY <1>1 DEF FramesHeld

LEMMA DecodeHeld ==
  ASSUME TypeOK, SlotOwnership, FramesHeld,
         NEW r \in Records, NEW s \in Slots \cup {NULL}, Decode(r, s),
         drp'[r].buffer = s, \A q \in Records \ {r} : drp'[q] = drp[q]
  PROVE  FramesHeld'
<1>1. drp[r].buffer = NULL
  BY DecodeSlot
<1>2. CASE s = NULL
  BY <1>1, <1>2, DecodeSlot, HeldKept
<1>3. CASE s # NULL
  <2>1. \A t \in Slots \ {s} : buffers'[t] = buffers[t]
    BY <1>3, DecodeSlot
  <2>2. ASSUME NEW t \in Slots, Holders(t)' = {}
        PROVE  buffers'[t].frame = NULL
    <3>1. t # s
      BY <2>2 DEF Holders
    <3>2. Holders(t) = {}
      BY <1>1, <2>2, SlotFacts DEF Holders
    <3> QED  BY <2>1, <3>1, <3>2 DEF FramesHeld
  <2> QED  BY <2>2 DEF FramesHeld
<1> QED  BY <1>2, <1>3

LEMMA EndBandHeld ==
  ASSUME TypeOK, SlotOwnership, FramesHeld, NEW r \in Records, EndBand(r)
  PROVE  FramesHeld'
<1> DEFINE s == drp[r].buffer
<1>1. \A q \in Records : drp'[q] = IF q = r THEN IdleRecord ELSE drp[q]
  BY DEF EndBand, TypeOK
<1>2. ASSUME NEW t \in Slots, Holders(t)' = {}
      PROVE  buffers'[t].frame = NULL
  <2>1. CASE t = s
    <3>1. buffers[s].retainCount = 1
      BY <2>1, SlotFacts DEF SlotOwnership
    <3>2. CASE buffers[s].frame = NULL
      BY <2>1, <3>2 DEF EndBand
    <3>3. CASE buffers[s].frame # NULL
      <4>1. buffers'[s] = Released(buffers[s])
        BY <2>1, <3>3, SlotFacts DEF EndBand, TypeOK
      <4> QED  BY <2>1, <3>1, <4>1 DEF Released, FreeBuffer
    <3> QED  BY <3>2, <3>3
  <2>2. CASE t # s
    <3>1. Holders(t) = {}
      BY <1>1, <1>2, <2>2 DEF Holders
    <3>2. buffers'[t] = buffers[t]
      BY <2>2 DEF EndBand, TypeOK
    <3> QED  BY <3>1, <3>2 DEF FramesHeld
  <2> QED  BY <2>1, <2>2
<1> QED  BY <1>2 DEF FramesHeld

LEMMA NextHeld ==
  ASSUME TypeOK, SlotOwnership, FramesHeld, Next
  PROVE  FramesHeld'
<1>1. ASSUME NEW r \in Records, NEW f \in Frame,
             BeginBand(r, f) \/ BeginBandDecoded(r, f)
      PROVE  FramesHeld'
  <2>1. buffers' = buffers /\ drp[r].buffer = NULL
    BY <1>1 DEF BeginBand, BeginBandDecoded, globVars, SlotOwnership
  <2>2. drp'[r].buffer = NULL /\ \A q \in Records \ {r} : drp'[q] = drp[q]
    <3>1. CASE BeginBand(r, f)
      BY <3>1 DEF BeginBand, IdleRecord, TypeOK
    <3>2. CASE BeginBandDecoded(r, f)
      BY <3>2 DEF BeginBandDecoded, IdleRecord, TypeOK
    <3> QED  BY <1>1, <3>1, <3>2
  <2> QED  BY <2>1, <2>2, HeldKept
<1>2. ASSUME NEW r \in Records, DecodeBand(r)
      PROVE  FramesHeld'
  <2>1. PICK s \in Slots \cup {NULL} :
          /\ Decode(r, s)
          /\ drp' = [drp EXCEPT ![r] = [@ EXCEPT !.decoded = TRUE, !.buffer = s]]
    BY <1>2 DEF DecodeBand
  <2>2. drp'[r].buffer = s /\ \A q \in Records \ {r} : drp'[q] = drp[q]
    BY <2>1 DEF TypeOK, DecompressRecord
  <2> QED  BY <2>1, <2>2, DecodeHeld
<1>3. ASSUME NEW r \in Records, NEW aligned \in Alignments, DrawBand(r, aligned)
      PROVE  FramesHeld'
  <2>1. PICK shown : drp' = [drp EXCEPT ![r] = [@ EXCEPT !.shown = shown]]
    BY <1>3 DEF DrawBand
  <2>2. buffers' = buffers /\ \A q \in Records : drp'[q].buffer = drp[q].buffer
    BY <1>3, <2>1 DEF DrawBand, TypeOK, DecompressRecord
  <2> QED  BY <2>2, HeldKept
<1>4. ASSUME NEW r \in Records, NEW aligned \in Alignments,
             DecodeAndDrawBand(r, aligned)
      PROVE  FramesHeld'
  <2>1. PICK s \in Slots \cup {NULL} :
          /\ Decode(r, s)
          /\ drp' = [drp EXCEPT ![r] =
                       [@ EXCEPT !.decoded = TRUE,
                                 !.buffer  = s,
                                 !.shown   = DrawnWith(colorConv',
                                               PictureIn(buffers', s), aligned,
                                               drp[r].shown)]]
    BY <1>4 DEF DecodeAndDrawBand
  <2>2. drp'[r].buffer = s /\ \A q \in Records \ {r} : drp'[q] = drp[q]
    BY <2>1 DEF TypeOK, DecompressRecord
  <2> QED  BY <2>1, <2>2, DecodeHeld
<1> QED  BY <1>1, <1>2, <1>3, <1>4, EndBandHeld DEF Next

LEMMA CodecNextFreed ==
  ASSUME CodecTypeOK, SlotOwnership, FreedInv, [CodecNext]_allVars
  PROVE  FreedInv'
<1>1. TypeOK /\ FramesHeld
  BY DEF CodecTypeOK, FreedInv
<1>2. CASE Open \/ (\E r \in Records : DecodeCrashes(r)) \/ UNCHANGED allVars
  <2>1. UNCHANGED <<vars, componentType, avCodec, haveContext, leaked>>
    BY <1>2 DEF Open, DecodeCrashes, allVars, codecVars
  <2>2. FramesHeld'
    BY <1>1, <2>1, HeldKept DEF vars, globVars
  <2> QED  BY <2>1, <2>2 DEF FreedInv
<1>3. CASE Preflight
  <2>1. FramesHeld' /\ componentType' = componentType
    BY <1>1, <1>3, HeldKept DEF Preflight
  <2>2. CASE PreflightAgain
    BY <2>1, <2>2 DEF PreflightAgain, FreedInv
  <2>3. CASE \E f \in KeyFrames \cup {NULL}, opens \in BOOLEAN : PreflightFirst(f, opens)
    <3>1. componentType # "other" => FindDecoder(getCodecID(componentType)) # NULL
      BY ComponentAssumption DEF CodecTypeOK, ComponentTypes, getCodecID, FindDecoder
    <3> QED  BY <2>1, <2>3, <3>1 DEF PreflightFirst, NeedsCodec, FreedInv
  <2> QED  BY <1>3, <2>2, <2>3 DEF Preflight
<1>4. ASSUME NEW r \in Records, Bands(r) \/ DecodingBands(r)
      PROVE  FreedInv'
  <2>1. FramesHeld'
    BY <1>1, <1>4, BandsAreNext, NextHeld
  <2> QED  BY <1>4, <2>1 DEF Bands, DecodingBands, codecVars, FreedInv
<1>5. CASE Close
  <2>1. \A s \in Slots : Holders(s) = {}
    BY <1>5, SlotFacts DEF Close, SlotOwnership, Holders
  <2>2. \A s \in Slots : buffers[s].frame = NULL
    BY <1>1, <2>1 DEF FramesHeld
  <2>3. FramesHeld'
    BY <1>5 DEF Close, FramesHeld, FreeBuffer
  <2> QED  BY <1>5, <2>2, <2>3 DEF Close, FreedInv
<1> QED  BY <1>2, <1>3, <1>4, <1>5 DEF CodecNext

(* Close frees what the instance still has, however often Preflight was    *)
(* repeated and whatever failed on the way: of an instance of a registered *)
(* type nothing is lost.                                                   *)
THEOREM Freed == CodecSpec => []ContextAndPicturesFreed
<1>1. CodecInit => CodecTypeOK /\ SlotOwnership /\ FreedInv
  <2>1. CodecInit => FreedInv
    BY DEF CodecInit, FreedInv, FramesHeld, FreeBuffer
  <2> QED  BY <2>1, CodecInitType
<1>2. CodecTypeOK /\ SlotOwnership /\ FreedInv /\ [CodecNext]_allVars
        => CodecTypeOK' /\ SlotOwnership' /\ FreedInv'
  BY CodecNextType, CodecNextFreed
<1>3. FreedInv => ContextAndPicturesFreed
  BY DEF FreedInv, ContextAndPicturesFreed
<1> QED  BY <1>1, <1>2, <1>3, PTL DEF CodecSpec

-----------------------------------------------------------------------------
(* The decoder is open when it is used *)

(* Bands run only on a decoder that is open and drained.  This needs a     *)
(* host that takes the error of a Preflight for an answer: a second one    *)
(* finds the codec, does not open it, and returns noErr.                   *)
SetUpInv ==
  /\ err = "noErr" => Drained(av) /\ avCodec # NULL
  /\ err = "none"  => avCodec = NULL
  /\ err # "noErr" => \A r \in Records : ~Begun(r)

ReadyInv == SetUpInv /\ instance # "crashed" /\ extradata # "dangling"

LEMMA BandPhases ==
  ASSUME TypeOK, NEW r \in Records, Bands(r) \/ DecodingBands(r),
         err # "noErr", \A q \in Records : ~Begun(q)
  PROVE  FALSE
<1>1. ~Begun(r) /\ ~Waiting(r)
  BY DEF Waiting
<1> QED
  BY <1>1 DEF Bands, DecodingBands, DrawBand, EndBand, DecodeBand,
     DecodeAndDrawBand, Decode

LEMMA CodecNextSetUp ==
  ASSUME CodecTypeOK, SetUpInv, [CodecNext]_allVars, ~RetriesPreflight
  PROVE  SetUpInv'
<1>1. TypeOK
  BY DEF CodecTypeOK
<1>2. CASE Open \/ (\E r \in Records : DecodeCrashes(r)) \/ UNCHANGED allVars
  <2>1. UNCHANGED <<av, drp, avCodec, err>>
    BY <1>2 DEF Open, DecodeCrashes, allVars, codecVars, vars, globVars
  <2> QED  BY <2>1 DEF SetUpInv, Begun
<1>3. CASE Preflight
  <2>1. err \in {"none", "noErr"}
    BY <1>3 DEF Preflight, CodecTypeOK
  <2>2. drp' = drp
    BY <1>3 DEF Preflight
  <2>3. CASE PreflightAgain
    BY <2>1, <2>2, <2>3 DEF PreflightAgain, NeedsCodec, SetUpInv, Begun
  <2>4. ASSUME NEW f \in KeyFrames \cup {NULL}, NEW opens \in BOOLEAN,
               PreflightFirst(f, opens)
        PROVE  SetUpInv'
    <3> DEFINE codecID == getCodecID(componentType)
    <3>1. err = "none" /\ \A r \in Records : ~Begun(r)
      BY <2>1, <2>4 DEF PreflightFirst, NeedsCodec, SetUpInv
    <3>2. /\ err' = IF opens THEN "noErr" ELSE "paramErr"
          /\ opens => codecID # NULL
          /\ avCodec' = FindDecoder(codecID)
      BY <2>4 DEF PreflightFirst, OpenResult
    <3>3. opens => codecID \in {"VP9", "AV1"} /\ avCodec' # NULL
      BY <3>2, ComponentAssumption DEF getCodecID, FindDecoder
    <3>4. PICK pf : opens => av' = OpenedContext(codecID, pf)
      BY <2>4 DEF PreflightFirst
    <3>5. opens => Drained(av')
      BY <3>3, <3>4, OpenedDrained
    <3> QED  BY <2>2, <3>1, <3>2, <3>3, <3>5 DEF SetUpInv, Begun
  <2> QED  BY <1>3, <2>3, <2>4 DEF Preflight
<1>4. ASSUME NEW r \in Records, Bands(r) \/ DecodingBands(r)
      PROVE  SetUpInv'
  <2>1. err = "noErr"
    BY <1>1, <1>4, BandPhases DEF SetUpInv
  <2>2. UNCHANGED <<avCodec, err>>
    BY <1>4 DEF Bands, DecodingBands, codecVars
  <2>3. DecoderInv'
    BY <1>1, <1>4, <2>1, BandsAreNext, NextDrained DEF SetUpInv, DecoderInv
  <2> QED  BY <2>1, <2>2, <2>3 DEF SetUpInv, DecoderInv
<1>5. CASE Close
  BY <1>5 DEF Close, SetUpInv, Begun
<1> QED  BY <1>2, <1>3, <1>4, <1>5 DEF CodecNext

LEMMA CodecNextReady ==
  ASSUME CodecTypeOK, ReadyInv, [CodecNext]_allVars,
         ~RetriesPreflight, ~HasExtradata, ~AllocMayFail
  PROVE  ReadyInv'
<1>1. SetUpInv'
  BY CodecNextSetUp DEF ReadyInv
<1>2. CASE Preflight
  BY <1>1, <1>2 DEF Preflight, PreflightAgain, PreflightFirst, ReadyInv
<1>3. ASSUME NEW r \in Records, DecodeCrashes(r)
      PROVE  FALSE
  BY <1>3 DEF DecodeCrashes, FlushesUnopened, Waiting, ReadyInv, SetUpInv, Drained
<1>4. CASE ~Preflight /\ ~(\E r \in Records : DecodeCrashes(r))
  BY <1>1, <1>4 DEF CodecNext, Open, Close, Bands, DecodingBands, allVars, codecVars,
     ReadyInv
<1> QED  BY <1>2, <1>3, <1>4

(* Without extradata to free twice, with memory for the temporaries and a  *)
(* host that does not repeat a failed Preflight, no sequence of component  *)
(* calls makes a decode or Close follow a bad pointer.                     *)
THEOREM NeverCrashes ==
  ASSUME ~RetriesPreflight, ~HasExtradata, ~AllocMayFail
  PROVE  CodecSpec => []NoCrash
<1>1. CodecInit => CodecTypeOK /\ SlotOwnership /\ ReadyInv
  <2>1. CodecInit => ReadyInv
    BY DEF CodecInit, ReadyInv, SetUpInv, IdleRecord, Begun
  <2> QED  BY <2>1, CodecInitType
<1>2. CodecTypeOK /\ SlotOwnership /\ ReadyInv /\ [CodecNext]_allVars
        => CodecTypeOK' /\ SlotOwnership' /\ ReadyInv'
  BY CodecNextType, CodecNextReady
<1>3. ReadyInv => NoCrash
  BY DEF ReadyInv, NoCrash
<1> QED  BY <1>1, <1>2, <1>3, PTL DEF CodecSpec

-----------------------------------------------------------------------------
(* Repeated Preflights *)

LEMMA FindDecoderKnown ==
  ASSUME NEW codecID \in {"VP9", "AV1"}
  PROVE  FindDecoder(codecID) # NULL
BY ComponentAssumption DEF FindDecoder

LEMMA getCodecIDType ==
  ASSUME NEW type, getCodecID(type) # NULL
  PROVE  getCodecID(type) \in {"VP9", "AV1"}
BY DEF getCodecID

(* An open decoder belongs to an instance that has its codec, so that      *)
(* Preflight does not set up another one.                                  *)
OpenInv == av.open => avCodec # NULL

LEMMA CodecNextOpen ==
  ASSUME CodecTypeOK, OpenInv, [CodecNext]_allVars
  PROVE  OpenInv'
<1>1. TypeOK
  BY DEF CodecTypeOK
<1>2. CASE Open \/ (\E r \in Records : DecodeCrashes(r)) \/ UNCHANGED allVars
  BY <1>2 DEF Open, DecodeCrashes, allVars, vars, globVars, codecVars, OpenInv
<1>3. CASE Preflight
  <2>1. CASE PreflightAgain
    BY <2>1 DEF PreflightAgain, OpenInv
  <2>2. ASSUME NEW f \in KeyFrames \cup {NULL}, NEW opens \in BOOLEAN,
               PreflightFirst(f, opens)
        PROVE  OpenInv'
    <3>1. opens => avCodec' # NULL
      BY <2>2, getCodecIDType, FindDecoderKnown DEF PreflightFirst
    <3>2. ~opens => ~av'.open
      BY <2>2 DEF PreflightFirst, AllocContext
    <3> QED  BY <3>1, <3>2 DEF OpenInv
  <2> QED  BY <1>3, <2>1, <2>2 DEF Preflight
<1>4. ASSUME NEW r \in Records, Bands(r) \/ DecodingBands(r)
      PROVE  OpenInv'
  <2>1. av'.open = av.open
    BY <1>1, <1>4, BandsAreNext, NextFormat
  <2>2. avCodec' = avCodec
    BY <1>4 DEF Bands, DecodingBands, codecVars
  <2> QED  BY <2>1, <2>2 DEF OpenInv
<1>5. CASE Close
  BY <1>5 DEF Close, AllocContext, OpenInv
<1> QED  BY <1>2, <1>3, <1>4, <1>5 DEF CodecNext

LEMMA PreflightHarmless ==
  ASSUME OpenInv, Preflight, av.open
  PROVE  UNCHANGED vars
<1>1. PreflightAgain
  BY DEF Preflight, PreflightFirst, NeedsCodec, OpenInv
<1> QED  BY <1>1 DEF Preflight, PreflightAgain, vars, globVars

(* A Preflight on an instance with an open decoder leaves the decoder's    *)
(* references and the pictures of all records alone, whenever it comes.    *)
THEOREM RepeatsHarmless == CodecSpec => RepeatedPreflightHarmless
<1>1. CodecInit => CodecTypeOK /\ SlotOwnership /\ OpenInv
  BY CodecInitType DEF CodecInit, OpenInv, AllocContext
<1>2. CodecTypeOK /\ SlotOwnership /\ OpenInv /\ [CodecNext]_allVars
        => CodecTypeOK' /\ SlotOwnership' /\ OpenInv'
  BY CodecNextType, CodecNextOpen
<1>3. OpenInv /\ [CodecNext]_allVars
        => [Preflight /\ av.open => UNCHANGED vars]_allVars
  BY PreflightHarmless
<1> QED  BY <1>1, <1>2, <1>3, PTL DEF CodecSpec, RepeatedPreflightHarmless

-----------------------------------------------------------------------------
(* The records' private places over the whole life of an instance *)

(* A call other than the band routines leaves the places alone: Close      *)
(* frees the slots only when no band is begun.                             *)
LEMMA StoreKept ==
  ASSUME drp' = drp, buffers' = buffers \/ \A r \in Records : ~Begun(r)
  PROVE  UNCHANGED Store!storeVars
<1>1. \A r \in Records : Place(r)' = Place(r) /\ DrawnPicture(r)' = DrawnPicture(r)
  BY DEF Place, DrawnPicture, Begun, PictureIn
<1> QED  BY <1>1 DEF Store!storeVars

LEMMA CodecNextStore ==
  ASSUME CodecTypeOK, SlotOwnership, [CodecNext]_allVars
  PROVE  [Store!StoreNext]_(Store!storeVars)
<1>1. TypeOK /\ TypeOK'
  BY CodecNextType DEF CodecTypeOK
<1>2. ASSUME NEW r \in Records, Bands(r) \/ DecodingBands(r)
      PROVE  [Store!StoreNext]_(Store!storeVars)
  <2>1. Next
    BY <1>2, BandsAreNext
  <2> QED  BY <1>1, <2>1, NextStore
<1>3. CASE Open \/ Preflight \/ (\E r \in Records : DecodeCrashes(r)) \/ UNCHANGED allVars
  <2>1. drp' = drp /\ buffers' = buffers
    BY <1>3 DEF Open, Preflight, DecodeCrashes, allVars, vars, globVars
  <2> QED  BY <2>1, StoreKept
<1>4. CASE Close
  BY <1>4, StoreKept DEF Close
<1> QED  BY <1>2, <1>3, <1>4 DEF CodecNext

(* The buffers keep every record's picture private over any number of      *)
(* Opens, Preflights and Closes, with every failure the model has: neither *)
(* a Preflight nor a failed allocation shows a record what another decoded.*)
THEOREM LifeImplementsStore == CodecSpec => StoreSpec
<1>1. CodecInit => CodecTypeOK /\ SlotOwnership /\ Store!StoreInit
  <2> SUFFICES ASSUME CodecInit PROVE CodecTypeOK /\ SlotOwnership /\ Store!StoreInit
    OBVIOUS
  <2>1. \A r \in Records : Place(r) = EMPTY /\ DrawnPicture(r) = EMPTY
    BY DEF CodecInit, IdleRecord, Place, DrawnPicture, Begun
  <2> QED  BY <2>1, CodecInitType DEF Store!StoreInit
<1>2. CodecTypeOK /\ SlotOwnership /\ [CodecNext]_allVars
        => /\ CodecTypeOK' /\ SlotOwnership'
           /\ [Store!StoreNext]_(Store!storeVars)
  BY CodecNextType, CodecNextStore
<1> QED  BY <1>1, <1>2, PTL DEF CodecSpec, StoreSpec, Store!StoreSpec

-----------------------------------------------------------------------------
(* What an instance shows over its whole life *)

(* A decoder that is open is drained: Preflight never leaves one that was  *)
(* fed by the probe of the first frame.                                    *)
OpenDrained == av.open => DecoderInv

LEMMA CodecNextPictures ==
  ASSUME CodecTypeOK, SlotOwnership, OpenDrained, PictureInv, [CodecNext]_allVars
  PROVE  OpenDrained' /\ PictureInv'
<1>1. TypeOK /\ TypeOK'
  BY CodecNextType DEF CodecTypeOK
<1>2. ASSUME NEW r \in Records, Bands(r) \/ DecodingBands(r)
      PROVE  OpenDrained' /\ PictureInv'
  <2>1. Next
    BY <1>2, BandsAreNext
  <2>2. PictureInv'
    BY <1>1, <2>1, NextPictures DEF OpenDrained
  <2>3. av'.open = av.open
    BY <1>1, <2>1, NextFormat
  <2>4. OpenDrained'
    BY <1>1, <2>1, <2>3, NextDrained DEF OpenDrained
  <2> QED  BY <2>2, <2>4
<1>3. CASE Open \/ (\E r \in Records : DecodeCrashes(r)) \/ UNCHANGED allVars
  <2>1. drp' = drp /\ buffers' = buffers /\ av' = av
    BY <1>3 DEF Open, DecodeCrashes, allVars, vars, globVars
  <2> QED
    BY <2>1 DEF OpenDrained, DecoderInv, PictureInv, SlotsHoldOwnPicture, ShowsNoOtherFrame
<1>4. CASE Preflight
  <2>1. drp' = drp /\ buffers' = buffers
    BY <1>4 DEF Preflight
  <2>2. PictureInv'
    BY <2>1 DEF PictureInv, SlotsHoldOwnPicture, ShowsNoOtherFrame
  <2>3. CASE PreflightAgain
    BY <2>2, <2>3 DEF PreflightAgain, OpenDrained, DecoderInv
  <2>4. ASSUME NEW f \in KeyFrames \cup {NULL}, NEW opens \in BOOLEAN,
               PreflightFirst(f, opens)
        PROVE  OpenDrained'
    <3>1. CASE opens
      <4>1. getCodecID(componentType) \in {"VP9", "AV1"}
        BY <2>4, <3>1, getCodecIDType DEF PreflightFirst
      <4>2. PICK pf : av' = OpenedContext(getCodecID(componentType), pf)
        BY <2>4, <3>1 DEF PreflightFirst
      <4> QED  BY <4>1, <4>2, OpenedDrained DEF OpenDrained, DecoderInv
    <3>2. CASE ~opens
      BY <2>4, <3>2 DEF PreflightFirst, AllocContext, OpenDrained
    <3> QED  BY <3>1, <3>2
  <2> QED  BY <1>4, <2>2, <2>3, <2>4 DEF Preflight
<1>5. CASE Close
  <2>1. \A r \in Records : drp[r].buffer = NULL
    BY <1>5 DEF Close, SlotOwnership
  <2> QED
    BY <1>5, <2>1 DEF Close, AllocContext, OpenDrained, PictureInv,
       SlotsHoldOwnPicture, ShowsNoOtherFrame
<1> QED  BY <1>2, <1>3, <1>4, <1>5 DEF CodecNext

(* No record is ever shown another record's picture, over any number of    *)
(* Opens, Preflights and Closes, whether the decoder opened or not.        *)
THEOREM LifeNoOtherFrame == CodecSpec => []ShowsNoOtherFrame
<1>1. CodecInit => CodecTypeOK /\ SlotOwnership /\ OpenDrained /\ PictureInv
  <2>1. CodecInit => OpenDrained /\ PictureInv
    BY DEF CodecInit, AllocContext, OpenDrained, PictureInv, SlotsHoldOwnPicture,
       ShowsNoOtherFrame, IdleRecord
  <2> QED  BY <2>1, CodecInitType
<1>2. CodecTypeOK /\ SlotOwnership /\ OpenDrained /\ PictureInv /\ [CodecNext]_allVars
        => CodecTypeOK' /\ SlotOwnership' /\ OpenDrained' /\ PictureInv'
  BY CodecNextType, CodecNextPictures
<1>3. PictureInv => ShowsNoOtherFrame
  BY DEF PictureInv
<1> QED  BY <1>1, <1>2, <1>3, PTL DEF CodecSpec

-----------------------------------------------------------------------------
(* Intact frames over the whole life of an instance *)

(* The queue of scheduled bands is empty whenever the decoder is not open. *)
QuietInv == err # "noErr" => scheduled = NULL

LEMMA EmptyQueue ==
  ASSUME QueueInv, \A r \in Records : ~Begun(r), drp' = drp, ahead' = ahead,
         scheduled' = NULL
  PROVE  QueueInv'
<1>1. \A r \in Records : ~Waiting(r) /\ ~Waiting(r)' /\ ahead[r] = {}
  BY DEF Waiting, Begun, QueueInv, OrderInv
<1> QED  BY <1>1 DEF QueueInv, OrderInv, ChainInv, TailInv

LEMMA NothingShown ==
  ASSUME SlotOwnership, IntactInv, \A r \in Records : ~Begun(r), drp' = drp
  PROVE  IntactInv'
<1>1. \A r \in Records : drp[r].buffer = NULL
  BY DEF SlotOwnership
<1> QED  BY <1>1 DEF IntactInv, Intact

LEMMA CodecNextIntact ==
  ASSUME CodecTypeOK, SlotOwnership, SetUpInv, QuietInv, QueueInv, IntactInv,
         [CodecNext]_allVars, ~RetriesPreflight, ~AllocMayFail
  PROVE  QuietInv' /\ QueueInv' /\ IntactInv'
<1>1. TypeOK
  BY DEF CodecTypeOK
<1>2. CASE Open \/ (\E r \in Records : DecodeCrashes(r)) \/ UNCHANGED allVars
  <2>1. UNCHANGED vars /\ err' = err
    BY <1>2 DEF Open, DecodeCrashes, allVars, codecVars
  <2>2. QueueInv'
    BY <1>1, <2>1, QueueKept DEF vars, globVars, SameQueue, Waiting, Begun
  <2> QED  BY <2>1, <2>2 DEF vars, globVars, QuietInv, IntactInv, Intact
<1>3. CASE Preflight
  <2>1. err \in {"none", "noErr"} /\ UNCHANGED <<buffers, drp, ahead, scheduled>>
        /\ UNCHANGED <<lastFrame, lastIFrame>>
    BY <1>3 DEF Preflight, CodecTypeOK
  <2>2. CASE err = "noErr"
    <3>1. av' = av /\ err' = err
      BY <1>3, <2>2 DEF Preflight, PreflightFirst, PreflightAgain, NeedsCodec, SetUpInv
    <3>2. QueueInv'
      BY <1>1, <2>1, <3>1, QueueKept DEF SameQueue, Waiting, Begun
    <3> QED  BY <2>1, <3>1, <3>2 DEF QuietInv, IntactInv, Intact
  <2>3. CASE err = "none"
    <3>1. scheduled = NULL /\ \A r \in Records : ~Begun(r)
      BY <2>3 DEF SetUpInv, QuietInv
    <3> QED  BY <2>1, <3>1, EmptyQueue, NothingShown DEF QuietInv
  <2> QED  BY <2>1, <2>2, <2>3
<1>4. ASSUME NEW r \in Records, Bands(r) \/ DecodingBands(r)
      PROVE  QuietInv' /\ QueueInv' /\ IntactInv'
  <2>1. err = "noErr"
    BY <1>1, <1>4, BandPhases DEF SetUpInv
  <2>2. Next /\ err' = err /\ DecoderInv
    BY <1>4, <2>1, BandsAreNext DEF Bands, DecodingBands, codecVars, SetUpInv, DecoderInv
  <2> QED  BY <1>1, <2>1, <2>2, NextQueue, NextIntact DEF QuietInv
<1>5. CASE Close
  BY <1>5, EmptyQueue, NothingShown DEF Close, QuietInv
<1> QED  BY <1>2, <1>3, <1>4, <1>5 DEF CodecNext

(* No flicker to black over any number of Opens, Preflights and Closes: a  *)
(* Preflight between two bands, or a component closed and opened again in  *)
(* the middle of a group of pictures, costs no intact frame its picture.   *)
(* The host must take an error of Preflight for an answer: a decoder that  *)
(* a second Preflight only claims to have opened shows every frame black.  *)
THEOREM LifeIntactShown ==
  ASSUME ~RetriesPreflight, ~AllocMayFail
  PROVE  CodecSpec => []IntactFramesShown
<1> DEFINE Inv == /\ CodecTypeOK /\ SlotOwnership /\ SetUpInv
                  /\ QuietInv /\ QueueInv /\ IntactInv
<1>1. CodecInit => Inv
  <2> SUFFICES ASSUME CodecInit PROVE Inv
    OBVIOUS
  <2>1. \A r \in Records : ~Begun(r) /\ ~Waiting(r) /\ ahead[r] = {}
    BY DEF CodecInit, Waiting, Begun, IdleRecord
  <2>2. QueueInv
    BY <2>1 DEF CodecInit, QueueInv, OrderInv, ChainInv, TailInv
  <2>3. SetUpInv /\ QuietInv /\ IntactInv
    BY <2>1 DEF CodecInit, SetUpInv, QuietInv, IntactInv, Intact, IdleRecord
  <2> QED  BY <2>2, <2>3, CodecInitType
<1>2. Inv /\ [CodecNext]_allVars => Inv'
  BY CodecNextType, CodecNextSetUp, CodecNextIntact
<1>3. Inv => IntactFramesShown
  BY DEF IntactInv, Intact, IntactFramesShown
<1> QED  BY <1>1, <1>2, <1>3, PTL DEF CodecSpec

-----------------------------------------------------------------------------
(* The layout of what is drawn *)

(* The formats of video that is drawn as '2vuy'.                           *)
Yuv == {"NONE", "YUV420P", "YUV420P10LE", "YUV422P", "GRAY8"}

LEMMA YuvFacts ==
  ASSUME NEW pf \in PixFmt, ColorConversionDstForPixFmt(pf) = "k2vuy"
  PROVE  pf \in Yuv
BY DEF PixFmt, Yuv, ColorConversionDstForPixFmt

LEMMA YuvLayout ==
  ASSUME NEW pf \in Yuv
  PROVE  /\ ColorConversionDstForPixFmt(pf) = "k2vuy"
         /\ pf \notin Unconvertible =>
              /\ Layout(ClearFor(pf)) = "k2vuy"
              /\ \A aligned \in BOOLEAN : Layout(ConvertFor(pf, aligned)) = "k2vuy"
<1>1. ColorConversionDstForPixFmt(pf) = "k2vuy"
  BY DEF Yuv, ColorConversionDstForPixFmt
<1>2. CASE pf \notin Unconvertible
  <2>1. ClearFor(pf) = "ClearY422"
    BY <1>2 DEF Yuv, Unconvertible, ClearFor
  <2>2. \A aligned \in BOOLEAN :
          ConvertFor(pf, aligned) \in {"Y420toY422_sse2", "Y420toY422_x86_scalar",
                                       "Y420_10toY422_8_sse2", "Y420_10toY422_8",
                                       "Y422toY422"}
    BY <1>2 DEF Yuv, Unconvertible, ConvertFor
  <2> QED  BY <1>1, <2>1, <2>2 DEF Layout
<1> QED  BY <1>1, <1>2

(* Before Preflight succeeds no band is begun, nothing is drawn and no     *)
(* layout is wanted; afterwards everything is '2vuy'.                      *)
LayoutInv ==
  /\ av.pix_fmt \in Yuv
  /\ \A f \in {colorConv.clear, colorConv.convert} : f # NULL => Layout(f) = "k2vuy"
  /\ \A r \in Records : /\ Begun(r) => err = "noErr"
                        /\ drp[r].shown # NULL => /\ Begun(r)
                                                  /\ Layout(drp[r].shown.by) = "k2vuy"
  /\ err = "noErr" => wanted = "k2vuy" /\ avCodec # NULL

LEMMA BandsLayout ==
  ASSUME TypeOK, TypeOK', LayoutInv, NEW r \in Records, Bands(r) \/ DecodingBands(r),
         \A f \in Frame : PixFmtOf[f] \in Yuv
  PROVE  LayoutInv'
<1>1. Next
  BY BandsAreNext
<1>2. av'.pix_fmt \in Yuv
  BY <1>1, NextFormat DEF LayoutInv
<1>3. UNCHANGED <<err, wanted, avCodec>>
  BY DEF Bands, DecodingBands, codecVars
<1>4. err = "noErr"
  <2>1. Begun(r) => err = "noErr"
    BY DEF LayoutInv
  <2> QED
    BY <2>1 DEF Bands, DecodingBands, DrawBand, EndBand, DecodeBand,
       DecodeAndDrawBand, Decode, Waiting
<1>5. CASE DrawsNothing
  BY <1>2, <1>3, <1>4, <1>5 DEF DrawsNothing, LayoutInv, Begun
<1>6. ASSUME NEW q \in Records, NEW p \in Picture \cup {NULL},
             NEW aligned \in Alignments, Draws(q, p, aligned)
      PROVE  LayoutInv'
  <2> DEFINE have == p # NULL
             found == ColorConversionFindFor(colorConv, av'.pix_fmt, have, aligned)
  <2>1. \A f \in {found.clear, found.convert} : f # NULL => Layout(f) = "k2vuy"
    <3>1. CASE av'.pix_fmt \in Unconvertible
      BY <3>1 DEF ColorConversionFindFor, LayoutInv
    <3>2. CASE av'.pix_fmt \notin Unconvertible
      <4>1. (have /\ aligned) \in BOOLEAN
        BY BandsAssumption
      <4>2. /\ Layout(ClearFor(av'.pix_fmt)) = "k2vuy"
            /\ Layout(ConvertFor(av'.pix_fmt, have /\ aligned)) = "k2vuy"
        BY <1>2, <3>2, <4>1, YuvLayout
      <4>3. /\ found.clear = ClearFor(av'.pix_fmt)
            /\ found.convert \in {ConvertFor(av'.pix_fmt, have /\ aligned),
                                  colorConv.convert}
        BY <3>2 DEF ColorConversionFindFor
      <4> HIDE DEF found
      <4> QED  BY <4>2, <4>3 DEF LayoutInv
    <3> QED  BY <3>1, <3>2
  <2>2. colorConv' = colorConv \/ colorConv' = found
    BY <1>6 DEF Draws, FuncsToDraw
  <2> HIDE DEF found
  <2>3. \A f \in {colorConv'.clear, colorConv'.convert} :
          f # NULL => Layout(f) = "k2vuy"
    BY <2>1, <2>2 DEF LayoutInv
  <2>4. drp'[q].shown # NULL => Layout(drp'[q].shown.by) = "k2vuy"
    <3>1. CASE drp'[q].shown = drp[q].shown
      BY <3>1 DEF LayoutInv
    <3>2. CASE drp'[q].shown # drp[q].shown
      <4>1. /\ drp'[q].shown.by \in {colorConv'.clear, colorConv'.convert}
            /\ drp'[q].shown.by # NULL
        BY <1>6, <3>2 DEF Draws, DrawnWith
      <4> QED  BY <2>3, <4>1
    <3> QED  BY <3>1, <3>2
  <2>5. Begun(q)'
    BY <1>6 DEF Draws, Begun
  <2> QED
    BY <1>2, <1>3, <1>4, <1>6, <2>3, <2>4, <2>5 DEF Draws, LayoutInv, Begun
<1> QED  BY <1>1, <1>5, <1>6, NextDraws

LEMMA CodecNextLayout ==
  ASSUME CodecTypeOK, CodecTypeOK', LayoutInv, [CodecNext]_allVars,
         \A f \in Frame : PixFmtOf[f] \in Yuv
  PROVE  LayoutInv'
<1>1. TypeOK /\ TypeOK'
  BY DEF CodecTypeOK
<1>2. CASE Open \/ (\E r \in Records : DecodeCrashes(r)) \/ UNCHANGED allVars
  <2>1. UNCHANGED <<av, colorConv, drp, err, wanted, avCodec>>
    BY <1>2 DEF Open, DecodeCrashes, allVars, vars, globVars, codecVars
  <2> QED  BY <2>1 DEF LayoutInv, Begun
<1>3. CASE Preflight
  <2>1. UNCHANGED <<colorConv, drp>>
    BY <1>3 DEF Preflight
  <2>2. av'.pix_fmt \in Yuv => ColorConversionDstForPixFmt(av'.pix_fmt) = "k2vuy"
    BY YuvLayout
  <2>3. CASE PreflightAgain
    BY <1>3, <2>1, <2>2, <2>3
       DEF Preflight, PreflightAgain, NeedsCodec, LayoutInv, Begun
  <2>4. ASSUME NEW f \in KeyFrames \cup {NULL}, NEW opens \in BOOLEAN,
               PreflightFirst(f, opens)
        PROVE  LayoutInv'
    <3> DEFINE pf == IF opens /\ f # NULL THEN FindPixFmtFromVideo(f) ELSE "NONE"
               codecID == getCodecID(componentType)
    <3>1. err # "noErr"
      BY <2>4 DEF PreflightFirst, NeedsCodec, LayoutInv
    <3>2. pf \in Yuv
      <4>1. ASSUME f \in Frame
            PROVE  FindPixFmtFromVideo(f) \in Yuv
        <5> DEFINE probe == [AllocContext EXCEPT !.open = TRUE]
        <5>1. probe \in AVCodecContext /\ probe.pix_fmt \in Yuv
          BY AllocContextType DEF AVCodecContext, AllocContext, Yuv
        <5> HIDE DEF probe
        <5>2. FFusionDecompress(probe, f).ctx.pix_fmt \in Yuv
          BY <4>1, <5>1, DecompressFormat
        <5> QED  BY <5>2 DEF FindPixFmtFromVideo, probe, Yuv
      <4> QED  BY <4>1, FrameFacts DEF Yuv
    <3>3. av' = IF opens THEN OpenedContext(codecID, pf) ELSE AllocContext
      BY <2>4 DEF PreflightFirst
    <3>4. av'.pix_fmt \in Yuv
      <4> HIDE DEF pf, codecID
      <4> QED  BY <3>2, <3>3 DEF OpenedContext, AllocContext, Yuv
    <3>5. err' = "noErr" => avCodec' # NULL
      BY <2>4, getCodecIDType, FindDecoderKnown DEF PreflightFirst, OpenResult
    <3>6. err' = "noErr" => wanted' = "k2vuy"
      BY <1>3, <2>2, <3>4 DEF Preflight
    <3> QED  BY <2>1, <3>1, <3>4, <3>5, <3>6 DEF LayoutInv, Begun
  <2> QED  BY <1>3, <2>3, <2>4 DEF Preflight
<1>4. ASSUME NEW r \in Records, Bands(r) \/ DecodingBands(r)
      PROVE  LayoutInv'
  BY <1>1, <1>4, BandsLayout
<1>5. CASE Close
  BY <1>5 DEF Close, AllocContext, NoFuncs, LayoutInv, Begun, Yuv
<1> QED  BY <1>2, <1>3, <1>4, <1>5 DEF CodecNext

(* Every draw writes the layout Preflight asked QuickTime for, whatever    *)
(* Preflight knew of the stream, when its frames are 4:2:0 or 4:2:2 video: *)
(* '2vuy' is what Preflight asks for when it has to guess.                 *)
THEOREM LayoutRight ==
  ASSUME \A f \in Frame : ColorConversionDstForPixFmt(PixFmtOf[f]) = "k2vuy"
  PROVE  CodecSpec => []DestinationFits
<1>1. \A f \in Frame : PixFmtOf[f] \in Yuv
  BY YuvFacts, StreamAssumption
<1>2. CodecInit => CodecTypeOK /\ SlotOwnership /\ LayoutInv
  <2>1. CodecInit => LayoutInv
    BY DEF CodecInit, AllocContext, NoFuncs, IdleRecord, Begun, LayoutInv, Yuv
  <2> QED  BY <2>1, CodecInitType
<1>3. CodecTypeOK /\ SlotOwnership /\ LayoutInv /\ [CodecNext]_allVars
        => CodecTypeOK' /\ SlotOwnership' /\ LayoutInv'
  BY <1>1, CodecNextType, CodecNextLayout
<1>4. LayoutInv => DestinationFits
  BY DEF LayoutInv, DestinationFits
<1> QED  BY <1>2, <1>3, <1>4, PTL DEF CodecSpec

=============================================================================
