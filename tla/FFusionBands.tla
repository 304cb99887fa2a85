---------------------------- MODULE FFusionBands ----------------------------
(***************************************************************************)
(* The band routines of FFusionCodec.c on a component whose Preflight has  *)
(* opened the decoder.  QuickTime's base image decompressor keeps several  *)
(* decompress records in use at once; for each it calls                    *)
(*                                                                         *)
(*    BeginBand     in decode order, possibly several ahead,               *)
(*    DecodeBand    perhaps, in decode order,                              *)
(*    DrawBand      perhaps, which decodes a record not decoded yet,       *)
(*    EndBand       always, even when the band was never decoded.          *)
(*                                                                         *)
(* The decoded picture of a record waits in one of the component's         *)
(* FFUSION_MAX_BUFFERS frame buffers between its decode and its end.       *)
(***************************************************************************)
EXTENDS DecoderSetup, Integers, FiniteSets

CONSTANTS
  Records,       \* decompress records of the base image decompressor
  MaxBuffers,    \* FFUSION_MAX_BUFFERS
  AllocMayFail,  \* whether a decode may lack the memory to keep its picture
  Alignments,    \* whether the destinations drawn to are 16-byte aligned
  EMPTY,         \* an AVFrame that holds no picture
  BLACK          \* what a draw without a picture shows

(* What a draw showed: a picture or black, the converter that wrote it,    *)
(* and whether the destination was aligned.                                *)
Shown == [picture : Picture \cup {BLACK}, by : Clears \cup Converts,
          aligned : BOOLEAN]

ASSUME BandsAssumption ==
  /\ MaxBuffers \in Nat \ {0}
  /\ AllocMayFail \in BOOLEAN
  /\ Alignments \subseteq BOOLEAN
  /\ EMPTY \notin Picture \cup {NULL}
  /\ BLACK \notin Picture \cup {NULL, EMPTY}
  /\ NULL \notin Shown

Slots == 0 .. MaxBuffers - 1

VARIABLES
  av,                   \* *glob->avContext
  buffers,              \* glob->buffers
  lastAllocatedBuffer,  \* glob->lastAllocatedBuffer
  lastIFrame,           \* glob->begin.lastIFrame
  lastFrame,            \* glob->decode.lastFrame
  colorConv,            \* glob->colorConv
  drp,                  \* the decompress records
  ahead,                \* undecoded records begun before each record
  scheduled             \* the frame the base decompressor scheduled last

globVars == <<av, buffers, lastAllocatedBuffer, lastIFrame, lastFrame, colorConv>>
vars == <<globVars, drp, ahead, scheduled>>

-----------------------------------------------------------------------------
(* FFusionBuffer and FFusionDecompressRecord.                              *)
Buffer == [frame : Picture \cup {NULL, EMPTY}, retainCount : Nat,
           frameNumber : Frame]

(* phase belongs to the base decompressor; already is the record's         *)
(* icmFrameAlreadyDecoded flag, copied to decoded by BeginBand.            *)
DecompressRecord ==
  [phase : {"idle", "begun"}, already : BOOLEAN, decoded : BOOLEAN,
   frameNumber : Frame, GOPStartFrameNumber : Frame,
   buffer : Slots \cup {NULL}, shown : Shown \cup {NULL}]

FreeBuffer == [frame |-> NULL, retainCount |-> 0, frameNumber |-> 0]

IdleRecord ==
  [phase |-> "idle", already |-> FALSE, decoded |-> FALSE, frameNumber |-> 0,
   GOPStartFrameNumber |-> 0, buffer |-> NULL, shown |-> NULL]

(* Preflight has opened the decoder; it learned the pixel format from the  *)
(* first frame's data if QuickTime passed any.                             *)
Init ==
  /\ \E codecID \in {"VP9", "AV1"}, pf \in {"NONE", PixFmtOf[0]} :
       av = OpenedContext(codecID, pf)
  /\ buffers = [s \in Slots |-> FreeBuffer]
  /\ lastAllocatedBuffer = 0
  /\ lastIFrame = 0
  /\ lastFrame = 0
  /\ colorConv = NoFuncs
  /\ drp = [r \in Records |-> IdleRecord]
  /\ ahead = [r \in Records |-> {}]
  /\ scheduled = NULL

Begun(r)   == drp[r].phase = "begun"
Waiting(r) == Begun(r) /\ ~drp[r].decoded

-----------------------------------------------------------------------------
(***************************************************************************)
(* What the base decompressor asks for: a key frame at any time, or the    *)
(* frame that follows the one scheduled last, skipping droppable ones; or  *)
(* once more a frame it knows to be decoded.                               *)
(***************************************************************************)
MayFollow(f) ==
  \/ f \in KeyFrames
  \/ /\ scheduled # NULL
     /\ scheduled < f
     /\ RefOf(f) = IF scheduled \in Droppable THEN RefOf(scheduled) ELSE scheduled

KnownDecoded(f) ==
  \E q \in Records : /\ Begun(q) /\ drp[q].decoded /\ ~drp[q].already
                     /\ drp[q].frameNumber = f

(* FFusionCodecBeginBand for a frame to be decoded *)
BeginBand(r, f) ==
  /\ ~Begun(r)
  /\ MayFollow(f)
  /\ lastIFrame' = IF f \in KeyFrames THEN f ELSE lastIFrame
  /\ drp' = [drp EXCEPT ![r] =
               [IdleRecord EXCEPT !.phase = "begun",
                                  !.frameNumber = f,
                                  !.GOPStartFrameNumber = lastIFrame']]
  /\ ahead' = [ahead EXCEPT ![r] = {q \in Records : Waiting(q)}]
  /\ scheduled' = f
  /\ UNCHANGED <<av, buffers, lastAllocatedBuffer, lastFrame, colorConv>>

(* FFusionCodecBeginBand for a frame flagged icmFrameAlreadyDecoded: only  *)
(* the frame number is noted, no buffer is looked up.                      *)
BeginBandDecoded(r, f) ==
  /\ ~Begun(r)
  /\ KnownDecoded(f)
  /\ drp' = [drp EXCEPT ![r] =
               [IdleRecord EXCEPT !.phase = "begun",
                                  !.already = TRUE,
                                  !.decoded = TRUE,
                                  !.frameNumber = f]]
  /\ UNCHANGED <<globVars, ahead, scheduled>>

-----------------------------------------------------------------------------
(* A faulty test: flush at every discontinuity, dropped frames included.   *)
FlushAtEveryGap(r) == drp[r].frameNumber # lastFrame + 1

(* The decoder must be flushed when playback jumps to a key frame, into    *)
(* another group of pictures, or backwards; not when frames were dropped.  *)
FlushNeeded(r) ==
  LET d == drp[r]
  IN  /\ d.frameNumber # lastFrame + 1
      /\ \/ d.frameNumber \in KeyFrames
         \/ d.GOPStartFrameNumber > lastFrame
         \/ d.frameNumber < lastFrame

(* FFusionDecompress: one packet in, at most one picture out, both results *)
(* ignored.                                                                *)
FFusionDecompress(ctx, f) == ReceiveFrame(SendPacket(ctx, f))

Decompressed(r) ==
  FFusionDecompress(IF FlushNeeded(r) THEN FlushBuffers(av) ELSE av,
                    drp[r].frameNumber)

(* Faulty searches: every slot, or every slot without an AVFrame, is taken *)
(* to be free.                                                             *)
AllSlots       == Slots
FramelessSlots == {s \in Slots : buffers[s].frame = NULL}

(* The search for a free slot starts after the one allocated last.         *)
FreeSlots   == {s \in Slots : buffers[s].retainCount = 0}
Distance(s) == (s + MaxBuffers - ((lastAllocatedBuffer + 1) % MaxBuffers)) % MaxBuffers
NextFree(s) == s \in FreeSlots /\ \A t \in FreeSlots : Distance(s) <= Distance(t)

(* The slot a decode of r stores into: its own, a free one, or none.       *)
SlotFor(r, s) ==
  IF drp[r].buffer # NULL THEN s = drp[r].buffer
  ELSE IF FreeSlots = {} THEN s = NULL
  ELSE NextFree(s)

(* A faulty store: the slot is used but not counted as used.               *)
StoredUncounted(r, s, p, allocated) ==
  [frame       |-> IF p = NULL THEN EMPTY ELSE p,
   retainCount |-> buffers[s].retainCount,
   frameNumber |-> drp[r].frameNumber]

(* Slot s once the decoded picture p of record r is stored there; without  *)
(* memory for an AVFrame the slot is taken but stays without a frame.      *)
Stored(r, s, p, allocated) ==
  [frame       |-> IF buffers[s].frame = NULL /\ ~allocated THEN NULL
                   ELSE IF p = NULL THEN EMPTY ELSE p,
   retainCount |-> IF drp[r].buffer = NULL THEN 1 ELSE buffers[s].retainCount,
   frameNumber |-> IF drp[r].buffer = NULL THEN drp[r].frameNumber
                   ELSE buffers[s].frameNumber]

(* What av_frame_ref leaves of picture p in the slot's frame.              *)
ReferencesTo(p) == IF AllocMayFail THEN {p, NULL} ELSE {p}

(* The effect of FFusionCodecDecodeBand on everything but the record. *)
Decode(r, s) ==
  /\ Waiting(r)
  /\ ahead[r] = {}
  /\ SlotFor(r, s)
  /\ av' = Decompressed(r).ctx
  /\ \E allocated \in {TRUE, ~AllocMayFail},
        p \in ReferencesTo(Decompressed(r).frame) :
       buffers' = IF s = NULL THEN buffers
                  ELSE [buffers EXCEPT ![s] = Stored(r, s, p, allocated)]
  /\ lastAllocatedBuffer' = IF drp[r].buffer = NULL /\ s # NULL THEN s
                            ELSE lastAllocatedBuffer
  /\ lastFrame' = drp[r].frameNumber
  /\ ahead' = [q \in Records |-> ahead[q] \ {r}]
  /\ UNCHANGED <<lastIFrame, scheduled>>

(* FFusionCodecDecodeBand *)
DecodeBand(r) ==
  \E s \in Slots \cup {NULL} :
    /\ Decode(r, s)
    /\ drp' = [drp EXCEPT ![r] = [@ EXCEPT !.decoded = TRUE, !.buffer = s]]
    /\ UNCHANGED colorConv

-----------------------------------------------------------------------------
(* The picture in slot s of bufs, NULL when there is none to show. *)
PictureIn(bufs, s) ==
  IF s # NULL /\ bufs[s].frame \in Picture THEN bufs[s].frame ELSE NULL

(* colorConv once a draw has looked up what it lacks.                      *)
FuncsToDraw(p, pf, aligned) ==
  IF (p = NULL /\ colorConv.clear = NULL) \/ (p # NULL /\ colorConv.convert = NULL)
  THEN ColorConversionFindFor(colorConv, pf, p # NULL, aligned)
  ELSE colorConv

(* What a draw shows with these functions: the picture converted, or       *)
(* black; the old contents of the destination when no function was found.  *)
DrawnWith(funcs, p, aligned, old) ==
  LET f == IF p = NULL THEN funcs.clear ELSE funcs.convert
  IN  IF f = NULL THEN old
      ELSE [picture |-> IF p = NULL THEN BLACK ELSE p,
            by      |-> f,
            aligned |-> aligned]

(* FFusionCodecDrawBand on a record that has been decoded *)
DrawBand(r, aligned) ==
  LET p == PictureIn(buffers, drp[r].buffer)
  IN  /\ Begun(r) /\ drp[r].decoded
      /\ colorConv' = FuncsToDraw(p, av.pix_fmt, aligned)
      /\ drp' = [drp EXCEPT ![r] =
                   [@ EXCEPT !.shown = DrawnWith(colorConv', p, aligned, drp[r].shown)]]
      /\ UNCHANGED <<av, buffers, lastAllocatedBuffer, lastIFrame, lastFrame,
                     ahead, scheduled>>

(* FFusionCodecDrawBand on a record that has not: it is decoded first *)
DecodeAndDrawBand(r, aligned) ==
  \E s \in Slots \cup {NULL} :
    LET p == PictureIn(buffers', s)
    IN  /\ Decode(r, s)
        /\ colorConv' = FuncsToDraw(p, av'.pix_fmt, aligned)
        /\ drp' = [drp EXCEPT ![r] =
                     [@ EXCEPT !.decoded = TRUE,
                               !.buffer  = s,
                               !.shown   = DrawnWith(colorConv', p, aligned,
                                                     drp[r].shown)]]

-----------------------------------------------------------------------------
(* Faulty releases: the AVFrame is not freed, or the count not lowered.    *)
ReleasedWithFrame(b) == [b EXCEPT !.retainCount = @ - 1]
ReleasedCounted(b)   == [b EXCEPT !.frame = NULL]

(* releaseBuffer *)
Released(b) ==
  IF b.retainCount = 1 THEN FreeBuffer ELSE [b EXCEPT !.retainCount = @ - 1]

(* A band the base decompressor gives up before decoding: a droppable      *)
(* frame at any time, any other frame only when nothing scheduled after it *)
(* is still to be decoded, and playback then resumes at a key frame.       *)
MayTerminate(r) ==
  \/ drp[r].frameNumber \in Droppable
  \/ \A q \in Records : r \notin ahead[q]

(* FFusionCodecEndBand *)
EndBand(r) ==
  LET s == drp[r].buffer
  IN  /\ Begun(r)
      /\ Waiting(r) => MayTerminate(r)
      /\ buffers' = IF s # NULL /\ buffers[s].frame # NULL
                    THEN [buffers EXCEPT ![s] = Released(@)]
                    ELSE buffers
      /\ drp' = [drp EXCEPT ![r] = IdleRecord]
      /\ ahead' = [q \in Records |-> IF q = r THEN {} ELSE ahead[q] \ {r}]
      /\ scheduled' = IF Waiting(r) /\ drp[r].frameNumber \notin Droppable
                      THEN NULL ELSE scheduled
      /\ UNCHANGED <<av, lastAllocatedBuffer, lastIFrame, lastFrame, colorConv>>

-----------------------------------------------------------------------------
Next ==
  \E r \in Records :
    \/ \E f \in Frame : BeginBand(r, f) \/ BeginBandDecoded(r, f)
    \/ DecodeBand(r)
    \/ \E aligned \in Alignments : DrawBand(r, aligned) \/ DecodeAndDrawBand(r, aligned)
    \/ EndBand(r)

Spec == Init /\ [][Next]_vars

-----------------------------------------------------------------------------
(* Properties *)

(* Every variable has its type: in particular the slot index a record      *)
(* keeps, and the frame each slot holds, stay within their ranges over     *)
(* every order of band calls.                                              *)
TypeOK ==
  /\ av \in AVCodecContext
  /\ buffers \in [Slots -> Buffer]
  /\ lastAllocatedBuffer \in Slots
  /\ lastIFrame \in Frame
  /\ lastFrame \in Frame
  /\ colorConv \in ColorConversionFuncs
  /\ drp \in [Records -> DecompressRecord]
  /\ ahead \in [Records -> SUBSET Records]
  /\ scheduled \in Frame \cup {NULL}

Holders(s) == {r \in Records : drp[r].buffer = s}

(* The search in DecodeBand and the release in EndBand agree on who owns a *)
(* slot: no two records ever share one, a record that owns one counts      *)
(* exactly once in its retainCount, and only records this component has    *)
(* decoded itself, and whose band has not ended, own slots.                *)
SlotOwnership ==
  /\ \A r, q \in Records :
       drp[r].buffer # NULL /\ drp[r].buffer = drp[q].buffer => r = q
  /\ \A r \in Records : drp[r].buffer # NULL =>
       /\ Begun(r) /\ drp[r].decoded
       /\ buffers[drp[r].buffer].retainCount = 1
  /\ \A r \in Records : drp[r].already => drp[r].decoded /\ drp[r].buffer = NULL

(* EndBand gives every slot back: a slot no record holds is free and has   *)
(* no AVFrame left.  Fails when av_frame_alloc fails in DecodeBand, whose  *)
(* slot EndBand does not release.                                          *)
NoSlotLeak ==
  \A s \in Slots : Holders(s) = {} => buffers[s] = FreeBuffer

(* A frame whose packet, or that of a frame it depends on, is undecodable. *)
Damaged(f) ==
  \E u \in Undecodable :
    /\ u <= f
    /\ u = f \/ u \notin Droppable
    /\ \A k \in KeyFrames : ~(u < k /\ k <= f)

(* The decoder and the buffers together never show a record the picture of *)
(* another frame, whatever is flushed, dropped or drawn out of order: a    *)
(* draw shows the frame asked for, black, or that frame decoded wrongly.   *)
ShowsNoOtherFrame ==
  \A r \in Records : drp[r].shown # NULL =>
    drp[r].shown.picture \in {BLACK, GARBLED, drp[r].frameNumber}

(* No flicker to black: a band that found a free slot shows the very       *)
(* picture asked for whenever the stream is intact, across seeks, dropped  *)
(* frames, abandoned bands, bands decoded without a slot and whatever the  *)
(* flush test decides.                                                     *)
IntactFramesShown ==
  \A r \in Records :
    drp[r].shown # NULL /\ drp[r].buffer # NULL /\ ~Damaged(drp[r].frameNumber)
      => drp[r].shown.picture = drp[r].frameNumber

(* FFusionDecompress ignores the results of the decoder.  That loses no    *)
(* packet and leaves no picture behind for a later frame: between calls    *)
(* neither a packet nor a picture waits inside the decoder.                *)
DecoderDrained ==
  av.bsf = NULL /\ av.bufferFrame = NULL /\ av.inFlight = <<>>

(* The convert function is kept for the life of the component, and may be  *)
(* chosen before any picture was decoded, by a draw that found none to     *)
(* show.  Whatever was drawn while the format was unknown, in a stream of  *)
(* one pixel format every picture is converted by a function for that      *)
(* format.  Nothing is said of a stream whose format changes, where the    *)
(* function kept is wrong, nor of the destination's alignment, for which   *)
(* it may be (SSE2OnlyWhenAligned).                                        *)
ConverterOfTheFormat ==
  \A r \in Records :
    drp[r].shown # NULL /\ drp[r].shown.picture \in Frame =>
      drp[r].shown.by \in ConvertersOf(PixFmtOf[drp[r].shown.picture])

(* A record decoded without a slot is drawn black.  That happens only when *)
(* every slot holds the picture of some other record.                      *)
StarvedOnlyWhenFull ==
  [][\A r \in Records :
       Waiting(r) /\ drp'[r].decoded /\ drp'[r].buffer = NULL
         => \A s \in Slots : Holders(s) # {}]_vars

(* The buffers implement a private place per record: what a record decoded *)
(* is what it draws until its band ends, whatever the other records do.    *)
Place(r) ==
  IF ~Begun(r) \/ ~drp[r].decoded THEN EMPTY
  ELSE LET p == PictureIn(buffers, drp[r].buffer)
       IN  IF p = NULL THEN BLACK ELSE p

DrawnPicture(r) == IF drp[r].shown = NULL THEN EMPTY ELSE drp[r].shown.picture

Store ==
  INSTANCE PictureStore WITH
    Pictures  <- Picture,
    Blank     <- BLACK,
    Undecoded <- EMPTY,
    place     <- [r \in Records |-> Place(r)],
    drawn     <- [r \in Records |-> DrawnPicture(r)]

StoreSpec == Store!StoreSpec

(* ColorConversionFindFor picks the scalar converter "for safety" when the *)
(* destination is not aligned to 16 (ColorConversions.c:597): no SSE2      *)
(* converter is run on an unaligned destination.                           *)
SSE2OnlyWhenAligned ==
  \A r \in Records :
    drp[r].shown # NULL /\ drp[r].shown.by \in SSE2 => drp[r].shown.aligned

=============================================================================
