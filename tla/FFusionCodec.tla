---------------------------- MODULE FFusionCodec ----------------------------
(***************************************************************************)
(* The life of one component instance: Open, Preflight, the band routines  *)
(* of FFusionBands on the decoder Preflight opened, and Close.  QuickTime  *)
(* begins bands only after a Preflight that returned noErr, may call       *)
(* Preflight any number of times, and closes the instance when every band  *)
(* has ended.                                                              *)
(***************************************************************************)
EXTENDS FFusionBands

CONSTANTS
  OpenMayFail,       \* whether avcodec_open2 may fail for a known codec
  RetriesPreflight,  \* whether QuickTime calls Preflight again after an error
  HasExtradata       \* whether the image description carries a 'strf' header

ASSUME ComponentAssumption ==
  /\ {OpenMayFail, RetriesPreflight, HasExtradata} \subseteq BOOLEAN
  /\ NULL \notin {"vp9", "libdav1d"}

VARIABLES
  instance,       \* "none", "open", or "crashed" on a bad pointer
  componentType,  \* glob->componentType
  avCodec,        \* glob->avCodec
  haveContext,    \* glob->avContext # NULL
  extradata,      \* avContext->extradata: "none", "allocated" or "dangling"
  err,            \* what the last Preflight returned
  wanted,         \* the pixel type Preflight asked for
  leaked          \* what was lost without being freed

codecVars == <<instance, componentType, avCodec, haveContext, extradata, err,
               wanted, leaked>>
allVars   == <<vars, codecVars>>

Layouts == {"k24RGB", "k32ARGB", "k4444YpCbCrA8", "k2vuy"}

(* The band variables as NewPtrClear leaves them, with no decoder. *)
CodecInit ==
  /\ instance = "none"
  /\ componentType \in ComponentTypes
  /\ avCodec = NULL /\ haveContext = FALSE /\ extradata = "none"
  /\ err = "none" /\ wanted = NULL /\ leaked = {}
  /\ av = AllocContext
  /\ buffers = [s \in Slots |-> FreeBuffer]
  /\ lastAllocatedBuffer = 0 /\ lastIFrame = 0 /\ lastFrame = 0
  /\ colorConv = NoFuncs
  /\ drp = [r \in Records |-> IdleRecord]
  /\ ahead = [r \in Records |-> {}]
  /\ scheduled = NULL

-----------------------------------------------------------------------------
(* FFusionCodecOpen *)
Open ==
  /\ instance = "none"
  /\ instance' = "open"
  /\ UNCHANGED <<vars, componentType, avCodec, haveContext, extradata, err,
                 wanted, leaked>>

(***************************************************************************)
(* FindPixFmtFromVideo: the first frame is decoded by a temporary context  *)
(* that shares the extradata of the real one, and whose                    *)
(* avcodec_free_context frees it.                                          *)
(***************************************************************************)
FindPixFmtFromVideo(f) ==
  LET tmp == FFusionDecompress([AllocContext EXCEPT !.open = TRUE], f)
  IN  IF tmp.frame = NULL THEN "NONE" ELSE tmp.ctx.pix_fmt

(* Faulty versions of the two definitions below: the codec is looked for   *)
(* at every Preflight, and the answer of avcodec_open2 is not passed on.   *)
AlwaysNeedsCodec     == TRUE
OpenIgnored(opens)   == "noErr"

(* if (!glob->avCodec) *)
NeedsCodec == avCodec = NULL

(* What Preflight makes of the answer of avcodec_open2 *)
OpenResult(opens) == IF opens THEN "noErr" ELSE "paramErr"

(* FFusionCodecPreflight while the codec is unknown, given the first frame *)
(* f of the video or NULL; opens is the answer of avcodec_open2.           *)
PreflightFirst(f, opens) ==
  LET codecID == getCodecID(componentType)
      probed  == opens /\ f # NULL
      pf      == IF probed THEN FindPixFmtFromVideo(f) ELSE "NONE"
  IN  /\ NeedsCodec
      /\ opens => codecID # NULL
      /\ ~opens => OpenMayFail \/ codecID = NULL
      /\ avCodec' = FindDecoder(codecID)
      /\ haveContext' = TRUE
      /\ leaked' = leaked \cup (IF haveContext THEN {"context"} ELSE {})
      /\ extradata' = IF ~HasExtradata THEN "none"
                      ELSE IF probed THEN "dangling" ELSE "allocated"
      /\ av' = IF opens THEN OpenedContext(codecID, pf) ELSE AllocContext
      /\ err' = OpenResult(opens)

(* FFusionCodecPreflight on an instance that has its codec *)
PreflightAgain ==
  /\ ~NeedsCodec
  /\ err' = "noErr"
  /\ UNCHANGED <<av, avCodec, haveContext, extradata, leaked>>

(* FFusionCodecPreflight: with the decoder settled, the pixel type is      *)
(* chosen from what is known of its pixel format.                          *)
Preflight ==
  /\ instance = "open"
  /\ err = "paramErr" => RetriesPreflight
  /\ \/ \E f \in KeyFrames \cup {NULL}, opens \in BOOLEAN : PreflightFirst(f, opens)
     \/ PreflightAgain
  /\ wanted' = IF err' = "noErr" THEN ColorConversionDstForPixFmt(av'.pix_fmt)
               ELSE wanted
  /\ UNCHANGED <<buffers, lastAllocatedBuffer, lastIFrame, lastFrame, colorConv,
                 drp, ahead, scheduled, instance, componentType>>

-----------------------------------------------------------------------------
(* The band routines that do not decode *)
Bands(r) ==
  /\ instance = "open"
  /\ \/ /\ haveContext /\ err = "noErr"
        /\ \E f \in Frame : BeginBand(r, f) \/ BeginBandDecoded(r, f)
     \/ \E aligned \in Alignments : DrawBand(r, aligned)
     \/ EndBand(r)
  /\ UNCHANGED codecVars

(* avcodec_flush_buffers follows the internal pointer of a context that    *)
(* avcodec_open2 never opened.                                             *)
FlushesUnopened(r) == ~av.open /\ FlushNeeded(r)

(* A decode copies a new AVFrame to its local tempFrame, through which     *)
(* avcodec_receive_frame, called whatever the packet, frees the original.  *)
DecodingBands(r) ==
  /\ instance = "open"
  /\ ~FlushesUnopened(r)
  /\ \/ DecodeBand(r)
     \/ \E aligned \in Alignments : DecodeAndDrawBand(r, aligned)
  /\ UNCHANGED codecVars

(* A decode that copies from the null pointer av_frame_alloc returned, or  *)
(* flushes a context that is not open.                                     *)
DecodeCrashes(r) ==
  /\ instance = "open"
  /\ Waiting(r) /\ ahead[r] = {}
  /\ AllocMayFail \/ FlushesUnopened(r)
  /\ instance' = "crashed"
  /\ UNCHANGED <<vars, componentType, avCodec, haveContext, extradata, err,
                 wanted, leaked>>

(***************************************************************************)
(* FFusionCodecClose.  It frees the extradata, the context and the data    *)
(* buffer, but not the AVFrames in the buffers nor a context an earlier    *)
(* Preflight lost.                                                         *)
(***************************************************************************)
Close ==
  /\ instance = "open"
  /\ \A r \in Records : ~Begun(r)
  /\ instance' = IF haveContext /\ extradata = "dangling" THEN "crashed" ELSE "none"
  /\ leaked' = leaked \cup (IF \E s \in Slots : buffers[s].frame # NULL
                            THEN {"frame"} ELSE {})
  /\ avCodec' = NULL /\ haveContext' = FALSE /\ extradata' = "none"
  /\ err' = "none" /\ wanted' = NULL
  /\ av' = AllocContext
  /\ buffers' = [s \in Slots |-> FreeBuffer]
  /\ lastAllocatedBuffer' = 0 /\ lastIFrame' = 0 /\ lastFrame' = 0
  /\ colorConv' = NoFuncs
  /\ scheduled' = NULL
  /\ UNCHANGED <<drp, ahead, componentType>>

CodecNext ==
  \/ Open
  \/ Preflight
  \/ \E r \in Records : Bands(r) \/ DecodingBands(r) \/ DecodeCrashes(r)
  \/ Close

CodecSpec == CodecInit /\ [][CodecNext]_allVars

-----------------------------------------------------------------------------
(* Properties *)

(* The instance's own fields have their types beside the band variables.   *)
CodecTypeOK ==
  /\ TypeOK
  /\ instance \in {"none", "open", "crashed"}
  /\ componentType \in ComponentTypes
  /\ avCodec \in {NULL, "vp9", "libdav1d"}
  /\ haveContext \in BOOLEAN
  /\ extradata \in {"none", "allocated", "dangling"}
  /\ err \in {"none", "noErr", "paramErr"}
  /\ wanted \in Layouts \cup {NULL}
  /\ leaked \subseteq {"context", "frame"}

(* No call follows a dangling or null pointer of libavcodec, whatever      *)
(* fails on the way to an opened decoder.                                  *)
NoCrash == instance # "crashed"

(* Close and EndBand together free the context and every picture stored by *)
(* an instance of a registered type, whatever fails and is tried again.    *)
ContextAndPicturesFreed == componentType # "other" => leaked = {}

(* Preflight may be repeated between any two band calls: once the decoder  *)
(* is open it keeps its references and the records keep their pictures.    *)
RepeatedPreflightHarmless ==
  [][Preflight /\ av.open => UNCHANGED vars]_allVars

(* The layout a converter writes *)
Layout(by) ==
  IF by \in {"ClearRGB24", "BGR24toRGB24", "RGB24toRGB24"} THEN "k24RGB"
  ELSE IF by \in {"ClearV408", "YA420toV408"} THEN "k4444YpCbCrA8"
  ELSE IF by \in {"ClearRGB32", "RGB32toRGB32Copy", "RGB32toARGB",
                  "RGB32toRGB32Swap"} THEN "k32ARGB"
  ELSE "k2vuy"

(* What a draw writes has the layout Preflight asked QuickTime for, even   *)
(* when Preflight had to guess the pixel format without data.              *)
DestinationFits ==
  \A r \in Records :
    drp[r].shown # NULL => Layout(drp[r].shown.by) = wanted

(* FFusionCodec.c:526 "We first open libavcodec library and the codec      *)
(* corresponding to the fourCC if it has not been done before": after a    *)
(* Preflight that returns noErr the decoder is open.                       *)
PreflightOpensDecoder == instance = "open" /\ err = "noErr" => av.open

(* avcodec.h:635 "decoding: Set/allocated/freed by user": nobody but the   *)
(* component frees the extradata it allocated.                             *)
ExtradataFreedByUser == extradata # "dangling"

=============================================================================
