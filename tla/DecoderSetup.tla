---------------------------- MODULE DecoderSetup ----------------------------
(***************************************************************************)
(* How FFusionCodecPreflight sets up the AVCodecContext it opens: which    *)
(* decoder it takes for a component subtype, with which flags and          *)
(* threading, and what the opened context then does.                       *)
(***************************************************************************)
EXTENDS ColorConversion

(* The component subtypes: "VP90" and "AV01" stand for the four spellings  *)
(* of each that getCodecID knows, "other" for every other code.            *)
ComponentTypes == {"VP90", "AV01", "other"}

(* getCodecID *)
getCodecID(componentType) ==
  CASE componentType = "VP90" -> "VP9"
    [] componentType = "AV01" -> "AV1"
    [] OTHER                  -> NULL

(* A faulty choice: FFmpeg's own AV1 decoder.                              *)
FindNativeDecoder(codecID) == IF codecID = "AV1" THEN "av1" ELSE "vp9"

(* avcodec_find_decoder, and libdav1d by name for AV1 *)
FindDecoder(codecID) ==
  CASE codecID = "VP9" -> "vp9"
    [] codecID = "AV1" -> "libdav1d"
    [] OTHER           -> NULL

(* A faulty setup: no flag for AV1 either.                                 *)
NoContextFlags(codecID) == {}

(* AV_CODEC_FLAG_LOW_DELAY is set for AV1 only *)
ContextFlags(codecID) == IF codecID = "AV1" THEN {"LOW_DELAY"} ELSE {}

(* A faulty setup: several pictures decoded at a time.                     *)
SetupFrameThreading == "FF_THREAD_FRAME"

(* SetupMultithreadedDecoding: one picture at a time, sliced over the CPUs *)
SetupMultithreadedDecoding == "FF_THREAD_SLICE"

(* avcodec_open2 on the context Preflight prepared *)
OpenedContext(codecID, pf) ==
  [AllocContext EXCEPT
     !.open    = TRUE,
     !.pix_fmt = pf,
     !.delay   = DecoderDelay(FindDecoder(codecID), ContextFlags(codecID),
                              SetupMultithreadedDecoding)]

=============================================================================
