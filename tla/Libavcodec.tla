----------------------------- MODULE Libavcodec -----------------------------
(***************************************************************************)
(* The part of FFmpeg 4.4's decoding interface that FFusion uses: an       *)
(* AVCodecContext is opened once, fed one packet per video frame with      *)
(* avcodec_send_packet, asked once for a picture with                      *)
(* avcodec_receive_frame, and flushed with avcodec_flush_buffers.          *)
(*                                                                         *)
(* Packets and pictures are abstracted to frame numbers: the packet of     *)
(* frame f decodes to picture f when the decoder still holds the picture f *)
(* predicts from, to GARBLED when it holds another one, and to nothing     *)
(* when it holds none or the packet is damaged.  The operators are pure:   *)
(* each maps a context to the context the call leaves behind.              *)
(***************************************************************************)
EXTENDS Naturals, Sequences

CONSTANTS
  MaxFrame,      \* frame numbers run from 0 to MaxFrame
  KeyFrames,     \* frames that predict from nothing
  Droppable,     \* frames no other frame predicts from
  Undecodable,   \* frames whose packet the decoder rejects
  PixFmtOf,      \* the pixel format the decoder produces for each frame
  FrameDelay,    \* pictures a frame-threaded decoder holds back
  NULL,          \* a null pointer, an empty AVFrame, no picture
  GARBLED        \* a picture predicted from the wrong reference

Frame   == 0 .. MaxFrame
Picture == Frame \cup {GARBLED}

(* The pixel formats told apart by ColorConversions.c; "GRAY8" stands for  *)
(* every format it has no converter for, "NONE" is AV_PIX_FMT_NONE.        *)
PixFmt == {"NONE", "YUV420P", "YUV420P10LE", "YUV422P", "YUVA420P",
           "RGB24", "BGR24", "ARGB", "RGBA", "BGRA", "GRAY8"}

ASSUME StreamAssumption ==
  /\ MaxFrame \in Nat
  /\ KeyFrames \subseteq Frame
  /\ 0 \in KeyFrames
  /\ Droppable \subseteq Frame \ KeyFrames
  /\ Undecodable \subseteq Frame
  /\ PixFmtOf \in [Frame -> PixFmt \ {"NONE"}]
  /\ FrameDelay \in Nat

ASSUME SentinelAssumption ==
  /\ NULL \notin Nat
  /\ GARBLED \notin Nat
  /\ NULL # GARBLED

-----------------------------------------------------------------------------
(***************************************************************************)
(* The context.  bsf and bufferFrame are AVCodecInternal's input packet    *)
(* and its picture decoded ahead, ref is the picture the decoder will      *)
(* predict from, inFlight the pictures a delaying decoder holds back.      *)
(***************************************************************************)
AVCodecContext ==
  [open        : BOOLEAN,
   delay       : Nat,
   pix_fmt     : PixFmt,
   bsf         : Frame \cup {NULL},
   bufferFrame : Picture \cup {NULL},
   ref         : Picture \cup {NULL},
   inFlight    : Seq(Picture)]

(* A context fresh from avcodec_alloc_context3 *)
AllocContext ==
  [open |-> FALSE, delay |-> 0, pix_fmt |-> "NONE", bsf |-> NULL,
   bufferFrame |-> NULL, ref |-> NULL, inFlight |-> <<>>]

(***************************************************************************)
(* How many pictures an opened decoder holds back.  libdav1d does so       *)
(* unless AV_CODEC_FLAG_LOW_DELAY limits its frame delay to one; a native  *)
(* decoder does so only when it is threaded by frames.                     *)
(***************************************************************************)
DecoderDelay(codec, flags, threadType) ==
  IF codec = "libdav1d"
  THEN IF "LOW_DELAY" \in flags THEN 0 ELSE FrameDelay
  ELSE IF threadType = "FF_THREAD_FRAME" THEN FrameDelay ELSE 0

(* The frame a delta frame predicts from: the last one before it that may  *)
(* be a reference.                                                         *)
RefOf(f) ==
  CHOOSE g \in Frame : /\ g < f
                       /\ g \notin Droppable
                       /\ \A h \in Frame : (g < h /\ h < f) => h \in Droppable

(* What decoding the packet of frame f yields with the references held.    *)
Decoded(ctx, f) ==
  IF f \in Undecodable THEN NULL
  ELSE IF f \in KeyFrames THEN f
  ELSE IF ctx.ref = NULL THEN NULL
  ELSE IF ctx.ref = RefOf(f) THEN f ELSE GARBLED

RefAfter(ctx, f) ==
  LET p == Decoded(ctx, f)
  IN  IF p = NULL \/ f \in Droppable THEN ctx.ref ELSE p

(***************************************************************************)
(* decode_receive_frame_internal: without an input packet the answer is    *)
(* EAGAIN; otherwise the packet is consumed, decoded, and the oldest       *)
(* picture comes out once more than delay of them are in flight.           *)
(***************************************************************************)
ReceiveInternal(ctx) ==
  IF ctx.bsf = NULL THEN [ctx |-> ctx, frame |-> NULL]
  ELSE LET p     == Decoded(ctx, ctx.bsf)
           queue == IF p = NULL THEN ctx.inFlight ELSE Append(ctx.inFlight, p)
           out   == p # NULL /\ Len(queue) > ctx.delay
       IN  [ctx   |-> [ctx EXCEPT !.bsf      = NULL,
                                  !.ref      = RefAfter(ctx, ctx.bsf),
                                  !.pix_fmt  = IF p = NULL THEN @
                                               ELSE PixFmtOf[ctx.bsf],
                                  !.inFlight = IF out THEN Tail(queue)
                                               ELSE queue],
            frame |-> IF out THEN Head(queue) ELSE NULL]

(***************************************************************************)
(* avcodec_send_packet: EINVAL on a context that is not open, EAGAIN when  *)
(* the previous packet is still waiting (the new one is then lost to a     *)
(* caller that ignores the result); else the packet is taken and, if no    *)
(* picture waits to be fetched, decoded at once.                           *)
(***************************************************************************)
SendPacket(ctx, f) ==
  IF ~ctx.open \/ ctx.bsf # NULL THEN ctx
  ELSE LET taken == [ctx EXCEPT !.bsf = f]
           ahead == ReceiveInternal(taken)
       IN  IF ctx.bufferFrame # NULL THEN taken
           ELSE [ahead.ctx EXCEPT !.bufferFrame = ahead.frame]

(* avcodec_receive_frame: the picture decoded ahead if there is one.       *)
ReceiveFrame(ctx) ==
  IF ~ctx.open THEN [ctx |-> ctx, frame |-> NULL]
  ELSE IF ctx.bufferFrame # NULL
  THEN [ctx |-> [ctx EXCEPT !.bufferFrame = NULL], frame |-> ctx.bufferFrame]
  ELSE ReceiveInternal(ctx)

(* avcodec_flush_buffers: pending input, output and references are gone.   *)
FlushBuffers(ctx) ==
  [ctx EXCEPT !.bsf = NULL, !.bufferFrame = NULL, !.ref = NULL,
              !.inFlight = <<>>]

=============================================================================
