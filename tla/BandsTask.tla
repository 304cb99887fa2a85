------------------------------ MODULE BandsTask ------------------------------
(***************************************************************************)
(* The band routines when GetMPWorkFunction has given DrawBand to a task   *)
(* of the Multiprocessing library.  The task draws one record after the    *)
(* other, decoding it first; at the same time the base decompressor begins *)
(* bands, and ends those of other records, on its own thread or at         *)
(* interrupt time.  The calls are split where they touch the frame         *)
(* buffers both sides use; nothing in the code guards them.                *)
(***************************************************************************)
EXTENDS FFusionBands

VARIABLES
  at,        \* where the task is in DrawBand
  work,      \* the record it draws
  picture,   \* its local tempFrame
  ending,    \* the record whose EndBand is in progress, NULL if none
  endAt      \* where that EndBand is

taskVars == <<at, work, picture>>
endVars  == <<ending, endAt>>
mpVars   == <<vars, taskVars, endVars>>

TaskInit ==
  /\ Init
  /\ at = "idle" /\ work = NULL /\ picture = NULL
  /\ ending = NULL /\ endAt = "idle"

Slot == drp[work].buffer

-----------------------------------------------------------------------------
(* DrawBand on a record not decoded yet: the decoder is the task's own. *)
TaskDecompress(r) ==
  /\ at = "idle"
  /\ Waiting(r) /\ ahead[r] = {} /\ ending # r
  /\ av' = Decompressed(r).ctx
  /\ picture' = Decompressed(r).frame
  /\ work' = r
  /\ at' = "search"
  /\ UNCHANGED <<buffers, lastAllocatedBuffer, lastIFrame, lastFrame, colorConv,
                 drp, ahead, scheduled, endVars>>

(* The first slot with a retainCount of zero is taken, if there is one. *)
TaskSearch ==
  /\ at = "search"
  /\ \E s \in Slots \cup {NULL} :
       /\ SlotFor(work, s)
       /\ drp' = [drp EXCEPT ![work].buffer = s]
       /\ IF s = NULL THEN UNCHANGED <<buffers, lastAllocatedBuffer>>
          ELSE /\ buffers' = [buffers EXCEPT ![s].retainCount = 1,
                                             ![s].frameNumber = drp[work].frameNumber]
               /\ lastAllocatedBuffer' = s
       /\ at' = IF s = NULL THEN "decoded" ELSE "frame"
  /\ UNCHANGED <<av, lastIFrame, lastFrame, colorConv, ahead, scheduled, work,
                 picture, endVars>>

(* An AVFrame is allocated if the slot has none. *)
TaskFrame ==
  /\ at = "frame"
  /\ buffers' = IF buffers[Slot].frame = NULL
                THEN [buffers EXCEPT ![Slot].frame = EMPTY] ELSE buffers
  /\ at' = "store"
  /\ UNCHANGED <<av, lastAllocatedBuffer, lastIFrame, lastFrame, colorConv, drp,
                 ahead, scheduled, work, picture, endVars>>

(* The picture is stored in the AVFrame. *)
TaskStore ==
  /\ at = "store"
  /\ buffers' = IF buffers[Slot].frame = NULL THEN buffers
                ELSE [buffers EXCEPT ![Slot].frame =
                        IF picture = NULL THEN EMPTY ELSE picture]
  /\ at' = "decoded"
  /\ UNCHANGED <<av, lastAllocatedBuffer, lastIFrame, lastFrame, colorConv, drp,
                 ahead, scheduled, work, picture, endVars>>

TaskDecoded ==
  /\ at = "decoded"
  /\ drp' = [drp EXCEPT ![work].decoded = TRUE]
  /\ lastFrame' = drp[work].frameNumber
  /\ ahead' = [q \in Records |-> ahead[q] \ {work}]
  /\ at' = "draw"
  /\ UNCHANGED <<av, buffers, lastAllocatedBuffer, lastIFrame, colorConv,
                 scheduled, work, picture, endVars>>

TaskDraw ==
  /\ at = "draw"
  /\ \E aligned \in Alignments : DrawBand(work, aligned)
  /\ at' = "idle" /\ work' = NULL /\ picture' = NULL
  /\ UNCHANGED endVars

-----------------------------------------------------------------------------
(* BeginBand beside the task, into a record not in use *)
HostBegin(r) ==
  /\ endAt = "idle"
  /\ \E f \in Frame : BeginBand(r, f)
  /\ UNCHANGED <<taskVars, endVars>>

Releases(r) == drp[r].buffer # NULL /\ buffers[drp[r].buffer].frame # NULL

(* EndBand beside the task, for a record it has drawn, ... *)
HostEnd(r) ==
  /\ endAt = "idle"
  /\ r # work /\ Begun(r) /\ drp[r].decoded
  /\ IF Releases(r)
     THEN /\ buffers' = [buffers EXCEPT ![drp[r].buffer].retainCount = @ - 1]
          /\ ending' = r
          /\ endAt' = "test"
          /\ UNCHANGED <<av, lastAllocatedBuffer, lastIFrame, lastFrame, colorConv,
                         drp, ahead, scheduled>>
     ELSE EndBand(r) /\ UNCHANGED endVars
  /\ UNCHANGED taskVars

(* ... which lowers the count first, ... *)
HostTest ==
  /\ endAt = "test"
  /\ endAt' = IF buffers[drp[ending].buffer].retainCount = 0 THEN "free" ELSE "done"
  /\ UNCHANGED <<vars, taskVars, ending>>

(* ... and frees the AVFrame afterwards. *)
HostFree ==
  /\ endAt = "free"
  /\ buffers' = [buffers EXCEPT ![drp[ending].buffer].frame = NULL,
                                ![drp[ending].buffer].frameNumber = 0]
  /\ endAt' = "done"
  /\ UNCHANGED <<av, lastAllocatedBuffer, lastIFrame, lastFrame, colorConv, drp,
                 ahead, scheduled, taskVars, ending>>

HostDone ==
  /\ endAt = "done"
  /\ drp' = [drp EXCEPT ![ending] = IdleRecord]
  /\ ending' = NULL /\ endAt' = "idle"
  /\ UNCHANGED <<globVars, ahead, scheduled, taskVars>>

-----------------------------------------------------------------------------
TaskNext ==
  \/ \E r \in Records : TaskDecompress(r) \/ HostBegin(r) \/ HostEnd(r)
  \/ TaskSearch \/ TaskFrame \/ TaskStore \/ TaskDecoded \/ TaskDraw
  \/ HostTest \/ HostFree \/ HostDone

TaskSpec == TaskInit /\ [][TaskNext]_mpVars

-----------------------------------------------------------------------------
(* Properties *)

(* FFusionCodec.c:447 "If you implement this selector, your DrawBand       *)
(* function must be MP-safe": the AVFrame the task is about to draw from   *)
(* has not been freed by an EndBand beside it.                             *)
DrawBandMPSafe ==
  at \in {"decoded", "draw"} /\ Slot # NULL => buffers[Slot].frame # NULL

=============================================================================
