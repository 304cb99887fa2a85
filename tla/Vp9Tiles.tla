------------------------------ MODULE Vp9Tiles ------------------------------
(***************************************************************************)
(* The tiles of a VP9 frame (libavcodec/vp9.c).  Every tile column is a    *)
(* job of the slice threads; the thread that decodes the frame             *)
(* loop-filters each superblock row once all columns have reported it.     *)
(* Intra prediction needs the unfiltered last line of the row above, so    *)
(* each job saves that line before it reports its row.  Without a pool the *)
(* same is done by one thread, row by row.                                 *)
(***************************************************************************)
EXTENDS SliceThread

CONSTANT SbRows   \* s->sb_rows, the superblock rows of a picture

ASSUME RowsAssumption == SbRows \in Nat \ {0}

Rows    == 0 .. SbRows - 1
Columns == UNION {0 .. n - 1 : n \in JobCounts}

VARIABLES
  row,       \* row of each worker in decode_tiles_mt
  step,      \* what it does next with that row
  entries,   \* s->entries: how many columns have reported each row
  decoding,  \* whether vp9_decode_frame is in its tile loop
  cols,      \* s->s.h.tiling.tile_cols
  level,     \* s->s.h.filter.level, zero or not
  lrow,      \* i of loopfilter_proc, row of decode_tiles
  lstep,     \* where loopfilter_proc is with that row
  pix,       \* what each tile of CUR_FRAME holds in each row
  above,     \* s->intra_pred_data: the row saved for each column
  result     \* how vp9_decode_frame returned last

jobVars  == <<row, step>>
mainVars == <<lrow, lstep>>
headVars == <<decoding, cols, level, result>>
tileVars == <<jobVars, entries, headVars, mainVars, pix, above>>
vars     == <<poolVars, tileVars>>

Contents == {"old", "decoded", "filtered", "wrong"}

Undecoded == [r \in Rows |-> [c \in Columns |-> "old"]]
NoEntries == [r \in Rows |-> 0]

(* Lines of the frame before are of no use to the next one.                *)
NothingSaved == [c \in Columns |-> [row |-> 0, of |-> "old"]]

Init ==
  /\ PoolInit
  /\ row = [w \in Workers |-> 0]
  /\ step = [w \in Workers |-> "decode"]
  /\ entries = NoEntries
  /\ decoding = FALSE
  /\ cols \in JobCounts
  /\ level = FALSE
  /\ lrow = 0
  /\ lstep = "check"
  /\ pix = Undecoded
  /\ above = NothingSaved
  /\ result = "none"

-----------------------------------------------------------------------------
(* A tile row is decoded right only from the unfiltered line above it.     *)
DecodedTile(r, c) ==
  IF r = 0 \/ above[c] = [row |-> r - 1, of |-> "decoded"]
  THEN "decoded" ELSE "wrong"

Saved(r, c) == [row |-> r, of |-> pix[r][c]]

FilteredRow(r) ==
  [c \in Columns |-> IF c >= cols THEN pix[r][c]
                     ELSE IF pix[r][c] = "decoded" THEN "filtered" ELSE "wrong"]

(* A faulty start: the entries of the last frame are left.                 *)
BeginFrameStale(n, lf) ==
  /\ Execute(n)
  /\ decoding' = TRUE
  /\ cols' = n /\ level' = lf
  /\ pix' = Undecoded /\ above' = NothingSaved
  /\ result' = "none"
  /\ UNCHANGED <<jobVars, entries, mainVars>>

(* vp9_decode_frame up to the job of every tile column: a new picture, the *)
(* entries cleared, the tile headers read.                                 *)
BeginFrame(n, lf) ==
  /\ Execute(n)
  /\ decoding' = TRUE
  /\ cols' = n /\ level' = lf
  /\ entries' = NoEntries
  /\ pix' = Undecoded /\ above' = NothingSaved
  /\ result' = "none"
  /\ UNCHANGED <<jobVars, mainVars>>

(* A tile header is invalid: the frame fails before any job is started.    *)
RejectFrame ==
  /\ mpc \in {"idle", "alone"} /\ ~decoding
  /\ entries' = IF mpc = "idle" THEN NoEntries ELSE entries
  /\ result' = "failed"
  /\ UNCHANGED <<poolVars, jobVars, decoding, cols, level, mainVars, pix, above>>

-----------------------------------------------------------------------------
(* decode_tiles_mt, the job of column job[w]: decode a row, ... *)
At(w, s) == wpc[w] = "run" /\ row[w] < SbRows /\ step[w] = s

DecodeRow(w) ==
  /\ At(w, "decode")
  /\ pix' = [pix EXCEPT ![row[w]][job[w]] = DecodedTile(row[w], job[w])]
  /\ step' = [step EXCEPT ![w] = "backup"]
  /\ UNCHANGED <<poolVars, row, entries, headVars, mainVars, above>>

(* ... save its last line unless it is the last row, ... *)
BackupRow(w) ==
  /\ At(w, "backup")
  /\ above' = IF row[w] + 1 < SbRows
              THEN [above EXCEPT ![job[w]] = Saved(row[w], job[w])]
              ELSE above
  /\ step' = [step EXCEPT ![w] = "report"]
  /\ UNCHANGED <<poolVars, row, entries, headVars, mainVars, pix>>

(* ... and vp9_report_tile_progress.                                       *)
ReportRow(w) ==
  /\ At(w, "report")
  /\ entries' = [entries EXCEPT ![row[w]] = @ + 1]
  /\ lstep' = IF lstep = "asleep" THEN "await" ELSE lstep
  /\ row' = [row EXCEPT ![w] = @ + 1]
  /\ step' = [step EXCEPT ![w] = "decode"]
  /\ UNCHANGED <<poolVars, headVars, lrow, pix, above>>

EndTile(w) ==
  /\ row[w] = SbRows
  /\ JobReturns(w)
  /\ row' = [row EXCEPT ![w] = 0]
  /\ UNCHANGED <<step, entries, headVars, mainVars, pix, above>>

-----------------------------------------------------------------------------
(* loopfilter_proc, the main function: vp9_await_tile_progress looks at    *)
(* the entry without the mutex, then with it, ...                          *)
Filtering(s) == mpc = "main" /\ lrow < SbRows /\ lstep = s

CheckProgress ==
  /\ Filtering("check")
  /\ lstep' = IF entries[lrow] >= cols THEN "filter" ELSE "await"
  /\ UNCHANGED <<poolVars, jobVars, entries, headVars, lrow, pix, above>>

(* A faulty wait: the loop waits once and does not look again.             *)
AwaitOnce ==
  /\ Filtering("await")
  /\ lstep' = IF entries[lrow] # 0 THEN "filter" ELSE "asleep"
  /\ UNCHANGED <<poolVars, jobVars, entries, headVars, lrow, pix, above>>

AwaitProgress ==
  /\ Filtering("await")
  /\ lstep' = IF entries[lrow] = cols THEN "filter" ELSE "asleep"
  /\ UNCHANGED <<poolVars, jobVars, entries, headVars, lrow, pix, above>>

SpuriousProgress ==
  /\ Filtering("asleep")
  /\ lstep' = "await"
  /\ UNCHANGED <<poolVars, jobVars, entries, headVars, lrow, pix, above>>

(* ... and the row is filtered.                                            *)
FilterRow ==
  /\ Filtering("filter")
  /\ pix' = IF level THEN [pix EXCEPT ![lrow] = FilteredRow(lrow)] ELSE pix
  /\ lrow' = lrow + 1
  /\ lstep' = "check"
  /\ UNCHANGED <<poolVars, jobVars, entries, headVars, above>>

EndFilter ==
  /\ lrow = SbRows
  /\ MainReturns
  /\ lrow' = 0
  /\ UNCHANGED <<jobVars, entries, headVars, lstep, pix, above>>

(* A frame whose jobs are done has failed if a block of it predicted from  *)
(* a reference of unusable size (error_info), else it is complete.         *)
Ended == {"complete", "failed"}

(* avpriv_slicethread_execute finds the jobs done, and the frame ends; or  *)
(* it goes to sleep.                                                       *)
EndFrame ==
  /\ WaitDone
  /\ decoding' = (mpc' # "idle")
  /\ result' \in IF mpc' = "idle" THEN Ended ELSE {result}
  /\ UNCHANGED <<jobVars, entries, cols, level, mainVars, pix, above>>

-----------------------------------------------------------------------------
(* decode_tiles, when the pool could not be created: a row at a time, its  *)
(* columns from left to right, ...                                         *)
BeginFrameAlone(n, lf) ==
  /\ mpc = "alone" /\ ~decoding
  /\ decoding' = TRUE
  /\ cols' = n /\ level' = lf
  /\ pix' = Undecoded /\ above' = NothingSaved
  /\ result' = "none"
  /\ UNCHANGED <<poolVars, jobVars, entries, mainVars>>

Alone == mpc = "alone" /\ decoding /\ lrow < SbRows

DecodeTileAlone(c) ==
  /\ Alone
  /\ c < cols /\ pix[lrow][c] = "old"
  /\ \A b \in 0 .. c - 1 : pix[lrow][b] # "old"
  /\ pix' = [pix EXCEPT ![lrow][c] = DecodedTile(lrow, c)]
  /\ UNCHANGED <<poolVars, jobVars, entries, headVars, mainVars, above>>

(* ... the last line of all columns saved and the row filtered at its end. *)
FinishRowAlone ==
  /\ Alone
  /\ \A c \in 0 .. cols - 1 : pix[lrow][c] # "old"
  /\ above' = IF lrow + 1 < SbRows
              THEN [c \in Columns |-> IF c < cols THEN Saved(lrow, c) ELSE above[c]]
              ELSE above
  /\ pix' = IF level THEN [pix EXCEPT ![lrow] = FilteredRow(lrow)] ELSE pix
  /\ lrow' = lrow + 1
  /\ UNCHANGED <<poolVars, jobVars, entries, headVars, lstep>>

(* Unlike the jobs, it returns an error when a tile's data has run out.    *)
FailFrameAlone ==
  /\ Alone
  /\ decoding' = FALSE
  /\ result' = "failed"
  /\ lrow' = 0
  /\ UNCHANGED <<poolVars, jobVars, entries, cols, level, lstep, pix, above>>

EndFrameAlone ==
  /\ mpc = "alone" /\ decoding /\ lrow = SbRows
  /\ decoding' = FALSE
  /\ result' \in Ended
  /\ lrow' = 0
  /\ UNCHANGED <<poolVars, jobVars, entries, cols, level, lstep, pix, above>>

-----------------------------------------------------------------------------
(* The decoder is opened with a new context, decodes frames, is closed.    *)
Open ==
  /\ Create
  /\ entries' = NoEntries
  /\ UNCHANGED <<jobVars, headVars, mainVars, pix, above>>

Close ==
  /\ Free \/ (FreeNothing /\ ~decoding)
  /\ UNCHANGED tileVars

HostStep ==
  \/ Open \/ Close
  \/ CreateFails /\ UNCHANGED tileVars
  \/ RejectFrame
  \/ \E n \in JobCounts, lf \in BOOLEAN : BeginFrame(n, lf) \/ BeginFrameAlone(n, lf)

MainStep ==
  \/ (CreateWorker \/ Greeted \/ Wake \/ Retire \/ Join) /\ UNCHANGED tileVars
  \/ CheckProgress \/ AwaitProgress \/ FilterRow \/ EndFilter \/ EndFrame
  \/ \E c \in Columns : DecodeTileAlone(c)
  \/ FinishRowAlone \/ EndFrameAlone

WorkerStep(w) ==
  \/ WorkerLoop(w) /\ UNCHANGED tileVars
  \/ DecodeRow(w) \/ BackupRow(w) \/ ReportRow(w) \/ EndTile(w)

Unscheduled ==
  \/ Spurious /\ UNCHANGED tileVars
  \/ SpuriousProgress
  \/ FailFrameAlone

Next ==
  \/ HostStep \/ MainStep \/ Unscheduled
  \/ \E w \in Workers : WorkerStep(w)

Spec == Init /\ [][Next]_vars

(* A thread that can run runs at some time; nobody has to open a decoder,  *)
(* send it a frame or close it, and wakeups need not be spurious.          *)
Fairness == WF_vars(MainStep) /\ \A w \in Workers : WF_vars(WorkerStep(w))

FairSpec == Spec /\ Fairness

-----------------------------------------------------------------------------
(* Properties *)

(* Every variable has its type; no row is reported by more columns than    *)
(* the frame has, so that the awaited equality in                          *)
(* vp9_await_tile_progress cannot be overrun.                              *)
TypeOK ==
  /\ PoolTypeOK
  /\ row \in [Workers -> 0 .. SbRows]
  /\ step \in [Workers -> {"decode", "backup", "report"}]
  /\ entries \in [Rows -> 0 .. cols]
  /\ decoding \in BOOLEAN
  /\ cols \in JobCounts
  /\ level \in BOOLEAN
  /\ lrow \in 0 .. SbRows
  /\ lstep \in {"check", "await", "asleep", "filter"}
  /\ pix \in [Rows -> [Columns -> Contents]]
  /\ above \in [Columns -> [row : Rows, of : Contents]]
  /\ result \in {"none", "complete", "failed"}

(* The threads together decode a frame as one would: every tile once, from *)
(* the unfiltered line above it, each row filtered once it is complete and *)
(* in order, and vp9_decode_frame returns a frame nobody writes any more.  *)
Frames ==
  INSTANCE TiledFrame WITH
    TileCounts <- JobCounts,
    tile       <- pix

FrameSpec == Frames!FrameSpec

(* Opening the decoder, decoding a frame and closing it come to an end:    *)
(* no wakeup of a worker, of the creating thread, of the loop filter or of *)
(* the thread awaiting the last job is lost.                               *)
EveryCallEnds ==
  (mpc \notin {"freed", "idle", "alone"} \/ decoding)
    ~> (mpc \in {"freed", "idle", "alone"} /\ ~decoding)

=============================================================================
