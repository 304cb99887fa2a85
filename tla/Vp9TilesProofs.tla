--------------------------- MODULE Vp9TilesProofs ---------------------------
(***************************************************************************)
(* Proofs about Vp9Tiles, for any number of threads, tile columns and      *)
(* superblock rows.                                                        *)
(*                                                                         *)
(* The argument: what each tile holds follows from where the workers are   *)
(* and from how far the loop filter is.  A column has reported a row when  *)
(* its job is taken and no worker at that job is still above the row's     *)
(* end; entries counts those columns, the loop filter passes a row only    *)
(* when the count is full, and a tile is filtered just when its row has    *)
(* been passed.  Which worker is at which job is the invariant of the pool.*)
(***************************************************************************)
EXTENDS Vp9Tiles, SliceThreadProofs

(* Every step of the tile decoder is one of the pool or leaves it alone.   *)
LEMMA PoolStep == [Next]_vars => [PoolNext]_poolVars
<1> SUFFICES ASSUME [Next]_vars PROVE [PoolNext]_poolVars
  OBVIOUS
<1>1. CASE UNCHANGED vars
  BY <1>1 DEF vars
<1>2. CASE HostStep
  BY <1>2 DEF HostStep, Open, Close, RejectFrame, BeginFrame, BeginFrameAlone, PoolNext
<1>3. CASE MainStep
  BY <1>3 DEF MainStep, CheckProgress, AwaitProgress, FilterRow, EndFilter, EndFrame,
     DecodeTileAlone, FinishRowAlone, EndFrameAlone, PoolNext, MainLoop
<1>4. CASE Unscheduled
  BY <1>4 DEF Unscheduled, SpuriousProgress, FailFrameAlone, PoolNext
<1>5. ASSUME NEW w \in Workers, WorkerStep(w)
      PROVE  [PoolNext]_poolVars
  BY <1>5 DEF WorkerStep, DecodeRow, BackupRow, ReportRow, EndTile, PoolNext
<1> QED  BY <1>1, <1>2, <1>3, <1>4, <1>5 DEF Next

(* The tiles use the pool as it is meant to be used: every behaviour of    *)
(* Vp9Tiles is one of SliceThread, so what is proved of the pool for any   *)
(* jobs and any main function holds of these.                              *)
THEOREM TilesUsePool == Spec => PoolSpec
<1>1. Init => PoolInit  BY DEF Init
<1> QED  BY <1>1, PoolStep, PTL DEF Spec, PoolSpec

(* Two workers never decode the same tile column at once, ...              *)
THEOREM TilesDistinct == Spec => []JobsDistinct
BY TilesUsePool, JobsAreDistinct, PTL

(* ... and a frame is returned only when no worker is decoding it.         *)
THEOREM TilesQuiet == Spec => []QuietBetweenBatches
BY TilesUsePool, QuietBetween, PTL

-----------------------------------------------------------------------------
(* A row of a tile column is reported once its job has been taken and, if  *)
(* a worker is at that job, once that worker is past the row.              *)
Runs(w, c)     == wpc[w] = "run" /\ job[w] = c
Taken(c)       == c < first_job \/ (nb_active_threads <= c /\ c < current_job)
Reported(r, c) == Taken(c) /\ \A w \in Workers : Runs(w, c) => r < row[w]
Written(r, c)  == \E w \in Workers : Runs(w, c) /\ r = row[w] /\ step[w] # "decode"

TileCols      == 0 .. cols - 1
ReportedAt(r) == {c \in TileCols : Reported(r, c)}
RowReported(r) == \A c \in TileCols : Reported(r, c)

(* The main function is past a row, or has returned.                       *)
Passed(r) == mpc \in {"wait", "pause"} \/ r < lrow
Finished(r) == IF level /\ Passed(r) THEN "filtered" ELSE "decoded"

(* A frame is decoded by the pool or, without one, by the calling thread.  *)
HeadInv ==
  /\ Executing => decoding /\ cols = nb_jobs
  /\ decoding => Executing \/ mpc = "alone"

(* A worker starts every job at its first row.                             *)
RowInv ==
  \A w \in Workers :
    /\ wpc[w] # "run" => row[w] = 0
    /\ wpc[w] # "run" \/ row[w] = SbRows => step[w] = "decode"

(* A pool that is being created, or could not be, has run no jobs.         *)
NeverRan ==
  \/ mpc \in {"create", "greet", "greeted", "alone"}
  \/ mpc \in {"retire", "join"} /\ nb_threads < MaxThreads

(* entries counts the columns that have reported a row.                    *)
EntriesInv ==
  /\ Executing => \A r \in Rows : entries[r] = Cardinality(ReportedAt(r))
  /\ NeverRan => entries = NoEntries

(* The loop filter passes only rows that all columns have reported.        *)
FilterInv ==
  /\ mpc # "main" => lstep = "check"
  /\ mpc \notin {"main", "alone"} \/ ~decoding => lrow = 0
  /\ lrow = SbRows => lstep = "check"
  /\ Executing => \A r \in Rows : Passed(r) => RowReported(r)
  /\ lstep = "filter" => RowReported(lrow)

(* A tile holds what its column has got to.                                *)
PixInv ==
  Executing => \A r \in Rows, c \in TileCols :
    pix[r][c] = IF Reported(r, c) THEN Finished(r)
                ELSE IF Written(r, c) THEN "decoded" ELSE "old"

(* The line a job needs is saved from what it has decoded itself.          *)
AboveInv ==
  \A w \in Workers : wpc[w] = "run" /\ row[w] < SbRows =>
    /\ step[w] = "decode" /\ row[w] > 0 =>
         above[job[w]] = [row |-> row[w] - 1, of |-> "decoded"]
    /\ step[w] = "report" /\ row[w] + 1 < SbRows =>
         above[job[w]] = [row |-> row[w], of |-> "decoded"]

(* Alone, the thread goes from row to row.                                 *)
AloneInv ==
  mpc = "alone" /\ decoding =>
    /\ \A r \in Rows, c \in TileCols :
         /\ r < lrow => pix[r][c] = IF level THEN "filtered" ELSE "decoded"
         /\ r = lrow => pix[r][c] \in {"old", "decoded"}
         /\ r > lrow => pix[r][c] = "old"
    /\ 0 < lrow /\ lrow < SbRows =>
         \A c \in TileCols : above[c] = [row |-> lrow - 1, of |-> "decoded"]

TilesInv ==
  /\ TypeOK /\ HeadInv /\ RowInv /\ EntriesInv /\ FilterInv
  /\ PixInv /\ AboveInv /\ AloneInv

-----------------------------------------------------------------------------
LEMMA ColumnOf ==
  ASSUME NEW n \in JobCounts, NEW c \in 0 .. n - 1
  PROVE  c \in Columns
BY DEF Columns

LEMMA ColumnSets ==
  ASSUME TypeOK
  PROVE  /\ cols \in Nat \ {0} /\ SbRows \in Nat \ {0}
         /\ TileCols \subseteq Columns
         /\ \A S \in SUBSET TileCols :
              /\ IsFiniteSet(S) /\ Cardinality(S) \in 0 .. cols
              /\ Cardinality(S) = cols => S = TileCols
<1>1. cols \in JobCounts /\ cols \in Nat \ {0} /\ SbRows \in Nat \ {0}
  BY SliceThreadAssumption, RowsAssumption DEF TypeOK
<1>2. IsFiniteSet(TileCols) /\ Cardinality(TileCols) = cols
  BY <1>1, FS_Interval DEF TileCols
<1>3. ASSUME NEW S \in SUBSET TileCols
      PROVE  /\ IsFiniteSet(S) /\ Cardinality(S) \in 0 .. cols
             /\ Cardinality(S) = cols => S = TileCols
  BY <1>1, <1>2, FS_Subset, FS_CardinalityType
<1>4. TileCols \subseteq Columns
  BY <1>1, ColumnOf DEF TileCols
<1> QED  BY <1>1, <1>3, <1>4

(* What is known of a worker at a job: it is alone with its column, which  *)
(* has reported the rows above the worker's.                               *)
LEMMA AtJob ==
  ASSUME PoolInv, TilesInv, NEW w \in Workers, wpc[w] = "run"
  PROVE  /\ Executing /\ decoding
         /\ job[w] \in TileCols /\ job[w] \in Columns /\ Taken(job[w])
         /\ row[w] \in 0 .. SbRows
         /\ \A v \in Workers : Runs(v, job[w]) <=> v = w
         /\ \A r \in Rows :
              /\ Reported(r, job[w]) <=> r < row[w]
              /\ Written(r, job[w]) <=> r = row[w] /\ step[w] # "decode"
<1> USE DEF PoolInv, TilesInv
<1>1. Executing /\ decoding /\ cols = nb_jobs
  BY InsideExecuting DEF HeadInv
<1>2. job[w] \in TileCols /\ Taken(job[w])
  BY <1>1 DEF JobsInv, TileCols, Taken, PoolTypeOK
<1>3. \A v \in Workers : Runs(v, job[w]) <=> v = w
  BY DEF Runs, JobsInv
<1>4. job[w] \in Columns
  BY <1>2, ColumnSets
<1>5. row[w] \in 0 .. SbRows
  BY DEF TypeOK
<1>6. \A r \in Rows :
        /\ Reported(r, job[w]) <=> r < row[w]
        /\ Written(r, job[w]) <=> r = row[w] /\ step[w] # "decode"
  BY <1>2, <1>3 DEF Reported, Written
<1> QED  BY <1>1, <1>2, <1>3, <1>4, <1>5, <1>6

(* With nobody at a job, a taken column has reported all rows.             *)
LEMMA NobodyAtJob ==
  ASSUME PoolInv, ~Executing
  PROVE  \A w \in Workers : wpc[w] # "run"
BY DEF PoolInv, QuietInv, Working

(* Steps of the pool that leave every job where it is.                     *)
SameJobs ==
  /\ \A w \in Workers : wpc'[w] = "run" <=> wpc[w] = "run"
  /\ \A w \in Workers : wpc[w] = "run" => job'[w] = job[w]
  /\ nb_active_threads' = nb_active_threads /\ nb_jobs' = nb_jobs
  /\ first_job' = first_job /\ current_job' = current_job

LEMMA SameReported ==
  ASSUME SameJobs, UNCHANGED <<row, step, cols>>
  PROVE  /\ \A r, c : (Reported(r, c)' <=> Reported(r, c)) /\ (Written(r, c)' <=> Written(r, c))
         /\ \A r : ReportedAt(r)' = ReportedAt(r) /\ (RowReported(r)' <=> RowReported(r))
         /\ TileCols' = TileCols
<1>1. \A r, c : (Reported(r, c)' <=> Reported(r, c)) /\ (Written(r, c)' <=> Written(r, c))
  BY DEF SameJobs, Reported, Written, Runs, Taken
<1>2. TileCols' = TileCols
  BY DEF TileCols
<1> QED  BY <1>1, <1>2 DEF ReportedAt, RowReported

(* Outside a batch the pool's steps concern the tiles little.              *)
LEMMA OutsideTiles ==
  ASSUME PoolInv, PoolInv', TilesInv, ~Executing, ~Executing',
         UNCHANGED <<row, step, decoding, cols, level, lrow, lstep, pix, above>>,
         result' \in {"none", "complete", "failed"},
         decoding /\ mpc = "alone" => mpc' = "alone",
         \/ entries' = NoEntries
         \/ entries' = entries /\ (NeverRan' => NeverRan)
  PROVE  TilesInv'
<1> USE DEF TilesInv
<1>1. TypeOK'
  <2>1. PoolTypeOK'  BY DEF PoolInv
  <2>2. NoEntries \in [Rows -> 0 .. cols]
    BY ColumnSets DEF NoEntries
  <2> QED  BY <2>1, <2>2 DEF TypeOK
<1>2. \A w \in Workers : wpc[w] # "run" /\ wpc'[w] # "run"
  BY NobodyAtJob DEF PoolInv, QuietInv, Working
<1>3. HeadInv' /\ RowInv'
  BY <1>2 DEF HeadInv, RowInv
<1>4. EntriesInv'
  BY DEF EntriesInv
<1>5. FilterInv'
  BY ColumnSets DEF FilterInv, Executing, HeadInv
<1>6. PixInv' /\ AboveInv'
  BY <1>2 DEF PixInv, AboveInv
<1>7. AloneInv'
  BY DEF AloneInv, HeadInv, TileCols
<1> QED  BY <1>1, <1>3, <1>4, <1>5, <1>6, <1>7

(* A frame begins: no job is taken, nothing is decoded or reported.        *)
LEMMA BeginTiles ==
  ASSUME PoolInv, PoolInv', TilesInv, NEW n \in JobCounts, NEW lf \in BOOLEAN,
         BeginFrame(n, lf)
  PROVE  TilesInv'
<1> USE DEF TilesInv, BeginFrame, jobVars, mainVars
<1>1. ~Executing /\ Executing' /\ mpc' = "wake" /\ nb_jobs' = n /\ cols' = n
      /\ first_job' = 0 /\ nb_active_threads' = current_job'
  BY DEF Execute, Executing
<1>2. TypeOK'
  <2>1. n \in Nat \ {0} /\ SbRows \in Nat \ {0}
    BY SliceThreadAssumption, RowsAssumption
  <2>2. /\ NoEntries \in [Rows -> 0 .. n]
        /\ Undecoded \in [Rows -> [Columns -> Contents]]
        /\ NothingSaved \in [Columns -> [row : Rows, of : Contents]]
    BY <2>1 DEF NoEntries, Undecoded, NothingSaved, Contents, Rows
  <2> QED  BY <1>1, <2>2 DEF TypeOK, PoolInv
<1>3. \A w \in Workers : wpc[w] # "run" /\ wpc'[w] # "run"
  BY <1>1, NobodyAtJob DEF Execute, workerVars
<1>4. \A r \in Rows, c \in TileCols' : ~Reported(r, c)' /\ ~Written(r, c)'
  <2>1. current_job' \in Nat
    BY DEF PoolInv, PoolTypeOK
  <2> QED  BY <1>1, <1>3, <2>1 DEF Reported, Taken, Written, Runs, TileCols
<1>5. HeadInv' /\ RowInv'
  BY <1>1, <1>3 DEF HeadInv, RowInv
<1>6. EntriesInv'
  <2>1. ASSUME NEW r \in Rows  PROVE  entries'[r] = Cardinality(ReportedAt(r)')
    <3>1. ReportedAt(r)' = {}  BY <1>4 DEF ReportedAt
    <3> QED  BY <3>1, FS_EmptySet DEF NoEntries
  <2> QED  BY <1>1, <2>1 DEF EntriesInv, NeverRan
<1>7. FilterInv'
  <2>1. lrow = 0 /\ lstep = "check"
    BY DEF FilterInv, Execute
  <2> QED  BY <1>1, <2>1, ColumnSets DEF FilterInv, Passed, Rows
<1>8. PixInv'
  <2>1. ASSUME NEW r \in Rows, NEW c \in TileCols'  PROVE  pix'[r][c] = "old"
    <3>1. c \in Columns  BY <1>1, ColumnOf DEF TileCols
    <3> QED  BY <3>1 DEF Undecoded
  <2> QED  BY <1>4, <2>1 DEF PixInv
<1>9. AboveInv' /\ AloneInv'
  BY <1>1, <1>3 DEF AboveInv, AloneInv
<1> QED  BY <1>2, <1>5, <1>6, <1>7, <1>8, <1>9

(* During a batch the steps of the pool which take no job and end none.    *)
LEMMA InsideTiles ==
  ASSUME PoolInv, PoolInv', TilesInv, Executing, Executing', SameJobs,
         UNCHANGED tileVars,
         mpc = "main" => mpc' = "main",
         \A r : Passed(r)' <=> Passed(r)
  PROVE  TilesInv'
<1> USE DEF TilesInv, tileVars, jobVars, headVars, mainVars
<1>1. TypeOK'
  BY DEF TypeOK, PoolInv
<1>2. HeadInv' /\ RowInv'
  BY DEF HeadInv, RowInv, SameJobs
<1>3. EntriesInv'
  <2>1. ~NeverRan'  BY DEF NeverRan, Executing
  <2> QED  BY <2>1, SameReported DEF EntriesInv
<1>4. FilterInv'
  BY SameReported DEF FilterInv, Executing
<1>5. PixInv'
  BY SameReported DEF PixInv, Finished
<1>6. AboveInv'
  BY DEF AboveInv, SameJobs
<1>7. AloneInv'
  BY DEF AloneInv, Executing
<1> QED  BY <1>1, <1>2, <1>3, <1>4, <1>5, <1>6, <1>7

(* Fewer workers than the batch wants have had their first job while one   *)
(* is still to claim it.                                                   *)
LEMMA ClaimBound ==
  ASSUME PoolInv, NEW w \in Workers, wpc[w] = "claim"
  PROVE  first_job < nb_active_threads
<1> USE DEF PoolInv
<1>1. Executing  BY InsideExecuting
<1>2. w \in Unclaimed
  BY <1>1 DEF BatchInv, Unclaimed, Resting
<1>3. IsFiniteSet(Unclaimed) /\ Cardinality(Unclaimed) \in Nat
  BY FiniteSets DEF Unclaimed
<1>4. Cardinality(Unclaimed) # 0
  BY <1>2, <1>3, FS_EmptySet
<1> QED  BY <1>1, <1>3, <1>4 DEF CountInv, PoolTypeOK

(* A worker takes a job: a column nobody has taken, none of whose rows are *)
(* reported yet; the others stay at theirs.                                *)
LEMMA TakeTiles ==
  ASSUME PoolInv, PoolInv', TilesInv, Executing', NEW w \in Workers,
         Claim(w) \/ NextJob(w), UNCHANGED tileVars
  PROVE  TilesInv'
<1> USE DEF TilesInv, PoolInv, tileVars, jobVars, headVars, mainVars, Goto
<1>1. /\ Executing /\ mpc' = mpc /\ nb_jobs' = nb_jobs /\ wpc[w] # "run"
      /\ nb_active_threads' = nb_active_threads /\ nb_threads' = nb_threads
      /\ \A v \in Workers \ {w} : wpc'[v] = wpc[v] /\ job'[v] = job[v]
  BY InsideExecuting DEF Claim, NextJob, PoolTypeOK
<1>2. TypeOK'
  BY DEF TypeOK
<1>3. HeadInv' /\ RowInv'
  BY <1>1 DEF HeadInv, RowInv, Executing
<1>4. row[w] = 0 /\ step[w] = "decode"
  BY <1>1 DEF RowInv
<1>5. \A c \in TileCols : Taken(c)' <=> Taken(c) \/ (wpc'[w] = "run" /\ job'[w] = c)
  <2>1. cols = nb_jobs /\ nb_jobs \in Nat /\ cols \in Nat
    BY <1>1 DEF HeadInv, PoolTypeOK
  <2>2. first_job \in Nat /\ current_job \in Nat /\ nb_active_threads \in Nat
    BY DEF PoolTypeOK
  <2>3. nb_active_threads <= current_job
    BY <1>1 DEF CountInv
  <2>4. CASE Claim(w)
    BY <2>1, <2>2, <2>4 DEF Claim, Taken, TileCols, PoolTypeOK
  <2>5. CASE NextJob(w)
    BY <2>1, <2>2, <2>3, <2>5 DEF NextJob, Taken, TileCols, PoolTypeOK
  <2> QED  BY <2>4, <2>5
<1>6. ASSUME NEW r \in Rows, NEW c \in TileCols
      PROVE  (Reported(r, c)' <=> Reported(r, c)) /\ (Written(r, c)' <=> Written(r, c))
  <2>1. r >= 0 /\ r \in Int  BY ColumnSets DEF Rows
  <2>2. wpc'[w] = "run" /\ job'[w] = c => ~Taken(c)
    <3>1. cols = nb_jobs /\ nb_jobs \in Nat /\ cols \in Nat
      BY <1>1 DEF HeadInv, PoolTypeOK
    <3>2. first_job \in Nat /\ current_job \in Nat /\ nb_active_threads \in Nat
          /\ nb_active_threads <= current_job
      BY <1>1 DEF PoolTypeOK, CountInv
    <3>3. CASE Claim(w)
      <4>1. first_job < nb_active_threads
        BY <3>3, ClaimBound DEF Claim
      <4> QED  BY <3>2, <3>3, <4>1 DEF Claim, Taken, PoolTypeOK
    <3>4. CASE NextJob(w)
      <4>1. first_job <= nb_active_threads
        BY <1>1, FiniteSets DEF CountInv, PoolTypeOK, Unclaimed
      <4> QED  BY <3>2, <3>4, <4>1 DEF NextJob, Taken, PoolTypeOK
    <3> QED  BY <3>3, <3>4
  <2>3. CASE wpc'[w] = "run" /\ job'[w] = c
    <3>1. ~Reported(r, c) /\ ~Reported(r, c)'
      BY <1>4, <2>1, <2>2, <2>3 DEF Reported, Runs
    <3>2. \A v \in Workers : Runs(v, c) => FALSE
      BY <2>2, <2>3, AtJob DEF Runs
    <3>3. \A v \in Workers : Runs(v, c)' => v = w
      BY <1>1, <2>3, <3>2 DEF Runs
    <3> QED  BY <1>4, <3>1, <3>2, <3>3 DEF Written
  <2>4. CASE ~(wpc'[w] = "run" /\ job'[w] = c)
    <3>1. \A v \in Workers : Runs(v, c)' <=> Runs(v, c)
      BY <1>1, <2>4 DEF Runs
    <3> QED  BY <1>5, <2>4, <3>1 DEF Reported, Written
  <2> QED  BY <2>3, <2>4
<1>7. TileCols' = TileCols
  BY DEF TileCols
<1>8. \A r \in Rows : ReportedAt(r)' = ReportedAt(r) /\ (RowReported(r)' <=> RowReported(r))
  BY <1>6, <1>7 DEF ReportedAt, RowReported
<1>9. EntriesInv'
  <2>1. ~NeverRan'  BY DEF NeverRan, Executing
  <2> QED  BY <1>1, <1>8, <2>1 DEF EntriesInv
<1>10. FilterInv'
  <2>1. lstep = "filter" => lrow \in Rows
    BY ColumnSets DEF FilterInv, TypeOK, Rows
  <2> QED  BY <1>1, <1>8, <2>1 DEF FilterInv, Passed
<1>11. PixInv'
  BY <1>1, <1>6, <1>7 DEF PixInv, Finished, Passed
<1>12. AboveInv'
  <2>1. ASSUME NEW v \in Workers, wpc'[v] = "run", row[v] < SbRows, v # w
        PROVE  /\ wpc[v] = "run" /\ job'[v] = job[v]
    BY <1>1, <2>1
  <2>2. ~(row[w] > 0)
    BY <1>4
  <2> QED  BY <1>4, <2>1, <2>2 DEF AboveInv
<1>13. AloneInv'
  BY DEF AloneInv, Executing
<1> QED  BY <1>2, <1>3, <1>9, <1>10, <1>11, <1>12, <1>13

-----------------------------------------------------------------------------
(* A job is done: its rows stay reported.                                  *)
LEMMA EndTileTiles ==
  ASSUME PoolInv, PoolInv', TilesInv, NEW w \in Workers, EndTile(w)
  PROVE  TilesInv'
<1> USE DEF TilesInv, EndTile, JobReturns, Goto, batchVars, headVars, mainVars
<1>1. /\ Executing /\ Executing' /\ wpc[w] = "run" /\ wpc' = [wpc EXCEPT ![w] = "next"]
      /\ row' = [row EXCEPT ![w] = 0] /\ row[w] = SbRows
      /\ wpc' \in [Workers -> WorkerPlaces]
  BY InsideExecuting DEF Executing, PoolInv, PoolTypeOK
<1>2. TypeOK'
  BY ColumnSets DEF TypeOK, PoolInv
<1>3. HeadInv' /\ RowInv'
  BY <1>1 DEF HeadInv, RowInv, TypeOK
<1>4. ASSUME NEW r \in Rows, NEW c \in TileCols
      PROVE  (Reported(r, c)' <=> Reported(r, c)) /\ (Written(r, c)' <=> Written(r, c))
  <2>1. Taken(c)' <=> Taken(c)
    BY DEF Taken
  <2>2. \A v \in Workers : Runs(v, c)' <=> Runs(v, c) /\ v # w
    BY <1>1 DEF Runs, TypeOK, PoolInv, PoolTypeOK
  <2>3. \A v \in Workers \ {w} : row'[v] = row[v]
    BY DEF TypeOK
  <2>4. r < row[w] /\ r # row[w]
    BY <1>1, ColumnSets DEF Rows
  <2> QED  BY <2>1, <2>2, <2>3, <2>4 DEF Reported, Written
<1>5. TileCols' = TileCols
  BY DEF TileCols
<1>6. \A r \in Rows : ReportedAt(r)' = ReportedAt(r) /\ (RowReported(r)' <=> RowReported(r))
  BY <1>4, <1>5 DEF ReportedAt, RowReported
<1>7. EntriesInv'
  <2>1. ~NeverRan'  BY <1>1 DEF NeverRan, Executing
  <2> QED  BY <1>1, <1>6, <2>1 DEF EntriesInv
<1>8. FilterInv'
  <2>1. lstep = "filter" => lrow \in Rows
    BY ColumnSets DEF FilterInv, TypeOK, Rows
  <2> QED  BY <1>1, <1>6, <2>1 DEF FilterInv, Passed
<1>9. PixInv'
  BY <1>1, <1>4, <1>5 DEF PixInv, Finished, Passed
<1>10. AboveInv'
  BY <1>1 DEF AboveInv, TypeOK
<1>11. AloneInv'
  BY <1>1 DEF AloneInv, Executing
<1> QED  BY <1>2, <1>3, <1>7, <1>8, <1>9, <1>10, <1>11

(* A worker decodes the row it is at: from the line it has saved itself.   *)
LEMMA DecodeTiles ==
  ASSUME PoolInv, PoolInv', TilesInv, NEW w \in Workers, DecodeRow(w)
  PROVE  /\ TilesInv'
         /\ DecodedTile(row[w], job[w]) = "decoded"
<1> USE DEF TilesInv, DecodeRow, At, poolVars, workerVars, batchVars, headVars, mainVars
<1>1. wpc[w] = "run" /\ row[w] < SbRows /\ step[w] = "decode" /\ row[w] \in Rows
  BY ColumnSets DEF Rows, TypeOK
<1>2. /\ Executing /\ job[w] \in TileCols /\ job[w] \in Columns
      /\ \A v \in Workers : Runs(v, job[w]) <=> v = w
      /\ \A r \in Rows : /\ Reported(r, job[w]) <=> r < row[w]
                          /\ ~Written(r, job[w])
  BY <1>1, AtJob
<1>3. DecodedTile(row[w], job[w]) = "decoded"
  <2>1. row[w] = 0 \/ row[w] > 0
    BY <1>1, ColumnSets DEF Rows
  <2>2. row[w] > 0 => above[job[w]] = [row |-> row[w] - 1, of |-> "decoded"]
    BY <1>1 DEF AboveInv
  <2> QED  BY <2>1, <2>2 DEF DecodedTile
<1>4. pix' = [pix EXCEPT ![row[w]][job[w]] = "decoded"]
  BY <1>3
<1>5. TypeOK'
  BY <1>1, <1>2, <1>4 DEF TypeOK, PoolInv, Contents
<1>6. HeadInv' /\ RowInv'
  BY <1>1 DEF HeadInv, RowInv, TypeOK, Executing
<1>7. TileCols' = TileCols
  BY DEF TileCols
<1>8. \A r, c : /\ Reported(r, c)' <=> Reported(r, c)
               /\ \A v : Runs(v, c)' <=> Runs(v, c)
  BY DEF Reported, Runs, Taken
<1>9. \A r : ReportedAt(r)' = ReportedAt(r) /\ (RowReported(r)' <=> RowReported(r))
  BY <1>7, <1>8 DEF ReportedAt, RowReported
<1>10. EntriesInv' /\ FilterInv'
  BY <1>9 DEF EntriesInv, FilterInv, NeverRan, Executing, Passed
<1>11. PixInv'
  <2> SUFFICES ASSUME NEW r \in Rows, NEW c \in TileCols
               PROVE  pix'[r][c] = IF Reported(r, c)' THEN Finished(r)'
                                   ELSE IF Written(r, c)' THEN "decoded" ELSE "old"
    BY <1>7 DEF PixInv
  <2>1. Finished(r)' = Finished(r)
    BY DEF Finished, Passed
  <2>2. pix[r][c] = IF Reported(r, c) THEN Finished(r)
                    ELSE IF Written(r, c) THEN "decoded" ELSE "old"
    BY <1>2 DEF PixInv
  <2>3. c \in Columns  BY ColumnSets
  <2>4. CASE r = row[w] /\ c = job[w]
    <3>1. Written(r, c)' /\ ~Reported(r, c)'
      BY <1>1, <1>2, <1>8, <2>4 DEF Written, TypeOK, Rows
    <3> QED  BY <1>1, <1>4, <2>3, <2>4, <3>1 DEF TypeOK
  <2>5. CASE ~(r = row[w] /\ c = job[w])
    <3>1. pix'[r][c] = pix[r][c]
      BY <1>1, <1>4, <2>3, <2>5 DEF TypeOK
    <3>2. Written(r, c)' <=> Written(r, c)
      <4>1. \A v \in Workers \ {w} : step'[v] = step[v]
        BY DEF TypeOK
      <4>2. Runs(w, c) /\ r = row[w] => FALSE
        BY <2>5 DEF Runs
      <4> QED  BY <1>8, <4>1, <4>2 DEF Written
    <3> QED  BY <1>8, <2>1, <2>2, <3>1, <3>2
  <2> QED  BY <2>4, <2>5
<1>12. AboveInv'
  BY <1>1 DEF AboveInv, TypeOK
<1>13. AloneInv'
  BY <1>2 DEF AloneInv, Executing
<1> QED  BY <1>3, <1>5, <1>6, <1>10, <1>11, <1>12, <1>13

(* It saves the line of the row, which nobody has filtered yet.            *)
LEMMA BackupTiles ==
  ASSUME PoolInv, PoolInv', TilesInv, NEW w \in Workers, BackupRow(w)
  PROVE  TilesInv'
<1> USE DEF TilesInv, BackupRow, At, poolVars, workerVars, batchVars, headVars, mainVars
<1>1. wpc[w] = "run" /\ row[w] < SbRows /\ step[w] = "backup" /\ row[w] \in Rows
  BY ColumnSets DEF Rows, TypeOK
<1>2. /\ Executing /\ job[w] \in TileCols /\ job[w] \in Columns
      /\ \A v \in Workers : Runs(v, job[w]) <=> v = w
      /\ ~Reported(row[w], job[w]) /\ Written(row[w], job[w])
  BY <1>1, AtJob DEF Rows
<1>3. Saved(row[w], job[w]) = [row |-> row[w], of |-> "decoded"]
  BY <1>1, <1>2 DEF Saved, PixInv
<1>4. TypeOK'
  <2>1. Saved(row[w], job[w]) \in [row : Rows, of : Contents]
    BY <1>1, <1>3 DEF Contents
  <2> QED  BY <1>1, <1>2, <2>1 DEF TypeOK, PoolInv
<1>5. HeadInv' /\ RowInv'
  BY <1>1 DEF HeadInv, RowInv, TypeOK, Executing
<1>6. \A r, c : (Reported(r, c)' <=> Reported(r, c)) /\ (Written(r, c)' <=> Written(r, c))
  <2>1. \A v \in Workers : step'[v] # "decode" <=> step[v] # "decode"
    BY <1>1 DEF TypeOK
  <2> QED  BY <2>1 DEF Reported, Written, Runs, Taken
<1>7. TileCols' = TileCols
  BY DEF TileCols
<1>8. \A r : ReportedAt(r)' = ReportedAt(r) /\ (RowReported(r)' <=> RowReported(r))
  BY <1>6, <1>7 DEF ReportedAt, RowReported
<1>9. EntriesInv' /\ FilterInv' /\ PixInv'
  BY <1>6, <1>7, <1>8 DEF EntriesInv, FilterInv, PixInv, NeverRan, Executing, Passed, Finished
<1>10. AboveInv'
  <2> SUFFICES ASSUME NEW v \in Workers, wpc[v] = "run", row[v] < SbRows
               PROVE  /\ step'[v] = "decode" /\ row[v] > 0 =>
                           above'[job[v]] = [row |-> row[v] - 1, of |-> "decoded"]
                      /\ step'[v] = "report" /\ row[v] + 1 < SbRows =>
                           above'[job[v]] = [row |-> row[v], of |-> "decoded"]
    BY DEF AboveInv
  <2>1. CASE v = w
    BY <1>1, <1>2, <1>3, <2>1 DEF TypeOK
  <2>2. CASE v # w
    <3>1. job[v] # job[w] /\ step'[v] = step[v]
      BY <1>2, <2>2 DEF Runs, TypeOK
    <3>2. above'[job[v]] = above[job[v]]
      <4>1. job[v] \in Columns  BY AtJob
      <4> QED  BY <3>1, <4>1 DEF TypeOK
    <3> QED  BY <3>1, <3>2 DEF AboveInv
  <2> QED  BY <2>1, <2>2
<1>11. AloneInv'
  BY <1>2 DEF AloneInv, Executing
<1> QED  BY <1>4, <1>5, <1>9, <1>10, <1>11

(* It reports the row: one column more.                                    *)
LEMMA ReportTiles ==
  ASSUME PoolInv, PoolInv', TilesInv, NEW w \in Workers, ReportRow(w)
  PROVE  TilesInv'
<1> USE DEF TilesInv, ReportRow, At, poolVars, workerVars, batchVars, headVars
<1>1. wpc[w] = "run" /\ row[w] < SbRows /\ step[w] = "report" /\ row[w] \in Rows
  BY ColumnSets DEF Rows, TypeOK
<1>2. /\ Executing /\ job[w] \in TileCols /\ job[w] \in Columns /\ Taken(job[w])
      /\ \A v \in Workers : Runs(v, job[w]) <=> v = w
      /\ ~Reported(row[w], job[w])
  BY <1>1, AtJob DEF Rows
<1>3. /\ row' = [row EXCEPT ![w] = row[w] + 1] /\ step' = [step EXCEPT ![w] = "decode"]
      /\ row[w] + 1 \in 0 .. SbRows /\ Executing' /\ wpc' = wpc /\ job' = job
  <2>1. row[w] + 1 \in 0 .. SbRows
    BY <1>1, ColumnSets DEF Rows
  <2>2. mpc' = mpc /\ wpc' = wpc /\ job' = job
    OBVIOUS
  <2>3. Executing'
    BY <1>2, <2>2 DEF Executing
  <2> QED  BY <2>1, <2>2, <2>3
<1>4. TileCols' = TileCols
  BY DEF TileCols
<1>5. \A c : (Taken(c)' <=> Taken(c)) /\ \A v : Runs(v, c)' <=> Runs(v, c)
  BY DEF Taken, Runs
<1>6. ASSUME NEW r \in Rows, NEW c \in TileCols
      PROVE  /\ Reported(r, c)' <=> Reported(r, c) \/ (r = row[w] /\ c = job[w])
             /\ Written(r, c)' <=> Written(r, c) /\ ~(r = row[w] /\ c = job[w])
  <2>1. CASE c = job[w]
    <3>1. row'[w] = row[w] + 1 /\ step'[w] = "decode"
      BY <1>3 DEF TypeOK
    <3>2. Reported(r, c)' <=> r < row[w] + 1
      BY <1>2, <1>5, <2>1, <3>1 DEF Reported
    <3>3. Reported(r, c) <=> r < row[w]
      BY <1>2, <2>1 DEF Reported
    <3>4. ~Written(r, c)'
      BY <1>2, <1>5, <2>1, <3>1 DEF Written
    <3>5. Written(r, c) => r = row[w]
      BY <1>2, <2>1 DEF Written
    <3> QED  BY <1>1, <2>1, <3>2, <3>3, <3>4, <3>5, ColumnSets DEF Rows
  <2>2. CASE c # job[w]
    <3>1. \A v \in Workers : Runs(v, c) => row'[v] = row[v] /\ step'[v] = step[v]
      BY <1>3, <2>2 DEF Runs, TypeOK
    <3> QED  BY <1>5, <2>2, <3>1 DEF Reported, Written
  <2> QED  BY <2>1, <2>2
<1>7. \A r \in Rows :
        ReportedAt(r)' = IF r = row[w] THEN ReportedAt(r) \cup {job[w]} ELSE ReportedAt(r)
  BY <1>2, <1>4, <1>6 DEF ReportedAt
<1>8. \A r \in Rows : entries'[r] = Cardinality(ReportedAt(r)') /\ entries'[r] \in 0 .. cols
  <2> TAKE r \in Rows
  <2>1. entries[r] = Cardinality(ReportedAt(r))
    BY <1>2 DEF EntriesInv
  <2>2. ReportedAt(r)' \in SUBSET TileCols /\ ReportedAt(r) \in SUBSET TileCols
    BY <1>4 DEF ReportedAt
  <2>3. CASE r = row[w]
    <3>1. job[w] \notin ReportedAt(r)
      BY <1>2, <2>3 DEF ReportedAt
    <3>2. Cardinality(ReportedAt(r)') = Cardinality(ReportedAt(r)) + 1
      BY <1>7, <2>2, <2>3, <3>1, ColumnSets, FS_AddElement
    <3> QED  BY <1>1, <2>1, <2>2, <2>3, <3>2, ColumnSets DEF TypeOK
  <2>4. CASE r # row[w]
    BY <1>1, <1>7, <2>1, <2>4 DEF TypeOK
  <2> QED  BY <2>3, <2>4
<1>9. TypeOK'
  <2>1. entries' \in [Rows -> 0 .. cols]
    BY <1>8 DEF TypeOK
  <2>2. row' \in [Workers -> 0 .. SbRows] /\ step' \in [Workers -> {"decode", "backup", "report"}]
    BY <1>3 DEF TypeOK
  <2> QED  BY <2>1, <2>2 DEF TypeOK, PoolInv
<1>10. HeadInv' /\ RowInv'
  BY <1>1 DEF HeadInv, RowInv, TypeOK, Executing
<1>11. EntriesInv'
  <2>1. ~NeverRan'  BY <1>3 DEF NeverRan, Executing
  <2> QED  BY <1>8, <2>1 DEF EntriesInv
<1>12. \A r \in Rows : RowReported(r) => RowReported(r)'
  BY <1>4, <1>6 DEF RowReported
<1>13. FilterInv'
  <2>1. lstep = "filter" => lrow \in Rows
    BY ColumnSets DEF FilterInv, TypeOK, Rows
  <2>2. lrow = SbRows => lstep' = "check"
    BY DEF FilterInv
  <2>3. lstep' = "filter" => lstep = "filter"
    OBVIOUS
  <2> QED  BY <1>12, <2>1, <2>2, <2>3 DEF FilterInv, Passed, Executing
<1>14. PixInv'
  <2> SUFFICES ASSUME NEW r \in Rows, NEW c \in TileCols
               PROVE  pix'[r][c] = IF Reported(r, c)' THEN Finished(r)'
                                   ELSE IF Written(r, c)' THEN "decoded" ELSE "old"
    BY <1>4 DEF PixInv
  <2>1. Finished(r)' = Finished(r)
    BY DEF Finished, Passed
  <2>2. pix'[r][c] = IF Reported(r, c) THEN Finished(r)
                     ELSE IF Written(r, c) THEN "decoded" ELSE "old"
    BY <1>2 DEF PixInv
  <2>3. CASE r = row[w] /\ c = job[w]
    <3>1. Written(r, c) /\ ~Reported(r, c) /\ Reported(r, c)'
      BY <1>1, <1>2, <1>6, <2>3 DEF Written
    <3>2. ~RowReported(r)
      BY <3>1 DEF RowReported
    <3>3. Finished(r) = "decoded"
      BY <1>2, <3>2 DEF Finished, FilterInv
    <3> QED  BY <2>1, <2>2, <3>1, <3>3
  <2>4. CASE ~(r = row[w] /\ c = job[w])
    BY <1>6, <2>1, <2>2, <2>4
  <2> QED  BY <2>3, <2>4
<1>15. AboveInv'
  <2> SUFFICES ASSUME NEW v \in Workers, wpc[v] = "run", row'[v] < SbRows
               PROVE  /\ step'[v] = "decode" /\ row'[v] > 0 =>
                           above[job[v]] = [row |-> row'[v] - 1, of |-> "decoded"]
                      /\ step'[v] = "report" /\ row'[v] + 1 < SbRows =>
                           above[job[v]] = [row |-> row'[v], of |-> "decoded"]
    BY DEF AboveInv
  <2>1. CASE v = w
    <3>1. row'[v] = row[w] + 1 /\ step'[v] = "decode" /\ row'[v] - 1 = row[w]
      BY <1>1, <1>3, <2>1, ColumnSets DEF TypeOK, Rows
    <3>2. above[job[w]] = [row |-> row[w], of |-> "decoded"]
      BY <1>1, <2>1, <3>1 DEF AboveInv
    <3> QED  BY <2>1, <3>1, <3>2
  <2>2. CASE v # w
    BY <2>2 DEF AboveInv, TypeOK
  <2> QED  BY <2>1, <2>2
<1>16. AloneInv'
  BY <1>3 DEF AloneInv, Executing
<1> QED  BY <1>9, <1>10, <1>11, <1>13, <1>14, <1>15, <1>16

-----------------------------------------------------------------------------
(* The main function looks at the entry of its row: when all columns are   *)
(* counted, all have reported it.                                          *)
LEMMA AllCounted ==
  ASSUME TilesInv, Executing, NEW r \in Rows, entries[r] >= cols
  PROVE  RowReported(r)
<1>1. TypeOK /\ ReportedAt(r) \in SUBSET TileCols
  BY DEF TilesInv, ReportedAt
<1>2. Cardinality(ReportedAt(r)) = cols
  <2>1. entries[r] = Cardinality(ReportedAt(r)) /\ entries[r] \in 0 .. cols
    BY DEF TilesInv, EntriesInv, TypeOK
  <2> QED  BY <1>1, <2>1, ColumnSets
<1>3. ReportedAt(r) = TileCols
  BY <1>1, <1>2, ColumnSets
<1> QED  BY <1>3 DEF ReportedAt, RowReported

(* What the main function's steps leave as it is.                          *)
LEMMA MainReported ==
  ASSUME UNCHANGED <<poolVars, jobVars, cols>>
  PROVE  /\ SameJobs
         /\ \A r, c : (Reported(r, c)' <=> Reported(r, c)) /\ (Written(r, c)' <=> Written(r, c))
         /\ \A r : ReportedAt(r)' = ReportedAt(r) /\ (RowReported(r)' <=> RowReported(r))
         /\ TileCols' = TileCols
<1>1. SameJobs /\ UNCHANGED <<row, step, cols>>
  BY DEF SameJobs, poolVars, workerVars, batchVars, jobVars
<1> QED  BY <1>1, SameReported

LEMMA AwaitTiles ==
  ASSUME PoolInv, PoolInv', TilesInv, CheckProgress \/ AwaitProgress \/ SpuriousProgress
  PROVE  TilesInv'
<1> USE DEF TilesInv, CheckProgress, AwaitProgress, SpuriousProgress, Filtering
<1>1. /\ UNCHANGED <<poolVars, jobVars, entries, headVars, lrow, pix, above>>
      /\ mpc = "main" /\ lrow < SbRows
      /\ lstep' \in {"check", "await", "asleep", "filter"}
  OBVIOUS
<1>2. /\ mpc' = mpc /\ nb_jobs' = nb_jobs /\ nb_threads' = nb_threads /\ wpc' = wpc
      /\ job' = job /\ row' = row /\ step' = step
      /\ decoding' = decoding /\ cols' = cols /\ level' = level /\ result' = result
  BY <1>1 DEF poolVars, workerVars, batchVars, jobVars, headVars
<1>3. lrow \in Rows /\ Executing
  BY <1>1, ColumnSets DEF TypeOK, Rows, Executing
<1>4. TypeOK'
  BY <1>1, <1>2 DEF TypeOK, PoolInv
<1>5. HeadInv' /\ RowInv' /\ AboveInv' /\ AloneInv'
  BY <1>1, <1>2 DEF HeadInv, RowInv, AboveInv, AloneInv, Executing, TileCols
<1>6. EntriesInv' /\ PixInv'
  BY <1>1, <1>2, MainReported DEF EntriesInv, PixInv, NeverRan, Executing, Passed, Finished
<1>7. FilterInv'
  <2>1. lstep' = "filter" => RowReported(lrow)
    <3>1. cols \in Nat /\ entries[lrow] \in 0 .. cols
      BY <1>3, ColumnSets DEF TypeOK
    <3>2. entries[lrow] >= cols => RowReported(lrow)
      BY <1>3, AllCounted
    <3> QED  BY <3>1, <3>2
  <2>2. lrow # SbRows
    BY <1>1, ColumnSets DEF TypeOK
  <2> QED  BY <1>1, <1>2, <2>1, <2>2, MainReported DEF FilterInv, Executing, Passed, HeadInv
<1> QED  BY <1>4, <1>5, <1>6, <1>7

(* It filters a row that is decoded, and passes it.                        *)
LEMMA FilterTiles ==
  ASSUME PoolInv, PoolInv', TilesInv, FilterRow
  PROVE  /\ TilesInv'
         /\ decoding /\ lrow \in Rows
         /\ \A c \in TileCols : pix[lrow][c] = "decoded"
         /\ level /\ lrow > 0 => \A c \in TileCols : pix[lrow - 1][c] = "filtered"
<1> USE DEF TilesInv, FilterRow, Filtering
<1>1. /\ mpc' = mpc /\ nb_jobs' = nb_jobs /\ nb_threads' = nb_threads /\ wpc' = wpc
      /\ job' = job /\ row' = row /\ step' = step
      /\ decoding' = decoding /\ cols' = cols /\ level' = level /\ result' = result
      /\ UNCHANGED <<poolVars, jobVars, cols>>
  BY DEF poolVars, workerVars, batchVars, jobVars, headVars
<1>2. lrow \in Rows /\ Executing /\ decoding /\ SbRows \in Nat /\ lrow + 1 \in 0 .. SbRows
  BY ColumnSets DEF TypeOK, Rows, Executing, HeadInv
<1>3. RowReported(lrow)
  BY DEF FilterInv
<1>4. \A r \in Rows, c \in TileCols : Passed(r) => pix[r][c] = Finished(r)
  BY <1>2 DEF PixInv, FilterInv, RowReported
<1>5. \A c \in TileCols : pix[lrow][c] = "decoded"
  <2>1. ~Passed(lrow)  BY <1>2 DEF Passed, Rows
  <2> QED  BY <1>2, <1>3, <2>1 DEF PixInv, RowReported, Finished
<1>6. level /\ lrow > 0 => \A c \in TileCols : pix[lrow - 1][c] = "filtered"
  <2>1. lrow > 0 => lrow - 1 \in Rows /\ Passed(lrow - 1)
    BY <1>2 DEF Passed, Rows
  <2> QED  BY <1>4, <2>1 DEF Finished
<1>7. \A r \in Rows : Passed(r)' <=> Passed(r) \/ r = lrow
  BY <1>1, <1>2 DEF Passed, Rows
<1>8. FilteredRow(lrow) = [c \in Columns |-> IF c < cols THEN "filtered" ELSE pix[lrow][c]]
  <2>1. \A c \in Columns : c \in Nat
    BY SliceThreadAssumption DEF Columns
  <2>2. \A c \in Columns : ~(c >= cols) => c \in TileCols
    BY <2>1, ColumnSets DEF TileCols
  <2>3. \A c \in Columns : c >= cols <=> ~(c < cols)
    BY <2>1, ColumnSets
  <2> QED  BY <1>5, <2>2, <2>3 DEF FilteredRow
<1>9. TypeOK'
  <2>1. pix' \in [Rows -> [Columns -> Contents]]
    <3>1. FilteredRow(lrow) \in [Columns -> Contents]
      BY <1>2, <1>8 DEF TypeOK, Contents
    <3> QED  BY <1>2, <3>1 DEF TypeOK
  <2> QED  BY <1>1, <1>2, <2>1 DEF TypeOK, PoolInv
<1>10. HeadInv' /\ RowInv' /\ AboveInv' /\ AloneInv'
  BY <1>1 DEF HeadInv, RowInv, AboveInv, AloneInv, Executing, TileCols
<1>11. EntriesInv'
  BY <1>1, <1>2, MainReported DEF EntriesInv, NeverRan, Executing
<1>12. FilterInv'
  BY <1>1, <1>2, <1>3, <1>7, MainReported DEF FilterInv, Executing
<1>13. PixInv'
  <2> SUFFICES ASSUME NEW r \in Rows, NEW c \in TileCols
               PROVE  pix'[r][c] = IF Reported(r, c) THEN Finished(r)'
                                   ELSE IF Written(r, c) THEN "decoded" ELSE "old"
    BY <1>1, MainReported DEF PixInv
  <2>1. c \in Columns /\ c < cols
    BY ColumnSets DEF TileCols
  <2>2. CASE r = lrow
    <3>1. Reported(r, c)  BY <1>3, <2>2 DEF RowReported
    <3>2. Passed(r)'  BY <1>7, <2>2
    <3>3. pix'[r][c] = IF level THEN "filtered" ELSE "decoded"
      BY <1>2, <1>5, <1>8, <2>1, <2>2 DEF TypeOK
    <3> QED  BY <1>1, <3>1, <3>2, <3>3 DEF Finished
  <2>3. CASE r # lrow
    <3>1. pix'[r][c] = pix[r][c]
      BY <1>2, <2>3 DEF TypeOK
    <3>2. Finished(r)' = Finished(r)
      BY <1>1, <1>7, <2>3 DEF Finished
    <3> QED  BY <1>2, <3>1, <3>2 DEF PixInv
  <2> QED  BY <2>2, <2>3
<1> QED
  BY <1>2, <1>5, <1>6, <1>9, <1>10, <1>11, <1>12, <1>13

(* It returns when it has passed every row.                                *)
LEMMA EndFilterTiles ==
  ASSUME PoolInv, PoolInv', TilesInv, EndFilter
  PROVE  TilesInv'
<1> USE DEF TilesInv, EndFilter, MainReturns
<1>1. /\ mpc = "main" /\ mpc' = "wait" /\ lrow = SbRows /\ lstep = "check" /\ SameJobs
      /\ nb_jobs' = nb_jobs /\ nb_threads' = nb_threads /\ wpc' = wpc
      /\ job' = job /\ row' = row /\ step' = step
      /\ decoding' = decoding /\ cols' = cols /\ level' = level /\ result' = result
  BY DEF workerVars, batchVars, jobVars, headVars, SameJobs, FilterInv
<1>2. Executing /\ Executing' /\ \A r \in Rows : Passed(r) /\ Passed(r)'
  BY <1>1, ColumnSets DEF Executing, Passed, Rows
<1>3. TypeOK'
  BY <1>1, ColumnSets DEF TypeOK, PoolInv
<1>4. HeadInv' /\ RowInv' /\ AboveInv' /\ AloneInv'
  BY <1>1 DEF HeadInv, RowInv, AboveInv, AloneInv, Executing, TileCols
<1>5. EntriesInv' /\ FilterInv' /\ PixInv'
  BY <1>1, <1>2, SameReported, ColumnSets DEF EntriesInv, FilterInv, PixInv, NeverRan, Finished
<1> QED  BY <1>3, <1>4, <1>5

(* The frame ends with every row passed, or the thread waits for the last  *)
(* job.                                                                    *)
LEMMA EndFrameTiles ==
  ASSUME PoolInv, PoolInv', TilesInv, EndFrame
  PROVE  /\ TilesInv'
         /\ decoding
         /\ \A r \in Rows, c \in TileCols :
              pix[r][c] = IF level THEN "filtered" ELSE "decoded"
<1> USE DEF TilesInv, EndFrame, WaitDone
<1>1. /\ mpc = "wait" /\ mpc' \in {"idle", "pause"} /\ SameJobs
      /\ nb_jobs' = nb_jobs /\ nb_threads' = nb_threads /\ wpc' = wpc
      /\ job' = job /\ row' = row /\ step' = step
      /\ entries' = entries /\ cols' = cols /\ level' = level
      /\ lrow' = lrow /\ lstep' = lstep /\ pix' = pix /\ above' = above
      /\ result' \in {"none", "complete", "failed"}
  BY DEF workerVars, batchVars, jobVars, mainVars, SameJobs, TypeOK, Ended
<1>2. Executing /\ decoding /\ lrow = 0 /\ lstep = "check" /\ \A r \in Rows : Passed(r)
  BY <1>1 DEF Executing, Passed, HeadInv, FilterInv
<1>3. \A r \in Rows, c \in TileCols : pix[r][c] = IF level THEN "filtered" ELSE "decoded"
  BY <1>2 DEF PixInv, FilterInv, RowReported, Finished
<1>4. TypeOK'
  BY <1>1 DEF TypeOK, PoolInv
<1>5. RowInv' /\ AboveInv' /\ AloneInv' /\ HeadInv'
  <2>1. RowInv' /\ AboveInv' /\ AloneInv'
    BY <1>1 DEF RowInv, AboveInv, AloneInv
  <2>2. decoding' <=> mpc' # "idle"
    OBVIOUS
  <2>3. Executing' <=> mpc' # "idle"
    BY <1>1 DEF Executing
  <2>4. cols' = nb_jobs'
    BY <1>1, <1>2 DEF HeadInv
  <2> QED  BY <2>1, <2>2, <2>3, <2>4 DEF HeadInv
<1>6. CASE mpc' = "idle"
  <2>1. ~Executing' /\ ~NeverRan'
    BY <1>6 DEF Executing, NeverRan
  <2>2. lrow # SbRows
    BY <1>2, ColumnSets
  <2> QED  BY <1>1, <1>2, <1>3, <1>4, <1>5, <2>1, <2>2 DEF EntriesInv, FilterInv, PixInv
<1>7. CASE mpc' = "pause"
  <2>1. \A r \in Rows : Passed(r)'
    BY <1>7 DEF Passed
  <2>2. Executing' /\ ~NeverRan'
    BY <1>7 DEF Executing, NeverRan
  <2>3. EntriesInv' /\ FilterInv' /\ PixInv'
    BY <1>1, <1>2, <1>7, <2>1, <2>2, SameReported DEF EntriesInv, FilterInv, PixInv, Finished
  <2> QED  BY <1>2, <1>3, <1>4, <1>5, <2>3
<1> QED  BY <1>1, <1>6, <1>7

-----------------------------------------------------------------------------
(* Alone, without a pool.                                                  *)
LEMMA BeginAloneTiles ==
  ASSUME PoolInv, PoolInv', TilesInv, NEW n \in JobCounts, NEW lf \in BOOLEAN,
         BeginFrameAlone(n, lf)
  PROVE  TilesInv'
<1> USE DEF TilesInv, BeginFrameAlone
<1>1. /\ mpc = "alone" /\ mpc' = mpc /\ ~Executing /\ ~Executing' /\ wpc' = wpc
      /\ nb_threads' = nb_threads /\ row' = row /\ step' = step /\ entries' = entries
      /\ lrow' = lrow /\ lstep' = lstep
  BY DEF poolVars, workerVars, batchVars, jobVars, mainVars, Executing
<1>2. lrow = 0 /\ lstep = "check" /\ entries = NoEntries
  BY <1>1 DEF FilterInv, EntriesInv, NeverRan
<1>3. n \in Nat \ {0} /\ SbRows \in Nat \ {0}
  BY SliceThreadAssumption, RowsAssumption
<1>4. \A w \in Workers : wpc[w] # "run"
  BY <1>1, NobodyAtJob
<1>5. TypeOK'
  <2>1. /\ NoEntries \in [Rows -> 0 .. n]
        /\ Undecoded \in [Rows -> [Columns -> Contents]]
        /\ NothingSaved \in [Columns -> [row : Rows, of : Contents]]
    BY <1>3 DEF NoEntries, Undecoded, NothingSaved, Contents, Rows
  <2> QED  BY <1>1, <1>2, <2>1 DEF TypeOK, PoolInv
<1>6. HeadInv' /\ RowInv' /\ EntriesInv' /\ PixInv' /\ AboveInv'
  BY <1>1, <1>2, <1>4 DEF HeadInv, RowInv, EntriesInv, PixInv, AboveInv
<1>7. FilterInv'
  BY <1>1, <1>2, <1>3 DEF FilterInv
<1>8. AloneInv'
  <2>1. ASSUME NEW r \in Rows, NEW c \in TileCols'  PROVE  pix'[r][c] = "old" /\ ~(r < 0)
    <3>1. c \in Columns  BY ColumnOf DEF TileCols
    <3> QED  BY <3>1, <1>3 DEF Undecoded, Rows
  <2> QED  BY <1>1, <1>2, <2>1 DEF AloneInv
<1> QED  BY <1>5, <1>6, <1>7, <1>8

(* The steps of decode_tiles that stay in the frame.                       *)
LEMMA AloneTiles ==
  ASSUME PoolInv, PoolInv', TilesInv, mpc = "alone", decoding,
         UNCHANGED <<poolVars, jobVars, entries, headVars, lstep>>,
         lrow' \in 0 .. SbRows, pix' \in [Rows -> [Columns -> Contents]],
         above' \in [Columns -> [row : Rows, of : Contents]],
         AloneInv'
  PROVE  TilesInv'
<1> USE DEF TilesInv
<1>1. /\ mpc' = "alone" /\ ~Executing /\ ~Executing' /\ wpc' = wpc
      /\ nb_threads' = nb_threads /\ row' = row /\ step' = step
      /\ decoding' /\ cols' = cols /\ level' = level /\ result' = result /\ lstep = "check"
  BY DEF poolVars, workerVars, batchVars, jobVars, headVars, Executing, FilterInv
<1>2. \A w \in Workers : wpc[w] # "run"
  BY <1>1, NobodyAtJob
<1>3. TypeOK'
  BY <1>1 DEF TypeOK, PoolInv
<1>4. HeadInv' /\ RowInv' /\ EntriesInv' /\ FilterInv' /\ PixInv' /\ AboveInv'
  BY <1>1, <1>2 DEF HeadInv, RowInv, EntriesInv, NeverRan, FilterInv, PixInv, AboveInv
<1> QED  BY <1>3, <1>4

LEMMA TileAlone ==
  ASSUME PoolInv, PoolInv', TilesInv, NEW c \in Columns, DecodeTileAlone(c)
  PROVE  /\ TilesInv'
         /\ decoding /\ lrow \in Rows
         /\ DecodedTile(lrow, c) = "decoded"
         /\ lrow > 0 => lrow - 1 \in Rows /\ pix[lrow - 1][c] # "old"
<1> USE DEF TilesInv, DecodeTileAlone, Alone
<1>1. lrow \in Rows /\ SbRows \in Nat /\ cols \in Nat /\ c \in TileCols
  <2>1. c \in Nat  BY SliceThreadAssumption DEF Columns
  <2> QED  BY <2>1, ColumnSets DEF Rows, TypeOK, TileCols
<1>2. DecodedTile(lrow, c) = "decoded"
  <2>1. lrow = 0 \/ (0 < lrow /\ lrow < SbRows)
    BY <1>1 DEF Rows
  <2> QED  BY <1>1, <2>1 DEF DecodedTile, AloneInv
<1>3. lrow > 0 => lrow - 1 \in Rows /\ pix[lrow - 1][c] # "old"
  <2>1. lrow > 0 => lrow - 1 \in Rows /\ lrow - 1 < lrow
    BY <1>1 DEF Rows
  <2> QED  BY <1>1, <2>1 DEF AloneInv
<1>4. pix' = [pix EXCEPT ![lrow][c] = "decoded"]
  BY <1>2
<1>5. pix' \in [Rows -> [Columns -> Contents]]
  BY <1>1, <1>4 DEF TypeOK, Contents
<1>6. AloneInv'
  <2>1. cols' = cols /\ lrow' = lrow /\ level' = level /\ above' = above
    BY DEF headVars, mainVars
  <2>2. ASSUME NEW r \in Rows, NEW b \in TileCols
        PROVE  /\ r < lrow => pix'[r][b] = IF level THEN "filtered" ELSE "decoded"
               /\ r = lrow => pix'[r][b] \in {"old", "decoded"}
               /\ r > lrow => pix'[r][b] = "old"
    <3>1. b \in Columns  BY ColumnSets
    <3>2. CASE r = lrow
      BY <1>1, <1>4, <3>1, <3>2 DEF AloneInv, TypeOK, Rows
    <3>3. CASE r # lrow
      BY <1>1, <1>4, <3>1, <3>3 DEF AloneInv, TypeOK
    <3> QED  BY <3>2, <3>3
  <2> QED  BY <2>1, <2>2 DEF AloneInv, TileCols
<1>7. lrow' = lrow /\ lrow \in 0 .. SbRows /\ UNCHANGED <<poolVars, jobVars, entries, headVars, lstep>>
  BY <1>1 DEF mainVars, TypeOK
<1>8. above' \in [Columns -> [row : Rows, of : Contents]]
  BY DEF TypeOK
<1>9. TilesInv'
  BY <1>5, <1>6, <1>7, <1>8, AloneTiles
<1> QED  BY <1>1, <1>2, <1>3, <1>9

LEMMA RowAlone ==
  ASSUME PoolInv, PoolInv', TilesInv, FinishRowAlone
  PROVE  /\ TilesInv'
         /\ decoding /\ lrow \in Rows
         /\ \A c \in TileCols : pix[lrow][c] = "decoded"
         /\ level /\ lrow > 0 => \A c \in TileCols : pix[lrow - 1][c] = "filtered"
<1> USE DEF TilesInv, FinishRowAlone, Alone
<1>1. /\ lrow \in Rows /\ SbRows \in Nat /\ cols \in Nat /\ lrow + 1 \in 0 .. SbRows
      /\ cols' = cols /\ level' = level
  BY ColumnSets DEF Rows, TypeOK, headVars
<1>2. \A c \in TileCols : pix[lrow][c] = "decoded"
  BY <1>1 DEF AloneInv, TileCols
<1>3. level /\ lrow > 0 => \A c \in TileCols : pix[lrow - 1][c] = "filtered"
  <2>1. lrow > 0 => lrow - 1 \in Rows /\ lrow - 1 < lrow
    BY <1>1 DEF Rows
  <2> QED  BY <2>1 DEF AloneInv
<1>4. /\ \A c \in Columns : c < cols <=> c \in TileCols
      /\ \A c \in Columns : c >= cols <=> ~(c < cols)
  <2>1. \A c \in Columns : c \in Nat
    BY SliceThreadAssumption DEF Columns
  <2> QED  BY <1>1, <2>1 DEF TileCols
<1>5. FilteredRow(lrow) = [c \in Columns |-> IF c < cols THEN "filtered" ELSE pix[lrow][c]]
  BY <1>2, <1>4 DEF FilteredRow
<1>6. pix' \in [Rows -> [Columns -> Contents]]
  <2>1. FilteredRow(lrow) \in [Columns -> Contents]
    BY <1>1, <1>5 DEF TypeOK, Contents
  <2> QED  BY <1>1, <2>1 DEF TypeOK
<1>7. above' \in [Columns -> [row : Rows, of : Contents]]
  <2>1. \A c \in Columns : Saved(lrow, c) \in [row : Rows, of : Contents]
    BY <1>1 DEF Saved, TypeOK
  <2> QED  BY <2>1 DEF TypeOK
<1>8. AloneInv'
  <2>1. ASSUME NEW r \in Rows, NEW c \in TileCols
        PROVE  /\ r < lrow' => pix'[r][c] = IF level THEN "filtered" ELSE "decoded"
               /\ r = lrow' => pix'[r][c] \in {"old", "decoded"}
               /\ r > lrow' => pix'[r][c] = "old"
    <3>1. c \in Columns /\ c < cols  BY ColumnSets, <1>4
    <3>2. CASE r = lrow
      <4>1. pix'[r][c] = IF level THEN "filtered" ELSE "decoded"
        BY <1>1, <1>2, <1>5, <3>1, <3>2 DEF TypeOK
      <4> QED  BY <1>1, <3>2, <4>1 DEF Rows
    <3>3. CASE r # lrow
      <4>1. pix'[r][c] = pix[r][c]
        BY <1>1, <3>3 DEF TypeOK
      <4> QED  BY <1>1, <3>3, <4>1 DEF AloneInv, Rows
    <3> QED  BY <3>2, <3>3
  <2>2. lrow' < SbRows => \A c \in TileCols : above'[c] = [row |-> lrow' - 1, of |-> "decoded"]
    <3>1. ASSUME lrow' < SbRows, NEW c \in TileCols
          PROVE  above'[c] = [row |-> lrow, of |-> "decoded"]
      <4>1. c \in Columns /\ c < cols  BY ColumnSets, <1>4
      <4> QED  BY <1>2, <3>1, <4>1 DEF Saved
    <3>2. lrow' - 1 = lrow  BY <1>1 DEF Rows
    <3> QED  BY <3>1, <3>2
  <2> QED  BY <1>1, <2>1, <2>2 DEF AloneInv, TileCols
<1>9. TilesInv'
  BY <1>1, <1>6, <1>7, <1>8, AloneTiles
<1> QED  BY <1>1, <1>2, <1>3, <1>9

LEMMA EndAloneTiles ==
  ASSUME PoolInv, PoolInv', TilesInv, FailFrameAlone \/ EndFrameAlone
  PROVE  /\ TilesInv'
         /\ EndFrameAlone =>
              \A r \in Rows, c \in TileCols :
                pix[r][c] = IF level THEN "filtered" ELSE "decoded"
<1> USE DEF TilesInv, FailFrameAlone, EndFrameAlone, Alone
<1>1. /\ mpc = "alone" /\ mpc' = mpc /\ ~Executing /\ ~Executing' /\ wpc' = wpc
      /\ nb_threads' = nb_threads /\ row' = row /\ step' = step /\ lstep' = lstep
      /\ ~decoding' /\ lrow' = 0 /\ lstep = "check"
  BY DEF poolVars, workerVars, batchVars, jobVars, Executing, FilterInv
<1>2. \A w \in Workers : wpc[w] # "run"
  BY <1>1, NobodyAtJob
<1>3. TypeOK'
  <2>1. /\ entries' = entries /\ cols' = cols /\ level' = level /\ pix' = pix
        /\ above' = above /\ result' \in {"none", "complete", "failed"}
    BY DEF Ended
  <2>2. 0 \in 0 .. SbRows
    BY ColumnSets
  <2> QED  BY <1>1, <2>1, <2>2 DEF TypeOK, PoolInv
<1>4. TilesInv'
  BY <1>1, <1>2, <1>3, ColumnSets DEF HeadInv, RowInv, EntriesInv, NeverRan,
     FilterInv, PixInv, AboveInv, AloneInv
<1>5. EndFrameAlone => \A r \in Rows : r < lrow
  BY ColumnSets DEF Rows
<1> QED  BY <1>4, <1>5 DEF AloneInv

-----------------------------------------------------------------------------
LEMMA TilesInitInv == Init => PoolInv /\ TilesInv
<1> SUFFICES ASSUME Init PROVE PoolInv /\ TilesInv
  OBVIOUS
<1> USE DEF Init
<1>1. PoolInv
  BY PoolInitInv
<1>2. /\ mpc = "freed" /\ ~Executing /\ ~NeverRan
      /\ \A w \in Workers : wpc[w] # "run"
  BY DEF PoolInit, Executing, NeverRan
<1>3. cols \in Nat \ {0} /\ SbRows \in Nat \ {0}
  BY SliceThreadAssumption, RowsAssumption
<1>4. TypeOK
  <2>1. /\ NoEntries \in [Rows -> 0 .. cols]
        /\ Undecoded \in [Rows -> [Columns -> Contents]]
        /\ NothingSaved \in [Columns -> [row : Rows, of : Contents]]
    BY <1>3 DEF NoEntries, Undecoded, NothingSaved, Contents, Rows
  <2>2. row \in [Workers -> 0 .. SbRows] /\ lrow \in 0 .. SbRows
    BY <1>3
  <2>3. step \in [Workers -> {"decode", "backup", "report"}]
    OBVIOUS
  <2> QED  BY <1>1, <2>1, <2>2, <2>3 DEF TypeOK, PoolInv
<1>5. HeadInv /\ RowInv /\ EntriesInv /\ FilterInv /\ PixInv /\ AboveInv /\ AloneInv
  BY <1>2, <1>3 DEF HeadInv, RowInv, EntriesInv, FilterInv, PixInv, AboveInv, AloneInv
<1> QED  BY <1>1, <1>4, <1>5 DEF TilesInv

(* The steps of the pool's owner that are none of the main function's.     *)
LEMMA OwnerTiles ==
  ASSUME PoolInv, PoolInv', TilesInv,
         \/ Open \/ Close \/ RejectFrame
         \/ (CreateFails \/ CreateWorker \/ Greeted \/ Retire \/ Join) /\ UNCHANGED tileVars
  PROVE  TilesInv'
<1>1. /\ ~Executing /\ ~Executing'
      /\ UNCHANGED <<row, step, decoding, cols, level, lrow, lstep, pix, above>>
      /\ result' \in {"none", "complete", "failed"}
      /\ decoding /\ mpc = "alone" => mpc' = "alone"
  BY DEF Open, Close, RejectFrame, Create, CreateFails, CreateWorker, Greeted, Retire, Join,
     Free, FreeNothing, Executing, tileVars, jobVars, headVars, mainVars, poolVars,
     TilesInv, TypeOK
<1>2. entries' = NoEntries \/ (entries' = entries /\ (NeverRan' => NeverRan))
  <2>1. CASE Open
    BY <2>1 DEF Open
  <2>2. CASE Close
    BY <2>2, SliceThreadAssumption
       DEF Close, Free, FreeNothing, NeverRan, tileVars, PoolInv, CreatedInv
  <2>3. CASE RejectFrame
    BY <2>3 DEF RejectFrame, NeverRan, poolVars
  <2>4. CASE (CreateFails \/ CreateWorker \/ Greeted \/ Retire \/ Join) /\ UNCHANGED tileVars
    BY <2>4 DEF CreateFails, CreateWorker, Greeted, Retire, Join, NeverRan, tileVars
  <2> QED  BY <2>1, <2>2, <2>3, <2>4
<1> QED  BY <1>1, <1>2, OutsideTiles

(* The steps of the pool that leave the tiles alone.                       *)
LEMMA LoopTiles ==
  ASSUME PoolInv, PoolInv', TilesInv, UNCHANGED tileVars,
         \/ Wake \/ Spurious
         \/ \E w \in Workers : WorkerLoop(w)
  PROVE  TilesInv'
<1> USE DEF Goto, batchVars, workerVars
<1>1. CASE \E w \in Workers : Claim(w) \/ NextJob(w)
  <2> PICK w \in Workers : Claim(w) \/ NextJob(w)
    BY <1>1
  <2>1. Executing'
    BY InsideExecuting DEF Claim, NextJob, Executing
  <2> QED  BY <2>1, TakeTiles
<1>2. CASE /\ \/ Wake \/ SpuriousMain
              \/ \E w \in Workers : Rise(w) \/ Sleep(w) \/ Look(w) \/ Last(w) \/ SpuriousWorker(w)
  <2>1. SameJobs
    BY <1>2 DEF SameJobs, Wake, Signal, SpuriousMain, Rise, Sleep, Look, Last, SpuriousWorker,
       PoolInv, PoolTypeOK
  <2>2. /\ Executing' <=> Executing
        /\ mpc = "main" => mpc' = "main"
        /\ \A r : Passed(r)' <=> Passed(r)
        /\ decoding /\ mpc = "alone" => mpc' = "alone"
        /\ NeverRan' => NeverRan
    <3>1. lrow' = lrow
      BY DEF tileVars, mainVars
    <3>2. \/ mpc' = mpc
          \/ mpc = "wake" /\ mpc' = "main"
          \/ mpc = "greet" /\ mpc' = "greeted"
          \/ mpc = "pause" /\ mpc' = "wait"
      BY <1>2 DEF Wake, SpuriousMain, Rise, Sleep, Look, Last, SpuriousWorker
    <3>3. nb_threads' = nb_threads
      BY <1>2 DEF Wake, SpuriousMain, Rise, Sleep, Look, Last, SpuriousWorker
    <3> QED  BY <3>1, <3>2, <3>3 DEF Executing, Passed, NeverRan
  <2>3. CASE Executing
    BY <2>1, <2>2, <2>3, InsideTiles
  <2>4. CASE ~Executing
    BY <2>2, <2>4, OutsideTiles DEF tileVars, jobVars, headVars, mainVars, TilesInv, TypeOK
  <2> QED  BY <2>3, <2>4
<1> QED  BY <1>1, <1>2 DEF WorkerLoop, Spurious

LEMMA TilesNextInv == PoolInv /\ TilesInv /\ [Next]_vars => (PoolInv /\ TilesInv)'
<1> SUFFICES ASSUME PoolInv, TilesInv, [Next]_vars PROVE (PoolInv /\ TilesInv)'
  OBVIOUS
<1>1. PoolInv'
  BY PoolStep, PoolNextInv
<1>2. CASE UNCHANGED vars
  BY <1>1, <1>2 DEF vars, poolVars, workerVars, batchVars, tileVars, jobVars, headVars,
     mainVars, TilesInv, TypeOK, HeadInv, RowInv, EntriesInv, FilterInv, PixInv, AboveInv,
     AloneInv, PoolInv, NeverRan, Executing, ReportedAt, Reported, RowReported, Written,
     Runs, Taken, TileCols, Passed, Finished
<1>3. CASE HostStep
  BY <1>1, <1>3, OwnerTiles, BeginTiles, BeginAloneTiles DEF HostStep
<1>4. CASE MainStep
  BY <1>1, <1>4, OwnerTiles, LoopTiles, AwaitTiles, FilterTiles, EndFilterTiles, EndFrameTiles,
     TileAlone, RowAlone, EndAloneTiles DEF MainStep
<1>5. CASE Unscheduled
  BY <1>1, <1>5, LoopTiles, AwaitTiles, EndAloneTiles DEF Unscheduled
<1>6. ASSUME NEW w \in Workers, WorkerStep(w)
      PROVE  TilesInv'
  BY <1>1, <1>6, LoopTiles, DecodeTiles, BackupTiles, ReportTiles, EndTileTiles DEF WorkerStep
<1> QED  BY <1>1, <1>2, <1>3, <1>4, <1>5, <1>6 DEF Next

(* The variables have their types, for any number of threads, columns and  *)
(* rows: the count of columns that have reported a row never exceeds the   *)
(* number of columns, so the loop filter's wait for equality cannot miss   *)
(* it.                                                                     *)
THEOREM TilesTypeCorrect == Spec => []TypeOK
<1>1. TilesInv => TypeOK  BY DEF TilesInv
<1> QED  BY <1>1, TilesInitInv, TilesNextInv, PTL DEF Spec

-----------------------------------------------------------------------------
(* The refinement: each step of the threads is a step of TiledFrame or     *)
(* leaves the frame as it is.                                              *)
LEMMA FrameColumns == Frames!Columns = Columns /\ Frames!Rows = Rows
BY DEF Frames!Columns, Columns, Frames!Rows, Rows

LEMMA DecodeStep ==
  ASSUME TypeOK, decoding, NEW r \in Rows, NEW c \in Columns, pix[r][c] = "old",
         r > 0 => pix[r - 1][c] # "old",
         pix' = [pix EXCEPT ![r][c] = "decoded"],
         UNCHANGED <<decoding, cols, level, result>>
  PROVE  Frames!FrameNext
<1>1. Frames!Decode(r, c)
  BY DEF Frames!Decode
<1> QED  BY <1>1, FrameColumns DEF Frames!FrameNext

LEMMA FilterStep ==
  ASSUME TypeOK, decoding, NEW r \in Rows,
         \A c \in TileCols : pix[r][c] = "decoded",
         level /\ r > 0 => \A c \in TileCols : pix[r - 1][c] = "filtered",
         pix' = IF level THEN [pix EXCEPT ![r] = FilteredRow(r)] ELSE pix,
         UNCHANGED <<decoding, cols, level, result>>
  PROVE  [Frames!FrameNext]_Frames!frameVars
<1>1. CASE ~level
  BY <1>1 DEF Frames!frameVars
<1>2. CASE level
  <2>1. FilteredRow(r) = [c \in Columns |-> IF c < cols THEN "filtered" ELSE pix[r][c]]
    <3>1. \A c \in Columns : c \in Nat
      BY SliceThreadAssumption DEF Columns
    <3>2. \A c \in Columns : (c >= cols <=> ~(c < cols)) /\ (c < cols => c \in TileCols)
      BY <3>1, ColumnSets DEF TileCols
    <3> QED  BY <3>2 DEF FilteredRow
  <2>2. pix' = [pix EXCEPT ![r] = [c \in Columns |-> IF c < cols THEN "filtered" ELSE pix[r][c]]]
    BY <1>2, <2>1
  <2>3. Frames!Filter(r)
    BY <1>2, <2>2, FrameColumns DEF Frames!Filter, TileCols
  <2> QED  BY <2>3, FrameColumns DEF Frames!FrameNext
<1> QED  BY <1>1, <1>2 DEF TypeOK

LEMMA EndStep ==
  ASSUME decoding, ~decoding', decoding' \in BOOLEAN, UNCHANGED <<cols, level, pix>>,
         \/ result' = "failed"
         \/ /\ result' = "complete"
            /\ \A r \in Rows, c \in TileCols :
                 pix[r][c] = IF level THEN "filtered" ELSE "decoded"
  PROVE  Frames!FrameNext
<1>1. decoding' = FALSE
  OBVIOUS
<1>2. Frames!End
  BY <1>1, FrameColumns DEF Frames!End, Frames!Complete, TileCols
<1> QED  BY <1>2 DEF Frames!FrameNext

LEMMA BeginStep ==
  ASSUME NEW n \in JobCounts, NEW lf \in BOOLEAN, ~decoding,
         decoding' = TRUE, cols' = n, level' = lf, pix' = Undecoded, result' = "none"
  PROVE  Frames!FrameNext
<1>1. Frames!Begin(n, lf)
  BY FrameColumns DEF Frames!Begin, Frames!Undecoded, Undecoded
<1> QED  BY <1>1 DEF Frames!FrameNext

LEMMA FrameStep ==
  ASSUME PoolInv, TilesInv, [Next]_vars
  PROVE  [Frames!FrameNext]_Frames!frameVars
<1>1. (PoolInv /\ TilesInv)'
  BY TilesNextInv
<1>2. CASE \/ UNCHANGED vars \/ UNCHANGED tileVars \/ Open \/ Close
           \/ CheckProgress \/ AwaitProgress \/ SpuriousProgress \/ EndFilter
           \/ \E w \in Workers : BackupRow(w) \/ ReportRow(w) \/ EndTile(w)
  BY <1>2 DEF vars, tileVars, headVars, Open, Close, CheckProgress, AwaitProgress,
     SpuriousProgress, EndFilter, BackupRow, ReportRow, EndTile, Frames!frameVars
<1>3. CASE RejectFrame
  <2>1. Frames!Reject
    BY <1>3 DEF RejectFrame, Frames!Reject
  <2> QED  BY <2>1 DEF Frames!FrameNext
<1>4. ASSUME NEW n \in JobCounts, NEW lf \in BOOLEAN, BeginFrame(n, lf) \/ BeginFrameAlone(n, lf)
      PROVE  Frames!FrameNext
  <2>1. ~decoding
    BY <1>4 DEF BeginFrame, BeginFrameAlone, Execute, TilesInv, HeadInv, Executing
  <2> QED  BY <1>4, <2>1, BeginStep DEF BeginFrame, BeginFrameAlone
<1>5. CASE FilterRow
  <2>1. /\ decoding /\ lrow \in Rows
        /\ \A c \in TileCols : pix[lrow][c] = "decoded"
        /\ level /\ lrow > 0 => \A c \in TileCols : pix[lrow - 1][c] = "filtered"
    BY <1>1, <1>5, FilterTiles
  <2> QED  BY <1>5, <2>1, FilterStep DEF FilterRow, headVars, TilesInv
<1>6. CASE EndFrame
  <2>1. /\ decoding
        /\ \A r \in Rows, c \in TileCols : pix[r][c] = IF level THEN "filtered" ELSE "decoded"
    BY <1>1, <1>6, EndFrameTiles
  <2>2. UNCHANGED <<cols, level, pix>> /\ (decoding' <=> mpc' # "idle")
    BY <1>6 DEF EndFrame
  <2>3. CASE mpc' = "idle"
    <3>1. result' \in Ended
      BY <1>6, <2>3 DEF EndFrame
    <3>2. decoding' \in BOOLEAN
      BY <1>1 DEF TilesInv, TypeOK
    <3> QED  BY <2>1, <2>2, <2>3, <3>1, <3>2, EndStep DEF Ended
  <2>4. CASE mpc' # "idle"
    <3>1. result' = result
      BY <1>6, <2>4 DEF EndFrame
    <3>2. decoding' = decoding
      BY <1>1, <2>1, <2>2, <2>4 DEF TilesInv, TypeOK
    <3> QED  BY <2>2, <3>1, <3>2 DEF Frames!frameVars
  <2> QED  BY <2>3, <2>4
<1>7. ASSUME NEW c \in Columns, DecodeTileAlone(c)
      PROVE  Frames!FrameNext
  <2>1. /\ decoding /\ lrow \in Rows /\ DecodedTile(lrow, c) = "decoded"
        /\ lrow > 0 => pix[lrow - 1][c] # "old"
    BY <1>1, <1>7, TileAlone
  <2> QED  BY <1>7, <2>1, DecodeStep DEF DecodeTileAlone, headVars, TilesInv
<1>8. CASE FinishRowAlone
  <2>1. /\ decoding /\ lrow \in Rows
        /\ \A c \in TileCols : pix[lrow][c] = "decoded"
        /\ level /\ lrow > 0 => \A c \in TileCols : pix[lrow - 1][c] = "filtered"
    BY <1>1, <1>8, RowAlone
  <2> QED  BY <1>8, <2>1, FilterStep DEF FinishRowAlone, headVars, TilesInv
<1>9. CASE FailFrameAlone \/ EndFrameAlone
  <2>1. EndFrameAlone => \A r \in Rows, c \in TileCols :
                           pix[r][c] = IF level THEN "filtered" ELSE "decoded"
    BY <1>1, <1>9, EndAloneTiles
  <2> QED  BY <1>9, <2>1, EndStep DEF FailFrameAlone, EndFrameAlone, Alone, Ended
<1>10. ASSUME NEW w \in Workers, DecodeRow(w)
       PROVE  Frames!FrameNext
  <2>1. wpc[w] = "run" /\ step[w] = "decode" /\ row[w] \in Rows
    BY <1>10, ColumnSets DEF DecodeRow, At, TilesInv, TypeOK, Rows
  <2>2. /\ Executing /\ decoding /\ job[w] \in TileCols /\ job[w] \in Columns
        /\ \A r \in Rows : (Reported(r, job[w]) <=> r < row[w]) /\ ~Written(r, job[w])
    BY <2>1, AtJob
  <2>3. DecodedTile(row[w], job[w]) = "decoded"
    BY <1>1, <1>10, DecodeTiles
  <2>4. pix[row[w]][job[w]] = "old"
    BY <2>1, <2>2 DEF TilesInv, PixInv, Rows
  <2>5. row[w] > 0 => pix[row[w] - 1][job[w]] # "old"
    <3>1. row[w] > 0 => row[w] - 1 \in Rows /\ row[w] - 1 < row[w]
      BY <2>1, RowsAssumption DEF Rows
    <3> QED  BY <2>2, <3>1 DEF TilesInv, PixInv, Finished
  <2> QED  BY <1>10, <2>1, <2>2, <2>3, <2>4, <2>5, DecodeStep DEF DecodeRow, headVars, TilesInv
<1> QED
  BY <1>2, <1>3, <1>4, <1>5, <1>6, <1>7, <1>8, <1>9, <1>10
     DEF Next, HostStep, MainStep, Unscheduled, WorkerStep

(* However the jobs and the loop filter are scheduled, and without a pool  *)
(* too, a frame is decoded as TiledFrame says: every tile of it once, from *)
(* the unfiltered row above, each row filtered once, after all its tiles   *)
(* and after the rows before it, and a frame that vp9_decode_frame returns *)
(* as complete is complete and is not written any more.                    *)
THEOREM TilesDecodeTheFrame == Spec => FrameSpec
<1>1. Init => Frames!FrameInit
  BY FrameColumns DEF Init, Frames!FrameInit, Frames!Undecoded, Undecoded
<1>2. Init => PoolInv /\ TilesInv
  BY TilesInitInv
<1>3. PoolInv /\ TilesInv /\ [Next]_vars => (PoolInv /\ TilesInv)'
  BY TilesNextInv
<1>4. PoolInv /\ TilesInv /\ [Next]_vars => [Frames!FrameNext]_Frames!frameVars
  BY FrameStep
<1> QED  BY <1>1, <1>2, <1>3, <1>4, PTL DEF Spec, FrameSpec, Frames!FrameSpec

=============================================================================
