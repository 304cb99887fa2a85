---------------------------- MODULE SliceThread ----------------------------
(***************************************************************************)
(* libavutil/slicethread.c as libavcodec uses it for VP9: a pool of worker *)
(* threads, one thread that hands them batches of numbered jobs, and a     *)
(* main function which that thread runs beside the jobs.  VP9 is the only  *)
(* decoder of this program with slice threads and has a main function, so  *)
(* every thread of the pool is a worker and nb_workers = nb_threads.       *)
(*                                                                         *)
(* A thread that waits on a condition is at a place of its own ("asleep",  *)
(* "greet", "pause"); a signal, or a spurious wakeup, moves it on to where *)
(* it takes the mutex again and looks.  A critical section that does not   *)
(* wait is one step.  w->mutex is different: a worker keeps it while it    *)
(* runs jobs, see HoldsMutex.                                              *)
(***************************************************************************)
EXTENDS Integers, FiniteSets

CONSTANTS
  MaxThreads,    \* the thread count the decoder is opened with
  JobCounts,     \* the numbers of jobs a batch may have
  CreateMayFail  \* whether pthread_create may fail

ASSUME SliceThreadAssumption ==
  /\ MaxThreads \in Nat \ {0, 1}   \* with one, no pool is created
  /\ JobCounts \subseteq Nat \ {0}
  /\ CreateMayFail \in BOOLEAN

Workers == 0 .. MaxThreads - 1

VARIABLES
  wpc,                \* where each worker is
  wdone,              \* WorkerContext.done of each worker
  job,                \* current_job, the local variable of run_jobs
  mpc,                \* where the thread that owns the pool is
  index,              \* its loop variable i
  nb_threads,         \* the fields of AVSliceThread ...
  nb_active_threads,
  nb_jobs,
  first_job,
  current_job,
  done,
  finished

workerVars == <<wpc, wdone, job>>
batchVars  == <<nb_active_threads, nb_jobs, first_job, current_job>>
poolVars   == <<workerVars, mpc, index, nb_threads, batchVars, done, finished>>

WorkerPlaces ==
  {"none",              \* no such thread
   "lock",              \* created, about to lock its mutex
   "top",               \* about to set done and wait
   "asleep", "awake",   \* waiting, or woken and about to look at done
   "claim",             \* entering run_jobs
   "run",               \* inside worker_func
   "next",              \* at the loop's condition
   "last",              \* run_jobs has returned true
   "exited"}

MainPlaces ==
  {"freed",                       \* no pool
   "create", "greet", "greeted",  \* avpriv_slicethread_create
   "idle",                        \* between calls
   "wake", "main", "wait", "pause",  \* avpriv_slicethread_execute
   "retire", "join",              \* avpriv_slicethread_free
   "alone"}                       \* the pool could not be created

(* A worker locks its mutex before anything else and only waiting for its  *)
(* condition, or exiting, gives it up: it holds it all through run_jobs.   *)
HoldsMutex(w) == wpc[w] \in {"top", "claim", "run", "next", "last"}

PoolInit ==
  /\ wpc = [w \in Workers |-> "none"]
  /\ wdone = [w \in Workers |-> FALSE]
  /\ job = [w \in Workers |-> 0]
  /\ mpc = "freed"
  /\ index = 0
  /\ nb_threads = 0
  /\ nb_active_threads = 0
  /\ nb_jobs = 0
  /\ first_job = 0
  /\ current_job = 0
  /\ done = FALSE
  /\ finished = FALSE

Goto(w, place) == wpc' = [wpc EXCEPT ![w] = place]

-----------------------------------------------------------------------------
(* avpriv_slicethread_create: the structure is cleared, then the workers   *)
(* are created one by one, ...                                             *)
Create ==
  /\ mpc = "freed"
  /\ mpc' = "create"
  /\ index' = 0
  /\ nb_threads' = MaxThreads
  /\ nb_active_threads' = 0 /\ nb_jobs' = 0
  /\ first_job' = 0 /\ current_job' = 0
  /\ done' = FALSE /\ finished' = FALSE
  /\ UNCHANGED workerVars

CreateWorker ==
  /\ mpc = "create"
  /\ Goto(index, "lock")
  /\ wdone' = [wdone EXCEPT ![index] = FALSE]
  /\ mpc' = "greet"
  /\ UNCHANGED <<job, index, nb_threads, batchVars, done, finished>>

(* ... each waiting for the new thread to have set its done flag.          *)
Greeted ==
  /\ mpc = "greeted"
  /\ ~HoldsMutex(index)
  /\ IF wdone[index]
     THEN /\ index' = index + 1
          /\ mpc' = IF index + 1 = MaxThreads THEN "idle" ELSE "create"
     ELSE mpc' = "greet" /\ UNCHANGED index
  /\ UNCHANGED <<workerVars, nb_threads, batchVars, done, finished>>

(* When a thread cannot be created the ones before it are freed again, and *)
(* ff_slice_thread_init turns threading off.                               *)
CreateFails ==
  /\ CreateMayFail
  /\ mpc = "create"
  /\ nb_threads' = index
  /\ finished' = TRUE
  /\ index' = 0
  /\ mpc' = "retire"
  /\ UNCHANGED <<workerVars, batchVars, done>>

-----------------------------------------------------------------------------
(* avpriv_slicethread_execute: the batch is set up, ... *)
Smaller(m, n) == IF m < n THEN m ELSE n

Execute(n) ==
  /\ mpc = "idle"
  /\ nb_jobs' = n
  /\ nb_active_threads' = Smaller(n, nb_threads)
  /\ first_job' = 0
  /\ current_job' = nb_active_threads'
  /\ index' = 0
  /\ mpc' = "wake"
  /\ UNCHANGED <<workerVars, nb_threads, done, finished>>

(* w->done = 0 and the signal that goes with it                            *)
Signal(w) ==
  /\ ~HoldsMutex(w)
  /\ wdone' = [wdone EXCEPT ![w] = FALSE]
  /\ wpc' = [wpc EXCEPT ![w] = IF @ = "asleep" THEN "awake" ELSE @]

(* ... the workers it needs are woken, ... *)
Wake ==
  /\ mpc = "wake"
  /\ Signal(index)
  /\ index' = index + 1
  /\ mpc' = IF index + 1 = nb_active_threads THEN "main" ELSE "wake"
  /\ UNCHANGED <<job, nb_threads, batchVars, done, finished>>

(* ... the main function runs and returns, ... *)
MainReturns ==
  /\ mpc = "main"
  /\ mpc' = "wait"
  /\ UNCHANGED <<workerVars, index, nb_threads, batchVars, done, finished>>

(* ... and the last job is awaited.                                        *)
WaitDone ==
  /\ mpc = "wait"
  /\ IF done THEN mpc' = "idle" /\ done' = FALSE
             ELSE mpc' = "pause" /\ UNCHANGED done
  /\ UNCHANGED <<workerVars, index, nb_threads, batchVars, finished>>

-----------------------------------------------------------------------------
(* avpriv_slicethread_free *)
Free ==
  /\ mpc = "idle"
  /\ finished' = TRUE
  /\ index' = 0
  /\ mpc' = "retire"
  /\ UNCHANGED <<workerVars, nb_threads, batchVars, done>>

Retire ==
  /\ mpc = "retire"
  /\ IF index < nb_threads
     THEN Signal(index) /\ index' = index + 1 /\ UNCHANGED mpc
     ELSE index' = 0 /\ mpc' = "join" /\ UNCHANGED <<wpc, wdone>>
  /\ UNCHANGED <<job, nb_threads, batchVars, done, finished>>

Join ==
  /\ mpc = "join"
  /\ IF index < nb_threads
     THEN /\ wpc[index] = "exited"
          /\ Goto(index, "none")
          /\ index' = index + 1
          /\ UNCHANGED mpc
     ELSE /\ mpc' = IF nb_threads < MaxThreads THEN "alone" ELSE "freed"
          /\ UNCHANGED <<wpc, index>>
  /\ UNCHANGED <<wdone, job, nb_threads, batchVars, done, finished>>

(* The decoder is closed: without a pool there is nothing to free.         *)
FreeNothing ==
  /\ mpc = "alone"
  /\ mpc' = "freed"
  /\ UNCHANGED <<workerVars, index, nb_threads, batchVars, done, finished>>

-----------------------------------------------------------------------------
(* thread_worker: the new thread locks its mutex, which its creator gives  *)
(* up by waiting, and signals the creator.                                 *)
Rise(w) ==
  /\ wpc[w] = "lock"
  /\ Goto(w, "top")
  /\ mpc' = IF mpc = "greet" THEN "greeted" ELSE mpc
  /\ UNCHANGED <<wdone, job, index, nb_threads, batchVars, done, finished>>

Sleep(w) ==
  /\ wpc[w] = "top"
  /\ wdone' = [wdone EXCEPT ![w] = TRUE]
  /\ Goto(w, "asleep")
  /\ UNCHANGED <<job, mpc, index, nb_threads, batchVars, done, finished>>

Look(w) ==
  /\ wpc[w] = "awake"
  /\ Goto(w, IF wdone[w] THEN "asleep" ELSE IF finished THEN "exited" ELSE "claim")
  /\ UNCHANGED <<wdone, job, mpc, index, nb_threads, batchVars, done, finished>>

(* A faulty claim: the counter is read but not advanced in one step.       *)
ClaimShared(w) ==
  /\ wpc[w] = "claim"
  /\ job' = [job EXCEPT ![w] = first_job]
  /\ Goto(w, "run")
  /\ UNCHANGED <<wdone, mpc, index, nb_threads, batchVars, done, finished>>

(* run_jobs: the first job is taken from first_job, ... *)
Claim(w) ==
  /\ wpc[w] = "claim"
  /\ job' = [job EXCEPT ![w] = first_job]
  /\ first_job' = first_job + 1
  /\ Goto(w, "run")
  /\ UNCHANGED <<wdone, mpc, index, nb_threads, nb_active_threads, nb_jobs,
                 current_job, done, finished>>

JobReturns(w) ==
  /\ wpc[w] = "run"
  /\ Goto(w, "next")
  /\ UNCHANGED <<wdone, job, mpc, index, nb_threads, batchVars, done, finished>>

(* A faulty end of the loop: the first worker without a job calls the      *)
(* batch done.                                                             *)
NextFirst(w) ==
  /\ wpc[w] = "next"
  /\ current_job' = current_job + 1
  /\ job' = [job EXCEPT ![w] = current_job]
  /\ Goto(w, IF current_job < nb_jobs THEN "run"
             ELSE IF current_job = nb_jobs THEN "last" ELSE "top")
  /\ UNCHANGED <<wdone, mpc, index, nb_threads, nb_active_threads, nb_jobs,
                 first_job, done, finished>>

(* ... the others from current_job; the worker that finds every other one  *)
(* out of jobs is the last.                                                *)
NextJob(w) ==
  /\ wpc[w] = "next"
  /\ current_job' = current_job + 1
  /\ job' = [job EXCEPT ![w] = current_job]
  /\ Goto(w, IF current_job < nb_jobs THEN "run"
             ELSE IF current_job = nb_jobs + nb_active_threads - 1 THEN "last"
             ELSE "top")
  /\ UNCHANGED <<wdone, mpc, index, nb_threads, nb_active_threads, nb_jobs,
                 first_job, done, finished>>

(* A faulty announcement: the flag is set without a signal.                *)
LastSilent(w) ==
  /\ wpc[w] = "last"
  /\ done' = TRUE
  /\ Goto(w, "top")
  /\ UNCHANGED <<wdone, job, mpc, index, nb_threads, batchVars, finished>>

Last(w) ==
  /\ wpc[w] = "last"
  /\ done' = TRUE
  /\ mpc' = IF mpc = "pause" THEN "wait" ELSE mpc
  /\ Goto(w, "top")
  /\ UNCHANGED <<wdone, job, index, nb_threads, batchVars, finished>>

(* pthread_cond_wait may return without a signal.                          *)
SpuriousWorker(w) ==
  /\ wpc[w] = "asleep"
  /\ Goto(w, "awake")
  /\ UNCHANGED <<wdone, job, mpc, index, nb_threads, batchVars, done, finished>>

SpuriousMain ==
  /\ \/ mpc = "greet" /\ mpc' = "greeted"
     \/ mpc = "pause" /\ mpc' = "wait"
  /\ UNCHANGED <<workerVars, index, nb_threads, batchVars, done, finished>>

-----------------------------------------------------------------------------
(* The steps by which the threads get on by themselves, whatever the jobs  *)
(* and the main function are.                                              *)
WorkerLoop(w) ==
  Rise(w) \/ Sleep(w) \/ Look(w) \/ Claim(w) \/ NextJob(w) \/ Last(w)

MainLoop ==
  CreateWorker \/ Greeted \/ Wake \/ WaitDone \/ Retire \/ Join

Spurious == SpuriousMain \/ \E w \in Workers : SpuriousWorker(w)

PoolNext ==
  \/ Create \/ CreateFails \/ Free \/ FreeNothing
  \/ \E n \in JobCounts : Execute(n)
  \/ MainLoop \/ MainReturns
  \/ \E w \in Workers : WorkerLoop(w) \/ JobReturns(w)
  \/ Spurious

PoolSpec == PoolInit /\ [][PoolNext]_poolVars

-----------------------------------------------------------------------------
(* Properties *)

PoolTypeOK ==
  /\ wpc \in [Workers -> WorkerPlaces]
  /\ wdone \in [Workers -> BOOLEAN]
  /\ job \in [Workers -> Nat]
  /\ mpc \in MainPlaces
  /\ index \in 0 .. MaxThreads
  /\ nb_threads \in 0 .. MaxThreads
  /\ nb_active_threads \in 0 .. MaxThreads
  /\ nb_jobs \in Nat
  /\ first_job \in Nat
  /\ current_job \in Nat
  /\ done \in BOOLEAN
  /\ finished \in BOOLEAN

Executing == mpc \in {"wake", "main", "wait", "pause"}

(* The two counters of run_jobs, one for first jobs and one for the rest,  *)
(* never hand out a job that does not exist, nor one job to two workers    *)
(* that run at the same time.                                              *)
JobsDistinct ==
  /\ \A w \in Workers : wpc[w] = "run" => job[w] < nb_jobs
  /\ \A w, v \in Workers :
       wpc[w] = "run" /\ wpc[v] = "run" /\ job[w] = job[v] => w = v

(* The fields of a batch are read by the workers without a lock.  When     *)
(* execute has returned, and so whenever they are written for the next     *)
(* batch, no worker is still inside run_jobs or about to enter it, nor is  *)
(* a late announcement of the old batch under way.                         *)
QuietBetweenBatches ==
  ~Executing =>
    /\ \A w \in Workers : wpc[w] \notin {"claim", "run", "next", "last"}
    /\ ~done

=============================================================================
