------------------------- MODULE SliceThreadProofs -------------------------
(***************************************************************************)
(* Proofs about SliceThread, for any number of threads and any jobs.       *)
(*                                                                         *)
(* The argument counts: first_job counts the workers of the batch that     *)
(* have taken their first job, and what current_job exceeds the number of  *)
(* jobs by counts those that have found no more.  So the worker that       *)
(* reads nb_jobs + nb_active_threads - 1 is the last one inside.           *)
(***************************************************************************)
EXTENDS SliceThread, FiniteSetTheorems, TLAPS

(* A worker that waits for the next batch, or is about to.                 *)
Resting(w) ==
  wpc[w] = "top" \/ (wpc[w] \in {"asleep", "awake"} /\ wdone[w])

Called(w) == wpc[w] = "awake" /\ ~wdone[w]

Working(w) == wpc[w] \in {"claim", "run", "next"}

Active    == 0 .. nb_active_threads - 1
Woken(w)  == mpc # "wake" \/ w < index
Unclaimed == {w \in Active : ~Woken(w) \/ Called(w) \/ wpc[w] = "claim"}
Out       == {w \in Active : Woken(w) /\ (Resting(w) \/ wpc[w] = "last")}

(* A sleeping worker is done; one that has not risen yet is not.           *)
WorkersInv ==
  \A w \in Workers :
    /\ wpc[w] = "asleep" => wdone[w]
    /\ wpc[w] = "lock" => ~wdone[w] /\ w = index /\ mpc \in {"greet", "greeted"}

(* There are no threads but those created and not yet joined.              *)
NoThread(w) ==
  CASE mpc \in {"freed", "alone"}    -> TRUE
    [] mpc = "create"                -> w >= index
    [] mpc \in {"greet", "greeted"}  -> w > index
    [] mpc = "retire"                -> w >= nb_threads
    [] mpc = "join"                  -> w < index \/ w >= nb_threads
    [] OTHER                         -> FALSE

ThreadsInv == \A w \in Workers : NoThread(w) => wpc[w] = "none"

(* Outside a batch nobody is in run_jobs nor on the way to it.             *)
QuietInv ==
  ~Executing =>
    /\ ~done
    /\ \A w \in Workers :
         /\ ~Working(w) /\ wpc[w] # "last"
         /\ Called(w) => finished

(* How far the pool has been created.                                      *)
CreatedInv ==
  /\ mpc \in {"create", "greet", "greeted", "idle"} \/ Executing =>
       ~finished /\ nb_threads = MaxThreads
  /\ mpc = "retire" => finished
  /\ mpc \in {"create", "greet", "greeted"} =>
       index < MaxThreads /\ \A w \in 0 .. index - 1 : Resting(w)
  /\ mpc \in {"greet", "greeted"} => wpc[index] = "lock" \/ Resting(index)
  /\ mpc = "idle" => \A w \in Workers : Resting(w)

(* Where the workers are during a batch, ...                               *)
BatchInv ==
  Executing =>
    /\ nb_jobs \in Nat \ {0}
    /\ nb_active_threads = Smaller(nb_jobs, MaxThreads)
    /\ mpc = "wake" => index < nb_active_threads
    /\ \A w \in Workers :
         \/ Resting(w)
         \/ w \in Active /\ Woken(w) /\ (Called(w) \/ Working(w) \/ wpc[w] = "last")
    /\ \A w \in Workers : Working(w) => ~wdone[w]

(* ... what the counters count, ...                                        *)
CountInv ==
  Executing =>
    /\ first_job + Cardinality(Unclaimed) = nb_active_threads
    /\ current_job >= nb_active_threads
    /\ Cardinality(Out) = IF current_job < nb_jobs THEN 0 ELSE current_job - nb_jobs

(* ... which jobs are taken, ...                                           *)
JobsInv ==
  /\ \A w \in Workers : wpc[w] = "run" =>
       /\ job[w] < nb_jobs
       /\ job[w] < first_job \/ (nb_active_threads <= job[w] /\ job[w] < current_job)
  /\ \A w, v \in Workers :
       wpc[w] = "run" /\ wpc[v] = "run" /\ job[w] = job[v] => w = v

(* ... and that the end is announced once, when every worker is out.       *)
LastInv ==
  /\ Executing /\ (done \/ \E w \in Workers : wpc[w] = "last") =>
       current_job = nb_jobs + nb_active_threads
  /\ done => \A w \in Workers : wpc[w] # "last"
  /\ \A w, v \in Workers : wpc[w] = "last" /\ wpc[v] = "last" => w = v

PoolInv ==
  /\ PoolTypeOK /\ WorkersInv /\ ThreadsInv /\ QuietInv /\ CreatedInv
  /\ BatchInv /\ CountInv /\ JobsInv /\ LastInv

-----------------------------------------------------------------------------
(* The sets that are counted are finite.                                   *)
LEMMA FiniteSets ==
  ASSUME PoolTypeOK
  PROVE  /\ IsFiniteSet(Active) /\ Cardinality(Active) = nb_active_threads
         /\ Active \subseteq Workers
         /\ \A S \in SUBSET Active :
              /\ IsFiniteSet(S)
              /\ Cardinality(S) \in Nat
              /\ Cardinality(S) = nb_active_threads => S = Active
<1>1. nb_active_threads \in Nat /\ nb_active_threads <= MaxThreads /\ MaxThreads \in Nat
  BY SliceThreadAssumption DEF PoolTypeOK
<1>2. IsFiniteSet(Active) /\ Cardinality(Active) = nb_active_threads
  BY <1>1, FS_Interval DEF Active
<1>3. Active \subseteq Workers
  BY <1>1 DEF Active, Workers
<1>4. ASSUME NEW S \in SUBSET Active
      PROVE  /\ IsFiniteSet(S) /\ Cardinality(S) \in Nat
             /\ Cardinality(S) = nb_active_threads => S = Active
  BY <1>2, <1>4, FS_Subset, FS_CardinalityType
<1> QED  BY <1>2, <1>3, <1>4

LEMMA PoolInitInv == PoolInit => PoolInv
<1> SUFFICES ASSUME PoolInit PROVE PoolInv
  OBVIOUS
<1> USE SliceThreadAssumption DEF PoolInit
<1>1. PoolTypeOK
  <2>1. 0 \in 0 .. MaxThreads
    OBVIOUS
  <2>2. /\ wpc \in [Workers -> WorkerPlaces]
        /\ wdone \in [Workers -> BOOLEAN]
        /\ job \in [Workers -> Nat]
    BY DEF WorkerPlaces
  <2> QED  BY <2>1, <2>2 DEF PoolTypeOK, MainPlaces
<1>2. WorkersInv /\ ThreadsInv /\ QuietInv /\ CreatedInv
  BY DEF WorkersInv, ThreadsInv, QuietInv, CreatedInv, Executing, Working, Called
<1>3. BatchInv /\ CountInv /\ JobsInv /\ LastInv
  BY DEF BatchInv, CountInv, JobsInv, LastInv, Executing
<1> QED  BY <1>1, <1>2, <1>3 DEF PoolInv

LEMMA SignalTypes ==
  ASSUME PoolTypeOK, NEW w \in Workers, Signal(w)
  PROVE  /\ wpc' \in [Workers -> WorkerPlaces]
         /\ wdone' \in [Workers -> BOOLEAN]
BY DEF PoolTypeOK, Signal, WorkerPlaces

(* Steps outside a batch: neither before nor after them is one executing.  *)
LEMMA OutsideInv ==
  ASSUME PoolInv,
         \/ Create \/ CreateWorker \/ Greeted \/ CreateFails \/ Free
         \/ Retire \/ Join \/ FreeNothing
  PROVE  PoolInv'
<1> USE SliceThreadAssumption DEF PoolInv, Goto, Workers
<1>1. ~Executing /\ ~Executing'
  BY DEF Create, CreateWorker, Greeted, CreateFails, Free, Retire, Join,
         FreeNothing, Executing
<1>2. PoolTypeOK'
  <2>0. 0 \in 0 .. MaxThreads /\ MaxThreads \in 0 .. MaxThreads
    OBVIOUS
  <2> USE <2>0 DEF PoolTypeOK, WorkerPlaces, MainPlaces, CreatedInv
  <2>1. CASE Create  BY <2>1 DEF Create, workerVars
  <2>2. CASE CreateWorker  BY <2>2 DEF CreateWorker, batchVars
  <2>3. CASE Greeted  BY <2>3 DEF Greeted, workerVars, batchVars
  <2>4. CASE CreateFails  BY <2>4 DEF CreateFails, workerVars, batchVars
  <2>5. CASE Free  BY <2>5 DEF Free, workerVars, batchVars
  <2>6. CASE Retire
    <3>1. CASE index < nb_threads
      <4>1. index \in Workers /\ Signal(index)  BY <2>6, <3>1 DEF Retire
      <4> QED  BY <2>6, <3>1, <4>1, SignalTypes DEF Retire, batchVars
    <3>2. CASE ~(index < nb_threads)
      BY <2>6, <3>2 DEF Retire, batchVars
    <3> QED  BY <3>1, <3>2
  <2>7. CASE Join  BY <2>7 DEF Join, batchVars
  <2>8. CASE FreeNothing  BY <2>8 DEF FreeNothing, workerVars, batchVars
  <2> QED  BY <2>1, <2>2, <2>3, <2>4, <2>5, <2>6, <2>7, <2>8
<1>3. WorkersInv' /\ ThreadsInv' /\ QuietInv' /\ CreatedInv'
  <2> USE <1>1 DEF PoolTypeOK, WorkersInv, ThreadsInv, NoThread, QuietInv,
                   CreatedInv, Executing, Working, Called, Resting
  <2>1. CASE Create  BY <2>1 DEF Create, workerVars
  <2>2. CASE CreateWorker  BY <2>2 DEF CreateWorker, batchVars
  <2>3. CASE Greeted
    <3>1. CASE wdone[index]
      <4>1. Resting(index) /\ index \in Workers
        BY <2>3, <3>1 DEF Greeted, HoldsMutex
      <4>2. CASE index + 1 = MaxThreads
        BY <2>3, <3>1, <4>1, <4>2 DEF Greeted, workerVars, batchVars
      <4>3. CASE index + 1 # MaxThreads
        BY <2>3, <3>1, <4>1, <4>3 DEF Greeted, workerVars, batchVars
      <4> QED  BY <4>2, <4>3
    <3>2. CASE ~wdone[index]
      BY <2>3, <3>2 DEF Greeted, workerVars, batchVars
    <3> QED  BY <3>1, <3>2
  <2>4. CASE CreateFails  BY <2>4 DEF CreateFails, workerVars, batchVars
  <2>5. CASE Free  BY <2>5 DEF Free, workerVars, batchVars
  <2>6. CASE Retire
    <3>1. CASE index < nb_threads
      <4> USE <2>6, <3>1 DEF Retire, Signal, batchVars
      <4>1. WorkersInv'  OBVIOUS
      <4>2. ThreadsInv'  OBVIOUS
      <4>3. QuietInv' /\ CreatedInv'  OBVIOUS
      <4> QED  BY <4>1, <4>2, <4>3
    <3>2. CASE ~(index < nb_threads)
      BY <2>6, <3>2 DEF Retire, batchVars
    <3> QED  BY <3>1, <3>2
  <2>7. CASE Join
    <3>1. CASE index < nb_threads
      <4> USE <2>7, <3>1 DEF Join, batchVars
      <4>1. WorkersInv'  OBVIOUS
      <4>2. ThreadsInv'  OBVIOUS
      <4>3. QuietInv' /\ CreatedInv'  OBVIOUS
      <4> QED  BY <4>1, <4>2, <4>3
    <3>2. CASE ~(index < nb_threads)
      BY <2>7, <3>2 DEF Join, batchVars
    <3> QED  BY <3>1, <3>2
  <2>8. CASE FreeNothing  BY <2>8 DEF FreeNothing, workerVars, batchVars
  <2> QED  BY <2>1, <2>2, <2>3, <2>4, <2>5, <2>6, <2>7, <2>8
<1>4. BatchInv' /\ CountInv'
  BY <1>1 DEF BatchInv, CountInv
<1>5. JobsInv' /\ LastInv'
  BY <1>1, <1>2, <1>3 DEF JobsInv, LastInv, QuietInv, Working
<1> QED  BY <1>2, <1>3, <1>4, <1>5

-----------------------------------------------------------------------------
(* A batch starts: every worker is still to be woken, none is out.         *)
LEMMA ExecuteInv ==
  ASSUME PoolInv, NEW n \in JobCounts, Execute(n)
  PROVE  PoolInv'
<1> USE SliceThreadAssumption DEF PoolInv, Execute, workerVars
<1>1. /\ n \in Nat \ {0} /\ nb_threads = MaxThreads
      /\ nb_active_threads' \in 1 .. MaxThreads /\ nb_active_threads' <= n
  BY DEF Smaller, CreatedInv
<1>2. PoolTypeOK'
  BY <1>1 DEF PoolTypeOK, MainPlaces
<1>3. WorkersInv' /\ ThreadsInv' /\ QuietInv' /\ CreatedInv'
  BY DEF WorkersInv, ThreadsInv, NoThread, QuietInv, CreatedInv, Executing
<1>4. BatchInv'
  BY <1>1 DEF BatchInv, CreatedInv, Resting, Working, WorkersInv, QuietInv, Executing
<1>5. CountInv'
  <2>1. Unclaimed' = Active' /\ Out' = {}
    BY DEF Unclaimed, Out, Active, Woken
  <2>2. Cardinality(Active') = nb_active_threads'
    <3>1. nb_active_threads' - 1 \in Int  BY <1>1
    <3> QED  BY <1>1, <3>1, FS_Interval DEF Active
  <2>3. Cardinality({}) = 0
    BY FS_EmptySet
  <2> QED  BY <1>1, <2>1, <2>2, <2>3 DEF CountInv
<1>6. JobsInv' /\ LastInv'
  BY DEF JobsInv, LastInv, QuietInv, Executing, Working
<1> QED  BY <1>2, <1>3, <1>4, <1>5, <1>6

(* A worker is woken: it was to be woken, now it is called.                *)
LEMMA WakeInv ==
  ASSUME PoolInv, Wake
  PROVE  PoolInv'
<1> USE SliceThreadAssumption DEF PoolInv, Wake, batchVars
<1>1. /\ Executing /\ Executing'
      /\ index < nb_active_threads /\ nb_active_threads <= MaxThreads
      /\ index \in Workers /\ index \in Active
  BY DEF Executing, BatchInv, PoolTypeOK, Workers, Active
<1> PICK i \in Workers : i = index
  BY <1>1
<1>2. /\ Resting(i) /\ wpc[i] \in {"asleep", "awake"} /\ wdone[i]
      /\ Called(i)'
  <2>1. Resting(i)
    BY <1>1 DEF BatchInv, Woken, PoolTypeOK
  <2>2. wpc[i] \in {"asleep", "awake"} /\ wdone[i]
    BY <2>1 DEF Resting, Signal, HoldsMutex
  <2> QED  BY <2>1, <2>2 DEF Called, Signal, PoolTypeOK
<1>3. PoolTypeOK'
  BY <1>1, SignalTypes DEF PoolTypeOK, MainPlaces
<1>4. \A w \in Workers \ {i} : wpc'[w] = wpc[w] /\ wdone'[w] = wdone[w]
  BY DEF Signal, PoolTypeOK
<1>5. \A w \in Active : Woken(w)' <=> Woken(w) \/ w = i
  BY <1>1 DEF Woken, Active, PoolTypeOK
<1>6. Active' = Active /\ Active \subseteq Workers
  BY FiniteSets DEF Active
<1>7. WorkersInv' /\ ThreadsInv' /\ QuietInv' /\ CreatedInv'
  BY <1>1, <1>2, <1>4 DEF WorkersInv, ThreadsInv, NoThread, QuietInv, CreatedInv,
     Executing, Called
<1>8. BatchInv'
  <2>1. /\ nb_jobs' \in Nat \ {0}
        /\ nb_active_threads' = Smaller(nb_jobs', MaxThreads)
        /\ mpc' = "wake" => index' < nb_active_threads'
    BY <1>1 DEF BatchInv, PoolTypeOK
  <2>2. ASSUME NEW w \in Workers
        PROVE  /\ \/ Resting(w)'
                  \/ /\ w \in Active' /\ Woken(w)'
                     /\ Called(w)' \/ Working(w)' \/ wpc'[w] = "last"
               /\ Working(w)' => ~wdone'[w]
    <3>1. CASE w = i
      BY <1>1, <1>2, <1>5, <1>6, <3>1 DEF Called, Working
    <3>2. CASE w # i
      BY <1>1, <1>4, <1>5, <1>6, <3>2 DEF BatchInv, Resting, Called, Working
    <3> QED  BY <3>1, <3>2
  <2> QED  BY <2>1, <2>2 DEF BatchInv
<1>9. CountInv'
  <2>1. Unclaimed' = Unclaimed
    <3>1. i \in Unclaimed /\ i \in Unclaimed'
      BY <1>1, <1>2, <1>6 DEF Unclaimed, Woken, PoolTypeOK
    <3>2. \A w \in Active \ {i} : w \in Unclaimed' <=> w \in Unclaimed
      BY <1>4, <1>5, <1>6 DEF Unclaimed, Called
    <3> QED  BY <1>6, <3>1, <3>2 DEF Unclaimed
  <2>2. Out' = Out
    <3>1. i \notin Out /\ i \notin Out'
      BY <1>1, <1>2, <1>6 DEF Out, Woken, Called, Resting, PoolTypeOK
    <3>2. \A w \in Active \ {i} : w \in Out' <=> w \in Out
      BY <1>4, <1>5, <1>6 DEF Out, Resting
    <3> QED  BY <1>6, <3>1, <3>2 DEF Out
  <2> QED  BY <1>1, <2>1, <2>2 DEF CountInv
<1>10. JobsInv' /\ LastInv'
  BY <1>1, <1>2, <1>4 DEF JobsInv, LastInv, Called, PoolTypeOK
<1> QED  BY <1>3, <1>7, <1>8, <1>9, <1>10

(* The owner waits for the last job.                                       *)
LEMMA WaitInv ==
  ASSUME PoolInv, MainReturns \/ WaitDone \/ SpuriousMain
  PROVE  PoolInv'
<1> USE SliceThreadAssumption DEF PoolInv, workerVars, batchVars
<1>1. PoolTypeOK'
  BY DEF PoolTypeOK, MainPlaces, MainReturns, WaitDone, SpuriousMain
<1>2. CASE ~Executing
  BY <1>1, <1>2 DEF MainReturns, WaitDone, SpuriousMain, Executing, WorkersInv,
     ThreadsInv, NoThread, QuietInv, CreatedInv, BatchInv, CountInv, JobsInv,
     LastInv, Working, Called, Resting
<1>3. CASE Executing /\ Executing'
  <2>1. \A w : Woken(w) /\ Woken(w)'
    BY <1>3 DEF MainReturns, WaitDone, SpuriousMain, Woken, Executing
  <2>2. /\ wpc' = wpc /\ wdone' = wdone /\ job' = job /\ nb_threads' = nb_threads
        /\ nb_active_threads' = nb_active_threads /\ nb_jobs' = nb_jobs
        /\ first_job' = first_job /\ current_job' = current_job
        /\ index' = index /\ done' = done /\ finished' = finished
        /\ mpc' # "wake"
    BY <1>3 DEF MainReturns, WaitDone, SpuriousMain, Executing
  <2>3. Unclaimed' = Unclaimed /\ Out' = Out /\ Active' = Active
    BY <2>1, <2>2 DEF Unclaimed, Out, Active, Called, Resting
  <2>4. WorkersInv' /\ ThreadsInv' /\ QuietInv' /\ CreatedInv'
    BY <1>3, <2>2 DEF WorkersInv, ThreadsInv, NoThread, QuietInv, CreatedInv, Executing
  <2>5. BatchInv'
    BY <1>3, <2>1, <2>2, <2>3 DEF BatchInv, Resting, Called, Working
  <2>6. CountInv' /\ JobsInv' /\ LastInv'
    BY <1>3, <2>2, <2>3 DEF CountInv, JobsInv, LastInv
  <2> QED  BY <1>1, <2>4, <2>5, <2>6
<1>4. CASE Executing /\ ~Executing'
  <2>1. WaitDone /\ mpc = "wait" /\ done /\ mpc' = "idle" /\ ~done'
    BY <1>4 DEF MainReturns, WaitDone, SpuriousMain, Executing
  <2>2. Out = Active
    <3>1. current_job = nb_jobs + nb_active_threads
      BY <1>4, <2>1 DEF LastInv
    <3>2. Cardinality(Out) = nb_active_threads
      BY <1>4, <3>1 DEF CountInv, PoolTypeOK
    <3> QED  BY <3>2, FiniteSets DEF Out
  <2>3. \A w \in Workers : Resting(w)
    BY <1>4, <2>1, <2>2 DEF BatchInv, LastInv, Out
  <2>4. /\ wpc' = wpc /\ wdone' = wdone /\ nb_threads' = nb_threads
        /\ finished' = finished
    BY <2>1 DEF WaitDone
  <2>5. WorkersInv' /\ ThreadsInv' /\ QuietInv' /\ CreatedInv'
    BY <1>4, <2>1, <2>3, <2>4 DEF WorkersInv, ThreadsInv, NoThread, QuietInv,
       CreatedInv, Executing, Resting, Working, Called
  <2>6. BatchInv' /\ CountInv' /\ JobsInv' /\ LastInv'
    BY <1>4, <2>1, <2>3, <2>4 DEF BatchInv, CountInv, JobsInv, LastInv, Resting
  <2> QED  BY <1>1, <2>5, <2>6
<1> QED  BY <1>2, <1>3, <1>4

-----------------------------------------------------------------------------
(* A worker that goes to sleep or looks without need stays at rest, one    *)
(* that was called goes in to claim; no job is taken or given up.          *)
LEMMA RestInv ==
  ASSUME PoolInv, NEW w \in Workers,
         Rise(w) \/ Sleep(w) \/ Look(w) \/ SpuriousWorker(w)
  PROVE  PoolInv'
<1> USE SliceThreadAssumption DEF PoolInv, Goto, batchVars
<1>1. PoolTypeOK'
  BY DEF PoolTypeOK, WorkerPlaces, MainPlaces, Rise, Sleep, Look, SpuriousWorker
<1>2. /\ \A v \in Workers \ {w} : wpc'[v] = wpc[v] /\ wdone'[v] = wdone[v]
      /\ job' = job /\ index' = index /\ nb_threads' = nb_threads
      /\ nb_active_threads' = nb_active_threads /\ nb_jobs' = nb_jobs
      /\ first_job' = first_job /\ current_job' = current_job
      /\ done' = done /\ finished' = finished
      /\ mpc' # mpc => mpc = "greet" /\ mpc' = "greeted"
  BY DEF Rise, Sleep, Look, SpuriousWorker, PoolTypeOK
<1>3. CASE ~Executing
  <2>1. ~Executing'
    BY <1>2, <1>3 DEF Executing
  <2>2. /\ wpc[w] \in {"lock", "top", "asleep", "awake"}
        /\ wpc'[w] \in {"top", "asleep", "awake", "exited"}
        /\ Called(w)' => finished
        /\ Resting(w) => Resting(w)' \/ finished
        /\ wpc[w] = "lock" => wpc'[w] = "top"
        /\ wpc'[w] = "asleep" => wdone'[w]
    BY <1>3 DEF Rise, Sleep, Look, SpuriousWorker, PoolTypeOK, QuietInv, WorkersInv,
       Called, Resting, Working
  <2>3. WorkersInv' /\ ThreadsInv'
    BY <1>2, <2>2 DEF WorkersInv, ThreadsInv, NoThread
  <2>4. QuietInv'
    BY <1>2, <1>3, <2>1, <2>2 DEF QuietInv, Working, Called
  <2>5. CreatedInv'
    <3>1. \A v \in Workers \ {w} : Resting(v) => Resting(v)'
      BY <1>2 DEF Resting
    <3>2. Resting(w)' \/ finished \/ ~(Resting(w) \/ wpc[w] = "lock")
      BY <2>2 DEF Resting
    <3>3. mpc \in {"create", "greet", "greeted"} => 0 .. index \subseteq Workers
      BY DEF CreatedInv, Workers, PoolTypeOK
    <3>4. mpc \in {"greet", "greeted"} => wpc'[index] = "lock" \/ Resting(index)'
      <4>1. ASSUME mpc \in {"greet", "greeted"}, NEW i \in Workers, i = index
            PROVE  wpc'[i] = "lock" \/ Resting(i)'
        BY <4>1, <1>2, <2>2, <3>1, <3>2 DEF CreatedInv
      <4> QED  BY <4>1, <3>3, <1>2 DEF CreatedInv, PoolTypeOK, Resting, Workers
    <3>5. ASSUME ~finished, NEW v \in Workers, Resting(v)
          PROVE  Resting(v)'
      BY <3>1, <3>2, <3>5
    <3>6. mpc \in {"create", "greet", "greeted"} =>
            ~finished /\ index < MaxThreads /\ \A v \in 0 .. index - 1 : Resting(v)'
      <4>1. mpc \in {"create", "greet", "greeted"} => 0 .. index - 1 \subseteq Workers
        BY DEF CreatedInv, Workers, PoolTypeOK
      <4> QED  BY <3>5, <4>1 DEF CreatedInv
    <3>7. mpc = "idle" => \A v \in Workers : Resting(v)'
      BY <3>5 DEF CreatedInv
    <3>8. /\ mpc' \in {"create", "greet", "greeted"} => mpc \in {"create", "greet", "greeted"}
          /\ mpc' \in {"greet", "greeted"} => mpc \in {"greet", "greeted"}
          /\ mpc' = "idle" => mpc = "idle"
          /\ mpc' = "retire" => mpc = "retire"
      BY <1>2
    <3>9. mpc \in {"create", "greet", "greeted", "idle"} =>
            ~finished /\ nb_threads = MaxThreads
      BY DEF CreatedInv
    <3>10. mpc = "retire" => finished
      BY DEF CreatedInv
    <3> QED
      BY <1>2, <2>1, <3>4, <3>6, <3>7, <3>8, <3>9, <3>10 DEF CreatedInv
  <2>6. BatchInv' /\ CountInv' /\ JobsInv' /\ LastInv'
    BY <1>2, <1>3, <2>1, <2>2, <2>4 DEF BatchInv, CountInv, JobsInv, LastInv,
       QuietInv, Working
  <2> QED  BY <1>1, <2>3, <2>4, <2>5, <2>6
<1>4. CASE Executing
  <2>1. mpc' = mpc /\ Executing' /\ ~finished
    BY <1>2, <1>4 DEF Executing, CreatedInv
  <2>2. \/ Resting(w) /\ Resting(w)' /\ ~Called(w) /\ ~Called(w)' /\ wpc'[w] # "claim"
        \/ Called(w) /\ wpc'[w] = "claim" /\ ~wdone'[w]
    BY <1>4, <2>1 DEF Rise, Sleep, Look, SpuriousWorker, PoolTypeOK, WorkersInv,
       Executing, Called, Resting
  <2>3. WorkersInv' /\ ThreadsInv' /\ QuietInv' /\ CreatedInv'
    BY <1>2, <1>4, <2>1, <2>2 DEF WorkersInv, ThreadsInv, NoThread, QuietInv,
       CreatedInv, Executing, Resting
  <2>4. /\ Active' = Active /\ \A v : Woken(v)' <=> Woken(v)
        /\ \A v \in Workers \ {w} : /\ Resting(v)' <=> Resting(v)
                                    /\ Called(v)' <=> Called(v)
                                    /\ Working(v)' <=> Working(v)
    BY <1>2, <2>1 DEF Active, Woken, Resting, Called, Working
  <2>5. BatchInv'
    <3>1. ASSUME NEW v \in Workers
          PROVE  /\ \/ Resting(v)'
                    \/ /\ v \in Active' /\ Woken(v)'
                       /\ Called(v)' \/ Working(v)' \/ wpc'[v] = "last"
                 /\ Working(v)' => ~wdone'[v]
      <4>1. CASE v = w
        BY <1>4, <2>2, <2>4, <4>1 DEF BatchInv, Resting, Called, Working
      <4>2. CASE v # w
        BY <1>2, <1>4, <2>4, <4>2 DEF BatchInv
      <4> QED  BY <4>1, <4>2
    <3> QED  BY <1>2, <1>4, <2>1, <3>1 DEF BatchInv
  <2>6. CountInv'
    <3>1. Active \subseteq Workers
      BY FiniteSets
    <3>2. Unclaimed' = Unclaimed
      <4>1. w \in Active => (w \in Unclaimed' <=> w \in Unclaimed)
        BY <2>2, <2>4 DEF Unclaimed, Resting, Called
      <4>2. \A v \in Active \ {w} : v \in Unclaimed' <=> v \in Unclaimed
        BY <1>2, <2>4, <3>1 DEF Unclaimed
      <4> QED  BY <2>4, <4>1, <4>2 DEF Unclaimed
    <3>3. Out' = Out
      <4>1. w \in Active => (w \in Out' <=> w \in Out)
        BY <2>2, <2>4 DEF Out, Resting, Called
      <4>2. \A v \in Active \ {w} : v \in Out' <=> v \in Out
        BY <1>2, <2>4, <3>1 DEF Out
      <4> QED  BY <2>4, <4>1, <4>2 DEF Out
    <3> QED  BY <1>2, <1>4, <3>2, <3>3 DEF CountInv
  <2>7. JobsInv' /\ LastInv'
    <3>1. wpc'[w] \notin {"run", "last"}
      BY <2>2 DEF Resting
    <3> QED  BY <1>2, <1>4, <3>1 DEF JobsInv, LastInv
  <2> QED  BY <1>1, <2>3, <2>5, <2>6, <2>7
<1> QED  BY <1>3, <1>4

-----------------------------------------------------------------------------
(* What the steps inside run_jobs have in common.                          *)
InsideOnly(w) ==
  /\ \A v \in Workers \ {w} : wpc'[v] = wpc[v] /\ job'[v] = job[v]
  /\ wdone' = wdone /\ index' = index /\ nb_threads' = nb_threads
  /\ nb_active_threads' = nb_active_threads /\ nb_jobs' = nb_jobs
  /\ finished' = finished

LEMMA InsideParts ==
  ASSUME PoolInv, NEW w \in Workers, InsideOnly(w), Executing, Executing',
         wpc[w] \in {"claim", "run", "next", "last"},
         wpc'[w] \in {"run", "next", "last", "top"},
         wpc[w] = "last" => wpc'[w] = "top",
         mpc' = "wake" <=> mpc = "wake", PoolTypeOK', done' \in BOOLEAN
  PROVE  /\ WorkersInv' /\ ThreadsInv' /\ QuietInv' /\ CreatedInv' /\ BatchInv'
         /\ w \in Active /\ Woken(w)
         /\ Unclaimed' = Unclaimed \ {w}
         /\ Out' = IF wpc'[w] \in {"last", "top"} THEN Out \cup {w} ELSE Out
         /\ wpc[w] # "last" => w \notin Out
         /\ w \in Unclaimed <=> wpc[w] = "claim"
<1> USE DEF PoolInv, InsideOnly
<1>1. w \in Active /\ Woken(w) /\ (Working(w) => ~wdone[w])
  BY DEF BatchInv, Resting, Working
<1>2. /\ Active' = Active /\ Active \subseteq Workers
      /\ \A v : Woken(v)' <=> Woken(v)
      /\ \A v \in Workers \ {w} : /\ Resting(v)' <=> Resting(v)
                                  /\ Called(v)' <=> Called(v)
                                  /\ Working(v)' <=> Working(v)
  BY FiniteSets DEF Active, Woken, Resting, Called, Working
<1>3. WorkersInv' /\ ThreadsInv' /\ QuietInv' /\ CreatedInv'
  BY DEF WorkersInv, ThreadsInv, NoThread, QuietInv, CreatedInv, Executing, Resting
<1>4. BatchInv'
  <2>1. ASSUME NEW v \in Workers
        PROVE  /\ \/ Resting(v)'
                  \/ /\ v \in Active' /\ Woken(v)'
                     /\ Called(v)' \/ Working(v)' \/ wpc'[v] = "last"
               /\ Working(v)' => ~wdone'[v]
    <3>1. CASE v = w
      <4>1. Working(w)' => Working(w)
        BY DEF Working
      <4> QED  BY <1>1, <1>2, <3>1, <4>1 DEF Resting, Working
    <3>2. CASE v # w
      BY <1>2, <3>2 DEF BatchInv
    <3> QED  BY <3>1, <3>2
  <2> QED  BY <2>1 DEF BatchInv
<1>5. Unclaimed' = Unclaimed \ {w}
  <2>1. w \notin Unclaimed'
    BY <1>1, <1>2 DEF Unclaimed, Called
  <2>2. \A v \in Active \ {w} : v \in Unclaimed' <=> v \in Unclaimed
    BY <1>2 DEF Unclaimed
  <2> QED  BY <1>2, <2>1, <2>2 DEF Unclaimed
<1>6. Out' = IF wpc'[w] \in {"last", "top"} THEN Out \cup {w} ELSE Out
  <2>1. w \in Out' <=> wpc'[w] \in {"last", "top"}
    BY <1>1, <1>2 DEF Out, Resting
  <2>2. \A v \in Active \ {w} : v \in Out' <=> v \in Out
    BY <1>2 DEF Out
  <2>3. wpc'[w] \notin {"last", "top"} => w \notin Out
    BY <1>1 DEF Out, Resting
  <2> QED  BY <1>1, <1>2, <2>1, <2>2, <2>3 DEF Out
<1>7. /\ wpc[w] # "last" => w \notin Out
      /\ w \in Unclaimed <=> wpc[w] = "claim"
  BY <1>1 DEF Out, Unclaimed, Resting, Called
<1> QED  BY <1>1, <1>3, <1>4, <1>5, <1>6, <1>7

LEMMA InsideExecuting ==
  ASSUME PoolInv, NEW w \in Workers, wpc[w] \in {"claim", "run", "next", "last"}
  PROVE  Executing
BY DEF PoolInv, QuietInv, Working

(* The first job of a worker: fewer workers than nb_active_threads had one.*)
LEMMA ClaimInv ==
  ASSUME PoolInv, NEW w \in Workers, Claim(w)
  PROVE  PoolInv'
<1> USE SliceThreadAssumption DEF PoolInv, Claim, Goto
<1>1. PoolTypeOK' /\ Executing /\ Executing' /\ wpc[w] = "claim" /\ wpc'[w] = "run"
  BY InsideExecuting DEF PoolTypeOK, WorkerPlaces, Executing
<1>2. InsideOnly(w)
  BY DEF InsideOnly, PoolTypeOK
<1>3. done' \in BOOLEAN /\ (mpc' = "wake" <=> mpc = "wake")
  BY DEF PoolTypeOK
<1>4. /\ WorkersInv' /\ ThreadsInv' /\ QuietInv' /\ CreatedInv' /\ BatchInv'
      /\ Unclaimed' = Unclaimed \ {w} /\ Out' = Out /\ w \in Unclaimed
  BY <1>1, <1>2, <1>3, InsideParts
<1>5. /\ IsFiniteSet(Unclaimed) /\ Cardinality(Unclaimed) \in Nat
      /\ Cardinality(Unclaimed') = Cardinality(Unclaimed) - 1
      /\ Cardinality(Unclaimed) # 0
  <2>1. IsFiniteSet(Unclaimed) /\ Cardinality(Unclaimed) \in Nat
    BY FiniteSets DEF Unclaimed
  <2> QED  BY <1>4, <2>1, FS_RemoveElement, FS_EmptySet
<1>6. CountInv' /\ first_job < nb_active_threads
  BY <1>1, <1>4, <1>5 DEF CountInv, PoolTypeOK
<1>7. JobsInv'
  <2>1. job'[w] = first_job /\ first_job < nb_jobs
    BY <1>1, <1>6 DEF PoolTypeOK, BatchInv, Smaller
  <2>2. ASSUME NEW v \in Workers \ {w}, wpc'[v] = "run"
        PROVE  /\ job'[v] = job[v] /\ job[v] # first_job /\ job[v] < nb_jobs
               /\ job[v] < first_job + 1 \/ (nb_active_threads <= job[v] /\ job[v] < current_job)
    BY <1>2, <1>6, <2>2 DEF InsideOnly, JobsInv, PoolTypeOK
  <2>3. \A v \in Workers \ {w} : wpc'[v] = wpc[v] /\ job'[v] = job[v]
    BY <1>2 DEF InsideOnly
  <2> QED  BY <2>1, <2>2, <2>3 DEF JobsInv, PoolTypeOK
<1>8. LastInv'
  BY <1>1, <1>2 DEF LastInv, InsideOnly
<1> QED  BY <1>1, <1>4, <1>6, <1>7, <1>8

LEMMA JobReturnsInv ==
  ASSUME PoolInv, NEW w \in Workers, JobReturns(w)
  PROVE  PoolInv'
<1> USE DEF PoolInv, JobReturns, Goto, batchVars
<1>1. PoolTypeOK' /\ Executing /\ Executing' /\ wpc[w] = "run" /\ wpc'[w] = "next"
  BY InsideExecuting DEF PoolTypeOK, WorkerPlaces, Executing
<1>2. InsideOnly(w) /\ done' \in BOOLEAN /\ (mpc' = "wake" <=> mpc = "wake")
  BY DEF InsideOnly, PoolTypeOK
<1>3. /\ WorkersInv' /\ ThreadsInv' /\ QuietInv' /\ CreatedInv' /\ BatchInv'
      /\ Unclaimed' = Unclaimed /\ Out' = Out
  BY <1>1, <1>2, InsideParts
<1>4. CountInv' /\ JobsInv' /\ LastInv'
  BY <1>1, <1>2, <1>3 DEF CountInv, JobsInv, LastInv, InsideOnly
<1> QED  BY <1>1, <1>3, <1>4

(* The next job, or none: then one worker more is out, and it is the last  *)
(* one exactly when the count says so.                                     *)
LEMMA NextJobInv ==
  ASSUME PoolInv, NEW w \in Workers, NextJob(w)
  PROVE  PoolInv'
<1> USE SliceThreadAssumption DEF PoolInv, NextJob, Goto
<1>1. /\ PoolTypeOK' /\ Executing /\ Executing' /\ wpc[w] = "next"
      /\ wpc'[w] \in {"run", "last", "top"}
  BY InsideExecuting DEF PoolTypeOK, WorkerPlaces, Executing
<1>2. InsideOnly(w) /\ done' \in BOOLEAN /\ (mpc' = "wake" <=> mpc = "wake")
  BY DEF InsideOnly, PoolTypeOK
<1>3. /\ WorkersInv' /\ ThreadsInv' /\ QuietInv' /\ CreatedInv' /\ BatchInv'
      /\ w \in Active /\ w \notin Out
      /\ Unclaimed' = Unclaimed
      /\ Out' = IF wpc'[w] \in {"last", "top"} THEN Out \cup {w} ELSE Out
  BY <1>1, <1>2, InsideParts
<1>4. /\ nb_active_threads \in Nat /\ nb_jobs \in Nat /\ current_job \in Nat
      /\ nb_active_threads >= 1 /\ nb_active_threads <= current_job
  BY <1>1 DEF PoolTypeOK, BatchInv, Smaller, CountInv
<1>5. /\ IsFiniteSet(Out) /\ Cardinality(Out) \in Nat
      /\ Cardinality(Out) # nb_active_threads
      /\ Cardinality(Out \cup {w}) = Cardinality(Out) + 1
  <2>1. Out \in SUBSET Active  BY DEF Out
  <2>2. IsFiniteSet(Out) /\ Cardinality(Out) \in Nat /\ Cardinality(Out) # nb_active_threads
    BY <1>3, <2>1, FiniteSets
  <2> QED  BY <1>3, <2>2, FS_AddElement
<1>6. current_job # nb_jobs + nb_active_threads
  BY <1>1, <1>4, <1>5 DEF CountInv
<1>7. CountInv'
  <2>1. CASE current_job < nb_jobs
    <3>1. wpc'[w] = "run"  BY <2>1 DEF PoolTypeOK
    <3> QED  BY <1>1, <1>3, <1>4, <2>1, <3>1 DEF CountInv
  <2>2. CASE ~(current_job < nb_jobs)
    <3>1. wpc'[w] \in {"last", "top"}  BY <2>2 DEF PoolTypeOK
    <3> QED  BY <1>1, <1>3, <1>4, <1>5, <2>2, <3>1 DEF CountInv
  <2> QED  BY <2>1, <2>2
<1>8. JobsInv'
  <2>1. job'[w] = current_job /\ (wpc'[w] = "run" => current_job < nb_jobs)
    BY DEF PoolTypeOK
  <2>2. first_job \in Nat /\ first_job <= nb_active_threads
    BY <1>1, FiniteSets DEF CountInv, PoolTypeOK, Unclaimed
  <2>3. ASSUME NEW v \in Workers \ {w}, wpc'[v] = "run"
        PROVE  /\ job'[v] = job[v] /\ job[v] # current_job /\ job[v] < nb_jobs
               /\ job[v] < first_job \/ (nb_active_threads <= job[v] /\ job[v] < current_job + 1)
    BY <1>2, <1>4, <2>2, <2>3 DEF InsideOnly, JobsInv, PoolTypeOK
  <2>4. \A v \in Workers \ {w} : wpc'[v] = wpc[v] /\ job'[v] = job[v]
    BY <1>2 DEF InsideOnly
  <2> QED  BY <1>2, <1>4, <2>1, <2>3, <2>4 DEF JobsInv, InsideOnly
<1>9. LastInv'
  <2>1. ~done /\ \A v \in Workers : wpc[v] # "last"
    BY <1>1, <1>6 DEF LastInv
  <2>2. wpc'[w] = "last" => current_job' = nb_jobs' + nb_active_threads'
    BY <1>2, <1>4 DEF InsideOnly, PoolTypeOK
  <2> QED  BY <1>2, <2>1, <2>2 DEF LastInv, InsideOnly
<1> QED  BY <1>1, <1>3, <1>7, <1>8, <1>9

LEMMA LastWorkerInv ==
  ASSUME PoolInv, NEW w \in Workers, Last(w)
  PROVE  PoolInv'
<1> USE SliceThreadAssumption DEF PoolInv, Last, Goto, batchVars
<1>1. /\ PoolTypeOK' /\ Executing /\ Executing'
      /\ wpc[w] = "last" /\ wpc'[w] = "top"
  BY InsideExecuting DEF PoolTypeOK, WorkerPlaces, MainPlaces, Executing
<1>2. InsideOnly(w) /\ done' \in BOOLEAN /\ (mpc' = "wake" <=> mpc = "wake")
  BY DEF InsideOnly, PoolTypeOK
<1>3. /\ WorkersInv' /\ ThreadsInv' /\ QuietInv' /\ CreatedInv' /\ BatchInv'
      /\ Unclaimed' = Unclaimed /\ Out' = Out \cup {w} /\ w \in Active /\ Woken(w)
  BY <1>1, <1>2, InsideParts
<1>4. Out' = Out
  BY <1>1, <1>3 DEF Out
<1>5. CountInv' /\ JobsInv'
  BY <1>1, <1>2, <1>3, <1>4 DEF CountInv, JobsInv, InsideOnly
<1>6. LastInv'
  BY <1>1, <1>2 DEF LastInv, InsideOnly
<1> QED  BY <1>1, <1>3, <1>5, <1>6

LEMMA PoolNextInv == PoolInv /\ [PoolNext]_poolVars => PoolInv'
<1> SUFFICES ASSUME PoolInv, [PoolNext]_poolVars PROVE PoolInv'
  OBVIOUS
<1>1. CASE UNCHANGED poolVars
  BY <1>1 DEF poolVars, workerVars, batchVars, PoolInv, PoolTypeOK, WorkersInv,
     ThreadsInv, NoThread, QuietInv, CreatedInv, BatchInv, CountInv, JobsInv,
     LastInv, Executing, Resting, Called, Working, Active, Woken, Unclaimed, Out
<1>2. CASE PoolNext
  BY <1>2, OutsideInv, ExecuteInv, WakeInv, WaitInv, RestInv, ClaimInv,
     JobReturnsInv, NextJobInv, LastWorkerInv
     DEF PoolNext, MainLoop, WorkerLoop, Spurious
<1> QED  BY <1>1, <1>2

-----------------------------------------------------------------------------
(* The pool's variables have their types: indices stay inside the arrays.  *)
THEOREM PoolTypeCorrect == PoolSpec => []PoolTypeOK
<1>1. PoolInv => PoolTypeOK  BY DEF PoolInv
<1> QED  BY <1>1, PoolInitInv, PoolNextInv, PTL DEF PoolSpec

(* However the workers are scheduled, two never run the same job at once,  *)
(* nor one that does not exist.                                            *)
THEOREM JobsAreDistinct == PoolSpec => []JobsDistinct
<1>1. PoolInv => JobsDistinct  BY DEF PoolInv, JobsInv, JobsDistinct
<1> QED  BY <1>1, PoolInitInv, PoolNextInv, PTL DEF PoolSpec

(* avpriv_slicethread_execute returns only when every worker has left the  *)
(* batch: the fields it writes without a lock are nobody else's then.      *)
THEOREM QuietBetween == PoolSpec => []QuietBetweenBatches
<1>1. PoolInv => QuietBetweenBatches
  BY DEF PoolInv, QuietInv, QuietBetweenBatches, Working
<1> QED  BY <1>1, PoolInitInv, PoolNextInv, PTL DEF PoolSpec

=============================================================================
