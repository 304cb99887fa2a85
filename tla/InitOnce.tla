------------------------------ MODULE InitOnce ------------------------------
(***************************************************************************)
(* The one-time initialisations of the component.  FFInitFFmpeg and        *)
(* initFFusionParsers have the same shape:                                 *)
(*                                                                         *)
(*    static Boolean inited = FALSE;                                       *)
(*    int unlock = FFusionInitEnter(&inited);                              *)
(*    if (!inited) { inited = TRUE; ... initialise ... }                   *)
(*    FFusionInitExit(unlock);                                             *)
(*                                                                         *)
(* with a flag each and one mutex for all.  FFusionInitEnter does not take *)
(* the mutex when the flag is set.  QuickTime opens instances on any       *)
(* thread, so any thread may be anywhere in these functions.               *)
(***************************************************************************)
EXTENDS Naturals

CONSTANTS
  Threads,   \* the threads of the application
  Regions,   \* the functions that initialise something
  NULL       \* no owner

ASSUME OwnerAssumption == NULL \notin Threads

VARIABLES
  pc,        \* where each thread is
  region,    \* the function it is in
  unlock,    \* its local variable unlock
  mutex,     \* the owner of init_mutex
  inited,    \* the static flag of each function
  runs       \* how often each initialisation has completed

vars == <<pc, region, unlock, mutex, inited, runs>>

Places == {"out", "lock", "test", "set", "work", "exit", "return"}

Init ==
  /\ pc = [t \in Threads |-> "out"]
  /\ region \in [Threads -> Regions]
  /\ unlock = [t \in Threads |-> FALSE]
  /\ mutex = NULL
  /\ inited = [g \in Regions |-> FALSE]
  /\ runs = [g \in Regions |-> 0]

Goto(t, place) == pc' = [pc EXCEPT ![t] = place]

-----------------------------------------------------------------------------
(* FFusionInitEnter looks at the flag without the mutex, ... *)
Enter(t, g) ==
  /\ pc[t] = "out"
  /\ region' = [region EXCEPT ![t] = g]
  /\ unlock' = [unlock EXCEPT ![t] = FALSE]
  /\ Goto(t, IF inited[g] THEN "test" ELSE "lock")
  /\ UNCHANGED <<mutex, inited, runs>>

(* ... and takes it only if the flag was not set. *)
Lock(t) ==
  /\ pc[t] = "lock"
  /\ mutex = NULL
  /\ mutex' = t
  /\ unlock' = [unlock EXCEPT ![t] = TRUE]
  /\ Goto(t, "test")
  /\ UNCHANGED <<region, inited, runs>>

(* A faulty test: the flag is not read again under the mutex.              *)
TestOnce(t) ==
  /\ pc[t] = "test"
  /\ Goto(t, IF unlock[t] THEN "set" ELSE "exit")
  /\ UNCHANGED <<region, unlock, mutex, inited, runs>>

(* if (!inited) *)
Test(t) ==
  /\ pc[t] = "test"
  /\ Goto(t, IF inited[region[t]] THEN "exit" ELSE "set")
  /\ UNCHANGED <<region, unlock, mutex, inited, runs>>

(* The flag is set first, ... *)
SetInited(t) ==
  /\ pc[t] = "set"
  /\ inited' = [inited EXCEPT ![region[t]] = TRUE]
  /\ Goto(t, "work")
  /\ UNCHANGED <<region, unlock, mutex, runs>>

(* ... and the initialisation done afterwards. *)
Initialise(t) ==
  /\ pc[t] = "work"
  /\ runs' = [runs EXCEPT ![region[t]] = @ + 1]
  /\ Goto(t, "exit")
  /\ UNCHANGED <<region, unlock, mutex, inited>>

(* Faulty exits: the mutex is unlocked by everyone, or by nobody.          *)
ExitUnlocks(t) ==
  /\ pc[t] = "exit"
  /\ mutex' = NULL
  /\ Goto(t, "return")
  /\ UNCHANGED <<region, unlock, inited, runs>>

ExitKeepsMutex(t) ==
  /\ pc[t] = "exit"
  /\ Goto(t, "return")
  /\ UNCHANGED <<region, unlock, mutex, inited, runs>>

(* FFusionInitExit *)
Exit(t) ==
  /\ pc[t] = "exit"
  /\ mutex' = IF unlock[t] THEN NULL ELSE mutex
  /\ Goto(t, "return")
  /\ UNCHANGED <<region, unlock, inited, runs>>

(* The function returns.                                                   *)
Return(t) ==
  /\ pc[t] = "return"
  /\ Goto(t, "out")
  /\ UNCHANGED <<region, unlock, mutex, inited, runs>>

Step(t) ==
  Lock(t) \/ Test(t) \/ SetInited(t) \/ Initialise(t) \/ Exit(t) \/ Return(t)

Next == \E t \in Threads : Step(t) \/ \E g \in Regions : Enter(t, g)

Spec == Init /\ [][Next]_vars

(* A thread that is inside keeps running.  A POSIX mutex is not fair: a    *)
(* waiting thread is only sure to get it if it stays free.                 *)
Fairness == \A t \in Threads : WF_vars(Step(t))

FairSpec == Spec /\ Fairness

-----------------------------------------------------------------------------
(* Properties *)

(* The owner of the mutex, the program counters and the flags have their   *)
(* types.                                                                  *)
TypeOK ==
  /\ pc \in [Threads -> Places]
  /\ region \in [Threads -> Regions]
  /\ unlock \in [Threads -> BOOLEAN]
  /\ mutex \in Threads \cup {NULL}
  /\ inited \in [Regions -> BOOLEAN]
  /\ runs \in [Regions -> Nat]

Initialising(t) == pc[t] \in {"set", "work"}

(* Although the flag is read without the mutex and set before the work is  *)
(* done, no two threads are ever inside an initialisation, of the same     *)
(* function or of different ones.                                          *)
OneAtATime ==
  \A t, u \in Threads : Initialising(t) /\ Initialising(u) => t = u

(* No initialisation is repeated: FFmpeg's callbacks and the parser list   *)
(* are set up at most once in the life of the process.                     *)
InitialisedAtMostOnce == \A g \in Regions : runs[g] <= 1

(* The mutex is only ever unlocked by the thread that holds it, which      *)
(* FFusionInitExit must conclude from unlock alone.                        *)
UnlockedByOwner ==
  \A t \in Threads : pc[t] = "exit" /\ unlock[t] => mutex = t

(* Every caller returns, although the mutex is not fair: a function stops  *)
(* locking it once its flag is set, so the contention ends.                *)
EveryCallReturns == \A t \in Threads : pc[t] # "out" ~> pc[t] = "out"

=============================================================================
