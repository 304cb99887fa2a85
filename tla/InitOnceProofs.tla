--------------------------- MODULE InitOnceProofs ---------------------------
(***************************************************************************)
(* Proofs about InitOnce, for any set of threads and of initialisations.   *)
(***************************************************************************)
EXTENDS InitOnce, TLAPS

(* unlock and the mutex agree wherever unlock is read.                     *)
Holding ==
  \A t \in Threads :
    /\ pc[t] \in {"test", "set", "work", "exit"} => (unlock[t] <=> mutex = t)
    /\ pc[t] \in {"out", "lock", "return"} => mutex # t
    /\ pc[t] \in {"set", "work"} => unlock[t]

(* A thread that skipped the mutex finds the flag set, one that starts an  *)
(* initialisation is the first to do so.                                   *)
FlagsOrdered ==
  /\ \A t \in Threads :
       /\ pc[t] = "test" /\ ~unlock[t] => inited[region[t]]
       /\ pc[t] = "set" => ~inited[region[t]]
       /\ pc[t] = "work" => inited[region[t]] /\ runs[region[t]] = 0
  /\ \A g \in Regions : /\ ~inited[g] => runs[g] = 0
                        /\ runs[g] \in {0, 1}

IInv == TypeOK /\ Holding /\ FlagsOrdered

LEMMA InitInv == Init => IInv
BY OwnerAssumption DEF Init, IInv, TypeOK, Places, Holding, FlagsOrdered

LEMMA NextInv == IInv /\ [Next]_vars => IInv'
<1> SUFFICES ASSUME IInv, [Next]_vars PROVE IInv'
  OBVIOUS
<1> USE OwnerAssumption DEF IInv, TypeOK, Places, Goto
<1>1. ASSUME NEW t \in Threads, NEW g \in Regions, Enter(t, g)
      PROVE  IInv'
  <2>1. TypeOK'
    BY <1>1 DEF Enter
  <2>2. Holding'
    BY <1>1 DEF Enter, Holding
  <2>3. FlagsOrdered'
    BY <1>1 DEF Enter, FlagsOrdered
  <2> QED  BY <2>1, <2>2, <2>3
<1>2. ASSUME NEW t \in Threads, Lock(t)
      PROVE  IInv'
  <2>1. TypeOK'
    BY <1>2 DEF Lock
  <2>2. Holding'
    BY <1>2 DEF Lock, Holding
  <2>3. FlagsOrdered'
    BY <1>2 DEF Lock, FlagsOrdered
  <2> QED  BY <2>1, <2>2, <2>3
<1>3. ASSUME NEW t \in Threads, Test(t)
      PROVE  IInv'
  <2>1. TypeOK'
    BY <1>3 DEF Test
  <2>2. Holding'
    BY <1>3 DEF Test, Holding, FlagsOrdered
  <2>3. FlagsOrdered'
    BY <1>3 DEF Test, FlagsOrdered
  <2> QED  BY <2>1, <2>2, <2>3
<1>4. ASSUME NEW t \in Threads, SetInited(t)
      PROVE  IInv'
  <2>1. TypeOK'
    BY <1>4 DEF SetInited
  <2>2. Holding'
    BY <1>4 DEF SetInited, Holding
  <2>3. \A u \in Threads \ {t} : pc[u] \notin {"set", "work"}
    BY <1>4 DEF SetInited, Holding
  <2>4. FlagsOrdered'
    BY <1>4, <2>3 DEF SetInited, FlagsOrdered
  <2> QED  BY <2>1, <2>2, <2>4
<1>5. ASSUME NEW t \in Threads, Initialise(t)
      PROVE  IInv'
  <2>1. TypeOK'
    BY <1>5 DEF Initialise
  <2>2. Holding'
    BY <1>5 DEF Initialise, Holding
  <2>3. \A u \in Threads \ {t} : pc[u] \notin {"set", "work"}
    BY <1>5 DEF Initialise, Holding
  <2>4. FlagsOrdered'
    BY <1>5, <2>3 DEF Initialise, FlagsOrdered
  <2> QED  BY <2>1, <2>2, <2>4
<1>6. ASSUME NEW t \in Threads, Exit(t)
      PROVE  IInv'
  <2>1. TypeOK'
    BY <1>6 DEF Exit
  <2>2. Holding'
    BY <1>6 DEF Exit, Holding
  <2>3. FlagsOrdered'
    BY <1>6 DEF Exit, FlagsOrdered
  <2> QED  BY <2>1, <2>2, <2>3
<1>7. ASSUME NEW t \in Threads, Return(t)
      PROVE  IInv'
  <2>1. TypeOK'
    BY <1>7 DEF Return
  <2>2. Holding'
    BY <1>7 DEF Return, Holding
  <2>3. FlagsOrdered'
    BY <1>7 DEF Return, FlagsOrdered
  <2> QED  BY <2>1, <2>2, <2>3
<1>8. CASE UNCHANGED vars
  BY <1>8 DEF vars, Holding, FlagsOrdered
<1> QED
  BY <1>1, <1>2, <1>3, <1>4, <1>5, <1>6, <1>7, <1>8 DEF Next, Step

LEMMA Invariance == Spec => []IInv
BY InitInv, NextInv, PTL DEF Spec

(* However many threads open instances at once, no two of them are ever    *)
(* inside an initialisation.                                               *)
THEOREM MutualExclusion == Spec => []OneAtATime
<1>1. IInv => OneAtATime
  BY DEF IInv, Holding, OneAtATime, Initialising
<1> QED  BY <1>1, Invariance, PTL

(* Nothing is initialised twice.                                           *)
THEOREM AtMostOnce == Spec => []InitialisedAtMostOnce
<1>1. IInv => InitialisedAtMostOnce
  BY DEF IInv, FlagsOrdered, InitialisedAtMostOnce
<1> QED  BY <1>1, Invariance, PTL

(* Only the owner of the mutex unlocks it.                                 *)
THEOREM OwnerUnlocks == Spec => []UnlockedByOwner
<1>1. IInv => UnlockedByOwner
  BY DEF IInv, Holding, UnlockedByOwner
<1> QED  BY <1>1, Invariance, PTL

=============================================================================
