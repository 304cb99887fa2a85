-------------------------- MODULE BufferPoolProofs --------------------------
(***************************************************************************)
(* Proofs about BufferPool, for any number of threads, pools and buffers.  *)
(*                                                                         *)
(* A pool's refcount is the number of its claims: the decoder's pointer,   *)
(* the buffers in use, and the threads that have yet to lower it.  A pool  *)
(* is freed by the thread that takes away the last claim.                  *)
(***************************************************************************)
EXTENDS BufferPool, FiniteSetTheorems, TLAPS

Got(d)       == \E t \in Threads : pc[t] = "got" /\ data[t] = d
Returning(d) == \E t \in Threads : pc[t] = "release" /\ data[t] = d
InUse(d)     == (count[d] > 0 /\ ~Got(d)) \/ Returning(d)

Claims(p) ==
  {d \in Data : home[d] = p /\ InUse(d)}
    \cup {t \in Threads : pc[t] \in {"released", "uninit", "uninited"} /\ pool[t] = p}
    \cup (IF current = p THEN {p} ELSE {})

(* The references to a buffer, as a set that can be counted.               *)
RefTokens(d) == {x \in Threads \X (1 .. MaxRefs) : x[2] <= refs[x[1]][d]}

(* Where a thread can be, and with what in its hands.                      *)
PlacesInv ==
  /\ current # NULL => current \in live
  /\ \A t \in Threads :
       /\ pc[t] # "out" => pool[t] \in live
       /\ pc[t] = "got" =>
            /\ t = Decoder /\ data[t] \in Data
            /\ pool[t] = current /\ home[data[t]] = current
       /\ pc[t] \in {"uninit", "uninited"} => t = Decoder
       /\ pc[t] = "release" =>
            /\ data[t] \in Data /\ home[data[t]] = pool[t] /\ count[data[t]] = 0
  /\ \A t, u \in Threads :
       pc[t] = "release" /\ pc[u] = "release" /\ data[t] = data[u] => t = u

(* A buffer of a pool is in its list or in use.                            *)
ListsInv ==
  /\ \A p \in Pools : \A d \in list[p] : home[d] = p /\ count[d] = 0 /\ ~Returning(d)
  /\ \A d \in Data : home[d] = NULL => count[d] = 0
  /\ \A d \in Data : home[d] # NULL =>
       home[d] \in live /\ (d \in list[home[d]] \/ InUse(d) \/ Got(d))

CountsInv ==
  \A d \in Data :
    /\ Got(d) => count[d] = 1 /\ RefTokens(d) = {}
    /\ ~Got(d) => count[d] = Cardinality(RefTokens(d))

FreedBy(p) == {t \in Threads : pc[t] = "free" /\ pool[t] = p}

ClaimsInv ==
  \A p \in live :
    /\ refcount[p] = Cardinality(Claims(p))
    /\ Claims(p) = {} <=> FreedBy(p) # {}
    /\ \A t, u \in FreedBy(p) : t = u

Inv == TypeOK /\ PlacesInv /\ ListsInv /\ CountsInv /\ ClaimsInv

-----------------------------------------------------------------------------
LEMMA ClaimsFinite == ASSUME NEW p \in Pools PROVE IsFiniteSet(Claims(p))
<1> DEFINE All == (Data \cup Threads) \cup {p}
<1>1. IsFiniteSet({p})
  BY FS_Singleton
<1>2. IsFiniteSet(Data \cup Threads)
  BY BufferPoolAssumption, FS_Union
<1>3. IsFiniteSet(All)
  BY <1>1, <1>2, FS_Union
<1>4. Claims(p) \in SUBSET All
  BY DEF Claims
<1> QED  BY <1>3, <1>4, FS_Subset

LEMMA RefTokensFinite ==
  ASSUME NEW d
  PROVE  IsFiniteSet(RefTokens(d)) /\ Cardinality(RefTokens(d)) \in Nat
<1>1. IsFiniteSet(1 .. MaxRefs)
  BY BufferPoolAssumption, FS_Interval
<1>2. IsFiniteSet(Threads \X (1 .. MaxRefs))
  BY <1>1, BufferPoolAssumption, FS_Product
<1> QED  BY <1>2, FS_Subset, FS_CardinalityType DEF RefTokens

(* A claim taken away, given, or handed from one to another.               *)
LEMMA ClaimTaken ==
  ASSUME NEW p \in Pools, NEW x \in Claims(p)
  PROVE  Cardinality(Claims(p) \ {x}) = Cardinality(Claims(p)) - 1
BY ClaimsFinite, FS_RemoveElement

LEMMA ClaimGiven ==
  ASSUME NEW p \in Pools, NEW x, x \notin Claims(p)
  PROVE  Cardinality(Claims(p) \cup {x}) = Cardinality(Claims(p)) + 1
BY ClaimsFinite, FS_AddElement

LEMMA ClaimPassed ==
  ASSUME NEW p \in Pools, NEW x \in Claims(p), NEW y, y \notin Claims(p)
  PROVE  Cardinality((Claims(p) \ {x}) \cup {y}) = Cardinality(Claims(p))
<1>1. IsFiniteSet(Claims(p)) /\ Cardinality(Claims(p)) \in Nat
  BY ClaimsFinite, FS_CardinalityType
<1>2. IsFiniteSet(Claims(p) \ {x}) /\ y \notin Claims(p) \ {x}
  BY <1>1, FS_RemoveElement
<1>3. Cardinality(Claims(p) \ {x}) = Cardinality(Claims(p)) - 1
  BY ClaimTaken
<1>4. Cardinality((Claims(p) \ {x}) \cup {y}) = Cardinality(Claims(p) \ {x}) + 1
  BY <1>2, FS_AddElement
<1> QED  BY <1>1, <1>3, <1>4

LEMMA InitInv == Init => Inv
<1> SUFFICES ASSUME Init PROVE Inv
  OBVIOUS
<1> USE BufferPoolAssumption DEF Init
<1>1. TypeOK
  <2>1. refs \in [Threads -> [Data -> 0 .. MaxRefs]]
    OBVIOUS
  <2>2. /\ refcount \in [Pools -> Nat] /\ count \in [Data -> Nat]
        /\ list \in [Pools -> SUBSET Data]
        /\ home \in [Data -> Pools \cup {NULL}]
        /\ pc \in [Threads -> Places]
        /\ pool \in [Threads -> Pools \cup {NULL}]
        /\ data \in [Threads -> Data \cup {NULL}]
    BY DEF Places
  <2> QED  BY <2>1, <2>2 DEF TypeOK
<1>2. PlacesInv /\ ListsInv
  BY DEF PlacesInv, ListsInv, Returning
<1>3. CountsInv
  <2>1. ASSUME NEW d \in Data PROVE ~Got(d) /\ RefTokens(d) = {}
    BY <2>1 DEF Got, RefTokens
  <2> QED  BY <2>1, FS_EmptySet DEF CountsInv
<1>4. ClaimsInv
  BY DEF ClaimsInv
<1> QED  BY <1>1, <1>2, <1>3, <1>4 DEF Inv

(* The pointer's claim on the old pool passes to the decoder's thread.     *)
LEMMA UpdateFramePoolInv ==
  ASSUME Inv, NEW q \in Pools, UpdateFramePool(q)
  PROVE  Inv'
<1> USE DEF Inv
<1>0. /\ refcount' = [refcount EXCEPT ![q] = 1] /\ current' = q
      /\ live' = live \cup {q} /\ list' = [list EXCEPT ![q] = {}]
      /\ home' = home /\ count' = count /\ refs' = refs /\ data' = data
      /\ pc' = IF current = NULL THEN pc ELSE [pc EXCEPT ![Decoder] = "uninit"]
      /\ pool' = IF current = NULL THEN pool ELSE [pool EXCEPT ![Decoder] = current]
      /\ pc[Decoder] = "out" /\ q \notin live
  BY DEF UpdateFramePool, NewPool, Goto, dataVars
<1>1. TypeOK'
  <2>1. refcount' \in [Pools -> Nat] /\ list' \in [Pools -> SUBSET Data]
    BY <1>0 DEF TypeOK
  <2>2. pc' \in [Threads -> Places] /\ pool' \in [Threads -> Pools \cup {NULL}]
    BY <1>0 DEF TypeOK, Places
  <2> QED  BY <1>0, <2>1, <2>2 DEF TypeOK
<1>2. /\ Decoder \in Threads /\ pc[Decoder] = "out" /\ q \notin live /\ current # q
      /\ \A t \in Threads \ {Decoder} : pc'[t] = pc[t] /\ pool'[t] = pool[t]
      /\ current # NULL => pc'[Decoder] = "uninit" /\ pool'[Decoder] = current
      /\ current = NULL => pc'[Decoder] = "out"
      /\ \A t \in Threads : pc'[t] \in {"got", "release", "released", "free"} <=>
                            pc[t] \in {"got", "release", "released", "free"}
      /\ \A t \in Threads : pc'[t] \in {"got", "release", "released", "free"} =>
           pc'[t] = pc[t] /\ pool'[t] = pool[t]
      /\ \A t \in Threads : pc[t] # "got"
  BY <1>0, BufferPoolAssumption DEF TypeOK, PlacesInv
<1>3. \A d : /\ Got(d)' <=> Got(d)
             /\ Returning(d)' <=> Returning(d)
             /\ InUse(d)' <=> InUse(d)
             /\ RefTokens(d)' = RefTokens(d)
  BY <1>0, <1>2 DEF Got, Returning, InUse, RefTokens
<1>4. PlacesInv'
  BY <1>0, <1>2 DEF PlacesInv, TypeOK
<1>5. ListsInv'
  BY <1>0, <1>2, <1>3 DEF ListsInv, TypeOK
<1>6. CountsInv'
  BY <1>0, <1>3 DEF CountsInv
<1>7. ClaimsInv'
  <2>1. Claims(q)' = {q}
    <3>1. \A d \in Data : home'[d] # q
      BY <1>0, BufferPoolAssumption DEF ListsInv
    <3>2. \A t \in Threads : pc'[t] # "out" => pool'[t] # q
      BY <1>0, <1>2 DEF PlacesInv, TypeOK
    <3> QED  BY <1>0, <3>1, <3>2 DEF Claims
  <2>2. current # NULL =>
          /\ current \in Claims(current) /\ Decoder \notin Claims(current)
          /\ current \in Pools
    BY <1>2, BufferPoolAssumption DEF Claims, TypeOK
  <2>3. ASSUME NEW p \in live, p # current
        PROVE  Claims(p)' = Claims(p)
    BY <1>0, <1>2, <1>3, <2>3 DEF Claims, TypeOK
  <2>4. ASSUME NEW p \in live, p = current
        PROVE  Claims(p)' = (Claims(p) \ {p}) \cup {Decoder}
    <3>1. /\ {d \in Data : home[d] = p /\ InUse(d)}' = {d \in Data : home[d] = p /\ InUse(d)}
          /\ {t \in Threads : pc[t] \in {"released", "uninit", "uninited"} /\ pool[t] = p}'
               = {t \in Threads : pc[t] \in {"released", "uninit", "uninited"} /\ pool[t] = p}
                   \cup {Decoder}
      <4>1. \A t \in Threads \ {Decoder} : pc'[t] = pc[t] /\ pool'[t] = pool[t]
        BY <1>2
      <4>2. current # NULL
        BY <2>4, BufferPoolAssumption DEF TypeOK
      <4>3. pc'[Decoder] = "uninit" /\ pool'[Decoder] = p /\ Decoder \in Threads
        BY <1>2, <2>4, <4>2
      <4> QED  BY <1>0, <1>3, <4>1, <4>3
    <3>2. p \in Pools /\ p \notin Data /\ p \notin Threads /\ current' # p
      BY <1>0, <1>2, <2>4, BufferPoolAssumption DEF TypeOK
    <3> QED  BY <2>4, <3>1, <3>2 DEF Claims
  <2>5. ASSUME NEW p \in live
        PROVE  /\ Cardinality(Claims(p)') = Cardinality(Claims(p))
               /\ Claims(p)' = {} <=> Claims(p) = {}
    <3>1. CASE p = current
      <4>1. p \in Pools /\ p \in Claims(p) /\ Decoder \notin Claims(p) /\ current # NULL
        BY <2>2, <3>1, BufferPoolAssumption DEF TypeOK
      <4>2. Cardinality((Claims(p) \ {p}) \cup {Decoder}) = Cardinality(Claims(p))
        BY <4>1, ClaimPassed
      <4> QED  BY <2>4, <3>1, <4>1, <4>2
    <3>2. CASE p # current
      BY <2>3, <3>2
    <3> QED  BY <3>1, <3>2
  <2>6. \A p : FreedBy(p)' = FreedBy(p)
    BY <1>0, <1>2 DEF FreedBy
  <2>7. Cardinality(Claims(q)') = 1 /\ FreedBy(q)' = {} /\ Claims(q)' # {}
    <3>1. FreedBy(q)' = {}
      BY <1>0, <1>2 DEF FreedBy, PlacesInv
    <3> QED  BY <2>1, <3>1, FS_Singleton
  <2>8. ASSUME NEW p \in live'
        PROVE  /\ refcount'[p] = Cardinality(Claims(p)')
               /\ Claims(p)' = {} <=> FreedBy(p)' # {}
               /\ \A t, u \in FreedBy(p)' : t = u
    <3>1. CASE p = q
      BY <1>0, <2>7, <3>1 DEF TypeOK
    <3>2. CASE p \in live /\ p # q
      <4>1. refcount'[p] = refcount[p]
        BY <1>0, <3>2 DEF TypeOK
      <4>2. /\ refcount[p] = Cardinality(Claims(p))
            /\ Claims(p) = {} <=> FreedBy(p) # {}
            /\ \A t, u \in FreedBy(p) : t = u
        BY <3>2 DEF ClaimsInv
      <4>3. /\ Cardinality(Claims(p)') = Cardinality(Claims(p))
            /\ Claims(p)' = {} <=> Claims(p) = {}
        BY <2>5, <3>2
      <4>4. FreedBy(p)' = FreedBy(p)
        BY <2>6
      <4> QED  BY <4>1, <4>2, <4>3, <4>4
    <3> QED  BY <1>0, <2>8, <3>1, <3>2
  <2> QED  BY <2>8 DEF ClaimsInv
<1> QED  BY <1>1, <1>4, <1>5, <1>6, <1>7

LEMMA DropPoolInv == ASSUME Inv, DropPool PROVE Inv'
<1> USE DEF Inv
<1>0. /\ current \in Pools /\ current' = NULL
      /\ live' = live /\ refcount' = refcount /\ list' = list
      /\ home' = home /\ count' = count /\ refs' = refs /\ data' = data
      /\ pc' = [pc EXCEPT ![Decoder] = "uninit"]
      /\ pool' = [pool EXCEPT ![Decoder] = current]
      /\ pc[Decoder] = "out"
  BY DEF DropPool, Goto, dataVars, TypeOK
<1>1. TypeOK'
  <2>1. pc' \in [Threads -> Places] /\ pool' \in [Threads -> Pools \cup {NULL}]
    BY <1>0 DEF TypeOK, Places
  <2> QED  BY <1>0, <2>1 DEF TypeOK
<1>2. /\ Decoder \in Threads /\ current # NULL
      /\ current \notin Data /\ current \notin Threads /\ current \in live
      /\ \A t \in Threads \ {Decoder} : pc'[t] = pc[t] /\ pool'[t] = pool[t]
      /\ pc'[Decoder] = "uninit" /\ pool'[Decoder] = current
      /\ \A t \in Threads : pc[t] # "got"
  BY <1>0, BufferPoolAssumption DEF TypeOK, PlacesInv
<1>3. \A d : /\ Got(d)' <=> Got(d)
             /\ Returning(d)' <=> Returning(d)
             /\ InUse(d)' <=> InUse(d)
             /\ RefTokens(d)' = RefTokens(d)
  BY <1>0, <1>2 DEF Got, Returning, InUse, RefTokens
<1>4. PlacesInv'
  BY <1>0, <1>2 DEF PlacesInv
<1>5. ListsInv'
  BY <1>0, <1>2, <1>3 DEF ListsInv
<1>6. CountsInv'
  BY <1>0, <1>3 DEF CountsInv
<1>7. ASSUME NEW p \in live
      PROVE  /\ refcount'[p] = Cardinality(Claims(p)')
             /\ Claims(p)' = {} <=> FreedBy(p)' # {}
             /\ \A t, u \in FreedBy(p)' : t = u
  <2>1. /\ refcount[p] = Cardinality(Claims(p))
        /\ Claims(p) = {} <=> FreedBy(p) # {}
        /\ \A t, u \in FreedBy(p) : t = u
    BY DEF ClaimsInv
  <2>2. FreedBy(p)' = FreedBy(p)
    BY <1>0, <1>2 DEF FreedBy
  <2>3. {d \in Data : home[d] = p /\ InUse(d)}' = {d \in Data : home[d] = p /\ InUse(d)}
    BY <1>0, <1>3
  <2>4. CASE p # current
    <3>1. Claims(p)' = Claims(p)
      BY <1>0, <1>2, <2>3, <2>4, BufferPoolAssumption DEF Claims, TypeOK
    <3> QED  BY <1>0, <2>1, <2>2, <3>1
  <2>5. CASE p = current
    <3>1. {t \in Threads : pc[t] \in {"released", "uninit", "uninited"} /\ pool[t] = p}'
            = {t \in Threads : pc[t] \in {"released", "uninit", "uninited"} /\ pool[t] = p}
                \cup {Decoder}
      BY <1>2, <2>5
    <3>2. current' # p
      BY <1>0, <1>2, <2>5
    <3>3. Claims(p)' = (Claims(p) \ {p}) \cup {Decoder}
      BY <1>2, <2>3, <2>5, <3>1, <3>2 DEF Claims
    <3>4. p \in Pools /\ p \in Claims(p)
      BY <1>0, <2>5 DEF Claims
    <3>5. Decoder \notin Claims(p)
      BY <1>0, <1>2, <2>5, BufferPoolAssumption DEF Claims
    <3>6. Cardinality((Claims(p) \ {p}) \cup {Decoder}) = Cardinality(Claims(p))
      BY <3>4, <3>5, ClaimPassed
    <3> QED  BY <1>0, <2>1, <2>2, <3>3, <3>4, <3>6
  <2> QED  BY <2>4, <2>5
<1>8. ClaimsInv'
  BY <1>0, <1>7 DEF ClaimsInv
<1> QED  BY <1>1, <1>4, <1>5, <1>6, <1>8

(* The buffers that av_buffer_pool_uninit frees are claimed by nobody.     *)
LEMMA UninitInv == ASSUME Inv, NEW t \in Threads, Uninit(t) PROVE Inv'
<1> USE DEF Inv
<1>0. /\ pc[t] = "uninit" /\ t = Decoder /\ pool[t] \in live /\ pool[t] \in Pools
      /\ home' = [d \in Data |-> IF d \in list[pool[t]] THEN NULL ELSE home[d]]
      /\ list' = [list EXCEPT ![pool[t]] = {}]
      /\ pc' = [pc EXCEPT ![t] = "uninited"]
      /\ current' = current /\ live' = live /\ refcount' = refcount
      /\ count' = count /\ refs' = refs /\ pool' = pool /\ data' = data
  BY DEF Uninit, Goto, TypeOK, PlacesInv
<1>1. TypeOK'
  BY <1>0 DEF TypeOK, Places
<1>2. /\ \A u \in Threads \ {t} : pc'[u] = pc[u]
      /\ pc'[t] = "uninited"
      /\ \A u \in Threads : pc[u] # "got"
  BY <1>0 DEF TypeOK, PlacesInv
<1>3. /\ \A d : Got(d)' <=> Got(d)
      /\ \A d : Returning(d)' <=> Returning(d)
      /\ \A d : InUse(d)' <=> InUse(d)
      /\ \A d : RefTokens(d)' = RefTokens(d)
  BY <1>0, <1>2 DEF Got, Returning, InUse, RefTokens
<1>4. \A d \in list[pool[t]] : /\ d \in Data /\ home[d] = pool[t] /\ home'[d] = NULL
                               /\ count[d] = 0 /\ ~Returning(d) /\ ~InUse(d)
  BY <1>0 DEF ListsInv, InUse, TypeOK
<1>5. PlacesInv'
  BY <1>0, <1>2, <1>4 DEF PlacesInv, Returning
<1>6. ListsInv'
  <2>1. \A p \in Pools : list'[p] = IF p = pool[t] THEN {} ELSE list[p]
    BY <1>0 DEF TypeOK
  <2>2. \A d \in Data : home'[d] = IF d \in list[pool[t]] THEN NULL ELSE home[d]
    BY <1>0
  <2>3. \A p \in Pools : \A d \in list'[p] : home'[d] = p /\ count[d] = 0 /\ ~Returning(d)
    BY <2>1, <2>2, <1>4 DEF ListsInv, TypeOK
  <2>4. \A d \in Data : home'[d] = NULL => count[d] = 0
    BY <2>2, <1>4 DEF ListsInv
  <2>5. \A d \in Data : home'[d] # NULL =>
          home'[d] \in live /\ (d \in list'[home'[d]] \/ InUse(d) \/ Got(d))
    BY <2>1, <2>2, <1>4 DEF ListsInv, TypeOK
  <2> QED  BY <1>0, <1>3, <2>3, <2>4, <2>5 DEF ListsInv
<1>7. CountsInv'
  BY <1>0, <1>3 DEF CountsInv
<1>8. ASSUME NEW p \in live
      PROVE  Claims(p)' = Claims(p) /\ FreedBy(p)' = FreedBy(p)
  <2>1. {d \in Data : home[d] = p /\ InUse(d)}' = {d \in Data : home[d] = p /\ InUse(d)}
    <3>1. \A d \in Data : (home'[d] = p /\ InUse(d)) <=> (home[d] = p /\ InUse(d))
      BY <1>0, <1>4, BufferPoolAssumption DEF TypeOK
    <3> QED  BY <1>3, <3>1
  <2>2. {u \in Threads : pc[u] \in {"released", "uninit", "uninited"} /\ pool[u] = p}'
          = {u \in Threads : pc[u] \in {"released", "uninit", "uninited"} /\ pool[u] = p}
    BY <1>0, <1>2
  <2> QED  BY <1>0, <1>2, <2>1, <2>2 DEF Claims, FreedBy
<1>9. ClaimsInv'
  BY <1>0, <1>8 DEF ClaimsInv
<1> QED  BY <1>1, <1>5, <1>6, <1>7, <1>9

(* Who takes the last claim away goes on to free the pool.                 *)
LEMMA LowerRefcountInv == ASSUME Inv, NEW t \in Threads, LowerRefcount(t) PROVE Inv'
<1> USE DEF Inv
<1>0. /\ pc[t] \in {"released", "uninited"} /\ pool[t] \in live /\ pool[t] \in Pools
      /\ refcount' = [refcount EXCEPT ![pool[t]] = @ - 1]
      /\ pc' = [pc EXCEPT ![t] = IF refcount[pool[t]] = 1 THEN "free" ELSE "out"]
      /\ current' = current /\ live' = live /\ list' = list
      /\ home' = home /\ count' = count /\ refs' = refs /\ pool' = pool /\ data' = data
  BY DEF LowerRefcount, Goto, dataVars, TypeOK, PlacesInv
<1>1. /\ t \in Claims(pool[t])
      /\ refcount[pool[t]] = Cardinality(Claims(pool[t]))
      /\ FreedBy(pool[t]) = {}
      /\ Cardinality(Claims(pool[t]) \ {t}) = refcount[pool[t]] - 1
      /\ Cardinality(Claims(pool[t]) \ {t}) \in Nat
      /\ Claims(pool[t]) \ {t} = {} <=> refcount[pool[t]] = 1
  <2>1. t \in Claims(pool[t])
    BY <1>0 DEF Claims
  <2>2. refcount[pool[t]] = Cardinality(Claims(pool[t])) /\ FreedBy(pool[t]) = {}
    BY <1>0, <2>1 DEF ClaimsInv
  <2>3. Cardinality(Claims(pool[t]) \ {t}) = refcount[pool[t]] - 1
    BY <1>0, <2>1, <2>2, ClaimTaken
  <2>4. IsFiniteSet(Claims(pool[t]) \ {t})
    BY <1>0, ClaimsFinite, FS_Subset
  <2>5. refcount[pool[t]] \in Nat
    BY <1>0 DEF TypeOK
  <2>6. /\ Cardinality(Claims(pool[t]) \ {t}) \in Nat
        /\ Cardinality(Claims(pool[t]) \ {t}) = 0 <=> Claims(pool[t]) \ {t} = {}
    BY <2>4, FS_CardinalityType, FS_EmptySet
  <2> QED  BY <2>1, <2>2, <2>3, <2>5, <2>6
<1>2. TypeOK'
  <2>1. refcount' \in [Pools -> Nat]
    BY <1>0, <1>1 DEF TypeOK
  <2>2. pc' \in [Threads -> Places]
    BY <1>0 DEF TypeOK, Places
  <2> QED  BY <1>0, <2>1, <2>2 DEF TypeOK
<1>3. /\ \A u \in Threads \ {t} : pc'[u] = pc[u]
      /\ pc'[t] = IF refcount[pool[t]] = 1 THEN "free" ELSE "out"
  BY <1>0 DEF TypeOK
<1>4. /\ \A d : Got(d)' <=> Got(d)
      /\ \A d : Returning(d)' <=> Returning(d)
      /\ \A d : InUse(d)' <=> InUse(d)
      /\ \A d : RefTokens(d)' = RefTokens(d)
  BY <1>0, <1>3 DEF Got, Returning, InUse, RefTokens
<1>5. PlacesInv'
  BY <1>0, <1>3 DEF PlacesInv
<1>6. ListsInv'
  BY <1>0, <1>4 DEF ListsInv
<1>7. CountsInv'
  BY <1>0, <1>4 DEF CountsInv
<1>8. ASSUME NEW p \in live
      PROVE  /\ refcount'[p] = Cardinality(Claims(p)')
             /\ Claims(p)' = {} <=> FreedBy(p)' # {}
             /\ \A u, v \in FreedBy(p)' : u = v
  <2>1. /\ refcount[p] = Cardinality(Claims(p))
        /\ Claims(p) = {} <=> FreedBy(p) # {}
        /\ \A u, v \in FreedBy(p) : u = v
    BY DEF ClaimsInv
  <2>2. {d \in Data : home[d] = p /\ InUse(d)}' = {d \in Data : home[d] = p /\ InUse(d)}
    BY <1>0, <1>4
  <2>3. {u \in Threads : pc[u] \in {"released", "uninit", "uninited"} /\ pool[u] = p}'
          = {u \in Threads : pc[u] \in {"released", "uninit", "uninited"} /\ pool[u] = p} \ {t}
    BY <1>0, <1>3
  <2>4. CASE p # pool[t]
    <3>1. Claims(p)' = Claims(p)
      BY <1>0, <2>2, <2>3, <2>4 DEF Claims
    <3>2. FreedBy(p)' = FreedBy(p)
      BY <1>0, <1>3, <2>4 DEF FreedBy
    <3>3. refcount'[p] = refcount[p]
      BY <1>0, <2>4 DEF TypeOK
    <3> QED  BY <2>1, <3>1, <3>2, <3>3
  <2>5. CASE p = pool[t]
    <3>1. Claims(p)' = Claims(p) \ {t}
      <4>1. t \notin Data /\ t # p
        BY <1>0, <2>5, BufferPoolAssumption
      <4> QED  BY <1>0, <2>2, <2>3, <2>5, <4>1 DEF Claims
    <3>2. FreedBy(p)' = IF refcount[p] = 1 THEN {t} ELSE {}
      <4>1. \A u \in Threads : u # t => ~(pc'[u] = "free" /\ pool'[u] = p)
        BY <1>0, <1>1, <1>3, <2>5 DEF FreedBy
      <4> QED  BY <1>0, <1>3, <2>5, <4>1 DEF FreedBy
    <3>3. refcount'[p] = refcount[p] - 1
      BY <1>0, <2>5 DEF TypeOK
    <3> QED  BY <1>1, <2>5, <3>1, <3>2, <3>3
  <2> QED  BY <2>4, <2>5
<1>9. ClaimsInv'
  BY <1>0, <1>8 DEF ClaimsInv
<1> QED  BY <1>2, <1>5, <1>6, <1>7, <1>9

(* The pool that is freed has no claims, so nobody else is anywhere in it. *)
LEMMA FreePoolInv == ASSUME Inv, NEW t \in Threads, FreePool(t) PROVE Inv'
<1> USE DEF Inv
<1>0. /\ pc[t] = "free" /\ pool[t] \in live /\ pool[t] \in Pools
      /\ home' = [d \in Data |-> IF d \in list[pool[t]] THEN NULL ELSE home[d]]
      /\ list' = [list EXCEPT ![pool[t]] = {}]
      /\ live' = live \ {pool[t]}
      /\ pc' = [pc EXCEPT ![t] = "out"]
      /\ current' = current /\ refcount' = refcount
      /\ count' = count /\ refs' = refs /\ pool' = pool /\ data' = data
  BY DEF FreePool, Goto, TypeOK, PlacesInv
<1>1. TypeOK'
  <2>1. pc' \in [Threads -> Places]
    BY <1>0 DEF TypeOK, Places
  <2> QED  BY <1>0, <2>1 DEF TypeOK
<1>2. (\A u \in Threads \ {t} : pc'[u] = pc[u]) /\ pc'[t] = "out"
  BY <1>0 DEF TypeOK
<1>3. /\ \A d : Got(d)' <=> Got(d)
      /\ \A d : Returning(d)' <=> Returning(d)
      /\ \A d : InUse(d)' <=> InUse(d)
      /\ \A d : RefTokens(d)' = RefTokens(d)
  BY <1>0, <1>2 DEF Got, Returning, InUse, RefTokens
<1>4. Claims(pool[t]) = {} /\ FreedBy(pool[t]) = {t}
  <2>1. t \in FreedBy(pool[t])
    BY <1>0 DEF FreedBy
  <2> QED  BY <1>0, <2>1 DEF ClaimsInv
<1>5. /\ current # pool[t]
      /\ \A u \in Threads \ {t} : pc[u] # "out" => pool[u] # pool[t]
      /\ \A d \in Data : home[d] = pool[t] => d \in list[pool[t]]
  <2>1. current # pool[t]
    BY <1>4 DEF Claims
  <2>2. \A d \in Data : home[d] = pool[t] => ~InUse(d)
    BY <1>4 DEF Claims
  <2>3. ASSUME NEW u \in Threads \ {t}, pc[u] # "out" PROVE pool[u] # pool[t]
    <3>1. CASE pc[u] \in {"released", "uninit", "uninited"}
      BY <1>4, <3>1 DEF Claims
    <3>2. CASE pc[u] = "free"
      BY <1>4, <3>2 DEF FreedBy
    <3>3. CASE pc[u] = "got"
      BY <2>1, <3>3 DEF PlacesInv
    <3>4. CASE pc[u] = "release"
      BY <2>2, <3>4 DEF PlacesInv, InUse, Returning
    <3> QED  BY <2>3, <3>1, <3>2, <3>3, <3>4 DEF TypeOK, Places
  <2>4. ASSUME NEW d \in Data, home[d] = pool[t] PROVE d \in list[pool[t]]
    <3>1. ~Got(d)
      BY <2>1, <2>4 DEF Got, PlacesInv
    <3> QED  BY <1>0, <2>2, <2>4, <3>1, BufferPoolAssumption DEF ListsInv
  <2> QED  BY <2>1, <2>3, <2>4
<1>6. \A d \in list[pool[t]] : /\ d \in Data /\ home[d] = pool[t]
                               /\ count[d] = 0 /\ ~Returning(d) /\ ~InUse(d)
  BY <1>0 DEF ListsInv, InUse, TypeOK
<1>7. PlacesInv'
  BY <1>0, <1>2, <1>5, <1>6 DEF PlacesInv
<1>8. ListsInv'
  <2>1. \A p \in Pools : list'[p] = IF p = pool[t] THEN {} ELSE list[p]
    BY <1>0 DEF TypeOK
  <2>2. \A d \in Data : home'[d] = IF d \in list[pool[t]] THEN NULL ELSE home[d]
    BY <1>0
  <2>3. \A p \in Pools : \A d \in list'[p] : home'[d] = p /\ count[d] = 0 /\ ~Returning(d)
    BY <2>1, <2>2, <1>6 DEF ListsInv, TypeOK
  <2>4. \A d \in Data : home'[d] = NULL => count[d] = 0
    BY <2>2, <1>6 DEF ListsInv
  <2>5. \A d \in Data : home'[d] # NULL =>
          home'[d] \in live' /\ (d \in list'[home'[d]] \/ InUse(d) \/ Got(d))
    BY <1>0, <2>1, <2>2, <1>5 DEF ListsInv, TypeOK
  <2> QED  BY <1>0, <1>3, <2>3, <2>4, <2>5 DEF ListsInv
<1>9. CountsInv'
  BY <1>0, <1>3 DEF CountsInv
<1>10. ASSUME NEW p \in live'
       PROVE  Claims(p)' = Claims(p) /\ FreedBy(p)' = FreedBy(p)
  <2>1. {d \in Data : home[d] = p /\ InUse(d)}' = {d \in Data : home[d] = p /\ InUse(d)}
    <3>1. \A d \in Data : (home'[d] = p /\ InUse(d)) <=> (home[d] = p /\ InUse(d))
      BY <1>0, <1>6, <1>10, BufferPoolAssumption DEF TypeOK
    <3> QED  BY <1>3, <3>1
  <2>2. {u \in Threads : pc[u] \in {"released", "uninit", "uninited"} /\ pool[u] = p}'
          = {u \in Threads : pc[u] \in {"released", "uninit", "uninited"} /\ pool[u] = p}
    BY <1>0, <1>2
  <2>3. FreedBy(p)' = FreedBy(p)
    BY <1>0, <1>2, <1>10 DEF FreedBy
  <2> QED  BY <1>0, <2>1, <2>2, <2>3 DEF Claims
<1>11. ClaimsInv'
  BY <1>0, <1>10 DEF ClaimsInv
<1> QED  BY <1>1, <1>7, <1>8, <1>9, <1>11

(* A buffer just taken claims nothing yet: the pointer does.               *)
LEMMA GetInv == ASSUME Inv, NEW e \in Data, Get(e) PROVE Inv'
<1> USE DEF Inv
<1>0. /\ pc[Decoder] = "out" /\ current \in live /\ current \in Pools
      /\ home[e] = NULL \/ e \in list[current]
      /\ list' = [list EXCEPT ![current] = @ \ {e}]
      /\ home' = [home EXCEPT ![e] = current]
      /\ count' = [count EXCEPT ![e] = 1]
      /\ pc' = [pc EXCEPT ![Decoder] = "got"]
      /\ pool' = [pool EXCEPT ![Decoder] = current]
      /\ data' = [data EXCEPT ![Decoder] = e]
      /\ current' = current /\ live' = live /\ refcount' = refcount /\ refs' = refs
  BY DEF Get, Goto, TypeOK, PlacesInv
<1>1. /\ Decoder \in Threads
      /\ \A t \in Threads \ {Decoder} :
           pc'[t] = pc[t] /\ pool'[t] = pool[t] /\ data'[t] = data[t]
      /\ pc'[Decoder] = "got" /\ pool'[Decoder] = current /\ data'[Decoder] = e
      /\ \A t \in Threads : pc[t] # "got"
      /\ home'[e] = current /\ count'[e] = 1
      /\ \A d \in Data \ {e} : home'[d] = home[d] /\ count'[d] = count[d]
  BY <1>0, BufferPoolAssumption DEF TypeOK, PlacesInv
<1>2. TypeOK'
  <2>1. pc' \in [Threads -> Places]
    BY <1>0 DEF TypeOK, Places
  <2>2. list' \in [Pools -> SUBSET Data] /\ home' \in [Data -> Pools \cup {NULL}]
    BY <1>0 DEF TypeOK
  <2>3. count' \in [Data -> Nat]
    BY <1>0 DEF TypeOK
  <2> QED  BY <1>0, <2>1, <2>2, <2>3 DEF TypeOK
<1>3. count[e] = 0 /\ ~Returning(e) /\ ~Got(e) /\ ~InUse(e)
  <2>1. count[e] = 0
    BY <1>0 DEF ListsInv
  <2>2. ~Returning(e)
    <3>1. CASE e \in list[current]
      BY <1>0, <3>1 DEF ListsInv
    <3>2. CASE home[e] = NULL
      BY <3>2, BufferPoolAssumption DEF Returning, PlacesInv, TypeOK
    <3> QED  BY <1>0, <3>1, <3>2
  <2> QED  BY <1>1, <2>1, <2>2 DEF Got, InUse
<1>4. /\ \A d \in Data : Got(d)' <=> d = e
      /\ \A d \in Data : Returning(d)' <=> Returning(d)
      /\ \A d : RefTokens(d)' = RefTokens(d)
      /\ \A d \in Data : InUse(d)' <=> InUse(d)
  <2>1. \A d \in Data : Got(d)' <=> d = e
    BY <1>1 DEF Got
  <2>2. \A d \in Data : Returning(d)' <=> Returning(d)
    BY <1>0, <1>1 DEF Returning
  <2>3. \A d : RefTokens(d)' = RefTokens(d)
    BY <1>0 DEF RefTokens
  <2>4. ~InUse(e)'
    BY <1>3, <2>1, <2>2 DEF InUse
  <2>5. ASSUME NEW d \in Data, d # e PROVE InUse(d)' <=> InUse(d)
    <3>1. ~Got(d) /\ ~Got(d)' /\ count'[d] = count[d]
      BY <1>1, <2>1, <2>5 DEF Got
    <3> QED  BY <2>2, <3>1 DEF InUse
  <2> QED  BY <1>3, <2>1, <2>2, <2>3, <2>4, <2>5
<1>5. PlacesInv'
  <2>1. \A t \in Threads : pc[t] = "release" => data[t] # e
    BY <1>3 DEF Returning
  <2> QED  BY <1>0, <1>1, <2>1 DEF PlacesInv
<1>6. ListsInv'
  <2>1. \A p \in Pools : list'[p] = IF p = current THEN list[p] \ {e} ELSE list[p]
    BY <1>0 DEF TypeOK
  <2>2. \A p \in Pools : e \notin list'[p]
    BY <1>0, <2>1, BufferPoolAssumption DEF ListsInv
  <2>3. ASSUME NEW p \in Pools, NEW d \in list'[p]
        PROVE  home'[d] = p /\ count'[d] = 0 /\ ~Returning(d)
    <3>1. d \in list[p] /\ d \in Data /\ d # e
      BY <2>1, <2>2 DEF TypeOK
    <3>2. home[d] = p /\ count[d] = 0 /\ ~Returning(d)
      BY <3>1 DEF ListsInv
    <3> QED  BY <1>1, <3>1, <3>2
  <2>4. \A d \in Data : home'[d] = NULL => count'[d] = 0
    BY <1>0, <1>1, BufferPoolAssumption DEF ListsInv
  <2>5. ASSUME NEW d \in Data, home'[d] # NULL
        PROVE  home'[d] \in live /\ (d \in list'[home'[d]] \/ InUse(d) \/ d = e)
    BY <1>0, <1>1, <2>1, <2>5 DEF ListsInv, Got, TypeOK
  <2>6. list' \in [Pools -> SUBSET Data]
    BY <1>2 DEF TypeOK
  <2>7. \A p \in Pools : \A d \in list'[p] : ~Returning(d)'
    BY <1>4, <2>3, <2>6
  <2>8. \A d \in Data : home'[d] # NULL =>
          home'[d] \in live' /\ (d \in list'[home'[d]] \/ InUse(d)' \/ Got(d)')
    BY <1>0, <1>4, <2>5
  <2> QED  BY <2>3, <2>4, <2>7, <2>8 DEF ListsInv
<1>7. CountsInv'
  <2>1. RefTokens(e) = {}
    <3>1. Cardinality(RefTokens(e)) = 0
      BY <1>3 DEF CountsInv
    <3> QED  BY <3>1, RefTokensFinite, FS_EmptySet
  <2>2. ASSUME NEW d \in Data
        PROVE  /\ Got(d)' => count'[d] = 1 /\ RefTokens(d)' = {}
               /\ ~Got(d)' => count'[d] = Cardinality(RefTokens(d)')
    <3>1. CASE d = e
      BY <1>1, <1>4, <2>1, <3>1
    <3>2. CASE d # e
      <4>1. ~Got(d) /\ ~Got(d)' /\ count'[d] = count[d] /\ RefTokens(d)' = RefTokens(d)
        BY <1>1, <1>4, <3>2 DEF Got
      <4> QED  BY <4>1 DEF CountsInv
    <3> QED  BY <3>1, <3>2
  <2> QED  BY <2>2 DEF CountsInv
<1>8. ASSUME NEW p \in live
      PROVE  Claims(p)' = Claims(p) /\ FreedBy(p)' = FreedBy(p)
  <2>1. {d \in Data : home[d] = p /\ InUse(d)}' = {d \in Data : home[d] = p /\ InUse(d)}
    <3>1. \A d \in Data : (home'[d] = p /\ InUse(d)) <=> (home[d] = p /\ InUse(d))
      BY <1>1, <1>3
    <3> QED  BY <1>4, <3>1
  <2>2. {u \in Threads : pc[u] \in {"released", "uninit", "uninited"} /\ pool[u] = p}'
          = {u \in Threads : pc[u] \in {"released", "uninit", "uninited"} /\ pool[u] = p}
    BY <1>0, <1>1
  <2>3. FreedBy(p)' = FreedBy(p)
    BY <1>0, <1>1 DEF FreedBy
  <2> QED  BY <1>0, <2>1, <2>2, <2>3 DEF Claims
<1>9. ClaimsInv'
  BY <1>0, <1>8 DEF ClaimsInv
<1> QED  BY <1>2, <1>5, <1>6, <1>7, <1>9

(* Only now the buffer's own claim is counted.                             *)
LEMMA RaiseRefcountInv == ASSUME Inv, NEW t \in Threads, RaiseRefcount(t) PROVE Inv'
<1> USE DEF Inv
<1>0. PICK p0, e : p0 = pool[t] /\ e = data[t]
  OBVIOUS
<1>1. /\ pc[t] = "got" /\ p0 \in live /\ p0 \in Pools /\ p0 = current
      /\ e \in Data /\ home[e] = p0 /\ t = Decoder
      /\ refcount' = [refcount EXCEPT ![p0] = @ + 1]
      /\ refs' = [refs EXCEPT ![t][e] = 1]
      /\ pc' = [pc EXCEPT ![t] = "out"]
      /\ current' = current /\ live' = live /\ list' = list /\ home' = home
      /\ count' = count /\ pool' = pool /\ data' = data
  BY <1>0 DEF RaiseRefcount, Goto, TypeOK, PlacesInv
<1>2. /\ \A u \in Threads \ {t} : pc'[u] = pc[u] /\ pc[u] # "got"
      /\ pc'[t] = "out"
  BY <1>1 DEF TypeOK, PlacesInv
<1>3. Got(e) /\ count[e] = 1 /\ RefTokens(e) = {}
  BY <1>0, <1>1 DEF Got, CountsInv
<1>4. TypeOK'
  <2>1. refs' \in [Threads -> [Data -> 0 .. MaxRefs]]
    <3>1. 1 \in 0 .. MaxRefs
      BY BufferPoolAssumption
    <3> QED  BY <1>1, <3>1 DEF TypeOK
  <2>2. pc' \in [Threads -> Places]
    BY <1>1 DEF TypeOK, Places
  <2>3. refcount' \in [Pools -> Nat]
    BY <1>1 DEF TypeOK
  <2> QED  BY <1>1, <2>1, <2>2, <2>3 DEF TypeOK
<1>5. /\ \A d \in Data : ~Got(d)'
      /\ \A d \in Data \ {e} : ~Got(d)
      /\ \A d : Returning(d)' <=> Returning(d)
      /\ ~Returning(e)
  <2>1. \A d \in Data : ~Got(d)'
    BY <1>1, <1>2 DEF Got
  <2>2. \A d \in Data \ {e} : ~Got(d)
    BY <1>0, <1>1, <1>2 DEF Got
  <2>3. \A d : Returning(d)' <=> Returning(d)
    BY <1>1, <1>2 DEF Returning
  <2>4. ~Returning(e)
    BY <1>3 DEF Returning, PlacesInv
  <2> QED  BY <2>1, <2>2, <2>3, <2>4
<1>6. InUse(e)' /\ ~InUse(e) /\ \A d \in Data \ {e} : InUse(d)' <=> InUse(d)
  <2>1. InUse(e)' /\ ~InUse(e)
    BY <1>1, <1>3, <1>5 DEF InUse
  <2>2. ASSUME NEW d \in Data \ {e} PROVE InUse(d)' <=> InUse(d)
    BY <1>1, <1>5 DEF InUse
  <2> QED  BY <2>1, <2>2
<1>7. PlacesInv'
  BY <1>1, <1>2 DEF PlacesInv
<1>8. ListsInv'
  <2>1. \A d \in Data : home[d] # NULL => home[d] \in live /\ (d \in list[home[d]] \/ InUse(d)')
    BY <1>5, <1>6 DEF ListsInv
  <2> QED  BY <1>1, <1>5, <2>1 DEF ListsInv
<1>9. CountsInv'
  <2>1. \A u \in Threads : refs[u][e] = 0
    <3> SUFFICES ASSUME NEW u \in Threads, refs[u][e] # 0 PROVE FALSE
      OBVIOUS
    <3>1. refs[u][e] \in 0 .. MaxRefs
      BY <1>1 DEF TypeOK
    <3>2. <<u, 1>> \in RefTokens(e)
      BY <3>1, BufferPoolAssumption DEF RefTokens
    <3> QED  BY <1>3, <3>2
  <2>2. RefTokens(e)' = {<<t, 1>>}
    <3>1. /\ refs'[t][e] = 1
          /\ \A u \in Threads \ {t} : refs'[u][e] = 0
      BY <1>1, <2>1 DEF TypeOK
    <3>2. \A n \in 1 .. MaxRefs : ~(n <= 0) /\ (n <= 1 <=> n = 1)
      BY BufferPoolAssumption
    <3>3. 1 \in 1 .. MaxRefs
      BY BufferPoolAssumption
    <3> QED  BY <3>1, <3>2, <3>3 DEF RefTokens
  <2>3. ASSUME NEW d \in Data, d # e PROVE RefTokens(d)' = RefTokens(d)
    <3>1. \A u \in Threads : refs'[u][d] = refs[u][d]
      BY <1>1, <2>3 DEF TypeOK
    <3> QED  BY <3>1 DEF RefTokens
  <2>4. Cardinality({<<t, 1>>}) = 1
    BY FS_Singleton
  <2>5. ASSUME NEW d \in Data PROVE count'[d] = Cardinality(RefTokens(d)')
    <3>1. CASE d = e
      BY <1>1, <1>3, <2>2, <2>4, <3>1
    <3>2. CASE d # e
      BY <1>1, <1>5, <2>3, <3>2 DEF CountsInv
    <3> QED  BY <3>1, <3>2
  <2> QED  BY <1>5, <2>5 DEF CountsInv
<1>10. ASSUME NEW p \in live
       PROVE  /\ refcount'[p] = Cardinality(Claims(p)')
              /\ Claims(p)' = {} <=> FreedBy(p)' # {}
              /\ \A u, v \in FreedBy(p)' : u = v
  <2>1. /\ refcount[p] = Cardinality(Claims(p))
        /\ Claims(p) = {} <=> FreedBy(p) # {}
        /\ \A u, v \in FreedBy(p) : u = v
    BY DEF ClaimsInv
  <2>2. {u \in Threads : pc[u] \in {"released", "uninit", "uninited"} /\ pool[u] = p}'
          = {u \in Threads : pc[u] \in {"released", "uninit", "uninited"} /\ pool[u] = p}
    BY <1>1, <1>2
  <2>3. FreedBy(p)' = FreedBy(p)
    BY <1>1, <1>2 DEF FreedBy
  <2>4. CASE p # p0
    <3>1. {d \in Data : home[d] = p /\ InUse(d)}' = {d \in Data : home[d] = p /\ InUse(d)}
      <4>1. \A d \in Data : (home'[d] = p /\ InUse(d)') <=> (home[d] = p /\ InUse(d))
        BY <1>1, <1>6, <2>4
      <4> QED  BY <4>1
    <3>2. Claims(p)' = Claims(p)
      BY <1>1, <2>2, <3>1 DEF Claims
    <3> QED  BY <1>1, <2>1, <2>3, <2>4, <3>2 DEF TypeOK
  <2>5. CASE p = p0
    <3>1. {d \in Data : home[d] = p /\ InUse(d)}'
            = {d \in Data : home[d] = p /\ InUse(d)} \cup {e}
      <4>1. \A d \in Data : (home'[d] = p /\ InUse(d)') <=> (home[d] = p /\ InUse(d)) \/ d = e
        BY <1>1, <1>6, <2>5
      <4> QED  BY <1>1, <4>1
    <3>2. Claims(p)' = Claims(p) \cup {e}
      BY <1>1, <2>2, <3>1 DEF Claims
    <3>3. e \notin Claims(p) /\ p \in Claims(p)
      BY <1>1, <1>6, <2>5, BufferPoolAssumption DEF Claims
    <3>4. Cardinality(Claims(p) \cup {e}) = Cardinality(Claims(p)) + 1
      BY <1>1, <2>5, <3>3, ClaimGiven
    <3>5. refcount'[p] = refcount[p] + 1
      BY <1>1, <2>5 DEF TypeOK
    <3>6. Claims(p)' # {} /\ FreedBy(p)' = {}
      BY <2>1, <2>3, <3>2, <3>3
    <3> QED  BY <2>1, <2>3, <3>2, <3>4, <3>5, <3>6
  <2> QED  BY <2>4, <2>5
<1>11. ClaimsInv'
  BY <1>1, <1>10 DEF ClaimsInv
<1> QED  BY <1>4, <1>7, <1>8, <1>9, <1>11

(* What the holder of a reference knows of its buffer.                     *)
LEMMA Holder ==
  ASSUME Inv, NEW t \in Threads, NEW e \in Data, refs[t][e] > 0
  PROVE  /\ ~Got(e) /\ count[e] = Cardinality(RefTokens(e)) /\ count[e] > 0
         /\ <<t, refs[t][e]>> \in RefTokens(e)
         /\ ~Returning(e) /\ InUse(e)
         /\ home[e] \in live /\ home[e] \in Pools /\ e \notin list[home[e]]
<1> USE DEF Inv
<1>1. refs[t][e] \in 1 .. MaxRefs
  <2>1. refs[t][e] \in 0 .. MaxRefs
    BY DEF TypeOK
  <2> QED  BY <2>1
<1>2. <<t, refs[t][e]>> \in RefTokens(e)
  BY <1>1 DEF RefTokens
<1>3. ~Got(e) /\ count[e] = Cardinality(RefTokens(e))
  BY <1>2 DEF CountsInv
<1>4. count[e] > 0
  <2>1. Cardinality(RefTokens(e)) # 0
    BY <1>2, RefTokensFinite, FS_EmptySet
  <2> QED  BY <1>3, <2>1, RefTokensFinite
<1>5. ~Returning(e) /\ InUse(e)
  BY <1>3, <1>4 DEF Returning, InUse, PlacesInv
<1>6. home[e] \in live
  BY <1>4 DEF ListsInv
<1>7. home[e] \in Pools /\ e \notin list[home[e]]
  BY <1>4, <1>6 DEF ListsInv, TypeOK
<1> QED  BY <1>2, <1>3, <1>4, <1>5, <1>6, <1>7

LEMMA RefInv ==
  ASSUME Inv, NEW t \in Threads, NEW u \in Threads, NEW e \in Data, Ref(t, u, e)
  PROVE  Inv'
<1> USE DEF Inv
<1>1. /\ refs[t][e] > 0 /\ refs[u][e] < MaxRefs
      /\ count' = [count EXCEPT ![e] = @ + 1]
      /\ refs' = [refs EXCEPT ![u][e] = @ + 1]
      /\ current' = current /\ live' = live /\ list' = list /\ home' = home
      /\ refcount' = refcount /\ pc' = pc /\ pool' = pool /\ data' = data
  BY DEF Ref, poolVars
<1>2. /\ ~Got(e) /\ count[e] = Cardinality(RefTokens(e)) /\ count[e] > 0
      /\ ~Returning(e) /\ InUse(e)
  BY <1>1, Holder
<1>3. /\ refs[u][e] \in 0 .. MaxRefs /\ refs[u][e] + 1 \in 1 .. MaxRefs
      /\ count[e] \in Nat
  <2>1. refs[u][e] \in 0 .. MaxRefs /\ count[e] \in Nat
    BY DEF TypeOK
  <2> QED  BY <1>1, <2>1, BufferPoolAssumption
<1>4. TypeOK'
  <2>1. refs' \in [Threads -> [Data -> 0 .. MaxRefs]]
    <3>1. refs[u][e] + 1 \in 0 .. MaxRefs
      BY <1>3
    <3> QED  BY <1>1, <3>1 DEF TypeOK
  <2>2. count' \in [Data -> Nat]
    BY <1>1 DEF TypeOK
  <2> QED  BY <1>1, <2>1, <2>2 DEF TypeOK
<1>5. count'[e] = count[e] + 1 /\ \A d \in Data \ {e} : count'[d] = count[d]
  BY <1>1 DEF TypeOK
<1>6. /\ \A d : Got(d)' <=> Got(d)
      /\ \A d : Returning(d)' <=> Returning(d)
      /\ \A d \in Data : InUse(d)' <=> InUse(d)
  <2>1. /\ \A d : Got(d)' <=> Got(d)
        /\ \A d : Returning(d)' <=> Returning(d)
    BY <1>1 DEF Got, Returning
  <2>2. InUse(e)'
    BY <1>2, <1>3, <1>5, <2>1 DEF InUse
  <2>3. ASSUME NEW d \in Data \ {e} PROVE InUse(d)' <=> InUse(d)
    BY <1>5, <2>1 DEF InUse
  <2> QED  BY <1>2, <2>1, <2>2, <2>3
<1>7. PlacesInv'
  <2>1. \A w \in Threads : pc[w] = "release" => data[w] # e
    BY <1>2 DEF Returning
  <2> QED  BY <1>1, <1>5, <2>1 DEF PlacesInv
<1>8. ListsInv'
  <2>1. \A p \in Pools : e \notin list[p]
    BY <1>2 DEF ListsInv
  <2>2. \A p \in Pools : \A d \in list[p] : home[d] = p /\ count'[d] = 0 /\ ~Returning(d)
    BY <1>5, <2>1 DEF ListsInv, TypeOK
  <2>3. \A d \in Data : home[d] = NULL => count'[d] = 0
    BY <1>2, <1>3, <1>5 DEF ListsInv
  <2>4. \A d \in Data : home[d] # NULL =>
          home[d] \in live /\ (d \in list[home[d]] \/ InUse(d)' \/ Got(d)')
    BY <1>6 DEF ListsInv
  <2> QED  BY <1>1, <1>6, <2>2, <2>3, <2>4 DEF ListsInv
<1>9. CountsInv'
  <2>1. RefTokens(e)' = RefTokens(e) \cup {<<u, refs[u][e] + 1>>}
    <3>1. /\ refs'[u][e] = refs[u][e] + 1
          /\ \A w \in Threads \ {u} : refs'[w][e] = refs[w][e]
      BY <1>1 DEF TypeOK
    <3>2. \A n \in 1 .. MaxRefs : n <= refs[u][e] + 1 <=> n <= refs[u][e] \/ n = refs[u][e] + 1
      BY <1>3
    <3>3. \A x \in Threads \X (1 .. MaxRefs) :
            x[2] <= refs'[x[1]][e] <=> x[2] <= refs[x[1]][e] \/ x = <<u, refs[u][e] + 1>>
      <4> SUFFICES ASSUME NEW w \in Threads, NEW n \in 1 .. MaxRefs
                   PROVE  n <= refs'[w][e] <=> n <= refs[w][e] \/ <<w, n>> = <<u, refs[u][e] + 1>>
        OBVIOUS
      <4> QED  BY <3>1, <3>2
    <3> QED  BY <1>3, <3>3 DEF RefTokens
  <2>2. <<u, refs[u][e] + 1>> \notin RefTokens(e)
    BY <1>3 DEF RefTokens
  <2>3. Cardinality(RefTokens(e)') = Cardinality(RefTokens(e)) + 1
    BY <2>1, <2>2, RefTokensFinite, FS_AddElement
  <2>4. ASSUME NEW d \in Data, d # e PROVE RefTokens(d)' = RefTokens(d)
    <3>1. \A w \in Threads : refs'[w][d] = refs[w][d]
      BY <1>1, <2>4 DEF TypeOK
    <3> QED  BY <3>1 DEF RefTokens
  <2>5. ASSUME NEW d \in Data
        PROVE  /\ Got(d)' => count'[d] = 1 /\ RefTokens(d)' = {}
               /\ ~Got(d)' => count'[d] = Cardinality(RefTokens(d)')
    <3>1. CASE d = e
      BY <1>2, <1>5, <1>6, <2>3, <3>1
    <3>2. CASE d # e
      BY <1>5, <1>6, <2>4, <3>2 DEF CountsInv
    <3> QED  BY <3>1, <3>2
  <2> QED  BY <2>5 DEF CountsInv
<1>10. ASSUME NEW p \in live
       PROVE  Claims(p)' = Claims(p) /\ FreedBy(p)' = FreedBy(p)
  <2>1. {d \in Data : home[d] = p /\ InUse(d)}' = {d \in Data : home[d] = p /\ InUse(d)}
    BY <1>1, <1>6
  <2>2. {w \in Threads : pc[w] \in {"released", "uninit", "uninited"} /\ pool[w] = p}'
          = {w \in Threads : pc[w] \in {"released", "uninit", "uninited"} /\ pool[w] = p}
    BY <1>1
  <2>3. FreedBy(p)' = FreedBy(p)
    BY <1>1 DEF FreedBy
  <2> QED  BY <1>1, <2>1, <2>2, <2>3 DEF Claims
<1>11. ClaimsInv'
  BY <1>1, <1>10 DEF ClaimsInv
<1> QED  BY <1>4, <1>7, <1>8, <1>9, <1>11

(* The last reference's claim stays with the thread that gives it up.      *)
LEMMA UnrefInv ==
  ASSUME Inv, NEW t \in Threads, NEW e \in Data, Unref(t, e)
  PROVE  Inv'
<1> USE DEF Inv
<1>0. PICK last \in BOOLEAN : last <=> count[e] = 1
  OBVIOUS
<1>1. /\ pc[t] = "out" /\ refs[t][e] > 0
      /\ count' = [count EXCEPT ![e] = @ - 1]
      /\ refs' = [refs EXCEPT ![t][e] = @ - 1]
      /\ pc' = IF last THEN [pc EXCEPT ![t] = "release"] ELSE pc
      /\ pool' = IF last THEN [pool EXCEPT ![t] = home[e]] ELSE pool
      /\ data' = IF last THEN [data EXCEPT ![t] = e] ELSE data
      /\ current' = current /\ live' = live /\ list' = list /\ home' = home
      /\ refcount' = refcount
  BY <1>0 DEF Unref, Goto, poolVars
<1>2. /\ ~Got(e) /\ count[e] = Cardinality(RefTokens(e)) /\ count[e] > 0
      /\ <<t, refs[t][e]>> \in RefTokens(e)
      /\ ~Returning(e) /\ InUse(e)
      /\ home[e] \in live /\ home[e] \in Pools /\ e \notin list[home[e]]
  BY <1>1, Holder
<1>3. /\ refs[t][e] \in 1 .. MaxRefs
      /\ count[e] - 1 \in Nat
      /\ count[e] - 1 = 0 <=> count[e] = 1
      /\ count[e] # 1 => count[e] - 1 > 0
  <2>1. refs[t][e] \in 0 .. MaxRefs
    BY DEF TypeOK
  <2>2. count[e] \in Nat
    BY DEF TypeOK
  <2>3. count[e] > 0 /\ refs[t][e] > 0
    BY <1>1, <1>2
  <2>4. refs[t][e] \in 1 .. MaxRefs
    BY <2>1, <2>3
  <2> QED  BY <2>2, <2>3, <2>4
<1>4. TypeOK'
  <2>1. refs' \in [Threads -> [Data -> 0 .. MaxRefs]]
    <3>1. refs[t][e] - 1 \in 0 .. MaxRefs
      BY <1>3, BufferPoolAssumption
    <3> QED  BY <1>1, <3>1 DEF TypeOK
  <2>2. count' \in [Data -> Nat]
    BY <1>1, <1>3 DEF TypeOK
  <2>3. pc' \in [Threads -> Places]
    BY <1>1 DEF TypeOK, Places
  <2>4. pool' \in [Threads -> Pools \cup {NULL}] /\ data' \in [Threads -> Data \cup {NULL}]
    BY <1>1, <1>2 DEF TypeOK
  <2> QED  BY <1>1, <2>1, <2>2, <2>3, <2>4 DEF TypeOK
<1>5. /\ count'[e] = count[e] - 1 /\ \A d \in Data \ {e} : count'[d] = count[d]
      /\ \A u \in Threads \ {t} : pc'[u] = pc[u] /\ pool'[u] = pool[u] /\ data'[u] = data[u]
      /\ last => pc'[t] = "release" /\ pool'[t] = home[e] /\ data'[t] = e
      /\ ~last => pc' = pc /\ pool' = pool /\ data' = data
  BY <1>1 DEF TypeOK
<1>6. /\ \A d \in Data : Got(d)' <=> Got(d)
      /\ \A d \in Data \ {e} : Returning(d)' <=> Returning(d)
      /\ Returning(e)' <=> last
      /\ \A d \in Data : InUse(d)' <=> InUse(d)
  <2>1. \A d \in Data : Got(d)' <=> Got(d)
    BY <1>1, <1>5 DEF Got
  <2>2. ASSUME NEW d \in Data \ {e} PROVE Returning(d)' <=> Returning(d)
    BY <1>1, <1>5 DEF Returning
  <2>3. Returning(e)' <=> last
    <3>1. CASE last
      BY <1>5, <3>1 DEF Returning
    <3>2. CASE ~last
      BY <1>2, <1>5, <3>2 DEF Returning
    <3> QED  BY <3>1, <3>2
  <2>4. InUse(e)'
    <3>1. CASE last
      BY <2>3, <3>1 DEF InUse
    <3>2. CASE ~last
      <4>1. count'[e] > 0
        BY <1>0, <1>3, <1>5, <3>2
      <4> QED  BY <1>2, <2>1, <4>1 DEF InUse
    <3> QED  BY <3>1, <3>2
  <2>5. ASSUME NEW d \in Data \ {e} PROVE InUse(d)' <=> InUse(d)
    BY <1>5, <2>1, <2>2 DEF InUse
  <2> QED  BY <1>2, <2>1, <2>2, <2>3, <2>4, <2>5
<1>7. PlacesInv'
  <2>1. \A u \in Threads : pc[u] \in {"got", "release"} => data[u] # e
    BY <1>2 DEF Returning, Got
  <2>2. last => count'[e] = 0
    BY <1>0, <1>5
  <2>3. current' # NULL => current' \in live'
    BY <1>1 DEF PlacesInv
  <2>4. ASSUME NEW u \in Threads
        PROVE  /\ pc'[u] # "out" => pool'[u] \in live'
               /\ pc'[u] = "got" =>
                    /\ u = Decoder /\ data'[u] \in Data
                    /\ pool'[u] = current' /\ home'[data'[u]] = current'
               /\ pc'[u] \in {"uninit", "uninited"} => u = Decoder
               /\ pc'[u] = "release" =>
                    /\ data'[u] \in Data /\ home'[data'[u]] = pool'[u] /\ count'[data'[u]] = 0
    <3>1. CASE u = t /\ last
      BY <1>1, <1>2, <1>5, <2>2, <3>1
    <3>2. CASE ~(u = t /\ last)
      <4>1. pc'[u] = pc[u] /\ pool'[u] = pool[u] /\ data'[u] = data[u]
        BY <1>5, <3>2
      <4> QED  BY <1>1, <1>5, <2>1, <4>1 DEF PlacesInv
    <3> QED  BY <3>1, <3>2
  <2>5. ASSUME NEW u \in Threads, NEW v \in Threads,
               pc'[u] = "release", pc'[v] = "release", data'[u] = data'[v]
        PROVE  u = v
    BY <1>5, <2>1, <2>5 DEF PlacesInv
  <2> QED  BY <2>3, <2>4, <2>5 DEF PlacesInv
<1>8. ListsInv'
  <2>1. \A p \in Pools : e \notin list[p]
    BY <1>2 DEF ListsInv
  <2>2. \A p \in Pools : \A d \in list[p] : home[d] = p /\ count'[d] = 0 /\ ~Returning(d)'
    BY <1>5, <1>6, <2>1 DEF ListsInv, TypeOK
  <2>3. \A d \in Data : home[d] = NULL => count'[d] = 0
    <3>1. home[e] # NULL
      BY <1>2, BufferPoolAssumption
    <3> QED  BY <1>5, <3>1 DEF ListsInv
  <2>4. \A d \in Data : home[d] # NULL =>
          home[d] \in live /\ (d \in list[home[d]] \/ InUse(d)' \/ Got(d)')
    BY <1>6 DEF ListsInv
  <2> QED  BY <1>1, <2>2, <2>3, <2>4 DEF ListsInv
<1>9. CountsInv'
  <2>1. RefTokens(e)' = RefTokens(e) \ {<<t, refs[t][e]>>}
    <3>1. /\ refs'[t][e] = refs[t][e] - 1
          /\ \A w \in Threads \ {t} : refs'[w][e] = refs[w][e]
      BY <1>1 DEF TypeOK
    <3>2. \A n \in 1 .. MaxRefs : n <= refs[t][e] - 1 <=> n <= refs[t][e] /\ n # refs[t][e]
      BY <1>3
    <3>3. \A x \in Threads \X (1 .. MaxRefs) :
            x[2] <= refs'[x[1]][e] <=> x[2] <= refs[x[1]][e] /\ x # <<t, refs[t][e]>>
      <4> SUFFICES ASSUME NEW w \in Threads, NEW n \in 1 .. MaxRefs
                   PROVE  n <= refs'[w][e] <=> n <= refs[w][e] /\ <<w, n>> # <<t, refs[t][e]>>
        OBVIOUS
      <4> QED  BY <3>1, <3>2
    <3> QED  BY <1>3, <3>3 DEF RefTokens
  <2>2. Cardinality(RefTokens(e)') = Cardinality(RefTokens(e)) - 1
    <3>1. IsFiniteSet(RefTokens(e))
      BY RefTokensFinite
    <3>2. Cardinality(RefTokens(e) \ {<<t, refs[t][e]>>}) = Cardinality(RefTokens(e)) - 1
      BY <1>2, <3>1, FS_RemoveElement
    <3> QED  BY <2>1, <3>2
  <2>3. ASSUME NEW d \in Data, d # e PROVE RefTokens(d)' = RefTokens(d)
    <3>1. \A w \in Threads : refs'[w][d] = refs[w][d]
      BY <1>1, <2>3 DEF TypeOK
    <3> QED  BY <3>1 DEF RefTokens
  <2>4. ASSUME NEW d \in Data
        PROVE  /\ Got(d)' => count'[d] = 1 /\ RefTokens(d)' = {}
               /\ ~Got(d)' => count'[d] = Cardinality(RefTokens(d)')
    <3>1. CASE d = e
      BY <1>2, <1>5, <1>6, <2>2, <3>1
    <3>2. CASE d # e
      BY <1>5, <1>6, <2>3, <3>2 DEF CountsInv
    <3> QED  BY <3>1, <3>2
  <2> QED  BY <2>4 DEF CountsInv
<1>10. ASSUME NEW p \in live
       PROVE  Claims(p)' = Claims(p) /\ FreedBy(p)' = FreedBy(p)
  <2>1. {d \in Data : home[d] = p /\ InUse(d)}' = {d \in Data : home[d] = p /\ InUse(d)}
    BY <1>1, <1>6
  <2>2. {w \in Threads : pc[w] \in {"released", "uninit", "uninited"} /\ pool[w] = p}'
          = {w \in Threads : pc[w] \in {"released", "uninit", "uninited"} /\ pool[w] = p}
    BY <1>1, <1>5
  <2>3. FreedBy(p)' = FreedBy(p)
    BY <1>1, <1>5 DEF FreedBy
  <2> QED  BY <1>1, <2>1, <2>2, <2>3 DEF Claims
<1>11. ClaimsInv'
  BY <1>1, <1>10 DEF ClaimsInv
<1> QED  BY <1>4, <1>7, <1>8, <1>9, <1>11

(* The claim passes from the buffer to the thread that put it back.        *)
LEMMA ReleaseInv == ASSUME Inv, NEW t \in Threads, Release(t) PROVE Inv'
<1> USE DEF Inv
<1>0. PICK p0, e : p0 = pool[t] /\ e = data[t]
  OBVIOUS
<1>1. /\ pc[t] = "release" /\ p0 \in live /\ p0 \in Pools
      /\ e \in Data /\ home[e] = p0 /\ count[e] = 0
      /\ list' = [list EXCEPT ![p0] = @ \cup {e}]
      /\ pc' = [pc EXCEPT ![t] = "released"]
      /\ current' = current /\ live' = live /\ refcount' = refcount /\ home' = home
      /\ count' = count /\ refs' = refs /\ pool' = pool /\ data' = data
  BY <1>0 DEF Release, Goto, dataVars, TypeOK, PlacesInv
<1>2. /\ \A u \in Threads \ {t} : pc'[u] = pc[u]
      /\ pc'[t] = "released"
      /\ \A u \in Threads : u # t /\ pc[u] = "release" => data[u] # e
  BY <1>0, <1>1 DEF TypeOK, PlacesInv
<1>3. TypeOK'
  <2>1. list' \in [Pools -> SUBSET Data]
    BY <1>1 DEF TypeOK
  <2>2. pc' \in [Threads -> Places]
    BY <1>1 DEF TypeOK, Places
  <2> QED  BY <1>1, <2>1, <2>2 DEF TypeOK
<1>4. /\ \A d : Got(d)' <=> Got(d)
      /\ ~Got(e)
      /\ Returning(e) /\ ~Returning(e)'
      /\ \A d \in Data \ {e} : Returning(d)' <=> Returning(d)
      /\ \A d : RefTokens(d)' = RefTokens(d)
  <2>1. \A d : Got(d)' <=> Got(d)
    BY <1>1, <1>2 DEF Got
  <2>2. ~Got(e)
    BY <1>1 DEF CountsInv
  <2>3. Returning(e)
    BY <1>0, <1>1 DEF Returning
  <2>4. ~Returning(e)'
    BY <1>1, <1>2 DEF Returning
  <2>5. ASSUME NEW d \in Data \ {e} PROVE Returning(d)' <=> Returning(d)
    BY <1>0, <1>1, <1>2 DEF Returning
  <2>6. \A d : RefTokens(d)' = RefTokens(d)
    BY <1>1 DEF RefTokens
  <2> QED  BY <2>1, <2>2, <2>3, <2>4, <2>5, <2>6
<1>5. InUse(e) /\ ~InUse(e)' /\ \A d \in Data \ {e} : InUse(d)' <=> InUse(d)
  <2>1. InUse(e) /\ ~InUse(e)'
    BY <1>1, <1>4 DEF InUse
  <2>2. ASSUME NEW d \in Data \ {e} PROVE InUse(d)' <=> InUse(d)
    BY <1>1, <1>4 DEF InUse
  <2> QED  BY <2>1, <2>2
<1>6. PlacesInv'
  BY <1>1, <1>2 DEF PlacesInv
<1>7. ListsInv'
  <2>1. \A p \in Pools : list'[p] = IF p = p0 THEN list[p] \cup {e} ELSE list[p]
    BY <1>1 DEF TypeOK
  <2>2. ASSUME NEW p \in Pools, NEW d \in list'[p]
        PROVE  home[d] = p /\ count[d] = 0 /\ ~Returning(d)'
    <3>1. CASE d = e
      BY <1>1, <1>4, <2>1, <3>1 DEF ListsInv
    <3>2. CASE d # e
      <4>1. d \in list[p] /\ d \in Data \ {e}
        BY <2>1, <3>2 DEF TypeOK
      <4> QED  BY <1>4, <4>1 DEF ListsInv
    <3> QED  BY <3>1, <3>2
  <2>3. \A d \in Data : home[d] = NULL => count[d] = 0
    BY DEF ListsInv
  <2>4. ASSUME NEW d \in Data, home[d] # NULL
        PROVE  home[d] \in live /\ (d \in list'[home[d]] \/ InUse(d)' \/ Got(d)')
    <3>1. home[d] \in live /\ home[d] \in Pools /\ (d \in list[home[d]] \/ InUse(d) \/ Got(d))
      BY <2>4 DEF ListsInv, TypeOK
    <3>2. CASE d = e
      BY <1>1, <2>1, <3>1, <3>2
    <3>3. CASE d # e
      BY <1>4, <1>5, <2>1, <3>1, <3>3
    <3> QED  BY <3>2, <3>3
  <2> QED  BY <1>1, <2>2, <2>3, <2>4 DEF ListsInv
<1>8. CountsInv'
  BY <1>1, <1>4 DEF CountsInv
<1>9. ASSUME NEW p \in live
      PROVE  /\ refcount'[p] = Cardinality(Claims(p)')
             /\ Claims(p)' = {} <=> FreedBy(p)' # {}
             /\ \A u, v \in FreedBy(p)' : u = v
  <2>1. /\ refcount[p] = Cardinality(Claims(p))
        /\ Claims(p) = {} <=> FreedBy(p) # {}
        /\ \A u, v \in FreedBy(p) : u = v
    BY DEF ClaimsInv
  <2>2. FreedBy(p)' = FreedBy(p)
    BY <1>1, <1>2 DEF FreedBy
  <2>3. CASE p # p0
    <3>1. {d \in Data : home[d] = p /\ InUse(d)}' = {d \in Data : home[d] = p /\ InUse(d)}
      <4>1. \A d \in Data : (home'[d] = p /\ InUse(d)') <=> (home[d] = p /\ InUse(d))
        BY <1>1, <1>5, <2>3
      <4> QED  BY <4>1
    <3>2. {u \in Threads : pc[u] \in {"released", "uninit", "uninited"} /\ pool[u] = p}'
            = {u \in Threads : pc[u] \in {"released", "uninit", "uninited"} /\ pool[u] = p}
      BY <1>0, <1>1, <1>2, <2>3
    <3>3. Claims(p)' = Claims(p)
      BY <1>1, <3>1, <3>2 DEF Claims
    <3> QED  BY <1>1, <2>1, <2>2, <3>3
  <2>4. CASE p = p0
    <3>1. {d \in Data : home[d] = p /\ InUse(d)}'
            = {d \in Data : home[d] = p /\ InUse(d)} \ {e}
      <4>1. \A d \in Data : (home'[d] = p /\ InUse(d)') <=> (home[d] = p /\ InUse(d)) /\ d # e
        BY <1>1, <1>5
      <4> QED  BY <4>1
    <3>2. {u \in Threads : pc[u] \in {"released", "uninit", "uninited"} /\ pool[u] = p}'
            = {u \in Threads : pc[u] \in {"released", "uninit", "uninited"} /\ pool[u] = p} \cup {t}
      BY <1>0, <1>1, <1>2, <2>4
    <3>3. e \notin Threads /\ e # p /\ t # e
      BY <1>1, <2>4, BufferPoolAssumption
    <3>4. Claims(p)' = (Claims(p) \ {e}) \cup {t}
      BY <1>1, <3>1, <3>2, <3>3 DEF Claims
    <3>5. p \in Pools /\ e \in Claims(p)
      BY <1>1, <1>5, <2>4 DEF Claims
    <3>6. t \notin Claims(p)
      BY <1>1, <2>4, BufferPoolAssumption DEF Claims
    <3>7. Cardinality((Claims(p) \ {e}) \cup {t}) = Cardinality(Claims(p))
      BY <3>5, <3>6, ClaimPassed
    <3> QED  BY <1>1, <2>1, <2>2, <3>4, <3>5, <3>7
  <2> QED  BY <2>3, <2>4
<1>10. ClaimsInv'
  BY <1>1, <1>9 DEF ClaimsInv
<1> QED  BY <1>3, <1>6, <1>7, <1>8, <1>10

LEMMA NextInv == Inv /\ [Next]_vars => Inv'
<1> SUFFICES ASSUME Inv, [Next]_vars PROVE Inv'
  OBVIOUS
<1>1. CASE UNCHANGED vars
  <2>1. /\ current' = current /\ live' = live /\ refcount' = refcount /\ list' = list
        /\ home' = home /\ count' = count /\ refs' = refs
        /\ pc' = pc /\ pool' = pool /\ data' = data
    BY <1>1 DEF vars, poolVars, dataVars
  <2>2. /\ \A d : Got(d)' <=> Got(d)
        /\ \A d : Returning(d)' <=> Returning(d)
        /\ \A d : InUse(d)' <=> InUse(d)
        /\ \A d : RefTokens(d)' = RefTokens(d)
        /\ \A p : FreedBy(p)' = FreedBy(p)
    BY <2>1 DEF Got, Returning, InUse, RefTokens, FreedBy
  <2>3. \A p : Claims(p)' = Claims(p)
    BY <2>1, <2>2 DEF Claims
  <2>4. TypeOK' /\ PlacesInv'
    BY <2>1 DEF Inv, TypeOK, PlacesInv
  <2>5. ListsInv'
    BY <2>1, <2>2 DEF Inv, ListsInv
  <2>6. CountsInv' /\ ClaimsInv'
    BY <2>1, <2>2, <2>3 DEF Inv, CountsInv, ClaimsInv
  <2> QED  BY <2>4, <2>5, <2>6 DEF Inv
<1>2. CASE \E p \in Pools : UpdateFramePool(p)
  BY <1>2, UpdateFramePoolInv
<1>3. CASE DropPool
  BY <1>3, DropPoolInv
<1>4. CASE \E d \in Data : Get(d)
  BY <1>4, GetInv
<1>5. CASE \E t \in Threads, d \in Data : Unref(t, d) \/ \E u \in Threads : Ref(t, u, d)
  BY <1>5, UnrefInv, RefInv
<1>6. CASE \E t \in Threads : Step(t)
  BY <1>6, UninitInv, LowerRefcountInv, FreePoolInv, RaiseRefcountInv, ReleaseInv DEF Step
<1> QED  BY <1>1, <1>2, <1>3, <1>4, <1>5, <1>6 DEF Next

LEMMA Invariance == Spec => []Inv
BY InitInv, NextInv, PTL DEF Spec

-----------------------------------------------------------------------------
(* The counters stay natural numbers, and everything else in its type.     *)
THEOREM PoolTypeCorrect == Spec => []TypeOK
<1>1. Inv => TypeOK
  BY DEF Inv
<1> QED  BY <1>1, Invariance, PTL

(* A pool is only freed when nobody can come to use it any more.           *)
THEOREM UsersOutlived == Spec => []PoolOutlivesUsers
<1>1. Inv => PoolOutlivesUsers
  <2> SUFFICES ASSUME Inv PROVE PoolOutlivesUsers
    OBVIOUS
  <2> USE DEF Inv
  <2>1. ASSUME NEW t \in Threads, pc[t] = "free"
        PROVE  /\ pool[t] # current
               /\ \A u \in Threads : pc[u] # "out" /\ pool[u] = pool[t] => u = t
               /\ \A d \in Data : home[d] = pool[t] => d \in list[pool[t]]
    <3>1. pool[t] \in live /\ pool[t] \in Pools
      BY <2>1 DEF PlacesInv, TypeOK
    <3>2. t \in FreedBy(pool[t])
      BY <2>1 DEF FreedBy
    <3>3. Claims(pool[t]) = {} /\ \A u \in FreedBy(pool[t]) : u = t
      BY <3>1, <3>2 DEF ClaimsInv
    <3>4. current # pool[t]
      BY <3>3 DEF Claims
    <3>5. \A d \in Data : home[d] = pool[t] => ~InUse(d)
      BY <3>3 DEF Claims
    <3>6. ASSUME NEW u \in Threads, pc[u] # "out", pool[u] = pool[t] PROVE u = t
      <4>1. pc[u] \notin {"released", "uninit", "uninited"}
        BY <3>3, <3>6 DEF Claims
      <4>2. pc[u] # "got"
        BY <3>4, <3>6 DEF PlacesInv
      <4>3. pc[u] # "release"
        BY <3>5, <3>6 DEF PlacesInv, InUse, Returning
      <4>4. pc[u] = "free"
        BY <3>6, <4>1, <4>2, <4>3 DEF TypeOK, Places
      <4> QED  BY <3>3, <3>6, <4>4 DEF FreedBy
    <3>7. ASSUME NEW d \in Data, home[d] = pool[t] PROVE d \in list[pool[t]]
      <4>1. ~Got(d)
        BY <3>4, <3>7 DEF Got, PlacesInv
      <4> QED  BY <3>1, <3>5, <3>7, <4>1, BufferPoolAssumption DEF ListsInv
    <3> QED  BY <3>4, <3>6, <3>7
  <2> QED  BY <2>1 DEF PoolOutlivesUsers, PlacesInv
<1> QED  BY <1>1, Invariance, PTL

(* No buffer is handed out while its picture is referred to.               *)
THEOREM NotShared == Spec => []BuffersNotShared
<1>1. Inv => BuffersNotShared
  <2> SUFFICES ASSUME Inv PROVE BuffersNotShared
    OBVIOUS
  <2> USE DEF Inv
  <2>1. ASSUME NEW d \in Data, count[d] = 0
        PROVE  ~Got(d) /\ \A t \in Threads : refs[t][d] = 0
    <3>1. ~Got(d)
      BY <2>1 DEF CountsInv
    <3>2. ASSUME NEW t \in Threads PROVE ~(refs[t][d] > 0)
      <4>1. refs[t][d] > 0 => count[d] > 0
        BY Holder
      <4> QED  BY <2>1, <4>1
    <3>3. \A t \in Threads : refs[t][d] \in 0 .. MaxRefs
      BY DEF TypeOK
    <3> QED  BY <3>1, <3>2, <3>3
  <2>2. ASSUME NEW p \in Pools, NEW d \in list[p]
        PROVE  /\ home[d] = p /\ count[d] = 0
               /\ \A t \in Threads : /\ refs[t][d] = 0
                                     /\ pc[t] \in {"got", "release"} => data[t] # d
    <3>1. d \in Data /\ home[d] = p /\ count[d] = 0 /\ ~Returning(d)
      BY DEF ListsInv, TypeOK
    <3>2. ~Got(d) /\ \A t \in Threads : refs[t][d] = 0
      BY <2>1, <3>1
    <3> QED  BY <3>1, <3>2 DEF Got, Returning
  <2>3. \A d \in Data : home[d] = NULL => count[d] = 0 /\ \A t \in Threads : refs[t][d] = 0
    BY <2>1 DEF ListsInv
  <2> QED  BY <2>2, <2>3 DEF BuffersNotShared
<1> QED  BY <1>1, Invariance, PTL

(* A pool nobody has a claim on any more is gone, with its buffers.        *)
THEOREM AllFreed == Spec => []NothingLeaks
<1>1. Inv => NothingLeaks
  <2> SUFFICES ASSUME Inv PROVE NothingLeaks
    OBVIOUS
  <2> USE DEF Inv
  <2>1. \A d \in Data : home[d] # NULL => home[d] \in live
    BY DEF ListsInv
  <2>2. ASSUME NEW p \in live \ {current},
               \A t \in Threads : ~(pc[t] # "out" /\ pool[t] = p)
        PROVE  \E d \in Data : home[d] = p /\ count[d] > 0
    <3>1. p \in Pools
      BY DEF TypeOK
    <3>2. FreedBy(p) = {}
      BY <2>2 DEF FreedBy
    <3>3. PICK x : x \in Claims(p)
      BY <3>2 DEF ClaimsInv
    <3>4. x \in Data /\ home[x] = p /\ InUse(x)
      BY <2>2, <3>3 DEF Claims
    <3>5. ~Returning(x)
      BY <2>2, <3>4 DEF Returning, PlacesInv
    <3> QED  BY <3>4, <3>5 DEF InUse
  <2> QED  BY <2>1, <2>2 DEF NothingLeaks
<1> QED  BY <1>1, Invariance, PTL

=============================================================================
