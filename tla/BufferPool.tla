----------------------------- MODULE BufferPool -----------------------------
(***************************************************************************)
(* The reference-counted pool the decoders' pictures come from             *)
(* (libavutil/buffer.c, and update_frame_pool and frame_pool_free of       *)
(* libavcodec/decode.c).  Decoding gets buffers from the pool and replaces *)
(* the pool when the format changes or the codec is closed; EndBand and    *)
(* other threads give up references at any time, also to buffers of a pool *)
(* that was replaced long ago.                                             *)
(*                                                                         *)
(* The pool's mutex only ever guards its list for one push, pop or flush,  *)
(* so a critical section is one step; the atomic counters are changed in   *)
(* steps of their own, outside of it.                                      *)
(***************************************************************************)
EXTENDS Integers, FiniteSets

CONSTANTS
  Threads,   \* the threads that hold references
  Decoder,   \* the one inside the decoder
  Pools,     \* AVBufferPool objects
  Data,      \* buffers' data, each with its BufferPoolEntry
  MaxRefs,   \* bound: references to a buffer a thread holds at once
  NULL

ASSUME BufferPoolAssumption ==
  /\ Decoder \in Threads
  /\ MaxRefs \in Nat \ {0}
  /\ IsFiniteSet(Threads) /\ IsFiniteSet(Data)
  /\ Threads \cap Pools = {} /\ Threads \cap Data = {} /\ Pools \cap Data = {}
  /\ NULL \notin Pools \cup Data

VARIABLES
  current,    \* the decoder's pointer to its pool
  live,       \* the pools that are allocated
  refcount,   \* AVBufferPool.refcount
  list,       \* AVBufferPool.pool, the buffers waiting for reuse
  home,       \* BufferPoolEntry.pool of each buffer, NULL if not allocated
  count,      \* AVBuffer.refcount of each buffer in use
  refs,       \* the references each thread holds
  pc,         \* where each thread is
  pool, data  \* its local variables there

poolVars == <<current, live, refcount, list>>
dataVars == <<home, count, refs>>
vars     == <<poolVars, dataVars, pc, pool, data>>

Places ==
  {"out",
   "got",        \* av_buffer_pool_get: unlocked, refcount not raised yet
   "release",    \* pool_release_buffer: about to lock
   "released",   \* unlocked, refcount not lowered yet
   "uninit",     \* av_buffer_pool_uninit: about to lock
   "uninited",   \* unlocked, refcount not lowered yet
   "free"}       \* buffer_pool_free

Init ==
  /\ current = NULL
  /\ live = {}
  /\ refcount = [p \in Pools |-> 0]
  /\ list = [p \in Pools |-> {}]
  /\ home = [d \in Data |-> NULL]
  /\ count = [d \in Data |-> 0]
  /\ refs = [t \in Threads |-> [d \in Data |-> 0]]
  /\ pc = [t \in Threads |-> "out"]
  /\ pool = [t \in Threads |-> NULL]
  /\ data = [t \in Threads |-> NULL]

Goto(t, place) == pc' = [pc EXCEPT ![t] = place]

-----------------------------------------------------------------------------
(* av_buffer_pool_init: a new pool, held by the decoder's pointer.         *)
NewPool(p) ==
  /\ p \notin live
  /\ live' = live \cup {p}
  /\ refcount' = [refcount EXCEPT ![p] = 1]
  /\ list' = [list EXCEPT ![p] = {}]
  /\ current' = p

(* update_frame_pool: the format is new; a pool there was is given up once *)
(* the new one exists.                                                     *)
UpdateFramePool(p) ==
  /\ pc[Decoder] = "out"
  /\ NewPool(p)
  /\ IF current = NULL
     THEN UNCHANGED <<pc, pool>>
     ELSE Goto(Decoder, "uninit") /\ pool' = [pool EXCEPT ![Decoder] = current]
  /\ UNCHANGED <<dataVars, data>>

(* The codec is closed, or libdav1d's pictures have a new size.            *)
DropPool ==
  /\ pc[Decoder] = "out"
  /\ current # NULL
  /\ Goto(Decoder, "uninit")
  /\ pool' = [pool EXCEPT ![Decoder] = current]
  /\ current' = NULL
  /\ UNCHANGED <<live, refcount, list, dataVars, data>>

(* A faulty uninit: the pool is freed at once.                             *)
UninitFrees(t) ==
  /\ pc[t] = "uninit"
  /\ Goto(t, "free")
  /\ UNCHANGED <<poolVars, dataVars, pool, data>>

(* av_buffer_pool_uninit: the waiting buffers are freed, ...               *)
Uninit(t) ==
  /\ pc[t] = "uninit"
  /\ home' = [d \in Data |-> IF d \in list[pool[t]] THEN NULL ELSE home[d]]
  /\ list' = [list EXCEPT ![pool[t]] = {}]
  /\ Goto(t, "uninited")
  /\ UNCHANGED <<current, live, refcount, count, refs, pool, data>>

(* ... then the reference of the pointer is given up; likewise that of a   *)
(* buffer put back in the list.                                            *)
LowerRefcount(t) ==
  /\ pc[t] \in {"released", "uninited"}
  /\ refcount' = [refcount EXCEPT ![pool[t]] = @ - 1]
  /\ Goto(t, IF refcount[pool[t]] = 1 THEN "free" ELSE "out")
  /\ UNCHANGED <<current, live, list, dataVars, pool, data>>

(* A faulty free: the list is not flushed.                                 *)
FreeOnly(t) ==
  /\ pc[t] = "free"
  /\ live' = live \ {pool[t]}
  /\ Goto(t, "out")
  /\ UNCHANGED <<current, refcount, list, dataVars, pool, data>>

(* buffer_pool_free *)
FreePool(t) ==
  /\ pc[t] = "free"
  /\ home' = [d \in Data |-> IF d \in list[pool[t]] THEN NULL ELSE home[d]]
  /\ list' = [list EXCEPT ![pool[t]] = {}]
  /\ live' = live \ {pool[t]}
  /\ Goto(t, "out")
  /\ UNCHANGED <<current, refcount, count, refs, pool, data>>

-----------------------------------------------------------------------------
(* av_buffer_pool_get: a waiting buffer, or a new one if there is none, is *)
(* taken under the mutex, ...                                              *)
Get(d) ==
  /\ pc[Decoder] = "out"
  /\ current # NULL
  /\ IF list[current] # {} THEN d \in list[current] ELSE home[d] = NULL
  /\ list' = [list EXCEPT ![current] = @ \ {d}]
  /\ home' = [home EXCEPT ![d] = current]
  /\ count' = [count EXCEPT ![d] = 1]
  /\ Goto(Decoder, "got")
  /\ pool' = [pool EXCEPT ![Decoder] = current]
  /\ data' = [data EXCEPT ![Decoder] = d]
  /\ UNCHANGED <<current, live, refcount, refs>>

(* ... and counted by the pool afterwards.                                 *)
RaiseRefcount(t) ==
  /\ pc[t] = "got"
  /\ refcount' = [refcount EXCEPT ![pool[t]] = @ + 1]
  /\ refs' = [refs EXCEPT ![t][data[t]] = 1]
  /\ Goto(t, "out")
  /\ UNCHANGED <<current, live, list, home, count, pool, data>>

(* av_buffer_ref: a thread with a reference makes one for thread u, as the *)
(* decoder does for the picture a frame buffer keeps until EndBand.        *)
Ref(t, u, d) ==
  /\ pc[t] = "out"
  /\ refs[t][d] > 0
  /\ refs[u][d] < MaxRefs
  /\ count' = [count EXCEPT ![d] = @ + 1]
  /\ refs' = [refs EXCEPT ![u][d] = @ + 1]
  /\ UNCHANGED <<poolVars, home, pc, pool, data>>

(* A faulty unref: a thread takes its own last reference for the last one. *)
UnrefTested(t, d) ==
  /\ pc[t] = "out"
  /\ refs[t][d] > 0
  /\ refs' = [refs EXCEPT ![t][d] = @ - 1]
  /\ count' = [count EXCEPT ![d] = @ - 1]
  /\ IF refs[t][d] = 1
     THEN /\ Goto(t, "release")
          /\ pool' = [pool EXCEPT ![t] = home[d]]
          /\ data' = [data EXCEPT ![t] = d]
     ELSE UNCHANGED <<pc, pool, data>>
  /\ UNCHANGED <<poolVars, home>>

(* av_buffer_unref: whoever gives up the last reference gives the buffer   *)
(* back, ...                                                               *)
Unref(t, d) ==
  /\ pc[t] = "out"
  /\ refs[t][d] > 0
  /\ refs' = [refs EXCEPT ![t][d] = @ - 1]
  /\ count' = [count EXCEPT ![d] = @ - 1]
  /\ IF count[d] = 1
     THEN /\ Goto(t, "release")
          /\ pool' = [pool EXCEPT ![t] = home[d]]
          /\ data' = [data EXCEPT ![t] = d]
     ELSE UNCHANGED <<pc, pool, data>>
  /\ UNCHANGED <<poolVars, home>>

(* A faulty release: the pool's count is lowered here as well.             *)
ReleaseTwice(t) ==
  /\ pc[t] = "release"
  /\ refcount' = [refcount EXCEPT ![pool[t]] = @ - 1]
  /\ list' = [list EXCEPT ![pool[t]] = @ \cup {data[t]}]
  /\ Goto(t, "released")
  /\ UNCHANGED <<current, live, dataVars, pool, data>>

(* ... to the pool it came from (pool_release_buffer), which may then be   *)
(* freed by LowerRefcount.                                                 *)
Release(t) ==
  /\ pc[t] = "release"
  /\ list' = [list EXCEPT ![pool[t]] = @ \cup {data[t]}]
  /\ Goto(t, "released")
  /\ UNCHANGED <<current, live, refcount, dataVars, pool, data>>

-----------------------------------------------------------------------------
(* A thread inside a call goes on. *)
Step(t) ==
  Uninit(t) \/ LowerRefcount(t) \/ FreePool(t) \/ RaiseRefcount(t) \/ Release(t)

Next ==
  \/ \E p \in Pools : UpdateFramePool(p)
  \/ DropPool
  \/ \E d \in Data : Get(d)
  \/ \E t \in Threads, d \in Data : Unref(t, d) \/ \E u \in Threads : Ref(t, u, d)
  \/ \E t \in Threads : Step(t)

Spec == Init /\ [][Next]_vars

-----------------------------------------------------------------------------
(* Properties *)

(* Every variable has its type; the atomic counters, unsigned in the code, *)
(* never pass below zero.                                                  *)
TypeOK ==
  /\ current \in Pools \cup {NULL}
  /\ live \subseteq Pools
  /\ refcount \in [Pools -> Nat]
  /\ list \in [Pools -> SUBSET Data]
  /\ home \in [Data -> Pools \cup {NULL}]
  /\ count \in [Data -> Nat]
  /\ refs \in [Threads -> [Data -> 0 .. MaxRefs]]
  /\ pc \in [Threads -> Places]
  /\ pool \in [Threads -> Pools \cup {NULL}]
  /\ data \in [Threads -> Data \cup {NULL}]

(* A pool outlives everyone who uses it: whatever thread is anywhere in    *)
(* these functions, and the decoder's pointer, refers to a pool that has   *)
(* not been freed, and the one that frees it is alone with it.             *)
PoolOutlivesUsers ==
  /\ current # NULL => current \in live
  /\ \A t \in Threads : pc[t] # "out" => pool[t] \in live
  /\ \A t \in Threads : pc[t] = "free" =>
       /\ pool[t] # current
       /\ \A u \in Threads : pc[u] # "out" /\ pool[u] = pool[t] => u = t
       /\ \A d \in Data : home[d] = pool[t] => d \in list[pool[t]]

(* A buffer is never handed out while somebody still has a reference to    *)
(* its picture or it waits in a list, and a list holds only buffers of its *)
(* own pool.                                                               *)
BuffersNotShared ==
  /\ \A p \in Pools : \A d \in list[p] :
       /\ home[d] = p
       /\ count[d] = 0
       /\ \A t \in Threads : /\ refs[t][d] = 0
                             /\ pc[t] \in {"got", "release"} => data[t] # d
  /\ \A d \in Data : home[d] = NULL => count[d] = 0 /\ \A t \in Threads : refs[t][d] = 0

(* Nothing is left behind: a pool that the decoder has given up and whose  *)
(* buffers nobody uses is freed, with them, as soon as no call is under    *)
(* way in it.                                                              *)
NothingLeaks ==
  /\ \A d \in Data : home[d] # NULL => home[d] \in live
  /\ \A p \in live \ {current} :
       \/ \E t \in Threads : pc[t] # "out" /\ pool[t] = p
       \/ \E d \in Data : home[d] = p /\ count[d] > 0

=============================================================================
