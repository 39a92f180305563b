------------------------- MODULE TinyThread_proofs -------------------------
(***************************************************************************)
(* Proofs about TinyThread for every finite set of threads, every set of   *)
(* handles and every build: the mutexes exclude, the wrapper is released   *)
(* once, join() waits, identifiers differ and no notified waiter is lost.  *)
(***************************************************************************)
EXTENDS TinyThread, FiniteSetTheorems, TLAPS

----------------------------------------------------------------------------
(* Mutual exclusion. *)

(* The inductive invariant of the mutexes: who holds one has locked it. *)
Exclusion ==
  /\ mLock \in {0, 1}
  /\ depth \in [Threads -> 0 .. MaxDepth]
  /\ at \in [Threads -> Positions]
  /\ \A t \in Threads : at[t] \in Holding => depth[t] >= 1
  /\ OneInside

(* Taking the free mutex. *)
LEMMA Enter ==
  ASSUME Exclusion, NEW t \in Threads, mLock = 0, mLock' = 1,
         depth' = [depth EXCEPT ![t] = 1], at' = [at EXCEPT ![t] = "in"]
  PROVE  Exclusion'
<1> USE DEF Exclusion
<1>1. 1 \in 0 .. MaxDepth
  BY MaxDepthAssumption
<1>2. depth' \in [Threads -> 0 .. MaxDepth] /\ mLock' \in {0, 1}
  BY <1>1
<1>3. at' \in [Threads -> Positions]
  BY DEF Positions, Holding
<1>4. \A u \in Threads : at[u] \notin Holding
  BY DEF OneInside
<1>5. \A u \in Threads : at'[u] \in Holding <=> u = t
  BY <1>4 DEF Holding
<1>6. depth'[t] >= 1
  OBVIOUS
<1>7. QED
  BY <1>2, <1>3, <1>5, <1>6 DEF OneInside

(* Giving it back. *)
LEMMA Leave ==
  ASSUME Exclusion, NEW t \in Threads, NEW d \in 0 .. MaxDepth,
         NEW p \in Positions \ Holding, at[t] \in Holding, mLock' = 0,
         depth' = [depth EXCEPT ![t] = d], at' = [at EXCEPT ![t] = p]
  PROVE  Exclusion'
<1> USE DEF Exclusion
<1>1. /\ depth' \in [Threads -> 0 .. MaxDepth] /\ mLock' \in {0, 1}
      /\ at' \in [Threads -> Positions]
  OBVIOUS
<1>2. \A u \in Threads : at'[u] \notin Holding
  BY DEF OneInside
<1>3. QED
  BY <1>1, <1>2 DEF OneInside

(* Locking it once more, or not unlocking it for the last time. *)
LEMMA Deepen ==
  ASSUME Exclusion, NEW t \in Threads, NEW d \in 1 .. MaxDepth,
         depth' = [depth EXCEPT ![t] = d], UNCHANGED <<mLock, at>>
  PROVE  Exclusion'
<1> USE DEF Exclusion
<1>1. d \in 0 .. MaxDepth /\ d >= 1
  BY MaxDepthAssumption
<1>2. depth' \in [Threads -> 0 .. MaxDepth]
  BY <1>1
<1>3. \A u \in Threads : at'[u] \in Holding => depth'[u] >= 1
  BY <1>1
<1>4. QED
  BY <1>2, <1>3 DEF OneInside

LEMMA ExclusionStep ==
  ASSUME Exclusion, NEW t \in Threads, SyncStep(t)
  PROVE  Exclusion'
<1> USE DEF Goes, Holding, Waiting, Positions
<1>0. at[t] \in Positions /\ depth[t] \in 0 .. MaxDepth /\ MaxDepth \in Nat \ {0}
  BY MaxDepthAssumption DEF Exclusion
<1>1. CASE lock(t)
  BY <1>1, Enter DEF lock, try_lock
<1>2. CASE lock_again(t)
  <2>1. depth[t] + 1 \in 1 .. MaxDepth
    BY <1>0, <1>2 DEF lock_again
  <2>2. QED
    BY <1>2, <2>1, Deepen DEF lock_again
<1>3. CASE unlock(t)
  <2>1. depth[t] >= 1 /\ at[t] = "in"
    BY <1>3 DEF unlock, Exclusion
  <2>2. CASE depth[t] > 1
    <3>0. \A d \in 0 .. MaxDepth : d > 1 => d - 1 \in 1 .. MaxDepth
      BY MaxDepthAssumption
    <3>1. depth[t] - 1 \in 1 .. MaxDepth
      BY <1>0, <2>2, <3>0
    <3>2. depth' = [depth EXCEPT ![t] = depth[t] - 1] /\ UNCHANGED <<mLock, at>>
      BY <1>3, <2>2 DEF unlock
    <3>3. QED
      BY <3>1, <3>2, Deepen
  <2>3. CASE ~ (depth[t] > 1)
    <3>1. depth[t] - 1 \in 0 .. MaxDepth
      BY <1>0, <2>1
    <3>2. /\ mLock' = 0 /\ depth' = [depth EXCEPT ![t] = depth[t] - 1]
          /\ at' = [at EXCEPT ![t] = "out"]
      BY <1>3, <2>3 DEF unlock
    <3>3. at[t] \in Holding /\ "out" \in Positions \ Holding
      BY <2>1
    <3>4. QED
      BY <3>1, <3>2, <3>3, Leave
  <2>4. QED
    BY <2>2, <2>3
<1>4. CASE wait_posix(t)
  <2>1. /\ mLock' = 0 /\ depth' = [depth EXCEPT ![t] = 0]
        /\ at' = [at EXCEPT ![t] = "asleep"] /\ at[t] = "in"
    BY <1>4 DEF wait_posix
  <2>2. 0 \in 0 .. MaxDepth /\ at[t] \in Holding /\ "asleep" \in Positions \ Holding
    BY <1>0, <2>1
  <2>3. QED
    BY <2>1, <2>2, Leave
<1>5. CASE wait_unlock(t)
  <2>1. /\ mLock' = 0 /\ depth' = [depth EXCEPT ![t] = 0]
        /\ at' = [at EXCEPT ![t] = "blocked"] /\ at[t] = "counted"
    BY <1>5 DEF wait_unlock
  <2>2. 0 \in 0 .. MaxDepth /\ at[t] \in Holding /\ "blocked" \in Positions \ Holding
    BY <1>0, <2>1
  <2>3. QED
    BY <2>1, <2>2, Leave
<1>6. CASE wait_lock(t)
  BY <1>6, Enter DEF wait_lock
<1>7. CASE spurious_wakeup(t) \/ wait_count(t) \/ wait_event(t)
  BY <1>7 DEF spurious_wakeup, wait_count, wait_event, Exclusion, OneInside
<1>8. CASE wait_uncount(t) \/ wait_reset(t)
  BY <1>8 DEF wait_uncount, wait_reset, Exclusion, OneInside
<1>9. CASE signal_posix(t) \/ broadcast_posix(t)
  BY <1>9 DEF signal_posix, broadcast_posix, Exclusion, OneInside
<1>10. CASE notify_look(t)
  BY <1>10 DEF notify_look, Exclusion, OneInside
<1>11. CASE signal_set(t) \/ broadcast_set(t)
  BY <1>11 DEF signal_set, broadcast_set, Back, Exclusion, OneInside
<1>12. QED
  BY <1>1, <1>2, <1>3, <1>4, <1>5, <1>6, <1>7, <1>8, <1>9, <1>10, <1>11
     DEF SyncStep

(* The steps of the thread class that are no step of its function leave    *)
(* the mutex alone.                                                        *)
LEMMA StepKinds ==
  ASSUME NEW t \in Threads, ThreadStep(t) \/ OwnerStep(t)
  PROVE  (SyncStep(t) /\ UNCHANGED threadVars) \/ UNCHANGED syncVars
<1>1. CASE Client(t)
  BY <1>1 DEF Client
<1>2. CASE Return(t) \/ Throw(t) \/ ThreadRelease(t) \/ ThreadDelete(t)
  BY <1>2 DEF Return, Throw, ThreadRelease, ThreadDelete
<1>3. CASE DefaultConstruct(t) \/ Construct(t) \/ ConstructFails(t)
  BY <1>3 DEF DefaultConstruct, Construct, ConstructFails
<1>4. CASE Join(t) \/ pthread_join(t) \/ Detach(t) \/ Destroy(t) \/ DestroyEmpty(t)
  BY <1>4 DEF Join, pthread_join, Detach, Destroy, DestroyEmpty, Starts
<1>5. CASE OwnerRelease(t) \/ OwnerDelete(t) \/ OwnerLeave(t) \/ GetId(t)
  BY <1>5 DEF OwnerRelease, OwnerDelete, OwnerLeave, GetId, Told
<1>6. QED
  BY <1>1, <1>2, <1>3, <1>4, <1>5 DEF ThreadStep, OwnerStep

LEMMA ExclusionInvariant == Spec => []Exclusion
<1>1. Init => Exclusion
  BY MaxDepthAssumption DEF Init, SyncInit, Exclusion, OneInside, Positions, Holding
<1>2. Exclusion /\ [Next]_vars => Exclusion'
  <2> SUFFICES ASSUME Exclusion, [Next]_vars PROVE Exclusion'
    OBVIOUS
  <2>1. CASE UNCHANGED syncVars
    BY <2>1 DEF syncVars, Exclusion, OneInside
  <2>2. CASE \E t \in Threads : SyncStep(t)
    BY <2>2, ExclusionStep
  <2>3. QED
    BY <2>1, <2>2, StepKinds DEF Next, vars
<1>3. QED
  BY <1>1, <1>2, PTL DEF Spec

(* One thread at a time is inside the mutex, whatever its class, and the    *)
(* mutex is locked exactly while one is (mutex, recursive_mutex and         *)
(* fast_mutex; condition_variable::wait).                                   *)
THEOREM MutualExclusion == Spec => []OneInside
<1>1. Exclusion => OneInside
  BY DEF Exclusion
<1>2. QED
  BY <1>1, ExclusionInvariant, PTL

----------------------------------------------------------------------------
(* The wrapper. *)

ThreadTypes ==
  /\ mWrapper \in [Threads -> {"unborn", "set", "null", "gone"}]
  /\ wrapper \in [Threads -> {"none", "allocated", "deleted"}]
  /\ mRefCount \in [Threads -> 0 .. 2]
  /\ body \in [Threads -> {"none", "running", "returned", "deleting", "exited"}]
  /\ owner \in [Threads -> {"idle", "joining", "releasing", "deleting", "leaving"}]
  /\ call \in [Threads -> {"none", "join", "detach", "destroy"}]
  /\ mHandle \in [Threads -> Handles \cup {NoHandle}]
  /\ kernel \in [Threads -> {"none", "joinable", "detached", "free"}]
  /\ joined \in [Threads -> BOOLEAN]
  /\ terminated \in BOOLEAN

(* The references that are counted: the object's and the thread's. *)
OwnerRefers(t) == mWrapper[t] = "set" /\ owner[t] \in {"idle", "joining", "releasing"}
BodyRefers(t)  == body[t] \in {"running", "returned"}

(* The count tells who still refers; who took the last reference away is    *)
(* alone; and a join has seen the end of the thread, by waiting or by the   *)
(* count.                                                                   *)
Counted(t) ==
  /\ mRefCount[t] = (IF OwnerRefers(t) THEN 1 ELSE 0) + (IF BodyRefers(t) THEN 1 ELSE 0)
  /\ mWrapper[t] = "unborn" => body[t] = "none" /\ wrapper[t] = "none" /\ ~ joined[t]
  /\ mWrapper[t] = "set" => body[t] # "none"
  /\ owner[t] # "idle" => mWrapper[t] = "set"
  /\ body[t] = "deleting" => ~ OwnerRefers(t)
  /\ owner[t] = "deleting" => body[t] = "exited"
  /\ wrapper[t] = "allocated" <=>
       BodyRefers(t) \/ OwnerRefers(t) \/ body[t] = "deleting" \/ owner[t] = "deleting"
  /\ call[t] = "join" /\ owner[t] \in {"releasing", "deleting", "leaving"} => body[t] = "exited"
  /\ joined[t] => body[t] = "exited"

WrapperInv == ThreadTypes /\ \A t \in Threads : Counted(t)

(* A step about one thread keeps the invariant if it does so for that one. *)
LEMMA OthersCounted ==
  ASSUME WrapperInv, NEW t \in Threads, ThreadTypes', Counted(t)',
         \A u \in Threads \ {t} :
           /\ mWrapper'[u] = mWrapper[u] /\ wrapper'[u] = wrapper[u]
           /\ mRefCount'[u] = mRefCount[u] /\ body'[u] = body[u]
           /\ owner'[u] = owner[u] /\ call'[u] = call[u] /\ joined'[u] = joined[u]
  PROVE  WrapperInv'
<1>1. ASSUME NEW u \in Threads \ {t} PROVE Counted(u)'
  BY DEF WrapperInv, Counted, OwnerRefers, BodyRefers
<1>2. QED
  BY <1>1 DEF WrapperInv

LEMMA WrapperStep ==
  ASSUME WrapperInv, NEW t \in Threads, ThreadStep(t) \/ OwnerStep(t)
  PROVE  WrapperInv'
<1> USE DEF ThreadTypes, Counted, OwnerRefers, BodyRefers
<1>0. ThreadTypes /\ Counted(t)
  BY DEF WrapperInv
<1>1. CASE DefaultConstruct(t)
  BY <1>0, <1>1, OthersCounted DEF DefaultConstruct
<1>2. CASE Construct(t)
  BY <1>0, <1>2, OthersCounted DEF Construct
<1>3. CASE ConstructFails(t)
  BY <1>0, <1>3, OthersCounted DEF ConstructFails
<1>4. CASE Return(t)
  BY <1>0, <1>4, OthersCounted DEF Return
<1>5. CASE Throw(t)
  BY <1>0, <1>5, OthersCounted DEF Throw
<1>6. CASE ThreadRelease(t)
  BY <1>0, <1>6, OthersCounted DEF ThreadRelease
<1>7. CASE ThreadDelete(t)
  BY <1>0, <1>7, OthersCounted DEF ThreadDelete
<1>8. CASE Join(t)
  BY <1>0, <1>8, OthersCounted DEF Join, Starts, Idle, joinable
<1>9. CASE Detach(t)
  BY <1>0, <1>9, OthersCounted DEF Detach, Starts, Idle
<1>10. CASE Destroy(t)
  BY <1>0, <1>10, OthersCounted DEF Destroy, Starts, Idle
<1>11. CASE DestroyEmpty(t)
  BY <1>0, <1>11, OthersCounted DEF DestroyEmpty
<1>12. CASE pthread_join(t)
  BY <1>0, <1>12, OthersCounted DEF pthread_join
<1>13. CASE OwnerRelease(t)
  BY <1>0, <1>13, OthersCounted DEF OwnerRelease
<1>14. CASE OwnerDelete(t)
  BY <1>0, <1>14, OthersCounted DEF OwnerDelete
<1>15. CASE OwnerLeave(t)
  BY <1>0, <1>15, OthersCounted DEF OwnerLeave
<1>16. CASE GetId(t)
  BY <1>0, <1>16, OthersCounted DEF GetId, Told
<1>17. CASE Client(t)
  BY <1>0, <1>17, OthersCounted DEF Client, threadVars
<1>18. QED
  BY <1>1, <1>2, <1>3, <1>4, <1>5, <1>6, <1>7, <1>8, <1>9, <1>10, <1>11, <1>12, <1>13, <1>14, <1>15, <1>16, <1>17
     DEF ThreadStep, OwnerStep

LEMMA WrapperInvariant == Spec => []WrapperInv
<1>1. Init => WrapperInv
  <2> SUFFICES ASSUME Init PROVE WrapperInv
    OBVIOUS
  <2>0. terminated \in BOOLEAN /\ joined \in [Threads -> BOOLEAN]
    BY Zenon DEF Init
  <2>1. ThreadTypes
    BY <2>0 DEF Init, ThreadTypes
  <2>2. ASSUME NEW t \in Threads PROVE Counted(t)
    BY DEF Init, Counted, OwnerRefers, BodyRefers
  <2>3. QED
    BY <2>1, <2>2 DEF WrapperInv
<1>2. WrapperInv /\ [Next]_vars => WrapperInv'
  <2>1. ASSUME WrapperInv, UNCHANGED vars PROVE WrapperInv'
    BY <2>1 DEF vars, threadVars, WrapperInv, ThreadTypes, Counted, OwnerRefers, BodyRefers
  <2>2. QED
    BY <2>1, WrapperStep DEF Next
<1>3. QED
  BY <1>1, <1>2, PTL DEF Spec

(* The variables keep their types: no reference count and no lock count    *)
(* goes below zero.                                                        *)
THEOREM TypeCorrect == Spec => []TypeOK
<1>1. Exclusion /\ WrapperInv => TypeOK
  BY DEF Exclusion, WrapperInv, ThreadTypes, TypeOK
<1>2. QED
  BY <1>1, ExclusionInvariant, WrapperInvariant, PTL

(* However the calls of the object and the end of the thread interleave,   *)
(* the wrapper is deleted once, after its last use                         *)
(* (_thread_wrapper::release, wrapper_function, ~thread, join, detach).    *)
THEOREM WrapperReleasedOnce == Spec => []WrapperSafe
<1>1. WrapperInv => WrapperSafe
  BY DEF WrapperInv, Counted, OwnerRefers, BodyRefers, ThreadTypes, WrapperSafe
<1>2. QED
  BY <1>1, WrapperInvariant, PTL

(* join() returns after the function of the thread has, also when it does   *)
(* not call pthread_join (thread::join).                                    *)
THEOREM JoinWaits == Spec => []JoinMeansDone
<1>1. WrapperInv => JoinMeansDone
  BY DEF WrapperInv, Counted, JoinMeansDone
<1>2. QED
  BY <1>1, WrapperInvariant, PTL

----------------------------------------------------------------------------
(* Identifiers. *)

(* The map numbers the handles from 1 on, without a gap or a repetition;   *)
(* what was told for a thread is the number of its handle; and threads     *)
(* that exist have different handles.                                      *)
Numbered ==
  /\ IsFiniteSet(DOMAIN idMap)
  /\ idMap \in [DOMAIN idMap -> 1 .. Cardinality(DOMAIN idMap)]
  /\ \A g, h \in DOMAIN idMap : idMap[g] = idMap[h] => g = h

ToldFromMap(t) ==
  \/ ids[t] = {}
  \/ mHandle[t] \in DOMAIN idMap /\ ids[t] = {idMap[mHandle[t]]}

Own(t) ==
  /\ mWrapper[t] = "unborn" => ids[t] = {} /\ kernel[t] = "none" /\ owner[t] = "idle"
  /\ mWrapper[t] = "set" /\ owner[t] \in {"idle", "joining"} => kernel[t] = "joinable"

HandlesDiffer ==
  \A t, u \in Threads : t # u /\ Exists(t) /\ Exists(u) => mHandle[t] # mHandle[u]

IdInv ==
  /\ ids \in [Threads -> SUBSET Nat]
  /\ Numbered
  /\ \A t \in Threads : ToldFromMap(t) /\ Own(t)
  /\ HandlesDiffer

(* A number that is given out is new. *)
LEMMA NumberedStep ==
  ASSUME Numbered, NEW g,
         idMap' = [h \in DOMAIN idMap \cup {g} |-> pthread_t_to_ID(h)]
  PROVE  /\ Numbered'
         /\ g \in DOMAIN idMap' /\ idMap'[g] = pthread_t_to_ID(g)
         /\ \A h \in DOMAIN idMap : h \in DOMAIN idMap' /\ idMap'[h] = idMap[h]
<1> DEFINE D == DOMAIN idMap
           n == Cardinality(DOMAIN idMap)
<1>1. n \in Nat /\ IsFiniteSet(D)
  BY FS_CardinalityType DEF Numbered
<1>2. DOMAIN idMap' = D \cup {g}
  OBVIOUS
<1>3. /\ IsFiniteSet(D \cup {g})
      /\ Cardinality(D \cup {g}) = IF g \in D THEN n ELSE n + 1
  BY <1>1, FS_AddElement
<1>4. \A h \in D : idMap'[h] = idMap[h] /\ idMap[h] \in 1 .. n
  BY DEF pthread_t_to_ID, Numbered
<1>5. idMap'[g] = IF g \in D THEN idMap[g] ELSE 1 + n
  BY DEF pthread_t_to_ID
<1>6. idMap' = [h \in D \cup {g} |-> idMap'[h]]
  OBVIOUS
<1>7. \A h \in D \cup {g} : idMap'[h] \in 1 .. Cardinality(D \cup {g})
  BY <1>1, <1>3, <1>4, <1>5
<1>8. \A h, k \in D \cup {g} : idMap'[h] = idMap'[k] => h = k
  BY <1>1, <1>4, <1>5 DEF Numbered
<1>9. Numbered'
  BY <1>2, <1>3, <1>6, <1>7, <1>8 DEF Numbered
<1>10. QED
  BY <1>2, <1>4, <1>5, <1>9 DEF pthread_t_to_ID

(* GetId, the step that tells a number. *)
LEMMA TellStep ==
  ASSUME IdInv, NEW t \in Threads, mWrapper[t] # "unborn",
         Told(t, pthread_t_to_ID(mHandle[t]))
  PROVE  IdInv'
<1> DEFINE g == mHandle[t]
           id == pthread_t_to_ID(g)
<1>1. /\ ids' = [ids EXCEPT ![t] = @ \cup {id}]
      /\ idMap' = [h \in DOMAIN idMap \cup {g} |-> pthread_t_to_ID(h)]
      /\ UNCHANGED <<mWrapper, body, owner, mHandle, kernel>>
  BY DEF Told
<1>2. /\ Numbered' /\ g \in DOMAIN idMap' /\ idMap'[g] = id
      /\ \A h \in DOMAIN idMap : h \in DOMAIN idMap' /\ idMap'[h] = idMap[h]
  BY <1>1, NumberedStep DEF IdInv
<1>3. id \in Nat
  <2>1. Cardinality(DOMAIN idMap') \in Nat
    BY <1>2, FS_CardinalityType DEF Numbered
  <2>2. QED
    BY <1>2, <2>1 DEF Numbered
<1>4. ids[t] \subseteq {id}
  BY DEF IdInv, ToldFromMap, pthread_t_to_ID
<1>5. ids' \in [Threads -> SUBSET Nat] /\ ids'[t] = {id}
  BY <1>1, <1>3, <1>4 DEF IdInv
<1>6. ASSUME NEW u \in Threads PROVE ToldFromMap(u)'
  <2>1. CASE u = t
    BY <1>1, <1>2, <1>5, <2>1 DEF ToldFromMap
  <2>2. CASE u # t
    <3>1. ids'[u] = ids[u] /\ mHandle'[u] = mHandle[u]
      BY <1>1, <2>2 DEF IdInv
    <3>2. QED
      BY <1>2, <3>1 DEF IdInv, ToldFromMap
  <2>3. QED
    BY <2>1, <2>2
<1>7. ASSUME NEW u \in Threads PROVE Own(u)'
  BY <1>1 DEF IdInv, Own
<1>8. HandlesDiffer'
  BY <1>1 DEF IdInv, HandlesDiffer, Exists
<1>9. QED
  BY <1>2, <1>5, <1>6, <1>7, <1>8 DEF IdInv

(* The other steps leave the map and the numbers, and none but Construct    *)
(* changes a handle or makes a thread exist.                                *)
LEMMA QuietStep ==
  ASSUME IdInv, NEW t \in Threads, UNCHANGED <<idMap, ids, mHandle>>,
         \A u \in Threads : Own(u)',
         \A u \in Threads : Exists(u)' => Exists(u)
  PROVE  IdInv'
<1>1. \A u \in Threads : ToldFromMap(u)'
  BY DEF IdInv, ToldFromMap
<1>2. Numbered'
  BY DEF IdInv, Numbered
<1>3. HandlesDiffer'
  BY DEF IdInv, HandlesDiffer
<1>4. QED
  BY <1>1, <1>2, <1>3 DEF IdInv

LEMMA IdStep ==
  ASSUME WrapperInv, IdInv, NEW t \in Threads, ThreadStep(t) \/ OwnerStep(t)
  PROVE  IdInv'
<1>0. /\ ThreadTypes /\ Counted(t) /\ Own(t)
      /\ \A u \in Threads : Own(u)
  BY DEF WrapperInv, IdInv
<1> USE DEF Own, Exists, ThreadTypes
<1>1. CASE Construct(t)
  <2>1. PICK h \in Handles : /\ \A u \in Threads : Exists(u) => mHandle[u] # h
                             /\ mHandle' = [mHandle EXCEPT ![t] = h]
    BY <1>1 DEF Construct
  <2>2. mHandle'[t] = h /\ \A u \in Threads \ {t} : mHandle'[u] = mHandle[u]
    BY <1>0, <2>1
  <2>3. \A u \in Threads \ {t} : Exists(u)' => Exists(u)
    BY <1>0, <1>1 DEF Construct
  <2>4. HandlesDiffer'
    BY <2>1, <2>2, <2>3 DEF IdInv, HandlesDiffer
  <2>5. \A u \in Threads : Own(u)'
    BY <1>0, <1>1 DEF Construct
  <2>6. ids[t] = {} /\ UNCHANGED <<idMap, ids>>
    BY <1>0, <1>1 DEF Construct
  <2>7. \A u \in Threads : ToldFromMap(u)'
    BY <2>2, <2>6 DEF IdInv, ToldFromMap
  <2>8. Numbered'
    BY <2>6 DEF IdInv, Numbered
  <2>9. QED
    BY <2>4, <2>5, <2>6, <2>7, <2>8 DEF IdInv
<1>2. CASE GetId(t)
  BY <1>0, <1>2, TellStep DEF GetId, Idle, Counted
<1>3. CASE DefaultConstruct(t) \/ ConstructFails(t) \/ DestroyEmpty(t)
  BY <1>0, <1>3, QuietStep DEF DefaultConstruct, ConstructFails, DestroyEmpty, Counted
<1>4. CASE Return(t) \/ Throw(t) \/ ThreadRelease(t) \/ ThreadDelete(t)
  BY <1>0, <1>4, QuietStep DEF Return, Throw, ThreadRelease, ThreadDelete
<1>5. CASE Join(t) \/ Detach(t) \/ Destroy(t)
  BY <1>0, <1>5, QuietStep DEF Join, Detach, Destroy, Starts, Idle
<1>6. CASE pthread_join(t) \/ OwnerRelease(t)
  BY <1>0, <1>6, QuietStep DEF pthread_join, OwnerRelease, Counted
<1>7. CASE OwnerDelete(t) \/ OwnerLeave(t)
  BY <1>0, <1>7, QuietStep DEF OwnerDelete, OwnerLeave, Counted
<1>8. CASE Client(t)
  BY <1>0, <1>8, QuietStep DEF Client, threadVars
<1>9. QED
  BY <1>1, <1>2, <1>3, <1>4, <1>5, <1>6, <1>7, <1>8 DEF ThreadStep, OwnerStep

LEMMA IdInvariant == Spec => []IdInv
<1>1. Init => IdInv
  BY FS_EmptySet DEF Init, IdInv, Numbered, ToldFromMap, Own, HandlesDiffer, Exists
<1>2. WrapperInv /\ IdInv /\ [Next]_vars => IdInv'
  <2>1. ASSUME IdInv, UNCHANGED vars PROVE IdInv'
    BY <2>1 DEF vars, threadVars, IdInv, Numbered, ToldFromMap, Own, HandlesDiffer, Exists
  <2>2. QED
    BY <2>1, IdStep DEF Next
<1>3. QED
  BY <1>1, <1>2, WrapperInvariant, PTL DEF Spec

(* A thread has one identifier, two that exist at the same time have        *)
(* different ones, and none has that of no thread (_pthread_t_to_ID,        *)
(* thread::get_id, this_thread::get_id).                                    *)
THEOREM IdentifiersDiffer == Spec => []IdsTellThreads
<1>1. ASSUME IdInv, NEW t \in Threads
      PROVE  /\ Cardinality(ids[t]) <= 1 /\ NoId \notin ids[t]
             /\ \A u \in Threads \ {t} : Exists(t) /\ Exists(u) => ids[t] \cap ids[u] = {}
  <2>1. Cardinality(ids[t]) <= 1
    <3>1. ids[t] = {} \/ ids[t] = {idMap[mHandle[t]]}
      BY <1>1 DEF IdInv, ToldFromMap
    <3>2. CASE ids[t] = {}
      BY <3>2, FS_EmptySet
    <3>3. CASE ids[t] = {idMap[mHandle[t]]}
      <4> DEFINE n == Cardinality({idMap[mHandle[t]]})
      <4>1. n = 1
        BY FS_Singleton
      <4> HIDE DEF n
      <4>2. n <= 1
        BY <4>1
      <4>3. QED
        BY <3>3, <4>2 DEF n
    <3>4. QED
      BY <3>1, <3>2, <3>3
  <2>2. NoId \notin ids[t]
    <3>1. Cardinality(DOMAIN idMap) \in Nat
      BY <1>1, FS_CardinalityType DEF IdInv, Numbered
    <3>2. QED
      BY <1>1, <3>1 DEF IdInv, Numbered, ToldFromMap, NoId
  <2>3. ASSUME NEW u \in Threads \ {t}, Exists(t), Exists(u)
        PROVE  ids[t] \cap ids[u] = {}
    BY <1>1, <2>3 DEF IdInv, Numbered, ToldFromMap, HandlesDiffer
  <2>4. QED
    BY <2>1, <2>2, <2>3
<1>2. IdInv => IdsTellThreads
  BY <1>1 DEF IdsTellThreads
<1>3. QED
  BY <1>2, IdInvariant, PTL

----------------------------------------------------------------------------
(* The condition variable of Windows. *)

Counters == {t \in Threads : at[t] \in {"counted", "blocked", "one came", "all came"}}

Resetting == \E t \in Threads : at[t] = "resetting"

(* Nobody waits when a waiter finds that it is the last: so nobody to whom *)
(* a wakeup is owed can lose it to the reset, unless the call came later.  *)
WakeInv ==
  /\ mWaitersCount = Cardinality(Counters)
  /\ \A t \in Threads : at[t] = "asleep" => platform = "posix"
  /\ \A t \in Threads : at[t] \in {"signal in", "signal out", "broadcast in", "broadcast out"}
                         => platform = "win32"
  /\ owed \subseteq {t \in Threads : at[t] \in {"counted", "blocked"}}
  /\ Resetting => owed \subseteq raced
  /\ owed \ raced # {} => all

LEMMA CountersFinite == IsFiniteSet(Counters) /\ Cardinality(Counters) \in Nat
<1>1. Counters \in SUBSET Threads
  BY DEF Counters
<1>2. QED
  BY <1>1, ThreadsAssumption, FS_Subset, FS_CardinalityType

(* The steps that enter and leave the counted part. *)
LEMMA WaitCountStep ==
  ASSUME Exclusion, WakeInv, NEW t \in Threads, wait_count(t)
  PROVE  WakeInv'
<1>1. /\ at[t] = "in" /\ at' = [at EXCEPT ![t] = "counted"] /\ mWaitersCount' = mWaitersCount + 1
      /\ UNCHANGED <<platform, all, owed, raced>> /\ platform = "win32"
  BY DEF wait_count, Goes
<1>2. at \in [Threads -> Positions]
  BY DEF Exclusion
<1>3. Counters' = Counters \cup {t} /\ t \notin Counters
  BY <1>1, <1>2 DEF Counters
<1>4. mWaitersCount' = Cardinality(Counters')
  BY <1>1, <1>3, CountersFinite, FS_AddElement DEF WakeInv
<1>5. Resetting' => Resetting
  BY <1>1, <1>2 DEF Resetting
<1>6. owed' \subseteq {u \in Threads : at'[u] \in {"counted", "blocked"}}
  BY <1>1, <1>2 DEF WakeInv
<1>7. QED
  BY <1>1, <1>2, <1>4, <1>5, <1>6 DEF WakeInv

LEMMA WaitUncountStep ==
  ASSUME Exclusion, WakeInv, NEW t \in Threads, wait_uncount(t)
  PROVE  WakeInv'
<1>1. /\ at[t] \in {"one came", "all came"} /\ mWaitersCount' = mWaitersCount - 1
      /\ at' = [at EXCEPT ![t] = IF at[t] = "all came" /\ mWaitersCount = 1
                                 THEN "resetting" ELSE "relocking"]
      /\ UNCHANGED <<platform, all, owed, raced>>
  BY DEF wait_uncount, Goes
<1>2. at \in [Threads -> Positions]
  BY DEF Exclusion
<1>3. Counters' = Counters \ {t} /\ t \in Counters
  BY <1>1, <1>2 DEF Counters
<1>4. /\ IsFiniteSet(Counters \ {t})
      /\ Cardinality(Counters \ {t}) = Cardinality(Counters) - 1
  BY <1>3, CountersFinite, FS_RemoveElement
<1>5. mWaitersCount' = Cardinality(Counters')
  BY <1>1, <1>3, <1>4 DEF WakeInv
<1>6. owed \subseteq Counters \ {t}
  BY <1>1, <1>2 DEF WakeInv, Counters
<1>7. Resetting' => Resetting \/ mWaitersCount = 1
  BY <1>1, <1>2 DEF Resetting
<1>8. mWaitersCount = 1 => owed = {}
  <2> SUFFICES ASSUME mWaitersCount = 1 PROVE owed = {}
    OBVIOUS
  <2>1. Cardinality(Counters \ {t}) = 0
    <3>1. Cardinality(Counters) = 1
      BY DEF WakeInv
    <3> DEFINE n == Cardinality(Counters)
    <3>2. n - 1 = 0
      BY <3>1
    <3>3. QED
      BY <1>4, <3>2
  <2>2. Counters \ {t} = {}
    BY <1>4, <2>1, FS_EmptySet
  <2>3. QED
    BY <1>6, <2>2
<1>9. owed' \subseteq {u \in Threads : at'[u] \in {"counted", "blocked"}}
  BY <1>1, <1>2, <1>6 DEF WakeInv
<1>10. QED
  BY <1>1, <1>2, <1>5, <1>7, <1>8, <1>9 DEF WakeInv

(* Every other step leaves the counter and the counted threads alone. *)
LEMMA SameCounters ==
  ASSUME WakeInv, Counters' = Counters, UNCHANGED mWaitersCount
  PROVE  mWaitersCount' = Cardinality(Counters')
BY DEF WakeInv

LEMMA WakeStep ==
  ASSUME Exclusion, WakeInv, NEW t \in Threads, SyncStep(t)
  PROVE  WakeInv'
<1>0. at \in [Threads -> Positions]
  BY DEF Exclusion
<1> USE DEF Goes, Resetting
<1>1. CASE lock(t)
  <2>1. Counters' = Counters /\ UNCHANGED mWaitersCount
    BY <1>0, <1>1 DEF Counters, lock, try_lock
  <2>2. QED
    BY <1>0, <1>1, <2>1, SameCounters DEF WakeInv, lock, try_lock
<1>2. CASE lock_again(t)
  <2>1. Counters' = Counters /\ UNCHANGED mWaitersCount
    BY <1>0, <1>2 DEF Counters, lock_again
  <2>2. QED
    BY <1>0, <1>2, <2>1, SameCounters DEF WakeInv, lock_again
<1>3. CASE unlock(t)
  <2>1. Counters' = Counters /\ UNCHANGED mWaitersCount
    BY <1>0, <1>3 DEF Counters, unlock
  <2>2. QED
    BY <1>0, <1>3, <2>1, SameCounters DEF WakeInv, unlock
<1>4. CASE wait_posix(t)
  <2>1. Counters' = Counters /\ UNCHANGED mWaitersCount
    BY <1>0, <1>4 DEF Counters, wait_posix
  <2>2. QED
    BY <1>0, <1>4, <2>1, SameCounters DEF WakeInv, wait_posix
<1>5. CASE spurious_wakeup(t)
  <2>1. Counters' = Counters /\ UNCHANGED mWaitersCount
    BY <1>0, <1>5 DEF Counters, spurious_wakeup
  <2>2. QED
    BY <1>0, <1>5, <2>1, SameCounters DEF WakeInv, spurious_wakeup
<1>6. CASE wait_unlock(t)
  <2>1. Counters' = Counters /\ UNCHANGED mWaitersCount
    BY <1>0, <1>6 DEF Counters, wait_unlock
  <2>2. QED
    BY <1>0, <1>6, <2>1, SameCounters DEF WakeInv, wait_unlock
<1>7. CASE wait_event(t)
  <2>1. Counters' = Counters /\ UNCHANGED mWaitersCount
    BY <1>0, <1>7 DEF Counters, wait_event
  <2>2. QED
    BY <1>0, <1>7, <2>1, SameCounters DEF WakeInv, wait_event
<1>8. CASE wait_reset(t)
  <2>1. Counters' = Counters /\ UNCHANGED mWaitersCount
    BY <1>0, <1>8 DEF Counters, wait_reset
  <2>2. QED
    BY <1>0, <1>8, <2>1, SameCounters DEF WakeInv, wait_reset
<1>9. CASE wait_lock(t)
  <2>1. Counters' = Counters /\ UNCHANGED mWaitersCount
    BY <1>0, <1>9 DEF Counters, wait_lock
  <2>2. QED
    BY <1>0, <1>9, <2>1, SameCounters DEF WakeInv, wait_lock
<1>10. CASE signal_posix(t)
  <2>1. Counters' = Counters /\ UNCHANGED mWaitersCount
    BY <1>0, <1>10 DEF Counters, signal_posix
  <2>2. QED
    BY <1>0, <1>10, <2>1, SameCounters DEF WakeInv, signal_posix
<1>11. CASE broadcast_posix(t)
  <2>1. Counters' = Counters /\ UNCHANGED mWaitersCount
    BY <1>0, <1>11 DEF Counters, broadcast_posix
  <2>2. QED
    BY <1>0, <1>11, <2>1, SameCounters DEF WakeInv, broadcast_posix
<1>12. CASE notify_look(t)
  <2>1. Counters' = Counters /\ UNCHANGED mWaitersCount
    BY <1>0, <1>12 DEF Counters, notify_look
  <2>2. QED
    BY <1>0, <1>12, <2>1, SameCounters DEF WakeInv, notify_look
<1>13. CASE signal_set(t)
  <2>1. Counters' = Counters /\ UNCHANGED mWaitersCount
    BY <1>0, <1>13 DEF Counters, signal_set, Back
  <2>2. QED
    BY <1>0, <1>13, <2>1, SameCounters DEF WakeInv, signal_set, Back
<1>14. CASE broadcast_set(t)
  <2>1. Counters' = Counters /\ UNCHANGED mWaitersCount
    BY <1>0, <1>14 DEF Counters, broadcast_set, Back, Waiting
  <2>2. QED
    BY <1>0, <1>14, <2>1, SameCounters DEF WakeInv, broadcast_set, Back, Waiting
<1>15. QED
  BY <1>1, <1>2, <1>3, <1>4, <1>5, <1>6, <1>7, <1>8,
     <1>9, <1>10, <1>11, <1>12, <1>13, <1>14,
     WaitCountStep, WaitUncountStep DEF SyncStep

LEMMA WakeInvariant == Spec => []WakeInv
<1>1. Init => WakeInv
  <2> SUFFICES ASSUME Init PROVE WakeInv
    OBVIOUS
  <2>1. Counters = {} /\ mWaitersCount = 0
    BY DEF Init, SyncInit, Counters
  <2>2. mWaitersCount = Cardinality(Counters)
    BY <2>1, FS_EmptySet
  <2>3. QED
    BY <2>2 DEF Init, SyncInit, WakeInv, Resetting
<1>2. Exclusion /\ WakeInv /\ [Next]_vars => WakeInv'
  <2> SUFFICES ASSUME Exclusion, WakeInv, [Next]_vars PROVE WakeInv'
    OBVIOUS
  <2>1. CASE UNCHANGED syncVars
    BY <2>1 DEF syncVars, WakeInv, Counters, Resetting
  <2>2. CASE \E t \in Threads : SyncStep(t)
    BY <2>2, WakeStep
  <2>3. QED
    BY <2>1, <2>2, StepKinds DEF Next, vars
<1>3. QED
  BY <1>1, <1>2, ExclusionInvariant, PTL DEF Spec

(* A waiter that notify_all was for finds the event set until it goes on,   *)
(* unless the call came while the last waiter of an earlier call had yet to *)
(* reset it; and mWaitersCount counts (condition_variable::_wait and        *)
(* notify_all under Windows).                                               *)
THEOREM NoWakeupIsLost == Spec => []NotifiedWakes
<1>1. WakeInv => NotifiedWakes
  BY DEF WakeInv, Counters, NotifiedWakes
<1>2. QED
  BY <1>1, WakeInvariant, PTL
=============================================================================
