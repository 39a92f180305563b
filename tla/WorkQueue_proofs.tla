-------------------------- MODULE WorkQueue_proofs --------------------------
(***************************************************************************)
(* Proofs about WorkQueue for every set of workers and every set of jobs:  *)
(* type correctness, and that no job is lost or executed twice.            *)
(***************************************************************************)
EXTENDS WorkQueue, TLAPS

USE NothingAssumption

(* Pushing a new job keeps a list without duplicates.                      *)
LEMMA Pushed ==
  ASSUME NEW s \in Seq(Job), NEW j \in Job, IsInjective(s), j \notin ToSet(s)
  PROVE  /\ <<j>> \o s \in Seq(Job)
         /\ IsInjective(<<j>> \o s)
         /\ ToSet(<<j>> \o s) = {j} \cup ToSet(s)
<1> DEFINE t == <<j>> \o s
<1>1. t \in Seq(Job) /\ Len(t) = Len(s) + 1 /\ t[1] = j
  OBVIOUS
<1>2. \A i \in 2 .. Len(t) : t[i] = s[i - 1]
  OBVIOUS
<1>3. DOMAIN t = 1 .. Len(t) /\ DOMAIN s = 1 .. Len(s) /\ Len(s) \in Nat
  BY <1>1
<1> HIDE DEF t
<1>4. \A i \in 1 .. Len(s) : s[i] # j
  BY <1>3 DEF ToSet
<1>5. IsInjective(t)
  <2> SUFFICES ASSUME NEW a \in 1 .. Len(t), NEW b \in 1 .. Len(t), t[a] = t[b]
               PROVE  a = b
    BY <1>3 DEF IsInjective
  <2>1. CASE a = 1 \/ b = 1
    BY <1>1, <1>2, <1>3, <1>4, <2>1
  <2>2. CASE a # 1 /\ b # 1
    <3>1. s[a - 1] = s[b - 1] /\ a - 1 \in 1 .. Len(s) /\ b - 1 \in 1 .. Len(s)
      BY <1>1, <1>2, <1>3, <2>2
    <3>2. a - 1 = b - 1
      BY <1>3, <3>1 DEF IsInjective
    <3>3. QED
      BY <3>2, <1>3
  <2>3. QED
    BY <2>1, <2>2
<1>6. ToSet(t) = {j} \cup ToSet(s)
  <2>1. ASSUME NEW x \in ToSet(t) PROVE x \in {j} \cup ToSet(s)
    <3>1. PICK i \in 1 .. Len(t) : x = t[i]
      BY <1>3 DEF ToSet
    <3>2. QED
      BY <1>1, <1>2, <1>3, <3>1 DEF ToSet
  <2>2. ASSUME NEW x \in ToSet(s) PROVE x \in ToSet(t)
    <3>1. PICK i \in 1 .. Len(s) : x = s[i]
      BY <1>3 DEF ToSet
    <3>2. t[i + 1] = x /\ i + 1 \in 1 .. Len(t)
      BY <1>1, <1>2, <1>3, <3>1
    <3>3. QED
      BY <1>3, <3>2 DEF ToSet
  <2>3. j \in ToSet(t)
    BY <1>1, <1>3 DEF ToSet
  <2>4. QED
    BY <2>1, <2>2, <2>3
<1>7. QED
  BY <1>1, <1>5, <1>6 DEF t

(* Taking the first job of a list without duplicates removes it.           *)
LEMMA Taken ==
  ASSUME NEW s \in Seq(Job), s # <<>>, IsInjective(s)
  PROVE  /\ Head(s) \in Job /\ Tail(s) \in Seq(Job)
         /\ IsInjective(Tail(s))
         /\ Head(s) \notin ToSet(Tail(s))
         /\ ToSet(s) = {Head(s)} \cup ToSet(Tail(s))
<1> DEFINE t == Tail(s)
<1>1. t \in Seq(Job) /\ Len(t) = Len(s) - 1 /\ Head(s) = s[1] /\ Head(s) \in Job
  OBVIOUS
<1>2. \A i \in 1 .. Len(t) : t[i] = s[i + 1]
  OBVIOUS
<1>3. DOMAIN t = 1 .. Len(t) /\ DOMAIN s = 1 .. Len(s) /\ Len(s) \in Nat \ {0}
  BY <1>1
<1> HIDE DEF t
<1>4. IsInjective(t)
  <2> SUFFICES ASSUME NEW a \in 1 .. Len(t), NEW b \in 1 .. Len(t), t[a] = t[b]
               PROVE  a = b
    BY <1>3 DEF IsInjective
  <2>1. s[a + 1] = s[b + 1] /\ a + 1 \in 1 .. Len(s) /\ b + 1 \in 1 .. Len(s)
    BY <1>1, <1>2, <1>3
  <2>2. a + 1 = b + 1
    BY <1>3, <2>1 DEF IsInjective
  <2>3. QED
    BY <2>2, <1>3
<1>5. s[1] \notin ToSet(t)
  <2> SUFFICES ASSUME NEW i \in 1 .. Len(t), t[i] = s[1] PROVE FALSE
    BY <1>3 DEF ToSet
  <2>1. s[i + 1] = s[1] /\ i + 1 \in 1 .. Len(s) /\ 1 \in 1 .. Len(s)
    BY <1>1, <1>2, <1>3
  <2>2. i + 1 = 1
    BY <1>3, <2>1 DEF IsInjective
  <2>3. QED
    BY <2>2, <1>3
<1>6. ToSet(s) = {s[1]} \cup ToSet(t)
  <2>1. ASSUME NEW x \in ToSet(s) PROVE x \in {s[1]} \cup ToSet(t)
    <3>1. PICK i \in 1 .. Len(s) : x = s[i]
      BY <1>3 DEF ToSet
    <3>2. CASE i # 1
      <4>1. i - 1 \in 1 .. Len(t) /\ t[i - 1] = x
        BY <1>1, <1>2, <1>3, <3>1, <3>2
      <4>2. QED
        BY <1>3, <4>1 DEF ToSet
    <3>3. QED
      BY <3>1, <3>2
  <2>2. ASSUME NEW x \in ToSet(t) PROVE x \in ToSet(s)
    <3>1. PICK i \in 1 .. Len(t) : x = t[i]
      BY <1>3 DEF ToSet
    <3>2. i + 1 \in 1 .. Len(s) /\ s[i + 1] = x
      BY <1>1, <1>2, <1>3, <3>1
    <3>3. QED
      BY <1>3, <3>2 DEF ToSet
  <2>3. s[1] \in ToSet(s)
    BY <1>3 DEF ToSet
  <2>4. QED
    BY <2>1, <2>2, <2>3
<1>7. QED
  BY <1>1, <1>4, <1>5, <1>6 DEF t

(* A worker has a job exactly while it runs one, and on_accept has a client *)
(* exactly while it adds it, even while the signal handler runs.           *)
Hands ==
  /\ \A w \in Worker : job[w] # Nothing <=> pc[w] = "run"
  /\ main \in {"addLock", "addPush"} <=> client # Nothing

IInv == TypeOK /\ JobInOnePlace /\ Hands

(* An empty list has no jobs.                                              *)
LEMMA EmptyList == ToSet(<<>>) = {} /\ IsInjective(<<>>) /\ \A S : <<>> \in Seq(S)
  BY DEF ToSet, IsInjective

(* Accept, AddPush, WorkerTake, WorkerFinish and ShutdownClear move a job  *)
(* from one place to the next; no other step touches any place.            *)
LEMMA JobInvariant == Spec => []IInv
<1>1. Init => IInv
  BY EmptyList DEF Init, IInv, TypeOK, JobInOnePlace, Hands
<1>2. IInv /\ [Next]_vars => IInv'
  <2> SUFFICES ASSUME IInv, [Next]_vars PROVE IInv'
    OBVIOUS
  <2> USE DEF IInv, TypeOK, JobInOnePlace, Hands, history
  <2>1. ASSUME NEW w \in Worker, StartWorker(w) PROVE IInv'
    <3>1. listed' \in Seq(Worker)
      BY <2>1 DEF StartWorker
    <3>2. QED
      BY <2>1, <3>1 DEF StartWorker, handlerVars
  <2>2. CASE StartFails \/ Signal
    BY <2>2 DEF StartFails, Signal, queueVars, workerVars
  <2>3. ASSUME NEW j \in Job, Accept(j) PROVE IInv'
    BY <2>3 DEF Accept, queueVars, workerVars, handlerVars
  <2>4. CASE AddLock \/ Return
    BY <2>4 DEF AddLock, Return, queueVars, workerVars, handlerVars
  <2>5. CASE AddPush
    <3>1. /\ waiting' \in Seq(Job) /\ IsInjective(waiting')
          /\ ToSet(waiting') = {client} \cup ToSet(waiting)
      BY <2>5, Pushed DEF AddPush
    <3>2. /\ pc' \in [Worker -> {"absent", "lock", "test", "wait", "run", "exited"}]
          /\ \A w \in Worker : pc'[w] = "run" <=> pc[w] = "run"
      BY <2>5 DEF AddPush, SignalOne, Sleeping
    <3>3. /\ client \in Job /\ client' = Nothing /\ main = "addPush" /\ main' = "loop"
          /\ UNCHANGED <<job, accepted, done, dropped>>
      BY <2>5 DEF AddPush
    <3>4. TypeOK'
      BY <2>5, <3>1, <3>2, <3>3 DEF AddPush, handlerVars
    <3>5. Hands'
      BY <3>2, <3>3
    <3>6. client' \notin ToSet(waiting') \cup done' \cup dropped'
      <4>1. ToSet(waiting') \subseteq Job
        BY <3>1 DEF ToSet
      <4>2. QED
        BY <3>3, <4>1
    <3>7. JobInOnePlace'
      <4>1. client # Nothing /\ client' \notin Job
        BY <3>3
      <4>2. \A w \in Worker : job'[w] # Nothing =>
              /\ job'[w] \notin ToSet(waiting') \cup done' \cup dropped'
              /\ \A v \in Worker \ {w} : job'[v] # job'[w]
              /\ job'[w] # client'
        BY <3>1, <3>3
      <4>3. ToSet(waiting') \cap (done' \cup dropped') = {} /\ done' \cap dropped' = {}
        BY <3>1, <3>3
      <4>4. \A j \in Job : j \in {client} \cup ToSet(waiting) \cup done \cup dropped
                        <=> j \in {client'} \cup ToSet(waiting') \cup done' \cup dropped'
        BY <3>1, <3>3, <4>1
      <4>5. \A j \in Job : j \in accepted' <=>
              \/ j \in {client'} \cup ToSet(waiting') \cup done' \cup dropped'
              \/ \E w \in Worker : job'[w] = j
        BY <3>3, <4>4
      <4>6. QED
        BY <3>1, <3>6, <4>2, <4>3, <4>5
    <3>8. QED
      BY <3>4, <3>5, <3>7
  <2>6. CASE ShutdownMark
    <3>1. cursor' \in Seq(Worker)
      <4>1. cursor \in Seq(Worker) /\ (cursor # <<>> => Tail(cursor) \in Seq(Worker))
        OBVIOUS
      <4>2. cursor' = cursor \/ (cursor # <<>> /\ cursor' = Tail(cursor))
        BY <2>6 DEF ShutdownMark
      <4>3. QED
        BY <4>1, <4>2
    <3>2. terminate' \in [Worker -> BOOLEAN]
      <4>1. CASE UNCHANGED terminate
        BY <4>1
      <4>2. CASE terminate' = [terminate EXCEPT ![Head(cursor)] = TRUE]
        BY <4>2, Zenon
      <4>3. QED
        BY <2>6, <4>1, <4>2 DEF ShutdownMark
    <3>3. QED
      BY <2>6, <3>1, <3>2 DEF ShutdownMark, queueVars, mainVars
  <2>7. CASE ShutdownLock
    BY <2>7 DEF ShutdownLock, queueVars, workerVars, mainVars
  <2>8. CASE ShutdownClear
    <3>1. /\ pc' \in [Worker -> {"absent", "lock", "test", "wait", "run", "exited"}]
          /\ \A w \in Worker : pc'[w] = "run" <=> pc[w] = "run"
      BY <2>8 DEF ShutdownClear, Sleeping
    <3>2. dropped' \subseteq Job
      BY <2>8 DEF ShutdownClear, ToSet
    <3>3. QED
      BY <2>8, <3>1, <3>2, EmptyList DEF ShutdownClear, mainVars
  <2>9. ASSUME NEW w \in Worker, WorkerLock(w) \/ WorkerBreak(w) \/ WorkerWait(w) \/ SpuriousWakeup(w)
        PROVE  IInv'
    BY <2>9 DEF WorkerLock, WorkerBreak, WorkerWait, SpuriousWakeup, queueVars, mainVars, handlerVars
  <2>10. ASSUME NEW w \in Worker, WorkerTake(w) PROVE IInv'
    <3>1. /\ job'[w] \in Job /\ waiting' \in Seq(Job) /\ IsInjective(waiting')
          /\ job'[w] \notin ToSet(waiting')
          /\ ToSet(waiting) = {job'[w]} \cup ToSet(waiting')
      BY <2>10, Taken DEF WorkerTake
    <3>2. QED
      BY <2>10, <3>1 DEF WorkerTake, mainVars, handlerVars
  <2>11. ASSUME NEW w \in Worker, WorkerFinish(w) PROVE IInv'
    BY <2>11 DEF WorkerFinish, queueVars, mainVars, handlerVars
  <2>12. CASE UNCHANGED vars
    BY <2>12 DEF vars
  <2>13. QED
    BY <2>1, <2>2, <2>3, <2>4, <2>5, <2>6, <2>7, <2>8, <2>9, <2>10, <2>11, <2>12
       DEF Next, WorkerStep, MainStep
<1>3. QED
  BY <1>1, <1>2, PTL DEF Spec

(* The type invariant of WorkQueue.                                        *)
THEOREM WorkQueueTypeCorrect == Spec => []TypeOK
<1>1. IInv => TypeOK
  BY DEF IInv
<1>2. QED
  BY <1>1, JobInvariant, PTL

(* An accepted job is in the list once, or with one worker, or executed,   *)
(* or discarded by a shutdown, and never in two of these places.           *)
THEOREM NoJobTwice == Spec => []JobInOnePlace
<1>1. IInv => JobInOnePlace
  BY DEF IInv
<1>2. QED
  BY <1>1, JobInvariant, PTL
=============================================================================
