----------------------------- MODULE WorkQueue -----------------------------
(***************************************************************************)
(* The worker pool of ecu/libevent-thread (workqueue.c) under the echo     *)
(* server that uses it (echoserver_threaded.c).                            *)
(*                                                                         *)
(* Workers sleep on a condition variable and take jobs from a list that    *)
(* the main thread pushes to, one job per accepted client.  SIGINT and     *)
(* SIGTERM run killServer, and with it workqueue_shutdown, on the main     *)
(* thread, wherever that thread happens to be.  A worker that is told to   *)
(* terminate leaves its loop with a break while it holds jobs_mutex.       *)
(***************************************************************************)
EXTENDS Naturals, Sequences, FiniteSets, SequencesExt

CONSTANTS
  Worker,    (* the threads workqueue_init tries to start                  *)
  Job,       (* the jobs, one per client; a bound on the number of clients *)
  Nothing    (* no job, no holder                                          *)

ASSUME WorkerAssumption == Worker # {} /\ IsFiniteSet(Worker)
ASSUME NothingAssumption ==
  Nothing \notin Job \cup Worker /\ {"main", "handler"} \cap (Worker \cup {Nothing}) = {}

VARIABLES
  waiting,    (* waiting_jobs, head first                                  *)
  listed,     (* workqueue->workers, head first                            *)
  terminate,  (* worker->terminate                                         *)
  holder,     (* who holds jobs_mutex: a worker, "main" or "handler"       *)
  pc,         (* where each worker is                                      *)
  job,        (* the job each worker runs                                  *)
  main,       (* where runServer is                                        *)
  client,     (* the job on_accept is adding                               *)
  loopExit,   (* event_base_loopexit was called                            *)
  handler,    (* where the signal handler is                               *)
  cursor,     (* workers workqueue_shutdown has still to visit             *)
  accepted,   (* history: every job on_accept has made                     *)
  done, dropped   (* history: jobs executed, jobs discarded by a shutdown  *)

workerVars == <<terminate, pc, job>>
queueVars  == <<waiting, listed>>
mainVars   == <<main, client, loopExit>>
handlerVars == <<handler, cursor>>
history    == <<accepted, done, dropped>>
vars == <<waiting, listed, terminate, holder, pc, job, main, client, loopExit,
          handler, cursor, accepted, done, dropped>>

Init ==
  /\ waiting = <<>> /\ listed = <<>>
  /\ terminate = [w \in Worker |-> FALSE]
  /\ holder = Nothing
  /\ pc = [w \in Worker |-> "absent"]
  /\ job = [w \in Worker |-> Nothing]
  /\ main = "init" /\ client = Nothing /\ loopExit = FALSE
  /\ handler = "off" /\ cursor = <<>>
  /\ accepted = {} /\ done = {} /\ dropped = {}

(* The main thread is suspended while its signal handler runs.             *)
MainRuns == handler \in {"off", "returned"}

-----------------------------------------------------------------------------
(* runServer *)

(* workqueue_init, one worker; the last one ends the loop.                 *)
StartWorker(w) ==
  /\ main = "init" /\ MainRuns
  /\ pc[w] = "absent"
  /\ pc' = [pc EXCEPT ![w] = "lock"]
  /\ listed' = <<w>> \o listed
  /\ main' = IF \A v \in Worker \ {w} : pc[v] # "absent" THEN "loop" ELSE "init"
  /\ UNCHANGED <<waiting, terminate, job, holder, client, loopExit, handlerVars, history>>

(* malloc or pthread_create fails: the workers started so far are shut     *)
(* down and runServer gives up.                                            *)
StartFails ==
  /\ main = "init" /\ MainRuns
  /\ main' = "giveUp"
  /\ handler' = "mark" /\ cursor' = listed
  /\ UNCHANGED <<queueVars, workerVars, holder, client, loopExit, history>>

(* on_accept: a client for which every allocation succeeded; the others    *)
(* are closed and freed at once and never reach the queue.                 *)
Accept(j) ==
  /\ main = "loop" /\ ~loopExit /\ MainRuns
  /\ j \notin accepted
  /\ accepted' = accepted \cup {j}
  /\ client' = j
  /\ main' = "addLock"
  /\ UNCHANGED <<queueVars, workerVars, holder, loopExit, handlerVars, done, dropped>>

AddLock ==
  /\ main = "addLock" /\ MainRuns
  /\ holder = Nothing
  /\ holder' = "main"
  /\ main' = "addPush"
  /\ UNCHANGED <<queueVars, workerVars, client, loopExit, handlerVars, history>>

Sleeping == {w \in Worker : pc[w] = "wait"}

(* pthread_cond_signal wakes one sleeping worker, if there is one.         *)
SignalOne ==
  IF Sleeping = {} THEN UNCHANGED pc
  ELSE \E w \in Sleeping : pc' = [pc EXCEPT ![w] = "lock"]

(* Mutated: the job is queued but nobody is notified. *)
AddPush_NoSignal ==
  /\ main = "addPush" /\ MainRuns
  /\ waiting' = <<client>> \o waiting
  /\ UNCHANGED pc
  /\ holder' = Nothing /\ client' = Nothing /\ main' = "loop"
  /\ UNCHANGED <<listed, terminate, job, loopExit, handlerVars, history>>

AddPush ==
  /\ main = "addPush" /\ MainRuns
  /\ waiting' = <<client>> \o waiting
  /\ SignalOne
  /\ holder' = Nothing /\ client' = Nothing /\ main' = "loop"
  /\ UNCHANGED <<listed, terminate, job, loopExit, handlerVars, history>>

(* event_base_dispatch returns after loopexit, runServer returns.          *)
Return ==
  /\ \/ main = "loop" /\ loopExit
     \/ main = "giveUp"
  /\ MainRuns
  /\ main' = "returned"
  /\ UNCHANGED <<queueVars, workerVars, holder, client, loopExit, handlerVars, history>>

-----------------------------------------------------------------------------
(* sighandler, killServer and workqueue_shutdown, on the main thread       *)

Signal ==
  /\ handler = "off" /\ main \in {"init", "loop", "addLock", "addPush"}
  /\ loopExit' = TRUE
  /\ handler' = "mark" /\ cursor' = listed
  /\ UNCHANGED <<queueVars, workerVars, holder, main, client, history>>

(* The list is walked without the mutex.  A worker marked here may exit    *)
(* and free its record before its next field is read; the link read is     *)
(* then the one the freed record still holds.                              *)
ShutdownMark ==
  /\ handler = "mark"
  /\ IF cursor = <<>>
       THEN handler' = "lock" /\ UNCHANGED <<cursor, terminate>>
       ELSE /\ terminate' = [terminate EXCEPT ![Head(cursor)] = TRUE]
            /\ cursor' = Tail(cursor)
            /\ UNCHANGED handler
  /\ UNCHANGED <<queueVars, pc, job, holder, mainVars, history>>

ShutdownLock ==
  /\ handler = "lock"
  /\ holder = Nothing
  /\ holder' = "handler"
  /\ handler' = "clear"
  /\ UNCHANGED <<queueVars, workerVars, mainVars, cursor, history>>

ShutdownClear ==
  /\ handler = "clear"
  /\ dropped' = dropped \cup ToSet(waiting)
  /\ listed' = <<>> /\ waiting' = <<>>
  /\ pc' = [w \in Worker |-> IF w \in Sleeping THEN "lock" ELSE pc[w]]
  /\ holder' = Nothing
  /\ handler' = "returned"
  /\ UNCHANGED <<terminate, job, mainVars, cursor, accepted, done>>

-----------------------------------------------------------------------------
(* worker_function *)

WorkerLock(w) ==
  /\ pc[w] = "lock"
  /\ holder = Nothing
  /\ holder' = w
  /\ pc' = [pc EXCEPT ![w] = "test"]
  /\ UNCHANGED <<queueVars, terminate, job, mainVars, handlerVars, history>>

(* Both breaks leave the loop without unlocking jobs_mutex.                *)
WorkerBreak(w) ==
  /\ pc[w] = "test" /\ terminate[w]
  /\ pc' = [pc EXCEPT ![w] = "exited"]
  /\ UNCHANGED <<queueVars, terminate, holder, job, mainVars, handlerVars, history>>

WorkerWait(w) ==
  /\ pc[w] = "test" /\ ~terminate[w] /\ waiting = <<>>
  /\ holder' = Nothing
  /\ pc' = [pc EXCEPT ![w] = "wait"]
  /\ UNCHANGED <<queueVars, terminate, job, mainVars, handlerVars, history>>

(* Mutated: the job is run but stays in the list. *)
WorkerTake_NotRemoved(w) ==
  /\ pc[w] = "test" /\ ~terminate[w] /\ waiting # <<>>
  /\ job' = [job EXCEPT ![w] = Head(waiting)]
  /\ holder' = Nothing
  /\ pc' = [pc EXCEPT ![w] = "run"]
  /\ UNCHANGED <<waiting, listed, terminate, mainVars, handlerVars, history>>

WorkerTake(w) ==
  /\ pc[w] = "test" /\ ~terminate[w] /\ waiting # <<>>
  /\ job' = [job EXCEPT ![w] = Head(waiting)]
  /\ waiting' = Tail(waiting)
  /\ holder' = Nothing
  /\ pc' = [pc EXCEPT ![w] = "run"]
  /\ UNCHANGED <<listed, terminate, mainVars, handlerVars, history>>

(* server_job_function returns: the client left or timed out.              *)
WorkerFinish(w) ==
  /\ pc[w] = "run"
  /\ done' = done \cup {job[w]}
  /\ job' = [job EXCEPT ![w] = Nothing]
  /\ pc' = [pc EXCEPT ![w] = "lock"]
  /\ UNCHANGED <<queueVars, terminate, holder, mainVars, handlerVars, accepted, dropped>>

(* pthread_cond_wait may return without a signal.                          *)
SpuriousWakeup(w) ==
  /\ pc[w] = "wait"
  /\ pc' = [pc EXCEPT ![w] = "lock"]
  /\ UNCHANGED <<queueVars, terminate, job, holder, mainVars, handlerVars, history>>

WorkerStep(w) ==
  WorkerLock(w) \/ WorkerBreak(w) \/ WorkerWait(w) \/ WorkerTake(w) \/ WorkerFinish(w)

MainStep ==
  \/ AddLock \/ AddPush \/ Return
  \/ ShutdownMark \/ ShutdownLock \/ ShutdownClear

Next ==
  \/ \E w \in Worker : StartWorker(w) \/ WorkerStep(w) \/ SpuriousWakeup(w)
  \/ \E j \in Job : Accept(j)
  \/ StartFails \/ Signal \/ MainStep

(* Every thread keeps running and every client eventually leaves (the      *)
(* sockets have read and write timeouts).  No client, signal, failure or   *)
(* spurious wakeup has to come.                                            *)
Fairness ==
  /\ \A w \in Worker : WF_vars(WorkerStep(w))
  /\ WF_vars(MainStep)
  /\ WF_vars(\E w \in Worker : StartWorker(w))

Spec == Init /\ [][Next]_vars /\ Fairness

-----------------------------------------------------------------------------
(* Properties *)

(* The type invariant. *)
TypeOK ==
  /\ waiting \in Seq(Job) /\ listed \in Seq(Worker) /\ cursor \in Seq(Worker)
  /\ terminate \in [Worker -> BOOLEAN]
  /\ holder \in Worker \cup {"main", "handler", Nothing}
  /\ pc \in [Worker -> {"absent", "lock", "test", "wait", "run", "exited"}]
  /\ job \in [Worker -> Job \cup {Nothing}]
  /\ main \in {"init", "loop", "addLock", "addPush", "giveUp", "returned"}
  /\ client \in Job \cup {Nothing} /\ loopExit \in BOOLEAN
  /\ handler \in {"off", "mark", "lock", "clear", "returned"}
  /\ accepted \subseteq Job /\ done \subseteq Job /\ dropped \subseteq Job

(* Every accepted job is in exactly one place: still with on_accept, in    *)
(* the list once, in the hands of one worker, executed, or discarded by a  *)
(* shutdown.  None is lost (the last conjunct) and none is executed twice  *)
(* (the others), whatever the interleaving of pushes, wakeups and          *)
(* shutdown.                                                               *)
JobInOnePlace ==
  /\ IsInjective(waiting)
  /\ \A w \in Worker : job[w] # Nothing =>
        /\ job[w] \notin ToSet(waiting) \cup done \cup dropped
        /\ \A v \in Worker \ {w} : job[v] # job[w]
        /\ job[w] # client
  /\ ToSet(waiting) \cap (done \cup dropped) = {}
  /\ done \cap dropped = {}
  /\ client \notin ToSet(waiting) \cup done \cup dropped
  /\ \A j \in Job : j \in accepted <=>
        \/ j \in {client} \cup ToSet(waiting) \cup done \cup dropped
        \/ \E w \in Worker : job[w] = j

(* No wakeup is lost: as long as the server is not told to stop, a queued  *)
(* job is eventually executed, although only one worker is signalled per   *)
(* job, the list is last-in first-out and all workers may be busy.         *)
JobsServed == \A j \in Job : (j \in ToSet(waiting)) ~> (j \in done \/ handler # "off")

(* "wake up all workers so that they will terminate"                       *)
(* (workqueue.c:98): once the shutdown has returned every worker exits.    *)
WorkersTerminate ==
  (handler = "returned") ~> (\A w \in Worker : pc[w] \in {"absent", "exited"})
=============================================================================
