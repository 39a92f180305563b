----------------------------- MODULE TinyThread -----------------------------
(***************************************************************************)
(* The thread class of TinyThread++ (tinythread.cpp): a thread object, the *)
(* wrapper it shares with the thread it started, and the thread itself,    *)
(* which runs a function of the program that uses TinySync.                *)
(*                                                                         *)
(* There is one object per member of Threads, used by one thread at a time *)
(* (its owner); a pthread_t is taken again once its thread is released.    *)
(***************************************************************************)
EXTENDS TinySync

CONSTANTS
  Handles,   \* the values of pthread_t
  NoHandle   \* an mHandle of 0

ASSUME HandleAssumption == NoHandle \notin Handles
NoId == 0    \* the thread::id of no thread

VARIABLES
  mWrapper,  \* of the object: "unborn", "set", "null" or "gone"
  wrapper,   \* the _thread_wrapper: "none", "allocated" or "deleted"
  mRefCount,
  body,      \* where the thread is
  owner,     \* where the owner of the object is in a call of it
  call,      \* and which one
  mHandle,
  kernel,    \* what the system keeps: "none", "joinable", "detached", "free"
  idMap,     \* the handles that have an id, and their ids
  ids,       \* the ids the program was told for the thread
  joined,    \* whether join() has returned
  terminated \* std::terminate has been called

threadVars == <<mWrapper, wrapper, mRefCount, body, owner, call, mHandle,
                kernel, idMap, ids, joined, terminated>>

vars == <<syncVars, threadVars>>

Init ==
  /\ SyncInit
  /\ mWrapper = [t \in Threads |-> "unborn"]
  /\ wrapper = [t \in Threads |-> "none"]
  /\ mRefCount = [t \in Threads |-> 0]
  /\ body = [t \in Threads |-> "none"]
  /\ owner = [t \in Threads |-> "idle"]
  /\ call = [t \in Threads |-> "none"]
  /\ mHandle = [t \in Threads |-> NoHandle]
  /\ kernel = [t \in Threads |-> "none"]
  /\ idMap = [h \in {} |-> NoId]
  /\ ids = [t \in Threads |-> {}]
  /\ joined = [t \in Threads |-> FALSE]
  /\ terminated = FALSE

(* A thread that was started has its handle until it was joined, or was    *)
(* detached and has ended.                                                 *)
Exists(t) ==
  \/ kernel[t] = "joinable"
  \/ kernel[t] = "detached" /\ body[t] # "exited"

----------------------------------------------------------------------------
(* The constructors. *)

DefaultConstruct(t) ==
  /\ mWrapper[t] = "unborn"
  /\ mWrapper' = [mWrapper EXCEPT ![t] = "null"]
  /\ UNCHANGED <<syncVars, wrapper, mRefCount, body, owner, call, mHandle, kernel, idMap, ids,
                 joined, terminated>>

(* The wrapper is referenced by the object and by the thread. *)
Construct(t) ==
  /\ mWrapper[t] = "unborn"
  /\ \E h \in Handles :
       /\ \A u \in Threads : Exists(u) => mHandle[u] # h
       /\ mHandle' = [mHandle EXCEPT ![t] = h]
  /\ mWrapper' = [mWrapper EXCEPT ![t] = "set"]
  /\ wrapper' = [wrapper EXCEPT ![t] = "allocated"]
  /\ mRefCount' = [mRefCount EXCEPT ![t] = 2]
  /\ body' = [body EXCEPT ![t] = "running"]
  /\ kernel' = [kernel EXCEPT ![t] = "joinable"]
  /\ UNCHANGED <<syncVars, owner, call, idMap, ids, joined, terminated>>

(* pthread_create fails: the wrapper is deleted whatever its count. *)
ConstructFails(t) ==
  /\ mWrapper[t] = "unborn"
  /\ mWrapper' = [mWrapper EXCEPT ![t] = "null"]
  /\ wrapper' = [wrapper EXCEPT ![t] = "deleted"]
  /\ UNCHANGED <<syncVars, mRefCount, body, owner, call, mHandle, kernel, idMap, ids,
                 joined, terminated>>

----------------------------------------------------------------------------
(* The thread: wrapper_function. *)

Return(t) ==
  /\ body[t] = "running"
  /\ at[t] = "out"
  /\ body' = [body EXCEPT ![t] = "returned"]
  /\ UNCHANGED <<syncVars, mWrapper, wrapper, mRefCount, owner, call, mHandle, kernel, idMap,
                 ids, joined, terminated>>

(* An exception that the function does not catch. *)
Throw(t) ==
  /\ body[t] = "running"
  /\ terminated' = TRUE
  /\ UNCHANGED <<syncVars, mWrapper, wrapper, mRefCount, body, owner, call, mHandle, kernel,
                 idMap, ids, joined>>

ThreadRelease_Always(t) ==
  /\ body[t] = "returned"
  /\ mRefCount' = [mRefCount EXCEPT ![t] = @ - 1]
  /\ body' = [body EXCEPT ![t] = "deleting"]
  /\ UNCHANGED <<syncVars, mWrapper, wrapper, owner, call, mHandle, kernel, idMap, ids,
                 joined, terminated>>

(* _thread_wrapper::release: one atomic step, the delete is another. *)
ThreadRelease(t) ==
  /\ body[t] = "returned"
  /\ mRefCount' = [mRefCount EXCEPT ![t] = @ - 1]
  /\ body' = [body EXCEPT ![t] = IF mRefCount[t] = 1 THEN "deleting" ELSE "exited"]
  /\ UNCHANGED <<syncVars, mWrapper, wrapper, owner, call, mHandle, kernel, idMap, ids,
                 joined, terminated>>

ThreadDelete(t) ==
  /\ body[t] = "deleting"
  /\ wrapper' = [wrapper EXCEPT ![t] = "deleted"]
  /\ body' = [body EXCEPT ![t] = "exited"]
  /\ UNCHANGED <<syncVars, mWrapper, mRefCount, owner, call, mHandle, kernel, idMap, ids,
                 joined, terminated>>

----------------------------------------------------------------------------
(* The object. *)

joinable(t) == mWrapper[t] = "set" /\ mRefCount[t] > 1

Idle(t) == mWrapper[t] = "set" /\ owner[t] = "idle"

Starts(t, method, step) ==
  /\ Idle(t)
  /\ call' = [call EXCEPT ![t] = method]
  /\ owner' = [owner EXCEPT ![t] = step]
  /\ UNCHANGED <<syncVars, mWrapper, wrapper, mRefCount, body, mHandle, idMap, ids,
                 joined, terminated>>

Join_NoWait(t) == Starts(t, "join", "releasing") /\ UNCHANGED kernel

(* A thread that has released the wrapper is not joinable any more, and    *)
(* pthread_join is not called for it.                                      *)
Join(t) ==
  /\ Starts(t, "join", IF joinable(t) THEN "joining" ELSE "releasing")
  /\ UNCHANGED kernel

Detach(t) ==
  /\ Starts(t, "detach", "releasing")
  /\ kernel' = [kernel EXCEPT ![t] = "detached"]

Destroy(t) == Starts(t, "destroy", "releasing") /\ UNCHANGED kernel

DestroyEmpty(t) ==
  /\ mWrapper[t] = "null"
  /\ mWrapper' = [mWrapper EXCEPT ![t] = "gone"]
  /\ UNCHANGED <<syncVars, wrapper, mRefCount, body, owner, call, mHandle, kernel, idMap,
                 ids, joined, terminated>>

pthread_join(t) ==
  /\ owner[t] = "joining"
  /\ body[t] = "exited"
  /\ kernel' = [kernel EXCEPT ![t] = "free"]
  /\ owner' = [owner EXCEPT ![t] = "releasing"]
  /\ UNCHANGED <<syncVars, mWrapper, wrapper, mRefCount, body, call, mHandle, idMap, ids,
                 joined, terminated>>

(* The object gives its reference back; a destructor that is not the last   *)
(* to do so terminates the program.                                         *)
OwnerRelease(t) ==
  /\ owner[t] = "releasing"
  /\ mRefCount' = [mRefCount EXCEPT ![t] = @ - 1]
  /\ owner' = [owner EXCEPT ![t] = IF mRefCount[t] = 1 THEN "deleting" ELSE "leaving"]
  /\ terminated' = (terminated \/ (call[t] = "destroy" /\ mRefCount[t] # 1))
  /\ UNCHANGED <<syncVars, mWrapper, wrapper, body, call, mHandle, kernel, idMap, ids,
                 joined>>

OwnerDelete(t) ==
  /\ owner[t] = "deleting"
  /\ wrapper' = [wrapper EXCEPT ![t] = "deleted"]
  /\ owner' = [owner EXCEPT ![t] = "leaving"]
  /\ UNCHANGED <<syncVars, mWrapper, mRefCount, body, call, mHandle, kernel, idMap, ids,
                 joined, terminated>>

(* mWrapper = 0, or the end of the object. *)
OwnerLeave(t) ==
  /\ owner[t] = "leaving"
  /\ owner' = [owner EXCEPT ![t] = "idle"]
  /\ mWrapper' = [mWrapper EXCEPT ![t] = IF call[t] = "destroy" THEN "gone" ELSE "null"]
  /\ joined' = [joined EXCEPT ![t] = (call[t] = "join")]
  /\ UNCHANGED <<syncVars, wrapper, mRefCount, body, call, mHandle, kernel, idMap, ids,
                 terminated>>

----------------------------------------------------------------------------
(* Identifiers: a handle keeps the number it got when it was first asked   *)
(* for.                                                                    *)

pthread_t_to_ID_NotFound(h) == 1 + Cardinality(DOMAIN idMap)

pthread_t_to_ID(h) ==
  IF h \in DOMAIN idMap THEN idMap[h] ELSE 1 + Cardinality(DOMAIN idMap)

Told(t, id) ==
  /\ ids' = [ids EXCEPT ![t] = @ \cup {id}]
  /\ idMap' = [h \in DOMAIN idMap \cup {mHandle[t]} |-> pthread_t_to_ID(h)]
  /\ UNCHANGED <<syncVars, mWrapper, wrapper, mRefCount, body, owner, call, mHandle, kernel,
                 joined, terminated>>

(* thread::get_id of an object whose thread has not ended, and             *)
(* this_thread::get_id.  Under Windows the system numbers the threads.     *)
GetId(t) ==
  /\ platform = "posix"
  /\ \/ Idle(t) /\ joinable(t)
     \/ body[t] = "running"
  /\ Told(t, pthread_t_to_ID(mHandle[t]))

(* The function of the thread. *)
Client(t) ==
  /\ body[t] = "running"
  /\ SyncStep(t)
  /\ UNCHANGED threadVars

----------------------------------------------------------------------------
ThreadStep(t) ==
  Return(t) \/ Throw(t) \/ ThreadRelease(t) \/ ThreadDelete(t) \/ Client(t)

OwnerStep(t) ==
  \/ DefaultConstruct(t) \/ Construct(t) \/ ConstructFails(t)
  \/ Join(t) \/ pthread_join(t) \/ Detach(t) \/ Destroy(t) \/ DestroyEmpty(t)
  \/ OwnerRelease(t) \/ OwnerDelete(t) \/ OwnerLeave(t) \/ GetId(t)

Next == ~ terminated /\ \E t \in Threads : ThreadStep(t) \/ OwnerStep(t)

Spec == Init /\ [][Next]_vars

----------------------------------------------------------------------------
(* The variables keep their types; a client of the library never gets a    *)
(* reference count below zero or an unlock without a lock.                 *)
TypeOK ==
  /\ mLock \in {0, 1}
  /\ depth \in [Threads -> 0 .. MaxDepth]
  /\ at \in [Threads -> Positions]
  /\ mWrapper \in [Threads -> {"unborn", "set", "null", "gone"}]
  /\ wrapper \in [Threads -> {"none", "allocated", "deleted"}]
  /\ mRefCount \in [Threads -> 0 .. 2]
  /\ body \in [Threads -> {"none", "running", "returned", "deleting", "exited"}]
  /\ owner \in [Threads -> {"idle", "joining", "releasing", "deleting", "leaving"}]
  /\ call \in [Threads -> {"none", "join", "detach", "destroy"}]
  /\ mHandle \in [Threads -> Handles \cup {NoHandle}]
  /\ kernel \in [Threads -> {"none", "joinable", "detached", "free"}]
  /\ joined \in [Threads -> BOOLEAN]
  /\ terminated \in BOOLEAN

(* Object and thread let go of the wrapper in any order, from two threads: *)
(* neither touches it after the other has deleted it, not both delete it,  *)
(* and once both have let go it is deleted.                                *)
WrapperSafe ==
  \A t \in Threads :
    LET used == \/ body[t] \in {"running", "returned", "deleting"}
                \/ owner[t] \in {"joining", "releasing", "deleting"}
                \/ mWrapper[t] = "set" /\ owner[t] = "idle"
    IN  /\ used => wrapper[t] = "allocated"
        /\ ~ used => wrapper[t] # "allocated"
        /\ ~ (body[t] = "deleting" /\ owner[t] = "deleting")

(* join() returns after the function has, also when it never waited because *)
(* the thread had let go of the wrapper already.                            *)
JoinMeansDone ==
  \A t \in Threads : joined[t] => body[t] = "exited"

(* One thread at a time is inside the mutex, of whichever class and also   *)
(* after a wait, and the mutex is free when none is.                       *)
OneInside ==
  /\ \A t, u \in Threads : at[t] \in Holding /\ at[u] \in Holding => t = u
  /\ mLock = 1 <=> \E t \in Threads : at[t] \in Holding

(* Threads that exist at the same time have different identifiers, a       *)
(* thread has one whoever asks, and none has that of no thread.            *)
IdsTellThreads ==
  \A t \in Threads :
    /\ Cardinality(ids[t]) <= 1
    /\ NoId \notin ids[t]
    /\ \A u \in Threads \ {t} : Exists(t) /\ Exists(u) => ids[t] \cap ids[u] = {}

(* Windows: a waiter for which notify_all was called finds the event set   *)
(* until it goes on, however many others go on before; unless the call came *)
(* while the last waiter of an earlier one had yet to reset the event.  The *)
(* counter that tells who is the last is the number of threads between     *)
(* their two visits of its critical section.                               *)
NotifiedWakes ==
  /\ owed \ raced # {} => all
  /\ mWaitersCount = Cardinality({t \in Threads :
       at[t] \in {"counted", "blocked", "one came", "all came"}})
=============================================================================
