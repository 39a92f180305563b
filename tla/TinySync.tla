------------------------------ MODULE TinySync ------------------------------
(***************************************************************************)
(* The mutexes of TinyThread++ (tinythread.h, fast_mutex.h) and its        *)
(* condition variable, which is pthread's under POSIX and made of two      *)
(* events and a counter under Windows (tinythread.cpp).  The threads use   *)
(* one mutex and one condition variable, and unlock only what they hold.   *)
(***************************************************************************)
EXTENDS Integers, FiniteSets

CONSTANTS
  Threads,
  Builds,   \* the platforms and classes of mutex: pairs of the sets below
  MaxDepth  \* how often a thread locks a recursive mutex

Platforms == {"posix", "win32"}
Kinds == {"mutex", "recursive_mutex", "fast_mutex"}

ASSUME ThreadsAssumption == IsFiniteSet(Threads)
ASSUME BuildsAssumption == Builds \subseteq Platforms \X Kinds
ASSUME MaxDepthAssumption == MaxDepth \in Nat \ {0}

VARIABLES
  platform,      \* the platform of the build
  kind,          \* the class of the mutex
  mLock,         \* 1 while the mutex is locked
  depth,         \* how often the thread has locked it
  at,            \* where the thread is
  mWaitersCount, \* win32: the waiters
  one,           \* win32: the event that lets one waiter go and resets itself
  all,           \* win32: the event that lets all go until it is reset
  owed,          \* the waiters a notify_all was for that have not gone on
  raced          \* those of them it was for while another one was resetting

syncVars ==
  <<platform, kind, mLock, depth, at, mWaitersCount, one, all, owed, raced>>

(* Holding the mutex; waiting on the condition variable. *)
Holding == {"in", "counted", "signal in", "broadcast in"}
Waiting == {"counted", "blocked", "asleep"}

Positions ==
  Holding \cup Waiting
    \cup {"out", "one came", "all came", "resetting", "relocking",
          "signal out", "broadcast out"}

SyncInit ==
  /\ \E b \in Builds : platform = b[1] /\ kind = b[2]
  /\ mLock = 0
  /\ depth = [t \in Threads |-> 0]
  /\ at = [t \in Threads |-> "out"]
  /\ mWaitersCount = 0
  /\ one = FALSE
  /\ all = FALSE
  /\ owed = {}
  /\ raced = {}

----------------------------------------------------------------------------
(* Mutexes.  The spin lock swaps a 1 into the word until a 0 comes out; the *)
(* others let the operating system wait.                                    *)

Goes(t, position) == at' = [at EXCEPT ![t] = position]

try_lock_Unchecked(t) ==
  /\ at[t] = "out"
  /\ mLock' = 1
  /\ depth' = [depth EXCEPT ![t] = 1]
  /\ Goes(t, "in")
  /\ UNCHANGED <<platform, kind, mWaitersCount, one, all, owed, raced>>

(* When the mutex is locked, try_lock changes nothing. *)
try_lock(t) ==
  /\ at[t] = "out"
  /\ mLock = 0
  /\ mLock' = 1
  /\ depth' = [depth EXCEPT ![t] = 1]
  /\ Goes(t, "in")
  /\ UNCHANGED <<platform, kind, mWaitersCount, one, all, owed, raced>>

(* It tries until it succeeds. *)
lock(t) == try_lock(t)

lock_again(t) ==
  /\ kind = "recursive_mutex"
  /\ at[t] = "in"
  /\ depth[t] < MaxDepth
  /\ depth' = [depth EXCEPT ![t] = @ + 1]
  /\ UNCHANGED <<platform, kind, mLock, at, mWaitersCount, one, all, owed, raced>>

unlock(t) ==
  /\ at[t] = "in"
  /\ depth' = [depth EXCEPT ![t] = @ - 1]
  /\ IF depth[t] > 1
     THEN UNCHANGED <<mLock, at>>
     ELSE mLock' = 0 /\ Goes(t, "out")
  /\ UNCHANGED <<platform, kind, mWaitersCount, one, all, owed, raced>>

----------------------------------------------------------------------------
(* Waiting.  A fast_mutex cannot be waited with.                           *)

(* pthread_cond_wait releases the mutex and sleeps at once. *)
wait_posix(t) ==
  /\ platform = "posix"
  /\ kind # "fast_mutex"
  /\ at[t] = "in"
  /\ depth[t] = 1
  /\ mLock' = 0
  /\ depth' = [depth EXCEPT ![t] = 0]
  /\ Goes(t, "asleep")
  /\ UNCHANGED <<platform, kind, mWaitersCount, one, all, owed, raced>>

(* It may return without a notification. *)
spurious_wakeup(t) ==
  /\ at[t] = "asleep"
  /\ Goes(t, "relocking")
  /\ UNCHANGED <<platform, kind, mLock, depth, mWaitersCount, one, all, owed, raced>>

wait_count(t) ==
  /\ platform = "win32"
  /\ kind # "fast_mutex"
  /\ at[t] = "in"
  /\ depth[t] = 1
  /\ mWaitersCount' = mWaitersCount + 1
  /\ Goes(t, "counted")
  /\ UNCHANGED <<platform, kind, mLock, depth, one, all, owed, raced>>

wait_unlock(t) ==
  /\ at[t] = "counted"
  /\ mLock' = 0
  /\ depth' = [depth EXCEPT ![t] = 0]
  /\ Goes(t, "blocked")
  /\ UNCHANGED <<platform, kind, mWaitersCount, one, all, owed, raced>>

(* WaitForMultipleObjects: the event of notify_one is the first of the two. *)
wait_event(t) ==
  /\ at[t] = "blocked"
  /\ one \/ all
  /\ Goes(t, IF one THEN "one came" ELSE "all came")
  /\ one' = FALSE
  /\ owed' = owed \ {t}
  /\ raced' = raced \ {t}
  /\ UNCHANGED <<platform, kind, mLock, depth, mWaitersCount, all>>

wait_uncount_AnyEvent(t) ==
  /\ at[t] \in {"one came", "all came"}
  /\ mWaitersCount' = mWaitersCount - 1
  /\ Goes(t, "resetting")
  /\ UNCHANGED <<platform, kind, mLock, depth, one, all, owed, raced>>

wait_uncount(t) ==
  /\ at[t] \in {"one came", "all came"}
  /\ mWaitersCount' = mWaitersCount - 1
  /\ Goes(t, IF at[t] = "all came" /\ mWaitersCount = 1
             THEN "resetting" ELSE "relocking")
  /\ UNCHANGED <<platform, kind, mLock, depth, one, all, owed, raced>>

(* The last waiter resets the event after it has left the critical section *)
(* of the counter: a notify_all in between is undone.                      *)
wait_reset(t) ==
  /\ at[t] = "resetting"
  /\ all' = FALSE
  /\ Goes(t, "relocking")
  /\ UNCHANGED <<platform, kind, mLock, depth, mWaitersCount, one, owed, raced>>

wait_lock(t) ==
  /\ at[t] = "relocking"
  /\ mLock = 0
  /\ mLock' = 1
  /\ depth' = [depth EXCEPT ![t] = 1]
  /\ Goes(t, "in")
  /\ UNCHANGED <<platform, kind, mWaitersCount, one, all, owed, raced>>

----------------------------------------------------------------------------
(* Notifying, with or without the mutex.                                   *)

signal_posix(t) ==
  /\ platform = "posix"
  /\ at[t] \in {"in", "out"}
  /\ \E u \in Threads :
       /\ at[u] = "asleep"
       /\ Goes(u, "relocking")
  /\ UNCHANGED <<platform, kind, mLock, depth, mWaitersCount, one, all, owed, raced>>

broadcast_posix(t) ==
  /\ platform = "posix"
  /\ at[t] \in {"in", "out"}
  /\ at' = [u \in Threads |-> IF at[u] = "asleep" THEN "relocking" ELSE at[u]]
  /\ UNCHANGED <<platform, kind, mLock, depth, mWaitersCount, one, all, owed, raced>>

(* Under Windows the waiters are looked at first and the event set later. *)
notify_look(t) ==
  /\ platform = "win32"
  /\ at[t] \in {"in", "out"}
  /\ mWaitersCount > 0
  /\ \/ Goes(t, IF at[t] = "in" THEN "signal in" ELSE "signal out")
     \/ Goes(t, IF at[t] = "in" THEN "broadcast in" ELSE "broadcast out")
  /\ UNCHANGED <<platform, kind, mLock, depth, mWaitersCount, one, all, owed, raced>>

Back(t) ==
  Goes(t, IF at[t] \in {"signal in", "broadcast in"} THEN "in" ELSE "out")

signal_set(t) ==
  /\ at[t] \in {"signal in", "signal out"}
  /\ one' = TRUE
  /\ Back(t)
  /\ UNCHANGED <<platform, kind, mLock, depth, mWaitersCount, all, owed, raced>>

broadcast_set(t) ==
  /\ at[t] \in {"broadcast in", "broadcast out"}
  /\ all' = TRUE
  /\ LET waiters == {u \in Threads : at[u] \in Waiting}
     IN  /\ owed' = owed \cup waiters
         /\ raced' = IF \E u \in Threads : at[u] = "resetting"
                     THEN raced \cup waiters ELSE raced
  /\ Back(t)
  /\ UNCHANGED <<platform, kind, mLock, depth, mWaitersCount, one>>

SyncStep(t) ==
  \/ lock(t) \/ lock_again(t) \/ unlock(t)
  \/ wait_posix(t) \/ spurious_wakeup(t)
  \/ wait_count(t) \/ wait_unlock(t) \/ wait_event(t) \/ wait_uncount(t)
  \/ wait_reset(t) \/ wait_lock(t)
  \/ signal_posix(t) \/ broadcast_posix(t)
  \/ notify_look(t) \/ signal_set(t) \/ broadcast_set(t)
=============================================================================
