---------------------------- MODULE Panel_proofs ----------------------------
(***************************************************************************)
(* Proofs about Panel for every set of intensities and every size of the   *)
(* socket's queue: type correctness with the discipline of the FLTK lock,  *)
(* the order of destruction, and the absence of crashes while the panel    *)
(* runs.                                                                   *)
(***************************************************************************)
EXTENDS Panel, TLAPS

USE LevelAssumption, QueueAssumption

Places ==
  {"unborn", "start", "test", "receive", "handle", "notify", "call", "wantLock",
   "draw", "advance", "encode", "exited", "crashed"}

(* A thread that has not been started has not done anything.               *)
Unborn ==
  /\ main = "spawnRcv" => pc["rcv"] = "unborn"
  /\ main \in {"spawnRcv", "spawnSnd"} => pc["snd"] = "unborn"
  /\ main \in {"spawnRcv", "spawnSnd", "spawnUpd"} => pc["upd"] = "unborn"

(* TypeOK names the places of the three threads one by one; the proofs     *)
(* also need that pc has no other index, and that a thread that is being   *)
(* started cannot hold the lock.                                           *)
Typed == TypeOK /\ pc \in [Child -> Places] /\ Unborn

(* Who may still be running at which step of the destructor.               *)
Joined ==
  /\ main \in {"joinRcv", "joinUpd", "delete", "done"} => pc["snd"] = "exited"
  /\ main \in {"joinUpd", "delete", "done"} => pc["rcv"] = "exited"
  /\ parser = "deleted" => main = "done"

(* What the constructors have made before main goes on.                    *)
Made ==
  /\ main \in {"load", "setup", "events", "wait"} => parser \in {"ready", "empty"}
  /\ Running => listener = "registered"

(* Delivery keeps the queue of the socket within its bound.                *)
LEMMA DeliverKeepsQueue ==
  ASSUME NEW m \in Message, inbox \in Seq(Message), Len(inbox) <= SocketQueue, Deliver(m)
  PROVE  inbox' \in Seq(Message) /\ Len(inbox') <= SocketQueue
  BY DEF Deliver

(* The messages the panel makes itself are messages.                       *)
LEMMA NotesAreMessages == \A k \in {"can", "own", "text"} : Note(k) \in Message
  BY DEF Note, Message

(* A crash keeps the types: it releases the lock and ends every thread.    *)
LEMMA CrashKeepsTypes ==
  ASSUME Typed, Crash
  PROVE  Typed'
  BY DEF Typed, TypeOK, Unborn, Crash, Places, Child, car, net, gui

(* Every variable of Panel keeps its type, and with it the discipline of   *)
(* the FLTK lock: a child thread holds it exactly while it draws, and main *)
(* from the closing of the window on.                                      *)
LEMMA TypedInvariant == Spec => []Typed
<1>1. Init => Typed
  <2> SUFFICES ASSUME Init PROVE Typed
    OBVIOUS
  <2>1. buf \in Message /\ inbox \in Seq(Message) /\ Len(inbox) <= SocketQueue
    BY NotesAreMessages DEF Init
  <2>2. QED
    BY <2>1 DEF Init, Typed, TypeOK, Unborn, Places, Child
<1>2. Typed /\ [Next]_vars => Typed'
  <2> SUFFICES ASSUME Typed, [Next]_vars PROVE Typed'
    OBVIOUS
  <2> USE DEF Typed, TypeOK, Unborn, Places, Child, car, net, gui
  <2>1. CASE MainSpawn
    BY <2>1 DEF MainSpawn, Spawn, Goto
  <2>2. CASE MainNull \/ MainParse \/ MainDelete
    BY <2>2 DEF MainNull, MainParse, MainDelete, MainParser
  <2>3. CASE MainRegister \/ MainStop \/ MainShutdown \/ MainJoin
    <3>1. CASE MainRegister
      BY <3>1 DEF MainRegister
    <3>2. CASE MainStop \/ MainShutdown
      <4>1. stop' \in BOOLEAN /\ shut' \in BOOLEAN
        BY <3>2, Zenon DEF MainStop, MainShutdown
      <4>2. QED
        BY <3>2, <4>1 DEF MainStop, MainShutdown
    <3>3. CASE MainJoin
      BY <3>3 DEF MainJoin
    <3>4. QED
      BY <2>3, <3>1, <3>2, <3>3
  <2>4. CASE MainFirstLock \/ MainRelock
    BY <2>4 DEF MainFirstLock, MainRelock, MainLock
  <2>5. CASE MainWait \/ MainClose
    BY <2>5 DEF MainWait, MainClose
  <2>6. CASE MainBye
    <3>1. inbox' \in Seq(Message) /\ Len(inbox') <= SocketQueue
      BY <2>6, NotesAreMessages, DeliverKeepsQueue DEF MainBye
    <3>2. QED
      BY <2>6, <3>1 DEF MainBye
  <2>7. CASE RcvStep
    <3>1. CASE TestStop("rcv", "receive") \/ RcvText \/ RcvNotify
      BY <2>7, <3>1 DEF TestStop, RcvText, RcvNotify, Goto
    <3>2. CASE RcvReceive
      <4>1. buf' \in Message /\ inbox' \in Seq(Message) /\ Len(inbox') <= SocketQueue
        BY <3>2 DEF RcvReceive
      <4>2. QED
        BY <3>2, <4>1 DEF RcvReceive, Goto
    <3>3. CASE RcvPwm
      <4>1. buf.level \in Level
        BY DEF Message
      <4>2. QED
        BY <3>3, <4>1 DEF RcvPwm, Goto
    <3>4. CASE RcvCan
      BY <3>4, CrashKeepsTypes DEF RcvCan, MapRace, Goto
    <3>5. CASE RcvCall \/ RcvAdvance
      BY <3>5, CrashKeepsTypes DEF RcvCall, RcvAdvance, RcvIterate, Goto
    <3>6. CASE RcvDraw
      BY <3>6 DEF RcvDraw, Goto
    <3>7. QED
      BY <2>7, <3>1, <3>2, <3>3, <3>4, <3>5, <3>6 DEF RcvStep
  <2>8. CASE SndStep
    <3>1. CASE SndHello
      <4>1. inbox' \in Seq(Message) /\ Len(inbox') <= SocketQueue
        BY <3>1, NotesAreMessages, DeliverKeepsQueue DEF SndHello
      <4>2. QED
        BY <3>1, <4>1 DEF SndHello, Goto
    <3>2. CASE SndTest
      BY <3>2 DEF SndTest, TestStop, Goto
    <3>3. CASE SndEncode
      <4>1. CASE Crash
        BY <4>1, CrashKeepsTypes
      <4>2. CASE ~Crash
        <5>1. inbox' \in Seq(Message) /\ Len(inbox') <= SocketQueue
          BY <3>3, <4>2, NotesAreMessages, DeliverKeepsQueue DEF SndEncode, MapRace
        <5>2. QED
          BY <3>3, <4>2, <5>1 DEF SndEncode, MapRace, Goto
      <4>3. QED
        BY <4>1, <4>2
    <3>4. QED
      BY <2>8, <3>1, <3>2, <3>3 DEF SndStep
  <2>9. CASE UpdStep
    BY <2>9 DEF UpdStep, TestStop, UpdDraw, Goto
  <2>10. CASE ChildLock("rcv") \/ ChildLock("upd")
    BY <2>10 DEF ChildLock, Goto
  <2>11. ASSUME NEW m \in Message, Arrive(m) PROVE Typed'
    BY <2>11 DEF Arrive
  <2>12. CASE UNCHANGED vars
    BY <2>12 DEF vars
  <2>13. QED
    BY <2>1, <2>2, <2>3, <2>4, <2>5, <2>6, <2>7, <2>8, <2>9, <2>10, <2>11, <2>12
       DEF Next, MainStep
<1>3. QED
  BY <1>1, <1>2, PTL DEF Spec

(* The type invariant of Panel.                                            *)
THEOREM PanelTypeCorrect == Spec => []TypeOK
<1>1. Typed => TypeOK
  BY DEF Typed
<1>2. QED
  BY <1>1, TypedInvariant, PTL

(* While the constructors' work lasts it is complete, and the destructor   *)
(* goes on only when the threads it has joined are gone.                   *)
LEMMA LifeCycle == Spec => [](Joined /\ Made)
<1>1. Init => Joined /\ Made
  BY DEF Init, Joined, Made, Running
<1>2. Typed /\ Joined /\ Made /\ [Next]_vars => (Joined /\ Made)'
  <2> SUFFICES ASSUME Typed, Joined, Made, [Next]_vars PROVE (Joined /\ Made)'
    OBVIOUS
  <2> USE DEF Typed, TypeOK, Unborn, Joined, Made, Running, Places, Child, car, net, gui
  <2>1. CASE MainSpawn
    BY <2>1 DEF MainSpawn, Spawn, Goto
  <2>2. CASE MainNull \/ MainParse \/ MainDelete
    BY <2>2 DEF MainNull, MainParse, MainDelete, MainParser
  <2>3. CASE MainRegister
    BY <2>3 DEF MainRegister
  <2>4. CASE MainFirstLock \/ MainRelock \/ MainWait
    BY <2>4 DEF MainFirstLock, MainRelock, MainLock, MainWait
  <2>5. CASE MainClose \/ MainStop \/ MainBye \/ MainShutdown
    BY <2>5 DEF MainClose, MainStop, MainBye, MainShutdown
  <2>6. CASE MainJoin
    BY <2>6 DEF MainJoin
  <2>7. CASE RcvStep
    <3>1. CASE TestStop("rcv", "receive") \/ RcvReceive \/ RcvPwm \/ RcvText \/ RcvNotify \/ RcvDraw
      BY <3>1 DEF TestStop, RcvReceive, RcvPwm, RcvText, RcvNotify, RcvDraw, Goto
    <3>2. CASE RcvCan
      BY <3>2 DEF RcvCan, MapRace, Crash, Goto
    <3>3. CASE RcvCall \/ RcvAdvance
      BY <3>3 DEF RcvCall, RcvAdvance, RcvIterate, Crash, Goto
    <3>4. QED
      BY <2>7, <3>1, <3>2, <3>3 DEF RcvStep
  <2>8. CASE SndStep
    BY <2>8 DEF SndStep, SndHello, SndTest, SndEncode, TestStop, MapRace, Crash, Goto
  <2>9. CASE UpdStep \/ ChildLock("rcv") \/ ChildLock("upd")
    BY <2>9 DEF UpdStep, TestStop, UpdDraw, ChildLock, Goto
  <2>10. ASSUME NEW m \in Message, Arrive(m) PROVE (Joined /\ Made)'
    BY <2>10 DEF Arrive
  <2>11. CASE UNCHANGED vars
    BY <2>11 DEF vars
  <2>12. QED
    BY <2>1, <2>2, <2>3, <2>4, <2>5, <2>6, <2>7, <2>8, <2>9, <2>10, <2>11
       DEF Next, MainStep
<1>3. QED
  BY <1>1, <1>2, TypedInvariant, PTL DEF Spec

(* ~CarState deletes the parser only after both threads that use it have   *)
(* ended, whatever was in the socket and whoever had the lock.             *)
THEOREM ParserIsDeletedLast == Spec => []ParserOutlivesUsers
<1>1. Joined => ParserOutlivesUsers
  BY DEF Joined, ParserOutlivesUsers
<1>2. QED
  BY <1>1, LifeCycle, PTL

(* From the end of the constructors to the closing of the window, and with *)
(* its DBC file at hand, no step of any thread crashes the panel.          *)
THEOREM RunsWithoutCrash == Spec => NoCrashWhileRunning
<1>1. Typed /\ Made /\ [Next]_vars => [Running /\ parser # "empty" => ~crashed']_vars
  <2> SUFFICES ASSUME Typed, Made, [Next]_vars, Running, parser # "empty", ~UNCHANGED vars
               PROVE  main' # "crashed"
    BY DEF crashed
  <2>1. parser = "ready" /\ listener = "registered" /\ main # "load" /\ main # "crashed"
    BY DEF Made, Running
  <2> USE <2>1 DEF Running
  <2>2. CASE MainStep \/ MainRelock \/ MainClose
    BY <2>2 DEF MainStep, MainRelock, MainClose, MainSpawn, Spawn, MainNull, MainParse,
                MainDelete, MainParser, MainRegister, MainFirstLock, MainLock, MainWait,
                MainStop, MainBye, MainShutdown, MainJoin
  <2>3. CASE RcvStep
    BY <2>3 DEF RcvStep, TestStop, RcvReceive, RcvPwm, RcvCan, RcvText, RcvNotify, RcvCall,
                RcvDraw, RcvAdvance, RcvIterate, MapRace, Goto
  <2>4. CASE SndStep
    BY <2>4 DEF SndStep, SndHello, SndTest, SndEncode, TestStop, MapRace, Goto
  <2>5. CASE UpdStep \/ ChildLock("rcv") \/ ChildLock("upd")
    BY <2>5 DEF UpdStep, TestStop, UpdDraw, ChildLock, Goto
  <2>6. ASSUME NEW m \in Message, Arrive(m) PROVE main' # "crashed"
    BY <2>6 DEF Arrive
  <2>7. QED
    BY <2>2, <2>3, <2>4, <2>5, <2>6 DEF Next
<1>2. QED
  BY <1>1, TypedInvariant, LifeCycle, PTL DEF Spec, NoCrashWhileRunning
=============================================================================
