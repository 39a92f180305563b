------------------------------- MODULE Panel -------------------------------
(***************************************************************************)
(* The threads of the panel program: main (panel/main.cpp) and the         *)
(* receive, send and update threads that the constructor of CarState       *)
(* starts (panel/CarState.cpp), around the global lock of FLTK.            *)
(*                                                                         *)
(* Nothing but that lock is shared with synchronisation: the parser        *)
(* pointer, the listener list, the stop flag and the maps are plain        *)
(* memory.  Where a thread uses what another one has not finished making   *)
(* or has already destroyed, the process may crash or get away with it.    *)
(* There is no clock: a thread may sleep for any time.                     *)
(***************************************************************************)
EXTENDS Naturals, Sequences

CONSTANTS
  Level,        (* brake light intensities the ECU may announce            *)
  SocketQueue   (* bound: datagrams the panel's socket holds               *)

ASSUME LevelAssumption == 0 \in Level
ASSUME QueueAssumption == SocketQueue \in Nat \ {0}

VARIABLES
  main,      (* what the main thread does next                             *)
  pc,        (* what each of the three other threads does next             *)
  lock,      (* holder of the FLTK lock                                    *)
  stop,      (* CarState::stop                                             *)
  parser,    (* CarState::car_msg_parser                                   *)
  listener,  (* the GlobalCarStateListener                                 *)
  inbox,     (* datagrams in the socket                                    *)
  shut,      (* receiver.shutdown() was called                             *)
  buf,       (* receiveLoop's local message, never initialised             *)
  pwm,       (* PulseWidth of pwm_data["BrkL"]                             *)
  display    (* the light the panel draws                                  *)

car == <<stop, parser, listener>>
net == <<inbox, shut, buf>>
gui == <<pwm, display>>
vars == <<main, pc, lock, stop, parser, listener, inbox, shut, buf, pwm, display>>

Child == {"rcv", "snd", "upd"}

(* Datagrams by what the receive loop makes of them: PWM signals and CAN   *)
(* messages of others, the panel's own CAN messages, text.                 *)
Message ==
  [kind : {"pwm"}, level : Level] \cup [kind : {"can", "own", "text"}, level : {0}]
Note(k) == [kind |-> k, level |-> 0]

Init ==
  /\ main = "spawnRcv"
  /\ pc = [t \in Child |-> "unborn"]
  /\ lock = "nobody"
  /\ stop = FALSE /\ parser = "garbage" /\ listener = "none"
  /\ inbox = <<>> /\ shut = FALSE /\ buf = Note("text")
  /\ pwm = 0 /\ display = 0

Goto(t, l) == pc' = [pc EXCEPT ![t] = l]

(* The process is gone with all its threads.                               *)
Crash ==
  /\ main' = "crashed" /\ pc' = [t \in Child |-> "crashed"] /\ lock' = "nobody"
  /\ UNCHANGED <<car, net, gui>>
crashed == main = "crashed"

(* A datagram reaches the socket or is lost.                               *)
Deliver(m) ==
  \/ Len(inbox) < SocketQueue /\ inbox' = Append(inbox, m)
  \/ UNCHANGED inbox

Arrive(m) ==
  /\ ~crashed
  /\ Len(inbox) < SocketQueue
  /\ inbox' = Append(inbox, m)
  /\ UNCHANGED <<main, pc, lock, car, shut, buf, gui>>

-----------------------------------------------------------------------------
(* main: constructors, Fl::run, destructors                                *)

(* The member initialisers start the threads before car_msg_parser has     *)
(* been given a value.                                                     *)
Spawn(t, here, next) ==
  /\ main = here /\ main' = next
  /\ Goto(t, "start")
  /\ UNCHANGED <<lock, car, net, gui>>

MainSpawn ==
  \/ Spawn("rcv", "spawnRcv", "spawnSnd")
  \/ Spawn("snd", "spawnSnd", "spawnUpd")
  \/ Spawn("upd", "spawnUpd", "nullParser")

MainParser(here, value, next) ==
  /\ main = here /\ main' = next
  /\ parser' = value
  /\ UNCHANGED <<pc, lock, stop, listener, net, gui>>

(* Mutated: the parser is built but not stored. *)
MainParse_NotStored == MainParser("parse", "null", "load")

MainNull  == MainParser("nullParser", "null", "parse")

(* The DBC file may be missing: the parser then has no message hash, and   *)
(* nobody looks at the error.                                              *)
MainParse == MainParser("parse", "ready", "load") \/ MainParser("parse", "empty", "load")

(* busAssignment_iterate has filled in the start values; the listener of   *)
(* main enters the list.                                                   *)
MainRegister ==
  /\ main = "load" /\ main' = "setup"
  /\ listener' = "registered"
  /\ UNCHANGED <<pc, lock, stop, parser, net, gui>>

MainLock(here, next) ==
  /\ main = here /\ main' = next
  /\ lock = "nobody" /\ lock' = "main"
  /\ UNCHANGED <<pc, car, net, gui>>

(* The set-up of the widgets ends with Fl::lock.  Fl::wait releases the    *)
(* lock while there is no event and takes it again.                        *)
MainFirstLock == MainLock("setup", "events")
MainRelock    == MainLock("wait", "events")
MainWait ==
  /\ main = "events" /\ main' = "wait"
  /\ lock' = "nobody"
  /\ UNCHANGED <<pc, car, net, gui>>

(* The window is closed: Fl::run returns, still holding the lock, and the  *)
(* destructors run.                                                        *)
MainClose ==
  /\ main = "events" /\ main' = "stop"
  /\ listener' = "removed"
  /\ UNCHANGED <<pc, lock, stop, parser, net, gui>>

MainStop ==
  /\ main = "stop" /\ main' = "bye"
  /\ stop' = TRUE
  /\ UNCHANGED <<pc, lock, parser, listener, net, gui>>

MainBye ==
  /\ main = "bye" /\ main' = "shutdown"
  /\ Deliver(Note("text"))
  /\ UNCHANGED <<pc, lock, car, shut, buf, gui>>

(* Mutated: the destructor relies on "Bye!" to wake the receive thread. *)
MainShutdown_Dropped ==
  /\ main = "shutdown" /\ main' = "joinSnd"
  /\ UNCHANGED <<pc, lock, car, net, gui>>

MainShutdown ==
  /\ main = "shutdown" /\ main' = "joinSnd"
  /\ shut' = TRUE
  /\ UNCHANGED <<pc, lock, car, inbox, buf, gui>>

(* Mutated: the receive thread is not waited for. *)
MainJoin_ForgetsRcv ==
  /\ \/ main = "joinSnd" /\ pc["snd"] = "exited" /\ main' = "joinUpd"
     \/ main = "joinRcv" /\ main' = "joinUpd"
     \/ main = "joinUpd" /\ pc["upd"] = "exited" /\ main' = "delete"
  /\ UNCHANGED <<pc, lock, car, net, gui>>

MainJoin ==
  /\ \/ main = "joinSnd" /\ pc["snd"] = "exited" /\ main' = "joinRcv"
     \/ main = "joinRcv" /\ pc["rcv"] = "exited" /\ main' = "joinUpd"
     \/ main = "joinUpd" /\ pc["upd"] = "exited" /\ main' = "delete"
  /\ UNCHANGED <<pc, lock, car, net, gui>>

MainDelete == MainParser("delete", "deleted", "done")

MainStep ==
  \/ MainSpawn \/ MainNull \/ MainParse \/ MainRegister
  \/ MainFirstLock \/ MainWait
  \/ MainStop \/ MainBye \/ MainShutdown \/ MainJoin \/ MainDelete

-----------------------------------------------------------------------------
(* Steps common to the three threads *)

(* The head of each loop: while (!stop).                                   *)
TestStop(t, next) ==
  /\ pc[t] \in {"start", "test"}
  /\ Goto(t, IF stop THEN "exited" ELSE next)
  /\ UNCHANGED <<main, lock, car, net, gui>>

ChildLock(t) ==
  /\ pc[t] = "wantLock"
  /\ lock = "nobody" /\ lock' = t
  /\ Goto(t, "draw")
  /\ UNCHANGED <<main, car, net, gui>>

(* Two threads insert into the same std::map.                              *)
MapRace == main = "load" /\ Crash

-----------------------------------------------------------------------------
(* receiveLoop *)

(* After the shutdown recvfrom returns no bytes: buf keeps what it held.   *)
RcvReceive ==
  /\ pc["rcv"] = "receive"
  /\ \/ /\ inbox # <<>>
        /\ buf' = Head(inbox) /\ inbox' = Tail(inbox)
     \/ inbox = <<>> /\ shut /\ UNCHANGED <<buf, inbox>>
  /\ Goto("rcv", "handle")
  /\ UNCHANGED <<main, lock, car, shut, gui>>

RcvPwm ==
  /\ pc["rcv"] = "handle" /\ buf.kind = "pwm"
  /\ pwm' = buf.level
  /\ Goto("rcv", "notify")
  /\ UNCHANGED <<main, lock, car, net, display>>

(* A null parser means the message is ignored, garbage may read as null.   *)
(* The panel's own messages are compared with the current values only.     *)
RcvCan ==
  /\ pc["rcv"] = "handle" /\ buf.kind \in {"can", "own"}
  /\ \/ /\ parser \in {"null", "garbage"}
        /\ Goto("rcv", "test")
        /\ UNCHANGED <<main, lock, car, net, gui>>
     \/ /\ parser = "ready"
        /\ Goto("rcv", IF buf.kind = "can" THEN "notify" ELSE "test")
        /\ UNCHANGED <<main, lock, car, net, gui>>
     \/ parser \in {"garbage", "empty", "deleted"} /\ Crash
     \/ MapRace

RcvText ==
  /\ pc["rcv"] = "handle" /\ buf.kind = "text"
  /\ Goto("rcv", "test")
  /\ UNCHANGED <<main, lock, car, net, gui>>

(* The loop over the listeners: find one, call it, step to the next.       *)
RcvNotify ==
  /\ pc["rcv"] = "notify"
  /\ Goto("rcv", IF listener = "registered" THEN "call" ELSE "test")
  /\ UNCHANGED <<main, lock, car, net, gui>>

RcvIterate(here, next) ==
  /\ pc["rcv"] = here
  /\ \/ Goto("rcv", next) /\ UNCHANGED <<main, lock, car, net, gui>>
     \/ listener = "removed" /\ Crash

RcvCall    == RcvIterate("call", "wantLock")
RcvAdvance == RcvIterate("advance", "test")

(* eventCarStateChanged between Fl::lock and Fl::unlock.                   *)
RcvDraw ==
  /\ pc["rcv"] = "draw"
  /\ display' = pwm
  /\ lock' = "nobody"
  /\ Goto("rcv", "advance")
  /\ UNCHANGED <<main, car, net, pwm>>

RcvStep ==
  \/ TestStop("rcv", "receive") \/ RcvReceive \/ RcvPwm \/ RcvCan \/ RcvText
  \/ RcvNotify \/ RcvCall \/ RcvDraw \/ RcvAdvance

-----------------------------------------------------------------------------
(* sendLoop: "Hello!", then once a second the CAN message 0x100; the bus   *)
(* loops both back to the panel's own socket.                              *)

SndHello ==
  /\ pc["snd"] = "start"
  /\ Deliver(Note("text"))
  /\ Goto("snd", "test")
  /\ UNCHANGED <<main, lock, car, shut, buf, gui>>

SndTest == pc["snd"] = "test" /\ TestStop("snd", "encode")

SndEncode ==
  /\ pc["snd"] = "encode"
  /\ \/ /\ parser = "ready"
        /\ Deliver(Note("own"))
        /\ Goto("snd", "test")
        /\ UNCHANGED <<main, lock, car, shut, buf, gui>>
     \/ parser # "ready" /\ Crash
     \/ MapRace

SndStep == SndHello \/ SndTest \/ SndEncode

-----------------------------------------------------------------------------
(* updateLoop: globalUpdate moves the engine and the dials under the lock. *)

(* Mutated: the update leaves the lock held. *)
UpdDraw_NoUnlock ==
  /\ pc["upd"] = "draw"
  /\ Goto("upd", "test")
  /\ UNCHANGED <<main, lock, car, net, gui>>

UpdDraw ==
  /\ pc["upd"] = "draw"
  /\ lock' = "nobody"
  /\ Goto("upd", "test")
  /\ UNCHANGED <<main, car, net, gui>>

UpdStep == TestStop("upd", "wantLock") \/ UpdDraw

-----------------------------------------------------------------------------
Next ==
  \/ MainStep \/ MainRelock \/ MainClose
  \/ RcvStep \/ SndStep \/ UpdStep
  \/ ChildLock("rcv") \/ ChildLock("upd")
  \/ \E m \in Message \ {Note("own")} : Arrive(m)

(* Threads run; who wants the FLTK lock gets it if it is released again    *)
(* and again (every holder gives it up within one pass of its loop, and    *)
(* then sleeps or waits for an event).  Nobody has to close the window.    *)
Fairness ==
  /\ WF_vars(MainStep) /\ WF_vars(RcvStep) /\ WF_vars(SndStep) /\ WF_vars(UpdStep)
  /\ SF_vars(MainRelock) /\ SF_vars(ChildLock("rcv")) /\ SF_vars(ChildLock("upd"))

Spec == Init /\ [][Next]_vars /\ Fairness

-----------------------------------------------------------------------------
(* Properties *)

(* The type invariant; the lock is held exactly by a thread that is inside *)
(* its GUI section, and by main from the moment the window closes.         *)
TypeOK ==
  /\ main \in {"spawnRcv", "spawnSnd", "spawnUpd", "nullParser", "parse", "load",
               "setup", "events", "wait", "stop", "bye", "shutdown",
               "joinSnd", "joinRcv", "joinUpd", "delete", "done", "crashed"}
  /\ pc["rcv"] \in {"unborn", "start", "test", "receive", "handle", "notify", "call",
                    "wantLock", "draw", "advance", "exited", "crashed"}
  /\ pc["snd"] \in {"unborn", "start", "test", "encode", "exited", "crashed"}
  /\ pc["upd"] \in {"unborn", "start", "test", "wantLock", "draw", "exited", "crashed"}
  /\ stop \in BOOLEAN /\ shut \in BOOLEAN
  /\ parser \in {"garbage", "null", "ready", "empty", "deleted"}
  /\ listener \in {"none", "registered", "removed"}
  /\ inbox \in Seq(Message) /\ Len(inbox) <= SocketQueue /\ buf \in Message
  /\ pwm \in Level /\ display \in Level
  /\ \A t \in {"rcv", "upd"} : lock = t <=> pc[t] = "draw"
  /\ main \in {"events", "stop", "bye", "shutdown"} => lock = "main"

Running == main \in {"setup", "events", "wait"}
Closing == ~Running /\ listener = "removed"

(* With its DBC file at hand, nothing crashes from the end of the          *)
(* constructors to the closing of the window: the parser is complete when  *)
(* the panel runs, and the unlocked maps and the listener list are then    *)
(* changed by no second thread.                                            *)
NoCrashWhileRunning == [][Running /\ parser # "empty" => ~crashed']_vars

(* The parser, which two threads use, is deleted only when both are gone.  *)
ParserOutlivesUsers ==
  parser = "deleted" => pc["rcv"] = "exited" /\ pc["snd"] = "exited"

(* A signal that arrives while a listener is registered is drawn, however  *)
(* busy the other users of the FLTK lock are, unless the panel closes.     *)
ReceivedIsDrawn ==
  \A v \in Level :
    (pc["rcv"] = "notify" /\ pwm = v /\ listener = "registered")
      ~> (display = v \/ Closing \/ crashed)

(* Closing terminates when no thread waits for the FLTK lock at that       *)
(* moment, even if "Bye!" is lost: the shutdown of the socket wakes the    *)
(* receive thread, every loop sees the flag and all joins return.          *)
CloseCompletes ==
  (main = "bye" /\ pc["upd"] # "wantLock" /\ pc["rcv"] \notin {"call", "wantLock"})
    ~> (main = "done" \/ crashed)
=============================================================================
