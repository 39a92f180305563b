---------------------------- MODULE BoundedFifo ----------------------------
(***************************************************************************)
(* What a receive path promises its application, whatever threads, rings   *)
(* and locks it is made of: an accepted message is handed over exactly     *)
(* once, in the order of acceptance, and at most Capacity accepted         *)
(* messages are waiting.                                                   *)
(***************************************************************************)
EXTENDS Naturals, Sequences

CONSTANTS
  Message,   (* the messages                                       *)
  None,      (* "nothing handed over yet"                          *)
  Capacity   (* how many accepted messages may wait                *)

VARIABLES
  waiting,   (* accepted, not yet handed over, oldest first        *)
  handed     (* the message last handed to the application         *)

vars == <<waiting, handed>>

Init ==
  /\ waiting = <<>>
  /\ handed = None

Accept(m) ==
  /\ Len(waiting) < Capacity
  /\ waiting' = Append(waiting, m)
  /\ UNCHANGED handed

HandOver ==
  /\ waiting # <<>>
  /\ handed' = Head(waiting)
  /\ waiting' = Tail(waiting)

Next == HandOver \/ \E m \in Message : Accept(m)

Spec == Init /\ [][Next]_vars
=============================================================================
