----------------------------- MODULE MessageMap -----------------------------
(***************************************************************************)
(* What a message hash promises (libcandbc/hashtable/hashtable.h): a       *)
(* collection of messages under their ids.  An insertion may fail for lack *)
(* of memory and then changes nothing; where several messages match an id, *)
(* it is not said which one a search returns.                              *)
(***************************************************************************)

CONSTANTS Key, Value, Match(_, _)

VARIABLES
  content,  (* pairs of an id and the message inserted under it            *)
  call,     (* the last call by id, and its id                             *)
  result,   (* what the last call returned                                 *)
  state     (* "open", "destroyed" or "crashed"                            *)

Init == content = {} /\ call = <<"none">> /\ result = "none" /\ state = "open"

Insert(k, v) ==
  /\ state = "open" /\ state' = "open"
  /\ call' = <<"insert", k>>
  /\ \/ content' = content \cup {<<k, v>>} /\ result' = "inserted"
     \/ content' = content /\ result' = "failed"

Found(k) == {p \in content : Match(k, p[1])}

Search(k) ==
  /\ state = "open"
  /\ call' = <<"search", k>>
  /\ IF Found(k) = {} THEN result' = "null" ELSE \E p \in Found(k) : result' = p[2]
  /\ UNCHANGED <<content, state>>

Remove(k) ==
  /\ state = "open"
  /\ call' = <<"remove", k>>
  /\ \/ Found(k) = {} /\ result' = "null" /\ UNCHANGED content
     \/ \E p \in Found(k) : result' = p[2] /\ content' = content \ {p}
  /\ UNCHANGED state

RemoveCurrent ==
  /\ state = "open"
  /\ \E p \in content : content' = content \ {p}
  /\ UNCHANGED <<call, result, state>>

Destroy == state = "open" /\ state' = "destroyed" /\ content' = {} /\ UNCHANGED <<call, result>>
Crash   == state = "open" /\ state' = "crashed" /\ UNCHANGED <<content, call, result>>

Next ==
  \/ \E k \in Key : Search(k) \/ Remove(k) \/ \E v \in Value : Insert(k, v)
  \/ RemoveCurrent \/ Destroy \/ Crash

Spec == Init /\ [][Next]_<<content, call, result, state>>
=============================================================================
