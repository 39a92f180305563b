---------------------------- MODULE NodeSequence ----------------------------
(***************************************************************************)
(* What common::LinkedList promises: each list is a sequence of nodes, a   *)
(* node is in at most one list, and a call that would break this is        *)
(* refused by an assertion, which ends the program.                        *)
(***************************************************************************)
EXTENDS Sequences, SequencesExt

CONSTANTS List, Node

VARIABLES content, aborted

Init == content = [l \in List |-> <<>>] /\ aborted = FALSE

Has(l, n) == n \in ToSet(content[l])
Elsewhere(l, n) == \E k \in List \ {l} : Has(k, n)

Becomes(l, s) == content' = [content EXCEPT ![l] = s] /\ aborted' = FALSE
Abort == aborted' = TRUE /\ UNCHANGED content

Push(l, n) ==
  /\ ~Has(l, n)
  /\ IF Elsewhere(l, n) THEN Abort
     ELSE Becomes(l, <<n>> \o content[l]) \/ Becomes(l, Append(content[l], n))

TakeOut(l, n) ==
  IF Has(l, n)
  THEN \E i \in DOMAIN content[l] : content[l][i] = n /\ Becomes(l, RemoveAt(content[l], i))
  ELSE Abort

PopFront(l) == content[l] # <<>> /\ Becomes(l, Tail(content[l]))
PopBack(l)  == Len(content[l]) > 1 /\ Becomes(l, Front(content[l]))
Clear(l)    == Becomes(l, <<>>)

(* The last node of a list is not taken out by pop_back: an assertion      *)
(* fails, because the node has already left the list that is then cleared. *)
LonePopBack(l) == Len(content[l]) = 1 /\ Abort

Next ==
  /\ ~aborted
  /\ \E l \in List :
       \/ PopFront(l) \/ PopBack(l) \/ Clear(l) \/ LonePopBack(l)
       \/ \E n \in Node : Push(l, n) \/ TakeOut(l, n)

Spec == Init /\ [][Next]_<<content, aborted>>
=============================================================================
