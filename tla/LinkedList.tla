----------------------------- MODULE LinkedList -----------------------------
(***************************************************************************)
(* The intrusive list of ecu/common/LinkedList.h, in which MainSystem      *)
(* keeps its software components, and the loop of MainSystem::swcCall over *)
(* it.  Links and owner are members of the nodes, so that a node that has  *)
(* left its list keeps its m_Next.                                         *)
(*                                                                         *)
(* insert() is left out: it names a type that does not exist and cannot be *)
(* instantiated.  A failing assertion ends the program.                    *)
(***************************************************************************)
EXTENDS Naturals, Sequences, FiniteSets, SequencesExt

CONSTANTS Node, List, None

ASSUME NodeAssumption == IsFiniteSet(Node) /\ None \notin Node \cup List

VARIABLES
  heap,      (* m_First and m_Last of each list, m_Next and m_List of each node *)
  aborted,
  phase,     (* the loop: "off", "at" an iterator, "in" a call, "out" of the list *)
  pass, itr, (* the list that is walked through, and the iterator               *)
  visited    (* ghost: the nodes called in this pass                            *)

loop == <<phase, pass, itr, visited>>
vars == <<heap, aborted, phase, pass, itr, visited>>

Init ==
  /\ heap = [first |-> [l \in List |-> None], last |-> [l \in List |-> None],
             next |-> [n \in Node |-> None], owner |-> [n \in Node |-> None]]
  /\ aborted = FALSE
  /\ phase = "off" /\ pass = None /\ itr = None /\ visited = <<>>

(* The nodes from m_First on, along m_Next.                                *)
Walk(h, l) ==
  LET after[k \in 0..Cardinality(Node)] ==
        IF k = 0 THEN h.first[l]
        ELSE IF after[k - 1] = None THEN None ELSE h.next[after[k - 1]]
      length == Cardinality({k \in 0..(Cardinality(Node) - 1) : after[k] # None})
  IN  [i \in 1..length |-> after[i - 1]]

contains_node(l, n) == n \in ToSet(Walk(heap, l))

findPredecessor(h, l, n) ==
  LET w == Walk(h, l) IN w[CHOOSE i \in DOMAIN w : h.next[w[i]] = n]

-----------------------------------------------------------------------------
(* The operations on the links.                                            *)

(* Mutated: a node that leaves its list forgets its successor. *)
removeFromList_Cleared(h, n) == [h EXCEPT !.owner[n] = None, !.next[n] = None]

removeFromList(h, n) == [h EXCEPT !.owner[n] = None]

Linked(h, l, n) == [h EXCEPT !.owner[n] = l]

pushed_front(h, l, n) ==
  [Linked(h, l, n) EXCEPT !.first[l] = n,
                          !.next[n] = h.first[l],
                          !.last[l] = IF @ = None THEN n ELSE @]

(* Mutated: the new last node keeps the link of its former place. *)
pushed_back_StaleLink(h, l, n) ==
  LET g == Linked(h, l, n)
      k == IF h.first[l] = None THEN [g EXCEPT !.first[l] = n]
                                ELSE [g EXCEPT !.next[h.last[l]] = n]
  IN  [k EXCEPT !.last[l] = n]

pushed_back(h, l, n) ==
  LET g == Linked(h, l, n)
      k == IF h.first[l] = None THEN [g EXCEPT !.first[l] = n]
                                ELSE [g EXCEPT !.next[h.last[l]] = n]
  IN  [k EXCEPT !.last[l] = n, !.next[n] = None]

popped_front(h, l) ==
  LET n == h.first[l]
  IN  IF n = None THEN h
      ELSE [removeFromList(h, n) EXCEPT
              !.first[l] = h.next[n], !.last[l] = IF h.next[n] = None THEN None ELSE @]

popped_back(h, l) ==
  LET p == findPredecessor(h, l, h.last[l])
  IN  [removeFromList(h, h.last[l]) EXCEPT !.last[l] = p, !.next[p] = None]

(* Mutated: the last pointer stays at an erased last node. *)
unlinked_LastKept(h, l, n) ==
  LET p == findPredecessor(h, l, n)
  IN  [removeFromList(h, n) EXCEPT !.next[p] = h.next[n]]

(* erase of a node that is not the first, and remove of one in the middle. *)
unlinked(h, l, n) ==
  LET p == findPredecessor(h, l, n)
  IN  [removeFromList(h, n) EXCEPT
         !.last[l] = IF h.next[p] = @ THEN p ELSE @, !.next[p] = h.next[n]]

-----------------------------------------------------------------------------
(* The calls.  Only remove is called from within the loop.                 *)

Becomes(h) == heap' = h /\ UNCHANGED aborted
Abort      == aborted' = TRUE /\ UNCHANGED heap

Outside == ~aborted /\ phase = "off" /\ UNCHANGED loop

(* push_front and push_back refuse a node of the list; the assertion of    *)
(* addToList refuses a node of another one.                                *)
Push(l, n, h) ==
  /\ Outside /\ ~contains_node(l, n)
  /\ IF heap.owner[n] # None THEN Abort ELSE Becomes(h)

PushFront(l, n) == Push(l, n, pushed_front(heap, l, n))
PushBack(l, n)  == Push(l, n, pushed_back(heap, l, n))

PopFront(l) == Outside /\ Becomes(popped_front(heap, l))

(* With one node the list is cleared although the node has left it.        *)
PopBack(l) ==
  /\ Outside
  /\ \/ heap.last[l] = None /\ Becomes(heap)
     \/ heap.last[l] # None /\ heap.first[l] = heap.last[l] /\ Abort
     \/ heap.first[l] # heap.last[l] /\ Becomes(popped_back(heap, l))

(* pop_front until the list is empty.                                      *)
Cleared(h, l, count) ==
  LET cleared[k \in 0..count] == IF k = 0 THEN h ELSE popped_front(cleared[k - 1], l)
  IN  cleared[count]

Clear(l) == Outside /\ Becomes(Cleared(heap, l, Len(Walk(heap, l))))

(* An iterator other than end(), which has been obtained from this list.   *)
Erase(l, n) ==
  /\ Outside /\ contains_node(l, n)
  /\ Becomes(IF n = heap.first[l] THEN popped_front(heap, l) ELSE unlinked(heap, l, n))

Removed(l, n) ==
  IF n = heap.first[l] THEN Becomes(popped_front(heap, l))
  ELSE IF n = heap.last[l] THEN Becomes(popped_back(heap, l))
  ELSE IF heap.owner[n] # l THEN Abort
  ELSE Becomes(unlinked(heap, l, n))

RemoveValue(l, n) == Outside /\ Removed(l, n)

-----------------------------------------------------------------------------
(* swcCall: for each node, a virtual function is called.  In it a component*)
(* may register new components, take out others, and at last itself.  (One *)
(* that took out itself first, and then its successor, would leave the     *)
(* iterator on a link into the removed node.)                              *)

Begin(l) ==
  /\ ~aborted /\ phase = "off"
  /\ phase' = "at" /\ pass' = l /\ itr' = heap.first[l] /\ visited' = <<>>
  /\ UNCHANGED <<heap, aborted>>

Call ==
  /\ phase = "at" /\ itr # None
  /\ phase' = "in" /\ visited' = Append(visited, itr)
  /\ UNCHANGED <<heap, aborted, pass, itr>>

InsertSwc(n) ==
  /\ phase = "in" /\ heap.owner[n] = None /\ n \notin ToSet(visited)
  /\ Becomes(pushed_back(heap, pass, n))
  /\ UNCHANGED loop

RemoveSwc(n) ==
  /\ phase = "in" /\ contains_node(pass, n)
  /\ Removed(pass, n)
  /\ phase' = IF n = itr THEN "out" ELSE "in"
  /\ UNCHANGED <<pass, itr, visited>>

Advance ==
  /\ phase \in {"in", "out"}
  /\ phase' = "at" /\ itr' = heap.next[itr]
  /\ UNCHANGED <<heap, aborted, pass, visited>>

Finish ==
  /\ phase = "at" /\ itr = None
  /\ phase' = "off" /\ pass' = None /\ visited' = <<>>
  /\ UNCHANGED <<heap, aborted, itr>>

Next ==
  \/ \E l \in List :
       \/ PopFront(l) \/ PopBack(l) \/ Clear(l) \/ Begin(l)
       \/ \E n \in Node : PushFront(l, n) \/ PushBack(l, n) \/ Erase(l, n) \/ RemoveValue(l, n)
  \/ Call \/ Advance \/ Finish \/ \E n \in Node : InsertSwc(n) \/ RemoveSwc(n)

Spec == Init /\ [][Next]_vars

-----------------------------------------------------------------------------
(* Properties *)

(* The type invariant.                                                     *)
TypeOK ==
  /\ heap \in [first : [List -> Node \cup {None}], last : [List -> Node \cup {None}],
               next : [Node -> Node \cup {None}], owner : [Node -> List \cup {None}]]
  /\ \A l \in List : heap.first[l] = None <=> heap.last[l] = None
  /\ aborted \in BOOLEAN /\ phase \in {"off", "at", "in", "out"}
  /\ pass \in List \cup {None} /\ itr \in Node \cup {None} /\ visited \in Seq(Node)

(* The links agree with the owners: a walk from m_First ends at m_Last and *)
(* passes exactly the nodes that say they are in the list, each once --    *)
(* whatever stale links nodes brought along from their former places.      *)
WellFormed ==
  /\ TypeOK
  /\ \A l \in List :
       LET w == Walk(heap, l)
       IN  /\ IsInjective(w)
           /\ ToSet(w) = {n \in Node : heap.owner[n] = l}
           /\ w # <<>> => w[Len(w)] = heap.last[l] /\ heap.next[heap.last[l]] = None

(* A pass of swcCall calls the components in the order of the list, each   *)
(* that stays in it exactly once and none after it was taken out, although *)
(* the components called may add components and remove themselves or others.*)
InOrder(s, w) ==
  \A a, b \in DOMAIN s, i, j \in DOMAIN w : s[a] = w[i] /\ s[b] = w[j] /\ a < b => i < j

EachIsCalled ==
  /\ phase = "at" /\ itr # None => heap.owner[itr] = pass /\ itr \notin ToSet(visited)
  /\ phase = "at" /\ itr = None =>
       /\ ToSet(Walk(heap, pass)) \subseteq ToSet(visited)
       /\ InOrder(visited, Walk(heap, pass))

(* The list implements sequences of nodes.                                 *)
Sequence == INSTANCE NodeSequence WITH content <- [l \in List |-> Walk(heap, l)]
RefinesSequence == Sequence!Spec
=============================================================================
