----------------------------- MODULE HashTable -----------------------------
(***************************************************************************)
(* The chained hash table of libcandbc/hashtable with its iterator, as the *)
(* message hash of libcandbc uses it: messages inserted once each, looked  *)
(* up by the id of a frame, walked through and freed.                      *)
(*                                                                         *)
(* An entry is known by its value, so a value stands for the pointer to    *)
(* its entry.  Malloc may fail at any time.                                *)
(***************************************************************************)
EXTENDS Naturals, Sequences, FiniteSets, SequencesExt

CONSTANTS
  Key,        (* the ids that frames and messages may have                 *)
  Stored,     (* those that messages of the DBC file have                  *)
  Value,      (* the messages                                              *)
  HashOf,     (* hash(h, k)                                                *)
  Same,       (* the pairs that eqfn calls equal                           *)
  Primes      (* the table of sizes                                        *)

ASSUME KeyAssumption == Stored \subseteq Key /\ HashOf \in [Key -> Nat] /\ Same \in SUBSET (Key \X Key)
ASSUME PrimesAssumption ==
  /\ Primes \in Seq(Nat \ {0}) /\ Len(Primes) > 0
  /\ \A i, j \in DOMAIN Primes : i < j => Primes[i] < Primes[j]
ASSUME ValueAssumption ==
  IsFiniteSet(Value) /\ {"none", "null", "inserted", "failed"} \cap Value = {}

VARIABLES
  table,       (* bucket -> chain of entries                               *)
  entrycount, primeindex, loadlimit,
  itr,         (* the iterator: e, parent and index                        *)
  visited,     (* ghost: the entries the iterator has stood on             *)
  goal,        (* ghost: the entries it started with                       *)
  call,        (* history: the last call by key, and its key               *)
  result, state

ghost == <<visited, goal>>
sizes == <<primeindex, loadlimit>>
vars  == <<table, entrycount, primeindex, loadlimit, itr, visited, goal, call, result, state>>

Entry == [k : Key, v : Value, h : Nat]
tablelength == Primes[primeindex]
NoItr == [e |-> "none", parent |-> "none", index |-> 0]

indexFor(length, hashvalue) == hashvalue % length
LoadLimit(size) == (65 * size + 99) \div 100

InTable == UNION {{e.v : e \in ToSet(table[b])} : b \in DOMAIN table}
Match(k1, k2) == HashOf[k1] = HashOf[k2] /\ <<k1, k2>> \in Same

(* The place in its chain of the entry with value v, 0 for NULL.           *)
Place(chain, v) == SelectInSeq(chain, LAMBDA e : e.v = v)
NextOf(chain, v) == IF Place(chain, v) < Len(chain) THEN chain[Place(chain, v) + 1].v ELSE "none"

Init ==
  /\ primeindex = 1 /\ loadlimit = LoadLimit(Primes[1])
  /\ table = [b \in 0..(Primes[1] - 1) |-> <<>>]
  /\ entrycount = 0
  /\ itr = NoItr /\ visited = <<>> /\ goal = {}
  /\ call = <<"none">> /\ result = "none" /\ state = "open"

-----------------------------------------------------------------------------
(* A new entry becomes the head of its chain. *)
Link(t, e) ==
  LET b == indexFor(Cardinality(DOMAIN t), e.h) IN [t EXCEPT ![b] = <<e>> \o @]

(* hashtable_expand moves the entries one by one to the head of their new  *)
(* chains, so that the order in a chain is reversed.                       *)
Moved(t, chain) ==
  LET moved[i \in 0..Len(chain)] == IF i = 0 THEN t ELSE Link(moved[i - 1], chain[i])
  IN  moved[Len(chain)]

(* Mutated: the entries stay in the buckets of the old size. *)
Rehash_OldIndex(t, newsize) ==
  [b \in 0..(newsize - 1) |-> IF b \in DOMAIN t THEN Reverse(t[b]) ELSE <<>>]

Rehash(t, newsize) ==
  LET filled[b \in 0..Cardinality(DOMAIN t)] ==
        IF b = 0 THEN [c \in 0..(newsize - 1) |-> <<>>] ELSE Moved(filled[b - 1], t[b - 1])
  IN  filled[Cardinality(DOMAIN t)]

(* Insertion past the load limit expands the table first, unless memory    *)
(* for the larger array is refused.  When malloc refuses it and realloc    *)
(* does not, memset gets an element of the new array for an address.       *)
CanExpand == entrycount + 1 > loadlimit /\ primeindex < Len(Primes)

Resize ==
  \/ CanExpand /\ primeindex' = primeindex + 1 /\ loadlimit' = LoadLimit(Primes[primeindex + 1])
  \/ UNCHANGED sizes

Insert(k, v, entryAllocated) ==
  /\ state = "open" /\ itr = NoItr /\ v \notin InTable
  /\ call' = <<"insert", k>>
  /\ Resize
  /\ LET t == IF primeindex' = primeindex THEN table ELSE Rehash(table, Primes[primeindex'])
     IN  IF entryAllocated
         THEN /\ table' = Link(t, [k |-> k, v |-> v, h |-> HashOf[k]])
              /\ entrycount' = entrycount + 1 /\ result' = "inserted"
         ELSE table' = t /\ UNCHANGED entrycount /\ result' = "failed"
  /\ UNCHANGED <<itr, ghost, state>>

InsertPlanB(k, v) ==
  /\ state = "open" /\ itr = NoItr /\ v \notin InTable
  /\ CanExpand
  /\ state' = "crashed"
  /\ UNCHANGED <<table, entrycount, sizes, itr, ghost, call, result>>

Chain(k) == indexFor(tablelength, HashOf[k])
FirstMatch(k) == SelectInSeq(table[Chain(k)], LAMBDA e : Match(k, e.k))

Search(k) ==
  /\ state = "open"
  /\ call' = <<"search", k>>
  /\ result' = IF FirstMatch(k) = 0 THEN "null" ELSE table[Chain(k)][FirstMatch(k)].v
  /\ UNCHANGED <<table, entrycount, sizes, itr, ghost, state>>

RemoveKey(k) ==
  /\ state = "open" /\ itr = NoItr
  /\ call' = <<"remove", k>>
  /\ IF FirstMatch(k) = 0 THEN result' = "null" /\ UNCHANGED <<table, entrycount>>
     ELSE /\ result' = table[Chain(k)][FirstMatch(k)].v
          /\ table' = [table EXCEPT ![Chain(k)] = RemoveAt(@, FirstMatch(k))]
          /\ entrycount' = entrycount - 1
  /\ UNCHANGED <<sizes, itr, ghost, state>>

-----------------------------------------------------------------------------
(* The iterator.  Its users do not insert or remove by key meanwhile.      *)

FirstFrom(t, b) ==
  LET full == {j \in b..(tablelength - 1) : t[j] # <<>>}
  IN  IF full = {} THEN [e |-> "none", parent |-> "none", index |-> tablelength]
      ELSE LET j == CHOOSE i \in full : \A l \in full : i <= l
           IN  [e |-> t[j][1].v, parent |-> "none", index |-> j]

IterStart ==
  /\ state = "open" /\ itr = NoItr /\ entrycount > 0
  /\ itr' = FirstFrom(table, 0)
  /\ visited' = <<itr'.e>> /\ goal' = InTable
  /\ UNCHANGED <<table, entrycount, sizes, call, result, state>>

(* Mutated: in the middle of a chain the parent is not moved on. *)
Advanced_KeepsParent(i, t, chain) ==
  LET next == NextOf(chain, i.e)
  IN  IF next # "none" THEN [i EXCEPT !.e = next] ELSE FirstFrom(t, i.index + 1)

(* Mutated: the bucket after the current one is skipped. *)
Advanced_SkipsBucket(i, t, chain) ==
  LET next == NextOf(chain, i.e)
  IN  IF next # "none" THEN [i EXCEPT !.e = next, !.parent = i.e] ELSE FirstFrom(t, i.index + 2)

(* hashtable_iterator_advance; the chain is the one e was in, because      *)
(* remove advances from an entry that is no longer in the table.           *)
Advanced(i, t, chain) ==
  LET next == NextOf(chain, i.e)
  IN  IF next # "none" THEN [i EXCEPT !.e = next, !.parent = i.e] ELSE FirstFrom(t, i.index + 1)

Visit(e) == visited' = IF e = "none" THEN visited ELSE Append(visited, e)

IterAdvance ==
  /\ state = "open" /\ itr.e # "none"
  /\ itr' = Advanced(itr, table, table[itr.index])
  /\ Visit(itr'.e)
  /\ UNCHANGED <<table, entrycount, sizes, goal, call, result, state>>

After(chain, v) == SubSeq(chain, Place(chain, v) + 1, Len(chain))

IterRemove ==
  /\ state = "open" /\ itr.e # "none"
  /\ LET chain == table[itr.index]
         rest  == After(chain, itr.e)
         i     == Advanced(itr, table, chain)
     IN  /\ table' = [table EXCEPT ![itr.index] =
                        IF itr.parent = "none" THEN rest
                        ELSE SubSeq(chain, 1, Place(chain, itr.parent)) \o rest]
         /\ itr' = IF i.parent = itr.e THEN [i EXCEPT !.parent = itr.parent] ELSE i
  /\ entrycount' = entrycount - 1
  /\ Visit(itr'.e)
  /\ UNCHANGED <<sizes, goal, call, result, state>>

(* free(itr), at the end of the walk.                                      *)
IterFree ==
  /\ state = "open" /\ itr # NoItr /\ itr.e = "none"
  /\ itr' = NoItr /\ visited' = <<>> /\ goal' = {}
  /\ UNCHANGED <<table, entrycount, sizes, call, result, state>>

Destroy ==
  /\ state = "open" /\ itr = NoItr
  /\ state' = "destroyed" /\ table' = [b \in DOMAIN table |-> <<>>]
  /\ UNCHANGED <<entrycount, sizes, itr, ghost, call, result>>

Next ==
  \/ \E k \in Stored, v \in Value : InsertPlanB(k, v) \/ \E a \in BOOLEAN : Insert(k, v, a)
  \/ \E k \in Key : Search(k) \/ RemoveKey(k)
  \/ IterStart \/ IterAdvance \/ IterRemove \/ IterFree \/ Destroy

Spec == Init /\ [][Next]_vars

-----------------------------------------------------------------------------
(* Properties *)

(* The type invariant.                                                     *)
TypeOK ==
  /\ primeindex \in DOMAIN Primes /\ loadlimit = LoadLimit(tablelength)
  /\ table \in [0..(tablelength - 1) -> Seq(Entry)]
  /\ entrycount \in 0..Cardinality(Value)
  /\ itr \in [e : Value \cup {"none"}, parent : Value \cup {"none"}, index : 0..tablelength]
  /\ visited \in Seq(Value) /\ goal \subseteq Value
  /\ call \in {<<"none">>} \cup ({"insert", "search", "remove"} \X Key)
  /\ result \in Value \cup {"none", "null", "inserted", "failed"}
  /\ state \in {"open", "destroyed", "crashed"}

(* Every entry is in the chain that a search for its key looks through, is *)
(* in one place only, and is counted: across expansions, failed            *)
(* allocations, removals by key and by iterator.                           *)
WellPlaced ==
  /\ TypeOK
  /\ \A b \in DOMAIN table : \A i \in DOMAIN table[b] :
       /\ table[b][i].h = HashOf[table[b][i].k] /\ b = indexFor(tablelength, table[b][i].h)
       /\ \A c \in DOMAIN table : \A j \in DOMAIN table[c] :
            table[c][j].v = table[b][i].v => b = c /\ i = j
  /\ state = "open" => entrycount = Cardinality(InTable)

(* A walk stands on every entry exactly once, whichever of them it removes *)
(* on the way: messageHash_free frees no message twice and forgets none.   *)
WalkIsComplete ==
  /\ IsInjective(visited) /\ ToSet(visited) \subseteq goal
  /\ itr # NoItr /\ itr.e = "none" => ToSet(visited) = goal

(* The table implements the collection that hashtable.h promises.          *)
Pairs == UNION {{<<e.k, e.v>> : e \in ToSet(table[b])} : b \in DOMAIN table}
Map == INSTANCE MessageMap WITH content <- Pairs
RefinesMap == Map!Spec
=============================================================================
