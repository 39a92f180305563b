---------------------------- MODULE MCHashTable ----------------------------
(* A small message hash: two standard messages and a J1939 one are stored, *)
(* frames with three more ids are looked up.  hash() mixes the bits of     *)
(* hash_from_canid before it is reduced to a bucket; here the hash is used *)
(* as it is.  The ids are such that chains of several keys occur in both   *)
(* sizes of the table.                                                     *)
EXTENDS HashTable, CanId, TLC

Std(n)          == [ext |-> FALSE, pri |-> 0, pgn |-> n \div 256, sa |-> n % 256]
J1939(p, g, sa) == [ext |-> TRUE, pri |-> p, pgn |-> g, sa |-> sa]

MCStored == {Std(256), Std(257), J1939(6, 131, 0)}
MCKey    == MCStored \cup {Std(264), J1939(3, 131, 33), J1939(6, 1, 5)}
MCHashOf == [k \in MCKey |-> hash_from_canid(k)]
MCSame   == {p \in MCKey \X MCKey : canids_equal(p[1], p[2])}
MCPrimes == <<2, 5>>
MessagesAlike == Permutations(Value)

(* The frames a message of the DBC file is for: those of its id, and the   *)
(* J1939 frames of its parameter group from any source.                    *)
IsFor(f, k) == f = k \/ (f.ext /\ k.ext /\ f.pgn = k.pgn)

(* A frame that a stored message is for is decoded, whatever its priority  *)
(* and source and wherever expansions and removals have put the entry, and *)
(* it is decoded with a message that is for it.  Only a standard id that   *)
(* ends in a zero byte (0x100, driving_controls, is one) may be taken for  *)
(* a parameter group.                                                      *)
FoundByGroup ==
  [][\A k \in Key : Search(k) =>
       /\ (\E p \in Pairs : IsFor(p[1], k)) => result' \in Value
       /\ result' \in Value =>
            \E f \in Stored :
              /\ <<f, result'>> \in Pairs
              /\ \/ IsFor(f, k)
                 \/ /\ f.pgn = k.pgn /\ f.ext # k.ext
                    /\ ~ f.ext => f.sa = 0
                    /\ ~ k.ext => k.sa = 0]_vars
=============================================================================
