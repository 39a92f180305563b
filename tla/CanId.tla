------------------------------- MODULE CanId -------------------------------
(***************************************************************************)
(* CAN identifiers as libcandbc/messageHash.c hashes and compares them: a  *)
(* word of the flag for the extended format, priority, parameter group     *)
(* number and source address.  A standard identifier has 11 bits, so three *)
(* of them are in pgn.                                                     *)
(***************************************************************************)
EXTENDS Naturals

Id == [ext : BOOLEAN, pri : 0..7, pgn : 0..(2^18 - 1), sa : 0..255]

Fits11(k) == k.pri = 0 /\ k.pgn < 8

(* Mutated: the source address is masked for no identifier. *)
hash_from_canid_WithSource(k) == 256 * k.pgn + k.sa

hash_from_canid(k) == IF k.ext \/ ~Fits11(k) THEN 256 * k.pgn ELSE 256 * k.pgn + k.sa

canids_equal(k1, k2) == IF k1.ext \/ k2.ext THEN k1.pgn = k2.pgn ELSE k1 = k2
=============================================================================
