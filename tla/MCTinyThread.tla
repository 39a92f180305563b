---------------------------- MODULE MCTinyThread ----------------------------
EXTENDS TinyThread, TLC

(* Each platform and each class of mutex once. *)
EachOnce ==
  {<<"posix", "recursive_mutex">>, <<"posix", "fast_mutex">>, <<"win32", "mutex">>}

(* Threads and handles are interchangeable in the specification and in its *)
(* invariants.                                                             *)
Symmetry == Permutations(Threads) \cup Permutations(Handles)
=============================================================================
