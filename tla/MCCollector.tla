---------------------------- MODULE MCCollector ----------------------------
(* The collector for TLC: foreign threads and blocks are interchangeable. *)
EXTENDS Collector, TLC

SymAll == Permutations(Foreign) \cup Permutations(Blocks)
=============================================================================
