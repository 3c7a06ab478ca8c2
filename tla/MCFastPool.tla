----------------------------- MODULE MCFastPool -----------------------------
(* The FastCGI pool for TLC: streams and apps are interchangeable. *)
EXTENDS FastPool

SymStreamsApps == Permutations(Streams) \cup Permutations(Apps)
=============================================================================
