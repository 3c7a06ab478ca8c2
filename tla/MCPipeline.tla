----------------------------- MODULE MCPipeline -----------------------------
(* The pipeline for TLC: connections of both protocols. *)
EXTENDS Pipeline

Setup(proto, a, b) == [proto |-> proto, mode |-> [s \in Streams |-> IF s = 1 THEN a ELSE b]]

Responses == {Setup(1, "file", "none"), Setup(1, "write", "none"), Setup(2, "file", "file")}
=============================================================================
