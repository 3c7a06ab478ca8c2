------------------------------ MODULE MCRequest ------------------------------
(* Request with the values that its configurations give to MaxFaults *)
EXTENDS Request

FewFaults == [proto \in {1, 2} |-> IF proto = 1 THEN 3 ELSE 1]
MoreFaults == [proto \in {1, 2} |-> IF proto = 1 THEN 3 ELSE 2]
=============================================================================
