--------------------------- MODULE MCRegistration ---------------------------
(* Instance: two nodes; c1 and c3 are connections of the same node.        *)
EXTENDS Registration

CONSTANTS c1, c2, c3, n1, n2

MCConns == {c1, c2, c3}
MCOwner == [c \in MCConns |-> IF c = c2 THEN n2 ELSE n1]
MCnumber == [ty \in {"MU", "SU"} |-> 2]
MCdup == [ty \in {"MU", "SU"} |-> IF ty = "MU" THEN 2 ELSE 1]
MCmod == [ty \in {"MU", "SU"} |-> IF ty = "MU" THEN 1 ELSE 0]
MCAsks == [c \in MCConns |-> CASE c = c1 -> {"MU", "SU"} [] c = c2 -> {"MU"} [] c = c3 -> {"SU"}]
MCDeployments == {<<"SU", <<n2>>>>}
=============================================================================
