--------------------------- MODULE MCSubjectIndex ---------------------------
(* SubjectIndex for TLC: x and z have the same priority, y comes first.      *)
EXTENDS SubjectIndex

CONSTANTS x, y, z

MCPriority == [id \in Ids |-> IF id = y THEN 1 ELSE 2]
=============================================================================
