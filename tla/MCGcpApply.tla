----------------------------- MODULE MCGcpApply -----------------------------
(* Small instances of GcpApply for TLC. *)
EXTENDS GcpApply

CONSTANTS p1, p2

\* One variable has the recommended value by default, the other has not.
MCDefault == [p \in {p1, p2} |-> IF p = p1 THEN "old" ELSE "wanted"]
=============================================================================
