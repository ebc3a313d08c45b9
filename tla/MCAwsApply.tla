----------------------------- MODULE MCAwsApply -----------------------------
(* Small instances of AwsApply for TLC. *)
EXTENDS AwsApply

CONSTANTS dynamic, other, static
=============================================================================
