---------------------------- MODULE MCAzureApply ----------------------------
(* Small instances of AzureApply for TLC. *)
EXTENDS AzureApply

CONSTANTS dynamic, static, skipped
=============================================================================
