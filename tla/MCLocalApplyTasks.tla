-------------------------- MODULE MCLocalApplyTasks --------------------------
(* Small instances of LocalApplyTasks for TLC. *)
EXTENDS LocalApplyTasks

CONSTANTS task, operator, old, new, bad, json, none

\* A configuration in force, its successor, and one the service rejects.
MCConfigs   == {old, new, bad}
MCStartable == {old, new}
=============================================================================
