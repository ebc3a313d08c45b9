-------------------------- MODULE MCMysqlConfigurer --------------------------
(* Small instances of MysqlConfigurer for TLC. *)
EXTENDS MysqlConfigurer

CONSTANTS p1, old, new, bad, json, none

\* A configuration in force, its successor, and one the service rejects.
MCConfigs   == {old, new, bad}
MCStartable == {old, new}

\* One check every operation makes, one that rollback leaves out.
MCFailingChecks == {1, 11}
=============================================================================
