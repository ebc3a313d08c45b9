------------------------------ MODULE MCWorker ------------------------------
(* A small instance of Worker for TLC. *)
EXTENDS Worker, TLC

CONSTANTS g0, g1, g2, g3

MCJob ==
    (g0 :> "start") @@ (g1 :> "metrics") @@ (g2 :> "generate") @@ (g3 :> "task")

MCConfigurations ==
    {[oneshot |-> FALSE, optimize |-> TRUE,  rds |-> FALSE, tasks |-> FALSE],
     [oneshot |-> FALSE, optimize |-> TRUE,  rds |-> TRUE,  tasks |-> FALSE],
     [oneshot |-> FALSE, optimize |-> FALSE, rds |-> FALSE, tasks |-> TRUE],
     [oneshot |-> TRUE,  optimize |-> TRUE,  rds |-> FALSE, tasks |-> FALSE]}
=============================================================================
