----------------------------- MODULE AzureApply -----------------------------
(***************************************************************************)
(* tasks/task_apply_azure.go: ApplyConfAzureMySQL.  It compares the        *)
(* recommendation with the variables and with the configurations of the    *)
(* server, updates those that differ in one batch, and restarts the server *)
(* (task type 5) or says that a restart is required (task type 4).         *)
(***************************************************************************)
CONSTANTS
    Params,     \* the variables of the database
    Static,     \* those that take effect at a restart
    Skipped,    \* those that Azure does not have, or not for writing
    Tuned,      \* those that an administrator may modify
    Alike       \* the values that the comparison takes for the recommended one

ASSUME ParamsAssumption ==
    /\ Static \subseteq Params
    /\ Skipped \subseteq Params
    /\ Tuned \subseteq Params \ Skipped

ASSUME AlikeAssumption == "wanted" \in Alike /\ "old" \notin Alike

VARIABLES
    conf, running,      \* the configurations of the server; the values in force
    pending,            \* isConfigPendingRestart
    operation, target,  \* the operation on the server, and what it updates
    pc,
    restart,            \* the parameter of the call
    seen,               \* metrics.DB.Conf.Variables: those that compare equal
    listed, listedPending, \* azureConfigurations
    asked,              \* the keys of recommendedVars
    exit,               \* the exit code; the status is 1 for 0, 4 for others
    touched,            \* history: modified by others, see Collect
    restarted           \* history: restarted by others since List

cloudVars == <<conf, running, pending, operation, target>>
agentVars == <<pc, restart, seen, listed, listedPending, asked, exit>>
vars      == <<cloudVars, agentVars, touched, restarted>>

\* What the variable had, the recommendation, other ways to write it, and
\* numbers that differ from it by less than the comparison can tell.
Values == {"old"} \cup Alike

\* azureMySQLConfigValuesEqual, given the recommendation.
Equal(value) == value \in Alike

Active == operation \in {"update", "restart"}

TypeOK ==
    /\ conf \in [Params -> Values]
    /\ running \in [Params -> Values]
    /\ pending \subseteq Static
    /\ operation \in {"none", "update", "restart", "done", "failed"}
    /\ target \subseteq Params
    /\ pc \in {"idle", "collect", "server", "list", "download", "update", "updating",
               "restart", "restarting", "report"}
    /\ restart \in BOOLEAN
    /\ seen \subseteq Params
    /\ listed \in [Params -> Values]
    /\ listedPending \subseteq Params
    /\ asked \subseteq Params
    /\ exit \in {0, 1, 8, 9, 10}
    /\ touched \subseteq Params
    /\ restarted \in BOOLEAN

Init ==
    /\ conf \in [Params -> Values]
    /\ running = conf
    /\ pending = {}
    /\ operation = "none"
    /\ target = {}
    /\ pc = "idle"
    /\ restart = FALSE
    /\ seen = {}
    /\ listed = [p \in Params |-> "old"]
    /\ listedPending = {}
    /\ asked = {}
    /\ exit = 0
    /\ touched = {}
    /\ restarted = FALSE

-----------------------------------------------------------------------------

Goto(label) == pc' = label

\* A mutant of Return, for the check that TypeOK bites: the status is returned
\* for the exit code.
ReturnSwapped(c) == exit' = (IF c = 0 THEN 1 ELSE 4) /\ Goto("report")

Return(c) == exit' = c /\ Goto("report")

\* azureMySQLTaskErrorCode, whatever the message says.
ReturnError == Return(8) \/ Return(9)

\* What is neither in force nor listed as recommended is updated.
Updates == {p \in asked \ (Skipped \cup seen) : ~Equal(listed[p])}

\* What is listed as recommended, but not in force, waits for a restart.
Waiting ==
    {p \in asked \ (Skipped \cup seen) : Equal(listed[p]) /\ p \in listedPending}

\* Mutants of the definitions below, for the checks that the properties bite:
\* what waits already is forgotten; every update requires a restart; the task
\* goes on before the update is done; it never sees the end of the restart.
WaitingForgotten == Updates \cap Static # {}

AnyUpdate == Updates \cup Waiting # {}

UpdateBegun ==
    /\ pc = "updating"
    /\ Goto("restart")
    /\ UNCHANGED <<cloudVars, restart, seen, listed, listedPending, asked, exit,
                   touched, restarted>>

RestartUnseen == pc = "restarting" /\ operation = "none" /\ UNCHANGED vars

-----------------------------------------------------------------------------

RestartRequired == Updates \cap Static # {} \/ Waiting # {}

\* Type 4 does not restart, type 5 does.
StartTask ==
    /\ pc = "idle"
    /\ restart' \in BOOLEAN
    /\ Goto("collect")
    /\ UNCHANGED <<cloudVars, seen, listed, listedPending, asked, exit, touched,
                   restarted>>

\* CollectMetrics, which may have read no variables, or some, without saying
\* so.  From here on the task relies on what it has seen.
Collect ==
    /\ pc = "collect"
    /\ seen' \in SUBSET {p \in Params : Equal(running[p])}
    /\ touched' = touched \cap pending
    /\ Goto("server")
    /\ UNCHANGED <<cloudVars, restart, listed, listedPending, asked, exit, restarted>>

\* Not configured, no credential, or the server is not Ready: exit code 1.
GetServer ==
    /\ pc = "server"
    /\ \/ Return(1)
       \/ ReturnError
       \/ Goto("list") /\ UNCHANGED exit
    /\ UNCHANGED <<cloudVars, restart, seen, listed, listedPending, asked, touched,
                   restarted>>

List ==
    /\ pc = "list"
    /\ listed' = conf
    /\ listedPending' = pending
    /\ restarted' = FALSE
    /\ Goto("download")
    /\ UNCHANGED <<cloudVars, restart, seen, asked, exit, touched>>

\* GetJson.
Download ==
    /\ pc = "download"
    /\ asked' \in SUBSET Params
    /\ Goto("update")
    /\ UNCHANGED <<cloudVars, restart, seen, listed, listedPending, exit, touched,
                   restarted>>

\* The list fails, or a request is refused.
Refuse ==
    /\ \/ pc = "list"
       \/ pc = "update" /\ Updates # {}
       \/ pc = "restart" /\ restart /\ RestartRequired
    /\ ReturnError
    /\ UNCHANGED <<cloudVars, restart, seen, listed, listedPending, asked, touched,
                   restarted>>

\* The answer cannot be read, or has not come.
Unreadable ==
    /\ pc = "download"
    /\ Return(8)
    /\ UNCHANGED <<cloudVars, restart, seen, listed, listedPending, asked, touched,
                   restarted>>

NoUpdates ==
    /\ pc = "update"
    /\ Updates = {}
    /\ Goto("restart")
    /\ UNCHANGED <<cloudVars, restart, seen, listed, listedPending, asked, exit,
                   touched, restarted>>

BeginBatchUpdate ==
    /\ pc = "update"
    /\ Updates # {}
    /\ ~Active
    /\ operation' = "update"
    /\ target' = Updates
    /\ Goto("updating")
    /\ UNCHANGED <<conf, running, pending, restart, seen, listed, listedPending, asked,
                   exit, touched, restarted>>

\* PollUntilDone.
UpdateDone ==
    /\ pc = "updating"
    /\ operation = "done"
    /\ Goto("restart")
    /\ UNCHANGED <<cloudVars, restart, seen, listed, listedPending, asked, exit,
                   touched, restarted>>

\* The operation fails, or only the request for its state.
PollFails ==
    /\ pc \in {"updating", "restarting"}
    /\ ReturnError
    /\ UNCHANGED <<cloudVars, restart, seen, listed, listedPending, asked, touched,
                   restarted>>

BeginRestart ==
    /\ pc = "restart"
    /\ restart /\ RestartRequired
    /\ ~Active
    /\ operation' = "restart"
    /\ target' = {}
    /\ Goto("restarting")
    /\ UNCHANGED <<conf, running, pending, restart, seen, listed, listedPending, asked,
                   exit, touched, restarted>>

RestartDone ==
    /\ pc = "restarting"
    /\ operation = "done"
    /\ Return(0)
    /\ UNCHANGED <<cloudVars, restart, seen, listed, listedPending, asked, touched,
                   restarted>>

Conclude ==
    /\ pc = "restart"
    /\ ~(restart /\ RestartRequired)
    /\ Return(IF RestartRequired THEN 10 ELSE 0)
    /\ UNCHANGED <<cloudVars, restart, seen, listed, listedPending, asked, touched,
                   restarted>>

\* The variables of the goroutine end with it.
End ==
    /\ Goto("idle")
    /\ restart' = FALSE
    /\ seen' = {}
    /\ listed' = [p \in Params |-> "old"]
    /\ listedPending' = {}
    /\ asked' = {}
    /\ exit' = 0
    /\ UNCHANGED <<cloudVars, touched, restarted>>

Report == pc = "report" /\ End

\* The agent stops, or a collection fails.
Die == pc # "idle" /\ End

-----------------------------------------------------------------------------
(* Azure and its administrator *)

\* Some configurations are changed: the dynamic ones take effect.
Change(set, value) ==
    /\ conf' = [p \in Params |-> IF p \in set THEN value ELSE conf[p]]
    /\ running' = [p \in Params |-> IF p \in set \ Static THEN value ELSE running[p]]
    /\ pending' = pending \cup (set \cap Static)

\* An update that fails may have changed some.  It may be one that the task
\* before has not waited for.
EndUpdate ==
    /\ operation = "update"
    /\ \/ operation' = "done" /\ Change(target, "wanted")
       \/ operation' = "failed" /\ \E some \in SUBSET target : Change(some, "wanted")
    /\ touched' = IF pc = "updating" THEN touched ELSE touched \cup target
    /\ UNCHANGED <<target, agentVars, restarted>>

TakePending ==
    /\ running' = conf
    /\ pending' = {}
    /\ UNCHANGED conf

EndRestart ==
    /\ operation = "restart"
    /\ \/ operation' = "done" /\ TakePending
       \/ operation' = "failed" /\ UNCHANGED <<conf, running, pending>>
    /\ restarted' = (restarted \/ pc # "restarting")
    /\ UNCHANGED <<target, agentVars, touched>>

Administer ==
    /\ ~Active
    /\ \E p \in Tuned, value \in Values :
         /\ Change({p}, value)
         /\ touched' = touched \cup {p}
    /\ UNCHANGED <<operation, target, agentVars, restarted>>

AdministratorRestarts ==
    /\ ~Active
    /\ TakePending
    /\ restarted' = TRUE
    /\ UNCHANGED <<operation, target, agentVars, touched>>

EndOperation == EndUpdate \/ EndRestart

Azure == EndOperation \/ Administer \/ AdministratorRestarts

Step ==
    \/ Collect \/ GetServer \/ List \/ Download \/ Refuse \/ Unreadable \/ NoUpdates
    \/ BeginBatchUpdate \/ UpdateDone \/ PollFails \/ BeginRestart \/ RestartDone
    \/ Conclude \/ Report

Next == StartTask \/ Step \/ Die \/ Azure

Spec == Init /\ [][Next]_vars

\* The goroutine is scheduled and its calls return; operations end.  A poll
\* that fails cannot be counted on.
FairSpec ==
    /\ Spec
    /\ WF_vars(Step /\ pc \notin {"updating", "restarting"})
    /\ WF_vars(UpdateDone) /\ WF_vars(RestartDone)
    /\ WF_vars(PollFails /\ operation = "failed")
    /\ WF_vars(EndOperation)

-----------------------------------------------------------------------------
(* Properties *)

\* The task keeps the promise of CloudApply: success only when the
\* recommendation has been read and each of its values that Azure lets it set
\* is in force, type 4 included.
Verdict ==
    IF pc = "idle" THEN "none"
    ELSE IF pc # "report" THEN "working"
    ELSE IF exit = 0 THEN "success" ELSE "failure"

Good == [p \in Params |-> IF p \in Skipped THEN Values ELSE Alike]

Learnt == pc \in {"update", "updating", "restart", "restarting"}

Promise == INSTANCE CloudApply
           WITH configured <- conf, stale <- FALSE, learnt <- Learnt,
                verdict <- Verdict, Careless <- FALSE

KeepsPromise == Promise!Spec

\* The task restarts the server, or asks for a restart (exit code 10), only
\* for a recommended value that waits for it; unless somebody else has just
\* restarted it or modified a value.
RestartJustified ==
    [][pc = "restart" /\ (pc' = "restarting" \/ (pc' = "report" /\ exit' = 10)) =>
         restarted \/ asked \cap (touched \cup {p \in pending : Equal(conf[p])}) # {}]_vars

\* A task comes to its end.
TaskEnds == pc # "idle" ~> pc = "idle"

-----------------------------------------------------------------------------
(* The inductive invariant *)

\* What is not in force waits for a restart; what nobody else has modified has
\* its value or a recommended one.
ConfInv ==
    /\ \A p \in Params \ pending : conf[p] = running[p]
    /\ \A p \in Params \ touched : conf[p] = running[p] \/ Equal(conf[p])
    /\ target \cap Skipped = {}

\* A task begins without a recommendation.
AskedInv == pc \in {"idle", "collect"} => asked = {}

\* What was read is so still, but for what others have changed.
SeenInv ==
    pc \notin {"idle", "collect"} =>
        \A p \in seen \ touched : Equal(running[p])

ListedInv ==
    pc \in {"download", "update", "updating", "restart", "restarting"} =>
        \A p \in Params \ touched : Equal(listed[p]) =>
            /\ Equal(conf[p])
            /\ p \notin listedPending => Equal(running[p])

\* The updates of the task have been made.
UpdatesInv ==
    /\ pc = "updating" => target = Updates /\ operation # "restart"
    /\ pc = "restarting" => operation # "update"
    /\ (pc = "updating" /\ operation = "done") \/ pc \in {"restart", "restarting"} =>
         \A p \in Updates \ touched : Equal(conf[p])

\* Until the server is restarted, what waited when it was read waits still,
\* and so do the updates.
PendingInv ==
    ~restarted =>
        /\ pc \in {"download", "update", "updating", "restart"} => listedPending \subseteq pending
        /\ (pc = "updating" /\ operation = "done") \/ pc = "restart" =>
             Updates \cap Static \subseteq pending

OutcomeInv ==
    (pc = "restarting" /\ operation = "done") \/ (pc = "report" /\ exit = 0) =>
        \A p \in asked \ (Skipped \cup touched) : Equal(running[p])

AzureInv ==
    /\ ConfInv /\ AskedInv /\ SeenInv /\ ListedInv
    /\ UpdatesInv /\ PendingInv /\ OutcomeInv
=============================================================================
