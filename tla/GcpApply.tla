------------------------------ MODULE GcpApply ------------------------------
(***************************************************************************)
(* tasks/task_apply_gcp.go: ApplyConfGcpCloudSQL.  It reads the flags of a *)
(* Cloud SQL instance, merges the recommended ones into them, writes the   *)
(* whole list back and waits for the operation.                            *)
(***************************************************************************)
CONSTANTS
    Params,     \* the variables of the database
    Default     \* the values of those that no flag sets

Settings == {"old", "wanted"}
Values   == Settings \cup {"unset"}

ASSUME DefaultAssumption == Default \in [Params -> Settings]

VARIABLES
    flags, running,     \* the instance's flags; the values in force
    operation, target,  \* the operation of the patch, and the flags it sets
    pc,
    seen,               \* metrics.DB.Conf.Variables: those that compare equal
    currentFlags,       \* the flags as they were read
    learnt,             \* has the answer to GetJson been read?
    asked,              \* the keys of recommendedVars
    exit,               \* the exit code; the status is 1 for 0, 4 for others
    touched             \* history: modified by others since Collect

cloudVars == <<flags, running, operation, target>>
agentVars == <<pc, seen, currentFlags, learnt, asked, exit>>
vars      == <<cloudVars, agentVars, touched>>

TypeOK ==
    /\ flags \in [Params -> Values]
    /\ running \in [Params -> Settings]
    /\ operation \in {"none", "running", "done", "failed"}
    /\ target \in [Params -> Values]
    /\ pc \in {"idle", "collect", "get", "download", "patch", "wait", "report"}
    /\ seen \subseteq Params
    /\ currentFlags \in [Params -> Values]
    /\ learnt \in BOOLEAN
    /\ asked \subseteq Params
    /\ exit \in {0, 1, 8, 9}
    /\ touched \subseteq Params

\* The value in force under given flags.
InForce(f) == [p \in Params |-> IF f[p] = "unset" THEN Default[p] ELSE f[p]]

Init ==
    /\ flags \in [Params -> Values]
    /\ running = InForce(flags)
    /\ operation = "none"
    /\ target = flags
    /\ pc = "idle"
    /\ seen = {}
    /\ currentFlags = [p \in Params |-> "unset"]
    /\ learnt = FALSE
    /\ asked = {}
    /\ exit = 0
    /\ touched = {}

-----------------------------------------------------------------------------

Goto(label) == pc' = label

\* Mutants of the definitions below, for the checks that the properties bite:
\* the status is returned for the exit code; the recommendation replaces the
\* flags; only flags that are set are merged; the wait never sees the end of
\* the operation, or does not wait for it.
ReturnSwapped(c) == exit' = (IF c = 0 THEN 1 ELSE 4) /\ Goto("report")

MergeNothing(p) == IF p \in asked \ seen THEN "wanted" ELSE "unset"

MergeSetOnly(p) ==
    IF p \in asked \ seen /\ currentFlags[p] # "unset"
    THEN "wanted" ELSE currentFlags[p]

NeverDone == FALSE

OperationStarted == operation \in {"running", "done"}

-----------------------------------------------------------------------------

Return(c) == exit' = c /\ Goto("report")

StartTask ==
    /\ pc = "idle"
    /\ Goto("collect")
    /\ UNCHANGED <<cloudVars, seen, currentFlags, learnt, asked, exit, touched>>

\* CollectMetrics.  A variable compares equal when its value is the
\* recommended one; it does not when SHOW VARIABLES spells the value in another
\* way, or was not read, which DbConfGatherer does not report.
Collect ==
    /\ pc = "collect"
    /\ seen' \in SUBSET {p \in Params : running[p] = "wanted"}
    /\ touched' = {}
    /\ Goto("get")
    /\ UNCHANGED <<cloudVars, currentFlags, learnt, asked, exit>>

\* Instances.Get; no client or no instance is exit code 1.
Get ==
    /\ pc = "get"
    /\ \/ Return(1) /\ UNCHANGED currentFlags
       \/ currentFlags' = flags /\ Goto("download") /\ UNCHANGED exit
    /\ UNCHANGED <<cloudVars, seen, learnt, asked, touched>>

\* GetJson.  An answer that does not come, because Collect has failed or the
\* platform has, or that cannot be read, is logged; the call goes on with
\* nothing to change.
Download ==
    /\ pc = "download"
    /\ \/ learnt' = TRUE /\ asked' \in SUBSET Params
       \/ learnt' = FALSE /\ asked' = {}
    /\ Goto("patch")
    /\ UNCHANGED <<cloudVars, seen, currentFlags, exit, touched>>

\* A recommendation that differs from the value in force.
Changes(p) == p \in asked \ seen

\* The recommended changes first, then the flags that they leave alone.
Merged(p) == IF Changes(p) THEN "wanted" ELSE currentFlags[p]

\* Cloud SQL has one operation on an instance at a time.
Accept ==
    /\ pc = "patch"
    /\ operation # "running"
    /\ target' = [p \in Params |-> Merged(p)]
    /\ operation' = "running"
    /\ Goto("wait")
    /\ UNCHANGED <<flags, running, seen, currentFlags, learnt, asked, exit, touched>>

Refuse ==
    /\ pc = "patch"
    /\ \E c \in {8, 9} : Return(c)
    /\ UNCHANGED <<cloudVars, seen, currentFlags, learnt, asked, touched>>

\* waitForOp has seen the operation done, without an error.
OperationDone == operation = "done"

WaitForOp ==
    /\ pc = "wait"
    /\ OperationDone
    /\ Return(0)
    /\ UNCHANGED <<cloudVars, seen, currentFlags, learnt, asked, touched>>

\* The variables of the goroutine end with it.
End ==
    /\ Goto("idle")
    /\ seen' = {}
    /\ currentFlags' = [p \in Params |-> "unset"]
    /\ learnt' = FALSE
    /\ asked' = {}
    /\ exit' = 0
    /\ UNCHANGED <<cloudVars, touched>>

Report == pc = "report" /\ End

\* logger.Fatalf: the agent ends, and nothing is reported.
WaitFails ==
    /\ pc = "wait"
    /\ operation = "failed"
    /\ End

\* The agent stops, operations.get fails, or a value is not a string.
Die == pc # "idle" /\ End

-----------------------------------------------------------------------------
(* Cloud SQL and its administrator *)

\* The operation may be one that the task before has not waited for.
Complete ==
    /\ operation = "running"
    /\ operation' = "done"
    /\ flags' = target
    /\ running' = InForce(target)
    /\ touched' = IF pc = "wait" THEN touched
                  ELSE touched \cup {p \in Params : target[p] # flags[p]}
    /\ UNCHANGED <<target, agentVars>>

Abort ==
    /\ operation = "running"
    /\ operation' = "failed"
    /\ UNCHANGED <<flags, running, target, agentVars, touched>>

Administer ==
    /\ operation # "running"
    /\ \E p \in Params, v \in Values :
         /\ flags' = [flags EXCEPT ![p] = v]
         /\ touched' = touched \cup {p}
    /\ running' = InForce(flags')
    /\ UNCHANGED <<operation, target, agentVars>>

CloudSql == Complete \/ Abort \/ Administer

Step ==
    \/ Collect \/ Get \/ Download \/ Accept \/ Refuse \/ WaitForOp \/ WaitFails
    \/ Report

Next == StartTask \/ Step \/ Die \/ CloudSql

Spec == Init /\ [][Next]_vars

\* The goroutine is scheduled and its calls return; operations end.
FairSpec == Spec /\ WF_vars(Step) /\ WF_vars(Complete \/ Abort)

-----------------------------------------------------------------------------
(* Properties *)

\* The task keeps the promise of CloudApply: a success means that every value
\* of the recommendation it has read is in force; a task that has read none has
\* changed none; no other value is ever installed.
Verdict ==
    IF pc = "idle" THEN "none"
    ELSE IF pc # "report" THEN "working"
    ELSE IF exit = 0 THEN "success" ELSE "failure"

Good == [p \in Params |-> {"wanted"}]

Promise == INSTANCE CloudApply
           WITH Values <- Settings, configured <- running, stale <- FALSE,
                verdict <- Verdict, Careless <- TRUE

KeepsPromise == Promise!Spec

\* A flag that the recommendation does not change, and that nobody else has
\* changed since, is written back as it was, unset ones included.
OthersKept ==
    [][\A p \in Params \ touched' :
         flags'[p] # flags[p] => Changes(p) /\ flags'[p] = "wanted"]_vars

\* "preserving existing flags that are not being modified"
\* (task_apply_gcp.go:71): the operation of a patch changes no flag but those.
FlagsPreserved ==
    [][pc = "wait" /\ operation' # operation =>
         \A p \in Params : ~Changes(p) => flags'[p] = flags[p]]_vars

\* A task comes to its end.
TaskEnds == pc # "idle" ~> pc = "idle"

-----------------------------------------------------------------------------
(* The inductive invariant *)

FlagsInv == running = InForce(flags)

\* Before the recommendation is read nothing is asked for, nor is anything when
\* it could not be read.
LearntInv ==
    /\ pc \in {"idle", "collect", "get", "download"} => ~learnt
    /\ ~learnt => asked = {}

\* What was read is what is there, but for what others have changed since.
ReadInv ==
    /\ pc \notin {"idle", "collect"} =>
         \A p \in seen \ touched : running[p] = "wanted"
    /\ pc \in {"download", "patch"} => \A p \in Params \ touched : currentFlags[p] = flags[p]

\* The task's own operation sets flags to what they are or to the
\* recommendation.
TargetInv ==
    pc = "wait" /\ operation = "running" =>
        \A p \in Params \ touched :
            target[p] = flags[p] \/ (Changes(p) /\ target[p] = "wanted")

OutcomeInv ==
    /\ pc = "wait" /\ operation = "running" =>
         \A p \in asked \ touched : InForce(target)[p] = "wanted"
    /\ (pc = "wait" /\ operation = "done") \/ (pc = "report" /\ exit = 0) =>
         \A p \in asked \ touched : running[p] = "wanted"

GcpInv == FlagsInv /\ LearntInv /\ ReadInv /\ TargetInv /\ OutcomeInv
=============================================================================
