------------------------------ MODULE AwsApply ------------------------------
(***************************************************************************)
(* tasks/task_apply_aws.go: ApplyConfAwsRds, called by ProcessTask once    *)
(* for a task of type 5 and up to twice for a task of type 4.  It sends    *)
(* the recommended parameters to an RDS parameter group in batches and     *)
(* polls the instance until the group's modification has settled.          *)
(*                                                                         *)
(* A step is one call to AWS or to the platform, or what lies between two  *)
(* of them, so that AWS, an administrator and the end of the goroutine can *)
(* come between any two calls.                                             *)
(***************************************************************************)
EXTENDS Integers, FiniteSets

CONSTANTS
    Params,     \* the variables of the database
    Static,     \* those whose ApplyType is static
    Unknown,    \* those that are not in the parameter group
    Tuned,      \* those that an administrator may modify
    Truncated,  \* innodb_max_dirty_pages_pct, sent without its fraction
    BatchSize,  \* parameters of a request (20)
    MaxPolls    \* polls of the instance (400)

ASSUME ParamsAssumption ==
    /\ Static \subseteq Params
    /\ Unknown \subseteq Params
    /\ Tuned \subseteq Params \ Unknown
    /\ Truncated \subseteq Params

ASSUME BoundsAssumption ==
    /\ BatchSize \in Nat \ {0}
    /\ MaxPolls \in Nat \ {0, 1}

VARIABLES
    group, running,     \* values in the parameter group; values in force
    changing, pending,  \* modifications on their way; waiting for a reboot
    shown,              \* the group's status, as DescribeDBInstances returns it
    phase, pc,          \* the apply method of the call, and where it is
    seen,               \* metrics.DB.Conf.Variables: those that compare equal
    learnt,             \* has the answer to GetJson been read?
    asked, todo,        \* the keys of result_data; those not yet visited
    batch, polls,       \* Parameters, sum
    exit,               \* the exit code; the status is 1 for 0, 4 for others
    sent,               \* history: accepted from this call
    touched             \* history: modified by an administrator, see Collect

groupVars  == <<group, running, changing, pending>>
callVars   == <<seen, learnt, asked, todo, batch, polls>>
agentVars  == <<phase, pc, exit, callVars>>
vars       == <<groupVars, shown, agentVars, sent, touched>>

\* What the parameter had, the recommendation, and the recommendation as sent
\* when it loses its fraction.
Values == {"old", "wanted", "truncated"}

Sent(p) == IF p \in Truncated THEN "truncated" ELSE "wanted"

Good == [p \in Params |-> {"wanted", Sent(p)}]

\* The status of the instance changes for many reasons: every call may find
\* another one.
InstanceStatuses == {"available", "modifying"}

TypeOK ==
    /\ group \in [Params -> Values]
    /\ running \in [Params -> Values]
    /\ changing \subseteq Params
    /\ pending \subseteq Params
    /\ shown \in {"in-sync", "applying", "pending-reboot"}
    /\ phase \in {"immediate", "pending-reboot"}
    /\ pc \in {"idle", "collect", "describe", "download", "gather", "send",
               "poll", "report"}
    /\ seen \subseteq Params
    /\ learnt \in BOOLEAN
    /\ asked \subseteq Params
    /\ todo \subseteq Params
    /\ batch \subseteq Params
    /\ polls \in 1..MaxPolls
    /\ pc = "poll" => polls < MaxPolls
    /\ exit \in {0, 1, 2, 3, 6, 7, 8, 9, 10}
    /\ sent \subseteq Params
    /\ touched \subseteq Params

Init ==
    /\ group \in [Params -> {"old", "wanted"}]
    /\ running = group
    /\ changing = {}
    /\ pending = {}
    /\ shown = "in-sync"
    /\ phase = "immediate"
    /\ pc = "idle"
    /\ seen = {}
    /\ learnt = FALSE
    /\ asked = {}
    /\ todo = {}
    /\ batch = {}
    /\ polls = 1
    /\ exit = 0
    /\ sent = {}
    /\ touched = {}

-----------------------------------------------------------------------------

\* The status of the group, which DescribeDBInstances shows with some delay.
Actual ==
    IF changing # {} THEN "applying"
    ELSE IF pending # {} THEN "pending-reboot" ELSE "in-sync"

Goto(label) == pc' = label

\* Return of ApplyConfAwsRds; a first call that succeeded is followed by the
\* second.
Return(c) ==
    /\ exit' = c
    /\ IF phase = "immediate" /\ c = 0
       THEN Goto("collect") /\ phase' = "pending-reboot"
       ELSE Goto("report") /\ UNCHANGED phase

\* Mutants of the definitions below, for the checks that the properties bite:
\* the limit of a batch is passed before it is noticed; what is left over is
\* not sent; the batch is not emptied; a group that waits for a reboot counts
\* as settled; the polls are not counted, or have no limit.
OverFull(b) == Cardinality(b) > BatchSize

RestForgotten(b) == IF Cardinality(b) = BatchSize THEN "send" ELSE "poll"

KeepBatch == batch

RebootIgnored(instance) == IF instance = "available" THEN 0 ELSE 7

PollForever ==
    /\ pc = "poll"
    /\ IF shown = "applying"
       THEN UNCHANGED <<phase, pc, exit>>
       ELSE Return(0)
    /\ UNCHANGED <<groupVars, shown, callVars, sent, touched>>

PollUnlimited ==
    /\ pc = "poll"
    /\ polls' = polls + 1
    /\ UNCHANGED <<groupVars, shown, phase, pc, exit, seen, learnt, asked, todo,
                   batch, sent, touched>>

-----------------------------------------------------------------------------

\* Type 4 begins with the immediate method, type 5 has only the other.
StartTask ==
    /\ pc = "idle"
    /\ phase' \in {"immediate", "pending-reboot"}
    /\ Goto("collect")
    /\ UNCHANGED <<groupVars, shown, callVars, exit, sent, touched>>

\* CollectMetrics.  A variable compares equal when its value is the
\* recommended one; it does not when SHOW VARIABLES spells the value in another
\* way, or was not read: DbConfGatherer returns without any variables, and
\* without an error, when a query fails, and with some when one breaks off.
\* From here on the task relies on what it has seen.
Collect ==
    /\ pc = "collect"
    /\ seen' \in SUBSET {p \in Params : running[p] = "wanted"}
    /\ touched' = touched \cap (changing \cup pending)
    /\ learnt' = FALSE
    /\ asked' = {}
    /\ sent' = {}
    /\ Goto("describe")
    /\ UNCHANGED <<groupVars, shown, phase, exit, todo, batch, polls>>

\* The instance is not available, has another parameter group, or the group
\* has not settled.
Describe ==
    /\ pc = "describe"
    /\ \/ Return(1)
       \/ Return(3)
       \/ shown # "in-sync" /\ Return(2)
       \/ shown = "in-sync" /\ Goto("download") /\ UNCHANGED <<phase, exit>>
    /\ UNCHANGED <<groupVars, shown, callVars, sent, touched>>

\* GetJson.  An answer that does not come, because Collect has failed or the
\* platform has, or that cannot be read, is logged; the call goes on with
\* nothing to apply.
Download ==
    /\ pc = "download"
    /\ \/ learnt' = TRUE /\ asked' \in SUBSET Params
       \/ learnt' = FALSE /\ asked' = {}
    /\ todo' = asked'
    /\ batch' = {}
    /\ Goto("gather")
    /\ UNCHANGED <<groupVars, shown, phase, exit, seen, polls, sent, touched>>

\* A parameter that differs is sent, unless it is known to be static and the
\* method is immediate.
Applicable(p) ==
    /\ p \notin seen
    /\ ~(phase = "immediate" /\ p \in Static \ Unknown)

Full(b) == Cardinality(b) = BatchSize

\* What follows the last parameter.
AfterLast(b) == IF b = {} THEN "poll" ELSE "send"

\* The loop goes through the map in any order, up to the parameter that fills a
\* request or to its end.  The fifteen seconds of sleep before the polls change
\* nothing.
Gather ==
    /\ pc = "gather"
    /\ \E visited \in SUBSET todo :
         /\ todo' = todo \ visited
         /\ batch' = batch \cup {p \in visited : Applicable(p)}
         /\ \/ Full(batch') /\ Goto("send")
            \/ /\ todo' = {}
               /\ \A b \in SUBSET batch' : ~Full(b)
               /\ Goto(AfterLast(batch'))
    /\ polls' = 1
    /\ UNCHANGED <<groupVars, shown, phase, exit, seen, learnt, asked, sent, touched>>

\* Parameters = []types.Parameter{}
Emptied == {}

\* ModifyDBParameterGroup is accepted.
Accept ==
    /\ pc = "send"
    /\ batch \cap Unknown = {}
    /\ group' = [p \in Params |-> IF p \in batch THEN Sent(p) ELSE group[p]]
    /\ IF phase = "immediate"
       THEN changing' = changing \cup batch /\ pending' = pending \ batch
       ELSE pending' = pending \cup batch /\ UNCHANGED changing
    /\ sent' = sent \cup batch
    /\ batch' = Emptied
    /\ Goto("gather")
    /\ UNCHANGED <<running, shown, phase, exit, seen, learnt, asked, todo, polls,
                   touched>>

\* It is refused; what was accepted before stays.
Refuse ==
    /\ pc = "send"
    /\ \E c \in {8, 9} : Return(c)
    /\ UNCHANGED <<groupVars, shown, callVars, sent, touched>>

\* The polls end when one of the two statuses has changed.
Outcome(instance) ==
    IF instance = "available" /\ shown = "pending-reboot" THEN 10
    ELSE IF instance = "available" /\ shown = "in-sync" THEN 0
    ELSE 7

Poll ==
    /\ pc = "poll"
    /\ \E instance \in InstanceStatuses :
         \/ /\ instance # "modifying" \/ shown # "applying"
            /\ Return(Outcome(instance))
            /\ UNCHANGED polls
         \/ /\ instance = "modifying" /\ shown = "applying"
            /\ polls' = polls + 1
            /\ IF polls' = MaxPolls
               THEN Return(6)
               ELSE UNCHANGED <<phase, pc, exit>>
    /\ UNCHANGED <<groupVars, shown, seen, learnt, asked, todo, batch, sent, touched>>

\* The variables of the goroutine end with it.
End ==
    /\ Goto("idle")
    /\ phase' = "immediate"
    /\ seen' = {}
    /\ learnt' = FALSE
    /\ asked' = {}
    /\ todo' = {}
    /\ batch' = {}
    /\ polls' = 1
    /\ exit' = 0
    /\ sent' = {}
    /\ UNCHANGED <<groupVars, shown, touched>>

Report == pc = "report" /\ End

\* The agent stops, or a failed call to AWS ends in a nil dereference: no
\* report is sent.
Die == pc # "idle" /\ End

-----------------------------------------------------------------------------
(* RDS and its administrator *)

\* The statuses lag behind.
Notice ==
    /\ shown' = Actual
    /\ UNCHANGED <<groupVars, agentVars, sent, touched>>

TakeEffect ==
    /\ running' = [p \in Params |-> IF p \in changing THEN group[p] ELSE running[p]]
    /\ changing' = {}
    /\ UNCHANGED <<group, pending, shown, agentVars, sent, touched>>

Reboot ==
    /\ running' = group
    /\ changing' = {}
    /\ pending' = {}
    /\ UNCHANGED <<group, shown, agentVars, sent, touched>>

Administer ==
    /\ \E p \in Tuned, v \in {"old", "wanted"} :
         /\ group' = [group EXCEPT ![p] = v]
         /\ \/ changing' = changing \cup {p} /\ UNCHANGED pending
            \/ pending' = pending \cup {p} /\ UNCHANGED changing
         /\ touched' = touched \cup {p}
    /\ UNCHANGED <<running, shown, agentVars, sent>>

Rds == Notice \/ TakeEffect \/ Reboot \/ Administer

Step ==
    \/ Collect \/ Describe \/ Download \/ Gather \/ Accept \/ Refuse \/ Poll
    \/ Report

Next == StartTask \/ Step \/ Die \/ Rds

Spec == Init /\ [][Next]_vars

\* The goroutine is scheduled and its calls return.
FairSpec == Spec /\ WF_vars(Step)

-----------------------------------------------------------------------------
(* Properties *)

\* The task keeps the promise of CloudApply: a success means that every value
\* of the recommendation it has read is in force, or, where RDS showed the
\* status from before the changes, accepted; a task that has read none has
\* changed none; no other value is ever installed.
Verdict ==
    IF pc = "idle" THEN "none"
    ELSE IF pc # "report" THEN "working"
    ELSE IF exit = 0 THEN "success" ELSE "failure"

Promise == INSTANCE CloudApply
           WITH configured <- group, stale <- (shown # Actual),
                verdict <- Verdict, Careless <- TRUE

KeepsPromise == Promise!Spec

\* A request has between one and BatchSize parameters, and asks for the
\* immediate application of none that RDS would refuse for it.
RequestLegal ==
    pc = "send" =>
        /\ Cardinality(batch) \in 1..BatchSize
        /\ phase = "immediate" => batch \cap Static \subseteq Unknown

\* Of the batches of a call, the last and incomplete one included, none repeats
\* a parameter that RDS has accepted in an earlier one.
SentOnce == [][pc = "send" /\ pc' = "gather" => batch \cap sent = {}]_vars

\* A task comes to its end.
TaskEnds == pc # "idle" ~> pc = "idle"

-----------------------------------------------------------------------------
(* The inductive invariant *)

\* What is not in force is on its way; what nobody else has modified has its
\* value or the recommended one; what RDS has accepted is as it was sent.
GroupInv ==
    /\ \A p \in Params \ (changing \cup pending) : group[p] = running[p]
    /\ \A p \in Params \ touched : group[p] \in {running[p], Sent(p)}
    /\ \A p \in sent \ touched : group[p] = Sent(p)

\* Every parameter to be sent is yet to be visited, in the batch, or accepted,
\* and in one of these places only.
BatchInv ==
    /\ pc \in {"gather", "send"} =>
         /\ batch \cup todo \subseteq asked
         /\ batch \cap todo = {}
         /\ (batch \cup todo) \cap sent = {}
         /\ \A p \in batch : Applicable(p)
    /\ pc = "gather" => batch = {}
    /\ pc \in {"gather", "send", "poll"} =>
         \A p \in asked : Applicable(p) => p \in todo \cup batch \cup sent \cup touched
    /\ pc = "poll" => todo = {} /\ batch = {}
    /\ pc \in {"idle", "gather", "send", "poll"} /\ ~learnt => asked = {}
    /\ pc = "idle" => ~learnt

\* What was equal when it was seen still is.
SeenInv ==
    pc \notin {"idle", "collect"} =>
        \A p \in seen \ touched : running[p] \in Good[p]

\* What a success concludes from: the recommendation is the group's, as far as
\* nobody else has modified it.
OutcomeInv ==
    /\ pc \in {"describe", "download"} => sent = {}
    /\ pc = "report" /\ exit = 0 => \A p \in asked \ touched : group[p] \in Good[p]

AwsInv == GroupInv /\ BatchInv /\ SeenInv /\ OutcomeInv
=============================================================================
