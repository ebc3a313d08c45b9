----------------------------- MODULE ProcessTask -----------------------------
(***************************************************************************)
(* tasks/tasks.go and tasks/task_custom_QO.go: the agent takes a task from *)
(* the platform, carries it out and reports.  Here are the tasks that run  *)
(* a command (1 generate, 2 update, 3 queries optimization), task 7, which *)
(* explains the queries of its details, and a type that the agent does not *)
(* know; the apply tasks have modules of their own.                        *)
(***************************************************************************)
EXTENDS Gatherers

CONSTANTS
    TaskTypes,  \* of the platform's tasks
    Details     \* the task_details: their inputs, or <<>> when they do not parse

Inputs == [schema : Schemas \cup {"blank"}, text : BOOLEAN]

ASSUME TaskAssumption ==
    /\ TaskTypes \subseteq {1, 2, 3, 6, 7}
    /\ "blank" \notin Schemas
    /\ Details \subseteq Seq(Inputs)

VARIABLES
    pc,
    type,           \* TaskStruct.TypeID
    inputs,         \* TaskStruct.Details
    k,              \* the input at hand
    collected,      \* collectedSchemas
    queries,        \* metrics.DB.Queries: the answers, input by input
    exit, status,   \* TaskStruct.ExitCode, TaskStruct.Status
    merged,         \* what MergeJSONStrings has made of the details
    nameless,       \* the schemas whose name makes no connection string
    told            \* what the platform last heard of the task

taskVars == <<type, inputs, k, collected, queries, exit, status, merged, nameless, told>>
vars     == <<collectVars, pc, taskVars>>

TypeOK ==
    /\ CollectTypeOK
    /\ pc \in {"collect", "get", "status", "run", "explain", "merge", "wait", "again", "over"}
    /\ type \in TaskTypes \cup {0}
    /\ inputs \in Details \cup {<<>>}
    /\ k \in Nat \ {0}
    /\ collected \subseteq Schemas
    /\ queries \in Seq(Answer)
    /\ exit \in {-1, 0, 1, 2, 3, 4, 5, 6, 7, 999} /\ status \in {0, 1, 4}
    /\ merged \in {"inputs", "answered", "appended", "paired"}
    /\ nameless \subseteq Schemas
    /\ told \in {"nothing", "started", "success", "failure"}

Init ==
    /\ CollectInit
    /\ pc = IF group = "default" THEN "collect" ELSE "over"
    /\ type = 0 /\ inputs = <<>>
    /\ k = 1 /\ collected = {} /\ queries = <<>>
    /\ exit = 0 /\ status = 0
    /\ merged = "inputs"
    /\ nameless \in {{}} \cup {{schema} : schema \in Schemas}
    /\ told = "nothing"

Goto(label) == pc' = label

Conclude(code, s) == exit' = code /\ status' = s

-----------------------------------------------------------------------------
(* ProcessTask *)

\* The collection of a task, or of another goroutine of the worker.
Collecting ==
    /\ collection \in {"running", "cutting"}
    /\ CollectStep
    /\ UNCHANGED <<pc, taskVars>>

Collected == collection \in {"metrics", "nil"}

\* Without metrics the request panics, and its empty answer is no task; so are
\* an error, and null.
GetTask ==
    /\ pc = "collect" /\ Collected
    /\ \/ /\ collection = "metrics"
          /\ type' \in TaskTypes
          /\ inputs' \in IF type' = 7 THEN Details ELSE {<<>>}
          /\ Goto("status")
       \/ Goto("over") /\ UNCHANGED <<type, inputs>>
    /\ UNCHANGED <<collectVars, k, collected, queries, exit, status, merged, nameless, told>>

\* The platform hears that the task is started, or the request fails.
PostStarted ==
    /\ pc = "status"
    /\ told' \in {told, "started"}
    /\ Goto("run")
    /\ UNCHANGED <<collectVars, type, inputs, k, collected, queries, exit, status, merged, nameless>>

\* execTaskCommand; -1 when a signal has killed the command, 999 when it has
\* not started.
RunCommand ==
    /\ pc = "run" /\ type \in {1, 2, 3}
    /\ \E code \in {-1, 0, 1, 999} : Conclude(code, IF code = 0 THEN 1 ELSE 4)
    /\ Goto("wait")
    /\ UNCHANGED <<collectVars, type, inputs, k, collected, queries, merged, nameless, told>>

UnknownType ==
    /\ pc = "run" /\ type \notin 0..5 \cup {7}
    /\ Conclude(4, 4)
    /\ Goto("wait")
    /\ UNCHANGED <<collectVars, type, inputs, k, collected, queries, merged, nameless, told>>

-----------------------------------------------------------------------------
(* ProcessQueryExplainTask *)

ParseDetails ==
    /\ pc = "run" /\ type = 7
    /\ IF inputs = <<>>
       THEN Conclude(2, 4) /\ Goto("wait")
       ELSE Conclude(0, 1) /\ Goto("explain")
    /\ UNCHANGED <<collectVars, type, inputs, k, collected, queries, merged, nameless, told>>

Explaining == pc = "explain" /\ k <= Len(inputs)

Input == inputs[k]

Blank == Input.schema = "blank" \/ ~Input.text

Unknown == Input.schema \notin databases

\* An input that cannot be right ends the task.
Refuse ==
    /\ Explaining
    /\ Blank \/ Unknown
    /\ Conclude(IF Blank THEN 3 ELSE 4, 4)
    /\ Goto("wait")
    /\ UNCHANGED <<collectVars, type, inputs, k, collected, queries, merged, nameless, told>>

\* A row of the schema that does not scan ends the task.
SchemaFails ==
    /\ Explaining /\ ~Blank /\ ~Unknown
    /\ Input.schema \notin collected
    /\ Conclude(5, 4)
    /\ Goto("wait")
    /\ UNCHANGED <<collectVars, type, inputs, k, collected, queries, merged, nameless, told>>

\* PostgreSQL does not take the EXPLAIN of MySQL, which the task uses.
Answers ==
    IF dbms = "mysql" THEN ExecuteExplain(dbms) ELSE {[plan |-> FALSE, error |-> "error"]}

\* Mutant of Account: a later success clears the failure.
LastAnswer(answer) ==
    IF answer.plan THEN Conclude(0, 1)
    ELSE Conclude(IF answer.error = "need_grant_permission" THEN 6 ELSE 7, 4)

\* The plan decides; a failure stays the task's, and the last one is its code.
Account(answer) ==
    IF answer.plan \/ answer.error = "none" THEN UNCHANGED <<exit, status>>
    ELSE Conclude(IF answer.error = "need_grant_permission" THEN 6 ELSE 7, 4)

Explain ==
    /\ Explaining /\ ~Blank /\ ~Unknown
    /\ Input.schema \notin nameless
    /\ collected' = collected \cup {Input.schema}
    /\ \E answer \in Answers :
         /\ Account(answer)
         /\ queries' = Append(queries,
                IF answer.plan THEN [answer EXCEPT !.error = "none"] ELSE answer)
    /\ k' = k + 1
    /\ UNCHANGED <<collectVars, pc, type, inputs, merged, nameless, told>>

\* Ping on a connection that is not there: the goroutine ends.
ConnectPanics ==
    /\ Explaining /\ ~Blank /\ ~Unknown
    /\ Input.schema \in nameless
    /\ Goto("over")
    /\ UNCHANGED <<collectVars, taskVars>>

Explained ==
    /\ pc = "explain" /\ k > Len(inputs)
    /\ Goto(IF exit = 0 THEN "merge" ELSE "wait")
    /\ UNCHANGED <<collectVars, taskVars>>

\* MergeJSONStrings of the inputs and of the platform's answer to the plans:
\* an object goes into every input, an array behind them, and another value
\* into a pair with them; what is empty or no JSON is left out.
Merge ==
    /\ pc = "merge"
    /\ merged' \in {"inputs", "answered", "appended", "paired"}
    /\ Goto("wait")
    /\ UNCHANGED <<collectVars, type, inputs, k, collected, queries, exit, status, nameless, told>>

-----------------------------------------------------------------------------

\* Ten seconds later the metrics are collected again.
CollectAgain ==
    /\ pc = "wait"
    /\ Collect
    /\ Goto("again")
    /\ UNCHANGED <<chosen, taskVars>>

\* Mutant of Verdict: a failure has the status of a task that runs.
StillRunning == IF status = 1 THEN "success" ELSE "running"

Verdict == IF status = 1 THEN "success" ELSE "failure"

\* Without metrics the goroutine panics, and the platform hears nothing; the
\* request may be lost.
Report ==
    /\ pc = "again" /\ Collected
    /\ told' \in IF collection = "metrics" THEN {told, Verdict} ELSE {told}
    /\ Goto("over")
    /\ UNCHANGED <<collectVars, type, inputs, k, collected, queries, exit, status, merged, nameless>>

\* The agent is stopped: by an operator, or by the update that it runs.
Stopped ==
    /\ pc # "over"
    /\ Goto("over")
    /\ UNCHANGED <<collectVars, taskVars>>

Over ==
    /\ \/ pc = "over" /\ Collected
       \/ collection = "fatal"
    /\ UNCHANGED vars

Next ==
    \/ Collecting
    \/ GetTask \/ PostStarted \/ RunCommand \/ UnknownType
    \/ ParseDetails \/ Refuse \/ SchemaFails \/ Explain \/ ConnectPanics \/ Explained \/ Merge
    \/ CollectAgain \/ Report \/ Stopped \/ Over

Spec == Init /\ [][Next]_vars

-----------------------------------------------------------------------------
(* Properties *)

\* A task of several queries whose answers fail one by one: nothing clears a
\* failure, so that the task is a success just when each input has its plan; a
\* database is called unknown only if the server did not have it when the
\* agent looked; the platform is answered for the plans of a success only; and
\* what it is told is the task's own verdict.
Truthful ==
    /\ type = 7 /\ pc \in {"merge", "wait"} =>
         /\ status = 1 <=> exit = 0
         /\ exit = 0 <=>
              /\ inputs # <<>>
              /\ Len(queries) = Len(inputs)
              /\ \A j \in DOMAIN queries : queries[j].plan
         /\ exit = 4 => ~Blank /\ Unknown
         /\ exit \in {6, 7} => Len(queries) = Len(inputs)
         /\ exit \in {3, 4, 5} => Len(queries) < Len(inputs)
    /\ merged # "inputs" => exit = 0
    /\ told = "success" => exit = 0 /\ status = 1
=============================================================================
