------------------------------- MODULE Worker -------------------------------
(***************************************************************************)
(* RunWorker of metrics/runner.go: timers start goroutines that collect    *)
(* metrics and send them; the platform's answer may start a task; the      *)
(* period at which sample queries are collected follows what the server    *)
(* makes available.                                                        *)
(*                                                                         *)
(* Nothing holds the goroutines apart: they read and write the count of    *)
(* consumers and the period as they come.  Time is left out, and a timer   *)
(* that is set may fire; so are the goroutines that only collect and send, *)
(* those of the queries and of the samples.                                *)
(***************************************************************************)
EXTENDS Naturals

CONSTANTS
    Goroutines,     \* those that may run at the same time
    Job,            \* what each of them is started for; "start" is RunWorker itself
    Configurations, \* of the agent
    MaxConsumers,   \* events_statements_* consumers of the server: 3
    MaxTimers       \* bound on the timers of tasks

ASSUME WorkerAssumption ==
    /\ Job \in [Goroutines -> {"start", "metrics", "generate", "task"}]
    /\ \E main \in Goroutines : \A g \in Goroutines : Job[g] = "start" <=> g = main
    /\ Configurations \subseteq [oneshot : BOOLEAN, optimize : BOOLEAN, rds : BOOLEAN,
                              tasks : BOOLEAN]
    /\ MaxConsumers \in Nat
    /\ MaxTimers \in Nat \ {0}

VARIABLES
    configuration,  \* one-shot mode, QueryOptimization, instance type aws/rds;
                    \* tasks is a bound: whether the platform has any
    process,        \* "up", "exited" by itself or "terminated" by a signal
    armed,          \* the timers of the loop that are set
    pc,             \* of a goroutine
    count,          \* models.CountEnabledConsumers
    period,         \* configuration.CollectSampleQueriesPeriod
    timers,         \* of time.AfterFunc: tasks that the platform has announced
    consumers,      \* of the server
    pending         \* the platform has a task

agent  == <<armed, pc, count, period, timers>>
vars   == <<configuration, process, agent, consumers, pending>>

Timers == {"metrics", "generate"}

Labels ==
    {"idle", "collect", "enable", "call", "recount", "test", "test1", "test0",
     "set10", "set1", "set600", "post"}

TypeOK ==
    /\ configuration \in Configurations
    /\ process \in {"up", "exited", "terminated"}
    /\ armed \subseteq Timers
    /\ pc \in [Goroutines -> Labels]
    /\ count \in 0..MaxConsumers
    /\ period \in {1, 10, 600}
    /\ timers \in 0..MaxTimers
    /\ consumers \in 0..MaxConsumers
    /\ pending \in BOOLEAN

\* Mutant of CollectSampleQueriesPeriod: LoadConfig sets no default.
Unset == 0

CollectSampleQueriesPeriod == 10

\* EnableEventsStatementsConsumers looks at the server's consumers when the
\* uptime that it is given is short.
Strategy(uptimeIsShort) ==
    IF configuration.optimize /\ uptimeIsShort THEN "enable" ELSE "test"

\* The strategy is chosen once before the loop.
Init ==
    /\ configuration \in Configurations
    /\ process = "up"
    /\ armed = Timers
    /\ pc = [g \in Goroutines |-> IF Job[g] = "start" THEN Strategy(TRUE) ELSE "idle"]
    /\ count = 0
    /\ period = CollectSampleQueriesPeriod
    /\ timers = 0
    /\ consumers \in 0..MaxConsumers
    /\ pending = FALSE

-----------------------------------------------------------------------------
(* The loop *)

Goto(g, label) == pc' = [pc EXCEPT ![g] = label]

\* Mutant of Reset: the timer is not set again.
NoReset(kind) == armed' = armed \ {kind}

Reset(kind) == armed' = armed \cup {kind}

Tick(g) ==
    /\ process = "up" /\ Job[g] \in armed /\ pc[g] = "idle"
    /\ \A main \in Goroutines : Job[main] = "start" => pc[main] = "idle"
    /\ Reset(Job[g])
    /\ Goto(g, "collect")
    /\ UNCHANGED <<configuration, process, count, period, timers, consumers, pending>>

\* ProcessTaskFunc, five seconds after the platform has announced it.
TaskTimer(g) ==
    /\ process = "up" /\ timers > 0 /\ Job[g] = "task" /\ pc[g] = "idle"
    /\ timers' = timers - 1
    /\ Goto(g, "collect")
    /\ UNCHANGED <<configuration, process, armed, count, period, consumers, pending>>

\* The process ends, and its goroutines and timers with it.
Ends(how) ==
    /\ process' = how
    /\ armed' = {} /\ timers' = 0
    /\ pc' = [g \in Goroutines |-> "idle"]
    /\ UNCHANGED <<configuration, count, period, consumers, pending>>

Terminate == process = "up" /\ Ends("terminated")

-----------------------------------------------------------------------------
(* The goroutines *)

At(g, label) == process = "up" /\ pc[g] = label

\* Without metrics there is nothing to do.
CollectFails(g) ==
    /\ At(g, "collect")
    /\ Goto(g, "idle")
    /\ UNCHANGED <<configuration, process, armed, count, period, timers, consumers, pending>>

\* Mutant of UptimeIsShort: the configuration's goroutine too goes by the server's.
UptimeOfServer(kind) == BOOLEAN

\* Whether the uptime is less than two minutes: it is the server's with the
\* metrics, and "0" with the configuration.
UptimeIsShort(kind) == IF kind = "generate" THEN {TRUE} ELSE BOOLEAN

Collected(g) ==
    /\ At(g, "collect")
    /\ \E short \in UptimeIsShort(Job[g]) :
         Goto(g, IF Job[g] = "task" THEN "post" ELSE Strategy(short))
    /\ UNCHANGED <<configuration, process, armed, count, period, timers, consumers, pending>>

(* EnableEventsStatementsConsumers *)

\* SELECT count(name) FROM performance_schema.setup_consumers; when it fails
\* the count stays what it is.
CountConsumers(g, n) ==
    /\ At(g, "enable") \/ At(g, "recount")
    /\ count' = n
    /\ Goto(g, IF pc[g] = "enable" /\ n < 3 /\ configuration.rds THEN "call" ELSE "test")
    /\ UNCHANGED <<configuration, process, armed, period, timers, consumers, pending>>

\* CALL releem.enable_events_statements_consumers()
Enable(g) ==
    /\ At(g, "call")
    /\ consumers' \in {consumers, MaxConsumers}
    /\ Goto(g, "recount")
    /\ UNCHANGED <<configuration, process, armed, count, period, timers, pending>>

(* GetStrategyCollectionSampleQueries: up to three reads of the count, and   *)
(* one write                                                                 *)

Chosen(g) == IF Job[g] = "start" THEN "idle" ELSE "post"

\* A count that changes meanwhile may pass all the tests.
Test(g, label, holds, yes, no) ==
    /\ At(g, label)
    /\ Goto(g, IF holds THEN yes ELSE no)
    /\ UNCHANGED <<configuration, process, armed, count, period, timers, consumers, pending>>

Set(g, label, seconds) ==
    /\ At(g, label)
    /\ period' = seconds
    /\ Goto(g, Chosen(g))
    /\ UNCHANGED <<configuration, process, armed, count, timers, consumers, pending>>

GetStrategy(g) ==
    \/ Test(g, "test", count >= 2, "set10", "test1")
    \/ Test(g, "test1", count > 0, "set1", "test0")
    \/ Test(g, "test0", count = 0, "set600", Chosen(g))
    \/ Set(g, "set10", 10) \/ Set(g, "set1", 1) \/ Set(g, "set600", 600)

(* What is sent *)

\* The one-shot agent exits, whatever the platform has answered.
Exits(g) == Job[g] = "generate" /\ configuration.oneshot

Exit(g) == At(g, "post") /\ Exits(g) /\ Ends("exited")

\* The request fails, or its answer does not matter.
PostEnds(g) ==
    /\ At(g, "post") /\ ~Exits(g)
    /\ Goto(g, "idle")
    /\ UNCHANGED <<configuration, process, armed, count, period, timers, consumers, pending>>

\* The platform answers to metrics that it has a task, until an agent gets it.
Announce(g) ==
    /\ At(g, "post") /\ Job[g] = "metrics"
    /\ pending /\ timers < MaxTimers
    /\ timers' = timers + 1
    /\ Goto(g, "idle")
    /\ UNCHANGED <<configuration, process, armed, count, period, consumers, pending>>

GetTask(g) ==
    /\ At(g, "post") /\ Job[g] = "task"
    /\ pending
    /\ pending' = FALSE
    /\ Goto(g, "idle")
    /\ UNCHANGED <<configuration, process, armed, count, period, timers, consumers>>

Step(g) ==
    \/ CollectFails(g) \/ Collected(g)
    \/ (\E n \in {count, consumers} : CountConsumers(g, n)) \/ Enable(g) \/ GetStrategy(g)
    \/ Exit(g) \/ PostEnds(g) \/ Announce(g) \/ GetTask(g)

-----------------------------------------------------------------------------
(* The server and the platform *)

\* The server restarts, or an operator changes its consumers.
ServerChanges ==
    /\ process = "up"
    /\ consumers' \in 0..MaxConsumers
    /\ UNCHANGED <<configuration, process, agent, pending>>

NewTask ==
    /\ process = "up" /\ configuration.tasks /\ ~pending
    /\ pending' = TRUE
    /\ UNCHANGED <<configuration, process, agent, consumers>>

Stopped == process # "up" /\ UNCHANGED vars

Next ==
    \/ (\E g \in Goroutines : Tick(g) \/ TaskTimer(g) \/ Step(g))
    \/ Terminate
    \/ ServerChanges \/ NewTask
    \/ Stopped

Spec == Init /\ [][Next]_vars

\* Timers fire and goroutines run; where the code tries again, it is in the
\* end answered: by the database and by the platform.
FairSpec ==
    /\ Spec
    /\ \A g \in Goroutines : WF_vars(Tick(g)) /\ WF_vars(TaskTimer(g)) /\ WF_vars(Step(g))
    /\ \A kind \in Timers \cup {"task"} :
         SF_vars(\E g \in Goroutines : Job[g] = kind /\ Collected(g))
    /\ SF_vars(\E g \in Goroutines : CountConsumers(g, consumers))
    /\ SF_vars(\E g \in Goroutines : Announce(g))
    /\ SF_vars(\E g \in Goroutines : GetTask(g))

-----------------------------------------------------------------------------
(* Properties *)

\* Goroutines that overlap may leave a period that is not the count's, and a
\* count that is not the server's; yet when the server's consumers change no
\* more, the daemon comes to sample at the period that is right for them, and
\* stays there.
PeriodSettles ==
    <>[][consumers' = consumers]_vars =>
    <>[](\/ process # "up" \/ configuration.oneshot \/ ~configuration.optimize
         \/ period = (IF consumers >= 2 THEN 10 ELSE IF consumers > 0 THEN 1 ELSE 600))

\* The one-shot agent does not stay: a database that is not there at first is
\* tried again.
OneShotExits == configuration.oneshot ~> process # "up"

\* A task comes to the agent although collections, requests and answers get
\* lost on the way.
TaskFetched == (pending /\ ~configuration.oneshot) ~> (~pending \/ process # "up")
=============================================================================
