# Verification of the Releem agent

This directory holds TLA+ models of the programs in this repository, the TLC
configurations that check them on small instances, and proofs about them that
TLAPS checks for every value of the constants.

The repository is the *Releem agent*: a Go program that collects metrics from
a MySQL, MariaDB, Percona or PostgreSQL server, posts them to the Releem
platform, downloads recommended configurations and carries out the platform's
tasks; and a shell script, `mysqlconfigurer.sh`, that installs a recommended
configuration in the database service's directory, restarts the service, and
rolls back. What can be lost when this goes wrong is a customer's database
service, so the models start with the script and the tasks that run it.

## 1. Inventory

### Components, their state and their operations

| Component | State it keeps | Operations | Status |
|---|---|---|---|
| Configuration script, apply and rollback (`mysqlconfigurer.sh:121-186, 462-745`) | the downloaded file, the backup, the live file in the service's directory; the service itself | `-a`, `-s automatic`, `-r`, `-s initial` | `MysqlConfigurer` (not `-s initial`) |
| Configuration script, database setup and update (`mysqlconfigurer.sh:189-460`) | a fixed option file, the agent's binaries | `-p`, `-u`, `-s auto` | not modelled |
| Task processing (`tasks/tasks.go`) | one task: type, status, exit code, output | types 0 to 5 and 7 | types 0, 4 and 5 on a local instance: `LocalApplyTasks`; 4 and 5 on a managed one: the three providers; the rest: `ProcessTask` |
| Local apply (`tasks/task_apply_local.go`, `tasks/utils.go`, `tasks/task_commands.go`) | the server's dynamic variables | run the script; SET GLOBAL | `LocalApplyTasks` |
| AWS RDS apply (`tasks/task_apply_aws.go`) | the parameter group, the instance's statuses | batches, wait for the instance | `AwsApply` |
| GCP Cloud SQL apply (`tasks/task_apply_gcp.go`) | the instance's flags, the operation | merge, patch, wait | `GcpApply` |
| Azure MySQL apply (`tasks/task_apply_azure.go`) | the server's configurations, a pending restart | classify, update, restart | `AzureApply` |
| Query explain task (`tasks/task_custom_QO.go`) | the answers it assembles | per input: check, EXPLAIN; merge | `ProcessTask`, `ExplainQuery` |
| Agent worker (`metrics/runner.go`, the strategy in `utils/utils.go`) | timers, the count of consumers, the sampling period | collect, generate configuration, start tasks, choose the period, exit | `Worker` (not the goroutines of queries and samples) |
| Platform client (`repeater/`) | `conf/z_aiops_mysql.cnf`, rewritten with every answer to a Configurations request | post, download | its effect on the file is `AgentWrites`, `GenerateConfig`, `SetVariables` |
| Query sampling (`metrics/mysql/dbCollectSqlText.go`) | a shared map of sample texts | sample | the choice of the period in `Worker`; the map is not modelled |
| Query collection (`metrics/*/dbCollectQueries.go`) | the digests, the plans, one connection | collect digests, explain the costliest, describe schemas | `CollectQueries`, `ExplainQuery` |
| Gatherers (`metrics/mysql`, `metrics/postgresql`, `metrics/system`, `metrics/agent.go`, `CollectMetrics` of `utils/utils.go`) | the sections of the metrics | one read after another | `Gatherers`: order, failures, sections, the cut of the process list; not the figures |
| Configuration and start (`config/`, `main.go`) | none after start | parse, default, wire | the chains of gatherers and the default period only |
| Windows scripts (`windows/`) | as the shell script, with another backup rule | apply, rollback, install | planned |
| Installer, packaging, tests (`install.sh`, `docker/`, `tests/`, ...) | the installation | install, update | not modelled |

### How they interact

* The agent's timers start goroutines. Those of metrics and of configurations
  set the period at which the loop collects sample queries, without a lock
  (`utils/utils.go:159-198`). When the platform answers to metrics that it has
  a task, a timer starts one more goroutine. It asks the platform for the
  task and carries it out (`ProcessTask`); nothing keeps a second one from
  starting meanwhile (`metrics/runner.go:63-72`).
* A local apply task runs `mysqlconfigurer.sh` and waits for its exit code.
  Exit code 7 (the service did not start) makes the goroutine run
  `mysqlconfigurer.sh -r`.
* The script runs *one-shot agents*: `releem-agent -c` downloads the
  configuration, `releem-agent --event=...` reports what happened. A one-shot
  agent exits from inside the goroutine of its first collection, when that has
  succeeded (`metrics/runner.go:93-106`), so both need the database service.
* Every request of type Configurations rewrites `conf/z_aiops_mysql.cnf`
  (`repeater/releemConfiguration.go:114-133`): the script's own download, the
  agent's periodic generation, and the JSON answer that a task asks for to set
  dynamic variables. Script and agent share this file without a lock.
* An operator may run the script at any time, and is advised to by its
  messages.

### Hard behaviour, and what makes each component correct

* *Script.* A kill between any two commands; a restart that fails or outlasts
  the wait; a restart by someone else at any moment; a failed download; two
  runs at once. Correct when there is always a configuration to go back to on
  which the service has come up (`Recoverable`), a rollback restarts on one
  (`RollbackProven`), the backup is dropped only when the live file is in force
  (`BackupDropped`), and every run ends (`RunEnds`).
* *Local tasks.* The script concludes one thing and the service does another;
  a rollback whose result must not pass for the apply's; an agent that is
  stopped half way; reports that are lost. Correct when the tasks use the
  script as its specification allows (`TasksUseScript`, `TasksAreCareful`), a
  reported success is true of the configuration in force (`SuccessIsInForce`),
  a rollback keeps the verdict (`RollbackKeepsVerdict`), and tasks end
  (`TaskEnds`).
* *Cloud apply.* Batches and remainders, refused batches after accepted ones,
  statuses that change while they are polled, reads written back after a long
  download, operations that outlive the task that began them, variables and
  recommendations that were not read. Correct when a success stands for the
  recommendation that was read and nothing else is installed (`KeepsPromise`,
  one promise for the three providers, with the differences named below), every
  request is one the provider takes and repeats nothing that the same call has
  sent (`RequestLegal`, `SentOnce`), what others have set is kept (`OthersKept`, `FlagsPreserved`),
  and the server is restarted only for a reason (`RestartJustified`).
* *Worker.* The sampling period and the count it follows are read and written
  without a lock by goroutines that overlap; a one-shot agent must exit;
  announcements and requests get lost. Correct when the period settles on the
  right one once the server does (`PeriodSettles`), the one-shot agent ends
  (`OneShotExits`) and a task comes to the agent (`TaskFetched`).
* *Collection.* A gatherer that panics returns no error, and what follows goes
  on without its sections; the process list is cut by halves. Correct when the
  metrics that are returned can be used (`Usable`), and the list fits and is cut
  no more than it needs (`ProcessListCut`).
* *Query collection and query tasks.* Loops that go on after a failure, a bound
  that counts only what succeeded, two passes over rows that the first has
  changed, one connection for rows of several databases, fallbacks in a chain.
  Correct when the bound goes to the costliest (`CostliestFirst`), every
  statement to its own database (`CollectInv`), and a task's verdict is true of
  all of its inputs (`Truthful`).

The full list, each at the line where it bites and with the properties that
watch it, is `hazards` in `PROJECT.json`.

## 2. Modules

| Module | What it is |
|---|---|
| `MysqlConfigurer` | the script, the service and their environment; the properties of the script |
| `MysqlConfigurerProofs` | theorems about it |
| `LocalApplyTasks` | extends it with the agent's task goroutines and operators |
| `LocalApplyTasksProofs` | theorems about it; two of them are refinements |
| `CloudApply` | what a task on a managed instance promises, whatever the provider |
| `AwsApply`, `GcpApply`, `AzureApply` | the task on each provider's instance, with the provider and an administrator; each implements `CloudApply` |
| `AwsApplyProofs`, `GcpApplyProofs`, `AzureApplyProofs` | theorems about them, the refinements included |
| `ExplainQuery` | pure: what EXPLAIN answers about one query, and which queries PostgreSQL prepares |
| `CollectQueries` | extends it with the gatherer of query statistics |
| `Gatherers` | extends it with one collection: the other gatherers and `CollectMetrics` |
| `ProcessTask` | extends `Gatherers` with the tasks that run a command or explain queries: the collection before a task, the task, the collection after it, the report |
| `Worker` | the loop, its timers and goroutines, the sampling strategy |
| `CollectQueriesProofs`, `ProcessTaskProofs`, `WorkerProofs` | theorems about them |
| `MC` and the name of a module | its small instance |

### `MysqlConfigurer`

State: the three files by their bodies (`recFile`, `bkp`, `dbFile`), the
service (`server`, `loaded`), the history variable `proven` (every body the
service has come up on), and for each run of the script the next command
(`pc`), the operation (`op`), whether it may restart the service (`choice`)
and its exit code (`code`).

One action is one command that touches a file or the service. Commands between
two such commands (messages, `chmod`, tests of variables) are part of the
action that follows or precedes them. For example `Backup`, `Install`,
`Restart` and `Cleanup` are lines 642-665 of `releem_apply_automatic` and
lines 546-566 of `releem_apply_manual`, which do the same; the two operations
differ in `Decide` (lines 509-543 against 622-639) and in `Fetch`.
`ServerUp` and `ServerDown` are the end of a restart job as
`non_blocking_wait` sees it, together with the exit code that `wait_restart`
makes of it. `Choices` are the two values that
`RELEEM_RESTART_SERVICE`, or else the operator's answer, can have; `Permitted`
says whether a run may restart the service. Without permission `-a` and `-r`
stop, and `-s automatic` installs all the same.

Environment: `ServiceRestart` (the host or an administrator), `AgentWrites`
(the agent rewrites the downloaded file), `Kill`, and `Run`, which starts the
script with any operation, any number of times and, in `Spec`, concurrently.
`CarefulSpec` is the same with one run at a time and no rollback without a
backup, which is how the repository's rollback test uses it.

Assumptions of the model:

* a start of the service depends on the live file's body (`Startable`) and,
  where `StartMayFail` is set, may fail for any other reason. The runs that
  show that properties hold have `StartMayFail = TRUE`; the runs that show a
  disagreement have it `FALSE`, so that a start fails only for its body and what
  they show is not bad luck of the environment;
* a single `cp` or `rm` of these small files is atomic;
* restarts requested while one is under way are one job of the init system;
* the service is up when a behaviour begins, on the live file.

### `LocalApplyTasks`

Extends `MysqlConfigurer`: the runs in `Tasks` belong to task goroutines, the
others to operators. `stage` is where `ProcessTask` is, `type`, `exit` and
`status` are its `TaskStruct`, `told` is what the platform last heard.
`StartTask` is the first half of `ProcessTask` up to the start of the script
(`tasks.go:21-47`), `ApplyReturned` what follows `cmd.Run` (type 5:
lines 95-117, type 0 and 4 above), `RollbackReturned` the end of the rollback,
`SetVariables` is `ApplyConfLocal`, `Report` the second collection and the
final status (lines 138-144). Reports may be lost, and the goroutine may end
in a nil dereference or a failed type assertion, where the code can.
`AgentStop` is systemd's stop of the agent with everything in its group.

### `CloudApply` and the three providers

`CloudApply` has the values that the provider holds for the instance
(`configured`) and those in force (`running`), whether the task has read its
recommendation (`learnt`), the parameters it names (`asked`), those that
somebody else has modified meanwhile (`touched`), the task's verdict, and
whether the status that the provider shows is older than its state (`stale`).

* Values may change only to recommended ones (`Good`) of parameters that were
  asked for, or by somebody else's doing (`Effect`).
* A task that has read its recommendation may succeed only when every parameter
  asked for and not touched is configured as recommended, and in force unless
  the status is stale (`Succeed`).
* A task that has not read it has changed nothing, and may succeed only where
  `Careless` says so (`SucceedUnread`). That is AWS and Cloud SQL, whose code
  logs the failed download and goes on; Azure's returns exit code 8.

The three modules map their own state to it: the verdict is defined by `pc` and
`exit`. `configured` is the parameter group (`group`), the configurations
(`conf`), or the values in force (Cloud SQL, where a flag set is in force when
the operation is over). `stale` is `shown # Actual` on AWS and `FALSE` on the
other two, which wait for the operation and not for a status. `touched` is a
history variable, which no action of the agent reads; it begins anew with each
collection of the variables, except for what is then still on its way.

`Collect` is the collection before the call. A variable compares equal to its
recommendation when that value is in force, but need not: `SHOW VARIABLES` may
spell it in another way, and `DbConfGatherer` returns without any variables,
and without an error, when a query fails or it panics
(`metrics/mysql/dbConf.go:27-31, 44-47`; `Gatherers` models it). So `seen`, what
compares equal, is any subset of the parameters that have the recommended
value. That a row, when it is read, holds the value in force then is assumed.

A step is one call to the provider or the platform, so that the provider and
an administrator act between any two, and `Die` ends the goroutine anywhere
(the agent is stopped, or a panic is recovered in `HandlePanic` and the task is
never reported). `Tuned` are the parameters that an administrator may modify.

* `AwsApply`. `phase` is the apply method. `Gather` is the loop at
  `task_apply_aws.go:112-136` up to the parameter that fills a request, or to
  its end; the map's order is any. `Accept` and `Refuse` are the answers of
  `ModifyDBParameterGroup`, for a full batch and for the rest. `Return` contains
  the second call of `tasks.go:69-72`. The group's status is shown with a delay
  of any length (`shown`, `Notice`): the fifteen seconds of sleep change
  nothing, so that a poll may still find the status from before. The status of
  the instance has many causes besides this task, so each poll may find it
  `available` or `modifying`. `sent`, a history variable, is what RDS has
  accepted from this call.
* `GcpApply`. `flags` are the instance's flags, `unset` among their values, and
  `currentFlags` what the task has read. A recommendation that does not come
  leaves nothing to change, and the flags are written back. Cloud SQL runs one operation on an
  instance at a time. A failed one ends the agent (`logger.Fatalf`), as
  `WaitFails` does.
* `AzureApply`. `conf` are the configurations of the server, `pending` those
  that wait for a restart, `listed` and `listedPending` what the task has read
  of them. `Updates`, `Waiting` and `RestartRequired` are the classification
  loop at `task_apply_azure.go:96-141`. A failed update may have changed some
  configurations. A poll may fail while the operation goes on, and the next
  task meets it. `Alike` are the values that `azureMySQLConfigValuesEqual`
  takes for the recommended one. A recommendation that does not come is exit code 8
  (`Unreadable`). Configurations that are unknown or read-only
  are `Skipped`, and a success says nothing of them: that is what the code does.

### `ExplainQuery` and `CollectQueries`

`ExecuteExplain` is the set of the answers that the chain of attempts can have:
the query as it is, then with one and with another quote for its double quotes,
and on PostgreSQL with its parameters prepared first. A plan or a refusal ends
the chain, and a plan that comes after a failure is returned with that
failure's error. `ContainsUnquotedPgParameter` is the scan of the query for a
parameter outside of quotes, a recursive function; `MCCollectQueries` compares
it with the reference definition `HasParameter`, which counts quotes, for every
sequence of up to six of the characters that it tells apart, and `ScanIsExact`
proves it for every query.

`CollectQueries` reads the rows (MySQL tries a second query), makes two passes
of `CollectExplain`, by total and by average time, and describes the schemas.
A row is its schema, its key, its costs and its `class`, which is what the
tests of text and age at `dbCollectQueries.go:497-522` tell apart. `Take` is
the head of the loop over the sorted pairs, and `Leave`, `NeedFullQuery`,
`Explain` and `ConnectPanics` are its four outcomes. On PostgreSQL the rows go
through a map whose key is the database's name and the query id written one
after the other, so that two rows may share a key (`Distinct`). `tried` and
`fresh` are history variables.

### `Gatherers` and `ProcessTask`

A gatherer is a sequence of reads. Each names the sections that it sets, those
that it builds on (`needs`), and what its failure does: go on (`next`), end the
gatherer, with or without an error, panic, or end the process. `Pipeline` is
the chain of `main.go:132-279` for the instance and the database.
`CollectMetrics` returns nothing after an error, and goes on after a panic,
because `HandlePanic` recovers inside of the gatherer and the error that it
then returns is nil. `Truncate` is the loop that cuts MySQL's process list.

`ProcessTask` takes the goroutine from the first collection to the report.
`RunCommand` stands for types 1, 2 and 3, which differ in the command alone;
the steps from `ParseDetails` to `Merge` are a query task. The other
collections of the worker (`group`) take no task. `Stopped` is the end of the
agent anywhere, which the update of type 2 brings about itself.

### `Worker`

`pc` is where each goroutine is; `g0` is `RunWorker` itself, which chooses a
period once before its loop. `EnableEventsStatementsConsumers` and
`GetStrategyCollectionSampleQueries` go read by read (`CountConsumers`,
`Enable`, `Test`, `Set`), so that two goroutines may interleave inside of them:
a count that changes between the tests may pass all of them and leave the
period as it is. Time is left out: a timer that is set may fire, and each
collection finds the server's uptime below two minutes or not, except that the
goroutine of configurations always passes `"0"`.

## 3. What is checked

The runs of the script and of local tasks use at most two runs of the script, a configuration in force (`old`),
its successor (`new`), one the service rejects (`bad`) and the JSON answer,
which is not a configuration. Three bodies and one backup are all the values
the rules for files can tell apart: they compare files for equality and
existence only. Two failing checks stand for all: one that every operation
makes and one that a rollback leaves out. No other bound is needed; every
variable ranges over a finite set, and runs and tasks may start again any
number of times.

| Run | Shows |
|---|---|
| `script_careful` | one run at a time: `Recoverable`, `RollbackProven`, `BackupDropped`, the inductive invariant `CarefulInv` of the proofs, and `RunEnds`: a scheduled run ends, or waits for a one-shot agent that waits for the service |
| `tasks_serial` | one task, no operator: the task refines `CarefulSpec` (`TasksAreCareful`), `SuccessIsInForce`, `RollbackKeepsVerdict`, the inductive invariant `LoneTaskInv`, and `TaskEnds` |
| `tasks_operator` | one task and an operator who rolls back: the two refine `Spec` (`TasksUseScript`) |
| `aws_apply` | two dynamic parameters and a static one, two to a request, through both calls: `RequestLegal`, `KeepsPromise`, `SentOnce`, the inductive invariant `AwsInv`, and `TaskEnds`: the bounded polling ends whatever the statuses do |
| `gcp_apply` | two variables with different defaults: `KeepsPromise`, `OthersKept`, `GcpInv` and `TaskEnds` |
| `azure_apply` | a dynamic and a static parameter and one that cannot be set: `KeepsPromise`, `RestartJustified`, `AzureInv` and `TaskEnds` |
| `collect_queries` | three digests on either server, with and without a filter of databases: `CostliestFirst`, and `CollectInv`, which holds the scope of statements and schemas and what `CostliestFirst` rests on |
| `query_task` | every instance, database and group of gatherers, and tasks of the five types that `ProcessTask` has: `Usable`, `ProcessListCut` and `Truthful` |
| `worker` | a daemon and a one-shot agent, with and without query optimization: `PeriodSettles`, `OneShotExits` and `TaskFetched` |

Bounds of the cloud runs: a parameter of each kind that the module tells
apart; on AWS three parameters, two of them dynamic, and batches of two for the
20 of the code: a full batch alone, a full batch that a remainder follows, a
remainder alone and none, according to how many of the three are to be sent;
three polls (`MaxPolls`) for 400. The number of tasks one after the
other is not bounded, and neither are the administrator's changes, which on
AWS and Azure are of one parameter of the run (`Tuned`). TLC takes
`Truncated` and `Unknown` of `AwsApply` as empty (each parameter that loses its
fraction, or is not in the group, multiplies the states), and one value that
compares equal (`Alike`) in `AzureApply`; the proofs take any.

Bounds of the other runs. `collect_queries`: two databases that may be
explained and one that may not, two costs (so that rows tie), and `Limit = 1`
for the 100 plans of a pass: the loop tests `i > Limit` and makes two, which
leaves a third row behind. `query_task`: two databases, details of up to two
inputs, and a process list of three threads with lengths below, between and
above the limits; 10, 8 and 4 stand for the 32 MB, 65536 and 64 bytes of the
code and are, like those, a total that the largest list exceeds and two powers
of two (`HalvesAssumption`: the halves of the first limit pass the second one
by one, so that no cut goes further than the list before it asked for). `worker`: one goroutine of each kind besides `RunWorker`, so that two
of them race over the period; a timer that fires while its goroutine runs
waits for it. At most two timers of tasks are set (`MaxTimers`), and the
platform has tasks only where a configuration's `tasks` says so: the period and
the tasks do not meet.

Deadlock is checked in every run: a script, a task or a collection can go on,
or is over in a state that the specification names (`Over`, `Returned`,
`Stopped`).

Fairness: the script's `FairCarefulSpec` assumes only that a started script is
scheduled (`WF(Step(p))`); the service owes nothing, because `wait_restart` gives up by
itself. `FairTaskSpec` adds that goroutines are scheduled and that the init
system's restart job ends, one way or the other. Nobody is assumed to restart
the service, so both liveness properties except the states in which a script
waits for a one-shot agent and the service is not up; the two disjuncts in
`RunEnds` and `TaskEnds` say so. A task that dies ends too: every `TaskEnds` is
about the goroutine, and none promises that the platform is told.

The cloud tasks' `FairSpec` assumes that the goroutine is scheduled and that
its calls return. On AWS that is all: nothing is assumed of the statuses, not
even that they ever change, because the polling is bounded.
`waitForOp` and `PollUntilDone` are not bounded: there operations are assumed
to end, one way or the other. A failing poll is not something to count on, so
in Azure only the poll of a failed operation is fair.

`Worker`'s `FairSpec` assumes that timers fire and that a goroutine that can
take a step takes one (`WF`). Where the code tries again at the next timer, the
try must in the end succeed, or nothing could be said: a collection (`SF` for
each kind of goroutine, and on `GetTask`), a count of the consumers that finds
what they are, an answer of the platform that announces its task (`SF`). These
are strong because the attempts come and go. `PeriodSettles` has the premise
that the server's consumers change no more. The collection of queries and the
tasks of `ProcessTask` have no liveness property: their loops go over finite
lists, and what they call is another's affair.

### Disagreements between the code and what it says

Three runs show the code to violate what a message, a test or the change log of
the repository says. Each has one property that states the words quoted in its
comment, and `findings` in `PROJECT.json` tells the story of the trace.

| Run | Property | In short |
|---|---|---|
| `tasks_stuck_rollback` | `AutomaticRollback` | the script reports before it returns 7, and the report waits for the service that the rollback would repair |
| `tasks_double_rollback` | `RollbackToPrevious` | an operator's rollback restores the file; the task's own then deletes it, and by that time the operator's has used up the backup |
| `gcp_stale_flags` | `FlagsPreserved` | flags read before the download are written back whole: an administrator's change in between is undone |

Others are told here and have no run, because the code shows them at a glance
and a trace adds nothing:

* the script's "No restart is required!" is decided by the installed file, not
  by the one that the service has read; it is printed although a restart is
  what is missing (`mysqlconfigurer.sh:518-526`);
* "has not been applied" is printed when the restart is declined, and the
  configuration is then installed (`mysqlconfigurer.sh:631-647`);
* a query task on PostgreSQL uses MySQL's `EXPLAIN FORMAT=JSON`, so that all of
  its inputs fail and its code is 7;
* a plan that a later attempt has found is collected together with the error of
  the attempts before it;
* the keys of PostgreSQL's digests are a name and an id without a separator, so
  that those of two databases may collide, and one is lost;
* a database whose name makes no connection string makes the collection, or the
  task, panic instead of being left out;
* a MySQL database without tables is not in the list that the query task checks
  against, and is called unknown;
* on AWS and Cloud SQL a recommendation that does not come, or cannot be read,
  is logged, and the task goes on with nothing to apply: it reports a success,
  on Cloud SQL with "Cloud SQL instance updated successfully"
  (`task_apply_aws.go:103-108, 224`, `task_apply_gcp.go:62-67, 137-141`). Azure
  reports exit code 8;
* on AWS a success may be reported for values that RDS has accepted and not yet
  applied, when the first poll comes before the status of the group has changed
  (`task_apply_aws.go:188-222`);
* variables that could not be read differ from every recommendation, so that
  values already in force are sent again (`metrics/mysql/dbConf.go:27-31,
  44-47`, `task_apply_aws.go:113`);
* on AWS, a log stream that cannot be read ends the agent (`logger.Fatalf`).

`Recoverable` and `RollbackProven` are stated for a live file
(`InitialFile # NoFile`). From a fresh install there is nothing to back up: the
first apply that is installed and not restarted leaves a body the service has
never read, the next apply takes that body for its backup, and a rollback then
restarts the service on it. Nothing in the repository promises otherwise, so
this is a limit of the two properties and not a disagreement.

## 4. What is proved

`MysqlConfigurerProofs`, for any set of runs, configurations, startable
bodies, failing checks and either value of `RestartCommand` and `StartMayFail`:

* `TypeCorrect`: `Spec => []TypeOK`.
* `CarefulInvariant`, `AlwaysRecoverable`, `RollbackAlwaysProven`,
  `BackupNeverLost`: from `InitialFile # NoFile`,
  `CarefulSpec => []CarefulInv`, `[]Recoverable`, `[]RollbackProven` and
  `BackupDropped`.
* `RunsAreBounded`: `Spec => RunsBounded`, under any use. Each command takes a
  run nearer to its exit (`CommandsLeft`, at most nine), and nothing sets it
  back.

`Recoverable` is not inductive: after `Install` the live file is unproven, and
only the fact that `Backup` came before, and found either a proven live file
or an earlier backup, makes it true. `CarefulInv` adds what each label owes to
the labels before it (`RunInv`), that a backup or else the live file is proven
(`BackupProven`, `LiveProven`), and that one run is active (`OneRun`). The
proof goes action by action; `StepFrame` says that a step of one run leaves
the others' control alone.

`LocalApplyTasksProofs`, for any number of tasks and operators:

* `TaskTypeCorrect`, and `TasksImplementScript`: `TaskSpec => Spec`, the
  refinement of the script's specification. Every step of a goroutine is a
  `Run`, an `AgentWrites`, a `Kill` or a stutter of the script; for `StartTask`
  that needs `Reaped` (no script is active outside the stages that wait for
  it).
* `RollbackAlwaysKeepsVerdict`, from `RollbackEarned`.
* `TasksAreBounded`: a task goes through an apply and at most one rollback, and
  the steps of both, the commands of the scripts included, are bounded
  (`TaskStepsLeft`). It rests on `RunsAreBounded` through the refinement, and
  on `OthersKeepStage`: nobody else launches a task's script.

and for a lone task (`Lone`: all runs belong to it) from
`InitialFile # NoFile`:

* `LoneTaskInvariant`, `LoneTaskIsCareful` (`TaskSpec => CarefulSpec`),
  `LoneTaskRecoverable` (by that refinement and `AlwaysRecoverable`), and
  `LoneTaskSuccess` (`SuccessIsInForce`). The careful use of `-r` needs
  `BackupHeld`: from the install of an apply to the end of its failed restart
  there is a backup.

`AwsApplyProofs`, `GcpApplyProofs` and `AzureApplyProofs`, for any set of
parameters and any of the constants (`BatchSize` positive, `MaxPolls` at
least 2, and the named assumptions on the sets):

* the types (`AwsTypeCorrect`, `GcpTypeCorrect`, `AzureTypeCorrect`) and the
  inductive invariants (`AwsInvariant`, `GcpInvariant`, `AzureInvariant`), a
  lemma for each part of the invariant and a step for each action;
* `AwsKeepsPromise`, `GcpKeepsPromise`, `AzureKeepsPromise`: `Spec =>
  Promise!Spec`, the refinement of `CloudApply`. That a success is deserved is
  not inductive. For AWS it needs where every parameter that was to be sent
  now is (`BatchInv`: to be visited, in the batch, or sent), that what was seen
  equal still is (`SeenInv`), and that what RDS has accepted is the group's
  (`GroupInv`). `GroupDeserved` combines them: when the polls begin, the group
  has the recommendation, and `OutcomeInv` carries that to the report. That the
  values are also in force follows from the status, when it is not stale. For
  Cloud SQL it needs what the operation under way will set (`TargetInv`). For
  Azure it needs that what was listed as recommended is configured still
  (`ListedInv`), and that what is not pending is in force (`ConfInv`);
  `Configured` combines them. That a task which has read nothing changes nothing
  is the part about `learnt` (`BatchInv`, `LearntInv`, `AskedInv`);
* `AwsSentOnce`, from `BatchInv`: a parameter is to be visited, in the batch, or
  accepted, and in one of these places only;
* `AwsRequestLegal`, for any finite set of parameters: `Gather` stops at a batch
  of exactly `BatchSize`, or at one that has no subset of that size and is
  therefore smaller (`SubsetOfSize`);
* `AwsStepsBounded`, for any finite set of parameters: `StepsLeft`, at most
  `MaxPolls + 2 * Cardinality(Params) + 4` for each of the two calls, falls with
  every step of the task and never rises before its end. The other two tasks
  have no loop but the provider's own wait;
* `GcpOthersKept`;
* `AzureRestartJustified`, from `PendingInv`: until somebody restarts the
  server, what waited when it was read waits still.

`CollectQueriesProofs`, for any finite set of rows, any schemas, filters, costs
and bound:

* `CollectTypeCorrect` and `CollectStaysInScope` (`Spec => []CollectInv`), which
  are inductive only together: that `ReadRows` may replace the digests needs
  `TriedInv`, that nothing is left to do before a pass begins. `ConnectedIsOwn`
  says that the connection that a row is explained on is its own database's,
  whatever connection the row before has left;
* `CollectCostliestFirst`: only `EndPass` leaves a pass. A row that it leaves
  untried, and could have explained, is still to do (`LeftInv`), so the pass is
  over because of its bound; and what was tried was taken before it, so it
  costs as much or more (`SortedInv`).

It also proves `ScanIsExact`, about `ContainsUnquotedPgParameter` and every
query over any characters: the loop finds a parameter just when `HasParameter`
says there is one, a `$` before a digit with an even number of quotes before
it. The loop jumps over a doubled quote and the count does not; that makes no
difference because two quotes leave the parity as it is. The definition is a
recursive function of the position, and the proof an induction over the length
of what is left, by the least position that differs
(`NatLessThanWellFounded` and `WFMin`, theorems without an operator parameter).

`ProcessTaskProofs`, for any details, threads and texts, and any number of
inputs:

* `TaskTypeCorrect`.
* `MetricsUsable` (`Usable`). The inductive invariant says for each position of
  a pipeline what the reads before it have left: what is `Certain` there
  whatever has failed, that a gatherer that fails where it must not has ended
  the collection, and so that what a later gatherer dereferences is there
  (`Secured`, `ReadBefore`).
* `ProcessListFits` (`ProcessListCut`). `CutSoFar` says that every text is what
  it was, or the limit before it if that is less, and `HalvesAssumption` that
  the limits are the halves of the first one down to the minimum. A text is cut
  to a limit only after the list cut to twice that limit (`CutTo`) was found too
  long: it is the same list, so no two sums have to be compared, which would
  need an induction over the threads.
* `TaskTruthful`. `Truthful` speaks of the end of a task; its inductive form
  says what holds at each input (`AtInput`: as many answers as inputs before
  it, and no failure just when all of them are plans), that the metrics a task
  looks at do not change while it does, and that a verdict is the exit code's
  (`Concludes`). It rests on `AnswerOK`: an answer without a plan has an error.

`WorkerProofs`, for any number of goroutines of each kind:

* `WorkerTypeCorrect`.
* `PeriodStaysSettled`: from `[][consumers' = consumers]_vars`, once the count
  is the server's (`Counted`), no goroutine decides by an older one
  (`NoneStale`) and the period is right (`Settled`), each stays so, whatever
  the goroutines that share them without a lock do.
* `LoopGoesOn`: in a running agent every timer is set, and only a one-shot agent
  ends by itself.

Every invariant and every safety property that a run checks is so the statement
of a theorem. Only model-checked are the liveness properties `RunEnds`,
`TaskEnds`, `PeriodSettles`, `OneShotExits` and `TaskFetched`: fairness and
`ENABLED` are out of the prover's reach. Of the first four the safety half is
proved (`RunsAreBounded`, `TasksAreBounded` and `AwsStepsBounded`, a bound on the
steps that are left; `PeriodStaysSettled`; `LoopGoesOn`), so that what TLC adds
is that the step that is awaited can be taken and is.

## 5. Plan

Done: the script and the local tasks; the three providers and their common
promise; the other tasks with the collections around them; the collection of
queries; the worker. Left, in this order:

1. A run of `LocalApplyTasks` with two tasks at once; today the theorems say it
   for any number of tasks and the runs check one with an operator.
2. The goroutines of queries and of samples in `Worker`, with the shared map of
   sample texts, which `CollectQueries` reads.
3. `WindowsConfigurer`, a variant of `MysqlConfigurer` whose backup is
   overwritten by every apply.
4. An abstract `ConfigFallback` (a live and a fallback body, one of them
   proven) that `CarefulSpec` implements and the Windows variant does not.

## 6. Not modelled

Bodies of configurations, wording and layout; the figures that gatherers copy
into maps; the values of variables that `ApplyConfLocal` compares; parsing of
the configuration and start; HTTP and its retries other than answer or none;
the Windows scripts; the installer and the script's update, straight lines of
commands over the operating system. `PROJECT.json` gives the reason for each.
