--------------------------- MODULE LocalApplyTasks ---------------------------
(***************************************************************************)
(* tasks/tasks.go on a local instance: the goroutines that carry out the   *)
(* platform's apply tasks by running mysqlconfigurer.sh, roll back when    *)
(* the service failed to restart, set the dynamic variables of the running *)
(* server, and report.                                                     *)
(*                                                                         *)
(* Nothing serialises them: the metrics timer starts a goroutine whenever  *)
(* the platform says it has a task, and an operator may run the script.    *)
(***************************************************************************)
EXTENDS MysqlConfigurer

CONSTANTS
    Tasks,              \* the runs that belong to a task; the others are operators'
    TaskTypes,          \* the types of task the platform asks for
    OperatorOperations  \* what operators run the script for

ASSUME TasksAssumption == Tasks \subseteq Runs

\* 0 apply with the "manual" script, 4 apply without a restart, 5 apply with
\* a restart.
ASSUME TaskTypesAssumption == TaskTypes \subseteq {0, 4, 5}

ASSUME OperatorAssumption == OperatorOperations \subseteq Operations

VARIABLES
    stage,          \* where ProcessTask is
    type,           \* TaskStruct.TypeID
    exit, status,   \* TaskStruct.ExitCode, TaskStruct.Status
    told            \* what the platform last heard of the task

goroutineVars == <<stage, type, exit, status, told>>
taskVars      == <<vars, goroutineVars>>

\* What ApplyConfLocal concludes from the errors of SET GLOBAL.
SetVerdicts == {<<0, 1>>, <<8, 4>>, <<9, 4>>, <<10, 1>>}

TaskTypeOK ==
    /\ TypeOK
    /\ stage \in [Tasks -> {"idle", "apply", "rollback", "setvars", "report"}]
    /\ type \in [Tasks -> {0, 4, 5}]
    /\ exit \in [Tasks -> ExitCodes \cup {8, 9, 10, 999}]
    /\ status \in [Tasks -> {1, 4}]
    /\ told \in [Tasks -> {"nothing", "started", "success", "failure"}]

TaskInit ==
    /\ Init
    /\ stage = [t \in Tasks |-> "idle"]
    /\ type = [t \in Tasks |-> 0]
    /\ exit = [t \in Tasks |-> 0]
    /\ status = [t \in Tasks |-> 1]
    /\ told = [t \in Tasks |-> "nothing"]

-----------------------------------------------------------------------------

Enter(t, s) == stage' = [stage EXCEPT ![t] = s]

Conclusion(t, c, s) ==
    /\ exit' = [exit EXCEPT ![t] = c]
    /\ status' = [status EXCEPT ![t] = s]

\* Mutants of the definitions below, for the checks that the properties bite:
\* a failure is reported with the status of a task that runs; the script's
\* end is taken too early, or not noticed when it was killed; task 5 falls
\* into the code of task 4; the rollback's code replaces the apply's; the
\* scripts outlive the agent.
StillRunning(t) == IF status[t] = 1 THEN "success" ELSE "running"

EndedEarly(t) == stage[t] = "apply" /\ pc[t] \in {"notify", "done"}

EndedByItself(t) == stage[t] = "apply" /\ pc[t] = "done" /\ code[t] # -1

AlwaysSetVariables(t) == IF code[t] = 0 THEN "setvars" ELSE "report"

RollbackIsTheVerdict(t) ==
    /\ stage[t] = "rollback"
    /\ pc[t] = "done"
    /\ Conclusion(t, code[t], IF code[t] = 0 THEN 1 ELSE 4)
    /\ Enter(t, "report")
    /\ UNCHANGED <<vars, type, told>>

AgentStopAlone ==
    /\ stage' = [t \in Tasks |-> "idle"]
    /\ UNCHANGED <<vars, type, exit, status, told>>

-----------------------------------------------------------------------------

\* What the platform is to hear of a task.
Verdict(t) == IF status[t] = 1 THEN "success" ELSE "failure"

\* The first collection needs the service; the "started" status may be lost;
\* sh may fail to start (999).
StartTask(t) ==
    /\ stage[t] = "idle"
    /\ server = "up"
    /\ \E ty \in TaskTypes :
         /\ type' = [type EXCEPT ![t] = ty]
         /\ \/ /\ Launch(t, IF ty = 0 THEN "manual" ELSE "automatic",
                            IF ty = 4 THEN "no" ELSE "yes")
               /\ Enter(t, "apply")
               /\ Conclusion(t, 0, 1)
            \/ /\ Conclusion(t, 999, 4)
               /\ Enter(t, "report")
               /\ UNCHANGED runVars
    /\ \E heard \in {"nothing", "started"} : told' = [told EXCEPT ![t] = heard]
    /\ UNCHANGED <<fileVars, serverVars>>

\* cmd.Run returns when the apply script has ended.
ScriptEnded(t) == stage[t] = "apply" /\ pc[t] = "done"

\* An apply without a restart goes on to the running server's variables.
AfterApply(t) == IF type[t] = 4 /\ code[t] = 0 THEN "setvars" ELSE "report"

\* A restart that failed is rolled back; sh may fail to start.
ApplyReturned(t) ==
    /\ ScriptEnded(t)
    /\ Conclusion(t, code[t], IF code[t] = 0 THEN 1 ELSE 4)
    /\ \/ /\ code[t] = 7
          /\ \/ Launch(t, "rollback", "yes") /\ Enter(t, "rollback")
             \/ UNCHANGED runVars /\ Enter(t, "report")
       \/ /\ code[t] # 7
          /\ Enter(t, AfterApply(t))
          /\ UNCHANGED runVars
    /\ UNCHANGED <<fileVars, serverVars, type, told>>

\* The rollback's own exit code is logged and dropped.
RollbackReturned(t) ==
    /\ stage[t] = "rollback"
    /\ pc[t] = "done"
    /\ Enter(t, "report")
    /\ UNCHANGED <<vars, type, exit, status, told>>

\* ApplyConfLocal: GetJson saves its answer over recFile; with no answer
\* there is nothing to set; a value that is not a string ends the goroutine.
SetVariables(t) ==
    /\ stage[t] = "setvars"
    /\ \/ /\ recFile' = Json
          /\ \E v \in SetVerdicts : Conclusion(t, v[1], v[2])
          /\ Enter(t, "report")
       \/ /\ UNCHANGED recFile
          /\ Conclusion(t, 0, 1)
          /\ Enter(t, "report")
       \/ /\ recFile' = Json
          /\ Enter(t, "idle")
          /\ UNCHANGED <<exit, status>>
    /\ UNCHANGED <<bkp, dbFile, serverVars, runVars, type, told>>

\* The last collection finds no metrics when the service is not up, and the
\* goroutine ends in a nil dereference; otherwise the report is sent, and may
\* be lost.
Report(t) ==
    /\ stage[t] = "report"
    /\ \/ server = "up" /\ told' = [told EXCEPT ![t] = Verdict(t)]
       \/ UNCHANGED told
    /\ Enter(t, "idle")
    /\ UNCHANGED <<vars, type, exit, status>>

\* The periodic configuration, or a task of type 1.
GenerateConfig ==
    /\ recFile' \in Configs
    /\ UNCHANGED <<bkp, dbFile, serverVars, runVars, goroutineVars>>

\* The agent stops, with its goroutines and the scripts they run.
AgentStop ==
    /\ Kill(Tasks)
    /\ stage' = [t \in Tasks |-> "idle"]
    /\ UNCHANGED <<type, exit, status, told>>

-----------------------------------------------------------------------------

TaskStep(t) ==
    \/ ApplyReturned(t) \/ RollbackReturned(t) \/ SetVariables(t) \/ Report(t)

\* An operator rolls back only where there is something to go back to, but
\* does not know of the tasks.
OperatorRun(p) ==
    /\ ~Active(p)
    /\ \E o \in OperatorOperations, ch \in Choices :
         /\ o = "rollback" => bkp # NoFile
         /\ Launch(p, o, ch)
    /\ UNCHANGED <<fileVars, serverVars>>

\* Steps of the scripts, the service and the operators.
ScriptNext ==
    /\ \/ \E p \in Runs : Step(p) \/ Kill({p})
       \/ \E p \in Runs \ Tasks : OperatorRun(p)
       \/ ServerBoot
       \/ ServiceRestart
    /\ UNCHANGED goroutineVars

TaskNext ==
    \/ \E t \in Tasks : StartTask(t) \/ TaskStep(t)
    \/ GenerateConfig
    \/ AgentStop
    \/ ScriptNext

TaskSpec == TaskInit /\ [][TaskNext]_taskVars

\* Goroutines, scripts and the init system's restart job are scheduled.
FairTaskSpec ==
    /\ TaskSpec
    /\ \A t \in Tasks : WF_taskVars(TaskStep(t))
    /\ \A p \in Runs : WF_taskVars(Step(p) /\ UNCHANGED goroutineVars)
    /\ WF_taskVars(ServerBoot /\ UNCHANGED goroutineVars)

-----------------------------------------------------------------------------
(* Properties *)

\* Tasks use the script only as its specification lets anyone use it.
TasksUseScript == Spec

\* A lone task uses it carefully: when a rollback starts, the backup its
\* apply took is still there.
TasksAreCareful == CarefulSpec

\* The verdict of a task that was rolled back stays the failed restart: the
\* rollback's success must not be reported as the apply's.
RollbackKeepsVerdict ==
    [][\A t \in Tasks :
         stage[t] = "rollback" /\ stage'[t] = "report"
            => exit'[t] = 7 /\ status'[t] = 4]_taskVars

\* The platform hears of success for an apply with a restart only when the
\* service is up on the live file and the backup is gone (one task, no
\* operator).
SuccessIsInForce ==
    [][\A t \in Tasks :
         type[t] = 5 /\ told[t] # "success" /\ told'[t] = "success"
            => server = "up" /\ loaded = dbFile /\ bkp = NoFile]_taskVars

\* A task ends, or its script is found waiting for a one-shot agent which
\* itself waits for the service.
TaskEnds ==
    \A t \in Tasks :
        stage[t] # "idle" ~>
            \/ stage[t] = "idle"
            \/ pc[t] \in {"fetch", "notify"} /\ server # "up"

\* "Added automatic rollback function if any issues arise while applying a new
\* configuration" (CHANGELOG.md:236): a task whose restart failed comes to its
\* rollback, unless the agent is stopped first.
AutomaticRollback ==
    \A t \in Tasks :
        stage[t] = "apply" /\ pc[t] = "notify" /\ code[t] = 7
            ~> stage[t] \in {"rollback", "idle"}

\* "rollback to previous configuration" (CHANGELOG.md:374): where there was a
\* configuration, a task's rollback that succeeded has not left the service
\* without one.
RollbackToPrevious ==
    \A t \in Tasks :
        stage[t] = "rollback" /\ pc[t] = "done" /\ code[t] = 0 => loaded # NoFile

-----------------------------------------------------------------------------
(* Inductive invariants *)

\* No script of a task runs outside the stages that wait for it.
Reaped == \A t \in Tasks : stage[t] \notin {"apply", "rollback"} => ~Active(t)

\* From the apply's install to the end of a failed restart there is a backup.
BackupHeld ==
    \A t \in Tasks :
        stage[t] = "apply" =>
            /\ op[t] # "rollback"
            /\ \/ pc[t] \in {"install", "restart", "wait"}
               \/ pc[t] \in {"notify", "done"} /\ code[t] = 7
               => bkp # NoFile

\* A rollback runs only for a failed restart.
RollbackEarned ==
    \A t \in Tasks :
        stage[t] = "rollback" => op[t] = "rollback" /\ exit[t] = 7 /\ status[t] = 4

\* What success means, from the script's conclusion to the report.
InForce == loaded = dbFile /\ bkp = NoFile

SuccessEarned ==
    \A t \in Tasks :
        type[t] = 5 =>
            /\ stage[t] = "apply" =>
                 /\ op[t] = "automatic" /\ choice[t] = "yes"
                 /\ pc[t] \in {"notify", "done"} /\ code[t] = 0 => InForce
            /\ stage[t] = "report" /\ status[t] = 1 => InForce
            /\ stage[t] # "setvars"

\* The invariant of a lone task.
LoneTaskInv ==
    /\ CarefulInv
    /\ Reaped
    /\ RollbackEarned
    /\ BackupHeld
    /\ SuccessEarned
=============================================================================
