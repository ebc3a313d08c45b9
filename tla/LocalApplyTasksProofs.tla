----------------------- MODULE LocalApplyTasksProofs -----------------------
(***************************************************************************)
(* Proofs about the local apply tasks: for any number of tasks and         *)
(* operators their types, and that they use the script as its              *)
(* specification allows, and that a rollback keeps the verdict; for a lone *)
(* task on an installation that starts from a live file, that its use is   *)
(* careful and its successes are in force.                                 *)
(***************************************************************************)
EXTENDS LocalApplyTasks, MysqlConfigurerProofs

-----------------------------------------------------------------------------
(* Tasks use the script as its specification allows *)

LEMMA StartLaunches ==
    ASSUME TaskTypeOK, Reaped, NEW t \in Tasks, StartTask(t)
    PROVE  Run(t) \/ UNCHANGED vars
<1>1. t \in Runs /\ ~Active(t)
  BY TasksAssumption DEF StartTask, Reaped
<1>2. PICK ty \in TaskTypes :
        \/ Launch(t, IF ty = 0 THEN "manual" ELSE "automatic",
                     IF ty = 4 THEN "no" ELSE "yes")
        \/ UNCHANGED runVars
  BY DEF StartTask
<1> QED BY <1>1, <1>2 DEF StartTask, Run, Operations, Choices, vars

LEMMA ReturnLaunches ==
    ASSUME NEW t \in Tasks, ApplyReturned(t)
    PROVE  Run(t) \/ UNCHANGED vars
<1>1. t \in Runs /\ ~Active(t)
  BY TasksAssumption DEF ApplyReturned, ScriptEnded, AfterApply, Active
<1> QED BY <1>1 DEF ApplyReturned, ScriptEnded, AfterApply, Run, Operations, Choices, vars

LEMMA TaskNextIsNext ==
    ASSUME TaskTypeOK, Reaped, [TaskNext]_taskVars
    PROVE  [Next]_vars
<1>1. ASSUME NEW t \in Tasks, StartTask(t) \/ ApplyReturned(t)
      PROVE  [Next]_vars
  BY <1>1, StartLaunches, ReturnLaunches, TasksAssumption DEF Next
<1>2. ASSUME NEW t \in Tasks, RollbackReturned(t) \/ Report(t)
      PROVE  [Next]_vars
  BY <1>2 DEF RollbackReturned, Report
<1>3. ASSUME NEW t \in Tasks, SetVariables(t)
      PROVE  [Next]_vars
  BY <1>3 DEF SetVariables, AgentWrites, Environment, Next, Bodies, vars,
              fileVars, serverVars, runVars
<1>4. CASE GenerateConfig
  BY <1>4 DEF GenerateConfig, AgentWrites, Environment, Next, Bodies, vars
<1>5. CASE AgentStop
  BY <1>5, TasksAssumption DEF AgentStop, Environment, Next
<1>6. CASE ScriptNext
  <2>1. ASSUME NEW p \in Runs \ Tasks, OperatorRun(p)
        PROVE  Run(p)
    BY <2>1, OperatorAssumption DEF OperatorRun, Run
  <2>2. ASSUME NEW p \in Runs, Kill({p})
        PROVE  Environment
    BY <2>2 DEF Environment
  <2> QED BY <1>6, <2>1, <2>2 DEF ScriptNext, Next, Environment
<1>7. CASE UNCHANGED taskVars
  BY <1>7 DEF taskVars
<1> QED BY <1>1, <1>2, <1>3, <1>4, <1>5, <1>6, <1>7 DEF TaskNext, TaskStep

-----------------------------------------------------------------------------
(* Types, and no script left behind *)

LEMMA TaskInitType == TaskInit => TaskTypeOK /\ Reaped
  BY InitType, TasksAssumption
  DEF TaskInit, TaskTypeOK, Reaped, Active, Init, ExitCodes

LEMMA NextType == TypeOK /\ [Next]_vars => TypeOK'
<1>1. ASSUME TypeOK, NEW p \in Runs, Run(p)
      PROVE  TypeOK'
  BY <1>1, LaunchType DEF Run, fileVars, serverVars, TypeOK
<1> QED BY <1>1, StepType, EnvironmentType, StutterType DEF Next

\* The types of the goroutines' own variables.
GoroutineTypeOK ==
    /\ stage \in [Tasks -> {"idle", "apply", "rollback", "setvars", "report"}]
    /\ type \in [Tasks -> {0, 4, 5}]
    /\ exit \in [Tasks -> ExitCodes \cup {8, 9, 10, 999}]
    /\ status \in [Tasks -> {1, 4}]
    /\ told \in [Tasks -> {"nothing", "started", "success", "failure"}]

LEMMA GoroutineType == TaskTypeOK /\ [TaskNext]_taskVars => GoroutineTypeOK'
<1> SUFFICES ASSUME TaskTypeOK, [TaskNext]_taskVars
             PROVE  GoroutineTypeOK'
  OBVIOUS
<1> USE DEF TaskTypeOK, GoroutineTypeOK, Enter, Conclusion
<1>1. ASSUME NEW t \in Tasks, StartTask(t)
      PROVE  GoroutineTypeOK'
  <2>1. \A ty \in TaskTypes : [type EXCEPT ![t] = ty] \in [Tasks -> {0, 4, 5}]
    BY TaskTypesAssumption
  <2>2. 0 \in ExitCodes
    BY DEF ExitCodes
  <2> QED BY <1>1, <2>1, <2>2 DEF StartTask
<1>2. ASSUME NEW t \in Tasks, ApplyReturned(t)
      PROVE  GoroutineTypeOK'
  <2>1. code[t] \in ExitCodes
    BY TasksAssumption DEF TypeOK
  <2> QED BY <1>2, <2>1 DEF ApplyReturned, ScriptEnded, AfterApply
<1>3. ASSUME NEW t \in Tasks, RollbackReturned(t)
      PROVE  GoroutineTypeOK'
  BY <1>3 DEF RollbackReturned
<1>4. ASSUME NEW t \in Tasks, SetVariables(t)
      PROVE  GoroutineTypeOK'
  <2>1. 0 \in ExitCodes
    BY DEF ExitCodes
  <2> QED BY <1>4, <2>1 DEF SetVariables, SetVerdicts
<1>5. ASSUME NEW t \in Tasks, Report(t)
      PROVE  GoroutineTypeOK'
  BY <1>5 DEF Report, Verdict
<1>6. CASE GenerateConfig \/ ScriptNext \/ UNCHANGED taskVars
  BY <1>6 DEF GenerateConfig, ScriptNext, goroutineVars, taskVars
<1>7. CASE AgentStop
  BY <1>7 DEF AgentStop
<1> QED BY <1>1, <1>2, <1>3, <1>4, <1>5, <1>6, <1>7 DEF TaskNext, TaskStep

LEMMA ReapedStep == TaskTypeOK /\ Reaped /\ [TaskNext]_taskVars => Reaped'
<1> SUFFICES ASSUME TaskTypeOK, Reaped, [TaskNext]_taskVars
             PROVE  Reaped'
  OBVIOUS
<1> USE TasksAssumption DEF TaskTypeOK, TypeOK, Reaped, Active, Enter
<1>1. ASSUME NEW t \in Tasks, StartTask(t)
      PROVE  Reaped'
  <2>1. \A u \in Tasks : u # t => stage'[u] = stage[u] /\ pc'[u] = pc[u]
    BY <1>1 DEF StartTask, Launch, runVars
  <2>2. stage'[t] = "apply" \/ pc' = pc
    BY <1>1 DEF StartTask, runVars
  <2>3. stage[t] = "idle"
    BY <1>1 DEF StartTask
  <2> QED BY <2>1, <2>2, <2>3
<1>2. ASSUME NEW t \in Tasks, ApplyReturned(t)
      PROVE  Reaped'
  <2>1. \A u \in Tasks : u # t => stage'[u] = stage[u] /\ pc'[u] = pc[u]
    BY <1>2 DEF ApplyReturned, ScriptEnded, AfterApply, Launch, runVars
  <2>2. stage'[t] = "rollback" \/ pc'[t] = "done"
    BY <1>2 DEF ApplyReturned, ScriptEnded, AfterApply, runVars
  <2> QED BY <2>1, <2>2
<1>3. ASSUME NEW t \in Tasks, RollbackReturned(t) \/ SetVariables(t) \/ Report(t)
      PROVE  Reaped'
  BY <1>3 DEF RollbackReturned, SetVariables, Report, runVars, vars
<1>4. CASE AgentStop
  BY <1>4 DEF AgentStop, Kill
<1>5. CASE ScriptNext
  <2>1. ASSUME NEW p \in Runs, Step(p)
        PROVE  Active(p) /\ \A q \in Runs \ {p} : pc'[q] = pc[q]
    BY <2>1, StepFrame
  <2>2. ASSUME NEW p \in Runs, Step(p), NEW u \in Tasks, ~Active(u)
        PROVE  ~Active(u)'
    BY <2>1, <2>2
  <2>3. ASSUME NEW p \in Runs \ Tasks, OperatorRun(p), NEW u \in Tasks
        PROVE  pc'[u] = pc[u]
    BY <2>3 DEF OperatorRun, Launch
  <2>4. ASSUME NEW p \in Runs, Kill({p}), NEW u \in Tasks, ~Active(u)
        PROVE  ~Active(u)'
    BY <2>4 DEF Kill
  <2>5. ASSUME ServerBoot \/ ServiceRestart, NEW u \in Tasks, ~Active(u)
        PROVE  ~Active(u)'
    BY <2>5 DEF ServerBoot, ServerUp, ServerDown, Conclusive, ServiceRestart, runVars
  <2>6. stage' = stage
    BY <1>5 DEF ScriptNext, goroutineVars
  <2>7. ASSUME NEW u \in Tasks, ~Active(u)
        PROVE  ~Active(u)'
    BY <1>5, <2>2, <2>3, <2>4, <2>5, <2>7 DEF ScriptNext
  <2> QED BY <2>6, <2>7
<1>6. CASE GenerateConfig \/ UNCHANGED taskVars
  BY <1>6 DEF GenerateConfig, goroutineVars, runVars, taskVars, vars
<1> QED BY <1>1, <1>2, <1>3, <1>4, <1>5, <1>6 DEF TaskNext, TaskStep

\* Types are kept whatever tasks and operators do at the same time.
THEOREM TaskTypeCorrect == TaskSpec => [](TaskTypeOK /\ Reaped)
<1>1. TaskTypeOK /\ Reaped /\ [TaskNext]_taskVars => (TaskTypeOK /\ Reaped)'
  BY TaskNextIsNext, NextType, GoroutineType, ReapedStep
  DEF TaskTypeOK, GoroutineTypeOK
<1> QED BY <1>1, TaskInitType, PTL DEF TaskSpec

\* Tasks and operators together implement the script's specification.
THEOREM TasksImplementScript == TaskSpec => TasksUseScript
<1>1. TaskInit => Init
  BY DEF TaskInit
<1>2. TaskTypeOK /\ Reaped /\ [TaskNext]_taskVars => [Next]_vars
  BY TaskNextIsNext
<1> QED BY <1>1, <1>2, TaskTypeCorrect, PTL DEF TaskSpec, Spec, TasksUseScript

-----------------------------------------------------------------------------
(* A rollback and the verdict on the apply *)

LEMMA EarnedStep ==
    TaskTypeOK /\ RollbackEarned /\ [TaskNext]_taskVars => RollbackEarned'
<1> SUFFICES ASSUME TaskTypeOK, RollbackEarned, [TaskNext]_taskVars
             PROVE  RollbackEarned'
  OBVIOUS
<1> USE DEF TaskTypeOK, RollbackEarned, Enter, Conclusion
<1>1. ASSUME NEW t \in Tasks, StartTask(t)
      PROVE  RollbackEarned'
  <2>1. /\ \A u \in Tasks \ {t} : stage'[u] = stage[u] /\ op'[u] = op[u]
        /\ \A u \in Tasks \ {t} : exit'[u] = exit[u] /\ status'[u] = status[u]
    BY <1>1, TasksAssumption DEF StartTask, Launch, runVars, TypeOK
  <2>2. stage'[t] # "rollback"
    BY <1>1 DEF StartTask
  <2> QED BY <2>1, <2>2
<1>2. ASSUME NEW t \in Tasks, ApplyReturned(t)
      PROVE  RollbackEarned'
  <2>1. /\ \A u \in Tasks \ {t} : stage'[u] = stage[u] /\ op'[u] = op[u]
        /\ \A u \in Tasks \ {t} : exit'[u] = exit[u] /\ status'[u] = status[u]
    BY <1>2, TasksAssumption DEF ApplyReturned, Launch, runVars, TypeOK
  <2>2. stage'[t] = "rollback" => op'[t] = "rollback" /\ exit'[t] = 7 /\ status'[t] = 4
    <3>1. t \in Runs /\ op \in [Runs -> Operations]
      BY TasksAssumption DEF TypeOK
    <3>2. CASE code[t] = 7
      BY <1>2, <3>1, <3>2 DEF ApplyReturned, Launch, runVars
    <3>3. CASE code[t] # 7
      <4>1. stage'[t] = AfterApply(t)
        BY <1>2, <3>3 DEF ApplyReturned
      <4> QED BY <4>1 DEF AfterApply
    <3> QED BY <3>2, <3>3
  <2> QED BY <2>1, <2>2
<1>3. ASSUME NEW t \in Tasks, RollbackReturned(t) \/ SetVariables(t) \/ Report(t)
      PROVE  RollbackEarned'
  BY <1>3 DEF RollbackReturned, SetVariables, Report, runVars, vars
<1>4. CASE AgentStop
  BY <1>4 DEF AgentStop
<1>5. CASE ScriptNext
  <2>1. ASSUME NEW u \in Tasks
        PROVE  op'[u] = op[u]
    <3>1. ASSUME NEW p \in Runs, Step(p)
          PROVE  op'[u] = op[u]
      BY <3>1, StepFrame
    <3>2. ASSUME NEW p \in Runs \ Tasks, OperatorRun(p)
          PROVE  op'[u] = op[u]
      BY <3>2, TasksAssumption DEF OperatorRun, Launch, TypeOK
    <3> QED BY <1>5, <3>1, <3>2
            DEF ScriptNext, Kill, ServerBoot, ServerUp, ServerDown, Conclusive,
                ServiceRestart, runVars
  <2> QED BY <1>5, <2>1 DEF ScriptNext, goroutineVars
<1>6. CASE GenerateConfig \/ UNCHANGED taskVars
  BY <1>6 DEF GenerateConfig, goroutineVars, runVars, taskVars, vars
<1> QED BY <1>1, <1>2, <1>3, <1>4, <1>5, <1>6 DEF TaskNext, TaskStep

\* However many tasks and operators there are, the rollback of a failed
\* restart does not change what the platform will hear of the apply.
THEOREM RollbackAlwaysKeepsVerdict == TaskSpec => RollbackKeepsVerdict
<1>1. TaskInit => RollbackEarned
  BY DEF TaskInit, RollbackEarned
<1>2. ASSUME TaskTypeOK, RollbackEarned, [TaskNext]_taskVars, NEW t \in Tasks,
             stage[t] = "rollback", stage'[t] = "report"
      PROVE  exit'[t] = 7 /\ status'[t] = 4
  <2>1. UNCHANGED <<exit, status>>
                \/ \E u \in Tasks \ {t} : Conclusion(u, exit'[u], status'[u])
    <3>1. ASSUME NEW u \in Tasks, StartTask(u) \/ ApplyReturned(u) \/ SetVariables(u)
          PROVE  u # t
      BY <1>2, <3>1 DEF StartTask, ApplyReturned, ScriptEnded, SetVariables
    <3>2. ASSUME NEW u \in Tasks, NEW c, NEW s, Conclusion(u, c, s)
          PROVE  Conclusion(u, exit'[u], status'[u])
      BY <3>2 DEF Conclusion, TaskTypeOK
    <3> QED BY <1>2, <3>1, <3>2
            DEF TaskNext, TaskStep, StartTask, ApplyReturned, SetVariables,
                RollbackReturned, Report, GenerateConfig, AgentStop, ScriptNext,
                goroutineVars, taskVars
  <2> QED BY <1>2, <2>1 DEF Conclusion, RollbackEarned, TaskTypeOK
<1>3. TaskTypeOK /\ RollbackEarned /\ [TaskNext]_taskVars
        => [\A t \in Tasks : stage[t] = "rollback" /\ stage'[t] = "report"
              => exit'[t] = 7 /\ status'[t] = 4]_taskVars
  BY <1>2
<1> QED BY <1>1, <1>3, EarnedStep, TaskTypeCorrect, PTL
        DEF TaskSpec, RollbackKeepsVerdict

-----------------------------------------------------------------------------
(* A lone task *)

\* One task at a time and no operator.
Lone == Tasks = Runs /\ \A p, q \in Runs : p = q

LEMMA LoneIsCareful ==
    ASSUME Lone, TaskTypeOK, LoneTaskInv, [TaskNext]_taskVars
    PROVE  [CarefulNext]_vars
<1>1. ASSUME NEW t \in Tasks, StartTask(t)
      PROVE  [CarefulNext]_vars
  <2>1. t \in Runs /\ \A q \in Runs : ~Active(q)
    BY <1>1 DEF StartTask, Lone, LoneTaskInv, Reaped
  <2>2. PICK ty \in TaskTypes :
          \/ Launch(t, IF ty = 0 THEN "manual" ELSE "automatic",
                       IF ty = 4 THEN "no" ELSE "yes")
          \/ UNCHANGED runVars
    BY <1>1 DEF StartTask
  <2>3. CarefulRun(t) \/ UNCHANGED vars
    BY <1>1, <2>1, <2>2 DEF StartTask, CarefulRun, Operations, Choices, vars
  <2> QED BY <2>1, <2>3 DEF CarefulNext
<1>2. ASSUME NEW t \in Tasks, ApplyReturned(t)
      PROVE  [CarefulNext]_vars
  <2>1. t \in Runs /\ \A q \in Runs : ~Active(q)
    BY <1>2 DEF ApplyReturned, ScriptEnded, AfterApply, Lone, Active
  <2>2. code[t] = 7 => bkp # NoFile
    BY <1>2 DEF ApplyReturned, ScriptEnded, AfterApply, LoneTaskInv, BackupHeld
  <2>3. CarefulRun(t) \/ UNCHANGED vars
    BY <1>2, <2>1, <2>2 DEF ApplyReturned, ScriptEnded, AfterApply, CarefulRun, Operations, Choices, vars
  <2> QED BY <2>1, <2>3 DEF CarefulNext
<1>3. ASSUME NEW t \in Tasks, RollbackReturned(t) \/ Report(t)
      PROVE  [CarefulNext]_vars
  BY <1>3 DEF RollbackReturned, Report
<1>4. ASSUME NEW t \in Tasks, SetVariables(t)
      PROVE  [CarefulNext]_vars
  BY <1>4 DEF SetVariables, AgentWrites, Environment, CarefulNext, Bodies, vars,
              fileVars, serverVars, runVars
<1>5. CASE GenerateConfig
  BY <1>5 DEF GenerateConfig, AgentWrites, Environment, CarefulNext, Bodies
<1>6. CASE AgentStop
  BY <1>6, TasksAssumption DEF AgentStop, Environment, CarefulNext
<1>7. CASE ScriptNext
  <2>1. Runs \ Tasks = {}
    BY DEF Lone
  <2>2. ASSUME NEW p \in Runs, Kill({p})
        PROVE  Environment
    BY <2>2 DEF Environment
  <2> QED BY <1>7, <2>1, <2>2 DEF ScriptNext, CarefulNext, Environment
<1>8. CASE UNCHANGED taskVars
  BY <1>8 DEF taskVars
<1> QED BY <1>1, <1>2, <1>3, <1>4, <1>5, <1>6, <1>7, <1>8 DEF TaskNext, TaskStep

\* The parts of LoneTaskInv that are about the task's own script.
ScriptOwes == BackupHeld /\ SuccessEarned

LEMMA StepOwes ==
    ASSUME Lone, TaskTypeOK, LoneTaskInv, CarefulInv', NEW t \in Tasks, Step(t),
           UNCHANGED goroutineVars
    PROVE  ScriptOwes'
<1>1. Tasks = {t} /\ t \in Runs
  BY DEF Lone
<1>2. RunInv(t) /\ RunInv(t)'
  BY <1>1 DEF LoneTaskInv, CarefulInv
<1>3. Active(t)
  BY <1>1, StepFrame DEF TaskTypeOK
<1>4. /\ op' = op /\ stage' = stage /\ type' = type /\ status' = status
      /\ choice' = choice /\ loaded' = loaded
  BY <1>1, StepFrame
  DEF TaskTypeOK, goroutineVars, Step, Check, Fetch, Decide, Backup, Install,
      Confirm, Remove, Restore, Restart, WaitTimeout, Cleanup, Notify, Exit,
      Conclude, Goto
<1>5. CASE stage[t] # "apply"
  <2>1. ~(stage[t] = "report")
    BY <1>3 DEF LoneTaskInv, Reaped
  <2> QED BY <1>1, <1>4, <1>5, <2>1
          DEF ScriptOwes, BackupHeld, SuccessEarned, LoneTaskInv
<1>6. CASE stage[t] = "apply"
  <2>1. /\ op[t] # "rollback"
        /\ pc[t] \in {"install", "restart", "wait"} => bkp # NoFile
        /\ pc[t] = "notify" /\ code[t] = 7 => bkp # NoFile
        /\ type[t] = 5 =>
             /\ op[t] = "automatic" /\ choice[t] = "yes"
             /\ pc[t] = "notify" /\ code[t] = 0 => InForce
    BY <1>6 DEF LoneTaskInv, BackupHeld, SuccessEarned
  <2>2. SUFFICES /\ pc'[t] \in {"install", "restart", "wait"} => bkp' # NoFile
                 /\ pc'[t] \in {"notify", "done"} /\ code'[t] = 7 => bkp' # NoFile
                 /\ type[t] = 5 /\ pc'[t] \in {"notify", "done"} /\ code'[t] = 0
                      => InForce'
    BY <1>1, <1>4, <1>6, <2>1, <2>2
    DEF ScriptOwes, BackupHeld, SuccessEarned
  <2> USE <1>1, <1>2, <2>1 DEF TaskTypeOK, TypeOK, fileVars, serverVars
  <2>3. CASE Check(t)
    <3>1. 7 \notin FailingChecks /\ 0 \notin FailingChecks
      BY FailingChecksAssumption
    <3>2. pc'[t] \in {"done", "fetch"} /\ (pc'[t] = "done" => code'[t] \in FailingChecks)
      BY <2>3 DEF Check, Exit, Conclude, Goto
    <3> QED BY <3>1, <3>2
  <2>4. CASE Fetch(t) \/ Decide(t)
    BY <2>4 DEF Fetch, Decide, Exit, Conclude, Goto
  <2>5. CASE Backup(t)
    BY <2>5 DEF Backup, Goto, RunInv
  <2>6. CASE Install(t)
    BY <2>6 DEF Install, Permitted, Conclude, Goto
  <2>7. CASE Confirm(t) \/ Remove(t) \/ Restore(t)
    BY <2>7 DEF Confirm, Remove, Restore, RunInv
  <2>8. CASE Restart(t) \/ WaitTimeout(t)
    BY <2>8 DEF Restart, WaitTimeout, Exit, Conclude, Goto
  <2>9. CASE Cleanup(t)
    BY <2>9 DEF Cleanup, Goto, RunInv, InForce
  <2>10. CASE Notify(t)
    BY <2>10 DEF Notify, Goto, InForce
  <2> QED BY <2>3, <2>4, <2>5, <2>6, <2>7, <2>8, <2>9, <2>10 DEF Step
<1> QED BY <1>5, <1>6

LEMMA GoroutineOwes ==
    ASSUME Lone, TaskTypeOK, LoneTaskInv, NEW t \in Tasks, StartTask(t) \/ TaskStep(t)
    PROVE  ScriptOwes'
<1>1. Tasks = {t} /\ t \in Runs
  BY DEF Lone
<1> USE <1>1 DEF TaskTypeOK, TypeOK, Enter, fileVars, serverVars, runVars,
        ScriptOwes, BackupHeld, SuccessEarned
<1>3. CASE StartTask(t)
  <2>1. \/ /\ pc'[t] = "check" /\ stage'[t] = "apply" /\ op'[t] # "rollback"
           /\ type'[t] = 5 => op'[t] = "automatic" /\ choice'[t] = "yes"
        \/ stage'[t] = "report" /\ status'[t] = 4
    BY <1>3, TaskTypesAssumption DEF StartTask, Launch, Conclusion
  <2> QED BY <2>1
<1>4. CASE ApplyReturned(t)
  <2>2. /\ UNCHANGED <<recFile, bkp, dbFile, loaded, type>>
        /\ stage'[t] \in {"rollback", "setvars", "report"}
        /\ stage'[t] = "setvars" => type[t] = 4
        /\ status'[t] = 1 => code[t] = 0
    BY <1>4 DEF ApplyReturned, ScriptEnded, AfterApply, Conclusion
  <2>3. type[t] = 5 /\ code[t] = 0 => InForce
    BY <1>4 DEF ApplyReturned, ScriptEnded, AfterApply, LoneTaskInv
  <2> QED BY <2>2, <2>3 DEF InForce
<1>5. CASE SetVariables(t)
  <2>1. type[t] # 5
    BY <1>5 DEF SetVariables, LoneTaskInv
  <2> QED BY <1>5, <2>1 DEF SetVariables
<1>6. CASE Report(t)
  BY <1>6 DEF Report, vars
<1>7. CASE RollbackReturned(t)
  BY <1>7 DEF RollbackReturned, LoneTaskInv, RollbackEarned, vars
<1> QED BY <1>3, <1>4, <1>5, <1>6, <1>7 DEF TaskStep

LEMMA ServiceOwes ==
    ASSUME Lone, TaskTypeOK, LoneTaskInv, ServerBoot \/ ServiceRestart,
           UNCHANGED goroutineVars
    PROVE  ScriptOwes'
<1> USE DEF ScriptOwes, BackupHeld, SuccessEarned, LoneTaskInv, InForce,
            ServerBoot, ServerUp, ServerDown, Conclusive, fileVars, goroutineVars, runVars
<1>1. CASE ServiceRestart
  BY <1>1 DEF ServiceRestart
<1>2. CASE ServerBoot
  <2>1. ASSUME NEW t \in Tasks
        PROVE  /\ pc'[t] \in {"notify", "done"} =>
                    \/ pc'[t] = pc[t] /\ code'[t] = code[t]
                    \/ pc[t] = "wait" /\ pc'[t] = "notify" /\ code'[t] = 7
               /\ pc'[t] \in {"install", "restart", "wait"} => pc'[t] = pc[t]
    BY <1>2 DEF Lone, TaskTypeOK, TypeOK
  <2>2. loaded = dbFile => loaded' = dbFile'
    BY <1>2
  <2> QED BY <1>2, <2>1, <2>2
<1> QED BY <1>1, <1>2

LEMMA LoneStep ==
    Lone /\ TaskTypeOK /\ LoneTaskInv /\ [TaskNext]_taskVars => LoneTaskInv'
<1> SUFFICES ASSUME Lone, TaskTypeOK, LoneTaskInv, [TaskNext]_taskVars
             PROVE  LoneTaskInv'
  OBVIOUS
<1>1. CarefulInv'
  BY LoneIsCareful, NextCareful DEF LoneTaskInv, TaskTypeOK
<1>2. Reaped'
  BY ReapedStep DEF LoneTaskInv
<1>3. ScriptOwes'
  <2>1. CASE \E t \in Tasks : StartTask(t) \/ TaskStep(t)
    BY <2>1, GoroutineOwes
  <2>2. CASE GenerateConfig \/ UNCHANGED taskVars
    BY <2>2 DEF GenerateConfig, taskVars, goroutineVars, vars, fileVars,
                serverVars, runVars, LoneTaskInv, ScriptOwes, BackupHeld,
                SuccessEarned, InForce
  <2>3. CASE AgentStop
    BY <2>3 DEF AgentStop, ScriptOwes, BackupHeld, SuccessEarned
  <2>4. CASE ScriptNext
    <3>1. UNCHANGED goroutineVars /\ Tasks = Runs
      BY <2>4 DEF ScriptNext, Lone
    <3>3. ASSUME NEW p \in Runs, Step(p)
          PROVE  ScriptOwes'
      BY <1>1, <3>1, <3>3, StepOwes
    <3>4. ASSUME NEW p \in Runs, Kill({p})
          PROVE  ScriptOwes'
      <4>1. ASSUME NEW u \in Tasks
            PROVE  \/ pc'[u] = pc[u] /\ code'[u] = code[u]
                   \/ pc'[u] = "done" /\ code'[u] = -1
        BY <3>1, <3>4 DEF Kill, TaskTypeOK, TypeOK
      <4>2. /\ UNCHANGED <<bkp, dbFile, server, loaded, op, choice>>
            /\ UNCHANGED <<stage, type, status>>
        BY <3>1, <3>4 DEF Kill, fileVars, serverVars, goroutineVars
      <4>3. -1 # 7 /\ -1 # 0
        OBVIOUS
      <4>4. BackupHeld'
        BY <4>1, <4>2, <4>3 DEF LoneTaskInv, BackupHeld
      <4>5. SuccessEarned'
        BY <4>1, <4>2, <4>3 DEF LoneTaskInv, SuccessEarned, InForce
      <4> QED BY <4>4, <4>5 DEF ScriptOwes
    <3>5. CASE ServerBoot \/ ServiceRestart
      BY <3>1, <3>5, ServiceOwes
    <3>6. Runs \ Tasks = {}
      BY <3>1
    <3> QED BY <2>4, <3>3, <3>4, <3>5, <3>6 DEF ScriptNext
  <2> QED BY <2>1, <2>2, <2>3, <2>4 DEF TaskNext
<1>4. RollbackEarned'
  BY EarnedStep DEF LoneTaskInv
<1> QED BY <1>1, <1>2, <1>3, <1>4 DEF LoneTaskInv, ScriptOwes

LEMMA LoneInit == TaskInit /\ InitialFile # NoFile => LoneTaskInv
<1>1. TaskInit /\ InitialFile # NoFile => CarefulInv
  BY InitCareful DEF TaskInit
<1> QED BY <1>1, TaskInitType
        DEF TaskInit, Init, LoneTaskInv, RollbackEarned, BackupHeld,
            SuccessEarned, InForce

THEOREM LoneTaskInvariant ==
    ASSUME Lone, InitialFile # NoFile
    PROVE  TaskSpec => [](TaskTypeOK /\ LoneTaskInv)
<1>1. TaskTypeOK /\ LoneTaskInv /\ [TaskNext]_taskVars => LoneTaskInv'
  BY LoneStep
<1>2. TaskInit => LoneTaskInv
  BY LoneInit
<1> QED BY <1>1, <1>2, TaskTypeCorrect, PTL DEF TaskSpec

\* A lone task uses the script carefully ...
THEOREM LoneTaskIsCareful ==
    ASSUME Lone, InitialFile # NoFile
    PROVE  TaskSpec => TasksAreCareful
<1>1. TaskInit => Init
  BY DEF TaskInit
<1>2. TaskTypeOK /\ LoneTaskInv /\ [TaskNext]_taskVars => [CarefulNext]_vars
  BY LoneIsCareful
<1> QED BY <1>1, <1>2, LoneTaskInvariant, PTL
        DEF TaskSpec, CarefulSpec, TasksAreCareful

\* ... so there is always a way back to a body the service has come up on.
THEOREM LoneTaskRecoverable ==
    ASSUME Lone, InitialFile # NoFile
    PROVE  TaskSpec => []Recoverable
  BY LoneTaskIsCareful, AlwaysRecoverable, PTL DEF TasksAreCareful

\* The platform hears of success for an apply with a restart only when the
\* running service has read the live file.
THEOREM LoneTaskSuccess ==
    ASSUME Lone, InitialFile # NoFile
    PROVE  TaskSpec => SuccessIsInForce
<1>1. ASSUME TaskTypeOK, LoneTaskInv, [TaskNext]_taskVars, NEW t \in Tasks,
             type[t] = 5, told[t] # "success", told'[t] = "success"
      PROVE  server = "up" /\ loaded = dbFile /\ bkp = NoFile
  <2>1. Report(t) /\ server = "up" /\ status[t] = 1
    <3>1. ASSUME NEW u \in Tasks, StartTask(u)
          PROVE  FALSE
      BY <1>1, <3>1 DEF StartTask, TaskTypeOK
    <3>2. ASSUME NEW u \in Tasks, ApplyReturned(u) \/ RollbackReturned(u) \/ SetVariables(u)
          PROVE  FALSE
      BY <1>1, <3>2 DEF ApplyReturned, ScriptEnded, RollbackReturned, SetVariables
    <3>3. ASSUME NEW u \in Tasks, Report(u)
          PROVE  u = t /\ server = "up" /\ status[t] = 1
      BY <1>1, <3>3 DEF Report, Verdict, TaskTypeOK
    <3>4. ASSUME GenerateConfig \/ AgentStop \/ ScriptNext \/ UNCHANGED taskVars
          PROVE  FALSE
      BY <1>1, <3>4 DEF GenerateConfig, AgentStop, ScriptNext, goroutineVars, taskVars
    <3> QED BY <1>1, <3>1, <3>2, <3>3, <3>4 DEF TaskNext, TaskStep
  <2> QED BY <1>1, <2>1 DEF Report, LoneTaskInv, SuccessEarned, InForce
<1>2. TaskTypeOK /\ LoneTaskInv /\ [TaskNext]_taskVars
        => [\A t \in Tasks :
              type[t] = 5 /\ told[t] # "success" /\ told'[t] = "success"
                => server = "up" /\ loaded = dbFile /\ bkp = NoFile]_taskVars
  BY <1>1
<1> QED BY <1>2, LoneTaskInvariant, PTL DEF TaskSpec, SuccessIsInForce

-----------------------------------------------------------------------------
(* The length of a task *)

\* The most steps of ProcessTask that a task still takes.
StagesLeft(t) ==
    CASE stage[t] = "apply"    -> 4
      [] stage[t] = "rollback" -> 3
      [] stage[t] = "setvars"  -> 2
      [] stage[t] = "report"   -> 1
      [] OTHER                 -> 0

\* With the commands of its scripts, of which each has at most nine to go.
TaskStepsLeft(t) == 10 * StagesLeft(t) + CommandsLeft(t)

\* A task takes a bounded number of steps, the commands of its apply and of at
\* most one rollback included, whatever the service, the operators and the
\* other tasks do: no failure makes it run a script again.  (That the steps can
\* be taken is what TaskEnds adds.)
TasksBounded ==
    [][\A t \in Tasks :
         /\ TaskStep(t) \/ Step(t) => TaskStepsLeft(t)' < TaskStepsLeft(t)
         /\ stage[t] # "idle" => TaskStepsLeft(t)' <= TaskStepsLeft(t)]_taskVars

LEMMA StageTakesOff ==
    ASSUME TaskTypeOK, NEW t \in Tasks, TaskStep(t)
    PROVE  StagesLeft(t)' < StagesLeft(t)
<1> USE DEF StagesLeft, Enter, TaskTypeOK
<1>1. CASE ApplyReturned(t)
  BY <1>1 DEF ApplyReturned, ScriptEnded, AfterApply
<1>2. CASE RollbackReturned(t) \/ SetVariables(t) \/ Report(t)
  BY <1>2 DEF RollbackReturned, SetVariables, Report
<1> QED BY <1>1, <1>2 DEF TaskStep

\* Nobody else launches a script for a task or moves it on to another stage.
LEMMA OthersKeepStage ==
    ASSUME TaskTypeOK, NEW t \in Tasks, ~StartTask(t), ~TaskStep(t),
           [TaskNext]_taskVars
    PROVE  /\ stage'[t] \in {stage[t], "idle"}
           /\ ~Active(t) => ~Active(t)'
<1> USE TasksAssumption DEF TaskTypeOK, TypeOK, Enter, Active
<1>1. ASSUME NEW u \in Tasks \ {t}, StartTask(u) \/ TaskStep(u)
      PROVE  stage'[t] = stage[t] /\ pc'[t] = pc[t]
  BY <1>1
  DEF StartTask, TaskStep, ApplyReturned, ScriptEnded, RollbackReturned,
      SetVariables, Report, Launch, runVars, vars
<1>2. CASE AgentStop
  BY <1>2 DEF AgentStop, Kill
<1>3. CASE ScriptNext
  <2>1. stage' = stage
    BY <1>3 DEF ScriptNext, goroutineVars
  <2>2. ASSUME NEW p \in Runs, Step(p), ~Active(t)
        PROVE  ~Active(t)'
    BY <2>2, StepFrame
  <2>3. ASSUME NEW p \in Runs \ Tasks, OperatorRun(p)
        PROVE  pc'[t] = pc[t]
    BY <2>3 DEF OperatorRun, Launch
  <2>4. ASSUME NEW p \in Runs, Kill({p}), ~Active(t)
        PROVE  ~Active(t)'
    BY <2>4 DEF Kill
  <2>5. ASSUME ServerBoot \/ ServiceRestart, ~Active(t)
        PROVE  ~Active(t)'
    BY <2>5 DEF ServerBoot, ServerUp, ServerDown, Conclusive, ServiceRestart, runVars
  <2> QED BY <1>3, <2>1, <2>2, <2>3, <2>4, <2>5 DEF ScriptNext
<1>4. CASE GenerateConfig \/ UNCHANGED taskVars
  BY <1>4 DEF GenerateConfig, goroutineVars, runVars, taskVars, vars
<1> QED BY <1>1, <1>2, <1>3, <1>4 DEF TaskNext

\* ProcessTask comes to its report through one apply and at most one rollback,
\* for any number of tasks and operators.
THEOREM TasksAreBounded == TaskSpec => TasksBounded
<1>1. ASSUME TaskTypeOK, Reaped, [TaskNext]_taskVars, NEW t \in Tasks
      PROVE  /\ TaskStep(t) \/ Step(t) => TaskStepsLeft(t)' < TaskStepsLeft(t)
             /\ stage[t] # "idle" => TaskStepsLeft(t)' <= TaskStepsLeft(t)
  <2> USE <1>1
  <2>1. /\ t \in Runs
        /\ TypeOK
        /\ [Next]_vars
    BY TasksAssumption, TaskNextIsNext DEF TaskTypeOK
  <2>2. /\ CommandsLeft(t) \in 0..9 /\ CommandsLeft(t)' \in 0..9
        /\ StagesLeft(t) \in 0..4 /\ StagesLeft(t)' \in 0..4
    BY DEF CommandsLeft, StagesLeft
  <2>3. CASE TaskStep(t)
    BY <2>2, <2>3, StageTakesOff DEF TaskStepsLeft
  <2>4. CASE StartTask(t)
    <3>1. stage[t] = "idle" /\ ~Active(t)
      BY <2>4 DEF StartTask, Reaped
    <3>2. ~Step(t)
      BY <2>1, <3>1, StepFrame
    <3>3. ~TaskStep(t)
      BY <3>1
      DEF TaskStep, ApplyReturned, ScriptEnded, RollbackReturned, SetVariables, Report
    <3> QED BY <3>1, <3>2, <3>3
  <2>5. CASE ~StartTask(t) /\ ~TaskStep(t)
    <3>1. StagesLeft(t)' <= StagesLeft(t)
      BY <2>5, OthersKeepStage DEF StagesLeft
    <3>2. Step(t) => CommandsLeft(t)' < CommandsLeft(t)
      BY <2>1, CommandTakesOff
    <3>3. CommandsLeft(t)' <= CommandsLeft(t)
      <4>1. CASE Active(t)
        BY <2>1, <2>2, <3>2, <4>1, OthersLeaveIt
      <4>2. CASE ~Active(t)
        <5>1. ~Active(t)'
          BY <2>5, <4>2, OthersKeepStage
        <5>2. CommandsLeft(t)' = 0
          BY <5>1 DEF Active, CommandsLeft
        <5> QED BY <2>2, <5>2
      <4> QED BY <4>1, <4>2
    <3> QED BY <2>2, <2>5, <3>1, <3>2, <3>3 DEF TaskStepsLeft
  <2> QED BY <2>3, <2>4, <2>5
<1>2. TaskTypeOK /\ Reaped /\ [TaskNext]_taskVars
        => [\A t \in Tasks :
              /\ TaskStep(t) \/ Step(t) => TaskStepsLeft(t)' < TaskStepsLeft(t)
              /\ stage[t] # "idle" => TaskStepsLeft(t)' <= TaskStepsLeft(t)]_taskVars
  BY <1>1
<1> QED BY <1>2, TaskTypeCorrect, PTL DEF TaskSpec, TasksBounded
=============================================================================
