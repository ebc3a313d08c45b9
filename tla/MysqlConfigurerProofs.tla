----------------------- MODULE MysqlConfigurerProofs -----------------------
(***************************************************************************)
(* Proofs about mysqlconfigurer.sh as modelled in MysqlConfigurer: types   *)
(* under any use, and, under careful use of an installation that starts    *)
(* from a live file, that the way back always leads to a body on which the *)
(* service has come up.                                                    *)
(***************************************************************************)
EXTENDS MysqlConfigurer, TLAPS

\* A step of one run changes only the control of that run, among the runs.
LEMMA ConcludeType ==
    ASSUME TypeOK, NEW p \in Runs, NEW l \in Labels, NEW c \in ExitCodes,
           Conclude(p, l, c)
    PROVE  /\ pc' \in [Runs -> Labels]
           /\ op' \in [Runs -> Operations]
           /\ choice' \in [Runs -> Choices]
           /\ code' \in [Runs -> ExitCodes]
  BY DEF TypeOK, Conclude

LEMMA GotoType ==
    ASSUME TypeOK, NEW p \in Runs, NEW l \in Labels, Goto(p, l)
    PROVE  /\ pc' \in [Runs -> Labels]
           /\ op' \in [Runs -> Operations]
           /\ choice' \in [Runs -> Choices]
           /\ code' \in [Runs -> ExitCodes]
  BY DEF TypeOK, Goto

LEMMA LaunchType ==
    ASSUME TypeOK, NEW p \in Runs, NEW o \in Operations, NEW ch \in Choices,
           Launch(p, o, ch)
    PROVE  /\ pc' \in [Runs -> Labels]
           /\ op' \in [Runs -> Operations]
           /\ choice' \in [Runs -> Choices]
           /\ code' \in [Runs -> ExitCodes]
  BY DEF TypeOK, Launch, Labels

-----------------------------------------------------------------------------
(* Types *)

LEMMA InitType == Init => TypeOK
  BY InitialFileAssumption, StartableAssumption
  DEF Init, TypeOK, Files, Bodies, Labels, Operations, Choices, ExitCodes

LEMMA StepType ==
    ASSUME TypeOK, NEW p \in Runs, Step(p)
    PROVE  TypeOK'
<1> USE DEF serverVars, fileVars
<1>1. CASE Check(p)
  <2>1. ASSUME NEW c \in FailingChecks, Exit(p, c)
        PROVE  TypeOK'
    <3>1. c \in ExitCodes /\ "done" \in Labels
      BY FailingChecksAssumption DEF ExitCodes, Labels
    <3> QED BY <1>1, <2>1, <3>1, ConcludeType DEF Exit, Check, TypeOK
  <2>2. ASSUME NEW l \in {"confirm", "fetch"}, Goto(p, l)
        PROVE  TypeOK'
    <3>1. l \in Labels
      BY DEF Labels
    <3> QED BY <1>1, <2>2, <3>1, GotoType DEF Check, TypeOK
  <2> QED BY <1>1, <2>1, <2>2 DEF Check
<1>2. CASE Fetch(p)
  <2>1. "decide" \in Labels
    BY DEF Labels
  <2>2. recFile' \in Files
    BY <1>2 DEF Fetch, TypeOK, Files, Bodies
  <2> QED BY <1>2, <2>1, <2>2, GotoType DEF Fetch, TypeOK
<1>3. CASE Decide(p)
  <2>1. {0, 1, 5} \subseteq ExitCodes /\ {"done", "backup"} \subseteq Labels
    BY DEF ExitCodes, Labels
  <2> QED BY <1>3, <2>1, ConcludeType, GotoType DEF Decide, Exit, TypeOK
<1>4. CASE Backup(p)
  <2>1. "install" \in Labels
    BY DEF Labels
  <2> QED BY <1>4, <2>1, GotoType DEF Backup, TypeOK
<1>5. CASE Install(p)
  <2>1. 0 \in ExitCodes /\ {"restart", "notify"} \subseteq Labels
    BY DEF ExitCodes, Labels
  <2> QED BY <1>5, <2>1, ConcludeType, GotoType DEF Install, TypeOK
<1>6. CASE Confirm(p)
  <2>1. 5 \in ExitCodes /\ {"remove", "done"} \subseteq Labels
    BY DEF ExitCodes, Labels
  <2> QED BY <1>6, <2>1, ConcludeType, GotoType DEF Confirm, Exit, TypeOK
<1>7. CASE Remove(p)
  <2>1. "restore" \in Labels /\ NoFile \in Files
    BY DEF Labels, Files
  <2> QED BY <1>7, <2>1, GotoType DEF Remove, TypeOK
<1>8. CASE Restore(p)
  <2>1. "restart" \in Labels
    BY DEF Labels
  <2> QED BY <1>8, <2>1, GotoType DEF Restore, TypeOK
<1>9. CASE Restart(p)
  <2>1. 4 \in ExitCodes /\ {"wait", "done"} \subseteq Labels
    BY DEF ExitCodes, Labels
  <2> QED BY <1>9, <2>1, ConcludeType, GotoType DEF Restart, Exit, TypeOK
<1>10. CASE WaitTimeout(p)
  <2>1. 6 \in ExitCodes /\ "notify" \in Labels
    BY DEF ExitCodes, Labels
  <2> QED BY <1>10, <2>1, ConcludeType DEF WaitTimeout, TypeOK
<1>11. CASE Cleanup(p)
  <2>1. "notify" \in Labels /\ NoFile \in Files
    BY DEF Labels, Files
  <2> QED BY <1>11, <2>1, GotoType DEF Cleanup, TypeOK
<1>12. CASE Notify(p)
  <2>1. "done" \in Labels
    BY DEF Labels
  <2> QED BY <1>12, <2>1, GotoType DEF Notify, TypeOK
<1> QED BY <1>1, <1>2, <1>3, <1>4, <1>5, <1>6, <1>7, <1>8, <1>9, <1>10,
           <1>11, <1>12 DEF Step

LEMMA EnvironmentType ==
    ASSUME TypeOK, Environment
    PROVE  TypeOK'
<1> USE DEF fileVars, serverVars, runVars
<1>1. CASE ServerBoot
  <2>1. {"cleanup", "notify"} \subseteq Labels /\ {0, 7} \subseteq ExitCodes
    BY DEF Labels, ExitCodes
  <2>2. dbFile \in Startable => dbFile \in Bodies
    BY StartableAssumption DEF Bodies
  <2>3. proven' \subseteq Bodies
    BY <1>1, <2>2 DEF ServerBoot, ServerUp, ServerDown, TypeOK
  <2>4. pc' \in [Runs -> Labels] /\ code' \in [Runs -> ExitCodes]
    BY <1>1, <2>1 DEF ServerBoot, ServerUp, ServerDown, Conclusive, TypeOK
  <2> QED BY <1>1, <2>3, <2>4
          DEF ServerBoot, ServerUp, ServerDown, Conclusive, TypeOK
<1>2. CASE ServiceRestart
  BY <1>2 DEF ServiceRestart, TypeOK
<1>3. CASE AgentWrites
  BY <1>3 DEF AgentWrites, TypeOK, Files
<1>4. ASSUME NEW S \in SUBSET Runs, Kill(S)
      PROVE  TypeOK'
  <2>1. "done" \in Labels /\ -1 \in ExitCodes
    BY DEF Labels, ExitCodes
  <2> QED BY <1>4, <2>1 DEF Kill, TypeOK
<1> QED BY <1>1, <1>2, <1>3, <1>4 DEF Environment

LEMMA StutterType == TypeOK /\ UNCHANGED vars => TypeOK'
  BY DEF vars, fileVars, serverVars, runVars, TypeOK

\* Every variable stays in its type however the script is run.
THEOREM TypeCorrect == Spec => []TypeOK
<1>1. TypeOK /\ [Next]_vars => TypeOK'
  <2>1. ASSUME TypeOK, NEW p \in Runs, Run(p)
        PROVE  TypeOK'
    BY <2>1, LaunchType DEF Run, fileVars, serverVars, TypeOK
  <2> QED BY <2>1, StepType, EnvironmentType, StutterType DEF Next
<1> QED BY <1>1, InitType, PTL DEF Spec

-----------------------------------------------------------------------------
(* Careful use *)

\* A step of p leaves the control of the other runs, and what has been
\* learnt about the bodies, alone.
LEMMA StepFrame ==
    ASSUME TypeOK, NEW p \in Runs, Step(p)
    PROVE  /\ Active(p)
           /\ op' = op
           /\ proven' = proven
           /\ loaded' = loaded
           /\ \A q \in Runs \ {p} : pc'[q] = pc[q] /\ code'[q] = code[q]
<1> USE DEF Active, Exit, Conclude, Goto, serverVars, TypeOK
<1>1. CASE Check(p) \/ Fetch(p) \/ Decide(p) \/ Backup(p)
  BY <1>1 DEF Check, Fetch, Decide, Backup
<1>2. CASE Install(p) \/ Confirm(p) \/ Remove(p) \/ Restore(p)
  BY <1>2 DEF Install, Confirm, Remove, Restore
<1>3. CASE Restart(p) \/ WaitTimeout(p) \/ Cleanup(p) \/ Notify(p)
  BY <1>3 DEF Restart, WaitTimeout, Cleanup, Notify
<1> QED BY <1>1, <1>2, <1>3 DEF Step

\* While p is active the others are not, and what RunInv asks of an inactive
\* run does not depend on the files.
LEMMA OtherRuns ==
    ASSUME TypeOK, CarefulInv, NEW p \in Runs, Step(p)
    PROVE  /\ OneRun'
           /\ \A q \in Runs \ {p} : RunInv(q)'
<1>1. /\ Active(p)
      /\ op' = op
      /\ \A q \in Runs \ {p} : pc'[q] = pc[q] /\ code'[q] = code[q]
  BY StepFrame
<1>2. \A q \in Runs \ {p} : pc[q] \in {"idle", "done"}
  BY <1>1 DEF CarefulInv, OneRun, Active
<1>3. OneRun'
  BY <1>1, <1>2 DEF OneRun, Active
<1>4. ASSUME NEW q \in Runs \ {p}
      PROVE  RunInv(q)'
  <2>1. RunInv(q)
    BY DEF CarefulInv
  <2> QED BY <1>1, <1>2, <2>1 DEF RunInv
<1> QED BY <1>3, <1>4

LEMMA StepCareful ==
    ASSUME TypeOK, CarefulInv, NEW p \in Runs, Step(p)
    PROVE  CarefulInv'
<1>1. proven' \subseteq Startable
  BY StepFrame DEF CarefulInv
<1>2. OneRun' /\ \A q \in Runs \ {p} : RunInv(q)'
  BY OtherRuns
<1>3. /\ RunInv(p)
      /\ BackupProven
      /\ LiveProven
  BY DEF CarefulInv
<1>4. BackupProven' /\ LiveProven' /\ RunInv(p)'
  <2> USE <1>3 DEF BackupProven, LiveProven, RunInv, TypeOK, fileVars, serverVars
  <2>1. CASE Check(p)
    <3>1. \A c \in FailingChecks : c # 7
      BY FailingChecksAssumption
    <3>2. ASSUME NEW c \in FailingChecks, Exit(p, c)
          PROVE  RunInv(p)'
      BY <2>1, <3>1, <3>2 DEF Check, Exit, Conclude
    <3>3. ASSUME Goto(p, IF op[p] = "rollback" THEN "confirm" ELSE "fetch")
          PROVE  RunInv(p)'
      BY <2>1, <3>3 DEF Check, Goto
    <3> QED BY <2>1, <3>2, <3>3 DEF Check
  <2>2. CASE Fetch(p)
    BY <2>2 DEF Fetch, Goto
  <2>3. CASE Decide(p)
    BY <2>3 DEF Decide, Exit, Conclude, Goto
  <2>4. CASE Backup(p)
    <3>1. NoFile \notin proven
      BY BodiesAssumption
    <3> QED BY <2>4, <3>1 DEF Backup, Goto
  <2>5. CASE Install(p)
    BY <2>5 DEF Install, Conclude, Goto
  <2>6. CASE Confirm(p)
    BY <2>6 DEF Confirm, Exit, Conclude, Goto
  <2>7. CASE Remove(p)
    BY <2>7 DEF Remove, Goto
  <2>8. CASE Restore(p)
    BY <2>8 DEF Restore, Goto
  <2>9. CASE Restart(p)
    BY <2>9 DEF Restart, Exit, Conclude, Goto
  <2>10. CASE WaitTimeout(p)
    BY <2>10 DEF WaitTimeout, Conclude
  <2>11. CASE Cleanup(p)
    BY <2>11 DEF Cleanup, Goto
  <2>12. CASE Notify(p)
    BY <2>12 DEF Notify, Goto
  <2> QED BY <2>1, <2>2, <2>3, <2>4, <2>5, <2>6, <2>7, <2>8, <2>9, <2>10,
             <2>11, <2>12 DEF Step
<1> QED BY <1>1, <1>2, <1>4 DEF CarefulInv

LEMMA EnvironmentCareful ==
    ASSUME TypeOK, CarefulInv, Environment
    PROVE  CarefulInv'
<1>1. CASE ServerBoot
  <2> USE <1>1 DEF ServerBoot, ServerUp, ServerDown, Conclusive, TypeOK, fileVars
  <2>1. NoFile \notin proven /\ proven \subseteq proven'
    BY BodiesAssumption
  <2>2. proven' \subseteq Startable
    BY DEF CarefulInv
  <2>3. BackupProven' /\ LiveProven'
    BY <2>1 DEF CarefulInv, BackupProven, LiveProven
  <2>4. OneRun'
    BY DEF CarefulInv, OneRun, Active
  <2>5. ASSUME NEW q \in Runs
        PROVE  RunInv(q)'
    <3>1. RunInv(q) /\ proven \subseteq Startable
      BY DEF CarefulInv
    <3> QED BY <2>1, <3>1 DEF RunInv
  <2> QED BY <2>2, <2>3, <2>4, <2>5 DEF CarefulInv
<1>2. CASE ServiceRestart
  BY <1>2 DEF ServiceRestart, fileVars, runVars, CarefulInv, BackupProven,
              LiveProven, OneRun, Active, RunInv
<1>3. CASE AgentWrites
  <2>1. recFile' # NoFile
    BY <1>3, BodiesAssumption DEF AgentWrites
  <2> QED BY <1>3, <2>1
          DEF AgentWrites, serverVars, runVars, CarefulInv, BackupProven,
              LiveProven, OneRun, Active, RunInv
<1>4. ASSUME NEW S \in SUBSET Runs, Kill(S)
      PROVE  CarefulInv'
  <2>1. ASSUME NEW q \in Runs
        PROVE  RunInv(q)' /\ (Active(q)' => Active(q))
    <3>1. RunInv(q)
      BY DEF CarefulInv
    <3> QED BY <1>4, <3>1
            DEF Kill, RunInv, Active, TypeOK, fileVars, serverVars
  <2>2. OneRun'
    BY <2>1 DEF CarefulInv, OneRun
  <2> QED BY <1>4, <2>1, <2>2
          DEF Kill, fileVars, serverVars, CarefulInv, BackupProven, LiveProven
<1> QED BY <1>1, <1>2, <1>3, <1>4 DEF Environment

LEMMA RunCareful ==
    ASSUME TypeOK, CarefulInv, NEW p \in Runs, CarefulRun(p)
    PROVE  CarefulInv'
<1>1. PICK o \in Operations, ch \in Choices :
        /\ o = "rollback" => bkp # NoFile
        /\ Launch(p, o, ch)
  BY DEF CarefulRun
<1>2. ASSUME NEW q \in Runs
      PROVE  RunInv(q)' /\ (Active(q)' => q = p)
  <2>1. RunInv(q) /\ ~Active(q)
    BY DEF CarefulInv, CarefulRun
  <2> QED BY <1>1, <2>1
          DEF CarefulRun, Launch, RunInv, Active, TypeOK, fileVars, serverVars
<1>3. OneRun'
  BY <1>2 DEF OneRun
<1> QED BY <1>2, <1>3
        DEF CarefulRun, fileVars, serverVars, CarefulInv, BackupProven, LiveProven

LEMMA InitCareful == Init /\ InitialFile # NoFile => CarefulInv
  BY InitialFileAssumption
  DEF Init, CarefulInv, BackupProven, LiveProven, OneRun, Active, RunInv

LEMMA NextCareful == TypeOK /\ CarefulInv /\ [CarefulNext]_vars => (TypeOK /\ CarefulInv)'
<1>1. ASSUME TypeOK, CarefulInv, NEW p \in Runs, CarefulRun(p)
      PROVE  (TypeOK /\ CarefulInv)'
  <2>1. TypeOK'
    BY <1>1, LaunchType DEF CarefulRun, fileVars, serverVars, TypeOK
  <2> QED BY <1>1, <2>1, RunCareful
<1>2. ASSUME TypeOK, CarefulInv, NEW p \in Runs, Step(p)
      PROVE  (TypeOK /\ CarefulInv)'
  BY <1>2, StepType, StepCareful
<1>3. ASSUME TypeOK, CarefulInv, Environment
      PROVE  (TypeOK /\ CarefulInv)'
  BY <1>3, EnvironmentType, EnvironmentCareful
<1>4. ASSUME TypeOK, CarefulInv, UNCHANGED vars
      PROVE  (TypeOK /\ CarefulInv)'
  BY <1>4, StutterType
  DEF vars, fileVars, serverVars, runVars, CarefulInv, BackupProven,
      LiveProven, OneRun, Active, RunInv
<1> QED BY <1>1, <1>2, <1>3, <1>4 DEF CarefulNext

\* Under careful use the invariant holds of any installation that starts
\* from a live file.
THEOREM CarefulInvariant ==
    ASSUME InitialFile # NoFile
    PROVE  CarefulSpec => [](TypeOK /\ CarefulInv)
<1>1. Init => TypeOK /\ CarefulInv
  BY InitType, InitCareful
<1> QED BY <1>1, NextCareful, PTL DEF CarefulSpec

\* At every moment, whatever is killed or restarted, a rollback would lead to
\* a body on which the service has come up.
THEOREM AlwaysRecoverable ==
    ASSUME InitialFile # NoFile
    PROVE  CarefulSpec => []Recoverable
<1>1. CarefulInv => Recoverable
  BY DEF CarefulInv, BackupProven, LiveProven, Recoverable
<1> QED BY <1>1, CarefulInvariant, PTL

\* Every rollback restarts the service on a body it has come up on.
THEOREM RollbackAlwaysProven ==
    ASSUME InitialFile # NoFile
    PROVE  CarefulSpec => []RollbackProven
<1>1. CarefulInv => RollbackProven
  BY DEF CarefulInv, RunInv, RollbackProven
<1> QED BY <1>1, CarefulInvariant, PTL

\* The backup goes only when the running service has read the live file.
THEOREM BackupNeverLost ==
    ASSUME InitialFile # NoFile
    PROVE  CarefulSpec => BackupDropped
<1>1. ASSUME TypeOK, CarefulInv, [CarefulNext]_vars, bkp # NoFile, bkp' = NoFile
      PROVE  loaded = dbFile
  <2>1. PICK p \in Runs : Cleanup(p)
    <3>1. ASSUME NEW p \in Runs, Step(p)
          PROVE  Cleanup(p)
      BY <1>1, <3>1
      DEF Step, Check, Fetch, Decide, Backup, Install, Confirm, Remove,
          Restore, Restart, WaitTimeout, Notify, fileVars
    <3> QED BY <1>1, <3>1
            DEF CarefulNext, CarefulRun, Environment, ServerBoot, ServerUp,
                ServerDown, ServiceRestart, AgentWrites, Kill, vars, fileVars
  <2> QED BY <1>1, <2>1 DEF Cleanup, CarefulInv, RunInv
<1>2. TypeOK /\ CarefulInv /\ [CarefulNext]_vars
        => [bkp # NoFile /\ bkp' = NoFile => loaded = dbFile]_vars
  BY <1>1
<1> QED BY <1>2, CarefulInvariant, PTL DEF CarefulSpec, BackupDropped

-----------------------------------------------------------------------------
(* The length of a run *)

\* The most commands that a run still executes.
CommandsLeft(p) ==
    CASE pc[p] = "check"                -> 9
      [] pc[p] = "fetch"                -> 8
      [] pc[p] \in {"decide", "confirm"} -> 7
      [] pc[p] \in {"backup", "remove"}  -> 6
      [] pc[p] \in {"install", "restore"} -> 5
      [] pc[p] = "restart"              -> 4
      [] pc[p] = "wait"                 -> 3
      [] pc[p] = "cleanup"              -> 2
      [] pc[p] = "notify"               -> 1
      [] OTHER                          -> 0

\* No run of the script goes back: each of its own commands takes it nearer to
\* its exit, and neither the service, the agent, a kill nor another run, of
\* which there may be any number, takes it away from it.  (That its commands
\* can be executed is what RunEnds adds.)
RunsBounded ==
    [][\A p \in Runs :
         /\ Step(p) => CommandsLeft(p)' < CommandsLeft(p)
         /\ Active(p) => CommandsLeft(p)' <= CommandsLeft(p)]_vars

LEMMA CommandTakesOff ==
    ASSUME TypeOK, NEW p \in Runs, Step(p)
    PROVE  CommandsLeft(p)' < CommandsLeft(p)
<1> USE DEF CommandsLeft, Goto, Exit, Conclude, TypeOK
<1>1. CASE Check(p) \/ Fetch(p) \/ Decide(p) \/ Backup(p)
  BY <1>1 DEF Check, Fetch, Decide, Backup
<1>2. CASE Install(p) \/ Confirm(p) \/ Remove(p) \/ Restore(p)
  BY <1>2 DEF Install, Confirm, Remove, Restore
<1>3. CASE Restart(p) \/ WaitTimeout(p) \/ Cleanup(p) \/ Notify(p)
  BY <1>3 DEF Restart, WaitTimeout, Cleanup, Notify
<1> QED BY <1>1, <1>2, <1>3 DEF Step

LEMMA OthersLeaveIt ==
    ASSUME TypeOK, NEW p \in Runs, Active(p), ~Step(p), [Next]_vars
    PROVE  CommandsLeft(p)' <= CommandsLeft(p)
<1>1. CASE pc'[p] = pc[p]
  BY <1>1 DEF CommandsLeft
<1>2. CASE \E q \in Runs : Run(q) \/ Step(q)
  <2>1. PICK q \in Runs \ {p} : Run(q) \/ Step(q)
    BY <1>2 DEF Run
  <2>2. pc'[p] = pc[p]
    BY <2>1, StepFrame DEF Run, Launch, TypeOK
  <2> QED BY <1>1, <2>2
<1>3. CASE ServerBoot
  <2>1. pc'[p] = pc[p] \/ (pc[p] = "wait" /\ pc'[p] \in {"cleanup", "notify"})
    BY <1>3 DEF ServerBoot, ServerUp, ServerDown, Conclusive
  <2> QED BY <1>1, <2>1 DEF CommandsLeft
<1>4. CASE ServiceRestart \/ AgentWrites \/ UNCHANGED vars
  BY <1>1, <1>4 DEF ServiceRestart, AgentWrites, runVars, vars
<1>5. CASE \E S \in SUBSET Runs : Kill(S)
  <2>1. pc'[p] = pc[p] \/ pc'[p] = "done"
    BY <1>5 DEF Kill
  <2> QED BY <1>1, <2>1 DEF CommandsLeft
<1> QED BY <1>2, <1>3, <1>4, <1>5 DEF Next, Environment

\* mysqlconfigurer.sh executes at most nine commands from its start to its exit,
\* under any use.
THEOREM RunsAreBounded == Spec => RunsBounded
<1>1. ASSUME TypeOK, [Next]_vars, NEW p \in Runs
      PROVE  /\ Step(p) => CommandsLeft(p)' < CommandsLeft(p)
             /\ Active(p) => CommandsLeft(p)' <= CommandsLeft(p)
  <2>1. CommandsLeft(p) \in 0..9 /\ CommandsLeft(p)' \in 0..9
    BY DEF CommandsLeft
  <2> QED BY <1>1, <2>1, CommandTakesOff, OthersLeaveIt
<1>2. TypeOK /\ [Next]_vars
        => [\A p \in Runs :
              /\ Step(p) => CommandsLeft(p)' < CommandsLeft(p)
              /\ Active(p) => CommandsLeft(p)' <= CommandsLeft(p)]_vars
  BY <1>1
<1> QED BY <1>2, TypeCorrect, PTL DEF Spec, RunsBounded
=============================================================================
