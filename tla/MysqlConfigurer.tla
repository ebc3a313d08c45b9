--------------------------- MODULE MysqlConfigurer ---------------------------
(***************************************************************************)
(* mysqlconfigurer.sh: the script that installs the recommended            *)
(* configuration in the database's configuration directory, restarts the   *)
(* service and, on demand, rolls the configuration back.                   *)
(*                                                                         *)
(* The files are modelled by their bodies.  Three matter:                  *)
(*   recFile  conf/z_aiops_mysql.cnf, the body downloaded by the agent     *)
(*   bkp      conf/z_aiops_mysql.cnf.bkp, the way back                     *)
(*   dbFile   z_aiops_mysql.cnf in the directory the service reads         *)
(* A step of the script is one command that touches a file or the service, *)
(* so that the service, the agent, a second script and a kill can come     *)
(* between any two of them.                                                *)
(***************************************************************************)
EXTENDS Integers

CONSTANTS
    Runs,           \* the executions of the script that may overlap
    Configs,        \* the recommended configurations, as option files
    Json,           \* the body of a GetJson answer
    NoFile,         \* the absence of a file
    Startable,      \* the bodies on which the service can start
    InitialFile,    \* dbFile when the behaviour begins
    FailingChecks,  \* the checks this installation may fail, by exit code
    RestartCommand, \* is mysql_restart_service set?
    StartMayFail    \* may a start fail for reasons other than the body?

Bodies == Configs \cup {Json}
Files  == Bodies \cup {NoFile}

ASSUME BodiesAssumption ==
    /\ Json \notin Configs
    /\ NoFile \notin Bodies

ASSUME StartableAssumption == Startable \subseteq Configs

\* The service is up when the behaviour begins, so it started on this file.
ASSUME InitialFileAssumption == InitialFile \in Startable \cup {NoFile}

\* Unreadable db_version, server version too old, configuration directory
\* missing, no includedir directive.
ASSUME FailingChecksAssumption == FailingChecks \subseteq {1, 2, 3, 11}

ASSUME RestartCommandAssumption == RestartCommand \in BOOLEAN

ASSUME StartMayFailAssumption == StartMayFail \in BOOLEAN

VARIABLES
    recFile, bkp, dbFile,
    server,         \* the database service
    loaded,         \* the body the service read when it last came up
    proven,         \* history: every body the service has come up on
    pc, op, choice, code    \* of each run

fileVars   == <<recFile, bkp, dbFile>>
serverVars == <<server, loaded, proven>>
runVars    == <<pc, op, choice, code>>
vars       == <<fileVars, serverVars, runVars>>

Operations == {"manual", "automatic", "rollback"}

\* RELEEM_RESTART_SERVICE or, when it is not set, the operator's answer.
Choices == {"yes", "no"}

Labels == {"idle", "check", "fetch", "decide", "backup", "install",
           "confirm", "remove", "restore", "restart", "wait", "cleanup",
           "notify", "done"}

\* 4 no restart command, 5 no permission to restart, 6 the restart is taking
\* too long, 7 the service did not start; -1 is what Go reports for a process
\* ended by a signal.
ExitCodes == {-1, 0, 1, 2, 3, 4, 5, 6, 7, 11}

TypeOK ==
    /\ recFile \in Files
    /\ bkp \in Files
    /\ dbFile \in Files
    /\ server \in {"up", "restarting", "down"}
    /\ loaded \in Files
    /\ proven \subseteq Bodies
    /\ pc \in [Runs -> Labels]
    /\ op \in [Runs -> Operations]
    /\ choice \in [Runs -> Choices]
    /\ code \in [Runs -> ExitCodes]

Init ==
    /\ recFile = NoFile
    /\ bkp = NoFile
    /\ dbFile = InitialFile
    /\ server = "up"
    /\ loaded = InitialFile
    /\ proven = {InitialFile} \ {NoFile}
    /\ pc = [p \in Runs |-> "idle"]
    /\ op = [p \in Runs |-> "manual"]
    /\ choice = [p \in Runs |-> "yes"]
    /\ code = [p \in Runs |-> 0]

-----------------------------------------------------------------------------
(* Control of one run *)

Active(p) == pc[p] \notin {"idle", "done"}

Goto(p, label) ==
    /\ pc' = [pc EXCEPT ![p] = label]
    /\ UNCHANGED <<op, choice, code>>

\* The exit code is settled; the run goes on at label.
Conclude(p, label, c) ==
    /\ pc' = [pc EXCEPT ![p] = label]
    /\ code' = [code EXCEPT ![p] = c]
    /\ UNCHANGED <<op, choice>>

Exit(p, c) == Conclude(p, "done", c)

\* The script starts with -a, -s automatic or -r.
Launch(p, operation, ch) ==
    /\ pc' = [pc EXCEPT ![p] = "check"]
    /\ op' = [op EXCEPT ![p] = operation]
    /\ choice' = [choice EXCEPT ![p] = ch]
    /\ UNCHANGED code

\* May this run restart the service?
Permitted(p) == choice[p] = "yes"

-----------------------------------------------------------------------------
(* Mutants of the actions below, for the checks that the properties bite *)

\* Decide does not notice that there is no recommendation.
DecideBlindly(p) ==
    /\ pc[p] = "decide"
    /\ IF op[p] = "manual" /\ dbFile = recFile
       THEN Exit(p, 0)
       ELSE Goto(p, "backup")
    /\ UNCHANGED <<fileVars, serverVars>>

\* Backup overwrites the backup of an earlier apply.
BackupAgain(p) ==
    /\ pc[p] = "backup"
    /\ bkp' = dbFile
    /\ Goto(p, "install")
    /\ UNCHANGED <<recFile, dbFile, serverVars>>

\* Restart does not wait for the service.
RestartAndGoOn(p) ==
    /\ pc[p] = "restart"
    /\ server' = "restarting"
    /\ Conclude(p, "cleanup", 0)
    /\ UNCHANGED <<fileVars, loaded, proven>>

\* Restore copies the downloaded file, the same name without .bkp.
RestoreDownloaded(p) ==
    /\ pc[p] = "restore"
    /\ dbFile' = IF recFile # NoFile THEN recFile ELSE dbFile
    /\ Goto(p, "restart")
    /\ UNCHANGED <<recFile, bkp, serverVars>>

\* The wait returns the code that means "still running", is taken for a
\* success, or never gives up.
WaitLeaks(p) ==
    /\ pc[p] = "wait"
    /\ Conclude(p, "notify", 150)
    /\ UNCHANGED <<fileVars, serverVars>>

WaitSucceeds(p) ==
    /\ pc[p] = "wait"
    /\ Conclude(p, "notify", 0)
    /\ UNCHANGED <<fileVars, serverVars>>

WaitForever(p) == pc[p] = "wait" /\ UNCHANGED vars

-----------------------------------------------------------------------------
(* Applying a configuration *)

\* db_version, includedir and the configuration directory are looked at
\* before anything is changed; rollback does not look for includedir.
Check(p) ==
    /\ pc[p] = "check"
    /\ \/ \E c \in FailingChecks :
            /\ op[p] = "rollback" => c # 11
            /\ Exit(p, c)
       \/ Goto(p, IF op[p] = "rollback" THEN "confirm" ELSE "fetch")
    /\ UNCHANGED <<fileVars, serverVars>>

\* `releem-agent -c || true`: a new body, or the old file when the download
\* failed.  A one-shot agent ends only after it has collected the database's
\* metrics, so it waits for the service.
Fetch(p) ==
    /\ pc[p] = "fetch"
    /\ server = "up"
    /\ recFile' \in Configs \cup {recFile}
    /\ Goto(p, "decide")
    /\ UNCHANGED <<bkp, dbFile, serverVars>>

\* No recommendation, nothing new, or no permission to restart: only
\* "manual" compares the files and only "manual" stops without permission.
Decide(p) ==
    /\ pc[p] = "decide"
    /\ IF recFile = NoFile
       THEN Exit(p, 1)
       ELSE IF op[p] = "manual" /\ dbFile = recFile
       THEN Exit(p, 0)
       ELSE IF op[p] = "manual" /\ ~Permitted(p)
       THEN Exit(p, 5)
       ELSE Goto(p, "backup")
    /\ UNCHANGED <<fileVars, serverVars>>

\* The backup is taken only when there is none; copying a missing file makes
\* none.
Backup(p) ==
    /\ pc[p] = "backup"
    /\ bkp' = IF bkp = NoFile THEN dbFile ELSE bkp
    /\ Goto(p, "install")
    /\ UNCHANGED <<recFile, dbFile, serverVars>>

Install(p) ==
    /\ pc[p] = "install"
    /\ dbFile' = recFile
    /\ IF Permitted(p) THEN Goto(p, "restart") ELSE Conclude(p, "notify", 0)
    /\ UNCHANGED <<recFile, bkp, serverVars>>

-----------------------------------------------------------------------------
(* Rolling back *)

Confirm(p) ==
    /\ pc[p] = "confirm"
    /\ IF Permitted(p) THEN Goto(p, "remove") ELSE Exit(p, 5)
    /\ UNCHANGED <<fileVars, serverVars>>

Remove(p) ==
    /\ pc[p] = "remove"
    /\ dbFile' = NoFile
    /\ Goto(p, "restore")
    /\ UNCHANGED <<recFile, bkp, serverVars>>

Restore(p) ==
    /\ pc[p] = "restore"
    /\ dbFile' = IF bkp # NoFile THEN bkp ELSE dbFile
    /\ Goto(p, "restart")
    /\ UNCHANGED <<recFile, bkp, serverVars>>

-----------------------------------------------------------------------------
(* Restarting the service, for apply and for rollback *)

Restart(p) ==
    /\ pc[p] = "restart"
    /\ IF RestartCommand
       THEN server' = "restarting" /\ Goto(p, "wait")
       ELSE UNCHANGED server /\ Exit(p, 4)
    /\ UNCHANGED <<fileVars, loaded, proven>>

\* wait_restart gives up after 1200 polls; the restart goes on.
WaitTimeout(p) ==
    /\ pc[p] = "wait"
    /\ Conclude(p, "notify", 6)
    /\ UNCHANGED <<fileVars, serverVars>>

\* The service has stopped.  It reads dbFile and comes up, or does not;
\* restart requests that overlap are one job, and all that wait see its
\* outcome.
Conclusive(label, c) ==
    LET waiting == {p \in Runs : pc[p] = "wait"}
    IN  /\ pc' = [p \in Runs |-> IF p \in waiting THEN label ELSE pc[p]]
        /\ code' = [p \in Runs |-> IF p \in waiting THEN c ELSE code[p]]
        /\ UNCHANGED <<op, choice>>

ServerUp ==
    /\ server = "restarting"
    /\ dbFile \in Startable \cup {NoFile}
    /\ server' = "up"
    /\ loaded' = dbFile
    /\ proven' = proven \cup ({dbFile} \ {NoFile})
    /\ Conclusive("cleanup", 0)
    /\ UNCHANGED fileVars

ServerDown ==
    /\ server = "restarting"
    /\ dbFile \in Startable \cup {NoFile} => StartMayFail
    /\ server' = "down"
    /\ Conclusive("notify", 7)
    /\ UNCHANGED <<fileVars, loaded, proven>>

ServerBoot == ServerUp \/ ServerDown

\* The service is back: the way back is no longer needed.
Cleanup(p) ==
    /\ pc[p] = "cleanup"
    /\ bkp' = NoFile
    /\ Goto(p, "notify")
    /\ UNCHANGED <<recFile, dbFile, serverVars>>

\* `releem-agent --event=...`, another one-shot agent, before the exit.
Notify(p) ==
    /\ pc[p] = "notify"
    /\ server = "up"
    /\ Goto(p, "done")
    /\ UNCHANGED <<fileVars, serverVars>>

-----------------------------------------------------------------------------
(* The environment of the script *)

\* The database service or the host is restarted for reasons of its own.
ServiceRestart ==
    /\ server # "restarting"
    /\ server' = "restarting"
    /\ UNCHANGED <<fileVars, loaded, proven, runVars>>

\* The agent saves a body of its own accord: the periodic configuration, or
\* the answer to GetJson.
AgentWrites ==
    /\ recFile' \in Bodies
    /\ UNCHANGED <<bkp, dbFile, serverVars, runVars>>

\* Some runs are interrupted; what they have done so far stays.
Kill(S) ==
    /\ pc' = [p \in Runs |-> IF p \in S /\ Active(p) THEN "done" ELSE pc[p]]
    /\ code' = [p \in Runs |-> IF p \in S /\ Active(p) THEN -1 ELSE code[p]]
    /\ UNCHANGED <<fileVars, serverVars, op, choice>>

\* The command steps of one run.
Step(p) ==
    \/ Check(p) \/ Fetch(p) \/ Decide(p) \/ Backup(p) \/ Install(p)
    \/ Confirm(p) \/ Remove(p) \/ Restore(p)
    \/ Restart(p) \/ WaitTimeout(p) \/ Cleanup(p) \/ Notify(p)

\* An operator, or a task of the agent, runs the script.
Run(p) ==
    /\ ~Active(p)
    /\ \E o \in Operations, ch \in Choices : Launch(p, o, ch)
    /\ UNCHANGED <<fileVars, serverVars>>

Environment ==
    \/ ServerBoot
    \/ ServiceRestart
    \/ AgentWrites
    \/ \E S \in SUBSET Runs : Kill(S)

Next ==
    \/ \E p \in Runs : Run(p) \/ Step(p)
    \/ Environment

Spec == Init /\ [][Next]_vars

-----------------------------------------------------------------------------
(* Careful use: one run at a time, and no rollback where there is nothing to
   go back to, as tests/linux/test_04_rollback_config.sh requires. *)

CarefulRun(p) ==
    /\ \A q \in Runs : ~Active(q)
    /\ \E o \in Operations, ch \in Choices :
         /\ o = "rollback" => bkp # NoFile
         /\ Launch(p, o, ch)
    /\ UNCHANGED <<fileVars, serverVars>>

CarefulNext ==
    \/ \E p \in Runs : CarefulRun(p) \/ Step(p)
    \/ Environment

CarefulSpec == Init /\ [][CarefulNext]_vars

\* A started script is scheduled; the service owes nothing.
FairCarefulSpec == CarefulSpec /\ \A p \in Runs : WF_vars(Step(p))

-----------------------------------------------------------------------------
(* Properties *)

\* Where a rollback would lead, a body on which the service has already come
\* up: the backup when there is one (it is taken once, at the first apply, and
\* kept until a restart succeeds), the live file when there is none.
Recoverable == (IF bkp # NoFile THEN bkp ELSE dbFile) \in proven

\* A rollback restarts the service on a body it has already come up on,
\* whatever was applied, interrupted or restarted before.
RollbackProven ==
    \A p \in Runs : op[p] = "rollback" /\ pc[p] \in {"restart", "wait"} => dbFile \in proven

\* The backup is given up only when the live file is the one the running
\* service has read, so the two can never both be lost.
BackupDropped == [][bkp # NoFile /\ bkp' = NoFile => loaded = dbFile]_vars

\* Every run ends, or is found waiting for a one-shot agent which itself
\* waits for the service.
RunEnds ==
    \A p \in Runs :
        Active(p) ~> (~Active(p) \/ (pc[p] \in {"fetch", "notify"} /\ server # "up"))

\* What makes Recoverable inductive under careful use: the two files by
\* themselves, and what each label owes to the labels before it.
BackupProven == bkp # NoFile => bkp \in proven

LiveProven == bkp = NoFile => dbFile \in proven

OneRun == \A p, q \in Runs : Active(p) /\ Active(q) => p = q

RunInv(p) ==
    /\ pc[p] \in {"backup", "install"} => recFile # NoFile
    /\ pc[p] = "install" => bkp # NoFile
    /\ pc[p] \in {"restart", "wait"} => dbFile # NoFile
    /\ op[p] = "rollback" =>
         /\ pc[p] \in {"check", "confirm", "remove", "restore"} => bkp # NoFile
         /\ pc[p] \in {"restart", "wait"} => dbFile \in proven
         /\ pc[p] \notin {"fetch", "decide", "backup", "install"}
    /\ op[p] # "rollback" => pc[p] \notin {"confirm", "remove", "restore"}
    /\ pc[p] = "cleanup" => loaded = dbFile /\ dbFile \in proven /\ code[p] = 0

CarefulInv ==
    /\ proven \subseteq Startable
    /\ BackupProven
    /\ LiveProven
    /\ OneRun
    /\ \A p \in Runs : RunInv(p)
=============================================================================
