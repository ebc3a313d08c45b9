-------------------------- MODULE AzureApplyProofs --------------------------
(***************************************************************************)
(* Proofs about AzureApply, for every set of variables and every set of    *)
(* values that compare equal to a recommendation.                          *)
(***************************************************************************)
EXTENDS AzureApply, TLAPS

LEMMA InitType == Init => TypeOK
  BY DEF Init, TypeOK, Values

LEMMA ChangeType ==
    ASSUME TypeOK, NEW set \in SUBSET Params, NEW value \in Values, Change(set, value)
    PROVE  /\ conf' \in [Params -> Values]
           /\ running' \in [Params -> Values]
           /\ pending' \subseteq Static
  BY DEF Change, TypeOK

LEMMA NextType == TypeOK /\ [Next]_vars => TypeOK'
<1> SUFFICES ASSUME TypeOK, [Next]_vars
             PROVE  TypeOK'
  OBVIOUS
<1> USE ParamsAssumption, AlikeAssumption DEF Goto, cloudVars, agentVars
<1>1. CASE StartTask \/ Collect
  BY <1>1 DEF StartTask, Collect, TypeOK
<1>2. CASE GetServer \/ Refuse \/ Unreadable \/ PollFails
  BY <1>2 DEF GetServer, Refuse, Unreadable, PollFails, ReturnError, Return, TypeOK
<1>3. CASE List \/ Download \/ NoUpdates \/ UpdateDone
  BY <1>3 DEF List, Download, NoUpdates, UpdateDone, TypeOK
<1>4. CASE BeginBatchUpdate \/ BeginRestart
  BY <1>4 DEF BeginBatchUpdate, BeginRestart, Updates, TypeOK
<1>5. CASE RestartDone \/ Conclude
  BY <1>5 DEF RestartDone, Conclude, Return, TypeOK
<1>6. CASE Report \/ Die
  BY <1>6 DEF Report, Die, End, TypeOK, Values
<1>7. CASE EndUpdate
  <2>1. /\ conf' \in [Params -> Values]
        /\ running' \in [Params -> Values]
        /\ pending' \subseteq Static
    <3>1. \A set \in SUBSET target : set \in SUBSET Params /\ "wanted" \in Values
      BY DEF TypeOK, Values
    <3> QED BY <1>7, <3>1, ChangeType DEF EndUpdate
  <2> QED BY <1>7, <2>1 DEF EndUpdate, TypeOK
<1>8. CASE EndRestart
  BY <1>8 DEF EndRestart, TakePending, TypeOK
<1>9. CASE Administer
  <2>1. /\ conf' \in [Params -> Values]
        /\ running' \in [Params -> Values]
        /\ pending' \subseteq Static
        /\ touched' \subseteq Params
    BY <1>9, ChangeType DEF Administer, TypeOK
  <2> QED BY <1>9, <2>1 DEF Administer, TypeOK
<1>10. CASE AdministratorRestarts \/ UNCHANGED vars
  <2>1. CASE AdministratorRestarts
    BY <2>1 DEF AdministratorRestarts, TakePending, TypeOK
  <2>2. CASE UNCHANGED vars
    BY <2>2 DEF vars, TypeOK
  <2> QED BY <1>10, <2>1, <2>2
<1> QED BY <1>1, <1>2, <1>3, <1>4, <1>5, <1>6, <1>7, <1>8, <1>9, <1>10
        DEF Next, Step, Azure, EndOperation

\* The types hold for every set of variables.
THEOREM AzureTypeCorrect == Spec => []TypeOK
  BY InitType, NextType, PTL DEF Spec

-----------------------------------------------------------------------------
(* What Azure and its administrator may do *)

\* What nobody else has modified keeps its values, or takes recommended ones;
\* only a restart takes it off the pending ones.
LEMMA AzureStep ==
    ASSUME TypeOK, ConfInv, UpdatesInv, Azure
    PROVE  /\ UNCHANGED agentVars
           /\ touched \subseteq touched' /\ touched' \subseteq Params
           /\ restarted => restarted'
           /\ \A p \in Params \ touched' :
                /\ conf'[p] = conf[p] \/ conf'[p] = "wanted"
                /\ running'[p] \in {running[p], conf[p], "wanted"}
           /\ restarted' \/ pc = "restarting" \/ pending \subseteq pending'
<1> USE DEF TypeOK, agentVars
<1>1. CASE EndUpdate
  <2>1. PICK set \in SUBSET target : Change(set, "wanted")
    BY <1>1 DEF EndUpdate
  <2> QED BY <1>1, <2>1 DEF EndUpdate, Change
<1>2. CASE EndRestart
  BY <1>2 DEF EndRestart, TakePending
<1>3. CASE Administer
  BY <1>3, ParamsAssumption DEF Administer, Change
<1>4. CASE AdministratorRestarts
  BY <1>4 DEF AdministratorRestarts, TakePending
<1> QED BY <1>1, <1>2, <1>3, <1>4 DEF Azure, EndOperation

\* What is recommended and in force stays so, and so does what is configured.
LEMMA EqualStays ==
    ASSUME TypeOK, ConfInv, UpdatesInv, Azure, NEW p \in Params \ touched'
    PROVE  /\ Equal(conf[p]) => Equal(conf'[p])
           /\ Equal(running[p]) => Equal(running'[p])
  BY AzureStep, AlikeAssumption DEF Equal, ConfInv

-----------------------------------------------------------------------------
(* The parts of the invariant *)

LEMMA ConfStep == TypeOK /\ AzureInv /\ [Next]_vars => ConfInv'
<1> SUFFICES ASSUME TypeOK, ConfInv, [Next]_vars
             PROVE  ConfInv'
  BY DEF AzureInv
<1> USE DEF TypeOK, ConfInv, cloudVars, agentVars
<1>1. CASE Collect
  BY <1>1 DEF Collect
<1>2. CASE BeginBatchUpdate \/ BeginRestart
  BY <1>2 DEF BeginBatchUpdate, BeginRestart, Updates
<1>3. CASE StartTask \/ GetServer \/ List \/ Download \/ Refuse \/ Unreadable
  BY <1>3 DEF StartTask, GetServer, List, Download, Refuse, Unreadable
<1>4. CASE NoUpdates \/ UpdateDone \/ PollFails \/ RestartDone \/ Conclude
  BY <1>4 DEF NoUpdates, UpdateDone, PollFails, RestartDone, Conclude
<1>5. CASE Report \/ Die \/ UNCHANGED vars
  BY <1>5 DEF Report, Die, End, vars
<1>6. CASE EndUpdate
  <2>1. PICK set \in SUBSET target : Change(set, "wanted")
    BY <1>6 DEF EndUpdate
  <2> QED BY <1>6, <2>1, AlikeAssumption DEF EndUpdate, Change, Equal
<1>7. CASE EndRestart \/ AdministratorRestarts
  BY <1>7 DEF EndRestart, AdministratorRestarts, TakePending
<1>8. CASE Administer
  BY <1>8 DEF Administer, Change
<1> QED BY <1>1, <1>2, <1>3, <1>4, <1>5, <1>6, <1>7, <1>8
        DEF Next, Step, Azure, EndOperation

LEMMA SeenStep == TypeOK /\ AzureInv /\ [Next]_vars => SeenInv'
<1> SUFFICES ASSUME TypeOK, AzureInv, [Next]_vars
             PROVE  SeenInv'
  OBVIOUS
<1> USE DEF AzureInv, SeenInv, Goto, cloudVars, agentVars
<1>1. CASE StartTask \/ Collect
  BY <1>1 DEF StartTask, Collect
<1>2. CASE GetServer \/ Refuse \/ Unreadable \/ PollFails
  BY <1>2 DEF GetServer, Refuse, Unreadable, PollFails, ReturnError, Return
<1>3. CASE List \/ Download \/ NoUpdates \/ BeginBatchUpdate \/ UpdateDone
  BY <1>3 DEF List, Download, NoUpdates, BeginBatchUpdate, UpdateDone
<1>4. CASE BeginRestart \/ RestartDone \/ Conclude
  BY <1>4 DEF BeginRestart, RestartDone, Conclude, Return
<1>5. CASE Report \/ Die \/ UNCHANGED vars
  BY <1>5 DEF Report, Die, End, vars
<1>6. CASE Azure
  <2>1. UNCHANGED <<pc, seen>> /\ touched \subseteq touched'
    BY <1>6, AzureStep DEF agentVars
  <2>2. SUFFICES ASSUME pc \notin {"idle", "collect"}, NEW p \in seen \ touched'
                 PROVE  Equal(running'[p])
    BY <2>1 DEF Equal
  <2>3. p \in Params \ touched' /\ Equal(running[p])
    BY <2>1, <2>2 DEF AzureInv, SeenInv, TypeOK
  <2> QED BY <1>6, <2>3, EqualStays
<1> QED BY <1>1, <1>2, <1>3, <1>4, <1>5, <1>6 DEF Next, Step

LEMMA AskedStep == AskedInv /\ ConfInv /\ TypeOK /\ UpdatesInv /\ [Next]_vars => AskedInv'
<1> SUFFICES ASSUME AskedInv, ConfInv, TypeOK, UpdatesInv, [Next]_vars
             PROVE  AskedInv'
  OBVIOUS
<1> USE DEF AskedInv, Goto, agentVars
<1>1. CASE StartTask \/ Collect \/ List \/ Download
  BY <1>1 DEF StartTask, Collect, List, Download
<1>2. CASE GetServer \/ Refuse \/ Unreadable \/ PollFails
  BY <1>2 DEF GetServer, Refuse, Unreadable, PollFails, ReturnError, Return
<1>3. CASE NoUpdates \/ BeginBatchUpdate \/ UpdateDone \/ BeginRestart
  BY <1>3 DEF NoUpdates, BeginBatchUpdate, UpdateDone, BeginRestart
<1>4. CASE RestartDone \/ Conclude
  BY <1>4 DEF RestartDone, Conclude, Return
<1>5. CASE Report \/ Die
  BY <1>5 DEF Report, Die, End
<1>6. CASE Azure
  BY <1>6, AzureStep
<1>7. CASE UNCHANGED vars
  BY <1>7 DEF vars
<1> QED BY <1>1, <1>2, <1>3, <1>4, <1>5, <1>6, <1>7 DEF Next, Step

LEMMA ListedStep == TypeOK /\ AzureInv /\ [Next]_vars => ListedInv'
<1> SUFFICES ASSUME TypeOK, AzureInv, [Next]_vars
             PROVE  ListedInv'
  OBVIOUS
<1> USE DEF AzureInv, ListedInv, Goto, cloudVars, agentVars
<1>1. CASE StartTask \/ Collect
  BY <1>1 DEF StartTask, Collect
<1>2. CASE GetServer \/ Refuse \/ Unreadable \/ PollFails
  BY <1>2 DEF GetServer, Refuse, Unreadable, PollFails, ReturnError, Return
<1>3. CASE List
  BY <1>3 DEF List, ConfInv, TypeOK
<1>4. CASE Download \/ NoUpdates \/ BeginBatchUpdate \/ UpdateDone
  BY <1>4 DEF Download, NoUpdates, BeginBatchUpdate, UpdateDone
<1>5. CASE BeginRestart \/ RestartDone \/ Conclude
  BY <1>5 DEF BeginRestart, RestartDone, Conclude, Return
<1>6. CASE Report \/ Die \/ UNCHANGED vars
  BY <1>6 DEF Report, Die, End, vars
<1>7. CASE Azure
  BY <1>7, AzureStep, EqualStays
<1> QED BY <1>1, <1>2, <1>3, <1>4, <1>5, <1>6, <1>7 DEF Next, Step

LEMMA UpdatesStep == TypeOK /\ AzureInv /\ [Next]_vars => UpdatesInv'
<1> SUFFICES ASSUME TypeOK, AzureInv, [Next]_vars
             PROVE  UpdatesInv'
  OBVIOUS
<1> USE DEF AzureInv, UpdatesInv, Updates, Goto, cloudVars, agentVars
<1>1. CASE StartTask \/ Collect \/ List \/ Download \/ NoUpdates
  BY <1>1 DEF StartTask, Collect, List, Download, NoUpdates
<1>2. CASE GetServer \/ Refuse \/ Unreadable \/ PollFails
  BY <1>2 DEF GetServer, Refuse, Unreadable, PollFails, ReturnError, Return
<1>3. CASE BeginBatchUpdate \/ UpdateDone
  BY <1>3 DEF BeginBatchUpdate, UpdateDone
<1>4. CASE BeginRestart \/ RestartDone \/ Conclude
  BY <1>4 DEF BeginRestart, RestartDone, Conclude, Return
<1>5. CASE Report \/ Die \/ UNCHANGED vars
  BY <1>5 DEF Report, Die, End, vars
<1>6. CASE EndUpdate /\ pc = "updating" /\ operation' = "done"
  <2>1. \A p \in Updates : conf'[p] = "wanted"
    BY <1>6 DEF EndUpdate, Change, TypeOK
  <2> QED BY <1>6, <2>1, AlikeAssumption DEF EndUpdate, Equal
<1>7. CASE Azure /\ ~(EndUpdate /\ pc = "updating" /\ operation' = "done")
  <2>1. UNCHANGED <<agentVars, target>> /\ touched \subseteq touched'
    BY <1>7, AzureStep DEF Azure, EndOperation, EndUpdate, EndRestart, Administer,
                           AdministratorRestarts
  <2>2. pc = "updating" /\ operation' = "done" => operation = "done"
    BY <1>7 DEF Azure, EndOperation, EndUpdate, EndRestart, Administer,
                AdministratorRestarts
  <2>3. operation' \in {operation, "done", "failed"}
    BY <1>7 DEF Azure, EndOperation, EndUpdate, EndRestart, Administer,
                AdministratorRestarts
  <2>4. ASSUME NEW p \in Updates \ touched', Equal(conf[p])
        PROVE  Equal(conf'[p])
    BY <1>7, <2>1, <2>4, EqualStays DEF TypeOK
  <2> QED BY <2>1, <2>2, <2>3, <2>4
<1> QED BY <1>1, <1>2, <1>3, <1>4, <1>5, <1>6, <1>7 DEF Next, Step

LEMMA PendingStep == TypeOK /\ AzureInv /\ [Next]_vars => PendingInv'
<1> SUFFICES ASSUME TypeOK, AzureInv, [Next]_vars
             PROVE  PendingInv'
  OBVIOUS
<1> USE DEF AzureInv, PendingInv, Updates, Goto, cloudVars, agentVars
<1>1. CASE StartTask \/ Collect \/ Download \/ NoUpdates
  BY <1>1 DEF StartTask, Collect, Download, NoUpdates
<1>2. CASE GetServer \/ Refuse \/ Unreadable \/ PollFails
  BY <1>2 DEF GetServer, Refuse, Unreadable, PollFails, ReturnError, Return
<1>3. CASE List \/ BeginBatchUpdate \/ UpdateDone
  BY <1>3 DEF List, BeginBatchUpdate, UpdateDone
<1>4. CASE BeginRestart \/ RestartDone \/ Conclude
  BY <1>4 DEF BeginRestart, RestartDone, Conclude, Return
<1>5. CASE Report \/ Die \/ UNCHANGED vars
  BY <1>5 DEF Report, Die, End, vars
<1>6. CASE EndUpdate /\ pc = "updating" /\ operation' = "done"
  <2>1. Updates \cap Static \subseteq pending' /\ pending \subseteq pending'
    BY <1>6 DEF EndUpdate, Change, UpdatesInv
  <2> QED BY <1>6, <2>1 DEF EndUpdate
<1>7. CASE Azure /\ ~(EndUpdate /\ pc = "updating" /\ operation' = "done")
  <2>1. UNCHANGED agentVars /\ (restarted => restarted')
        /\ (restarted' \/ pc = "restarting" \/ pending \subseteq pending')
    BY <1>7, AzureStep
  <2>2. pc = "updating" /\ operation' = "done" => operation = "done"
    BY <1>7 DEF Azure, EndOperation, EndUpdate, EndRestart, Administer,
                AdministratorRestarts, UpdatesInv
  <2> QED BY <2>1, <2>2 DEF TypeOK
<1> QED BY <1>1, <1>2, <1>3, <1>4, <1>5, <1>6, <1>7 DEF Next, Step

\* Before the end, every recommended value is configured; without a pending
\* one among them, it is in force.
LEMMA Configured ==
    ASSUME TypeOK, AzureInv, pc \in {"restart", "restarting"},
           NEW p \in asked \ (Skipped \cup touched)
    PROVE  /\ Equal(conf[p])
           /\ ~RestartRequired => Equal(running[p])
<1> USE DEF AzureInv, TypeOK
<1>1. CASE p \in seen
  BY <1>1 DEF SeenInv, ConfInv
<1>2. CASE p \notin seen /\ Equal(listed[p])
  BY <1>2 DEF ListedInv, RestartRequired, Waiting
<1>3. CASE p \notin seen /\ ~Equal(listed[p])
  <2>1. p \in Updates /\ Equal(conf[p])
    BY <1>3 DEF Updates, UpdatesInv
  <2> QED BY <2>1 DEF RestartRequired, ConfInv
<1> QED BY <1>1, <1>2, <1>3

LEMMA OutcomeStep == TypeOK /\ AzureInv /\ [Next]_vars => OutcomeInv'
<1> SUFFICES ASSUME TypeOK, AzureInv, [Next]_vars
             PROVE  OutcomeInv'
  OBVIOUS
<1> USE DEF AzureInv, OutcomeInv, Goto, cloudVars, agentVars
<1>1. CASE StartTask \/ Collect \/ List \/ Download \/ NoUpdates
  BY <1>1 DEF StartTask, Collect, List, Download, NoUpdates
<1>2. CASE GetServer \/ Refuse \/ Unreadable \/ PollFails
  BY <1>2 DEF GetServer, Refuse, Unreadable, PollFails, ReturnError, Return
<1>3. CASE BeginBatchUpdate \/ UpdateDone \/ BeginRestart
  BY <1>3 DEF BeginBatchUpdate, UpdateDone, BeginRestart
<1>4. CASE RestartDone
  BY <1>4 DEF RestartDone, Return
<1>5. CASE Conclude
  <2>1. exit' = 0 => ~RestartRequired
    BY <1>5 DEF Conclude, Return
  <2> QED BY <1>5, <2>1, Configured DEF Conclude, Return
<1>6. CASE Report \/ Die \/ UNCHANGED vars
  BY <1>6 DEF Report, Die, End, vars
<1>7. CASE EndRestart /\ pc = "restarting" /\ operation' = "done"
  \* The restart brings into force what is configured.
  BY <1>7, Configured DEF EndRestart, TakePending, TypeOK
<1>8. CASE Azure /\ ~(EndRestart /\ pc = "restarting" /\ operation' = "done")
  <2>1. UNCHANGED agentVars /\ touched \subseteq touched'
    BY <1>8, AzureStep
  <2>2. pc = "restarting" /\ operation' = "done" => operation = "done"
    BY <1>8 DEF Azure, EndOperation, EndUpdate, EndRestart, Administer,
                AdministratorRestarts, UpdatesInv
  <2> QED BY <1>8, <2>1, <2>2, EqualStays DEF TypeOK
<1> QED BY <1>1, <1>2, <1>3, <1>4, <1>5, <1>6, <1>7, <1>8 DEF Next, Step

LEMMA InitInv == Init => AzureInv
  BY DEF Init, AzureInv, ConfInv, AskedInv, SeenInv, ListedInv, UpdatesInv, PendingInv, OutcomeInv

\* The inductive invariant.
THEOREM AzureInvariant == Spec => []AzureInv
<1>1. TypeOK /\ AzureInv /\ [Next]_vars => AzureInv'
  BY ConfStep, AskedStep, SeenStep, ListedStep, UpdatesStep, PendingStep, OutcomeStep
  DEF AzureInv
<1> QED BY <1>1, InitInv, AzureTypeCorrect, PTL DEF Spec

-----------------------------------------------------------------------------
(* What follows from it *)

\* What a restart would be good for.
LEMMA RestartHelps ==
    ASSUME TypeOK, AzureInv, pc = "restart", RestartRequired, ~restarted,
           asked \cap touched = {}
    PROVE  \E p \in asked : p \in pending /\ Equal(conf[p])
<1> USE DEF AzureInv, PendingInv, TypeOK
<1>1. CASE Updates \cap Static # {}
  BY <1>1 DEF Updates, UpdatesInv
<1>2. CASE Waiting # {}
  BY <1>2 DEF Waiting, ListedInv
<1> QED BY <1>1, <1>2 DEF RestartRequired

\* No restart, and no request for one, without a recommended value that waits.
THEOREM AzureRestartJustified == Spec => RestartJustified
<1>1. TypeOK /\ AzureInv /\ [Next]_vars
        => [pc = "restart" /\ (pc' = "restarting" \/ (pc' = "report" /\ exit' = 10)) =>
              restarted
              \/ asked \cap (touched \cup {p \in pending : Equal(conf[p])}) # {}]_vars
  <2> SUFFICES ASSUME TypeOK, AzureInv, Next, pc = "restart",
                      pc' = "restarting" \/ (pc' = "report" /\ exit' = 10),
                      ~restarted, asked \cap touched = {}
               PROVE  \E p \in asked : p \in pending /\ Equal(conf[p])
    OBVIOUS
  <2>1. CASE Azure
    BY <2>1, AzureStep DEF AzureInv, agentVars
  <2>2. CASE Refuse
    BY <2>2 DEF Refuse, ReturnError, Return, Goto
  <2>3. CASE BeginRestart
    BY <2>3, RestartHelps DEF BeginRestart
  <2>4. CASE Conclude
    BY <2>4, RestartHelps DEF Conclude, Return, Goto
  <2> QED
    BY <2>1, <2>2, <2>3, <2>4
    DEF Next, Step, StartTask, Collect, GetServer, List, Download, Unreadable,
        NoUpdates, BeginBatchUpdate, UpdateDone, PollFails, RestartDone, Report,
        Die, End, Goto
<1> QED BY <1>1, AzureInvariant, AzureTypeCorrect, PTL DEF Spec, RestartJustified

LEMMA PromiseInit == Init => Promise!Init
  BY DEF Init, Promise!Init, Verdict, Learnt

\* What Azure changes for the task is recommended, and comes into force as it
\* is configured.
LEMMA EffectRecommended ==
    ASSUME TypeOK, ConfInv, UpdatesInv, Azure, NEW p \in Params \ touched'
    PROVE  /\ conf'[p] # conf[p] => p \in asked /\ conf'[p] \in Good[p]
           /\ running'[p] # running[p] => running'[p] = conf'[p]
<1> USE DEF TypeOK
<1>1. CASE EndUpdate
  <2>1. PICK set \in SUBSET target : Change(set, "wanted")
    BY <1>1 DEF EndUpdate
  <2>2. p \in target => pc = "updating" /\ p \in asked \ Skipped
    BY <1>1 DEF EndUpdate, UpdatesInv, Updates
  <2>3. p \in target => Good[p] = Alike
    BY <2>2 DEF Good
  <2> QED BY <2>1, <2>2, <2>3, AlikeAssumption DEF Change
<1>2. CASE EndRestart
  BY <1>2 DEF EndRestart, TakePending
<1>3. CASE Administer
  BY <1>3 DEF Administer, Change
<1>4. CASE AdministratorRestarts
  BY <1>4 DEF AdministratorRestarts, TakePending
<1> QED BY <1>1, <1>2, <1>3, <1>4 DEF Azure, EndOperation

LEMMA PromiseStep ==
    TypeOK /\ TypeOK' /\ AzureInv /\ AzureInv' /\ [Next]_vars
      => [Promise!Next]_(Promise!vars)
<1> SUFFICES ASSUME TypeOK, TypeOK', AzureInv, AzureInv', [Next]_vars
             PROVE  Promise!Next \/ UNCHANGED Promise!vars
  OBVIOUS
<1> USE DEF Promise!Next, Promise!vars, Verdict, Learnt, Goto, cloudVars, agentVars
<1>1. CASE StartTask \/ Collect
  BY <1>1 DEF StartTask, Collect, Promise!Begin, AzureInv, AskedInv
<1>2. CASE GetServer \/ Refuse \/ Unreadable \/ PollFails
  BY <1>2 DEF GetServer, Refuse, Unreadable, PollFails, ReturnError, Return,
              Promise!Fail
<1>3. CASE Download
  BY <1>3 DEF Download, Promise!Learn
<1>4. CASE List \/ NoUpdates \/ BeginBatchUpdate \/ UpdateDone \/ BeginRestart
  BY <1>4 DEF List, NoUpdates, BeginBatchUpdate, UpdateDone, BeginRestart
<1>5. CASE RestartDone \/ Conclude
  <2>1. /\ pc \in {"restart", "restarting"} /\ pc' = "report"
        /\ UNCHANGED <<conf, running, asked, touched>>
    BY <1>5 DEF RestartDone, Conclude, Return
  <2>2. exit' = 0 => \A p \in asked \ touched :
                       conf[p] \in Good[p] /\ running[p] \in Good[p]
    BY <2>1 DEF AzureInv, ConfInv, OutcomeInv, Good, Equal, TypeOK
  <2> QED BY <2>1, <2>2 DEF Promise!Succeed, Promise!Fail
<1>6. CASE Report \/ Die
  BY <1>6 DEF Report, Die, End, Promise!End
<1>7. CASE Azure
  <2>1. \A p \in Params \ touched' :
          /\ conf'[p] # conf[p] => p \in asked /\ conf'[p] \in Good[p]
          /\ running'[p] # running[p] => running'[p] = conf'[p]
    BY <1>7, EffectRecommended DEF AzureInv
  <2>2. /\ UNCHANGED agentVars
        /\ touched \subseteq touched' /\ touched' \subseteq Params
    BY <1>7, AzureStep DEF AzureInv
  <2> QED BY <2>1, <2>2 DEF Promise!Effect, TypeOK
<1>8. CASE UNCHANGED vars
  BY <1>8 DEF vars
<1> QED BY <1>1, <1>2, <1>3, <1>4, <1>5, <1>6, <1>7, <1>8 DEF Next, Step

\* A task implements what CloudApply promises: it succeeds only when it has read
\* its recommendation and every value of it that may be set is in force.
THEOREM AzureKeepsPromise == Spec => KeepsPromise
  BY PromiseInit, PromiseStep, AzureInvariant, AzureTypeCorrect, PTL
  DEF Spec, KeepsPromise, Promise!Spec
=============================================================================
