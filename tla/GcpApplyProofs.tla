--------------------------- MODULE GcpApplyProofs ---------------------------
(***************************************************************************)
(* Proofs about GcpApply, for every set of variables and their defaults.   *)
(***************************************************************************)
EXTENDS GcpApply, TLAPS

LEMMA InForceType ==
    ASSUME NEW f \in [Params -> Values]
    PROVE  InForce(f) \in [Params -> Settings]
  BY DefaultAssumption DEF InForce, Values

LEMMA InitType == Init => TypeOK
<1> SUFFICES ASSUME Init
             PROVE  TypeOK
  OBVIOUS
<1>1. flags \in [Params -> Values] /\ running \in [Params -> Settings]
  BY InForceType DEF Init
<1>2. learnt \in BOOLEAN
  BY DEF Init
<1> QED BY <1>1, <1>2 DEF Init, TypeOK, Values

LEMMA NextType == TypeOK /\ [Next]_vars => TypeOK'
<1> SUFFICES ASSUME TypeOK, [Next]_vars
             PROVE  TypeOK'
  OBVIOUS
<1> USE DEF TypeOK, Goto, cloudVars, agentVars
<1>1. CASE StartTask \/ Collect
  BY <1>1 DEF StartTask, Collect
<1>2. CASE Get
  BY <1>2 DEF Get, Return
<1>3. CASE Download
  BY <1>3 DEF Download
<1>4. CASE Accept
  <2>1. target' \in [Params -> Values]
    BY <1>4 DEF Accept, Merged, Values, Settings
  <2> QED BY <1>4, <2>1 DEF Accept
<1>5. CASE Refuse \/ WaitForOp
  BY <1>5 DEF Refuse, WaitForOp, Return
<1>6. CASE WaitFails \/ Report \/ Die
  <2>1. learnt' \in BOOLEAN
    BY <1>6 DEF WaitFails, Report, Die, End
  <2> QED BY <1>6, <2>1 DEF WaitFails, Report, Die, End, Values
<1>7. CASE Complete
  BY <1>7, InForceType DEF Complete
<1>8. CASE Abort \/ UNCHANGED vars
  BY <1>8 DEF Abort, vars
<1>9. CASE Administer
  <2>1. flags' \in [Params -> Values]
    BY <1>9 DEF Administer
  <2> QED BY <1>9, <2>1, InForceType DEF Administer
<1> QED BY <1>1, <1>2, <1>3, <1>4, <1>5, <1>6, <1>7, <1>8, <1>9
        DEF Next, Step, CloudSql

\* The types hold for every set of variables.
THEOREM GcpTypeCorrect == Spec => []TypeOK
  BY InitType, NextType, PTL DEF Spec

-----------------------------------------------------------------------------
(* The parts of the invariant *)

LEMMA FlagsStep == TypeOK /\ FlagsInv /\ [Next]_vars => FlagsInv'
<1> SUFFICES ASSUME FlagsInv, [Next]_vars
             PROVE  FlagsInv'
  OBVIOUS
<1> USE DEF FlagsInv, InForce, cloudVars, agentVars
<1>1. CASE StartTask \/ Step \/ Die
  BY <1>1 DEF StartTask, Step, Collect, Get, Download, Accept, Refuse, WaitForOp,
              WaitFails, Report, Die, End
<1>2. CASE CloudSql
  BY <1>2 DEF CloudSql, Complete, Abort, Administer
<1> QED BY <1>1, <1>2 DEF Next, vars

\* What the end of an operation changes counts as done by others, unless the
\* task waits for it; what an administrator changes always does.
LEMMA CloudChanges ==
    ASSUME TypeOK, FlagsInv, CloudSql, pc # "wait"
    PROVE  /\ touched \subseteq touched'
           /\ \A p \in Params \ touched' :
                flags'[p] = flags[p] /\ running'[p] = running[p]
<1>1. CASE Complete
  BY <1>1 DEF Complete, InForce, FlagsInv, TypeOK
<1>2. CASE Abort
  BY <1>2 DEF Abort
<1>3. CASE Administer
  BY <1>3 DEF Administer, InForce, FlagsInv, TypeOK
<1> QED BY <1>1, <1>2, <1>3 DEF CloudSql

LEMMA ReadStep == TypeOK /\ GcpInv /\ [Next]_vars => ReadInv'
<1> SUFFICES ASSUME TypeOK, GcpInv, [Next]_vars
             PROVE  ReadInv'
  OBVIOUS
<1> USE DEF ReadInv, Goto, cloudVars, agentVars
<1>1. CASE StartTask \/ Collect
  BY <1>1 DEF StartTask, Collect
<1>2. CASE Get \/ Download \/ Accept \/ Refuse \/ WaitForOp
  BY <1>2 DEF Get, Download, Accept, Refuse, WaitForOp, Return, GcpInv
<1>3. CASE WaitFails \/ Report \/ Die
  BY <1>3 DEF WaitFails, Report, Die, End
<1>4. CASE CloudSql
  <2>1. UNCHANGED agentVars
    BY <1>4 DEF CloudSql, Complete, Abort, Administer
  <2>2. CASE pc # "wait"
    BY <1>4, <2>1, <2>2, CloudChanges DEF GcpInv, TypeOK
  <2>3. CASE pc = "wait" /\ Complete
    \* The task's own operation sets variables to the recommendation only.
    BY <2>1, <2>3 DEF Complete, GcpInv, TargetInv, FlagsInv, InForce, TypeOK
  <2>4. CASE pc = "wait" /\ Abort
    BY <2>1, <2>4 DEF Abort, GcpInv
  <2>5. CASE pc = "wait" /\ Administer
    BY <2>1, <2>5 DEF Administer, GcpInv, FlagsInv, InForce, TypeOK
  <2> QED BY <1>4, <2>2, <2>3, <2>4, <2>5 DEF CloudSql
<1>5. CASE UNCHANGED vars
  BY <1>5 DEF vars, GcpInv
<1> QED BY <1>1, <1>2, <1>3, <1>4, <1>5 DEF Next, Step

LEMMA TargetStep == TypeOK /\ GcpInv /\ [Next]_vars => TargetInv'
<1> SUFFICES ASSUME TypeOK, GcpInv, [Next]_vars
             PROVE  TargetInv'
  OBVIOUS
<1> USE DEF TargetInv, Changes, Goto, cloudVars, agentVars
<1>1. CASE Accept
  BY <1>1 DEF Accept, Merged, GcpInv, ReadInv
<1>2. CASE StartTask \/ Collect \/ Get \/ Download \/ Refuse \/ WaitForOp
  BY <1>2 DEF StartTask, Collect, Get, Download, Refuse, WaitForOp, Return
<1>3. CASE WaitFails \/ Report \/ Die
  BY <1>3 DEF WaitFails, Report, Die, End
<1>4. CASE CloudSql
  BY <1>4 DEF CloudSql, Complete, Abort, Administer
<1>5. CASE UNCHANGED vars
  BY <1>5 DEF vars, GcpInv
<1> QED BY <1>1, <1>2, <1>3, <1>4, <1>5 DEF Next, Step

LEMMA OutcomeStep == TypeOK /\ GcpInv /\ [Next]_vars => OutcomeInv'
<1> SUFFICES ASSUME TypeOK, GcpInv, [Next]_vars
             PROVE  OutcomeInv'
  OBVIOUS
<1> USE DEF OutcomeInv, Goto, cloudVars, agentVars
<1>1. CASE Accept
  <2>1. ASSUME NEW p \in asked \ touched
        PROVE  InForce(target')[p] = "wanted"
    <3>1. p \in Params /\ target'[p] = Merged(p)
      BY <1>1 DEF Accept, TypeOK
    <3>2. CASE p \in seen
      BY <1>1, <3>1, <3>2 DEF Accept, Merged, Changes, GcpInv, ReadInv, FlagsInv, InForce
    <3>3. CASE p \notin seen
      BY <3>1, <3>3 DEF Merged, Changes, InForce
    <3> QED BY <3>2, <3>3
  <2> QED BY <1>1, <2>1 DEF Accept
<1>2. CASE StartTask \/ Collect \/ Get \/ Download \/ Refuse
  BY <1>2 DEF StartTask, Collect, Get, Download, Refuse, Return
<1>3. CASE WaitForOp
  BY <1>3 DEF WaitForOp, OperationDone, Return, GcpInv
<1>4. CASE WaitFails \/ Report \/ Die
  BY <1>4 DEF WaitFails, Report, Die, End
<1>5. CASE Complete
  BY <1>5, CloudChanges DEF Complete, CloudSql, GcpInv, TypeOK
<1>6. CASE Abort
  BY <1>6 DEF Abort, GcpInv
<1>7. CASE Administer
  BY <1>7 DEF Administer, GcpInv, FlagsInv, InForce, TypeOK
<1>8. CASE UNCHANGED vars
  BY <1>8 DEF vars, GcpInv, InForce
<1> QED BY <1>1, <1>2, <1>3, <1>4, <1>5, <1>6, <1>7, <1>8 DEF Next, Step, CloudSql

LEMMA LearntStep == TypeOK /\ LearntInv /\ [Next]_vars => LearntInv'
<1> SUFFICES ASSUME LearntInv, [Next]_vars
             PROVE  LearntInv'
  OBVIOUS
<1> USE DEF LearntInv, Goto, agentVars
<1>1. CASE StartTask \/ Collect \/ Get \/ Download
  BY <1>1 DEF StartTask, Collect, Get, Download, Return
<1>2. CASE Accept \/ Refuse \/ WaitForOp
  BY <1>2 DEF Accept, Refuse, WaitForOp, Return
<1>3. CASE WaitFails \/ Report \/ Die
  BY <1>3 DEF WaitFails, Report, Die, End
<1>4. CASE CloudSql \/ UNCHANGED vars
  BY <1>4 DEF CloudSql, Complete, Abort, Administer, vars
<1> QED BY <1>1, <1>2, <1>3, <1>4 DEF Next, Step

LEMMA InitInv == Init => GcpInv
  BY DEF Init, GcpInv, FlagsInv, LearntInv, ReadInv, TargetInv, OutcomeInv

\* The inductive invariant.
THEOREM GcpInvariant == Spec => []GcpInv
<1>1. TypeOK /\ GcpInv /\ [Next]_vars => GcpInv'
  BY FlagsStep, LearntStep, ReadStep, TargetStep, OutcomeStep DEF GcpInv
<1> QED BY <1>1, InitInv, GcpTypeCorrect, PTL DEF Spec

-----------------------------------------------------------------------------
(* What follows from it *)

\* Flags that nobody else has changed are left as they were, or set to the
\* recommendation.
THEOREM GcpOthersKept == Spec => OthersKept
<1>1. TypeOK /\ GcpInv /\ [Next]_vars
        => [\A p \in Params \ touched' :
              flags'[p] # flags[p] => Changes(p) /\ flags'[p] = "wanted"]_vars
  <2> SUFFICES ASSUME TypeOK, GcpInv, Next,
                      NEW p \in Params \ touched', flags'[p] # flags[p]
               PROVE  Changes(p) /\ flags'[p] = "wanted"
    OBVIOUS
  <2>1. CASE CloudSql /\ pc # "wait"
    BY <2>1, CloudChanges DEF GcpInv
  <2>2. CASE CloudSql /\ pc = "wait"
    BY <2>2 DEF CloudSql, Complete, Abort, Administer, GcpInv, TargetInv, TypeOK
  <2>3. CASE StartTask \/ Step \/ Die
    BY <2>3 DEF StartTask, Step, Collect, Get, Download, Accept, Refuse, WaitForOp,
                WaitFails, Report, Die, End, cloudVars
  <2> QED BY <2>1, <2>2, <2>3 DEF Next
<1> QED BY <1>1, GcpInvariant, GcpTypeCorrect, PTL DEF Spec, OthersKept

LEMMA PromiseInit == Init => Promise!Init
  BY InForceType DEF Init, Promise!Init, Verdict

LEMMA PromiseStep ==
    TypeOK /\ TypeOK' /\ GcpInv /\ GcpInv' /\ [Next]_vars => [Promise!Next]_(Promise!vars)
<1> SUFFICES ASSUME TypeOK, TypeOK', GcpInv, GcpInv', [Next]_vars
             PROVE  Promise!Next \/ UNCHANGED Promise!vars
  OBVIOUS
<1> USE DEF Promise!Next, Promise!vars, Verdict, Goto, cloudVars, agentVars
<1>1. CASE StartTask \/ Collect
  BY <1>1 DEF StartTask, Collect, Promise!Begin, GcpInv, LearntInv
<1>2. CASE Get \/ Refuse
  BY <1>2 DEF Get, Refuse, Return, Promise!Fail
<1>3. CASE Download
  BY <1>3 DEF Download, Promise!Learn
<1>4. CASE Accept \/ Abort
  BY <1>4 DEF Accept, Abort
<1>5. CASE WaitForOp
  <2>1. \A p \in asked \ touched : running[p] = "wanted"
    BY <1>5 DEF WaitForOp, OperationDone, GcpInv, OutcomeInv
  <2>2. CASE learnt
    BY <1>5, <2>1, <2>2 DEF WaitForOp, Return, Promise!Succeed, Good, TypeOK
  <2>3. CASE ~learnt
    BY <1>5, <2>3 DEF WaitForOp, Return, Promise!SucceedUnread, GcpInv, LearntInv
  <2> QED BY <2>2, <2>3
<1>6. CASE WaitFails \/ Report \/ Die
  BY <1>6 DEF WaitFails, Report, Die, End, Promise!End
<1>7. CASE Complete \/ Administer
  <2>1. CloudSql /\ UNCHANGED agentVars /\ touched \subseteq touched'
    BY <1>7 DEF CloudSql, Complete, Administer
  <2>2. \A p \in Params \ touched' :
          running'[p] # running[p] => p \in asked /\ running'[p] \in Good[p]
    <3>1. CASE pc # "wait"
      BY <2>1, <3>1, CloudChanges DEF GcpInv
    <3>2. CASE pc = "wait" /\ Complete
      BY <3>2 DEF Complete, GcpInv, TargetInv, FlagsInv, InForce, Good, Changes, TypeOK
    <3>3. CASE pc = "wait" /\ Administer
      BY <3>3 DEF Administer, GcpInv, FlagsInv, InForce, Good, TypeOK
    <3> QED BY <1>7, <3>1, <3>2, <3>3
  <2> QED BY <2>1, <2>2 DEF Promise!Effect, TypeOK
<1>8. CASE UNCHANGED vars
  BY <1>8 DEF vars
<1> QED BY <1>1, <1>2, <1>3, <1>4, <1>5, <1>6, <1>7, <1>8 DEF Next, Step, CloudSql

\* A task implements what CloudApply promises: when it has read its
\* recommendation and succeeds, every value of it is in force; when it has read
\* none, it has changed nothing, and succeeds all the same.
THEOREM GcpKeepsPromise == Spec => KeepsPromise
  BY PromiseInit, PromiseStep, GcpInvariant, GcpTypeCorrect, PTL
  DEF Spec, KeepsPromise, Promise!Spec
=============================================================================
