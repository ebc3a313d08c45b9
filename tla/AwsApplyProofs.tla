--------------------------- MODULE AwsApplyProofs ---------------------------
(***************************************************************************)
(* Proofs about AwsApply, for every set of parameters, every size of a     *)
(* batch and every number of polls.                                        *)
(***************************************************************************)
EXTENDS AwsApply, TLAPS, FiniteSetTheorems

LEMMA InitType == Init => TypeOK
<1> SUFFICES ASSUME Init
             PROVE  TypeOK
  OBVIOUS
<1>1. learnt \in BOOLEAN
  BY DEF Init
<1> QED BY <1>1, ParamsAssumption, BoundsAssumption DEF Init, TypeOK, Values

LEMMA NextType == TypeOK /\ [Next]_vars => TypeOK'
<1> SUFFICES ASSUME TypeOK, [Next]_vars
             PROVE  TypeOK'
  OBVIOUS
<1> USE BoundsAssumption
    DEF TypeOK, Goto, groupVars, agentVars, callVars
<1>1. CASE StartTask
  BY <1>1 DEF StartTask
<1>2. CASE Collect
  BY <1>2 DEF Collect
<1>3. CASE Describe
  BY <1>3 DEF Describe, Return
<1>4. CASE Download
  BY <1>4 DEF Download
<1>5. CASE Gather
  BY <1>5 DEF Gather, AfterLast
<1>6. CASE Accept
  <2>1. group' \in [Params -> Values]
    BY <1>6 DEF Accept, Sent, Values
  <2> QED BY <1>6, <2>1 DEF Accept, Emptied
<1>7. CASE Refuse
  BY <1>7 DEF Refuse, Return
<1>8. CASE Poll
  <2>1. \A i \in InstanceStatuses : Outcome(i) \in {0, 7, 10}
    BY DEF Outcome
  <2>2. polls' \in 1..MaxPolls /\ (pc' = "poll" => polls' < MaxPolls)
    BY <1>8 DEF Poll, Return
  <2>3. /\ phase' \in {"immediate", "pending-reboot"}
        /\ pc' \in {"poll", "collect", "report"}
        /\ exit' \in {0, 1, 2, 3, 6, 7, 8, 9, 10}
    BY <1>8, <2>1 DEF Poll, Return
  <2> QED BY <1>8, <2>2, <2>3 DEF Poll
<1>9. CASE Report \/ Die
  <2>1. learnt' \in BOOLEAN
    BY <1>9 DEF Report, Die, End
  <2> QED BY <1>9, <2>1 DEF Report, Die, End
<1>10. CASE Notice
  BY <1>10 DEF Notice, Actual
<1>11. CASE TakeEffect \/ Reboot
  BY <1>11 DEF TakeEffect, Reboot
<1>12. CASE Administer
  BY <1>12, ParamsAssumption DEF Administer, Values
<1>13. CASE UNCHANGED vars
  BY <1>13 DEF vars
<1> QED BY <1>1, <1>2, <1>3, <1>4, <1>5, <1>6, <1>7, <1>8, <1>9, <1>10, <1>11,
           <1>12, <1>13 DEF Next, Step, Rds

\* The types hold for every instance of the parameters.
THEOREM AwsTypeCorrect == Spec => []TypeOK
  BY InitType, NextType, PTL DEF Spec

-----------------------------------------------------------------------------
(* The parts of the invariant *)

LEMMA GroupStep == TypeOK /\ AwsInv /\ [Next]_vars => GroupInv'
<1> SUFFICES ASSUME TypeOK, GroupInv, SeenInv, [Next]_vars
             PROVE  GroupInv'
  BY DEF AwsInv
<1> USE DEF TypeOK, GroupInv, groupVars, agentVars, callVars
<1>1. CASE StartTask
  BY <1>1 DEF StartTask
<1>2. CASE Collect
  BY <1>2 DEF Collect
<1>3. CASE Accept
  BY <1>3 DEF Accept
<1>4. CASE Describe \/ Download \/ Gather \/ Refuse \/ Poll
  BY <1>4 DEF Describe, Download, Gather, Refuse, Poll
<1>5. CASE Report \/ Die \/ Notice \/ UNCHANGED vars
  BY <1>5 DEF Report, Die, End, Notice, vars
<1>6. CASE TakeEffect \/ Reboot
  BY <1>6 DEF TakeEffect, Reboot
<1>7. CASE Administer
  BY <1>7 DEF Administer
<1> QED BY <1>1, <1>2, <1>3, <1>4, <1>5, <1>6, <1>7 DEF Next, Step, Rds

LEMMA BatchStep == TypeOK /\ AwsInv /\ [Next]_vars => BatchInv'
<1> SUFFICES ASSUME TypeOK, BatchInv, [Next]_vars, pc \in {"describe", "download"} => sent = {}
             PROVE  BatchInv'
  BY DEF AwsInv, OutcomeInv
<1> USE DEF TypeOK, BatchInv, Applicable, Goto, groupVars, agentVars, callVars
<1>1. CASE StartTask \/ Collect \/ Download
  BY <1>1 DEF StartTask, Collect, Download
<1>2. CASE Describe \/ Refuse
  BY <1>2 DEF Describe, Refuse, Return
<1>3. CASE Gather
  <2>1. PICK visited \in SUBSET todo :
          /\ todo' = todo \ visited
          /\ batch' = {p \in visited : Applicable(p)}
          /\ \/ pc' = "send"
             \/ todo' = {} /\ pc' = AfterLast(batch')
    BY <1>3 DEF Gather
  <2>2. pc' \in {"send", "poll"} /\ (pc' = "poll" => todo' = {} /\ batch' = {})
    BY <2>1 DEF AfterLast
  <2> QED BY <1>3, <2>1, <2>2 DEF Gather
<1>4. CASE Accept
  BY <1>4 DEF Accept, Emptied
<1>5. CASE Poll
  BY <1>5 DEF Poll, Return
<1>6. CASE Report \/ Die \/ Notice \/ TakeEffect \/ Reboot \/ UNCHANGED vars
  BY <1>6 DEF Report, Die, End, Notice, TakeEffect, Reboot, vars
<1>7. CASE Administer
  BY <1>7 DEF Administer
<1> QED BY <1>1, <1>2, <1>3, <1>4, <1>5, <1>6, <1>7 DEF Next, Step, Rds

LEMMA SeenStep == TypeOK /\ AwsInv /\ [Next]_vars => SeenInv'
<1> SUFFICES ASSUME TypeOK, GroupInv, SeenInv, [Next]_vars
             PROVE  SeenInv'
  BY DEF AwsInv
<1> USE DEF TypeOK, SeenInv, Good, Goto, groupVars, agentVars, callVars
<1>1. CASE StartTask \/ Collect
  BY <1>1 DEF StartTask, Collect
<1>2. CASE Describe \/ Refuse \/ Poll
  BY <1>2 DEF Describe, Refuse, Poll, Return
<1>3. CASE Download \/ Gather \/ Accept
  BY <1>3 DEF Download, Gather, Accept
<1>4. CASE Report \/ Die \/ Notice \/ UNCHANGED vars
  BY <1>4 DEF Report, Die, End, Notice, vars
<1>5. CASE TakeEffect \/ Reboot
  BY <1>5 DEF TakeEffect, Reboot, GroupInv
<1>6. CASE Administer
  BY <1>6 DEF Administer
<1> QED BY <1>1, <1>2, <1>3, <1>4, <1>5, <1>6 DEF Next, Step, Rds

\* What a task that polls has made of the group: what it has not sent was in
\* force already, or has been modified by somebody else.
LEMMA GroupDeserved ==
    ASSUME TypeOK, AwsInv, pc = "poll", phase = "pending-reboot"
    PROVE  \A p \in asked \ touched : group[p] \in Good[p]
<1> TAKE p \in asked \ touched
<1>1. CASE p \in seen
  BY <1>1 DEF AwsInv, SeenInv, GroupInv, Good, TypeOK
<1>2. CASE p \notin seen
  <2>1. p \in sent
    BY <1>2 DEF AwsInv, BatchInv, Applicable
  <2> QED BY <2>1 DEF AwsInv, GroupInv, Good, TypeOK
<1> QED BY <1>1, <1>2

LEMMA OutcomeStep == TypeOK /\ AwsInv /\ [Next]_vars => OutcomeInv'
<1> SUFFICES ASSUME TypeOK, AwsInv, OutcomeInv, [Next]_vars
             PROVE  OutcomeInv'
  BY DEF AwsInv
<1> USE DEF TypeOK, OutcomeInv, Goto, groupVars, agentVars, callVars
<1>1. CASE StartTask \/ Collect \/ Download \/ Gather \/ Accept
  BY <1>1 DEF StartTask, Collect, Download, Gather, AfterLast, Accept
<1>2. CASE Describe \/ Refuse
  BY <1>2 DEF Describe, Refuse, Return
<1>3. CASE Poll
  <2>1. pc = "poll" /\ UNCHANGED <<group, asked, sent, touched>>
    BY <1>3 DEF Poll
  <2>2. pc' \in {"poll", "collect", "report"}
    BY <1>3 DEF Poll, Return
  <2>3. pc' = "report" /\ exit' = 0 => phase = "pending-reboot"
    BY <1>3 DEF Poll, Return
  <2>4. pc' = "report" /\ exit' = 0 => \A p \in asked \ touched : group[p] \in Good[p]
    BY <2>1, <2>3, GroupDeserved
  <2> QED BY <2>1, <2>2, <2>4
<1>4. CASE Report \/ Die
  BY <1>4 DEF Report, Die, End
<1>5. CASE Notice \/ TakeEffect \/ Reboot \/ UNCHANGED vars
  BY <1>5 DEF Notice, TakeEffect, Reboot, vars
<1>6. CASE Administer
  BY <1>6 DEF Administer
<1> QED BY <1>1, <1>2, <1>3, <1>4, <1>5, <1>6 DEF Next, Step, Rds

LEMMA InitInv == Init => AwsInv
  BY DEF Init, AwsInv, GroupInv, BatchInv, SeenInv, OutcomeInv

\* The inductive invariant: where every recommended parameter is while a call
\* runs, and what that makes of the parameter group.
THEOREM AwsInvariant == Spec => []AwsInv
<1>1. TypeOK /\ AwsInv /\ [Next]_vars => AwsInv'
  BY GroupStep, BatchStep, SeenStep, OutcomeStep DEF AwsInv
<1> QED BY <1>1, InitInv, AwsTypeCorrect, PTL DEF Spec

-----------------------------------------------------------------------------
(* What follows from it *)

\* Within a call no request repeats a parameter that RDS has accepted in an
\* earlier one, whatever the order of the map and wherever the batches end.
THEOREM AwsSentOnce == Spec => SentOnce
<1>1. AwsInv /\ [Next]_vars => [pc = "send" /\ pc' = "gather" => batch \cap sent = {}]_vars
  BY DEF AwsInv, BatchInv
<1> QED BY <1>1, AwsInvariant, PTL DEF Spec, SentOnce

LEMMA PromiseInit == Init => Promise!Init
  BY DEF Init, Promise!Init, Verdict, Values

LEMMA PromiseStep ==
    TypeOK /\ TypeOK' /\ AwsInv /\ AwsInv' /\ [Next]_vars => [Promise!Next]_(Promise!vars)
<1> SUFFICES ASSUME TypeOK, TypeOK', AwsInv, AwsInv', [Next]_vars
             PROVE  Promise!Next \/ UNCHANGED Promise!vars
  OBVIOUS
<1> USE DEF Promise!Next, Promise!vars, Verdict, Goto, groupVars, agentVars, callVars
<1>1. CASE StartTask
  BY <1>1 DEF StartTask, Promise!Begin, AwsInv, BatchInv
<1>2. CASE Collect
  BY <1>2 DEF Collect, Promise!Begin
<1>3. CASE Describe \/ Refuse
  BY <1>3 DEF Describe, Refuse, Return, Promise!Fail
<1>4. CASE Download
  BY <1>4 DEF Download, Promise!Learn
<1>5. CASE Gather \/ Notice
  BY <1>5 DEF Gather, AfterLast, Notice
<1>6. CASE Accept
  <2>1. /\ group' \in [Params -> Values] /\ running' \in [Params -> Values]
        /\ UNCHANGED <<running, touched, learnt, asked>>
        /\ touched \subseteq Params
        /\ pc = "send" /\ pc' = "gather"
    BY <1>6 DEF Accept, TypeOK
  <2>2. \A p \in Params : group'[p] # group[p] => p \in asked /\ group'[p] \in Good[p]
    BY <1>6 DEF Accept, AwsInv, BatchInv, Good, TypeOK
  <2> QED BY <2>1, <2>2 DEF Promise!Effect
<1>7. CASE Poll
  <2>1. /\ pc = "poll"
        /\ UNCHANGED <<group, running, learnt, asked, touched>>
        /\ pc' \in {"poll", "collect", "report"}
    BY <1>7 DEF Poll, Return
  <2>2. CASE pc' # "report"
    BY <2>1, <2>2
  <2>3. CASE pc' = "report" /\ exit' # 0
    BY <2>1, <2>3 DEF Promise!Fail
  <2>4. CASE pc' = "report" /\ exit' = 0
    <3>1. \A p \in asked \ touched : group[p] \in Good[p]
      BY <2>1, <2>4 DEF AwsInv, OutcomeInv
    <3>2. shown = "in-sync"
      BY <1>7, <2>4 DEF Poll, Return, Outcome
    <3>3. shown = Actual => \A p \in Params : group[p] = running[p]
      BY <3>2 DEF Actual, AwsInv, GroupInv
    <3>4. asked \subseteq Params
      BY DEF TypeOK
    <3>5. ~learnt => asked = {}
      BY <2>1 DEF AwsInv, BatchInv
    <3>6. learnt' = learnt /\ learnt \in BOOLEAN
      BY <2>1 DEF TypeOK
    <3>7. CASE learnt
      BY <2>1, <2>4, <3>1, <3>3, <3>4, <3>6, <3>7 DEF Promise!Succeed
    <3>8. CASE ~learnt
      BY <2>1, <2>4, <3>5, <3>6, <3>8 DEF Promise!SucceedUnread
    <3> QED BY <3>7, <3>8
  <2> QED BY <2>2, <2>3, <2>4
<1>8. CASE Report \/ Die
  BY <1>8 DEF Report, Die, End, Promise!End
<1>9. CASE TakeEffect \/ Reboot
  BY <1>9 DEF TakeEffect, Reboot, Promise!Effect, TypeOK, AwsInv, GroupInv
<1>10. CASE Administer
  BY <1>10 DEF Administer, Promise!Effect, TypeOK
<1>11. CASE UNCHANGED vars
  BY <1>11 DEF vars
<1> QED BY <1>1, <1>2, <1>3, <1>4, <1>5, <1>6, <1>7, <1>8, <1>9, <1>10, <1>11
        DEF Next, Step, Rds

\* A task implements what CloudApply promises: when it has read its
\* recommendation and succeeds, the parameter group has every value of it, and
\* they are in force unless RDS still showed the status from before; when it
\* has read none, it has changed nothing, and succeeds all the same.
THEOREM AwsKeepsPromise == Spec => KeepsPromise
  BY PromiseInit, PromiseStep, AwsInvariant, AwsTypeCorrect, PTL
  DEF Spec, KeepsPromise, Promise!Spec

-----------------------------------------------------------------------------
(* The size of a request *)

\* A set that is too large has a subset of any smaller size.
LEMMA SubsetOfSize ==
    ASSUME NEW S, IsFiniteSet(S), NEW m \in Nat, m <= Cardinality(S)
    PROVE  \E T \in SUBSET S : Cardinality(T) = m
<1> DEFINE n == Cardinality(S)
<1>1. n \in Nat /\ ExistsBijection(1..n, S)
  BY FS_CardinalityType
<1>2. PICK f : f \in Bijection(1..n, S)
  BY <1>1 DEF ExistsBijection
<1> DEFINE T == {f[i] : i \in 1..m}
           g == [i \in 1..m |-> f[i]]
<1>3. T \subseteq S
  BY <1>1, <1>2 DEF Bijection, Injection
<1>4. g \in Bijection(1..m, T)
  BY <1>1, <1>2 DEF Bijection, Injection, Surjection, IsInjective
<1>5. ExistsBijection(1..m, T)
  BY <1>4 DEF ExistsBijection
<1>6. Cardinality(T) = m
  BY <1>5, FS_CountingElements
<1> QED BY <1>3, <1>6

\* A batch that goes to RDS has been cut at the parameter that filled it, or is
\* what was left.
RequestInv == pc = "send" => Cardinality(batch) \in 1..BatchSize

LEMMA RequestStep ==
    ASSUME IsFiniteSet(Params)
    PROVE  TypeOK /\ TypeOK' /\ RequestInv /\ [Next]_vars => RequestInv'
<1> SUFFICES ASSUME TypeOK, TypeOK', RequestInv, [Next]_vars
             PROVE  RequestInv'
  OBVIOUS
<1> USE DEF RequestInv, Goto, groupVars, agentVars, callVars
<1>1. CASE Gather
  <2>1. IsFiniteSet(batch') /\ Cardinality(batch') \in Nat
    BY FS_Subset, FS_CardinalityType DEF TypeOK
  <2>2. CASE Full(batch')
    BY <2>2, BoundsAssumption DEF Full
  <2>3. CASE /\ \A b \in SUBSET batch' : ~Full(b)
             /\ pc' = AfterLast(batch')
    <3>1. Cardinality(batch') < BatchSize
      <4> SUFFICES ASSUME BatchSize <= Cardinality(batch')
                   PROVE  FALSE
        BY <2>1, BoundsAssumption
      <4>1. PICK b \in SUBSET batch' : Cardinality(b) = BatchSize
        BY <2>1, SubsetOfSize, BoundsAssumption
      <4> QED BY <2>3, <4>1 DEF Full
    <3>2. pc' = "send" => batch' # {}
      BY <2>3 DEF AfterLast
    <3>3. pc' = "send" => Cardinality(batch') # 0
      BY <2>1, <3>2, FS_EmptySet
    <3> QED BY <2>1, <3>1, <3>3, BoundsAssumption
  <2> QED BY <1>1, <2>2, <2>3 DEF Gather
<1>2. CASE StartTask \/ Collect \/ Download \/ Accept
  BY <1>2 DEF StartTask, Collect, Download, Accept
<1>3. CASE Describe \/ Refuse \/ Poll
  BY <1>3 DEF Describe, Refuse, Poll, Return
<1>4. CASE Report \/ Die
  BY <1>4 DEF Report, Die, End
<1>5. CASE Rds \/ UNCHANGED vars
  BY <1>5 DEF Rds, Notice, TakeEffect, Reboot, Administer, vars
<1> QED BY <1>1, <1>2, <1>3, <1>4, <1>5 DEF Next, Step

\* Every request is one that RDS can accept, however many parameters differ:
\* full batches and the remainder after them.
THEOREM AwsRequestLegal ==
    ASSUME IsFiniteSet(Params)
    PROVE  Spec => []RequestLegal
<1>1. Init => RequestInv
  BY DEF Init, RequestInv
<1>2. AwsInv /\ RequestInv => RequestLegal
  BY DEF AwsInv, BatchInv, RequestInv, RequestLegal, Applicable
<1> QED BY <1>1, <1>2, RequestStep, AwsInvariant, AwsTypeCorrect, PTL DEF Spec

-----------------------------------------------------------------------------
(* The length of a task *)

\* The most steps that one call of ApplyConfAwsRds takes, up to its return: two
\* for every request, which takes a parameter at least off the rest; the polls;
\* four for what comes before.
CallSteps == MaxPolls + 2 * Cardinality(Params) + 4

\* The most steps that the call of a task still takes, its report included.
CallStepsLeft ==
    CASE pc = "idle"     -> 0
      [] pc = "report"   -> 1
      [] pc = "poll"     -> MaxPolls - polls + 1
      [] pc = "gather"   -> MaxPolls + 1 + 2 * Cardinality(todo)
      [] pc = "send"     -> MaxPolls + 2 + 2 * Cardinality(todo)
      [] pc = "download" -> CallSteps - 2
      [] pc = "describe" -> CallSteps - 1
      [] OTHER           -> CallSteps

\* The call with the immediate method may be followed by another.
StepsLeft ==
    CallStepsLeft + (IF phase = "immediate" /\ pc \notin {"idle", "report"}
                     THEN CallSteps ELSE 0)

LEMMA StepsLeftBounds ==
    ASSUME IsFiniteSet(Params), TypeOK
    PROVE  /\ IsFiniteSet(todo)
           /\ Cardinality(todo) \in 0..Cardinality(Params)
           /\ Cardinality(Params) \in Nat
           /\ CallSteps \in Nat
           /\ CallStepsLeft \in 0..CallSteps
           /\ StepsLeft \in 0..2 * CallSteps
<1>1. Cardinality(Params) \in Nat
  BY FS_CardinalityType
<1>2. /\ IsFiniteSet(todo)
      /\ Cardinality(todo) \in Nat
      /\ Cardinality(todo) <= Cardinality(Params)
  BY FS_Subset, FS_CardinalityType DEF TypeOK
<1>3. MaxPolls \in Nat /\ polls \in 1..MaxPolls
  BY BoundsAssumption DEF TypeOK
<1>4. CallSteps \in Nat
  BY <1>1, <1>3 DEF CallSteps
<1>5. CallStepsLeft \in 0..CallSteps
  BY <1>1, <1>2, <1>3, <1>4 DEF CallStepsLeft, CallSteps
<1>6. StepsLeft \in 0..2 * CallSteps
  BY <1>4, <1>5 DEF StepsLeft
<1> QED BY <1>1, <1>2, <1>4, <1>5, <1>6

\* A return leaves one more step, or another call.
LEMMA ReturnBrings ==
    ASSUME IsFiniteSet(Params), TypeOK, TypeOK', NEW c, Return(c),
           pc \notin {"idle", "report"}, CallStepsLeft > 1
    PROVE  StepsLeft' < StepsLeft
<1>1. CallSteps \in Nat /\ CallStepsLeft \in Nat
  BY StepsLeftBounds
<1>2. CallSteps' = CallSteps
  BY DEF CallSteps
<1>3. CASE phase = "immediate" /\ c = 0
  <2>1. StepsLeft' = CallSteps
    BY <1>1, <1>2, <1>3 DEF Return, Goto, StepsLeft, CallStepsLeft
  <2> QED BY <1>1, <1>3, <2>1 DEF StepsLeft
<1>4. CASE ~(phase = "immediate" /\ c = 0)
  <2>1. StepsLeft' = 1
    BY <1>4 DEF Return, Goto, StepsLeft, CallStepsLeft
  <2> QED BY <1>1, <2>1 DEF StepsLeft
<1> QED BY <1>3, <1>4

\* Every step of the task takes one off.
LEMMA StepTakesOff ==
    ASSUME IsFiniteSet(Params), TypeOK, TypeOK', AwsInv, Step
    PROVE  StepsLeft' < StepsLeft
<1> DEFINE N == Cardinality(Params)
<1>1. /\ N \in Nat
      /\ IsFiniteSet(todo)
      /\ Cardinality(todo) \in 0..N
      /\ CallSteps \in Nat
      /\ CallSteps = MaxPolls + 2 * N + 4
      /\ CallSteps' = CallSteps
      /\ MaxPolls \in Nat
  BY StepsLeftBounds, BoundsAssumption DEF CallSteps
<1>2. IsFiniteSet(todo') /\ Cardinality(todo') \in 0..N
  <2>1. todo' \subseteq Params
    BY DEF TypeOK
  <2> QED BY <1>1, <2>1, FS_Subset, FS_CardinalityType
<1> HIDE DEF N
<1> USE DEF Goto
<1>3. CASE Collect
  BY <1>1, <1>3 DEF Collect, StepsLeft, CallStepsLeft
<1>4. CASE Describe
  <2>1. ASSUME NEW c \in {1, 2, 3}, Return(c)
        PROVE  StepsLeft' < StepsLeft
    BY <1>1, <1>4, <2>1, ReturnBrings DEF Describe, CallStepsLeft
  <2>2. CASE pc' = "download" /\ UNCHANGED phase
    BY <1>1, <1>4, <2>2 DEF Describe, StepsLeft, CallStepsLeft
  <2> QED BY <1>4, <2>1, <2>2 DEF Describe
<1>5. CASE Download
  BY <1>1, <1>2, <1>5 DEF Download, StepsLeft, CallStepsLeft
<1>6. CASE Gather
  <2>1. PICK visited \in SUBSET todo :
          /\ todo' = todo \ visited
          /\ batch' = batch \cup {p \in visited : Applicable(p)}
          /\ \/ Full(batch') /\ pc' = "send"
             \/ todo' = {} /\ pc' = AfterLast(batch')
    BY <1>6 DEF Gather
  <2>2. pc = "gather" /\ batch = {} /\ polls' = 1 /\ UNCHANGED phase
    BY <1>6 DEF Gather, AwsInv, BatchInv
  <2>3. CASE pc' = "poll"
    BY <1>1, <2>2, <2>3 DEF StepsLeft, CallStepsLeft
  <2>4. CASE pc' = "send"
    <3>1. batch' # {}
      BY <2>1, <2>4, FS_EmptySet, BoundsAssumption DEF Full, AfterLast
    <3>2. todo' # todo /\ todo' \in SUBSET todo
      BY <2>1, <2>2, <3>1
    <3>3. Cardinality(todo') < Cardinality(todo)
      BY <1>1, <1>2, <3>2, FS_Subset
    <3> QED BY <1>1, <1>2, <2>2, <2>4, <3>3 DEF StepsLeft, CallStepsLeft
  <2> QED BY <2>1, <2>3, <2>4 DEF AfterLast
<1>7. CASE Accept
  BY <1>1, <1>7 DEF Accept, StepsLeft, CallStepsLeft
<1>8. CASE Refuse
  BY <1>1, <1>8, ReturnBrings DEF Refuse, CallStepsLeft
<1>9. CASE Poll
  <2>1. pc = "poll" /\ polls \in 1..MaxPolls /\ polls < MaxPolls
    BY <1>9 DEF Poll, TypeOK
  <2>2. CallStepsLeft > 1
    BY <1>1, <2>1 DEF CallStepsLeft
  <2>3. ASSUME NEW c, Return(c)
        PROVE  StepsLeft' < StepsLeft
    BY <2>1, <2>2, <2>3, ReturnBrings
  <2>4. CASE polls' = polls + 1 /\ UNCHANGED <<phase, pc>>
    BY <1>1, <2>1, <2>4 DEF StepsLeft, CallStepsLeft
  <2> QED BY <1>9, <2>3, <2>4 DEF Poll
<1>10. CASE Report
  BY <1>10 DEF Report, End, StepsLeft, CallStepsLeft
<1> QED BY <1>3, <1>4, <1>5, <1>6, <1>7, <1>8, <1>9, <1>10 DEF Step

\* A task of either type takes a bounded number of steps, those of both calls
\* included, whatever RDS answers and whenever: 400 polls and two steps for each
\* parameter and call.  Nothing but StartTask sets it back.  (That a step
\* can be taken, so that the task does end, is what TaskEnds adds.)
AwsBounded ==
    [][/\ Step => StepsLeft' < StepsLeft
       /\ pc # "idle" => StepsLeft' <= StepsLeft]_vars

\* The loops of ApplyConfAwsRds, over the recommendation, the batches and the
\* polls, come to their end in both calls, in no more steps than CallSteps says
\* for each.
THEOREM AwsStepsBounded ==
    ASSUME IsFiniteSet(Params)
    PROVE  Spec => [](StepsLeft \in 0..2 * CallSteps) /\ AwsBounded
<1>1. TypeOK => StepsLeft \in 0..2 * CallSteps
  BY StepsLeftBounds
<1>2. ASSUME TypeOK, TypeOK', [Next]_vars, pc # "idle", ~Step
      PROVE  StepsLeft' <= StepsLeft
  <2>1. StepsLeft \in Nat
    BY <1>1, <1>2, StepsLeftBounds
  <2>2. CASE Die
    BY <2>1, <2>2 DEF Die, End, Goto, StepsLeft, CallStepsLeft
  <2>3. CASE Rds \/ UNCHANGED vars
    <3>1. UNCHANGED agentVars
      BY <2>3 DEF Rds, Notice, TakeEffect, Reboot, Administer, vars
    <3>2. StepsLeft' = StepsLeft
      BY <3>1 DEF agentVars, callVars, StepsLeft, CallStepsLeft, CallSteps
    <3> QED BY <2>1, <3>2
  <2> QED BY <1>2, <2>2, <2>3 DEF Next, StartTask
<1>3. ASSUME TypeOK, TypeOK', AwsInv, (StepsLeft \in 0..2 * CallSteps)', [Next]_vars
      PROVE  [/\ Step => StepsLeft' < StepsLeft
              /\ pc # "idle" => StepsLeft' <= StepsLeft]_vars
  <2>1. StepsLeft \in Nat
    BY <1>1, <1>3, StepsLeftBounds
  <2>2. Step => StepsLeft' < StepsLeft
    BY <1>3, StepTakesOff
  <2>3. CallSteps' \in Nat
    BY <1>3, StepsLeftBounds DEF CallSteps
  <2>4. StepsLeft' \in Nat
    BY <1>3, <2>3
  <2> QED BY <1>2, <1>3, <2>1, <2>2, <2>4
<1> QED BY <1>1, <1>3, AwsInvariant, AwsTypeCorrect, PTL DEF Spec, AwsBounded
=============================================================================
