---------------------------- MODULE WorkerProofs ----------------------------
(***************************************************************************)
(* Proofs about Worker, for every number of goroutines that overlap, every *)
(* set of configurations and every number of consumers and timers.         *)
(***************************************************************************)
EXTENDS Worker, TLAPS

LEMMA StrategyType ==
    ASSUME NEW short \in BOOLEAN
    PROVE  Strategy(short) \in Labels
  BY DEF Strategy, Labels

LEMMA GotoType ==
    ASSUME TypeOK, NEW g \in Goroutines, NEW label \in Labels, Goto(g, label)
    PROVE  pc' \in [Goroutines -> Labels]
  BY DEF TypeOK, Goto

LEMMA InitType == Init => TypeOK
<1> SUFFICES ASSUME Init PROVE TypeOK
  OBVIOUS
<1>1. pc \in [Goroutines -> Labels]
  BY StrategyType DEF Init, Labels
<1>2. count \in 0..MaxConsumers /\ timers \in 0..MaxTimers
  BY WorkerAssumption DEF Init
<1> QED BY <1>1, <1>2 DEF Init, TypeOK, CollectSampleQueriesPeriod

\* The loop, the timers and the ends of the process.
LEMMA LoopType ==
    ASSUME TypeOK, NEW g \in Goroutines, Tick(g) \/ TaskTimer(g)
    PROVE  TypeOK'
<1>1. pc' \in [Goroutines -> Labels]
  BY GotoType DEF Tick, TaskTimer, Labels
<1>2. CASE Tick(g)
  <2>1. Job[g] \in Timers
    BY <1>2 DEF Tick, TypeOK
  <2> QED BY <1>1, <1>2, <2>1 DEF Tick, Reset, TypeOK
<1>3. CASE TaskTimer(g)
  <2>1. timers' \in 0..MaxTimers
    BY <1>3, WorkerAssumption DEF TaskTimer, TypeOK
  <2> QED BY <1>1, <1>3, <2>1 DEF TaskTimer, TypeOK
<1> QED BY <1>2, <1>3

LEMMA EndsType ==
    ASSUME TypeOK, NEW how \in {"exited", "terminated"}, Ends(how)
    PROVE  TypeOK'
<1>1. pc' \in [Goroutines -> Labels] /\ timers' \in 0..MaxTimers
  BY WorkerAssumption DEF Ends, Labels
<1> QED BY <1>1 DEF Ends, TypeOK

LEMMA StepType ==
    ASSUME TypeOK, NEW g \in Goroutines, Step(g)
    PROVE  TypeOK'
<1>1. CASE CollectFails(g)
  BY <1>1, GotoType DEF CollectFails, TypeOK, Labels
<1>2. CASE Collected(g)
  <2>1. PICK short \in BOOLEAN :
           Goto(g, IF Job[g] = "task" THEN "post" ELSE Strategy(short))
    BY <1>2 DEF Collected, UptimeIsShort
  <2>2. pc' \in [Goroutines -> Labels]
    BY <2>1, GotoType, StrategyType DEF Labels
  <2> QED BY <1>2, <2>2 DEF Collected, TypeOK
<1>3. CASE \E n \in {count, consumers} : CountConsumers(g, n)
  <2>1. count' \in 0..MaxConsumers
    BY <1>3 DEF CountConsumers, TypeOK
  <2>2. pc' \in [Goroutines -> Labels]
    <3>1. PICK n \in {count, consumers} : CountConsumers(g, n)
      BY <1>3
    <3>2. (IF pc[g] = "enable" /\ n < 3 /\ configuration.rds THEN "call" ELSE "test") \in Labels
      BY DEF Labels
    <3> QED BY <3>1, <3>2, GotoType DEF CountConsumers
  <2> QED BY <1>3, <2>1, <2>2 DEF CountConsumers, TypeOK
<1>4. CASE Enable(g)
  <2>1. pc' \in [Goroutines -> Labels] /\ consumers' \in 0..MaxConsumers
    BY <1>4, GotoType, WorkerAssumption DEF Enable, TypeOK, Labels
  <2> QED BY <1>4, <2>1 DEF Enable, TypeOK
<1>5. CASE GetStrategy(g)
  <2>1. Chosen(g) \in Labels
    BY DEF Chosen, Labels
  <2>2. pc' \in [Goroutines -> Labels]
    BY <1>5, <2>1, GotoType DEF GetStrategy, Test, Set, Labels
  <2> QED BY <1>5, <2>2 DEF GetStrategy, Test, Set, TypeOK
<1>6. CASE Exit(g)
  BY <1>6, EndsType DEF Exit
<1>7. CASE PostEnds(g)
  BY <1>7, GotoType DEF PostEnds, TypeOK, Labels
<1>8. CASE Announce(g)
  <2>1. timers' \in 0..MaxTimers
    BY <1>8, WorkerAssumption DEF Announce, TypeOK
  <2> QED BY <1>8, <2>1, GotoType DEF Announce, TypeOK, Labels
<1>9. CASE GetTask(g)
  BY <1>9, GotoType DEF GetTask, TypeOK, Labels
<1> QED BY <1>1, <1>2, <1>3, <1>4, <1>5, <1>6, <1>7, <1>8, <1>9 DEF Step

LEMMA NextType == TypeOK /\ [Next]_vars => TypeOK'
<1> SUFFICES ASSUME TypeOK, [Next]_vars PROVE TypeOK'
  OBVIOUS
<1>1. CASE \E g \in Goroutines : Tick(g) \/ TaskTimer(g) \/ Step(g)
  BY <1>1, LoopType, StepType
<1>2. CASE Terminate
  BY <1>2, EndsType DEF Terminate
<1>3. CASE ServerChanges
  BY <1>3 DEF ServerChanges, TypeOK, agent
<1>4. CASE NewTask
  BY <1>4 DEF NewTask, TypeOK, agent
<1>5. CASE UNCHANGED vars
  BY <1>5 DEF vars, agent, TypeOK
<1> QED BY <1>1, <1>2, <1>3, <1>4, <1>5 DEF Next, Stopped

\* Type correctness, for any number of goroutines that overlap: the period is
\* always one of the three that the code sets, and its default before.
THEOREM WorkerTypeCorrect == Spec => []TypeOK
  BY InitType, NextType, PTL DEF Spec

-----------------------------------------------------------------------------
(* What PeriodSettles rests on: each stage of settling, once reached, is     *)
(* kept while the server's consumers stay as they are.                       *)

\* The count is the server's;
Counted == count = consumers

\* then no goroutine decides by an older one;
Decides(g) ==
    /\ pc[g] = "test1"  => count < 2
    /\ pc[g] = "test0"  => count = 0
    /\ pc[g] = "set10"  => count >= 2
    /\ pc[g] = "set1"   => count > 0 /\ count < 2
    /\ pc[g] = "set600" => count = 0

NoneStale == Counted /\ \A g \in Goroutines : Decides(g)

\* then the period is right.
Settled ==
    /\ NoneStale
    /\ period = IF consumers >= 2 THEN 10 ELSE IF consumers > 0 THEN 1 ELSE 600

\* A step leaves the period, or sets what a goroutine has decided on.
LEMMA PeriodStep ==
    ASSUME TypeOK, [Next]_vars, UNCHANGED consumers
    PROVE  /\ Counted => Counted'
           /\ \/ UNCHANGED period
              \/ \E g \in Goroutines : pc[g] = "set10" /\ period' = 10
              \/ \E g \in Goroutines : pc[g] = "set1" /\ period' = 1
              \/ \E g \in Goroutines : pc[g] = "set600" /\ period' = 600
<1> USE DEF Counted
<1>1. CASE \E g \in Goroutines : Tick(g) \/ TaskTimer(g)
  BY <1>1 DEF Tick, TaskTimer
<1>2. ASSUME NEW g \in Goroutines, Step(g)
      PROVE  /\ Counted => Counted'
             /\ \/ UNCHANGED period
                \/ pc[g] = "set10" /\ period' = 10
                \/ pc[g] = "set1" /\ period' = 1
                \/ pc[g] = "set600" /\ period' = 600
  <2>1. CASE GetStrategy(g)
    BY <2>1 DEF GetStrategy, Test, Set, At
  <2>2. CASE \E n \in {count, consumers} : CountConsumers(g, n)
    BY <2>2 DEF CountConsumers
  <2>3. CASE CollectFails(g) \/ Collected(g) \/ Enable(g) \/ Exit(g) \/ PostEnds(g)
               \/ Announce(g) \/ GetTask(g)
    BY <2>3 DEF CollectFails, Collected, Enable, Exit, Ends, PostEnds, Announce, GetTask
  <2> QED BY <1>2, <2>1, <2>2, <2>3 DEF Step
<1>3. CASE Terminate \/ ServerChanges \/ NewTask \/ UNCHANGED vars
  BY <1>3 DEF Terminate, Ends, ServerChanges, NewTask, vars, agent
<1> QED BY <1>1, <1>2, <1>3 DEF Next, Stopped

\* A goroutine comes to a decision by the count that there is.
LEMMA DecidesStep ==
    ASSUME TypeOK, NoneStale, [Next]_vars, UNCHANGED count,
           NEW g \in Goroutines
    PROVE  Decides(g)'
<1>1. count \in Nat /\ Decides(g) /\ pc \in [Goroutines -> Labels]
  BY WorkerAssumption DEF TypeOK, NoneStale
<1>2. ASSUME NEW h \in Goroutines, NEW label, Goto(h, label),
             label \notin {"test1", "test0", "set10", "set1", "set600"}
      PROVE  Decides(g)'
  BY <1>1, <1>2 DEF Goto, Decides
<1>3. CASE UNCHANGED pc
  BY <1>1, <1>3 DEF Decides
<1>4. CASE pc' = [h \in Goroutines |-> "idle"]
  BY <1>4 DEF Decides
<1>5. ASSUME NEW h \in Goroutines, GetStrategy(h)
      PROVE  Decides(g)'
  <2>1. CASE h # g
    <3>1. pc'[g] = pc[g]
      BY <1>1, <1>5, <2>1 DEF GetStrategy, Test, Set, Goto
    <3> QED BY <1>1, <3>1 DEF Decides
  <2>2. CASE h = g
    BY <1>1, <1>5, <2>2 DEF GetStrategy, Test, Set, At, Goto, Chosen, Decides
  <2> QED BY <2>1, <2>2
<1>6. CASE \E h \in Goroutines : Tick(h) \/ TaskTimer(h)
  BY <1>2, <1>6 DEF Tick, TaskTimer
<1>7. ASSUME NEW h \in Goroutines, Step(h)
      PROVE  Decides(g)'
  <2>1. CASE CollectFails(h) \/ PostEnds(h) \/ Announce(h) \/ GetTask(h) \/ Enable(h)
    BY <1>2, <2>1 DEF CollectFails, PostEnds, Announce, GetTask, Enable
  <2>2. CASE Collected(h)
    <3>1. PICK label \in {"post", "enable", "test"} : Goto(h, label)
      BY <2>2 DEF Collected, Strategy
    <3> QED BY <1>2, <3>1
  <2>3. CASE \E n \in {count, consumers} : CountConsumers(h, n)
    <3>1. PICK label \in {"call", "test"} : Goto(h, label)
      BY <2>3 DEF CountConsumers
    <3> QED BY <1>2, <3>1
  <2>4. CASE Exit(h)
    BY <1>4, <2>4 DEF Exit, Ends
  <2> QED BY <1>5, <1>7, <2>1, <2>2, <2>3, <2>4 DEF Step
<1>8. CASE Terminate
  BY <1>4, <1>8 DEF Terminate, Ends
<1>9. CASE ServerChanges \/ NewTask \/ UNCHANGED vars
  BY <1>3, <1>9 DEF ServerChanges, NewTask, vars, agent
<1> QED BY <1>6, <1>7, <1>8, <1>9 DEF Next, Stopped

LEMMA SettledStep ==
    ASSUME TypeOK, [Next]_vars, UNCHANGED consumers
    PROVE  /\ Counted => Counted'
           /\ NoneStale => NoneStale'
           /\ Settled => Settled'
<1>1. Counted => Counted'
  BY PeriodStep
<1>2. ASSUME NoneStale PROVE NoneStale'
  <2>1. Counted' /\ UNCHANGED count
    BY <1>1, <1>2 DEF NoneStale, Counted
  <2> QED BY <1>2, <2>1, DecidesStep DEF NoneStale
<1>3. ASSUME Settled PROVE Settled'
  <2>1. consumers \in Nat /\ count = consumers
    BY <1>3, WorkerAssumption DEF TypeOK, Settled, NoneStale, Counted
  <2>2. \A g \in Goroutines : Decides(g)
    BY <1>3 DEF Settled, NoneStale
  <2>3. UNCHANGED period
    BY <1>3, <2>1, <2>2, PeriodStep DEF Settled, Decides
  <2> QED BY <1>2, <1>3, <2>3 DEF Settled
<1> QED BY <1>1, <1>2, <1>3

\* The goroutines race over the count and the period without a lock; yet once
\* the count is the server's, once none of them decides by an older count, and
\* once the period is right for the server, no interleaving undoes it as long as
\* the server's consumers do not change.
THEOREM PeriodStaysSettled ==
    Spec /\ [][consumers' = consumers]_vars =>
      /\ [](Counted => []Counted)
      /\ [](NoneStale => []NoneStale)
      /\ [](Settled => []Settled)
<1>1. TypeOK /\ [Next]_vars /\ [consumers' = consumers]_vars =>
        (Counted => Counted') /\ (NoneStale => NoneStale') /\ (Settled => Settled')
  <2> SUFFICES ASSUME TypeOK, [Next]_vars, [consumers' = consumers]_vars
               PROVE  (Counted => Counted') /\ (NoneStale => NoneStale') /\ (Settled => Settled')
    OBVIOUS
  <2>1. UNCHANGED consumers
    BY DEF vars
  <2> QED BY <2>1, SettledStep
<1>2. Spec => []TypeOK
  BY WorkerTypeCorrect
<1> QED BY <1>1, <1>2, PTL DEF Spec

-----------------------------------------------------------------------------
(* What OneShotExits rests on, and its converse.                             *)

LoopInv ==
    /\ process = "up" => armed = Timers
    /\ process = "exited" => configuration.oneshot

\* Every timer of the loop is set again each time it fires, so that a one-shot
\* agent tries again until its request is answered; and a daemon does not exit
\* by itself.
THEOREM LoopGoesOn == Spec => []LoopInv
<1>1. Init => LoopInv
  BY DEF Init, LoopInv
<1>2. TypeOK /\ LoopInv /\ [Next]_vars => LoopInv'
  <2> SUFFICES ASSUME TypeOK, LoopInv, [Next]_vars PROVE LoopInv'
    OBVIOUS
  <2> USE DEF LoopInv
  <2>1. ASSUME NEW g \in Goroutines, Tick(g) \/ TaskTimer(g) PROVE LoopInv'
    <3>1. CASE Tick(g)
      <4>1. Job[g] \in armed
        BY <3>1 DEF Tick
      <4> QED BY <3>1, <4>1 DEF Tick, Reset
    <3>2. CASE TaskTimer(g)
      BY <3>2 DEF TaskTimer
    <3> QED BY <2>1, <3>1, <3>2
  <2>2. ASSUME NEW g \in Goroutines, Step(g) PROVE LoopInv'
    <3>1. CASE Exit(g)
      BY <3>1 DEF Exit, Exits, Ends
    <3>2. CASE ~Exit(g)
      <4>1. UNCHANGED <<configuration, process, armed>>
        BY <2>2, <3>2 DEF Step, CollectFails, Collected, CountConsumers, Enable, GetStrategy,
               Test, Set, PostEnds, Announce, GetTask
      <4> QED BY <4>1
    <3> QED BY <3>1, <3>2
  <2>3. CASE Terminate
    BY <2>3 DEF Terminate, Ends
  <2>4. CASE ServerChanges \/ NewTask \/ UNCHANGED vars
    BY <2>4 DEF ServerChanges, NewTask, vars, agent
  <2> QED BY <2>1, <2>2, <2>3, <2>4 DEF Next, Stopped
<1> QED BY <1>1, <1>2, WorkerTypeCorrect, PTL DEF Spec
=============================================================================
