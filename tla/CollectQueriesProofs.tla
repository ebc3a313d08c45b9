------------------------ MODULE CollectQueriesProofs ------------------------
(***************************************************************************)
(* Proofs about CollectQueries, for any rows, schemas, costs and bound,    *)
(* and about the scan of a query for parameters.                           *)
(***************************************************************************)
EXTENDS CollectQueries, FiniteSetTheorems, WellFoundedInduction, TLAPS

\* Every row that is explained is taken from the rest of a pass, and the
\* connection is its own database's.
LEMMA ConnectedIsOwn == ASSUME NEW r PROVE Connected(r) = SchemaOf[r]
  BY DEF Connected

LEMMA AnswerType ==
    ASSUME NEW answer \in ExecuteExplain(dbms)
    PROVE  answer.error \in ExplainErrors
  BY DEF ExecuteExplain, Concluded, Conclusive, ExplainErrors

LEMMA ClassesType == Classes \subseteq {"select", "cut", "stale", "unfit"}
  BY DEF Classes

\* Costs are numbers.
LEMMA CostsType == [Passes -> [Rows -> Costs]] \subseteq [Passes -> [Rows -> Nat]]
<1>1. [Rows -> Costs] \subseteq [Rows -> Nat]
  BY RowsAssumption
<1> QED BY <1>1

LEMMA InitType == Init => TypeOK
<1> SUFFICES ASSUME Init PROVE TypeOK
  OBVIOUS
<1>1. wanted \subseteq Schemas /\ databases \subseteq Schemas /\ nameless \subseteq Schemas
  BY RowsAssumption DEF Init
<1>2. cost \in [Passes -> [Rows -> Nat]]
  BY DEF Init
<1>3. i \in 0..(Limit + 1)
  BY RowsAssumption DEF Init
<1>4. error \in [Rows -> ExplainErrors]
  BY DEF Init, ExplainErrors
<1> QED BY <1>1, <1>2, <1>3, <1>4 DEF Init, TypeOK

LEMMA CallType ==
    ASSUME TypeOK, NEW label, NEW pairs \in SUBSET digests, Call(label, pairs)
    PROVE  /\ pc' = label /\ todo' = pairs /\ i' \in 0..(Limit + 1)
           /\ schema_name_conn' = "none" /\ tried' = {} /\ fresh' = {}
  BY RowsAssumption DEF Call, Goto

LEMMA ExplainRowType == TypeOK /\ ExplainRow => TypeOK'
<1> SUFFICES ASSUME TypeOK, NEW r \in todo,
                    Leave(r) \/ NeedFullQuery(r) \/ Explain(r) \/ ConnectPanics(r)
             PROVE  TypeOK'
  BY DEF ExplainRow
<1> USE DEF TypeOK, config, read, output
<1>1. r \in Rows /\ SchemaOf[r] \in Schemas
  BY RowsAssumption
<1>2. CASE Leave(r)
  BY <1>2 DEF Leave, Take
<1>3. CASE NeedFullQuery(r)
  BY <1>1, <1>3 DEF NeedFullQuery, Take, ExplainErrors
<1>4. CASE ConnectPanics(r)
  BY <1>4 DEF ConnectPanics, Take, Goto
<1>5. CASE Explain(r)
  <2>1. schema_name_conn' \in Schemas
    BY <1>1, <1>5, ConnectedIsOwn DEF Explain
  <2>2. todo' \subseteq digests' /\ tried' \subseteq Rows
    BY <1>1, <1>5 DEF Explain, Take
  <2>3. PICK answer \in ExecuteExplain(dbms) :
           /\ error' = IF answer.error = "none" THEN error
                       ELSE [error EXCEPT ![r] = answer.error]
           /\ IF answer.plan
              THEN /\ plan' = [plan EXCEPT ![r] = schema_name_conn']
                   /\ i' = i + 1
                   /\ fresh' = fresh \cup {r}
              ELSE UNCHANGED <<plan, i, fresh>>
    BY <1>5 DEF Explain
  <2>4. error' \in [Rows -> ExplainErrors]
    BY <2>3, AnswerType
  <2>5. plan' \in [Rows -> Schemas \cup {"none"}]
    BY <2>1, <2>3
  <2>6. i' \in 0..(Limit + 1)
    BY <1>5, <2>3, RowsAssumption DEF Explain, Take
  <2>7. fresh' \subseteq tried'
    BY <1>5, <2>3 DEF Explain
  <2> QED BY <1>5, <2>1, <2>2, <2>4, <2>5, <2>6, <2>7 DEF Explain
<1> QED BY <1>2, <1>3, <1>4, <1>5

LEMMA NextType == TypeOK /\ TriedInv /\ [Next]_vars => TypeOK'
<1> SUFFICES ASSUME TypeOK, TriedInv, [Next]_vars
             PROVE  TypeOK'
  OBVIOUS
<1> USE DEF TypeOK, Goto, config, read, output, passVars
<1>1. CASE NotInstalled \/ VersionUnknown \/ QueryFails \/ ScanFails
  BY <1>1 DEF NotInstalled, VersionUnknown, QueryFails, ScanFails
<1>2. CASE ReadRows
  <2>1. digests' \subseteq Rows
    BY <1>2 DEF ReadRows
  <2>2. class' \in [Rows -> {"select", "cut", "stale", "unfit"}]
    BY <1>2, ClassesType DEF ReadRows
  <2>3. cost' \in [Passes -> [Rows -> Nat]]
    BY <1>2, CostsType DEF ReadRows
  <2>4. todo = {}
    BY <1>2 DEF ReadRows, TriedInv
  <2>5. /\ pc' = "explain" /\ todo' = {} /\ tried' = tried /\ fresh' = fresh
        /\ UNCHANGED <<config, plan, error, i, schema_name_conn, output>>
    BY <1>2, <2>4 DEF ReadRows
  <2> QED BY <2>1, <2>2, <2>3, <2>5
<1>3. CASE Begin
  <2>1. CASE optimize
    BY <1>3, <2>1, CallType DEF Begin, Passes
  <2>2. CASE ~optimize
    BY <1>3, <2>2 DEF Begin
  <2> QED BY <2>1, <2>2
<1>4. CASE ExplainRow
  BY <1>4, ExplainRowType
<1>5. CASE EndPass
  <2>1. CASE pc = "sum_time_us"
    BY <1>5, <2>1, CallType DEF EndPass, Passes
  <2>2. CASE pc # "sum_time_us"
    BY <1>5, <2>2, CallType DEF EndPass
  <2> QED BY <2>1, <2>2
<1>6. CASE \E database \in databases : DescribeDatabase(database)
  BY <1>6 DEF DescribeDatabase
<1>7. CASE CollectIndexUsage
  BY <1>7 DEF CollectIndexUsage
<1>8. CASE UNCHANGED vars
  BY <1>8 DEF vars
<1> QED BY <1>1, <1>2, <1>3, <1>4, <1>5, <1>6, <1>7, <1>8 DEF Next, Returned

-----------------------------------------------------------------------------
(* What a pass keeps *)

\* Steps outside of the passes, which leave what CollectInv is about.
LEMMA OtherSteps ==
    ASSUME CollectInv,
           \/ NotInstalled \/ VersionUnknown \/ QueryFails \/ ScanFails
           \/ CollectIndexUsage \/ UNCHANGED vars
    PROVE  CollectInv'
<1> USE DEF CollectInv, InScope, TriedInv, SortedInv, LeftInv, Excluded, Skipped,
            Passes, Goto, config, read, output, passVars
<1>1. CASE NotInstalled
  BY <1>1 DEF NotInstalled
<1>2. CASE VersionUnknown
  BY <1>2 DEF VersionUnknown
<1>3. CASE QueryFails
  BY <1>3 DEF QueryFails
<1>4. CASE ScanFails
  BY <1>4 DEF ScanFails
<1>5. CASE CollectIndexUsage
  BY <1>5 DEF CollectIndexUsage
<1>6. CASE UNCHANGED vars
  BY <1>6 DEF vars
<1> QED BY <1>1, <1>2, <1>3, <1>4, <1>5, <1>6

\* A pass begins with all of the digests to do and none that is tried.
LEMMA CallSteps ==
    ASSUME CollectInv, ReadRows \/ Begin \/ EndPass
    PROVE  CollectInv'
<1> USE DEF CollectInv, InScope, TriedInv, SortedInv, LeftInv, Excluded, Skipped,
            Passes, Goto, config, read, output, passVars
<1>1. CASE ReadRows
  BY <1>1 DEF ReadRows
<1>2. CASE Begin
  BY <1>2 DEF Begin, Call
<1>3. CASE EndPass
  BY <1>3 DEF EndPass, PassOver, Call
<1> QED BY <1>1, <1>2, <1>3

LEMMA DescribeStep ==
    ASSUME CollectInv, NEW database \in databases, DescribeDatabase(database)
    PROVE  CollectInv'
  BY DEF CollectInv, InScope, TriedInv, SortedInv, LeftInv, Excluded, Skipped,
         DescribeDatabase, Passes, read, passVars

\* The row that a pass takes is the costliest of those it has not taken.
LEMMA TakeSorts ==
    ASSUME TypeOK, SortedInv, NEW r \in todo, Take(r), UNCHANGED read, pc' \in {pc, "panicked"}
    PROVE  SortedInv'
<1> SUFFICES ASSUME pc' \in Passes,
                    NEW q \in digests \ todo', NEW s \in todo'
             PROVE  cost[pc][s] <= cost[pc][q]
  BY DEF SortedInv, read, Passes
<1>1. pc \in Passes /\ s \in todo /\ cost[pc][s] <= cost[pc][r]
  BY DEF Take
<1>2. CASE q = r
  BY <1>1, <1>2
<1>3. CASE q # r
  BY <1>1, <1>3 DEF Take, SortedInv
<1> QED BY <1>2, <1>3

\* A row that has been explained, or passed by, stays so.
LEMMA RowStep ==
    ASSUME TypeOK, CollectInv, NEW r \in todo,
           Leave(r) \/ NeedFullQuery(r) \/ Explain(r) \/ ConnectPanics(r)
    PROVE  CollectInv'
<1> USE DEF config, read, output
<1>1. SortedInv'
  <2>1. /\ Take(r) /\ UNCHANGED read /\ pc' \in {pc, "panicked"}
    BY DEF Leave, NeedFullQuery, Explain, ConnectPanics, Goto
  <2> QED BY <2>1, TakeSorts DEF CollectInv
<1>2. r \in digests /\ r \in Rows
  BY DEF TypeOK
<1>3. CASE Leave(r)
  <2>1. InScope'
    BY <1>3 DEF Leave, CollectInv, InScope, Excluded
  <2>2. TriedInv'
    BY <1>3 DEF Leave, Take, Passes, CollectInv, TriedInv
  <2>3. LeftInv'
    BY <1>3 DEF Leave, Take, CollectInv, LeftInv, Skipped, Excluded
  <2> QED BY <1>1, <2>1, <2>2, <2>3 DEF CollectInv
<1>4. CASE NeedFullQuery(r)
  <2>1. InScope'
    BY <1>4 DEF NeedFullQuery, CollectInv, InScope, Excluded
  <2>2. TriedInv'
    BY <1>4 DEF NeedFullQuery, Take, Passes, CollectInv, TriedInv
  <2>3. LeftInv'
    BY <1>4 DEF NeedFullQuery, Take, CollectInv, LeftInv, Skipped, Excluded
  <2> QED BY <1>1, <2>1, <2>2, <2>3 DEF CollectInv
<1>5. CASE ConnectPanics(r)
  <2>1. InScope'
    BY <1>5 DEF ConnectPanics, CollectInv, InScope, Excluded
  <2>2. TriedInv'
    BY <1>5 DEF ConnectPanics, Take, Goto, Passes, CollectInv, TriedInv
  <2>3. LeftInv'
    BY <1>5 DEF ConnectPanics, Goto, Passes, LeftInv
  <2> QED BY <1>1, <2>1, <2>2, <2>3 DEF CollectInv
<1>6. CASE Explain(r)
  <2>1. schema_name_conn' = SchemaOf[r]
    BY <1>6, ConnectedIsOwn DEF Explain
  <2>2. /\ SchemaOf[r] \notin System /\ ~Excluded(SchemaOf[r])
        /\ SchemaOf[r] # "none"
    BY <1>2, <1>6, RowsAssumption DEF Explain, Skipped
  <2>3. \/ plan' = plan /\ fresh' = fresh
        \/ plan' = [plan EXCEPT ![r] = SchemaOf[r]] /\ fresh' = fresh \cup {r}
    BY <1>6, <2>1 DEF Explain
  <2>4. /\ UNCHANGED <<wanted, digests, class, pc, described>>
        /\ pc \in Passes /\ todo' = todo \ {r} /\ tried' = tried \cup {r}
    BY <1>6 DEF Explain, Take
  <2>5. \A q \in Rows : plan[q] # "none" => plan'[q] # "none"
    BY <2>2, <2>3 DEF TypeOK
  <2>6. InScope'
    BY <1>2, <2>2, <2>3, <2>4 DEF CollectInv, InScope, Excluded, TypeOK
  <2>7. TriedInv'
    BY <1>2, <2>2, <2>3, <2>4, <2>5 DEF CollectInv, TriedInv, TypeOK, Passes
  <2>8. LeftInv'
    BY <2>4, <2>5 DEF CollectInv, LeftInv, Skipped, Excluded, TypeOK
  <2> QED BY <1>1, <2>6, <2>7, <2>8 DEF CollectInv
<1> QED BY <1>3, <1>4, <1>5, <1>6

-----------------------------------------------------------------------------
(* The theorems *)

IInv == TypeOK /\ CollectInv

LEMMA InitInv == Init => IInv
<1>1. Init => CollectInv
  BY DEF Init, CollectInv, InScope, TriedInv, SortedInv, LeftInv, Passes
<1> QED BY <1>1, InitType DEF IInv

LEMMA NextInv == IInv /\ [Next]_vars => IInv'
<1> SUFFICES ASSUME IInv, [Next]_vars PROVE IInv'
  OBVIOUS
<1>1. TypeOK'
  BY NextType DEF IInv, CollectInv
<1>2. CollectInv'
  <2>1. CASE ExplainRow
    BY <2>1, RowStep DEF ExplainRow, IInv
  <2>2. CASE \E database \in databases : DescribeDatabase(database)
    BY <2>2, DescribeStep DEF IInv
  <2> QED BY <2>1, <2>2, CallSteps, OtherSteps DEF Next, Returned, IInv
<1> QED BY <1>1, <1>2 DEF IInv

\* What a row that could be explained shows when a pass has ended without it.
LEMMA LeftIsCheaper ==
    ASSUME IInv, [Next]_vars, pc' \notin {pc, "panicked"}, pc \in Passes,
           NEW r \in digests \ tried, ~Skipped(r), class[r] = "select"
    PROVE  i > Limit /\ \A q \in tried : cost[pc][q] >= cost[pc][r]
<1>1. EndPass
  BY DEF Next, NotInstalled, VersionUnknown, ReadRows, QueryFails, ScanFails, Begin,
         ExplainRow, Leave, NeedFullQuery, Explain, ConnectPanics, Goto,
         DescribeDatabase, CollectIndexUsage, Returned, Passes, vars
<1>2. r \in todo
  BY DEF IInv, CollectInv, LeftInv
<1>3. i > Limit
  BY <1>1, <1>2 DEF EndPass, PassOver
<1>4. \A q \in tried : cost[pc][r] <= cost[pc][q]
  BY <1>2 DEF IInv, CollectInv, SortedInv, TriedInv
<1>5. ASSUME NEW q \in tried PROVE cost[pc][q] >= cost[pc][r]
  <2>1. q \in Rows /\ r \in Rows
    BY DEF IInv, TypeOK
  <2>2. cost[pc][q] \in Nat /\ cost[pc][r] \in Nat
    BY <2>1 DEF IInv, TypeOK
  <2> QED BY <1>4, <2>2
<1> QED BY <1>3, <1>5

LEMMA Inductive == Spec => []IInv
  BY InitInv, NextInv, PTL DEF Spec

\* Type correctness.
THEOREM CollectTypeCorrect == Spec => []TypeOK
<1>1. IInv => TypeOK
  BY DEF IInv
<1> QED BY <1>1, Inductive, PTL

\* Statements go to their own databases, and neither they nor schemas are of a
\* database that the configuration leaves out; the passes keep their order.
THEOREM CollectStaysInScope == Spec => []CollectInv
<1>1. IInv => CollectInv
  BY DEF IInv
<1> QED BY <1>1, Inductive, PTL

\* A pass that leaves a row without an attempt has its bound of plans, and has
\* tried nothing that costs less: CollectExplain spends the bound on the
\* costliest, whatever it skips and whatever fails.
THEOREM CollectCostliestFirst == Spec => CostliestFirst
<1> DEFINE Cheaper ==
      pc' \notin {pc, "panicked"} /\ pc \in Passes =>
        \A r \in {s \in digests \ tried : ~Skipped(s) /\ class[s] = "select"} :
           i > Limit /\ (\A q \in tried : cost[pc][q] >= cost[pc][r])
<1>1. IInv /\ [Next]_vars => [Cheaper]_vars
  <2> SUFFICES ASSUME IInv, [Next]_vars PROVE Cheaper
    OBVIOUS
  <2> QED BY LeftIsCheaper
<1> QED BY <1>1, Inductive, PTL DEF Spec, CostliestFirst
-----------------------------------------------------------------------------
(* The scan for parameters: a recursive function, whose value for every      *)
(* query is proved by the least position where it could differ.              *)

\* The quotes of a query from a position to before k.
Quotes(query, at, k) == {j \in at..(k - 1) : query[j] = "'"}

LEMMA QuotesFinite ==
    ASSUME NEW query, NEW at \in Int, NEW k \in Int
    PROVE  /\ IsFiniteSet(Quotes(query, at, k))
           /\ Cardinality(Quotes(query, at, k)) \in Nat
<1>1. IsFiniteSet(at..(k - 1)) /\ Quotes(query, at, k) \subseteq at..(k - 1)
  BY FS_Interval DEF Quotes
<1> QED BY <1>1, FS_Subset, FS_CardinalityType

\* The first character of them counts, or does not.
LEMMA QuotesStep ==
    ASSUME NEW query, NEW at \in Int, NEW k \in Int, at < k
    PROVE  Cardinality(Quotes(query, at, k)) =
             IF query[at] = "'" THEN Cardinality(Quotes(query, at + 1, k)) + 1
             ELSE Cardinality(Quotes(query, at + 1, k))
<1>1. \A j : j \in at..(k - 1) <=> (j = at \/ j \in (at + 1)..(k - 1))
  OBVIOUS
<1>2. at \notin (at + 1)..(k - 1)
  OBVIOUS
<1>3. CASE query[at] = "'"
  <2>1. /\ Quotes(query, at, k) = Quotes(query, at + 1, k) \cup {at}
        /\ at \notin Quotes(query, at + 1, k)
    BY <1>1, <1>2, <1>3 DEF Quotes
  <2>2. IsFiniteSet(Quotes(query, at + 1, k))
    BY QuotesFinite
  <2>3. Cardinality(Quotes(query, at + 1, k) \cup {at}) = Cardinality(Quotes(query, at + 1, k)) + 1
    BY <2>1, <2>2, FS_AddElement
  <2> QED BY <1>3, <2>1, <2>3
<1>4. CASE query[at] # "'"
  <2>1. Quotes(query, at, k) = Quotes(query, at + 1, k)
    BY <1>1, <1>4 DEF Quotes
  <2> QED BY <1>4, <2>1
<1> QED BY <1>3, <1>4

LEMMA NoQuotes ==
    ASSUME NEW query, NEW at \in Int
    PROVE  Cardinality(Quotes(query, at, at)) = 0
<1>1. Quotes(query, at, at) = {}
  BY DEF Quotes
<1> QED BY <1>1, FS_EmptySet

ParameterAt(query, k) == k < Len(query) /\ query[k] = "$" /\ query[k + 1] = "0"

\* A parameter is ahead, after an even (odd) number of quotes.
Ahead(query, at, parity) ==
    \E k \in at..Len(query) :
      ParameterAt(query, k) /\ Cardinality(Quotes(query, at, k)) % 2 = parity

LEMMA AheadStep ==
    ASSUME NEW Characters, NEW query \in Seq(Characters), NEW at \in 1..Len(query),
           NEW parity \in {0, 1}
    PROVE  Ahead(query, at, parity) <=>
             IF query[at] = "'" THEN Ahead(query, at + 1, 1 - parity)
             ELSE (parity = 0 /\ ParameterAt(query, at)) \/ Ahead(query, at + 1, parity)
<1>1. \A k : k \in at..Len(query) <=> (k = at \/ k \in (at + 1)..Len(query))
  OBVIOUS
<1> DEFINE number(j, k) == Cardinality(Quotes(query, j, k))
<1>2. number(at, at) = 0
  BY NoQuotes
<1>3. ASSUME NEW k \in (at + 1)..Len(query)
      PROVE  /\ number(at + 1, k) \in Nat
             /\ number(at, k) = IF query[at] = "'" THEN number(at + 1, k) + 1 ELSE number(at + 1, k)
  BY QuotesFinite, QuotesStep
<1> HIDE DEF number
<1>4. \A n \in Nat : (n + 1) % 2 = parity <=> n % 2 = 1 - parity
  OBVIOUS
<1>5. CASE query[at] = "'"
  <2>1. ~ParameterAt(query, at)
    BY <1>5 DEF ParameterAt
  <2>2. \A k \in (at + 1)..Len(query) :
          number(at, k) % 2 = parity <=> number(at + 1, k) % 2 = 1 - parity
    BY <1>3, <1>4, <1>5
  <2> QED BY <1>1, <1>5, <2>1, <2>2 DEF Ahead, number
<1>6. CASE query[at] # "'"
  <2>1. \A k \in (at + 1)..Len(query) : number(at, k) = number(at + 1, k)
    BY <1>3, <1>6
  <2>2. number(at, at) % 2 = 0
    BY <1>2
  <2> QED BY <1>1, <1>6, <2>1, <2>2 DEF Ahead, number
<1> QED BY <1>5, <1>6

\* What the scan makes of a position, where found is what it makes of those
\* after it.
Scan(query, found, at) ==
    {inSingleQuote \in BOOLEAN :
       /\ at <= Len(query)
       /\ IF query[at] = "'"
          THEN IF inSingleQuote /\ at < Len(query) /\ query[at + 1] = "'"
               THEN inSingleQuote \in found[at + 2]
               ELSE (~inSingleQuote) \in found[at + 1]
          ELSE \/ ~inSingleQuote /\ query[at] = "$" /\ at < Len(query) /\ query[at + 1] = "0"
               \/ inSingleQuote \in found[at + 1]}

Positions(query) == 1..(Len(query) + 2)

Parity(inSingleQuote) == IF inSingleQuote THEN 1 ELSE 0

\* A parameter is found from a position on just when the number of quotes before
\* it is even outside of a text, and odd inside of one.
Found(query) ==
    [at \in Positions(query) |->
       {inSingleQuote \in BOOLEAN : Ahead(query, at, Parity(inSingleQuote))}]

LEMMA FoundIsScan ==
    ASSUME NEW Characters, NEW query \in Seq(Characters)
    PROVE  Found(query) = [at \in Positions(query) |-> Scan(query, Found(query), at)]
<1>1. Len(query) \in Nat
  OBVIOUS
<1>2. ASSUME NEW at \in Positions(query), NEW inSingleQuote \in BOOLEAN
      PROVE  inSingleQuote \in Found(query)[at] <=> Ahead(query, at, Parity(inSingleQuote))
  BY DEF Found
<1>3. ASSUME NEW at \in Positions(query), NEW inSingleQuote \in BOOLEAN
      PROVE  Ahead(query, at, Parity(inSingleQuote))
               <=> inSingleQuote \in Scan(query, Found(query), at)
  <2>1. CASE ~(at <= Len(query))
    BY <1>1, <2>1 DEF Ahead, Scan, Positions
  <2>2. CASE at <= Len(query)
    <3>1. at \in 1..Len(query) /\ at + 1 \in Positions(query) /\ at + 2 \in Positions(query)
      BY <1>1, <2>2 DEF Positions
    <3>2. /\ Parity(inSingleQuote) \in {0, 1}
          /\ Parity(~inSingleQuote) = 1 - Parity(inSingleQuote)
          /\ Parity(inSingleQuote) = 0 <=> ~inSingleQuote
          /\ 1 - (1 - Parity(inSingleQuote)) = Parity(inSingleQuote)
      BY DEF Parity
    <3>3. CASE query[at] # "'"
      <4>1. Ahead(query, at, Parity(inSingleQuote)) <=>
              (~inSingleQuote /\ ParameterAt(query, at))
                \/ Ahead(query, at + 1, Parity(inSingleQuote))
        BY <3>1, <3>2, <3>3, AheadStep
      <4> QED BY <1>2, <2>2, <3>1, <3>3, <4>1 DEF Scan, ParameterAt
    <3>4. CASE query[at] = "'"
      <4>1. Ahead(query, at, Parity(inSingleQuote)) <=>
              Ahead(query, at + 1, Parity(~inSingleQuote))
        BY <3>1, <3>2, <3>4, AheadStep
      <4>2. CASE inSingleQuote /\ at < Len(query) /\ query[at + 1] = "'"
        <5>1. at + 1 \in 1..Len(query) /\ (at + 1) + 1 = at + 2
          BY <1>1, <3>1, <4>2
        <5>2. Ahead(query, at + 1, Parity(~inSingleQuote)) <=>
                Ahead(query, at + 2, Parity(inSingleQuote))
          <6>1. Ahead(query, at + 1, 1 - Parity(inSingleQuote)) <=>
                  Ahead(query, (at + 1) + 1, 1 - (1 - Parity(inSingleQuote)))
            <7>1. 1 - Parity(inSingleQuote) \in {0, 1}
              BY <3>2
            <7> QED BY <4>2, <5>1, <7>1, AheadStep
          <6> QED BY <3>2, <5>1, <6>1
        <5> QED BY <1>2, <2>2, <3>1, <3>4, <4>1, <4>2, <5>2 DEF Scan
      <4>3. CASE ~(inSingleQuote /\ at < Len(query) /\ query[at + 1] = "'")
        BY <1>2, <2>2, <3>1, <3>4, <4>1, <4>3 DEF Scan
      <4> QED BY <4>2, <4>3
    <3> QED BY <3>3, <3>4
  <2> QED BY <2>1, <2>2
<1>4. ASSUME NEW at \in Positions(query)
      PROVE  {inSingleQuote \in BOOLEAN : Ahead(query, at, Parity(inSingleQuote))}
               = Scan(query, Found(query), at)
  <2>1. Scan(query, Found(query), at) \subseteq BOOLEAN
    BY DEF Scan
  <2> QED BY <1>3, <2>1
<1> QED BY <1>4 DEF Found

\* Nothing else is: where two differ last, they agree on what follows.
LEMMA ScanUnique ==
    ASSUME NEW Characters, NEW query \in Seq(Characters), NEW found,
           found = [at \in Positions(query) |-> Scan(query, found, at)]
    PROVE  found = Found(query)
<1> DEFINE end == Len(query) + 2
           T == {n \in Nat : \E at \in Positions(query) :
                               n = end - at /\ found[at] # Found(query)[at]}
<1>1. T = {}
  <2> SUFFICES ASSUME T # {} PROVE FALSE
    OBVIOUS
  <2>1. PICK n \in T : \A m \in T : ~(<<m, n>> \in OpToRel(<, Nat))
    BY WFMin, NatLessThanWellFounded
  <2>2. \A m \in T : ~(m < n)
    BY <2>1 DEF OpToRel
  <2>3. PICK at \in Positions(query) : n = end - at /\ found[at] # Found(query)[at]
    OBVIOUS
  <2>4. Len(query) \in Nat /\ at \in Nat
    BY DEF Positions
  <2>5. \A j \in Positions(query) : j > at => found[j] = Found(query)[j]
    <3> SUFFICES ASSUME NEW j \in Positions(query), j > at, found[j] # Found(query)[j]
                 PROVE  FALSE
      OBVIOUS
    <3>1. end - j \in Nat /\ end - j < n
      BY <2>3, <2>4 DEF Positions
    <3> QED BY <2>2, <3>1
  <2>6. at <= Len(query) =>
          /\ found[at + 1] = Found(query)[at + 1]
          /\ found[at + 2] = Found(query)[at + 2]
    BY <2>4, <2>5 DEF Positions
  <2>7. Scan(query, found, at) = Scan(query, Found(query), at)
    BY <2>6 DEF Scan
  <2>8. Found(query)[at] = Scan(query, Found(query), at)
    BY FoundIsScan
  <2> QED BY <2>3, <2>7, <2>8
<1>2. \A at \in Positions(query) : found[at] = Found(query)[at]
  <2> SUFFICES ASSUME NEW at \in Positions(query), found[at] # Found(query)[at] PROVE FALSE
    OBVIOUS
  <2>1. end - at \in Nat
    BY DEF Positions
  <2> QED BY <1>1, <2>1
<1> QED BY <1>2 DEF Found

\* Whatever the query: it is prepared just when there is a "$" before a digit
\* outside of the quotes, that is with an even number of them before it; a
\* doubled quote inside a text, which the scan skips, changes nothing.
THEOREM ScanIsExact ==
    ASSUME NEW Characters, NEW query \in Seq(Characters)
    PROVE  ContainsUnquotedPgParameter(query) <=> HasParameter(query)
<1> DEFINE found == CHOOSE f : f = [at \in Positions(query) |-> Scan(query, f, at)]
<1>1. found = [at \in Positions(query) |-> Scan(query, found, at)]
  BY FoundIsScan
<1>2. found = Found(query)
  BY <1>1, ScanUnique
<1>3. ContainsUnquotedPgParameter(query) <=> FALSE \in found[1]
  BY DEF ContainsUnquotedPgParameter, Scan, Positions
<1>4. FALSE \in Found(query)[1] <=> Ahead(query, 1, 0)
  <2>1. 1 \in Positions(query)
    BY DEF Positions
  <2> QED BY <2>1 DEF Found, Parity
<1>5. Ahead(query, 1, 0) <=> HasParameter(query)
  <2>1. \A k : k \in 1..Len(query) /\ k < Len(query) <=> k \in 1..(Len(query) - 1)
    OBVIOUS
  <2> QED BY <2>1 DEF Ahead, HasParameter, ParameterAt, Quotes
<1> QED BY <1>2, <1>3, <1>4, <1>5
=============================================================================
