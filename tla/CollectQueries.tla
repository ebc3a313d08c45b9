--------------------------- MODULE CollectQueries ---------------------------
(***************************************************************************)
(* The gatherer of query statistics, DBCollectQueriesOptimization of       *)
(* metrics/mysql and metrics/postgresql: it reads the digests of the       *)
(* statements, explains the costliest ones, by total and then by average   *)
(* time, and describes the schemas.                                        *)
(***************************************************************************)
EXTENDS ExplainQuery, FiniteSets

CONSTANTS
    Rows,       \* the rows of the server's table of digests
    Schemas,    \* the databases of the server
    System,     \* those that are never explained
    SchemaOf,   \* of a row
    KeyOf,      \* of a row: schema and query id, one after the other
    Filters,    \* values of databases_query_optimization; {} for all databases
    Costs,      \* of a row, in microseconds
    Limit       \* 100 in the code

ASSUME RowsAssumption ==
    /\ IsFiniteSet(Rows)
    /\ System \subseteq Schemas
    /\ SchemaOf \in [Rows -> Schemas]
    /\ KeyOf \in [Rows -> Rows]
    /\ Filters \subseteq SUBSET Schemas
    /\ Costs \subseteq Nat
    /\ Limit \in Nat
    /\ "none" \notin Schemas

VARIABLES
    dbms, optimize, wanted, \* configuration: QueryOptimization and DatabasesQueryOptimization
    databases,  \* metrics.DB.Metrics.Databases
    nameless,   \* the databases whose name makes no connection string
    pc,
    digests,    \* the rows of output_digest
    class,      \* what CollectExplain tells apart in query_text and LAST_SEEN
    cost,       \* sum_time_us and avg_time_us
    plan,       \* the database that a digest was explained on, or "none"
    error,      \* explain_error
    todo,       \* the rest of the pairs of a pass
    i,          \* the plans of the pass
    schema_name_conn,
    described,  \* the databases in metrics.DB.DatabaseSchema
    usage,      \* the use of the indexes, in the same map
    queries,    \* metrics.DB.Queries
    tried,      \* history: the digests that the pass has sent to EXPLAIN,
    fresh       \*     and those that it has a plan of

config   == <<dbms, optimize, wanted, databases, nameless>>
read     == <<digests, class, cost>>
output   == <<described, usage, queries>>
passVars == <<todo, i, schema_name_conn, tried, fresh>>
vars     == <<config, read, passVars, pc, plan, error, output>>

Passes == {"sum_time_us", "avg_time_us"}

\* A SELECT in full; one that ends in "..."; one last seen a week ago; and
\* what is no SELECT, unknown, or the agent's own.
Classes ==
    IF dbms = "mysql" THEN {"select", "cut", "stale", "unfit"} ELSE {"select", "unfit"}

\* IsSchemaNameExclude
Excluded(schema) == wanted # {} /\ schema \notin wanted

Skipped(r) ==
    \/ SchemaOf[r] \in System \/ Excluded(SchemaOf[r])
    \/ class[r] \in {"unfit", "stale"}
    \/ plan[r] # "none"

TypeOK ==
    /\ dbms \in Dbms /\ optimize \in BOOLEAN
    /\ wanted \subseteq Schemas /\ databases \subseteq Schemas /\ nameless \subseteq Schemas
    /\ pc \in {"query", "fallback", "explain", "schemas", "done", "failed", "panicked"} \cup Passes
    /\ digests \subseteq Rows
    /\ class \in [Rows -> {"select", "cut", "stale", "unfit"}]
    /\ cost \in [Passes -> [Rows -> Nat]]
    /\ plan \in [Rows -> Schemas \cup {"none"}]
    /\ error \in [Rows -> ExplainErrors]
    /\ todo \subseteq digests
    /\ i \in 0..(Limit + 1)
    /\ schema_name_conn \in Schemas \cup {"none"}
    /\ described \subseteq Schemas /\ usage \in BOOLEAN
    /\ queries \subseteq Rows
    /\ tried \subseteq Rows /\ fresh \subseteq tried

Init ==
    /\ dbms \in Dbms /\ optimize \in BOOLEAN
    /\ wanted \in Filters /\ databases = Schemas
    /\ nameless \in {{}} \cup {{schema} : schema \in Schemas \ System}
    /\ pc = "query"
    /\ digests = {}
    /\ class = [r \in Rows |-> "unfit"]
    /\ cost = [field \in Passes |-> [r \in Rows |-> 0]]
    /\ plan = [r \in Rows |-> "none"]
    /\ error = [r \in Rows |-> "none"]
    /\ todo = {} /\ i = 0 /\ schema_name_conn = "none" /\ tried = {} /\ fresh = {}
    /\ described = {} /\ usage = FALSE /\ queries = {}

-----------------------------------------------------------------------------
(* GetMetrics: the rows *)

Goto(label) == pc' = label

\* Of rows with the same key the last one that is read stays in the map.
Distinct(rows) ==
    /\ rows \subseteq Rows
    /\ \A r \in Rows : \E s \in rows : KeyOf[s] = KeyOf[r]
    /\ \A r, s \in rows : KeyOf[s] = KeyOf[r] => r = s

\* pg_stat_statements is not there: there is nothing to collect.
NotInstalled ==
    /\ pc = "query" /\ dbms = "postgresql"
    /\ Goto("done")
    /\ UNCHANGED <<config, read, passVars, plan, error, output>>

\* metrics.DB.Info has no version, or none that parses.
VersionUnknown ==
    /\ pc = "query" /\ dbms = "postgresql"
    /\ Goto("panicked")
    /\ UNCHANGED <<config, read, passVars, plan, error, output>>

\* The texts come with the rows or, in the fallback, from the samples.
ReadRows ==
    /\ pc \in {"query", "fallback"}
    /\ digests' \in IF dbms = "mysql" THEN {Rows} ELSE {rows \in SUBSET Rows : Distinct(rows)}
    /\ class' \in [Rows -> Classes]
    /\ cost' \in [Passes -> [Rows -> Costs]]
    /\ Goto("explain")
    /\ UNCHANGED <<config, passVars, plan, error, output>>

\* A server without a column of MySQL 8 gets a second, shorter query; when
\* that fails too, there are no digests, and the gatherer goes on.
QueryFails ==
    /\ pc \in {"query", "fallback"}
    /\ Goto(IF dbms = "mysql" /\ pc = "query" THEN "fallback" ELSE "explain")
    /\ UNCHANGED <<config, read, passVars, plan, error, output>>

ScanFails ==
    /\ pc \in {"query", "fallback"}
    /\ Goto("failed")
    /\ UNCHANGED <<config, read, passVars, plan, error, output>>

-----------------------------------------------------------------------------
(* CollectExplain, once for each of the two sortings *)

\* CollectExplain starts, or has returned: its locals.
Call(label, pairs) ==
    /\ Goto(label)
    /\ todo' = pairs
    /\ i' = 0
    /\ schema_name_conn' = "none"
    /\ tried' = {} /\ fresh' = {}

Begin ==
    /\ pc = "explain"
    /\ IF optimize THEN Call("sum_time_us", digests) /\ UNCHANGED output
       ELSE Goto("done") /\ queries' = digests /\ UNCHANGED <<passVars, described, usage>>
    /\ UNCHANGED <<config, read, plan, error>>

\* Mutants of Take and Connected, for the checks that the properties bite: the
\* pairs in any order; one plan more than the bound; one connection for all.
TakeAny(r) ==
    /\ pc \in Passes /\ i <= Limit
    /\ r \in todo /\ todo' = todo \ {r}

TakeOneMore(r) ==
    /\ pc \in Passes /\ i <= Limit + 1
    /\ r \in todo /\ \A s \in todo : cost[pc][s] <= cost[pc][r]
    /\ todo' = todo \ {r}

Reused(r) == IF schema_name_conn = "none" THEN SchemaOf[r] ELSE schema_name_conn

\* pairs is sorted; rows that cost the same stand in any order.
Take(r) ==
    /\ pc \in Passes /\ i <= Limit
    /\ r \in todo /\ \A s \in todo : cost[pc][s] <= cost[pc][r]
    /\ todo' = todo \ {r}

Leave(r) ==
    /\ Take(r)
    /\ Skipped(r)
    /\ UNCHANGED <<config, read, pc, plan, error, output, i, schema_name_conn, tried, fresh>>

NeedFullQuery(r) ==
    /\ Take(r)
    /\ ~Skipped(r) /\ class[r] = "cut"
    /\ error' = [error EXCEPT ![r] = "need_full_query"]
    /\ UNCHANGED <<config, read, pc, plan, output, i, schema_name_conn, tried, fresh>>

\* A digest of another database than the one before takes a new connection.
Connected(r) ==
    IF schema_name_conn # SchemaOf[r] THEN SchemaOf[r] ELSE schema_name_conn

Explain(r) ==
    /\ Take(r)
    /\ ~Skipped(r) /\ class[r] = "select" /\ SchemaOf[r] \notin nameless
    /\ schema_name_conn' = Connected(r)
    /\ tried' = tried \cup {r}
    /\ \E answer \in ExecuteExplain(dbms) :
         /\ error' = IF answer.error = "none" THEN error ELSE [error EXCEPT ![r] = answer.error]
         /\ IF answer.plan
            THEN /\ plan' = [plan EXCEPT ![r] = schema_name_conn']
                 /\ i' = i + 1
                 /\ fresh' = fresh \cup {r}
            ELSE UNCHANGED <<plan, i, fresh>>
    /\ UNCHANGED <<config, read, pc, output>>

\* sql.Open returns no connection and Ping fails on it: the rest of GetMetrics
\* is lost, and what it has collected with it.
ConnectPanics(r) ==
    /\ Take(r)
    /\ ~Skipped(r) /\ class[r] = "select" /\ SchemaOf[r] \in nameless
    /\ Goto("panicked")
    /\ UNCHANGED <<config, read, plan, error, output, i, schema_name_conn, tried, fresh>>

PassOver == pc \in Passes /\ (todo = {} \/ i > Limit)

EndPass ==
    /\ PassOver
    /\ IF pc = "sum_time_us"
       THEN Call("avg_time_us", digests) /\ UNCHANGED output
       ELSE /\ Call("schemas", {})
            /\ queries' = digests
            /\ UNCHANGED <<described, usage>>
    /\ UNCHANGED <<config, read, plan, error>>

-----------------------------------------------------------------------------
(* CollectDbSchema and CollectIndexUsageSchema.  Each view is read on its    *)
(* own; a query that fails leaves it out, a row that fails ends the database. *)

DescribeDatabase(database) ==
    /\ pc = "schemas"
    /\ databases' = databases \ {database}
    /\ described' \in IF Excluded(database) THEN {described}
                      ELSE {described, described \cup {database}}
    /\ UNCHANGED <<dbms, optimize, wanted, nameless, read, passVars, pc, plan, error, usage, queries>>

\* Not when the server has more than a million tables; of all databases.
CollectIndexUsage ==
    /\ pc = "schemas" /\ databases = {}
    /\ usage' \in IF dbms = "mysql" THEN BOOLEAN ELSE {FALSE}
    /\ Goto("done")
    /\ UNCHANGED <<config, read, passVars, plan, error, described, queries>>

-----------------------------------------------------------------------------

ExplainRow ==
    \E r \in todo : Leave(r) \/ NeedFullQuery(r) \/ Explain(r) \/ ConnectPanics(r)

Returned == pc \in {"done", "failed", "panicked"} /\ UNCHANGED vars

Next ==
    \/ NotInstalled \/ VersionUnknown \/ ReadRows \/ QueryFails \/ ScanFails
    \/ Begin \/ ExplainRow \/ EndPass
    \/ (\E database \in databases : DescribeDatabase(database)) \/ CollectIndexUsage
    \/ Returned

Spec == Init /\ [][Next]_vars

-----------------------------------------------------------------------------
(* Properties *)

\* The bound is for the costliest: what a pass leaves without an attempt,
\* although it could be explained, is left because the pass has its plans, and
\* nothing that it did try costs less.  Passes, skips, failures and rows of the
\* same cost come in any order.
CostliestFirst ==
    [][pc' \notin {pc, "panicked"} /\ pc \in Passes =>
         \A r \in {s \in digests \ tried : ~Skipped(s) /\ class[s] = "select"} :
            i > Limit /\ (\A q \in tried : cost[pc][q] >= cost[pc][r])]_vars

\* No statement is sent to a database that is not its own, or that the
\* configuration leaves out, and no such schema is described.
InScope ==
    /\ \A r \in Rows : plan[r] # "none" =>
         /\ plan[r] = SchemaOf[r]
         /\ plan[r] \notin System /\ ~Excluded(plan[r])
    /\ \A schema \in described : ~Excluded(schema)

\* What a pass has tried, and what it has passed by.
TriedInv ==
    /\ fresh \subseteq tried /\ tried \subseteq digests \ todo
    /\ \A r \in fresh : plan[r] # "none"
    /\ pc \in {"query", "fallback", "explain"} => todo = {} /\ tried = {}

SortedInv ==
    pc \in Passes => \A r \in digests \ todo, s \in todo : cost[pc][s] <= cost[pc][r]

LeftInv ==
    pc \in Passes => \A r \in digests \ (todo \cup tried) : Skipped(r) \/ class[r] = "cut"

\* Statements and schemas are in scope, and what CostliestFirst rests on.
CollectInv == InScope /\ TriedInv /\ SortedInv /\ LeftInv
=============================================================================
