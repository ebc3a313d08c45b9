---------------------------- MODULE ExplainQuery ----------------------------
(***************************************************************************)
(* What EXPLAIN answers about one query: ExecuteExplain of                 *)
(* metrics/mysql/dbCollectQueries.go and of                                *)
(* metrics/postgresql/dbCollectQueries.go.                                 *)
(***************************************************************************)
EXTENDS Naturals, Sequences, FiniteSets

Dbms == {"mysql", "postgresql"}

\* explain_error: none; no permission to read; another refusal; other errors;
\* a query that is not known in full.
ExplainErrors ==
    {"none", "need_grant_permission", "refused", "error", "need_full_query"}

Answer == [plan : BOOLEAN, error : ExplainErrors]

\* The query as it is, with ' and with ` for its double quotes; PostgreSQL
\* prepares a query with parameters before these.
Attempts(dbms) == IF dbms = "mysql" THEN 3 ELSE 4

\* What ends the attempts: a plan or a refusal; any other error goes on.
Conclusive(dbms) ==
    {"plan", "need_grant_permission"} \cup (IF dbms = "mysql" THEN {"refused"} ELSE {})

\* The k-th attempt is the first conclusive one.  A plan that comes after a
\* failure is returned with the error of that failure.
Concluded(k, outcome) ==
    [plan  |-> outcome = "plan",
     error |-> IF outcome # "plan" THEN outcome
               ELSE IF k = 1 THEN "none" ELSE "error"]

\* A query without parameters, or a server that cannot explain them, has one
\* attempt less, and no answer of its own.
ExecuteExplain(dbms) ==
    {[plan |-> FALSE, error |-> "error"]}
      \cup {Concluded(k, outcome) : k \in 1..Attempts(dbms), outcome \in Conclusive(dbms)}

-----------------------------------------------------------------------------
(* Which queries PostgreSQL prepares.  A query is a sequence of the          *)
(* characters that the scan tells apart: "'", "$", a digit and others.       *)

\* The values of inSingleQuote with which a parameter is found from i on.
ContainsUnquotedPgParameter(query) ==
    LET found[i \in 1..(Len(query) + 2)] ==
          {inSingleQuote \in BOOLEAN :
             /\ i <= Len(query)
             /\ IF query[i] = "'"
                THEN IF inSingleQuote /\ i < Len(query) /\ query[i + 1] = "'"
                     THEN inSingleQuote \in found[i + 2]
                     ELSE (~inSingleQuote) \in found[i + 1]
                ELSE \/ ~inSingleQuote /\ query[i] = "$" /\ i < Len(query) /\ query[i + 1] = "0"
                     \/ inSingleQuote \in found[i + 1]}
    IN FALSE \in found[1]

\* What it is to find: a "$" before a digit, with an even number of quotes
\* before it.
HasParameter(query) ==
    \E k \in 1..(Len(query) - 1) :
       /\ query[k] = "$" /\ query[k + 1] = "0"
       /\ Cardinality({j \in 1..(k - 1) : query[j] = "'"}) % 2 = 0
=============================================================================
