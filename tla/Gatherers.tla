----------------------------- MODULE Gatherers -----------------------------
(***************************************************************************)
(* utils.CollectMetrics over the gatherers that main.go chains for the     *)
(* instance and the database: one collection of metrics.                   *)
(*                                                                         *)
(* A gatherer is the sequence of its reads.  The read of a gatherer that   *)
(* panics ends the gatherer without an error, and the collection goes on   *)
(* without the sections that it would have set.                            *)
(***************************************************************************)
EXTENDS ExplainQuery, FiniteSets, Functions

CONSTANTS
    Schemas,    \* the databases that the server may have
    Threads,    \* of the process list
    Lengths,    \* of what a thread runs, in bytes
    MaxTotal,   \* 32 MB in the code
    MaxInfo,    \* 65536
    MinInfo     \* 64

ASSUME LimitsAssumption ==
    /\ IsFiniteSet(Threads)
    /\ Lengths \subseteq Nat
    /\ MaxTotal \in Nat /\ MaxInfo \in Nat /\ MinInfo \in Nat \ {0}
    /\ MinInfo <= MaxInfo

\* MaxInfo can be halved until the half is less than MinInfo.
Halves(limits) ==
    MaxInfo \in limits /\ \A n \in limits : n >= MinInfo => \E m \in limits : n = 2 * m

ASSUME HalvesAssumption == \E limits \in SUBSET (0..MaxInfo) : Halves(limits)

VARIABLES
    instance, dbms,     \* configuration
    group,              \* the gatherers that follow the default ones
    g, r,               \* the gatherer and the read
    got,                \* the sections of the metrics that are set
    databases,          \* metrics.DB.Metrics.Databases
    collection,         \* what CollectMetrics returns
    info, limit,        \* the lengths in ProcessList, process_list_info_limit_length
    original            \* history: the lengths before any was cut

chosen       == <<instance, dbms, group>>
position     == <<g, r>>
processList  == <<info, limit, original>>
collectVars  == <<chosen, position, got, databases, collection, processList>>

Instances == {"local", "aws/rds", "gcp/cloudsql", "azure/mysql"}

Groups == {"default", "metrics", "configuration"}

Sections ==
    {"System", "Variables", "Info", "Version", "Grants", "Users", "Status", "InnoDB",
     "Databases", "TotalTables", "CountQueries", "Queries", "ProcessList", "Engine", "Agent"}

\* What a failed read may do: be passed over, end the gatherer, end it with an
\* error, or with a panic, or end the process (logger.Fatalf).
Failures == {"next", "return", "error", "panic", "fatal"}

Read(sets, fails) == [needs |-> {}, sets |-> sets, fails |-> fails]

-----------------------------------------------------------------------------
(* The gatherers *)

\* Memory and host are taken without a look at the error.
OSMetrics == <<Read({}, {"panic"}), Read({"System"}, {})>>

AWSRDSEnhancedMetrics == <<Read({}, {"fatal"}), Read({"System"}, {"error"})>>

GCPCloudSQLEnhancedMetrics == <<Read({}, {"error"}), Read({"System"}, {})>>

AzureMySQLEnhancedMetrics == <<Read({}, {"error"}), Read({"System"}, {"error"})>>

\* SHOW VARIABLES, SHOW GLOBAL VARIABLES
MySQLConf == <<Read({}, {"return"}), Read({"Variables"}, {"return"})>>

\* users_security_check reports what it could read.
MySQLInfo ==
    <<Read({"Info"}, {}), Read({"Version"}, {"return"}), Read({"Grants"}, {"error"}),
      Read({"Users"}, {})>>

MySQLMetricsBase ==
    <<Read({}, {"error"}), Read({"Status"}, {"error"}), Read({"InnoDB"}, {"next"}),
      Read({"Databases"}, {"error"}), Read({"TotalTables"}, {"error"}),
      Read({"CountQueries"}, {"next"})>>

MySQLMetrics ==
    <<Read({"Queries"}, {"next", "error"}), Read({"ProcessList"}, {"next", "error"})>>

\* ENGINES, then the tables of each database
MySQLMetricsConfig == <<Read({}, {"error"}), Read({"Engine"}, {"error"})>>

PostgreSQLConf == <<Read({"Variables"}, {"error"})>>

\* The version is taken apart as if it had a minor part.
PostgreSQLInfoBase == <<Read({}, {"error", "panic"}), Read({"Info", "Version"}, {})>>

PostgreSQLInfo == <<Read({"Info", "Users"}, {})>>

\* Mutant of PostgreSQLMetricsBase, for the checks that the properties bite:
\* the status is set when all of it is known.
StatusLast ==
    <<Read({"Databases"}, {"error"}),
      [Read({"CountQueries", "Queries"}, {"next", "error"}) EXCEPT !.needs = {"Version"}],
      Read({"ProcessList"}, {"next"}), Read({"Status"}, {})>>

\* A view that fails is left out of the status.  The statements are read for
\* the server's version.
PostgreSQLMetricsBase ==
    <<Read({"Status"}, {}), Read({"Databases"}, {"error"}),
      [Read({"CountQueries", "Queries"}, {"next", "error"}) EXCEPT !.needs = {"Version"}],
      Read({"ProcessList"}, {"next"})>>

\* The views of each database are added to the status; a name that makes no
\* connection string panics.
PostgreSQLMetricsConfig ==
    <<[Read({}, {"error", "panic"}) EXCEPT !.needs = {"Status"}],
      Read({"Engine", "TotalTables"}, {})>>

AgentMetrics == <<Read({"Agent"}, {})>>

System ==
    CASE instance = "local"        -> OSMetrics
      [] instance = "aws/rds"      -> AWSRDSEnhancedMetrics
      [] instance = "gcp/cloudsql" -> GCPCloudSQLEnhancedMetrics
      [] instance = "azure/mysql"  -> AzureMySQLEnhancedMetrics

Default ==
    IF dbms = "mysql"
    THEN <<System, MySQLConf, MySQLInfo, MySQLMetricsBase, AgentMetrics>>
    ELSE <<System, PostgreSQLConf, PostgreSQLInfoBase, PostgreSQLInfo,
           PostgreSQLMetricsBase, AgentMetrics>>

Group ==
    CASE group = "default"       -> <<>>
      [] group = "metrics"       -> IF dbms = "mysql" THEN <<MySQLMetrics>> ELSE <<>>
      [] group = "configuration" -> IF dbms = "mysql" THEN <<MySQLMetricsConfig>>
                                    ELSE <<PostgreSQLMetricsConfig>>

Pipeline == Default \o Group

Current == Pipeline[g][r]

\* Without databases the configuration's gatherer of PostgreSQL writes nothing.
Lacks ==
    IF Current.needs = {"Status"} /\ databases = {} THEN {} ELSE Current.needs \ got

-----------------------------------------------------------------------------
(* CollectMetrics *)

Length == [Threads -> Lengths]

CollectTypeOK ==
    /\ instance \in Instances /\ dbms \in Dbms /\ group \in Groups
    /\ databases \subseteq Schemas
    /\ g \in Nat \ {0} /\ r \in Nat \ {0}
    /\ got \subseteq Sections
    /\ collection \in {"running", "cutting", "metrics", "nil", "fatal"}
    /\ info \in [Threads -> Nat] /\ original \in [Threads -> Nat]
    /\ limit \in 0..MaxInfo

\* A collection starts with no metrics.
Collect ==
    /\ g' = 1 /\ r' = 1
    /\ got' = {} /\ databases' = {}
    /\ collection' = "running"
    /\ info' = [t \in Threads |-> 0] /\ original' = info'
    /\ limit' = MaxInfo

CollectInit ==
    /\ instance \in Instances /\ dbms \in Dbms /\ group \in Groups
    /\ g = 1 /\ r = 1
    /\ got = {} /\ databases = {}
    /\ collection = "running"
    /\ info = [t \in Threads |-> 0] /\ original = info
    /\ limit = MaxInfo

\* The gatherer returns without an error.
NextGatherer ==
    IF g < Len(Pipeline)
    THEN g' = g + 1 /\ r' = 1 /\ UNCHANGED collection
    ELSE collection' = "metrics" /\ UNCHANGED position

NextRead ==
    IF r < Len(Pipeline[g]) THEN r' = r + 1 /\ UNCHANGED <<g, collection>> ELSE NextGatherer

Cuts == dbms = "mysql" /\ Current.sets = {"ProcessList"}

ReadSucceeds ==
    /\ collection = "running" /\ ~Cuts
    /\ Lacks = {}
    /\ got' = got \cup Current.sets
    /\ databases' \in IF "Databases" \in Current.sets THEN SUBSET Schemas ELSE {databases}
    /\ NextRead
    /\ UNCHANGED <<chosen, processList>>

ReadFails(how) ==
    /\ collection = "running"
    /\ Lacks = {} /\ how \in Current.fails
    /\ CASE how = "next"  -> NextRead
         [] how = "error" -> collection' = "nil" /\ UNCHANGED position
         [] how = "fatal" -> collection' = "fatal" /\ UNCHANGED position
         [] OTHER         -> NextGatherer
    /\ UNCHANGED <<chosen, got, databases, processList>>

\* A section that is not there: HandlePanic recovers.
Panics ==
    /\ collection = "running"
    /\ Lacks # {}
    /\ NextGatherer
    /\ UNCHANGED <<chosen, got, databases, processList>>

\* MySQL's process list: what the threads run is cut, to half of the limit each
\* time, until all of it fits.
ReadProcessList ==
    /\ collection = "running" /\ Cuts
    /\ original' \in Length
    /\ info' = original'
    /\ got' = got \cup Current.sets
    /\ collection' = "cutting"
    /\ UNCHANGED <<chosen, position, databases, limit>>

total_info_length == SumFunction(info)

TooLong == total_info_length > MaxTotal /\ limit >= MinInfo

\* Mutant of Cut: the limit is halved before it is used.
CutToHalf ==
    /\ info' = [t \in Threads |-> IF info[t] > limit \div 2 THEN limit \div 2 ELSE info[t]]
    /\ limit' = limit \div 2

Cut ==
    /\ info' = [t \in Threads |-> IF info[t] > limit THEN limit ELSE info[t]]
    /\ limit' = limit \div 2

Truncate ==
    /\ collection = "cutting" /\ TooLong
    /\ Cut
    /\ UNCHANGED <<chosen, position, got, databases, collection, original>>

\* The gatherer's last read.
TruncateEnds ==
    /\ collection = "cutting" /\ ~TooLong
    /\ IF g < Len(Pipeline)
       THEN g' = g + 1 /\ r' = 1 /\ collection' = "running"
       ELSE collection' = "metrics" /\ UNCHANGED position
    /\ UNCHANGED <<chosen, got, databases, processList>>

CollectStep ==
    \/ ReadSucceeds \/ (\E how \in Failures : ReadFails(how)) \/ Panics
    \/ ReadProcessList \/ Truncate \/ TruncateEnds

-----------------------------------------------------------------------------
(* Properties *)

\* What a panic that is taken for success can cost.  Metrics that are returned
\* tell whose they are, and hold the server's status and databases; the one
\* section that is missing where a gatherer builds on it is PostgreSQL's
\* version, and nothing is written to a status that is not there.
Usable ==
    /\ collection = "metrics" => {"Agent", "Status", "Databases", "Info"} \subseteq got
    /\ "Databases" \notin got => databases = {}
    /\ collection = "running" => Lacks \subseteq {"Version"}

\* What all the threads ran, cut to n bytes.
CutTo(n) == [t \in Threads |-> IF original[t] > n THEN n ELSE original[t]]

\* What the threads run fits, or each is down to the minimum; none is cut below
\* it, and none is cut further than needed: with twice the limit they would
\* not have fitted.
ProcessListCut ==
    /\ collection = "metrics" /\ "ProcessList" \in got /\ SumFunction(info) > MaxTotal =>
         \A t \in Threads : info[t] < 2 * MinInfo
    /\ \A t \in Threads :
         info[t] < original[t] =>
           /\ info[t] >= MinInfo
           /\ info[t] < MaxInfo => SumFunction(CutTo(2 * info[t])) > MaxTotal
=============================================================================
