-------------------------- MODULE ProcessTaskProofs --------------------------
(***************************************************************************)
(* Proofs about ProcessTask, for any databases, any task details and any   *)
(* number of inputs.                                                       *)
(***************************************************************************)
EXTENDS ProcessTask, TLAPS

-----------------------------------------------------------------------------
(* The gatherers *)

Reads == [needs : SUBSET Sections, sets : SUBSET Sections, fails : SUBSET Failures]

\* The read of gatherer i at j cannot be passed over: neither it nor one before
\* it in the gatherer ends the gatherer, or goes on, without an error.
Certain(i, j) ==
    /\ "next" \notin Pipeline[i][j].fails
    /\ \A l \in 1..j : /\ Pipeline[i][l].needs = {}
                       /\ Pipeline[i][l].fails \cap {"return", "panic"} = {}

ReadBefore(i, j) == i < g \/ (i = g /\ j < r)

\* What the certain reads set.
Secured ==
    \A i \in 1..Len(Pipeline) : \A j \in 1..Len(Pipeline[i]) :
      Certain(i, j) /\ (collection = "metrics" \/ ReadBefore(i, j)) =>
        Pipeline[i][j].sets \subseteq got

PositionOK == g \in 1..Len(Pipeline) /\ r \in 1..Len(Pipeline[g])

\* MySQL's process list is the last read of all; it is cut as it is read.
ProcessListLast ==
    /\ collection = "cutting" => Cuts /\ "ProcessList" \in got
    /\ dbms = "mysql" /\ collection = "running" => "ProcessList" \notin got
    /\ dbms = "mysql" /\ collection = "metrics" /\ "ProcessList" \in got => ~TooLong

Zeros == [t \in Threads |-> 0]

\* Nothing is cut yet, or all is cut to twice the limit, and this was needed.
CutSoFar(limits) ==
    /\ limit \in limits
    /\ collection = "running" \/ dbms # "mysql" => info = Zeros /\ original = Zeros
    /\ collection = "running" => limit = MaxInfo
    /\ \/ limit = MaxInfo /\ info = original
       \/ /\ 2 * limit \in MinInfo..MaxInfo
          /\ info = CutTo(2 * limit)
          /\ 2 * limit < MaxInfo => SumFunction(CutTo(4 * limit)) > MaxTotal

CollectInv(limits) ==
    /\ CollectTypeOK
    /\ PositionOK /\ Secured
    /\ "Databases" \notin got => databases = {}
    /\ ProcessListLast
    /\ CutSoFar(limits)

LEMMA ReadOK ==
    ASSUME NEW sets \in SUBSET Sections, NEW fails \in SUBSET Failures
    PROVE  /\ Read(sets, fails) \in Reads
           /\ \A needs \in SUBSET Sections :
                [Read(sets, fails) EXCEPT !.needs = needs] \in Reads
  BY DEF Read, Reads

LEMMA SystemOK ==
    ASSUME instance \in Instances
    PROVE  System \in Seq(Reads) /\ System # <<>>
<1>1. /\ {{}, {"System"}} \subseteq SUBSET Sections
      /\ {{}, {"panic"}, {"error"}, {"fatal"}} \subseteq SUBSET Failures
  BY DEF Sections, Failures
<1>2. /\ Read({}, {"panic"}) \in Reads /\ Read({}, {"fatal"}) \in Reads
      /\ Read({}, {"error"}) \in Reads
      /\ Read({"System"}, {}) \in Reads /\ Read({"System"}, {"error"}) \in Reads
  BY <1>1, ReadOK
<1>3. /\ OSMetrics \in Seq(Reads) /\ OSMetrics # <<>>
      /\ AWSRDSEnhancedMetrics \in Seq(Reads) /\ AWSRDSEnhancedMetrics # <<>>
      /\ GCPCloudSQLEnhancedMetrics \in Seq(Reads) /\ GCPCloudSQLEnhancedMetrics # <<>>
      /\ AzureMySQLEnhancedMetrics \in Seq(Reads) /\ AzureMySQLEnhancedMetrics # <<>>
  BY <1>2 DEF OSMetrics, AWSRDSEnhancedMetrics, GCPCloudSQLEnhancedMetrics,
              AzureMySQLEnhancedMetrics
<1> QED BY <1>3 DEF Instances, System

LEMMA MySQLGatherersOK ==
    \A gatherer \in {MySQLConf, MySQLInfo, MySQLMetricsBase, MySQLMetrics, MySQLMetricsConfig,
                     AgentMetrics} :
      gatherer \in Seq(Reads) /\ gatherer # <<>>
<1>1. /\ {{}, {"Variables"}, {"Info"}, {"Version"}, {"Grants"}, {"Users"}, {"Status"},
          {"InnoDB"}, {"Databases"}, {"TotalTables"}, {"CountQueries"}, {"Queries"},
          {"ProcessList"}, {"Engine"}, {"Agent"}} \subseteq SUBSET Sections
      /\ {{}, {"return"}, {"error"}, {"next"}, {"next", "error"}} \subseteq SUBSET Failures
  BY DEF Sections, Failures
<1>2. /\ MySQLConf \in Seq(Reads) /\ MySQLConf # <<>>
      /\ MySQLInfo \in Seq(Reads) /\ MySQLInfo # <<>>
  <2>1. /\ Read({}, {"return"}) \in Reads /\ Read({"Variables"}, {"return"}) \in Reads
        /\ Read({"Info"}, {}) \in Reads /\ Read({"Version"}, {"return"}) \in Reads
        /\ Read({"Grants"}, {"error"}) \in Reads /\ Read({"Users"}, {}) \in Reads
    BY <1>1, ReadOK
  <2> QED BY <2>1 DEF MySQLConf, MySQLInfo
<1>3. MySQLMetricsBase \in Seq(Reads) /\ MySQLMetricsBase # <<>>
  <2>1. /\ Read({}, {"error"}) \in Reads /\ Read({"Status"}, {"error"}) \in Reads
        /\ Read({"InnoDB"}, {"next"}) \in Reads /\ Read({"Databases"}, {"error"}) \in Reads
        /\ Read({"TotalTables"}, {"error"}) \in Reads
        /\ Read({"CountQueries"}, {"next"}) \in Reads
    BY <1>1, ReadOK
  <2> QED BY <2>1 DEF MySQLMetricsBase
<1>4. /\ MySQLMetrics \in Seq(Reads) /\ MySQLMetrics # <<>>
      /\ MySQLMetricsConfig \in Seq(Reads) /\ MySQLMetricsConfig # <<>>
      /\ AgentMetrics \in Seq(Reads) /\ AgentMetrics # <<>>
  BY <1>1, ReadOK DEF MySQLMetrics, MySQLMetricsConfig, AgentMetrics
<1> QED BY <1>2, <1>3, <1>4

LEMMA PostgreSQLGatherersOK ==
    \A gatherer \in {PostgreSQLConf, PostgreSQLInfoBase, PostgreSQLInfo, PostgreSQLMetricsBase,
                     PostgreSQLMetricsConfig, AgentMetrics} :
      gatherer \in Seq(Reads) /\ gatherer # <<>>
<1>1. /\ {{}, {"Variables"}, {"Info", "Version"}, {"Info", "Users"}, {"Status"}, {"Databases"},
          {"CountQueries", "Queries"}, {"ProcessList"}, {"Engine", "TotalTables"}, {"Agent"},
          {"Version"}} \subseteq SUBSET Sections
      /\ {{}, {"error"}, {"next"}, {"error", "panic"}, {"next", "error"}} \subseteq SUBSET Failures
  BY DEF Sections, Failures
<1>2. /\ PostgreSQLConf \in Seq(Reads) /\ PostgreSQLConf # <<>>
      /\ PostgreSQLInfoBase \in Seq(Reads) /\ PostgreSQLInfoBase # <<>>
      /\ PostgreSQLInfo \in Seq(Reads) /\ PostgreSQLInfo # <<>>
  <2>1. /\ Read({"Variables"}, {"error"}) \in Reads /\ Read({}, {"error", "panic"}) \in Reads
        /\ Read({"Info", "Version"}, {}) \in Reads /\ Read({"Info", "Users"}, {}) \in Reads
    BY <1>1, ReadOK
  <2> QED BY <2>1 DEF PostgreSQLConf, PostgreSQLInfoBase, PostgreSQLInfo
<1>3. PostgreSQLMetricsBase \in Seq(Reads) /\ PostgreSQLMetricsBase # <<>>
  <2>1. /\ Read({"Status"}, {}) \in Reads /\ Read({"Databases"}, {"error"}) \in Reads
        /\ Read({"ProcessList"}, {"next"}) \in Reads
    BY <1>1, ReadOK
  <2>2. [Read({"CountQueries", "Queries"}, {"next", "error"}) EXCEPT !.needs = {"Version"}]
          \in Reads
    BY <1>1, ReadOK
  <2> QED BY <2>1, <2>2 DEF PostgreSQLMetricsBase
<1>4. /\ PostgreSQLMetricsConfig \in Seq(Reads) /\ PostgreSQLMetricsConfig # <<>>
      /\ AgentMetrics \in Seq(Reads) /\ AgentMetrics # <<>>
  <2>1. /\ Read({"Engine", "TotalTables"}, {}) \in Reads /\ Read({"Agent"}, {}) \in Reads
        /\ [Read({}, {"error", "panic"}) EXCEPT !.needs = {"Status"}] \in Reads
    BY <1>1, ReadOK
  <2> QED BY <2>1 DEF PostgreSQLMetricsConfig, AgentMetrics
<1> QED BY <1>2, <1>3, <1>4

\* The default gatherers and those of the group, one after the other.
LEMMA MySQLPipeline ==
    ASSUME instance \in Instances, dbms = "mysql", group \in Groups
    PROVE  /\ Len(Pipeline) \in {5, 6}
           /\ Pipeline[1] = System /\ Pipeline[2] = MySQLConf /\ Pipeline[3] = MySQLInfo
           /\ Pipeline[4] = MySQLMetricsBase /\ Pipeline[5] = AgentMetrics
           /\ Len(Pipeline) = 6 => Pipeline[6] \in {MySQLMetrics, MySQLMetricsConfig}
<1>1. Default = <<System, MySQLConf, MySQLInfo, MySQLMetricsBase, AgentMetrics>>
  BY DEF Default
<1>2. Default \in Seq(Seq(Reads))
  BY <1>1, SystemOK, MySQLGatherersOK
<1>3. Group = <<>> \/ Group = <<MySQLMetrics>> \/ Group = <<MySQLMetricsConfig>>
  BY DEF Group, Groups
<1>4. Group \in Seq(Seq(Reads))
  <2>1. <<>> \in Seq(Seq(Reads))
    OBVIOUS
  <2>2. <<MySQLMetrics>> \in Seq(Seq(Reads)) /\ <<MySQLMetricsConfig>> \in Seq(Seq(Reads))
    BY MySQLGatherersOK
  <2> QED BY <1>3, <2>1, <2>2
<1>5. /\ Len(Pipeline) = Len(Default) + Len(Group)
      /\ \A i \in 1..Len(Default) : Pipeline[i] = Default[i]
      /\ \A i \in 1..Len(Group) : Pipeline[Len(Default) + i] = Group[i]
  BY <1>2, <1>4 DEF Pipeline
<1>6. Len(Default) = 5 /\ Len(Group) \in {0, 1}
  BY <1>1, <1>3
<1> QED BY <1>1, <1>3, <1>5, <1>6

LEMMA PostgreSQLPipeline ==
    ASSUME instance \in Instances, dbms = "postgresql", group \in Groups
    PROVE  /\ Len(Pipeline) \in {6, 7}
           /\ Pipeline[1] = System /\ Pipeline[2] = PostgreSQLConf
           /\ Pipeline[3] = PostgreSQLInfoBase /\ Pipeline[4] = PostgreSQLInfo
           /\ Pipeline[5] = PostgreSQLMetricsBase /\ Pipeline[6] = AgentMetrics
           /\ Len(Pipeline) = 7 => Pipeline[7] = PostgreSQLMetricsConfig
<1>1. Default = <<System, PostgreSQLConf, PostgreSQLInfoBase, PostgreSQLInfo,
                  PostgreSQLMetricsBase, AgentMetrics>>
  BY DEF Default
<1>2. Default \in Seq(Seq(Reads))
  BY <1>1, SystemOK, PostgreSQLGatherersOK
<1>3. Group = <<>> \/ Group = <<PostgreSQLMetricsConfig>>
  BY DEF Group, Groups
<1>4. Group \in Seq(Seq(Reads))
  <2>1. <<>> \in Seq(Seq(Reads))
    OBVIOUS
  <2>2. <<PostgreSQLMetricsConfig>> \in Seq(Seq(Reads))
    BY PostgreSQLGatherersOK
  <2> QED BY <1>3, <2>1, <2>2
<1>5. /\ Len(Pipeline) = Len(Default) + Len(Group)
      /\ \A i \in 1..Len(Default) : Pipeline[i] = Default[i]
      /\ \A i \in 1..Len(Group) : Pipeline[Len(Default) + i] = Group[i]
  BY <1>2, <1>4 DEF Pipeline
<1>6. Len(Default) = 6 /\ Len(Group) \in {0, 1}
  BY <1>1, <1>3
<1> QED BY <1>1, <1>3, <1>5, <1>6

LEMMA PipelineOK ==
    ASSUME instance \in Instances, dbms \in Dbms, group \in Groups
    PROVE  /\ Len(Pipeline) \in Nat \ {0}
           /\ \A i \in 1..Len(Pipeline) : Pipeline[i] \in Seq(Reads) /\ Pipeline[i] # <<>>
<1>1. CASE dbms = "mysql"
  <2>1. Len(Pipeline) \in {5, 6}
    BY <1>1, MySQLPipeline
  <2>2. \A n \in {5, 6} : \A i \in 1..n : i \in {1, 2, 3, 4, 5} \/ (i = 6 /\ n = 6)
    OBVIOUS
  <2>3. \A i \in {1, 2, 3, 4, 5} : Pipeline[i] \in Seq(Reads) /\ Pipeline[i] # <<>>
    BY <1>1, MySQLPipeline, SystemOK, MySQLGatherersOK
  <2>4. Len(Pipeline) = 6 => Pipeline[6] \in Seq(Reads) /\ Pipeline[6] # <<>>
    BY <1>1, MySQLPipeline, MySQLGatherersOK
  <2>5. ASSUME NEW i \in 1..Len(Pipeline)
        PROVE  Pipeline[i] \in Seq(Reads) /\ Pipeline[i] # <<>>
    <3>1. i \in {1, 2, 3, 4, 5} \/ (i = 6 /\ Len(Pipeline) = 6)
      BY <2>1, <2>2
    <3> QED BY <2>3, <2>4, <3>1
  <2> QED BY <2>1, <2>5
<1>2. CASE dbms = "postgresql"
  <2>1. Len(Pipeline) \in {6, 7}
    BY <1>2, PostgreSQLPipeline
  <2>2. \A n \in {6, 7} : \A i \in 1..n : i \in {1, 2, 3, 4, 5, 6} \/ (i = 7 /\ n = 7)
    OBVIOUS
  <2>3. \A i \in {1, 2, 3, 4, 5, 6} : Pipeline[i] \in Seq(Reads) /\ Pipeline[i] # <<>>
    BY <1>2, PostgreSQLPipeline, SystemOK, PostgreSQLGatherersOK
  <2>4. Len(Pipeline) = 7 => Pipeline[7] \in Seq(Reads) /\ Pipeline[7] # <<>>
    BY <1>2, PostgreSQLPipeline, PostgreSQLGatherersOK
  <2>5. ASSUME NEW i \in 1..Len(Pipeline)
        PROVE  Pipeline[i] \in Seq(Reads) /\ Pipeline[i] # <<>>
    <3>1. i \in {1, 2, 3, 4, 5, 6} \/ (i = 7 /\ Len(Pipeline) = 7)
      BY <2>1, <2>2
    <3> QED BY <2>3, <2>4, <3>1
  <2> QED BY <2>1, <2>5
<1> QED BY <1>1, <1>2 DEF Dbms

\* The sections that every collection needs are set by reads that cannot be
\* passed over.
LEMMA MySQLCertain ==
    ASSUME instance \in Instances, dbms = "mysql", group \in Groups
    PROVE  /\ Certain(3, 1) /\ 1 \in 1..Len(Pipeline[3]) /\ "Info" \in Pipeline[3][1].sets
           /\ Certain(4, 2) /\ 2 \in 1..Len(Pipeline[4]) /\ "Status" \in Pipeline[4][2].sets
           /\ Certain(4, 4) /\ 4 \in 1..Len(Pipeline[4]) /\ "Databases" \in Pipeline[4][4].sets
           /\ Certain(5, 1) /\ 1 \in 1..Len(Pipeline[5]) /\ "Agent" \in Pipeline[5][1].sets
<1>1. Pipeline[3] = MySQLInfo /\ Pipeline[4] = MySQLMetricsBase /\ Pipeline[5] = AgentMetrics
  BY MySQLPipeline
<1>2. Certain(3, 1) /\ 1 \in 1..Len(MySQLInfo) /\ "Info" \in MySQLInfo[1].sets
  BY <1>1 DEF Certain, MySQLInfo, Read
<1>3. Certain(4, 2) /\ 2 \in 1..Len(MySQLMetricsBase) /\ "Status" \in MySQLMetricsBase[2].sets
  BY <1>1 DEF Certain, MySQLMetricsBase, Read
<1>4. Certain(4, 4) /\ 4 \in 1..Len(MySQLMetricsBase) /\ "Databases" \in MySQLMetricsBase[4].sets
  BY <1>1 DEF Certain, MySQLMetricsBase, Read
<1>5. Certain(5, 1) /\ 1 \in 1..Len(AgentMetrics) /\ "Agent" \in AgentMetrics[1].sets
  BY <1>1 DEF Certain, AgentMetrics, Read
<1> QED BY <1>1, <1>2, <1>3, <1>4, <1>5

LEMMA PostgreSQLCertain ==
    ASSUME instance \in Instances, dbms = "postgresql", group \in Groups
    PROVE  /\ Certain(4, 1) /\ 1 \in 1..Len(Pipeline[4]) /\ "Info" \in Pipeline[4][1].sets
           /\ Certain(5, 1) /\ 1 \in 1..Len(Pipeline[5]) /\ "Status" \in Pipeline[5][1].sets
           /\ Certain(5, 2) /\ 2 \in 1..Len(Pipeline[5]) /\ "Databases" \in Pipeline[5][2].sets
           /\ Certain(6, 1) /\ 1 \in 1..Len(Pipeline[6]) /\ "Agent" \in Pipeline[6][1].sets
<1>1. /\ Pipeline[4] = PostgreSQLInfo /\ Pipeline[5] = PostgreSQLMetricsBase
      /\ Pipeline[6] = AgentMetrics
  BY PostgreSQLPipeline
<1>2. Certain(4, 1) /\ 1 \in 1..Len(PostgreSQLInfo) /\ "Info" \in PostgreSQLInfo[1].sets
  BY <1>1 DEF Certain, PostgreSQLInfo, Read
<1>3. /\ Certain(5, 1) /\ 1 \in 1..Len(PostgreSQLMetricsBase)
      /\ "Status" \in PostgreSQLMetricsBase[1].sets
  BY <1>1 DEF Certain, PostgreSQLMetricsBase, Read
<1>4. /\ Certain(5, 2) /\ 2 \in 1..Len(PostgreSQLMetricsBase)
      /\ "Databases" \in PostgreSQLMetricsBase[2].sets
  BY <1>1 DEF Certain, PostgreSQLMetricsBase, Read
<1>5. Certain(6, 1) /\ 1 \in 1..Len(AgentMetrics) /\ "Agent" \in AgentMetrics[1].sets
  BY <1>1 DEF Certain, AgentMetrics, Read
<1> QED BY <1>1, <1>2, <1>3, <1>4, <1>5

\* MySQL's gatherers need nothing of one another, and cut at the end of the
\* pipeline only.
LEMMA MySQLReads ==
    ASSUME instance \in Instances, dbms = "mysql", group \in Groups, PositionOK
    PROVE  /\ Current.needs = {}
           /\ "ProcessList" \in Current.sets =>
                Cuts /\ g = Len(Pipeline) /\ r = Len(Pipeline[g])
<1>1. \A i \in 1..Len(OSMetrics) :
        OSMetrics[i].needs = {} /\ "ProcessList" \notin OSMetrics[i].sets
  BY DEF OSMetrics, Read
<1>2. \A i \in 1..Len(AWSRDSEnhancedMetrics) :
        /\ AWSRDSEnhancedMetrics[i].needs = {}
        /\ "ProcessList" \notin AWSRDSEnhancedMetrics[i].sets
  BY DEF AWSRDSEnhancedMetrics, Read
<1>3. \A i \in 1..Len(GCPCloudSQLEnhancedMetrics) :
        /\ GCPCloudSQLEnhancedMetrics[i].needs = {}
        /\ "ProcessList" \notin GCPCloudSQLEnhancedMetrics[i].sets
  BY DEF GCPCloudSQLEnhancedMetrics, Read
<1>4. \A i \in 1..Len(AzureMySQLEnhancedMetrics) :
        /\ AzureMySQLEnhancedMetrics[i].needs = {}
        /\ "ProcessList" \notin AzureMySQLEnhancedMetrics[i].sets
  BY DEF AzureMySQLEnhancedMetrics, Read
<1>5. \A i \in 1..Len(System) : System[i].needs = {} /\ "ProcessList" \notin System[i].sets
  BY <1>1, <1>2, <1>3, <1>4 DEF System, Instances
<1>6. \A i \in 1..Len(MySQLConf) :
        MySQLConf[i].needs = {} /\ "ProcessList" \notin MySQLConf[i].sets
  BY DEF MySQLConf, Read
<1>7. \A i \in 1..Len(MySQLInfo) :
        MySQLInfo[i].needs = {} /\ "ProcessList" \notin MySQLInfo[i].sets
  BY DEF MySQLInfo, Read
<1>8. \A i \in 1..Len(MySQLMetricsBase) :
        MySQLMetricsBase[i].needs = {} /\ "ProcessList" \notin MySQLMetricsBase[i].sets
  BY DEF MySQLMetricsBase, Read
<1>9. \A i \in 1..Len(AgentMetrics) :
        AgentMetrics[i].needs = {} /\ "ProcessList" \notin AgentMetrics[i].sets
  BY DEF AgentMetrics, Read
<1>10. \A i \in 1..Len(MySQLMetricsConfig) :
         MySQLMetricsConfig[i].needs = {} /\ "ProcessList" \notin MySQLMetricsConfig[i].sets
  BY DEF MySQLMetricsConfig, Read
<1>11. /\ Len(MySQLMetrics) = 2
       /\ MySQLMetrics[1].needs = {} /\ "ProcessList" \notin MySQLMetrics[1].sets
       /\ MySQLMetrics[2].needs = {} /\ MySQLMetrics[2].sets = {"ProcessList"}
  BY DEF MySQLMetrics, Read
<1>12. Len(Pipeline) \in {5, 6} /\ g \in 1..Len(Pipeline) /\ r \in 1..Len(Pipeline[g])
  BY MySQLPipeline DEF PositionOK
<1>13. CASE g \in {1, 2, 3, 4, 5}
  <2>1. Current.needs = {} /\ "ProcessList" \notin Current.sets
    BY <1>5, <1>6, <1>7, <1>8, <1>9, <1>12, <1>13, MySQLPipeline DEF Current
  <2> QED BY <2>1
<1>14. CASE g = 6 /\ Len(Pipeline) = 6
  <2>1. CASE Pipeline[6] = MySQLMetricsConfig
    BY <1>10, <1>12, <1>14, <2>1 DEF Current
  <2>2. CASE Pipeline[6] = MySQLMetrics
    <3>1. r = 1 \/ r = 2
      <4>1. r \in 1..2
        BY <1>11, <1>12, <1>14, <2>2
      <4> QED BY <4>1
    <3> QED BY <1>11, <1>14, <2>2, <3>1 DEF Current, Cuts
  <2> QED BY <1>14, <2>1, <2>2, MySQLPipeline
<1>15. g \in {1, 2, 3, 4, 5} \/ (g = 6 /\ Len(Pipeline) = 6)
  <2>1. \A n \in {5, 6} : \A i \in 1..n : i \in {1, 2, 3, 4, 5} \/ (i = 6 /\ n = 6)
    OBVIOUS
  <2> QED BY <1>12, <2>1
<1> QED BY <1>13, <1>14, <1>15

\* PostgreSQL's statements need the version; the views of the databases, at the
\* end of the pipeline, the status.
LEMMA PostgreSQLReads ==
    ASSUME instance \in Instances, dbms = "postgresql", group \in Groups, PositionOK
    PROVE  Current.needs \subseteq {"Version"} \/ (Current.needs = {"Status"} /\ g = 7)
<1>1. \A i \in 1..Len(OSMetrics) : OSMetrics[i].needs = {}
  BY DEF OSMetrics, Read
<1>2. \A i \in 1..Len(AWSRDSEnhancedMetrics) : AWSRDSEnhancedMetrics[i].needs = {}
  BY DEF AWSRDSEnhancedMetrics, Read
<1>3. \A i \in 1..Len(GCPCloudSQLEnhancedMetrics) : GCPCloudSQLEnhancedMetrics[i].needs = {}
  BY DEF GCPCloudSQLEnhancedMetrics, Read
<1>4. \A i \in 1..Len(AzureMySQLEnhancedMetrics) : AzureMySQLEnhancedMetrics[i].needs = {}
  BY DEF AzureMySQLEnhancedMetrics, Read
<1>5. \A i \in 1..Len(System) : System[i].needs = {}
  BY <1>1, <1>2, <1>3, <1>4 DEF System, Instances
<1>6. \A i \in 1..Len(PostgreSQLConf) : PostgreSQLConf[i].needs = {}
  BY DEF PostgreSQLConf, Read
<1>7. \A i \in 1..Len(PostgreSQLInfoBase) : PostgreSQLInfoBase[i].needs = {}
  BY DEF PostgreSQLInfoBase, Read
<1>8. \A i \in 1..Len(PostgreSQLInfo) : PostgreSQLInfo[i].needs = {}
  BY DEF PostgreSQLInfo, Read
<1>9. \A i \in 1..Len(PostgreSQLMetricsBase) :
        PostgreSQLMetricsBase[i].needs \subseteq {"Version"}
  BY DEF PostgreSQLMetricsBase, Read
<1>10. \A i \in 1..Len(AgentMetrics) : AgentMetrics[i].needs = {}
  BY DEF AgentMetrics, Read
<1>11. \A i \in 1..Len(PostgreSQLMetricsConfig) :
         PostgreSQLMetricsConfig[i].needs \in {{}, {"Status"}}
  BY DEF PostgreSQLMetricsConfig, Read
<1>12. Len(Pipeline) \in {6, 7} /\ g \in 1..Len(Pipeline) /\ r \in 1..Len(Pipeline[g])
  BY PostgreSQLPipeline DEF PositionOK
<1>13. CASE g \in {1, 2, 3, 4, 5, 6}
  BY <1>5, <1>6, <1>7, <1>8, <1>9, <1>10, <1>12, <1>13, PostgreSQLPipeline DEF Current
<1>14. CASE g = 7 /\ Len(Pipeline) = 7
  BY <1>11, <1>12, <1>14, PostgreSQLPipeline DEF Current
<1>15. g \in {1, 2, 3, 4, 5, 6} \/ (g = 7 /\ Len(Pipeline) = 7)
  <2>1. \A n \in {6, 7} : \A i \in 1..n : i \in {1, 2, 3, 4, 5, 6} \/ (i = 7 /\ n = 7)
    OBVIOUS
  <2> QED BY <1>12, <2>1
<1> QED BY <1>13, <1>14, <1>15

LEMMA ReadsNeed ==
    ASSUME instance \in Instances, dbms \in Dbms, group \in Groups, PositionOK
    PROVE  \/ Current.needs \subseteq {"Version"}
           \/ Current.needs = {"Status"} /\ dbms = "postgresql" /\ g = 7
  BY MySQLReads, PostgreSQLReads DEF Dbms

\* The collection is past some reads: all that are certain have set their
\* sections.
LEMMA SecuredStep ==
    ASSUME Secured, Pipeline' = Pipeline, got \subseteq got', collection # "metrics",
           \A i \in 1..Len(Pipeline) : \A j \in 1..Len(Pipeline[i]) :
             Certain(i, j) /\ (collection' = "metrics" \/ ReadBefore(i, j)') /\ ~ReadBefore(i, j)
               => Pipeline[i][j].sets \subseteq got'
    PROVE  Secured'
<1>1. \A i, j : Certain(i, j)' <=> Certain(i, j)
  BY DEF Certain
<1>2. ASSUME NEW i \in 1..Len(Pipeline), NEW j \in 1..Len(Pipeline[i]),
             Certain(i, j), collection' = "metrics" \/ ReadBefore(i, j)'
      PROVE  Pipeline[i][j].sets \subseteq got'
  <2>1. CASE ReadBefore(i, j)
    BY <1>2, <2>1 DEF Secured
  <2>2. CASE ~ReadBefore(i, j)
    BY <1>2, <2>2
  <2> QED BY <2>1, <2>2
<1> QED BY <1>1, <1>2 DEF Secured

\* A gatherer is left, for the next one or for the end of the collection.
LEMMA GathererLeft ==
    ASSUME instance \in Instances, dbms \in Dbms, group \in Groups,
           PositionOK, Secured, Pipeline' = Pipeline, got \subseteq got',
           collection \in {"running", "cutting"},
           IF g < Len(Pipeline)
           THEN g' = g + 1 /\ r' = 1 /\ collection' = "running"
           ELSE collection' = "metrics" /\ UNCHANGED position,
           \A j \in r..Len(Pipeline[g]) : Certain(g, j) => Pipeline[g][j].sets \subseteq got'
    PROVE  PositionOK' /\ Secured'
<1>1. /\ Len(Pipeline) \in Nat \ {0}
      /\ g \in 1..Len(Pipeline) /\ Len(Pipeline[g]) \in Nat /\ r \in 1..Len(Pipeline[g])
      /\ \A i \in 1..Len(Pipeline) : Len(Pipeline[i]) \in Nat \ {0}
  <2>1. \A i \in 1..Len(Pipeline) : Len(Pipeline[i]) \in Nat \ {0}
    BY PipelineOK
  <2> QED BY <2>1, PipelineOK DEF PositionOK
<1>2. PositionOK'
  <2>1. CASE g < Len(Pipeline)
    <3>1. g + 1 \in 1..Len(Pipeline)
      BY <1>1, <2>1
    <3>2. 1 \in 1..Len(Pipeline[g + 1])
      BY <1>1, <3>1
    <3> QED BY <2>1, <3>1, <3>2 DEF PositionOK
  <2>2. CASE ~(g < Len(Pipeline))
    BY <2>2 DEF PositionOK, position
  <2> QED BY <2>1, <2>2
<1>3. ASSUME NEW i \in 1..Len(Pipeline), NEW j \in 1..Len(Pipeline[i]),
             Certain(i, j), collection' = "metrics" \/ ReadBefore(i, j)', ~ReadBefore(i, j)
      PROVE  Pipeline[i][j].sets \subseteq got'
  <2>1. i \in Nat /\ j \in Nat /\ j <= Len(Pipeline[i]) /\ i <= Len(Pipeline)
    BY <1>1
  <2>2. i = g /\ j >= r
    BY <1>1, <1>3, <2>1 DEF ReadBefore, position
  <2>3. j \in r..Len(Pipeline[g])
    BY <1>1, <2>1, <2>2
  <2> QED BY <1>3, <2>2, <2>3
<1>4. collection # "metrics"
  OBVIOUS
<1>5. Secured'
  BY <1>3, <1>4, SecuredStep
<1> QED BY <1>2, <1>5

\* A read is left: it has set its sections, or need not.
LEMMA ReadLeft ==
    ASSUME instance \in Instances, dbms \in Dbms, group \in Groups,
           PositionOK, Secured, Pipeline' = Pipeline, got \subseteq got',
           collection = "running", NextRead,
           Certain(g, r) => Current.sets \subseteq got'
    PROVE  PositionOK' /\ Secured'
<1>1. /\ Len(Pipeline) \in Nat \ {0}
      /\ g \in 1..Len(Pipeline) /\ Len(Pipeline[g]) \in Nat /\ r \in 1..Len(Pipeline[g])
  BY PipelineOK DEF PositionOK
<1>2. CASE r < Len(Pipeline[g])
  <2>1. r' = r + 1 /\ g' = g /\ collection' = "running"
    BY <1>2 DEF NextRead
  <2>2. PositionOK'
    BY <1>1, <1>2, <2>1 DEF PositionOK
  <2>3. ASSUME NEW i \in 1..Len(Pipeline), NEW j \in 1..Len(Pipeline[i]),
               Certain(i, j), ReadBefore(i, j)', ~ReadBefore(i, j)
        PROVE  Pipeline[i][j].sets \subseteq got'
    <3>1. i \in Int /\ j \in Int
      <4>1. Len(Pipeline[i]) \in Nat
        BY PipelineOK
      <4> QED BY <1>1, <4>1
    <3>2. i = g /\ j = r
      BY <1>1, <2>1, <2>3, <3>1 DEF ReadBefore
    <3> QED BY <2>3, <3>2 DEF Current
  <2>4. Secured'
    BY <2>1, <2>3, SecuredStep
  <2> QED BY <2>2, <2>4
<1>3. CASE ~(r < Len(Pipeline[g]))
  <2>1. NextGatherer /\ r = Len(Pipeline[g])
    BY <1>1, <1>3 DEF NextRead
  <2>2. \A j \in r..Len(Pipeline[g]) : j = r
    BY <1>1, <2>1
  <2>3. \A j \in r..Len(Pipeline[g]) : Certain(g, j) => Pipeline[g][j].sets \subseteq got'
    BY <2>2 DEF Current
  <2> QED BY <2>1, <2>3, GathererLeft DEF NextGatherer
<1> QED BY <1>2, <1>3

LEMMA ChosenKept == UNCHANGED chosen => Pipeline' = Pipeline
  BY DEF chosen, Pipeline, Default, Group, System

LEMMA CurrentOK ==
    ASSUME instance \in Instances, dbms \in Dbms, group \in Groups, PositionOK
    PROVE  Current \in Reads /\ g \in Nat \ {0} /\ r \in Nat \ {0}
<1>1. g \in 1..Len(Pipeline) /\ Len(Pipeline) \in Nat /\ r \in 1..Len(Pipeline[g])
  BY PipelineOK DEF PositionOK
<1>2. Pipeline[g] \in Seq(Reads)
  BY <1>1, PipelineOK
<1> QED BY <1>1, <1>2 DEF Current

LEMMA CollectBegins ==
    ASSUME NEW limits \in SUBSET (0..MaxInfo), Halves(limits),
           instance \in Instances, dbms \in Dbms, group \in Groups,
           g = 1, r = 1, got = {}, databases = {}, collection = "running",
           info = Zeros, original = Zeros, limit = MaxInfo
    PROVE  CollectInv(limits)
<1>1. PositionOK
  <2>1. Len(Pipeline) \in Nat \ {0}
    BY PipelineOK
  <2>2. 1 \in 1..Len(Pipeline)
    BY <2>1
  <2>3. Pipeline[1] \in Seq(Reads) /\ Pipeline[1] # <<>>
    BY <2>2, PipelineOK
  <2> QED BY <2>2, <2>3 DEF PositionOK
<1>2. Secured
  <2>1. ASSUME NEW i \in 1..Len(Pipeline), NEW j \in 1..Len(Pipeline[i])
        PROVE  ~ReadBefore(i, j)
    <3>1. Len(Pipeline) \in Nat /\ Len(Pipeline[i]) \in Nat
      BY PipelineOK
    <3> QED BY <3>1 DEF ReadBefore
  <2> QED BY <2>1 DEF Secured
<1>3. CollectTypeOK
  BY LimitsAssumption DEF CollectTypeOK, Zeros
<1>4. CutSoFar(limits) /\ ProcessListLast
  BY DEF CutSoFar, ProcessListLast, Halves
<1> QED BY <1>1, <1>2, <1>3, <1>4 DEF CollectInv

LEMMA ReadSucceedsInv ==
    ASSUME NEW limits \in SUBSET (0..MaxInfo), CollectInv(limits), ReadSucceeds
    PROVE  CollectInv(limits)'
<1>1. /\ instance \in Instances /\ dbms \in Dbms /\ group \in Groups
      /\ PositionOK /\ Secured /\ collection = "running"
  BY DEF CollectInv, CollectTypeOK, ReadSucceeds
<1>2. Pipeline' = Pipeline /\ UNCHANGED <<instance, dbms, group>>
  BY ChosenKept DEF ReadSucceeds, chosen
<1>3. got' = got \cup Current.sets
  BY DEF ReadSucceeds
<1>4. PositionOK' /\ Secured'
  BY <1>1, <1>2, <1>3, ReadLeft DEF ReadSucceeds
<1>5. collection' \in {"running", "metrics"}
  BY <1>1 DEF ReadSucceeds, NextRead, NextGatherer
<1>6. CollectTypeOK'
  <2>1. (g \in Nat \ {0} /\ r \in Nat \ {0})'
    BY <1>1, <1>2, <1>4, CurrentOK, PipelineOK DEF PositionOK
  <2>2. got' \subseteq Sections
    BY <1>1, <1>3, CurrentOK DEF CollectInv, CollectTypeOK, Reads
  <2>3. databases' \subseteq Schemas
    BY DEF ReadSucceeds, CollectInv, CollectTypeOK
  <2> QED BY <1>2, <1>5, <2>1, <2>2, <2>3
          DEF CollectInv, CollectTypeOK, ReadSucceeds, processList
<1>7. ("Databases" \notin got => databases = {})'
  BY <1>3 DEF ReadSucceeds, CollectInv
<1>8. ProcessListLast'
  BY <1>1, <1>2, <1>3, <1>5, MySQLReads DEF ReadSucceeds, CollectInv, ProcessListLast
<1>9. CutSoFar(limits)'
  BY <1>1, <1>2, <1>5 DEF ReadSucceeds, CollectInv, CutSoFar, CutTo, Zeros, processList
<1> QED BY <1>4, <1>6, <1>7, <1>8, <1>9 DEF CollectInv

LEMMA ReadFailsInv ==
    ASSUME NEW limits \in SUBSET (0..MaxInfo), CollectInv(limits),
           (\E how \in Failures : ReadFails(how)) \/ Panics
    PROVE  CollectInv(limits)'
<1>1. /\ instance \in Instances /\ dbms \in Dbms /\ group \in Groups
      /\ PositionOK /\ Secured /\ collection = "running"
  BY DEF CollectInv, CollectTypeOK, ReadFails, Panics
<1>2. Pipeline' = Pipeline /\ UNCHANGED <<instance, dbms, group>>
  BY ChosenKept DEF ReadFails, Panics, chosen
<1>3. UNCHANGED <<got, databases, processList>>
  BY DEF ReadFails, Panics
<1>4. PositionOK' /\ Secured' /\ collection' \in {"running", "metrics", "nil", "fatal"}
  <2>1. ASSUME NextGatherer,
               "return" \in Current.fails \/ "panic" \in Current.fails \/ Current.needs # {}
        PROVE  PositionOK' /\ Secured' /\ collection' \in {"running", "metrics"}
    <3>1. \A j \in r..Len(Pipeline[g]) : ~Certain(g, j)
      <4>1. r \in Nat \ {0}
        BY <1>1, CurrentOK
      <4>2. \A j \in r..Len(Pipeline[g]) : r \in 1..j
        BY <4>1
      <4> QED BY <2>1, <4>2 DEF Certain, Current
    <3>2. IF g < Len(Pipeline)
          THEN g' = g + 1 /\ r' = 1 /\ collection' = "running"
          ELSE collection' = "metrics" /\ UNCHANGED position
      BY <1>1, <2>1 DEF NextGatherer
    <3>3. got \subseteq got' /\ collection \in {"running", "cutting"}
      BY <1>1, <1>3
    <3> HIDE <2>1
    <3>4. PositionOK' /\ Secured'
      BY <1>1, <1>2, <3>1, <3>2, <3>3, GathererLeft
    <3> QED BY <3>2, <3>4
  <2>2. CASE Panics
    <3>1. NextGatherer /\ Current.needs # {}
      BY <2>2 DEF Panics, Lacks
    <3> QED BY <2>1, <3>1
  <2>3. CASE \E how \in Failures : ReadFails(how)
    <3>1. PICK how \in Failures : ReadFails(how)
      BY <2>3
    <3>2. CASE how = "next"
      <4>1. NextRead /\ ~Certain(g, r)
        BY <3>1, <3>2 DEF ReadFails, Certain, Current
      <4>2. PositionOK' /\ Secured'
        BY <1>1, <1>2, <1>3, <4>1, ReadLeft
      <4> QED BY <1>1, <4>1, <4>2 DEF NextRead, NextGatherer
    <3>3. CASE how \in {"return", "panic"}
      <4>1. NextGatherer /\ how \in Current.fails
        BY <3>1, <3>3 DEF ReadFails
      <4> QED BY <2>1, <3>3, <4>1
    <3>4. CASE how \in {"error", "fatal"}
      <4>1. UNCHANGED <<g, r>> /\ collection' \in {"nil", "fatal"}
        BY <3>1, <3>4 DEF ReadFails, position
      <4>2. \A i, j : ReadBefore(i, j)' <=> ReadBefore(i, j)
        BY <4>1 DEF ReadBefore
      <4>3. Secured'
        BY <1>1, <1>2, <1>3, <4>1, <4>2, SecuredStep
      <4>4. PositionOK'
        BY <1>1, <1>2, <4>1 DEF PositionOK
      <4> QED BY <4>1, <4>3, <4>4
    <3> QED BY <3>2, <3>3, <3>4 DEF Failures
  <2> QED BY <2>2, <2>3
<1>5. CollectTypeOK'
  <2>1. (g \in Nat \ {0} /\ r \in Nat \ {0})'
    BY <1>1, <1>2, <1>4, CurrentOK, PipelineOK DEF PositionOK
  <2> QED BY <1>2, <1>3, <1>4, <2>1 DEF CollectInv, CollectTypeOK, processList
<1>6. ("Databases" \notin got => databases = {})'
  BY <1>3 DEF CollectInv
<1>7. ProcessListLast'
  BY <1>1, <1>2, <1>3, <1>4 DEF CollectInv, ProcessListLast
<1>8. CutSoFar(limits)'
  BY <1>1, <1>2, <1>3, <1>4 DEF CollectInv, CutSoFar, CutTo, Zeros, processList
<1> QED BY <1>4, <1>5, <1>6, <1>7, <1>8 DEF CollectInv

LEMMA ReadProcessListInv ==
    ASSUME NEW limits \in SUBSET (0..MaxInfo), CollectInv(limits), ReadProcessList
    PROVE  CollectInv(limits)'
<1>1. /\ instance \in Instances /\ dbms \in Dbms /\ group \in Groups
      /\ PositionOK /\ Secured /\ collection = "running" /\ Cuts
  BY DEF CollectInv, CollectTypeOK, ReadProcessList
<1>2. Pipeline' = Pipeline /\ UNCHANGED <<instance, dbms, group, g, r>>
  BY ChosenKept DEF ReadProcessList, chosen, position
<1>3. /\ original' \in [Threads -> Nat] /\ info' = original'
      /\ got' = got \cup Current.sets /\ collection' = "cutting"
      /\ UNCHANGED <<databases, limit>>
  BY LimitsAssumption DEF ReadProcessList, Length
<1>4. PositionOK' /\ Secured'
  <2>1. \A i, j : ReadBefore(i, j)' <=> ReadBefore(i, j)
    BY <1>2 DEF ReadBefore
  <2>2. Secured'
    BY <1>1, <1>2, <1>3, <2>1, SecuredStep
  <2> QED BY <1>1, <1>2, <2>2 DEF PositionOK
<1>5. CollectTypeOK'
  <2>1. got' \subseteq Sections
    BY <1>1, <1>3, CurrentOK DEF CollectInv, CollectTypeOK, Reads
  <2> QED BY <1>2, <1>3, <2>1 DEF CollectInv, CollectTypeOK
<1>6. ("Databases" \notin got => databases = {})'
  BY <1>3 DEF CollectInv
<1>7. ProcessListLast'
  BY <1>1, <1>2, <1>3 DEF ProcessListLast, Cuts, Current
<1>8. CutSoFar(limits)'
  BY <1>1, <1>2, <1>3 DEF CollectInv, CutSoFar, Cuts
<1> QED BY <1>4, <1>5, <1>6, <1>7, <1>8 DEF CollectInv

\* All is cut to the limit, which is half of what it was before.
LEMMA CutHalves ==
    ASSUME NEW limits \in SUBSET (0..MaxInfo), Halves(limits),
           CollectTypeOK, CutSoFar(limits), dbms = "mysql", collection = "cutting",
           TooLong, Cut, UNCHANGED <<dbms, collection, original>>
    PROVE  CutSoFar(limits)' /\ info' \in [Threads -> Nat]
<1>1. /\ limit \in limits /\ limit \in Nat /\ limit <= MaxInfo /\ limit >= MinInfo
      /\ MaxInfo \in Nat /\ MinInfo \in Nat \ {0}
      /\ original \in [Threads -> Nat] /\ SumFunction(info) > MaxTotal
  BY LimitsAssumption DEF CutSoFar, CollectTypeOK, TooLong, total_info_length
<1>2. PICK m \in limits : limit = 2 * m
  BY <1>1 DEF Halves
<1>3. m \in Nat /\ limit' = m
  <2>1. m \in Nat
    BY <1>1
  <2> QED BY <1>2, <2>1 DEF Cut
<1>4. info' = CutTo(limit)
  <2>1. CASE info = original
    BY <2>1 DEF Cut, CutTo
  <2>2. CASE info = CutTo(2 * limit)
    <3>1. ASSUME NEW t \in Threads
          PROVE  (IF info[t] > limit THEN limit ELSE info[t])
                   = (IF original[t] > limit THEN limit ELSE original[t])
      <4>1. info[t] = IF original[t] > 2 * limit THEN 2 * limit ELSE original[t]
        BY <2>2 DEF CutTo
      <4>2. original[t] \in Nat
        BY <1>1
      <4> QED BY <1>1, <4>1, <4>2
    <3> QED BY <3>1 DEF Cut, CutTo
  <2> QED BY <2>1, <2>2 DEF CutSoFar
<1>5. 2 * m \in MinInfo..MaxInfo
  BY <1>1, <1>2, <1>3
<1>6. limit < MaxInfo => info = CutTo(2 * limit)
  BY <1>1 DEF CutSoFar
<1>7. CutTo(2 * m)' = CutTo(limit) /\ CutTo(4 * m)' = CutTo(2 * limit)
  <2>1. 2 * m = limit /\ 4 * m = 2 * limit
    BY <1>2, <1>3
  <2> QED BY <2>1 DEF CutTo
<1>8. CutSoFar(limits)'
  <2>1. /\ info' = CutTo(2 * m)' /\ 2 * m \in MinInfo..MaxInfo
        /\ 2 * m < MaxInfo => SumFunction(CutTo(4 * m)') > MaxTotal
    BY <1>1, <1>2, <1>4, <1>5, <1>6, <1>7
  <2> QED BY <1>2, <1>3, <2>1 DEF CutSoFar
<1>9. info' \in [Threads -> Nat]
  BY <1>1, <1>4 DEF CutTo
<1> QED BY <1>8, <1>9

LEMMA TruncateInv ==
    ASSUME NEW limits \in SUBSET (0..MaxInfo), Halves(limits), CollectInv(limits),
           Truncate \/ TruncateEnds
    PROVE  CollectInv(limits)'
<1>1. /\ instance \in Instances /\ dbms \in Dbms /\ group \in Groups
      /\ PositionOK /\ Secured /\ collection = "cutting" /\ Cuts /\ "ProcessList" \in got
  BY DEF CollectInv, CollectTypeOK, ProcessListLast, Truncate, TruncateEnds
<1>2. Pipeline' = Pipeline /\ UNCHANGED <<instance, dbms, group>>
  BY ChosenKept DEF Truncate, TruncateEnds, chosen
<1>3. CASE Truncate
  <2>1. UNCHANGED <<g, r, got, databases, collection, original>> /\ TooLong /\ Cut
    BY <1>3 DEF Truncate, position
  <2>2. CutSoFar(limits)' /\ info' \in [Threads -> Nat]
    BY <1>1, <1>2, <2>1, CutHalves DEF CollectInv, Cuts
  <2>3. limit' \in 0..MaxInfo
    BY <2>2 DEF CutSoFar
  <2>4. CollectTypeOK'
    BY <1>2, <2>1, <2>2, <2>3 DEF CollectInv, CollectTypeOK
  <2>5. PositionOK' /\ Secured'
    <3>1. \A i, j : ReadBefore(i, j)' <=> ReadBefore(i, j)
      BY <2>1 DEF ReadBefore
    <3>2. Secured'
      BY <1>1, <1>2, <2>1, <3>1, SecuredStep
    <3> QED BY <1>1, <1>2, <2>1, <3>2 DEF PositionOK
  <2>6. ProcessListLast' /\ ("Databases" \notin got => databases = {})'
    BY <1>1, <1>2, <2>1 DEF CollectInv, ProcessListLast, Cuts, Current
  <2> QED BY <2>2, <2>4, <2>5, <2>6 DEF CollectInv
<1>4. CASE TruncateEnds
  <2>1. g = Len(Pipeline) /\ r = Len(Pipeline[g]) /\ Len(Pipeline) \in Nat
    BY <1>1, MySQLReads, PipelineOK DEF Cuts
  <2>2. /\ ~TooLong /\ collection' = "metrics"
        /\ UNCHANGED <<g, r, got, databases, info, limit, original>>
    BY <1>4, <2>1 DEF TruncateEnds, position, processList
  <2>3. PositionOK' /\ Secured'
    <3>1. \A j \in r..Len(Pipeline[g]) : Pipeline[g][j].sets \subseteq got'
      <4>1. r \in Nat
        BY <1>1, CurrentOK
      <4>2. \A j \in r..Len(Pipeline[g]) : j = r
        BY <2>1, <4>1
      <4> QED BY <1>1, <2>2, <4>2 DEF Cuts, Current
    <3>2. /\ got \subseteq got' /\ UNCHANGED position /\ ~(g < Len(Pipeline))
      BY <2>1, <2>2 DEF position
    <3> QED BY <1>1, <1>2, <2>2, <3>1, <3>2, GathererLeft
  <2>4. CollectTypeOK'
    BY <1>2, <2>2 DEF CollectInv, CollectTypeOK
  <2>5. ProcessListLast' /\ ("Databases" \notin got => databases = {})'
    BY <1>1, <1>2, <2>2 DEF CollectInv, ProcessListLast, TooLong, total_info_length
  <2>6. CutSoFar(limits)'
    BY <1>1, <1>2, <2>2 DEF CollectInv, CutSoFar, CutTo, Zeros, Cuts
  <2> QED BY <2>3, <2>4, <2>5, <2>6 DEF CollectInv
<1> QED BY <1>3, <1>4

\* A collection that starts, goes on, or is over.
LEMMA CollectNext ==
    ASSUME NEW limits \in SUBSET (0..MaxInfo), Halves(limits), CollectInv(limits), [Next]_vars
    PROVE  CollectInv(limits)'
<1>1. CASE CollectStep
  BY <1>1, ReadSucceedsInv, ReadFailsInv, ReadProcessListInv, TruncateInv DEF CollectStep
<1>2. CASE Collect /\ UNCHANGED chosen
  <2>1. /\ (instance \in Instances /\ dbms \in Dbms /\ group \in Groups)'
        /\ (g = 1 /\ r = 1 /\ got = {} /\ databases = {} /\ collection = "running")'
        /\ (info = Zeros /\ original = Zeros /\ limit = MaxInfo)'
    BY <1>2 DEF Collect, chosen, CollectInv, CollectTypeOK, Zeros
  <2> QED BY <2>1, CollectBegins, PTL
<1>3. CASE UNCHANGED collectVars
  <2>1. /\ UNCHANGED <<instance, dbms, group, g, r, got, databases, collection>>
        /\ UNCHANGED <<info, limit, original>> /\ Pipeline' = Pipeline
    BY <1>3, ChosenKept DEF collectVars, chosen, position, processList
  <2>2. Secured' <=> Secured
    <3>1. \A i, j : Certain(i, j)' <=> Certain(i, j)
      BY <2>1 DEF Certain
    <3>2. \A i, j : ReadBefore(i, j)' <=> ReadBefore(i, j)
      BY <2>1 DEF ReadBefore
    <3> QED BY <2>1, <3>1, <3>2 DEF Secured
  <2>3. (PositionOK' <=> PositionOK) /\ (CollectTypeOK' <=> CollectTypeOK)
    BY <2>1 DEF PositionOK, CollectTypeOK
  <2>4. ProcessListLast' <=> ProcessListLast
    BY <2>1 DEF ProcessListLast, Cuts, Current, TooLong, total_info_length
  <2>5. CutSoFar(limits)' <=> CutSoFar(limits)
    BY <2>1 DEF CutSoFar, CutTo, Zeros
  <2> QED BY <2>1, <2>2, <2>3, <2>4, <2>5 DEF CollectInv
<1>4. CollectStep \/ (Collect /\ UNCHANGED chosen) \/ UNCHANGED collectVars
  BY DEF Next, vars, Collecting, GetTask, PostStarted, RunCommand, UnknownType, ParseDetails,
         Refuse, SchemaFails, Explain, ConnectPanics, Explained, Merge, CollectAgain, Report,
         Stopped, Over
<1> QED BY <1>1, <1>2, <1>3, <1>4

-----------------------------------------------------------------------------
(* The task *)

\* The task is at work: the metrics that it has collected stay as they are.
Working == pc \in {"status", "run", "explain", "merge", "wait"}

TaskTypeOK ==
    /\ inputs \in Seq(Inputs)
    /\ k \in Nat \ {0}
    /\ queries \in Seq(Answer)
    /\ exit \in Int /\ status \in {0, 1, 4}

Planned == \A j \in DOMAIN queries : queries[j].plan

\* Before the queries of the details are explained,
Fresh ==
    pc \in {"collect", "status", "run"} =>
      exit = 0 /\ status = 0 /\ k = 1 /\ queries = <<>> /\ merged = "inputs"

\* while they are,
AtInput ==
    pc = "explain" =>
      /\ type = 7 /\ inputs # <<>> /\ merged = "inputs"
      /\ Len(queries) = k - 1 /\ k - 1 <= Len(inputs)
      /\ exit \in {0, 6, 7}
      /\ exit = 0 <=> Planned

\* and since: the verdict is the exit code's.
Concludes ==
    /\ pc \in {"explain", "merge", "wait", "again"} => (status = 1 <=> exit = 0)
    /\ pc = "merge" => exit = 0 /\ type = 7
    /\ pc # "over" => told # "success"

IInv ==
    /\ TaskTypeOK
    /\ Working => collection = "metrics"
    /\ Fresh /\ AtInput /\ Concludes
    /\ Truthful

\* An answer has a plan or an error.
LEMMA AnswerOK ==
    ASSUME NEW answer \in Answers
    PROVE  answer \in Answer /\ (answer.plan \/ answer.error # "none")
<1>1. CASE answer = [plan |-> FALSE, error |-> "error"]
  BY <1>1 DEF Answer, ExplainErrors
<1>2. CASE answer \in ExecuteExplain(dbms) /\ answer # [plan |-> FALSE, error |-> "error"]
  <2>1. PICK n \in 1..Attempts(dbms), outcome \in Conclusive(dbms) :
           answer = Concluded(n, outcome)
    BY <1>2 DEF ExecuteExplain
  <2>2. outcome \in {"plan", "need_grant_permission", "refused"}
    BY DEF Conclusive
  <2> QED BY <2>1, <2>2 DEF Concluded, Answer, ExplainErrors
<1> QED BY <1>1, <1>2 DEF Answers

LEMMA InitInv == Init => IInv
<1> SUFFICES ASSUME Init PROVE IInv
  OBVIOUS
<1>1. /\ inputs = <<>> /\ queries = <<>> /\ k = 1 /\ exit = 0 /\ status = 0
      /\ merged = "inputs" /\ told = "nothing" /\ pc \in {"collect", "over"}
  BY DEF Init
<1>2. <<>> \in Seq(Inputs) /\ <<>> \in Seq(Answer)
  OBVIOUS
<1> QED BY <1>1, <1>2 DEF IInv, TaskTypeOK, Working, Fresh, AtInput, Concludes, Truthful

LEMMA CollectSteps ==
    ASSUME IInv, Collecting \/ CollectAgain
    PROVE  IInv'
<1> USE DEF IInv, TaskTypeOK, Working, Planned, Fresh, AtInput, Concludes, Truthful,
            taskVars, Goto
<1>1. CASE Collecting
  <2>1. ~Working
    BY <1>1 DEF Collecting
  <2> QED BY <1>1, <2>1 DEF Collecting
<1>2. CASE CollectAgain
  BY <1>2 DEF CollectAgain
<1> QED BY <1>1, <1>2

LEMMA CommandSteps ==
    ASSUME IInv, GetTask \/ PostStarted \/ RunCommand \/ UnknownType
    PROVE  IInv'
<1> USE DEF IInv, TaskTypeOK, Working, Planned, Fresh, AtInput, Concludes, Truthful,
            collectVars, Goto, Conclude
<1>1. CASE GetTask
  <2>1. <<>> \in Seq(Inputs)
    OBVIOUS
  <2>2. inputs' \in Seq(Inputs)
    <3>1. inputs' \in Details \cup {<<>>} \/ inputs' = inputs
      BY <1>1 DEF GetTask
    <3> QED BY <2>1, <3>1, TaskAssumption
  <2> QED BY <1>1, <2>2 DEF GetTask
<1>2. CASE PostStarted
  BY <1>2 DEF PostStarted
<1>3. CASE RunCommand
  BY <1>3 DEF RunCommand
<1>4. CASE UnknownType
  BY <1>4 DEF UnknownType
<1> QED BY <1>1, <1>2, <1>3, <1>4

LEMMA DetailSteps ==
    ASSUME IInv, ParseDetails \/ Refuse \/ SchemaFails \/ Explained \/ Merge
    PROVE  IInv'
<1> USE DEF IInv, TaskTypeOK, Working, Planned, Fresh, AtInput, Concludes, Truthful,
            collectVars, taskVars, Goto, Conclude
<1>1. CASE ParseDetails
  BY <1>1 DEF ParseDetails
<1>2. CASE Refuse
  BY <1>2 DEF Refuse, Explaining, Blank, Unknown, Input
<1>3. CASE SchemaFails
  BY <1>3 DEF SchemaFails, Explaining
<1>4. CASE Explained
  BY <1>4 DEF Explained
<1>5. CASE Merge
  BY <1>5 DEF Merge
<1> QED BY <1>1, <1>2, <1>3, <1>4, <1>5

LEMMA ExplainStep ==
    ASSUME IInv, Explain
    PROVE  IInv'
<1> USE DEF Explaining
<1>1. PICK answer \in Answers :
         /\ Account(answer)
         /\ queries' = Append(queries,
                IF answer.plan THEN [answer EXCEPT !.error = "none"] ELSE answer)
  BY DEF Explain
<1> DEFINE last == IF answer.plan THEN [answer EXCEPT !.error = "none"] ELSE answer
<1>2. last \in Answer /\ last.plan = answer.plan
  BY AnswerOK DEF Answer, ExplainErrors
<1>3. /\ pc = "explain" /\ k <= Len(inputs) /\ k' = k + 1
      /\ UNCHANGED <<collectVars, pc, type, inputs, merged, told>>
  BY DEF Explain
<1>4. /\ type = 7 /\ inputs # <<>> /\ merged = "inputs" /\ told # "success"
      /\ Len(queries) = k - 1 /\ exit \in {0, 6, 7}
      /\ exit = 0 <=> Planned
      /\ status = 1 <=> exit = 0
  BY <1>3 DEF IInv, AtInput, Concludes
<1>5. /\ queries' \in Seq(Answer) /\ Len(queries') = k' - 1
      /\ k' \in Nat \ {0} /\ k' - 1 <= Len(inputs')
  BY <1>1, <1>2, <1>3, <1>4 DEF IInv, TaskTypeOK
<1>6. Planned' <=> Planned /\ answer.plan
  <2> HIDE DEF last
  <2>1. queries \in Seq(Answer) /\ queries' = Append(queries, last)
    BY <1>1 DEF IInv, TaskTypeOK, last
  <2>2. /\ DOMAIN queries' = 1..(Len(queries) + 1)
        /\ queries'[Len(queries) + 1] = last
        /\ \A j \in 1..Len(queries) : queries'[j] = queries[j]
    BY <1>2, <2>1
  <2> QED BY <1>2, <2>1, <2>2 DEF Planned
<1>7. /\ exit' \in {0, 6, 7} /\ status' \in {0, 1, 4}
      /\ exit' = 0 <=> exit = 0 /\ answer.plan
      /\ status' = 1 <=> exit' = 0
  BY <1>1, <1>4, AnswerOK DEF Account, Conclude, IInv, TaskTypeOK
<1>8. TaskTypeOK'
  BY <1>3, <1>5, <1>7 DEF IInv, TaskTypeOK
<1>9. AtInput' /\ Concludes' /\ Fresh' /\ (Working => collection = "metrics")'
  BY <1>3, <1>4, <1>5, <1>6, <1>7 DEF IInv, AtInput, Concludes, Fresh, Working, collectVars
<1>10. Truthful'
  BY <1>3, <1>4 DEF Truthful
<1> QED BY <1>8, <1>9, <1>10 DEF IInv

LEMMA EndSteps ==
    ASSUME IInv, Report \/ ConnectPanics \/ Stopped \/ UNCHANGED vars
    PROVE  IInv'
<1> USE DEF IInv, TaskTypeOK, Working, Planned, Fresh, AtInput, Concludes, Truthful,
            collectVars, taskVars, Goto
<1>1. CASE Report
  BY <1>1 DEF Report, Verdict
<1>2. CASE ConnectPanics
  BY <1>2 DEF ConnectPanics
<1>3. CASE Stopped
  BY <1>3 DEF Stopped
<1>4. CASE UNCHANGED vars
  BY <1>4 DEF vars, Blank, Unknown, Input
<1> QED BY <1>1, <1>2, <1>3, <1>4

LEMMA NextInv == IInv /\ [Next]_vars => IInv'
  BY CollectSteps, CommandSteps, DetailSteps, ExplainStep, EndSteps DEF Next, Over

\* Whatever EXPLAIN answers to however many inputs: a task is a success just
\* when each of its inputs has a plan, its code tells why it is not, and the
\* platform is told no other verdict.
THEOREM TaskTruthful == Spec => []Truthful
<1>1. IInv => Truthful
  BY DEF IInv
<1> QED BY <1>1, InitInv, NextInv, PTL DEF Spec

-----------------------------------------------------------------------------
(* The theorems about the collections, and the types *)

CollectIInv ==
    \E limits \in SUBSET (0..MaxInfo) : Halves(limits) /\ CollectInv(limits)

LEMMA CollectInvariant == Spec => []CollectIInv
<1>1. Init => CollectIInv
  <2> SUFFICES ASSUME Init PROVE CollectIInv
    OBVIOUS
  <2>1. PICK limits \in SUBSET (0..MaxInfo) : Halves(limits)
    BY HalvesAssumption
  <2>2. /\ instance \in Instances /\ dbms \in Dbms /\ group \in Groups
        /\ g = 1 /\ r = 1 /\ got = {} /\ databases = {} /\ collection = "running"
        /\ info = Zeros /\ original = Zeros /\ limit = MaxInfo
    BY DEF Init, CollectInit, Zeros
  <2>3. CollectInv(limits)
    BY <2>1, <2>2, CollectBegins
  <2> QED BY <2>1, <2>3 DEF CollectIInv
<1>2. CollectIInv /\ [Next]_vars => CollectIInv'
  <2> SUFFICES ASSUME CollectIInv, [Next]_vars PROVE CollectIInv'
    OBVIOUS
  <2>1. PICK limits \in SUBSET (0..MaxInfo) : Halves(limits) /\ CollectInv(limits)
    BY DEF CollectIInv
  <2>2. CollectInv(limits)'
    BY <2>1, CollectNext
  <2> QED BY <2>1, <2>2 DEF CollectIInv
<1> QED BY <1>1, <1>2, PTL DEF Spec

\* Whatever reads fail, in whatever way: the metrics that a collection returns
\* tell whose they are, and hold the server's status and databases; and a
\* gatherer panics only where PostgreSQL's version is missing.
THEOREM MetricsUsable == Spec => []Usable
<1>1. CollectIInv => Usable
  <2> SUFFICES ASSUME NEW limits \in SUBSET (0..MaxInfo), CollectInv(limits) PROVE Usable
    BY DEF CollectIInv
  <2>1. /\ instance \in Instances /\ dbms \in Dbms /\ group \in Groups
        /\ PositionOK /\ Secured /\ ("Databases" \notin got => databases = {})
    BY DEF CollectInv, CollectTypeOK
  <2>2. collection = "metrics" => {"Agent", "Status", "Databases", "Info"} \subseteq got
    <3> SUFFICES ASSUME collection = "metrics"
                 PROVE  {"Agent", "Status", "Databases", "Info"} \subseteq got
      OBVIOUS
    <3>1. \A i \in 1..Len(Pipeline) : \A j \in 1..Len(Pipeline[i]) :
            Certain(i, j) => Pipeline[i][j].sets \subseteq got
      BY <2>1 DEF Secured
    <3>2. CASE dbms = "mysql"
      <4>1. {3, 4, 5} \subseteq 1..Len(Pipeline)
        BY <2>1, <3>2, MySQLPipeline
      <4> QED BY <2>1, <3>1, <3>2, <4>1, MySQLCertain
    <3>3. CASE dbms = "postgresql"
      <4>1. {4, 5, 6} \subseteq 1..Len(Pipeline)
        BY <2>1, <3>3, PostgreSQLPipeline
      <4> QED BY <2>1, <3>1, <3>3, <4>1, PostgreSQLCertain
    <3> QED BY <2>1, <3>2, <3>3 DEF Dbms
  <2>3. Lacks \subseteq {"Version"}
    <3>1. CASE Current.needs \subseteq {"Version"}
      BY <3>1 DEF Lacks
    <3>2. CASE Current.needs = {"Status"} /\ dbms = "postgresql" /\ g = 7
      <4>1. 5 \in 1..Len(Pipeline) /\ 1 \in 1..Len(Pipeline[5])
        BY <2>1, <3>2, PostgreSQLPipeline, PostgreSQLCertain
      <4>2. Certain(5, 1) /\ ReadBefore(5, 1) /\ "Status" \in Pipeline[5][1].sets
        BY <2>1, <3>2, PostgreSQLCertain DEF ReadBefore
      <4>3. "Status" \in got
        BY <2>1, <4>1, <4>2 DEF Secured
      <4> QED BY <3>2, <4>3 DEF Lacks
    <3> QED BY <2>1, <3>1, <3>2, ReadsNeed
  <2> QED BY <2>1, <2>2, <2>3 DEF Usable
<1> QED BY <1>1, CollectInvariant, PTL

\* However many threads run whatever: MySQL's process list is cut to the total
\* that is allowed, or as far as the minimum; no thread's text is cut below the
\* minimum, or further than needed.
THEOREM ProcessListFits == Spec => []ProcessListCut
<1>1. CollectIInv => ProcessListCut
  <2> SUFFICES ASSUME NEW limits \in SUBSET (0..MaxInfo), CollectInv(limits)
               PROVE  ProcessListCut
    BY DEF CollectIInv
  <2>1. /\ MaxTotal \in Nat /\ MaxInfo \in Nat /\ MinInfo \in Nat \ {0} /\ MinInfo <= MaxInfo
        /\ limit \in Nat /\ dbms \in Dbms /\ original \in [Threads -> Nat]
        /\ CutSoFar(limits) /\ ProcessListLast
    BY LimitsAssumption DEF CollectInv, CollectTypeOK
  <2>2. ASSUME collection = "metrics", "ProcessList" \in got, SumFunction(info) > MaxTotal,
               NEW t \in Threads
        PROVE  info[t] < 2 * MinInfo
    <3>1. CASE dbms # "mysql"
      <4>1. info[t] = 0
        BY <2>1, <3>1 DEF CutSoFar, Zeros
      <4> QED BY <2>1, <4>1
    <3>2. CASE dbms = "mysql"
      <4>1. limit < MinInfo
        BY <2>1, <2>2, <3>2 DEF ProcessListLast, TooLong, total_info_length
      <4>2. info = CutTo(2 * limit)
        BY <2>1, <4>1 DEF CutSoFar
      <4>3. info[t] = IF original[t] > 2 * limit THEN 2 * limit ELSE original[t]
        BY <4>2 DEF CutTo
      <4>4. original[t] \in Nat
        BY <2>1
      <4> QED BY <2>1, <4>1, <4>3, <4>4
    <3> QED BY <3>1, <3>2
  <2>3. ASSUME NEW t \in Threads, info[t] < original[t]
        PROVE  /\ info[t] >= MinInfo
               /\ info[t] < MaxInfo => SumFunction(CutTo(2 * info[t])) > MaxTotal
    <3>1. original[t] \in Nat
      BY <2>1
    <3>2. info # original
      BY <2>3, <3>1
    <3>3. /\ 2 * limit \in MinInfo..MaxInfo /\ info = CutTo(2 * limit)
          /\ 2 * limit < MaxInfo => SumFunction(CutTo(4 * limit)) > MaxTotal
      BY <2>1, <3>2 DEF CutSoFar
    <3>4. info[t] = IF original[t] > 2 * limit THEN 2 * limit ELSE original[t]
      BY <3>3 DEF CutTo
    <3>5. info[t] = 2 * limit /\ 2 * info[t] = 4 * limit
      BY <2>1, <2>3, <3>1, <3>4
    <3> QED BY <2>1, <3>3, <3>5
  <2> QED BY <2>2, <2>3 DEF ProcessListCut
<1> QED BY <1>1, CollectInvariant, PTL

RestOK ==
    /\ pc \in {"collect", "get", "status", "run", "explain", "merge", "wait", "again", "over"}
    /\ type \in TaskTypes \cup {0}
    /\ inputs \in Details \cup {<<>>}
    /\ collected \subseteq Schemas
    /\ exit \in {-1, 0, 1, 2, 3, 4, 5, 6, 7, 999}
    /\ merged \in {"inputs", "answered", "appended", "paired"}
    /\ nameless \subseteq Schemas
    /\ told \in {"nothing", "started", "success", "failure"}

\* The variables of the collection and of the task keep their types.
THEOREM TaskTypeCorrect == Spec => []TypeOK
<1>1. Init => RestOK
  BY DEF Init, RestOK
<1>2. IInv /\ RestOK /\ [Next]_vars => RestOK'
  <2> SUFFICES ASSUME IInv, RestOK, [Next]_vars PROVE RestOK'
    OBVIOUS
  <2> USE DEF RestOK, taskVars, Goto, Conclude
  <2>1. CASE Collecting \/ GetTask \/ PostStarted \/ RunCommand \/ UnknownType
    BY <2>1 DEF Collecting, GetTask, PostStarted, RunCommand, UnknownType
  <2>2. CASE ParseDetails \/ Refuse \/ SchemaFails \/ ConnectPanics \/ Explained \/ Merge
    BY <2>2 DEF ParseDetails, Refuse, SchemaFails, ConnectPanics, Explained, Merge
  <2>3. CASE Explain
    <3>1. Input.schema \in Schemas
      <4>1. k \in 1..Len(inputs) /\ inputs \in Seq(Inputs)
        BY <2>3 DEF Explain, Explaining, IInv, TaskTypeOK
      <4>2. Input \in Inputs /\ Input.schema # "blank"
        BY <2>3, <4>1 DEF Explain, Blank, Input
      <4> QED BY <4>2 DEF Inputs
    <3>2. exit' \in {-1, 0, 1, 2, 3, 4, 5, 6, 7, 999}
      BY <2>3 DEF Explain, Account
    <3>3. collected' \subseteq Schemas
      BY <2>3, <3>1 DEF Explain
    <3> QED BY <2>3, <3>2, <3>3 DEF Explain
  <2>4. CASE CollectAgain \/ Report \/ Stopped \/ UNCHANGED vars
    BY <2>4 DEF CollectAgain, Report, Verdict, Stopped, vars
  <2> QED BY <2>1, <2>2, <2>3, <2>4 DEF Next, Over
<1>3. CollectIInv => CollectTypeOK
  BY DEF CollectIInv, CollectInv
<1>4. IInv /\ RestOK /\ CollectTypeOK => TypeOK
  BY DEF IInv, TaskTypeOK, RestOK, TypeOK
<1> QED BY <1>1, <1>2, <1>3, <1>4, CollectInvariant, InitInv, NextInv, PTL DEF Spec
=============================================================================
