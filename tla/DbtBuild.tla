------------------------------- MODULE DbtBuild -------------------------------
(***************************************************************************)
(* The marts (dbt/wiki_analytics) and the hourly DAG that builds them:     *)
(* dim_wiki and the two daily tables are rebuilt, fct_edits and            *)
(* agg_edits_hourly are merged incrementally with a look-back, while rows  *)
(* arrive in raw late and out of order and retention takes old ones away.  *)
(*                                                                         *)
(* A model is built by one transaction, hence one step; the models of one  *)
(* build read different states of raw.  Time counts half hours.            *)
(***************************************************************************)
EXTENDS Integers

CONSTANTS
    Rows,           \* rows of raw.recentchange, records with a ts and a wiki
    MaxDelay,       \* how late a row may be: what Kafka keeps
    Retention,      \* the age at which retention may take a row away
    Tries,          \* 1 + default_args["retries"]
    Faults,         \* the kinds of fault this instance admits
    MaxTime,        \* bound: the last half hour
    MaxFaults       \* bound: how many faults a behaviour has

\* "database": a model or one of its tests fails.  "crash": the task is killed.
FaultKinds == {"database", "crash"}

ASSUME DbtAssumption ==
    /\ \A r \in Rows : r.ts \in Nat
    /\ MaxDelay \in Nat /\ Retention \in Nat /\ MaxDelay <= Retention
    /\ Tries \in Nat \ {0}
    /\ Faults \subseteq FaultKinds
    /\ MaxTime \in Nat /\ MaxFaults \in Nat

VARIABLES
    clock,          \* the present half hour
    raw,            \* raw.recentchange
    dim,            \* dim_wiki: its wikis
    facts,          \* fct_edits
    agg,            \* agg_edits_hourly: the facts that its groups count
    daily,          \* the facts that each of the daily tables counts
    run,            \* the last run of dbt_hourly
    attempt,        \* its try_number
    node,           \* node[n]: what dbt build has made of n in this attempt
    \* history, read by the properties only
    arrived,        \* the rows that ever were in raw
    unseen,         \* those that arrived since fct_edits was last built
    late,           \* those more than an hour behind the newest fact on arrival
    expired,        \* those that retention took before fct_edits was built again
    faults          \* how many faults there have been

marts   == <<dim, facts, agg, daily>>
dag     == <<run, attempt, node>>
history == <<arrived, unseen, late, expired>>
vars    == <<clock, raw, marts, dag, history, faults>>

Wikis(S) == {r.wiki : r \in S}

DailyTables == {"mart_top_pages_daily", "mart_editor_activity_daily"}

Aggregates == DailyTables \cup {"agg_edits_hourly"}

Nodes == {"stg_recentchange", "dim_wiki", "fct_edits", "relationships"} \cup Aggregates

\* Faulty: the aggregates wait for the test that relates the facts to dim_wiki.
AboveWithTest(n) ==
    CASE n = "stg_recentchange" -> {}
      [] n \in {"dim_wiki", "fct_edits"} -> {"stg_recentchange"}
      [] n = "relationships" -> {"dim_wiki", "fct_edits"}
      [] n \in Aggregates -> {"fct_edits", "relationships"}

(***************************************************************************)
(* What dbt build waits for before n: the models that n refers to.  A test *)
(* holds back only what is downstream of every model it reads: nothing is  *)
(* downstream of dim_wiki, so nothing waits for the relationships test.    *)
(***************************************************************************)
Above(n) ==
    CASE n = "stg_recentchange" -> {}
      [] n \in {"dim_wiki", "fct_edits"} -> {"stg_recentchange"}
      [] n = "relationships" -> {"dim_wiki", "fct_edits"}
      [] n \in Aggregates -> {"fct_edits"}

TablesTypeOK ==
    /\ clock \in 0 .. MaxTime
    /\ raw \subseteq Rows /\ facts \subseteq Rows /\ agg \subseteq Rows
    /\ dim \subseteq Wikis(Rows)
    /\ daily \in [DailyTables -> SUBSET Rows]

RunTypeOK ==
    /\ run \in {"none", "running", "retry", "success", "failed"}
    /\ attempt \in 1 .. Tries
    /\ node \in [Nodes -> {"waiting", "success", "error"}]

HistoryTypeOK ==
    /\ arrived \subseteq Rows /\ unseen \subseteq Rows
    /\ late \subseteq Rows /\ expired \subseteq Rows
    /\ faults \in 0 .. MaxFaults

TypeOK == TablesTypeOK /\ RunTypeOK /\ HistoryTypeOK

------------------------------------------------------------------------------
(* Vocabulary *)

Hour == 2
HourOf(r) == r.ts \div Hour                     \* date_trunc('hour', event_ts)

SameGroup(r, q) == HourOf(r) = HourOf(q) /\ r.wiki = q.wiki

\* Faulty: only what is newer than every fact.
AfterNewestFact(r) == \A q \in facts : r.ts > q.ts

\* event_ts > max(event_ts) - 1 hour; every row of an empty fct_edits.
InFactWindow(r) == \A q \in facts : r.ts > q.ts - Hour

\* Faulty: only the newest hour and later.
InLastHour(r) == \A q \in agg : r.ts >= Hour * HourOf(q)

\* event_ts >= max(hour_ts) - 2 hours: whole hours, because hour_ts is one.
InAggWindow(r) == \A q \in agg : r.ts >= Hour * HourOf(q) - 2 * Hour

Idle == [n \in Nodes |-> "waiting"]

\* n can be built: everything it waits for has been.
Ready(n) ==
    /\ run = "running" /\ node[n] = "waiting"
    /\ \A m \in Above(n) : node[m] = "success"

\* Nothing is left to build: what still waits is skipped.
Exhausted == \A n \in Nodes : ~Ready(n)

Suffer(k) == k \in Faults /\ faults < MaxFaults /\ faults' = faults + 1

Init ==
    /\ clock = 0
    /\ raw = {} /\ dim = {} /\ facts = {} /\ agg = {}
    /\ daily = [t \in DailyTables |-> {}]
    /\ run = "none" /\ attempt = 1 /\ node = Idle
    /\ arrived = {} /\ unseen = {} /\ late = {} /\ expired = {}
    /\ faults = 0

------------------------------------------------------------------------------
(* The raw table: the consumer writes, retention deletes *)

Tick ==
    /\ clock < MaxTime /\ clock' = clock + 1
    /\ UNCHANGED <<raw, marts, dag, history, faults>>

Arrive(r) ==
    /\ r \notin arrived
    /\ r.ts <= clock /\ clock <= r.ts + MaxDelay
    /\ raw' = raw \cup {r}
    /\ arrived' = arrived \cup {r} /\ unseen' = unseen \cup {r}
    /\ late' = IF \E q \in facts : q.ts - r.ts >= Hour THEN late \cup {r} ELSE late
    /\ UNCHANGED <<clock, marts, dag, expired, faults>>

\* drop_old_partitions: the days before some day past the retention.
Purge ==
    \E cutoff \in 1 .. clock - Retention :
        LET old == {r \in raw : r.ts < cutoff} IN
        /\ old # {}
        /\ raw' = raw \ old
        /\ expired' = expired \cup (old \cap unseen)
        /\ UNCHANGED <<clock, marts, dag, arrived, unseen, late, faults>>

------------------------------------------------------------------------------
(* The DAG dbt_hourly *)

\* Faulty: a new run goes on counting the tries of the last one.
BeginCountingOn ==
    /\ run # "running" /\ run' = "running"
    /\ attempt' = IF run = "none" THEN 1 ELSE attempt + 1
    /\ UNCHANGED <<clock, raw, marts, node, history, faults>>

\* A new hour, or the next try: dbt build runs from the start (max_active_runs = 1).
Begin ==
    /\ run # "running" /\ run' = "running"
    /\ attempt' = IF run = "retry" THEN attempt + 1 ELSE 1
    /\ UNCHANGED <<clock, raw, marts, node, history, faults>>

\* The task fails: it is tried again, or the run has failed and is reported.
Fail ==
    /\ run' = IF attempt < Tries THEN "retry" ELSE "failed"
    /\ node' = Idle

\* Faulty: only the models count, not the tests.
EndUntested ==
    /\ run = "running" /\ Exhausted
    /\ \/ /\ \A n \in Nodes \ {"relationships"} : node[n] = "success"
          /\ run' = "success" /\ node' = Idle
       \/ (\E n \in Nodes \ {"relationships"} : node[n] # "success") /\ Fail
    /\ UNCHANGED <<clock, raw, marts, attempt, history, faults>>

\* dbt build exits, with an error if any node had one.
End ==
    /\ run = "running" /\ Exhausted
    /\ \/ (\A n \in Nodes : node[n] = "success") /\ run' = "success" /\ node' = Idle
       \/ (\E n \in Nodes : node[n] # "success") /\ Fail
    /\ UNCHANGED <<clock, raw, marts, attempt, history, faults>>

Crash ==
    /\ run = "running" /\ Suffer("crash") /\ Fail
    /\ UNCHANGED <<clock, raw, marts, attempt, history>>

------------------------------------------------------------------------------
(* The nodes of dbt build, in any order that Above allows (threads: 4) *)

\* The node ends; one of the tests on it may fail although the model is built.
Ended(n) ==
    \/ node' = [node EXCEPT ![n] = "success"] /\ UNCHANGED faults
    \/ node' = [node EXCEPT ![n] = "error"] /\ Suffer("database")

\* The view over raw, and the tests on its columns.
BuildStaging ==
    /\ Ready("stg_recentchange") /\ Ended("stg_recentchange")
    /\ UNCHANGED <<clock, raw, marts, run, attempt, history>>

\* Faulty: only the wikis of rows that are new since the last build.
BuildDimOfNewRows ==
    /\ Ready("dim_wiki") /\ Ended("dim_wiki")
    /\ dim' = Wikis(raw \cap unseen)
    /\ UNCHANGED <<clock, raw, facts, agg, daily, run, attempt, history>>

BuildDim ==
    /\ Ready("dim_wiki") /\ Ended("dim_wiki")
    /\ dim' = Wikis(raw)
    /\ UNCHANGED <<clock, raw, facts, agg, daily, run, attempt, history>>

\* MERGE on (event_id, event_ts): a row that is there already stays one row.
BuildFacts ==
    /\ Ready("fct_edits") /\ Ended("fct_edits")
    /\ facts' = facts \cup {r \in raw : InFactWindow(r)}
    /\ unseen' = {}
    /\ UNCHANGED <<clock, raw, dim, agg, daily, run, attempt, arrived, late, expired>>

\* MERGE on (hour_ts, wiki): a group of the window replaces the one that is there.
BuildAgg ==
    /\ Ready("agg_edits_hourly") /\ Ended("agg_edits_hourly")
    /\ LET window == {r \in facts : InAggWindow(r)}
       IN  agg' = window \cup {r \in agg : \A q \in window : ~SameGroup(r, q)}
    /\ UNCHANGED <<clock, raw, dim, facts, daily, run, attempt, history>>

BuildDaily(t) ==
    /\ Ready(t) /\ Ended(t)
    /\ daily' = [daily EXCEPT ![t] = facts]
    /\ UNCHANGED <<clock, raw, dim, facts, agg, run, attempt, history>>

\* The model is not built.
BuildError(n) ==
    /\ Ready(n) /\ Suffer("database")
    /\ node' = [node EXCEPT ![n] = "error"]
    /\ UNCHANGED <<clock, raw, marts, run, attempt, history>>

\* The test on fct_edits.wiki: every wiki of the facts has a row in dim_wiki.
TestRelationships ==
    /\ Ready("relationships")
    /\ node' = [node EXCEPT !["relationships"] =
                    IF Wikis(facts) \subseteq dim THEN "success" ELSE "error"]
    /\ UNCHANGED <<clock, raw, marts, run, attempt, history, faults>>

------------------------------------------------------------------------------
(* Next-state relation and fairness *)

Build ==
    \/ Begin \/ End
    \/ BuildStaging \/ BuildDim \/ BuildFacts \/ BuildAgg \/ TestRelationships
    \/ \E t \in DailyTables : BuildDaily(t)

Next ==
    \/ Tick \/ Purge \/ \E r \in Rows : Arrive(r)
    \/ Build
    \/ Crash \/ \E n \in Nodes : BuildError(n)

Spec == Init /\ [][Next]_vars

\* Hours pass and Airflow's scheduler runs; rows and faults owe nothing.
FairSpec == Spec /\ WF_vars(Build)

------------------------------------------------------------------------------
(* Properties *)

(***************************************************************************)
(* Every row that ever was in raw is in fct_edits, or came more than an    *)
(* hour behind the newest fact, or came since the last build, or was       *)
(* deleted before any build: the look-back loses nothing else, however     *)
(* arrivals, failed builds and retention interleave (fct_edits.sql:29-34). *)
(***************************************************************************)
RowsAccounted == arrived \subseteq facts \cup late \cup unseen \cup expired

(***************************************************************************)
(* Once agg_edits_hourly is built, its groups count exactly the facts,     *)
(* also those of hours it has counted before and also after builds that    *)
(* loaded facts and did not get to it: its look-back of two whole hours    *)
(* covers every fact that its own newest hour lets in behind it.           *)
(***************************************************************************)
AggMatchesFacts == node["agg_edits_hourly"] = "success" => agg = facts

(***************************************************************************)
(* From a successful run to the next build the marts agree with each       *)
(* other: every table counts the same facts and every fact has its wiki,   *)
(* though each was built from another state of raw and some by an earlier  *)
(* try.                                                                    *)
(***************************************************************************)
PassedIsConsistent ==
    run = "success" =>
        /\ agg = facts
        /\ \A t \in DailyTables : daily[t] = facts
        /\ Wikis(facts) \subseteq dim

(***************************************************************************)
(* A row that is in time and stays in raw is reported in the end: it       *)
(* reaches the hourly and the daily tables even while the relationships    *)
(* test fails every run, because no model waits for that test.             *)
(***************************************************************************)
Reported(r) == r \in agg /\ \A t \in DailyTables : r \in daily[t]

EventuallyReported ==
    \A r \in Rows : (r \in raw) ~> (Reported(r) \/ r \in late \/ r \notin raw)

(***************************************************************************)
(* A wiki whose first row comes between the builds of dim_wiki and         *)
(* fct_edits fails the relationships test once: unless some wiki of the    *)
(* facts has left raw, runs succeed again.                                 *)
(***************************************************************************)
RunsRecover ==
    <>[](Wikis(facts) \subseteq Wikis(raw)) => []<>(run = "success")

(***************************************************************************)
(* "Wiki code; foreign key to dim_wiki" (_marts.yml:48): it may be broken  *)
(* within a build, and the next build mends it.                            *)
(***************************************************************************)
ForeignKeyMended == []<>(Wikis(facts) \subseteq dim)

=============================================================================
