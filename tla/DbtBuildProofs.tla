---------------------------- MODULE DbtBuildProofs ----------------------------
(***************************************************************************)
(* Theorems about DbtBuild: for every set of rows, however many, and every *)
(* number of tries and faults.                                             *)
(***************************************************************************)
EXTENDS DbtBuild, TLAPS

------------------------------------------------------------------------------
(* The inductive invariant *)

\* A node is built only after what it waits for, and only within a run.
OrderInv ==
    /\ \A n \in Nodes : node[n] # "waiting" => \A m \in Above(n) : node[m] = "success"
    /\ run # "running" => node = Idle

\* A run is tried again only while it has tries left.
TriesInv == run = "retry" => attempt < Tries

\* What agg_edits_hourly does not count yet is within the reach of its look-back.
ReachInv == agg \subseteq facts /\ \A r \in facts \ agg : InAggWindow(r)

\* A row that fct_edits has not met can still be loaded, or is late or gone.
UnseenInv ==
    /\ unseen \subseteq raw \cup expired
    /\ \A r \in unseen : r \in late \/ InFactWindow(r)

\* What the nodes of this attempt have left behind.
NodeInv ==
    /\ AggMatchesFacts
    /\ \A t \in DailyTables : node[t] = "success" => daily[t] = facts
    /\ node["relationships"] = "success" => Wikis(facts) \subseteq dim

DInv ==
    /\ TypeOK /\ TriesInv /\ OrderInv /\ ReachInv /\ UnseenInv /\ NodeInv
    /\ RowsAccounted /\ PassedIsConsistent

------------------------------------------------------------------------------
(* Rows and hours *)

LEMMA Bounds ==
    /\ \A r \in Rows : r.ts \in Nat
    /\ MaxDelay \in Nat /\ Retention \in Nat /\ Tries \in Nat /\ Tries >= 1
    /\ MaxTime \in Nat /\ MaxFaults \in Nat
BY DbtAssumption

LEMMA Hours ==
    ASSUME NEW r \in Rows
    PROVE  /\ HourOf(r) \in Nat
           /\ 2 * HourOf(r) <= r.ts /\ r.ts <= 2 * HourOf(r) + 1
<1>1. r.ts \in Nat
  BY Bounds
<1>2. \A n \in Nat : n \div 2 \in Nat /\ 2 * (n \div 2) <= n /\ n <= 2 * (n \div 2) + 1
  OBVIOUS
<1> QED
  BY <1>1, <1>2 DEF HourOf, Hour

\* What the facts let in, the look-back of the hourly table reaches.
LEMMA FactsWithinReach ==
    ASSUME TypeOK, agg \subseteq facts, NEW r \in Rows, InFactWindow(r)
    PROVE  InAggWindow(r)
<1> SUFFICES ASSUME NEW q \in agg PROVE r.ts >= Hour * HourOf(q) - 2 * Hour
  BY DEF InAggWindow
<1>1. q \in Rows /\ q \in facts
  BY DEF TypeOK, TablesTypeOK
<1>2. r.ts > q.ts - 2
  BY <1>1 DEF InFactWindow, Hour
<1> QED
  BY <1>1, <1>2, Hours, Bounds DEF Hour

\* The look-back takes whole hours: a group is within it or not.
LEMMA WholeGroups ==
    ASSUME TypeOK, NEW r \in Rows, NEW q \in Rows, SameGroup(r, q), InAggWindow(q)
    PROVE  InAggWindow(r)
<1> SUFFICES ASSUME NEW a \in agg PROVE r.ts >= Hour * HourOf(a) - 2 * Hour
  BY DEF InAggWindow
<1>1. a \in Rows
  BY DEF TypeOK, TablesTypeOK
<1>2. q.ts >= 2 * HourOf(a) - 4
  BY DEF InAggWindow, Hour
<1>3. HourOf(r) = HourOf(q)
  BY DEF SameGroup
<1> QED
  BY <1>1, <1>2, <1>3, Hours, Bounds DEF Hour

\* One merge brings agg_edits_hourly up to the facts.
LEMMA MergeCatchesUp ==
    ASSUME TypeOK, ReachInv, BuildAgg
    PROVE  agg' = facts
<1> DEFINE window == {r \in facts : InAggWindow(r)}
<1>1. agg' = window \cup {r \in agg : \A q \in window : ~SameGroup(r, q)}
  BY DEF BuildAgg
<1>2. facts \subseteq Rows /\ agg \subseteq facts
  BY DEF TypeOK, TablesTypeOK, ReachInv
<1>3. ASSUME NEW r \in facts PROVE r \in agg'
  <2>1. CASE InAggWindow(r)
    BY <1>1, <2>1
  <2>2. CASE ~InAggWindow(r)
    <3>1. r \in agg
      BY <2>2 DEF ReachInv
    <3>2. \A q \in window : ~SameGroup(r, q)
      BY <1>2, <2>2, WholeGroups
    <3> QED
      BY <1>1, <3>1, <3>2
  <2> QED
    BY <2>1, <2>2
<1> QED
  BY <1>1, <1>2, <1>3

LEMMA AboveNodes ==
    /\ Above("dim_wiki") = {"stg_recentchange"} /\ Above("fct_edits") = {"stg_recentchange"}
    /\ Above("relationships") = {"dim_wiki", "fct_edits"}
    /\ \A n \in Aggregates : Above(n) = {"fct_edits"}
    /\ "agg_edits_hourly" \in Aggregates /\ DailyTables \subseteq Aggregates
    /\ Aggregates \subseteq Nodes
    /\ {"stg_recentchange", "dim_wiki", "fct_edits", "relationships"} \subseteq Nodes
    /\ "agg_edits_hourly" \notin DailyTables
    /\ \A n \in Aggregates : n \notin {"stg_recentchange", "dim_wiki", "fct_edits",
                                       "relationships"}
BY DEF Above, Aggregates, DailyTables, Nodes

------------------------------------------------------------------------------
(* What the nodes have in common *)

LEMMA AboveIsNodes == \A n \in Nodes : Above(n) \subseteq Nodes
BY AboveNodes DEF Above, Nodes, Aggregates, DailyTables

LEMMA SufferType ==
    ASSUME TypeOK, NEW k, Suffer(k)
    PROVE  faults' \in 0 .. MaxFaults
BY Bounds DEF Suffer, TypeOK, HistoryTypeOK

LEMMA EndedType ==
    ASSUME TypeOK, NEW n \in Nodes, Ended(n)
    PROVE  /\ node' \in [Nodes -> {"waiting", "success", "error"}]
           /\ node'[n] # "waiting"
           /\ \A m \in Nodes \ {n} : node'[m] = node[m]
           /\ faults' \in 0 .. MaxFaults
<1>1. /\ node' \in [Nodes -> {"waiting", "success", "error"}]
      /\ node'[n] # "waiting"
      /\ \A m \in Nodes \ {n} : node'[m] = node[m]
  BY DEF Ended, TypeOK, RunTypeOK
<1>2. faults' \in 0 .. MaxFaults
  BY SufferType DEF Ended, TypeOK, HistoryTypeOK
<1> QED
  BY <1>1, <1>2

\* A node that is built when it is ready keeps the order of the graph.
LEMMA OrderKept ==
    ASSUME DInv, NEW n \in Nodes, Ready(n), run' = run,
           node' \in [Nodes -> {"waiting", "success", "error"}],
           \A m \in Nodes \ {n} : node'[m] = node[m]
    PROVE  OrderInv'
<1>1. ASSUME NEW m \in Nodes, node'[m] # "waiting", NEW k \in Above(m)
      PROVE  node'[k] = "success"
  <2>1. k \in Nodes
    BY AboveIsNodes
  <2>2. node[k] = "success"
    BY <1>1 DEF DInv, OrderInv, Ready
  <2> QED
    BY <2>1, <2>2 DEF Ready
<1>2. run' = "running"
  BY DEF Ready
<1> QED
  BY <1>1, <1>2 DEF OrderInv

\* While a node waits, so does all that waits for it.
LEMMA BelowWaits ==
    ASSUME DInv, NEW n \in Nodes, NEW m \in Above(n), node[m] # "success"
    PROVE  node[n] = "waiting"
BY DEF DInv, OrderInv

------------------------------------------------------------------------------
(* The raw table *)

LEMMA TickStep ==
    ASSUME DInv, Tick
    PROVE  DInv'
<1>1. TypeOK'
  BY Bounds DEF Tick, DInv, TypeOK, TablesTypeOK, RunTypeOK, HistoryTypeOK, marts, dag, history
<1> QED
  BY <1>1 DEF Tick, DInv, TriesInv, OrderInv, ReachInv, UnseenInv, NodeInv, RowsAccounted,
              PassedIsConsistent, AggMatchesFacts, InAggWindow, InFactWindow, marts, dag,
              history

LEMMA ArriveStep ==
    ASSUME DInv, NEW r \in Rows, Arrive(r)
    PROVE  DInv'
<1>1. TypeOK'
  BY DEF Arrive, DInv, TypeOK, TablesTypeOK, RunTypeOK, HistoryTypeOK, marts, dag
<1>2. OrderInv' /\ ReachInv' /\ NodeInv' /\ PassedIsConsistent' /\ TriesInv'
  BY DEF Arrive, DInv, TriesInv, OrderInv, ReachInv, NodeInv, PassedIsConsistent, AggMatchesFacts,
         InAggWindow, marts, dag
<1>3. UnseenInv'
  <2>1. r \in late' \/ InFactWindow(r)
    <3>1. facts \subseteq Rows
      BY DEF DInv, TypeOK, TablesTypeOK
    <3>2. CASE \E q \in facts : q.ts - r.ts >= Hour
      BY <3>2 DEF Arrive
    <3>3. CASE ~\E q \in facts : q.ts - r.ts >= Hour
      BY <3>1, <3>3, Bounds DEF InFactWindow, Hour
    <3> QED
      BY <3>2, <3>3
  <2>2. late \subseteq late' /\ UNCHANGED <<facts, expired>>
    BY DEF Arrive, marts
  <2> QED
    BY <2>1, <2>2 DEF Arrive, DInv, UnseenInv, InFactWindow
<1>4. RowsAccounted'
  BY DEF Arrive, DInv, RowsAccounted, marts
<1> QED
  BY <1>1, <1>2, <1>3, <1>4 DEF DInv

LEMMA PurgeStep ==
    ASSUME DInv, Purge
    PROVE  DInv'
<1>0. PICK cutoff \in 1 .. clock - Retention :
          /\ raw' = raw \ {r \in raw : r.ts < cutoff}
          /\ expired' = expired \cup ({r \in raw : r.ts < cutoff} \cap unseen)
          /\ UNCHANGED <<clock, marts, dag, arrived, unseen, late, faults>>
  BY DEF Purge
<1>1. TypeOK'
  BY <1>0 DEF DInv, TypeOK, TablesTypeOK, RunTypeOK, HistoryTypeOK, marts, dag
<1>2. OrderInv' /\ ReachInv' /\ NodeInv' /\ PassedIsConsistent' /\ TriesInv'
  BY <1>0 DEF DInv, TriesInv, OrderInv, ReachInv, NodeInv, PassedIsConsistent, AggMatchesFacts,
              InAggWindow, marts, dag
<1>3. UnseenInv' /\ RowsAccounted'
  BY <1>0 DEF DInv, UnseenInv, RowsAccounted, InFactWindow, marts
<1> QED
  BY <1>1, <1>2, <1>3 DEF DInv

------------------------------------------------------------------------------
(* The DAG *)

\* Only the run changes, and it does not succeed.
LEMMA RunStep ==
    ASSUME DInv, UNCHANGED <<clock, raw, marts, history>>,
           run' \in {"running", "retry", "failed"}, node' = Idle,
           attempt' \in 1 .. Tries, faults' \in 0 .. MaxFaults,
           run' = "retry" => attempt' < Tries
    PROVE  DInv'
<1>0. Idle \in [Nodes -> {"waiting", "success", "error"}] /\ \A n \in Nodes : Idle[n] = "waiting"
  BY DEF Idle
<1>1. TypeOK'
  BY <1>0 DEF DInv, TypeOK, TablesTypeOK, RunTypeOK, HistoryTypeOK, marts, history
<1>2. OrderInv' /\ NodeInv' /\ PassedIsConsistent' /\ TriesInv'
  BY <1>0, AboveNodes DEF TriesInv, OrderInv, NodeInv, AggMatchesFacts, PassedIsConsistent
<1>3. ReachInv' /\ UnseenInv' /\ RowsAccounted'
  BY DEF DInv, ReachInv, UnseenInv, RowsAccounted, InAggWindow, InFactWindow, marts, history
<1> QED
  BY <1>1, <1>2, <1>3 DEF DInv

LEMMA FailType ==
    ASSUME TypeOK, Fail
    PROVE  run' \in {"retry", "failed"} /\ node' = Idle
BY DEF Fail

LEMMA BeginStep ==
    ASSUME DInv, Begin
    PROVE  DInv'
<1>1. node' = Idle /\ run' = "running"
  BY DEF Begin, DInv, OrderInv
<1>2. attempt' \in 1 .. Tries
  <2>1. CASE run = "retry"
    <3>1. attempt \in 1 .. Tries
      BY DEF DInv, TypeOK, RunTypeOK
    <3>2. attempt < Tries
      BY <2>1 DEF DInv, TriesInv
    <3> QED
      BY <2>1, <3>1, <3>2, Bounds DEF Begin
  <2>2. CASE run # "retry"
    BY <2>2, Bounds DEF Begin
  <2> QED
    BY <2>1, <2>2
<1> QED
  BY <1>1, <1>2, RunStep DEF Begin, DInv, TypeOK, HistoryTypeOK

LEMMA EndStep ==
    ASSUME DInv, End
    PROVE  DInv'
<1>1. CASE Fail
  <2>1. run' = "retry" => attempt < Tries
    BY <1>1 DEF Fail
  <2> QED
    BY <1>1, <2>1, RunStep DEF End, Fail, DInv, TypeOK, RunTypeOK, HistoryTypeOK
<1>2. CASE (\A n \in Nodes : node[n] = "success") /\ run' = "success" /\ node' = Idle
  <2>0. /\ Idle \in [Nodes -> {"waiting", "success", "error"}]
        /\ \A n \in Nodes : Idle[n] = "waiting"
    BY DEF Idle
  <2>a. UNCHANGED <<clock, raw, dim, facts, agg, daily, attempt, arrived, unseen, late,
                    expired, faults>>
    BY DEF End, marts, history
  <2>1. TypeOK' /\ TriesInv'
    BY <1>2, <2>0, <2>a DEF DInv, TypeOK, TablesTypeOK, RunTypeOK, HistoryTypeOK, TriesInv
  <2>2. OrderInv' /\ NodeInv'
    BY <1>2, <2>0, AboveNodes DEF OrderInv, NodeInv, AggMatchesFacts
  <2>3. PassedIsConsistent'
    BY <1>2, <2>a, AboveNodes DEF DInv, NodeInv, AggMatchesFacts, PassedIsConsistent
  <2>4. ReachInv' /\ UnseenInv' /\ RowsAccounted'
    BY <2>a DEF DInv, ReachInv, UnseenInv, RowsAccounted, InAggWindow, InFactWindow
  <2> QED
    BY <2>1, <2>2, <2>3, <2>4 DEF DInv
<1> QED
  BY <1>1, <1>2 DEF End

LEMMA CrashStep ==
    ASSUME DInv, Crash
    PROVE  DInv'
<1>0. TypeOK
  BY DEF DInv
<1>1. run' = "retry" => attempt < Tries
  BY DEF Crash, Fail
<1> QED
  BY <1>0, <1>1, SufferType, RunStep DEF Crash, Fail, DInv, TypeOK, RunTypeOK

------------------------------------------------------------------------------
(* The nodes *)

\* A node that leaves the tables alone, or is not the last word on them.
LEMMA NodeStep ==
    ASSUME DInv, NEW n \in Nodes, Ready(n),
           n \in Aggregates => node'[n] # "success",
           n = "relationships" /\ node'[n] = "success" => Wikis(facts) \subseteq dim,
           node' \in [Nodes -> {"waiting", "success", "error"}],
           \A m \in Nodes \ {n} : node'[m] = node[m],
           faults' \in 0 .. MaxFaults,
           UNCHANGED <<clock, raw, marts, run, attempt, history>>
    PROVE  DInv'
<1>1. TypeOK'
  BY DEF DInv, TypeOK, TablesTypeOK, RunTypeOK, HistoryTypeOK, marts, history
<1>2. OrderInv'
  BY OrderKept
<1>3. NodeInv'
  BY AboveNodes DEF DInv, NodeInv, AggMatchesFacts, marts
<1>4. TriesInv' /\ ReachInv' /\ UnseenInv' /\ RowsAccounted' /\ PassedIsConsistent'
  BY DEF DInv, TriesInv, ReachInv, UnseenInv, RowsAccounted, PassedIsConsistent,
         InAggWindow, InFactWindow, marts, history
<1> QED
  BY <1>1, <1>2, <1>3, <1>4 DEF DInv

LEMMA BuildDimStep ==
    ASSUME DInv, BuildDim
    PROVE  DInv'
<1> DEFINE n == "dim_wiki"
<1>0. TypeOK /\ n \in Nodes /\ Ready(n) /\ Ended(n)
  BY AboveNodes DEF DInv, BuildDim
<1>a. /\ dim' = Wikis(raw)
      /\ UNCHANGED <<clock, raw, facts, agg, daily, run, attempt, arrived, unseen, late,
                     expired>>
  BY DEF BuildDim, history
<1>b. /\ node' \in [Nodes -> {"waiting", "success", "error"}]
      /\ \A m \in Nodes \ {n} : node'[m] = node[m]
      /\ faults' \in 0 .. MaxFaults
  BY <1>0, EndedType
<1>1. TypeOK'
  BY <1>a, <1>b DEF DInv, TypeOK, TablesTypeOK, RunTypeOK, HistoryTypeOK, Wikis
<1>2. OrderInv'
  BY <1>0, <1>a, <1>b, OrderKept
<1>3. NodeInv'
  <2>1. node'["relationships"] = "waiting"
    BY <1>0, <1>b, AboveNodes, BelowWaits DEF Ready
  <2> QED
    BY <1>0, <1>a, <1>b, <2>1, AboveNodes DEF DInv, NodeInv, AggMatchesFacts
<1>4. TriesInv' /\ ReachInv' /\ UnseenInv' /\ RowsAccounted' /\ PassedIsConsistent'
  BY <1>0, <1>a DEF DInv, TriesInv, ReachInv, UnseenInv, RowsAccounted, PassedIsConsistent,
         InAggWindow, InFactWindow, Ready
<1> QED
  BY <1>1, <1>2, <1>3, <1>4 DEF DInv

LEMMA BuildFactsStep ==
    ASSUME DInv, BuildFacts
    PROVE  DInv'
<1> DEFINE n == "fct_edits"
<1>0. TypeOK /\ n \in Nodes /\ Ready(n) /\ Ended(n)
  BY AboveNodes DEF DInv, BuildFacts
<1>a. /\ facts' = facts \cup {r \in raw : InFactWindow(r)} /\ unseen' = {}
      /\ UNCHANGED <<clock, raw, dim, agg, daily, run, attempt, arrived, late, expired>>
  BY DEF BuildFacts
<1>b. /\ node' \in [Nodes -> {"waiting", "success", "error"}]
      /\ \A m \in Nodes \ {n} : node'[m] = node[m]
      /\ faults' \in 0 .. MaxFaults
  BY <1>0, EndedType
<1>1. TypeOK'
  BY <1>a, <1>b DEF DInv, TypeOK, TablesTypeOK, RunTypeOK, HistoryTypeOK
<1>2. OrderInv'
  BY <1>0, <1>a, <1>b, OrderKept
<1>3. NodeInv'
  <2>1. \A m \in Aggregates \cup {"relationships"} : node'[m] = "waiting"
    BY <1>0, <1>b, AboveNodes, BelowWaits DEF Ready
  <2> QED
    BY <2>1, AboveNodes DEF NodeInv, AggMatchesFacts
<1>4. ReachInv'
  <2>1. raw \subseteq Rows /\ agg \subseteq facts
    BY <1>0 DEF DInv, TypeOK, TablesTypeOK, ReachInv
  <2>2. \A r \in facts' \ agg : InAggWindow(r)
    BY <1>0, <1>a, <2>1, FactsWithinReach DEF DInv, ReachInv
  <2> QED
    BY <1>a, <2>1, <2>2 DEF ReachInv, InAggWindow
<1>5. RowsAccounted'
  BY <1>a DEF DInv, RowsAccounted, UnseenInv
<1>6. TriesInv' /\ UnseenInv' /\ PassedIsConsistent'
  BY <1>0, <1>a DEF DInv, TriesInv, UnseenInv, PassedIsConsistent, Ready
<1> QED
  BY <1>1, <1>2, <1>3, <1>4, <1>5, <1>6 DEF DInv

LEMMA BuildAggStep ==
    ASSUME DInv, BuildAgg
    PROVE  DInv'
<1> DEFINE n == "agg_edits_hourly"
<1>0. TypeOK /\ n \in Nodes /\ Ready(n) /\ Ended(n)
  BY AboveNodes DEF DInv, BuildAgg
<1>a. /\ agg' = facts
      /\ UNCHANGED <<clock, raw, dim, facts, daily, run, attempt, arrived, unseen, late,
                     expired>>
  BY <1>0, MergeCatchesUp DEF DInv, BuildAgg, history
<1>b. /\ node' \in [Nodes -> {"waiting", "success", "error"}]
      /\ \A m \in Nodes \ {n} : node'[m] = node[m]
      /\ faults' \in 0 .. MaxFaults
  BY <1>0, EndedType
<1>1. TypeOK'
  BY <1>a, <1>b DEF DInv, TypeOK, TablesTypeOK, RunTypeOK, HistoryTypeOK
<1>2. OrderInv'
  BY <1>0, <1>a, <1>b, OrderKept
<1>3. NodeInv'
  BY <1>a, <1>b, AboveNodes DEF DInv, NodeInv, AggMatchesFacts
<1>4. ReachInv' /\ UnseenInv' /\ RowsAccounted'
  BY <1>a DEF DInv, ReachInv, UnseenInv, RowsAccounted, InFactWindow
<1>5. TriesInv' /\ PassedIsConsistent'
  BY <1>0, <1>a DEF DInv, TriesInv, PassedIsConsistent, Ready
<1> QED
  BY <1>1, <1>2, <1>3, <1>4, <1>5 DEF DInv

LEMMA BuildDailyStep ==
    ASSUME DInv, NEW t \in DailyTables, BuildDaily(t)
    PROVE  DInv'
<1>0. TypeOK /\ t \in Nodes /\ Ready(t) /\ Ended(t)
  BY AboveNodes DEF DInv, BuildDaily
<1>a. /\ daily' = [daily EXCEPT ![t] = facts]
      /\ UNCHANGED <<clock, raw, dim, facts, agg, run, attempt, arrived, unseen, late,
                     expired>>
  BY DEF BuildDaily, history
<1>b. /\ node' \in [Nodes -> {"waiting", "success", "error"}]
      /\ \A m \in Nodes \ {t} : node'[m] = node[m]
      /\ faults' \in 0 .. MaxFaults
  BY <1>0, EndedType
<1>c. daily'[t] = facts /\ \A u \in DailyTables \ {t} : daily'[u] = daily[u]
  BY <1>0, <1>a DEF TypeOK, TablesTypeOK
<1>1. TypeOK'
  BY <1>a, <1>b DEF DInv, TypeOK, TablesTypeOK, RunTypeOK, HistoryTypeOK
<1>2. OrderInv'
  BY <1>0, <1>a, <1>b, OrderKept
<1>3. NodeInv'
  BY <1>a, <1>b, <1>c, AboveNodes DEF DInv, NodeInv, AggMatchesFacts
<1>4. ReachInv' /\ UnseenInv' /\ RowsAccounted'
  BY <1>a DEF DInv, ReachInv, UnseenInv, RowsAccounted, InAggWindow, InFactWindow
<1>5. TriesInv' /\ PassedIsConsistent'
  BY <1>0, <1>a DEF DInv, TriesInv, PassedIsConsistent, Ready
<1> QED
  BY <1>1, <1>2, <1>3, <1>4, <1>5 DEF DInv

------------------------------------------------------------------------------
(* Every step *)

LEMMA DInvStep == DInv /\ [Next]_vars => DInv'
<1> SUFFICES ASSUME DInv, [Next]_vars PROVE DInv'
  OBVIOUS
<1>0. TypeOK
  BY DEF DInv
<1>1. CASE UNCHANGED vars
  BY <1>1 DEF vars, marts, dag, history, DInv, TypeOK, TablesTypeOK, RunTypeOK, HistoryTypeOK,
              TriesInv, OrderInv, ReachInv, UnseenInv, NodeInv, RowsAccounted,
              PassedIsConsistent, AggMatchesFacts, InAggWindow, InFactWindow
<1>2. CASE Tick
  BY <1>2, TickStep
<1>3. CASE Purge
  BY <1>3, PurgeStep
<1>4. ASSUME NEW r \in Rows, Arrive(r) PROVE DInv'
  BY <1>4, ArriveStep
<1>5. CASE Begin
  BY <1>5, BeginStep
<1>6. CASE End
  BY <1>6, EndStep
<1>7. CASE BuildStaging
  BY <1>0, <1>7, AboveNodes, EndedType, NodeStep DEF BuildStaging
<1>8. CASE BuildDim
  BY <1>8, BuildDimStep
<1>9. CASE BuildFacts
  BY <1>9, BuildFactsStep
<1>10. CASE BuildAgg
  BY <1>10, BuildAggStep
<1>11. CASE TestRelationships
  <2>1. /\ node' \in [Nodes -> {"waiting", "success", "error"}]
        /\ node'["relationships"] = "success" => Wikis(facts) \subseteq dim
        /\ \A m \in Nodes \ {"relationships"} : node'[m] = node[m]
    BY <1>0, <1>11, AboveNodes DEF TestRelationships, TypeOK, RunTypeOK
  <2> QED
    BY <1>0, <1>11, <2>1, AboveNodes, NodeStep DEF TestRelationships, TypeOK, HistoryTypeOK
<1>12. ASSUME NEW t \in DailyTables, BuildDaily(t) PROVE DInv'
  BY <1>12, BuildDailyStep
<1>13. CASE Crash
  BY <1>13, CrashStep
<1>14. ASSUME NEW n \in Nodes, BuildError(n) PROVE DInv'
  <2>1. /\ node' \in [Nodes -> {"waiting", "success", "error"}] /\ node'[n] = "error"
        /\ \A m \in Nodes \ {n} : node'[m] = node[m]
        /\ faults' \in 0 .. MaxFaults
    BY <1>0, <1>14, SufferType DEF BuildError, TypeOK, RunTypeOK
  <2> QED
    BY <1>14, <2>1, NodeStep DEF BuildError
<1> QED
  BY <1>1, <1>2, <1>3, <1>4, <1>5, <1>6, <1>7, <1>8, <1>9, <1>10, <1>11, <1>12, <1>13, <1>14
     DEF Next, Build

LEMMA DInvInit == Init => DInv
<1> SUFFICES ASSUME Init PROVE DInv
  OBVIOUS
<1>0. /\ Idle \in [Nodes -> {"waiting", "success", "error"}]
      /\ \A n \in Nodes : Idle[n] = "waiting"
  BY DEF Idle
<1>1. TypeOK
  BY <1>0, Bounds DEF Init, TypeOK, TablesTypeOK, RunTypeOK, HistoryTypeOK, Wikis
<1>2. TriesInv /\ OrderInv /\ NodeInv /\ PassedIsConsistent
  BY <1>0, AboveNodes DEF Init, TriesInv, OrderInv, NodeInv, AggMatchesFacts,
                          PassedIsConsistent
<1>3. ReachInv /\ UnseenInv /\ RowsAccounted
  BY DEF Init, ReachInv, UnseenInv, RowsAccounted
<1> QED
  BY <1>1, <1>2, <1>3 DEF DInv

LEMMA DInvHolds == Spec => []DInv
BY DInvInit, DInvStep, PTL DEF Spec

------------------------------------------------------------------------------
(* Theorems *)

(***************************************************************************)
(* The variables keep their types.                                         *)
(***************************************************************************)
THEOREM TypeCorrect == Spec => []TypeOK
<1>1. DInv => TypeOK
  BY DEF DInv
<1> QED
  BY <1>1, DInvHolds, PTL

(***************************************************************************)
(* The look-back of fct_edits loses late rows and nothing else.            *)
(***************************************************************************)
THEOREM OnlyLateRowsLost == Spec => []RowsAccounted
<1>1. DInv => RowsAccounted
  BY DEF DInv
<1> QED
  BY <1>1, DInvHolds, PTL

(***************************************************************************)
(* The look-back of agg_edits_hourly covers whatever fct_edits lets in,    *)
(* however many builds loaded facts and did not get to it.                 *)
(***************************************************************************)
THEOREM HourlyTableExact == Spec => []AggMatchesFacts
<1>1. DInv => AggMatchesFacts
  BY DEF DInv, NodeInv
<1> QED
  BY <1>1, DInvHolds, PTL

(***************************************************************************)
(* After a successful run the marts agree with each other.                 *)
(***************************************************************************)
THEOREM SuccessIsConsistent == Spec => []PassedIsConsistent
<1>1. DInv => PassedIsConsistent
  BY DEF DInv
<1> QED
  BY <1>1, DInvHolds, PTL

------------------------------------------------------------------------------
(* How late is late *)

\* No row is of the future, and none has come late.
InTimeInv ==
    /\ late = {}
    /\ \A r \in raw \cup facts : r.ts <= clock

LEMMA InTimeStep ==
    ASSUME MaxDelay < Hour, TypeOK, InTimeInv, [Next]_vars
    PROVE  InTimeInv'
<1>1. CASE Tick
  BY <1>1, Bounds DEF Tick, marts, history, InTimeInv, TypeOK, TablesTypeOK
<1>2. CASE Purge
  BY <1>2 DEF Purge, marts, InTimeInv
<1>3. ASSUME NEW r \in Rows, Arrive(r) PROVE InTimeInv'
  <2>1. ASSUME NEW q \in facts PROVE ~(q.ts - r.ts >= Hour)
    <3>1. q.ts \in Nat /\ r.ts \in Nat /\ clock \in Nat /\ MaxDelay \in Nat
      BY Bounds DEF TypeOK, TablesTypeOK
    <3>2. q.ts <= clock /\ clock <= r.ts + MaxDelay
      BY <1>3 DEF Arrive, InTimeInv
    <3> QED
      BY <3>1, <3>2 DEF Hour
  <2>2. late' = {}
    BY <1>3, <2>1 DEF Arrive, InTimeInv
  <2> QED
    BY <1>3, <2>2 DEF Arrive, marts, InTimeInv
<1>4. CASE BuildFacts
  BY <1>4 DEF BuildFacts, InTimeInv
<1>5. CASE UNCHANGED <<clock, raw, facts, late>>
  BY <1>5 DEF InTimeInv
<1> QED
  BY <1>1, <1>2, <1>3, <1>4, <1>5
     DEF Next, Build, Begin, End, BuildStaging, BuildDim, BuildAgg, TestRelationships, BuildDaily,
         Crash, BuildError, vars, marts, history

(***************************************************************************)
(* The one hour that fct_edits looks back is enough for a consumer that is *)
(* less than an hour behind (fct_edits.sql:30): every row that ever was in *)
(* raw is a fact, unless fct_edits has not been built since it came.       *)
(***************************************************************************)
THEOREM InTimeIsNeverLost ==
    ASSUME MaxDelay < Hour
    PROVE  Spec => [](arrived \subseteq facts \cup unseen \cup expired)
<1>1. Init => InTimeInv
  BY DEF Init, InTimeInv
<1>2. TypeOK /\ InTimeInv /\ [Next]_vars => InTimeInv'
  BY InTimeStep
<1>3. DInv => TypeOK
  BY DEF DInv
<1>4. DInv /\ InTimeInv => arrived \subseteq facts \cup unseen \cup expired
  BY DEF DInv, RowsAccounted, InTimeInv
<1> QED
  BY <1>1, <1>2, <1>3, <1>4, DInvHolds, PTL DEF Spec

=============================================================================
