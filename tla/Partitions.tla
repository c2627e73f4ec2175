------------------------------ MODULE Partitions ------------------------------
(***************************************************************************)
(* The daily partitions of raw.recentchange: the consumer writes rows, the *)
(* Airflow DAG maintenance_daily creates the partitions of the next days   *)
(* and drops those older than RETENTION_DAYS (airflow/lib, sql/init).      *)
(*                                                                         *)
(* A day is named by its age: 0 is today, -1 tomorrow, 1 yesterday.  When  *)
(* a day passes every age grows by one; ages from Oldest on are one, for   *)
(* nothing tells them apart any more.  So the calendar has no end.         *)
(***************************************************************************)
EXTENDS Integers

CONSTANTS
    DaysAhead,      \* days_ahead of create_raw_partitions
    Retention,      \* RETENTION_DAYS
    MaxLag,         \* how many days late the consumer may write a row
    Faults,         \* the kinds of fault this instance admits
    MaxFaults       \* bound: how many faults a behaviour has

(***************************************************************************)
(* "airflow": a day passes before the DAG has run.  "failure": a task     *)
(* raises because the database does.                                       *)
(***************************************************************************)
FaultKinds == {"airflow", "failure"}

ASSUME PartitionsAssumption ==
    /\ DaysAhead \in Nat \ {0}
    /\ Retention \in Nat \ {0}
    /\ MaxLag \in 0 .. Retention
    /\ Faults \subseteq FaultKinds
    /\ MaxFaults \in Nat

Oldest == Retention + 2

Ages == - DaysAhead .. Oldest

VARIABLES
    \* Postgres
    daily,          \* the days that have a partition of their own
    filled,         \* the days with rows in that partition
    stray,          \* the days with rows in recentchange_default
    \* Airflow
    schedule,       \* "due" when the interval of a run has passed
    task,           \* the task of the run that is on, "none" between runs
    attempt,        \* which try of it this is
    \* history, read by the properties only
    since,          \* days since partitions were last created, at most Expired
    faults          \* how many faults there have been

tables == <<daily, filled, stray>>
run    == <<task, attempt>>
vars   == <<tables, schedule, run, since, faults>>

Tasks == {"none", "create", "drop", "vacuum", "dq"}

Expired == DaysAhead + 1        \* by now even the last day created is past

TypeOK ==
    /\ daily \subseteq Ages /\ filled \subseteq daily /\ stray \subseteq Ages
    /\ schedule \in {"idle", "due"}
    /\ task \in Tasks /\ attempt \in {1, 2}
    /\ since \in 0 .. Expired
    /\ faults \in 0 .. MaxFaults

------------------------------------------------------------------------------
(* Vocabulary *)

Older(a) == IF a < Oldest THEN a + 1 ELSE Oldest

Shift(days) == {Older(a) : a \in days}              \* one day later

\* Faulty: range(days_ahead) without the + 1.
PartitionsToCreateShort == - (DaysAhead - 1) .. 0

\* partitions_to_create: today .. today + days_ahead
PartitionsToCreate == - DaysAhead .. 0

\* Faulty: the cutoff day is dropped too.
ShouldDropCutoff(a) == a >= Retention

\* Faulty: the cutoff is a day late.
ShouldDropLate(a) == a > Retention + 1

\* should_drop_partition: strictly before today - retention_days
ShouldDrop(a) == a > Retention

\* A partition cannot be attached while the default one holds rows of its day.
Blocked == \E a \in PartitionsToCreate \ daily : a \in stray

Suffer(k) == k \in Faults /\ faults < MaxFaults /\ faults' = faults + 1

------------------------------------------------------------------------------
(* Rows and days *)

\* 001_raw.sql: the default partition and today .. today + 3, as many days as the
\* DAG creates; the DAG's first interval has long passed.
Init ==
    /\ daily = - DaysAhead .. 0 /\ filled = {} /\ stray = {}
    /\ schedule = "due"
    /\ task = "none" /\ attempt = 1
    /\ since = 0 /\ faults = 0

\* The consumer writes a row: Postgres routes it by its event_ts.
Insert(a) ==
    /\ \/ a \in daily /\ filled' = filled \cup {a} /\ UNCHANGED stray
       \/ a \notin daily /\ stray' = stray \cup {a} /\ UNCHANGED filled
    /\ UNCHANGED <<daily, schedule, run, since, faults>>

\* Midnight.  With catchup=False a run that is still waiting is not doubled.
NewDay ==
    /\ \/ schedule = "idle" /\ task = "none" /\ UNCHANGED faults
       \/ (schedule = "due" \/ task # "none") /\ Suffer("airflow")
    /\ daily' = Shift(daily) /\ filled' = Shift(filled) /\ stray' = Shift(stray)
    /\ schedule' = "due"
    /\ since' = IF since < Expired THEN since + 1 ELSE Expired
    /\ UNCHANGED run

------------------------------------------------------------------------------
(* maintenance_daily *)

\* max_active_runs=1: the next run waits for the one that is on.
Begin ==
    /\ schedule = "due" /\ task = "none"
    /\ schedule' = "idle" /\ task' = "create" /\ attempt' = 1
    /\ UNCHANGED <<tables, since, faults>>

Succeed(next) == task' = next /\ attempt' = 1

\* Faulty: the number of retries is unlimited.
FailForever == attempt' = attempt + 1 /\ UNCHANGED task

\* retries=1: a second failure ends the run, what is downstream never starts.
Fail ==
    \/ attempt = 1 /\ attempt' = 2 /\ UNCHANGED task
    \/ attempt = 2 /\ attempt' = 1 /\ task' = "none"

\* CREATE TABLE IF NOT EXISTS for each day, in one transaction.
Create ==
    /\ ~Blocked
    /\ daily' = daily \cup PartitionsToCreate
    /\ since' = 0
    /\ UNCHANGED <<filled, stray>>

CreateRawPartitions ==
    /\ task = "create" /\ Create
    /\ Succeed("drop")
    /\ UNCHANGED <<schedule, faults>>

\* The constraint of the default partition would be violated: all is rolled back.
CreateBlocked ==
    /\ task = "create" /\ Blocked
    /\ Fail
    /\ UNCHANGED <<tables, schedule, since, faults>>

\* The connection breaks, before the transaction commits or after.
CreateError ==
    /\ task = "create" /\ Suffer("failure")
    /\ Create \/ UNCHANGED <<tables, since>>
    /\ Fail
    /\ UNCHANGED schedule

\* DROP TABLE for each partition past the cutoff; the default one has no date.
Drop ==
    /\ daily' = {a \in daily : ~ShouldDrop(a)}
    /\ filled' = {a \in filled : ~ShouldDrop(a)}
    /\ UNCHANGED <<stray, since>>

DropOldPartitions ==
    /\ task = "drop" /\ Drop
    /\ Succeed("vacuum")
    /\ UNCHANGED <<schedule, faults>>

DropError ==
    /\ task = "drop" /\ Suffer("failure")
    /\ Drop \/ UNCHANGED <<tables, since>>
    /\ Fail
    /\ UNCHANGED schedule

VacuumMarts ==
    /\ task = "vacuum" /\ Succeed("dq")
    /\ UNCHANGED <<tables, schedule, since, faults>>

\* dq_freshness and dq_volume only read; whatever they find, the run is over.
DataQuality ==
    /\ task = "dq" /\ Succeed("none")
    /\ UNCHANGED <<tables, schedule, since, faults>>

VacuumError ==
    /\ task = "vacuum" /\ Suffer("failure")
    /\ Fail
    /\ UNCHANGED <<tables, schedule, since>>

------------------------------------------------------------------------------

Maintenance ==
    \/ Begin
    \/ CreateRawPartitions \/ CreateBlocked \/ CreateError
    \/ DropOldPartitions \/ DropError
    \/ VacuumMarts \/ VacuumError \/ DataQuality

Next == (\E a \in 0 .. MaxLag : Insert(a)) \/ NewDay \/ Maintenance

Spec == Init /\ [][Next]_vars

\* Days pass and Airflow goes on; rows and faults come as they like.
FairSpec == Spec /\ WF_vars(NewDay) /\ WF_vars(Maintenance)

------------------------------------------------------------------------------
(* Properties *)

(***************************************************************************)
(* Creation is ahead of the calendar: days_ahead days after the last       *)
(* successful create_partitions the rows of the day still have a partition *)
(* of their own, whatever failed since, and retention has not taken it.    *)
(***************************************************************************)
Covered == \A a \in Ages : since - DaysAhead <= a /\ a <= 0 => a \in daily

(***************************************************************************)
(* The days ahead bridge an outage: until days_ahead things have gone      *)
(* wrong, days without a run or failed tasks, no row of today or later is  *)
(* in the default partition, where it would block its day for ever.        *)
(***************************************************************************)
SurvivesOutage == faults < DaysAhead => \A a \in stray : a > 0

(***************************************************************************)
(* No row is lost within the window: a step of the calendar aside, what is *)
(* at most RETENTION_DAYS old stays, and stays where it is                 *)
(* (should_drop_partition, drop_old_partitions).                           *)
(***************************************************************************)
KeepsWindow ==
    [][\/ filled' = Shift(filled) /\ stray' = Shift(stray)
       \/ {a \in filled : a <= Retention} \subseteq filled' /\ stray \subseteq stray']_vars

(***************************************************************************)
(* Behind SurvivesOutage: each day since the last creation but the present *)
(* one has cost a fault, and the present one too once its first try failed.*)
(***************************************************************************)
MissedRuns ==
    faults < DaysAhead =>
        /\ since <= faults + 1
        /\ schedule = "idle" /\ task # "create" => since <= faults
        /\ task = "create" /\ attempt = 2 => since <= faults

IInv == TypeOK /\ Covered /\ SurvivesOutage /\ MissedRuns

(***************************************************************************)
(* Once rows of today or later no longer sit in the default partition,     *)
(* retention works: again and again no daily partition holds rows older    *)
(* than RETENTION_DAYS (docs/architecture.md:40), even if tasks fail.      *)
(***************************************************************************)
RetentionWorks ==
    <>[](\A a \in stray : a > 0) => []<>(\A a \in filled : a <= Retention)

(***************************************************************************)
(* "Airflow maintenance_daily creates partitions 3 days ahead and drops    *)
(* partitions older than RETENTION_DAYS" (docs/architecture.md:40): it     *)
(* never stops for good, whatever happened before.                         *)
(***************************************************************************)
MaintenanceResumes == []<>(task = "drop")

=============================================================================
