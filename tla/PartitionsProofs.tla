--------------------------- MODULE PartitionsProofs ---------------------------
(***************************************************************************)
(* Theorems about Partitions, for every number of days and every fault.    *)
(***************************************************************************)
EXTENDS Partitions, TLAPS

------------------------------------------------------------------------------
(* Ages *)

\* The constants as the proofs use them.
LEMMA Bounds ==
    /\ DaysAhead \in Nat /\ DaysAhead >= 1 /\ Retention \in Nat /\ Retention >= 1
    /\ MaxLag \in Nat /\ MaxLag <= Retention /\ MaxFaults \in Nat
    /\ Oldest = Retention + 2 /\ Expired = DaysAhead + 1
BY PartitionsAssumption DEF Oldest, Expired

\* A day later every age is still an age, and what was in the past stays there.
LEMMA OlderAge ==
    ASSUME NEW a \in Ages
    PROVE  Older(a) \in Ages /\ Older(a) >= a /\ (a <= 0 => Older(a) = a + 1)
BY Bounds DEF Older, Ages

LEMMA ShiftAges ==
    ASSUME NEW S, S \subseteq Ages
    PROVE  Shift(S) \subseteq Ages
BY OlderAge DEF Shift

LEMMA ToCreateAges == PartitionsToCreate \subseteq Ages
BY Bounds DEF PartitionsToCreate, Ages

------------------------------------------------------------------------------
(* The steps of a run that leave the tables alone, and a failing task *)

LEMMA FailType ==
    ASSUME TypeOK, Fail
    PROVE  attempt' \in {1, 2} /\ task' \in Tasks
BY DEF Fail, TypeOK, Tasks

LEMMA SufferType ==
    ASSUME TypeOK, NEW k, Suffer(k)
    PROVE  faults' \in 0 .. MaxFaults /\ faults' = faults + 1
BY Bounds DEF Suffer, TypeOK

\* What a transaction of create_partitions does to the tables.
LEMMA CreateType ==
    ASSUME TypeOK, Create
    PROVE  /\ daily' \subseteq Ages /\ filled' \subseteq daily' /\ stray' \subseteq Ages
           /\ since' \in 0 .. Expired
BY ToCreateAges, Bounds DEF Create, TypeOK

LEMMA DropType ==
    ASSUME TypeOK, Drop
    PROVE  /\ daily' \subseteq Ages /\ filled' \subseteq daily' /\ stray' \subseteq Ages
           /\ since' \in 0 .. Expired
BY DEF Drop, TypeOK

LEMMA TypeStep == TypeOK /\ [Next]_vars => TypeOK'
<1> SUFFICES ASSUME TypeOK, [Next]_vars PROVE TypeOK'
  OBVIOUS
<1>1. CASE UNCHANGED vars
  BY <1>1 DEF TypeOK, vars, tables, run
<1>2. CASE \E a \in 0 .. MaxLag : Insert(a)
  <2>1. PICK a \in 0 .. MaxLag : Insert(a)
    BY <1>2
  <2>2. a \in Ages
    BY Bounds DEF Ages
  <2> QED
    BY <2>1, <2>2 DEF Insert, TypeOK, run
<1>3. CASE NewDay
  <2>1. /\ daily' \subseteq Ages /\ stray' \subseteq Ages /\ filled' \subseteq daily'
    <3>1. daily' = Shift(daily) /\ filled' = Shift(filled) /\ stray' = Shift(stray)
      BY <1>3 DEF NewDay
    <3>2. Shift(filled) \subseteq Shift(daily)
      BY DEF TypeOK, Shift
    <3> QED
      BY <3>1, <3>2, ShiftAges DEF TypeOK
  <2>2. since' \in 0 .. Expired
    BY <1>3, Bounds DEF NewDay, TypeOK
  <2>3. faults' \in 0 .. MaxFaults
    BY <1>3, SufferType DEF NewDay, TypeOK
  <2> QED
    BY <1>3, <2>1, <2>2, <2>3 DEF NewDay, TypeOK, run
<1>4. CASE Begin
  BY <1>4 DEF Begin, TypeOK, tables, Tasks
<1>5. CASE CreateRawPartitions
  BY <1>5, CreateType DEF CreateRawPartitions, Succeed, TypeOK, Tasks
<1>6. CASE CreateBlocked
  BY <1>6, FailType DEF CreateBlocked, TypeOK, tables
<1>7. CASE CreateError
  BY <1>7, FailType, SufferType, CreateType DEF CreateError, TypeOK, tables
<1>8. CASE DropOldPartitions
  BY <1>8, DropType DEF DropOldPartitions, Succeed, TypeOK, Tasks
<1>9. CASE DropError
  BY <1>9, FailType, SufferType, DropType DEF DropError, TypeOK, tables
<1>10. CASE VacuumMarts
  BY <1>10 DEF VacuumMarts, Succeed, TypeOK, tables, Tasks
<1>11. CASE VacuumError
  BY <1>11, FailType, SufferType DEF VacuumError, TypeOK, tables
<1>12. CASE DataQuality
  BY <1>12 DEF DataQuality, Succeed, TypeOK, tables, Tasks
<1> QED
  BY <1>1, <1>2, <1>3, <1>4, <1>5, <1>6, <1>7, <1>8, <1>9, <1>10, <1>11, <1>12
  DEF Next, Maintenance

LEMMA TypeInit == Init => TypeOK
BY Bounds DEF Init, TypeOK, Ages, Tasks

\* The variables of Partitions keep their types, whatever the calendar does.
THEOREM TypeCorrect == Spec => []TypeOK
BY TypeInit, TypeStep, PTL DEF Spec

------------------------------------------------------------------------------
(* The days ahead *)

LEMMA CoveredStep == TypeOK /\ Covered /\ [Next]_vars => Covered'
<1> SUFFICES ASSUME TypeOK, Covered, [Next]_vars,
                    NEW a \in Ages, since' - DaysAhead <= a, a <= 0
             PROVE  a \in daily'
  BY DEF Covered
<1> USE Bounds
<1>1. since \in 0 .. Expired
  BY DEF TypeOK
<1>2. a \in - DaysAhead .. 0
  BY DEF Ages
<1>3. CASE UNCHANGED <<daily, since>>
  BY <1>3 DEF Covered
<1>4. CASE NewDay
  <2>1. since' = (IF since < Expired THEN since + 1 ELSE Expired) /\ daily' = Shift(daily)
    BY <1>4 DEF NewDay
  <2>2. since < Expired
    BY <2>1, <1>1, <1>2
  <2>3. a - 1 \in Ages /\ since - DaysAhead <= a - 1 /\ a - 1 <= 0
    BY <2>1, <2>2, <1>1, <1>2 DEF Ages
  <2>4. a - 1 \in daily
    BY <2>3 DEF Covered
  <2>5. Older(a - 1) = a
    BY <2>3, <1>2 DEF Older
  <2> QED
    BY <2>1, <2>4, <2>5 DEF Shift
<1>5. CASE Create
  BY <1>5, <1>2 DEF Create, PartitionsToCreate
<1>6. CASE Drop
  <2>1. a \in daily
    BY <1>6 DEF Drop, Covered
  <2> QED
    BY <1>6, <2>1, <1>2 DEF Drop, ShouldDrop
<1>7. NewDay \/ Create \/ Drop \/ UNCHANGED <<daily, since>>
  BY DEF Next, Maintenance, vars, tables, Insert, Begin, CreateRawPartitions, CreateBlocked,
         CreateError, DropOldPartitions, DropError, VacuumMarts, VacuumError, DataQuality
<1> QED
  BY <1>3, <1>4, <1>5, <1>6, <1>7

LEMMA CoveredInit == Init => Covered
BY Bounds DEF Init, Covered, Ages

\* Creation is ahead of the calendar: days_ahead days after the last successful
\* create_partitions the rows of the day still have a partition of their own.
THEOREM DaysAheadCovered == Spec => []Covered
<1>1. TypeOK /\ Covered /\ [Next]_vars => (TypeOK /\ Covered)'
  BY TypeStep, CoveredStep
<1> QED
  BY <1>1, TypeInit, CoveredInit, PTL DEF Spec

------------------------------------------------------------------------------
(* Retention *)

LEMMA WindowStep ==
    TypeOK /\ [Next]_vars =>
        \/ filled' = Shift(filled) /\ stray' = Shift(stray)
        \/ {a \in filled : a <= Retention} \subseteq filled' /\ stray \subseteq stray'
<1> SUFFICES ASSUME TypeOK, [Next]_vars, ~NewDay
             PROVE  {a \in filled : a <= Retention} \subseteq filled' /\ stray \subseteq stray'
  BY DEF NewDay
<1>1. CASE UNCHANGED <<filled, stray>>
  BY <1>1
<1>2. CASE \E a \in 0 .. MaxLag : Insert(a)
  BY <1>2 DEF Insert
<1>3. CASE Drop
  <2> SUFFICES ASSUME NEW a \in filled, a <= Retention PROVE ~ShouldDrop(a)
    BY <1>3 DEF Drop
  <2>1. a \in Int
    BY Bounds DEF TypeOK, Ages
  <2> QED
    BY <2>1, Bounds DEF ShouldDrop
<1>4. (\E a \in 0 .. MaxLag : Insert(a)) \/ Drop \/ UNCHANGED <<filled, stray>>
  BY DEF Next, Maintenance, vars, tables, Begin, CreateRawPartitions, CreateBlocked, Create,
         CreateError, DropOldPartitions, DropError, VacuumMarts, VacuumError, DataQuality
<1> QED
  BY <1>1, <1>2, <1>3, <1>4

\* No row is lost within the window: but for the calendar, what is at most
\* RETENTION_DAYS old stays where it is.
THEOREM RetentionKeepsWindow == Spec => KeepsWindow
BY TypeCorrect, WindowStep, PTL DEF Spec, KeepsWindow

------------------------------------------------------------------------------
(* Outages *)

\* While nothing of today or later is stray, creation is never blocked.
LEMMA NotBlocked ==
    ASSUME TypeOK, \A a \in stray : a > 0
    PROVE  ~Blocked
BY Bounds DEF Blocked, PartitionsToCreate

\* A row of today finds its partition as long as the faults are few.
LEMMA TodayCovered ==
    ASSUME TypeOK, Covered, MissedRuns, faults < DaysAhead
    PROVE  0 \in daily
<1>1. since <= faults + 1 /\ since \in Nat /\ faults \in Nat
  BY Bounds DEF MissedRuns, TypeOK
<1>2. 0 \in Ages /\ since - DaysAhead <= 0
  BY <1>1, Bounds DEF Ages
<1> QED
  BY <1>2 DEF Covered

LEMMA StrayStep == IInv /\ [Next]_vars => SurvivesOutage'
<1> SUFFICES ASSUME IInv, [Next]_vars, faults' < DaysAhead,
                    NEW a \in stray'
             PROVE  a > 0
  BY DEF SurvivesOutage
<1> USE Bounds DEF IInv
<1>1. faults < DaysAhead /\ faults \in Nat
  <2>1. faults <= faults'
    BY DEF Next, Maintenance, vars, Insert, Begin, NewDay, CreateRawPartitions, CreateBlocked,
           CreateError, DropOldPartitions, DropError, VacuumMarts, VacuumError, DataQuality,
           Suffer, TypeOK
  <2> QED
    BY <2>1, TypeStep DEF TypeOK
<1>2. \A b \in stray : b > 0
  BY <1>1 DEF SurvivesOutage
<1>3. CASE stray' = stray
  BY <1>2, <1>3
<1>4. CASE \E b \in 0 .. MaxLag : Insert(b)
  BY <1>1, <1>2, <1>4, TodayCovered DEF Insert
<1>5. CASE NewDay
  <2>1. PICK b \in stray : a = Older(b)
    BY <1>5 DEF NewDay, Shift
  <2>2. b \in Ages /\ b > 0
    BY <1>2, <2>1 DEF TypeOK
  <2> QED
    BY <2>1, <2>2, OlderAge DEF Ages
<1>6. (\E b \in 0 .. MaxLag : Insert(b)) \/ NewDay \/ stray' = stray
  BY DEF Next, Maintenance, vars, tables, Begin, CreateRawPartitions, CreateBlocked, Create,
         CreateError, DropOldPartitions, DropError, Drop, VacuumMarts, VacuumError, DataQuality
<1> QED
  BY <1>3, <1>4, <1>5, <1>6

LEMMA MissedStep == IInv /\ [Next]_vars => MissedRuns'
<1> SUFFICES ASSUME IInv, [Next]_vars, faults' < DaysAhead
             PROVE  /\ since' <= faults' + 1
                    /\ schedule' = "idle" /\ task' # "create" => since' <= faults'
                    /\ task' = "create" /\ attempt' = 2 => since' <= faults'
  BY DEF MissedRuns
<1> USE Bounds DEF IInv
<1>1. since \in Nat /\ faults \in Nat /\ since' \in Nat /\ faults' \in Nat
  BY TypeStep DEF TypeOK
<1>2. ASSUME faults < DaysAhead
      PROVE  /\ since <= faults + 1
             /\ schedule = "idle" /\ task # "create" => since <= faults
             /\ task = "create" /\ attempt = 2 => since <= faults
             /\ ~Blocked
  BY <1>2, NotBlocked DEF MissedRuns, SurvivesOutage
<1>3. CASE UNCHANGED <<schedule, task, attempt, since, faults>>
  BY <1>1, <1>2, <1>3
<1>4. CASE NewDay
  <2>1. /\ schedule' = "due" /\ task' = task /\ attempt' = attempt
        /\ since' <= since + 1
        /\ \/ schedule = "idle" /\ task = "none" /\ faults' = faults
           \/ faults' = faults + 1
    BY <1>1, <1>4 DEF NewDay, Suffer, run, TypeOK
  <2>2. faults < DaysAhead
    BY <1>1, <2>1
  <2>3. CASE schedule = "idle" /\ task = "none" /\ faults' = faults
    <3>1. since <= faults
      BY <1>2, <2>2, <2>3
    <3> QED
      BY <1>1, <2>1, <2>3, <3>1
  <2>4. CASE faults' = faults + 1
    BY <1>1, <1>2, <2>1, <2>2, <2>4
  <2> QED
    BY <2>1, <2>3, <2>4
<1>5. CASE Begin
  BY <1>1, <1>2, <1>5 DEF Begin
<1>6. CASE CreateRawPartitions
  BY <1>1, <1>6 DEF CreateRawPartitions, Create, Succeed
<1>7. CASE CreateBlocked
  BY <1>1, <1>2, <1>7 DEF CreateBlocked
<1>8. CASE CreateError
  <2>1. faults' = faults + 1 /\ faults < DaysAhead
    BY <1>1, <1>8, SufferType DEF CreateError
  <2>2. since' = 0 \/ since' = since
    BY <1>8 DEF CreateError, Create
  <2> QED
    BY <1>1, <1>2, <2>1, <2>2
<1>9. CASE /\ task # "create" /\ task' # "create"
           /\ UNCHANGED <<schedule, since>> /\ faults' \in {faults, faults + 1}
  <2>1. faults < DaysAhead
    BY <1>1, <1>9
  <2>2. CASE faults' = faults
    BY <1>2, <1>9, <2>1, <2>2
  <2>3. CASE faults' = faults + 1
    BY <1>1, <1>2, <1>9, <2>1, <2>3
  <2> QED
    BY <1>9, <2>2, <2>3
<1>10. DropOldPartitions \/ DropError \/ VacuumMarts \/ VacuumError \/ DataQuality
       => /\ task # "create" /\ task' # "create"
          /\ UNCHANGED <<schedule, since>> /\ faults' \in {faults, faults + 1}
  BY DEF DropOldPartitions, DropError, VacuumMarts, VacuumError, DataQuality, Drop,
         Succeed, Fail, Suffer
<1>11. UNCHANGED vars \/ (\E a \in 0 .. MaxLag : Insert(a))
       => UNCHANGED <<schedule, task, attempt, since, faults>>
  BY DEF vars, run, Insert
<1> QED
  BY <1>3, <1>4, <1>5, <1>6, <1>7, <1>8, <1>9, <1>10, <1>11 DEF Next, Maintenance

LEMMA Inductive == Spec => []IInv
<1>1. Init => IInv
  BY TypeInit, CoveredInit, Bounds DEF Init, IInv, SurvivesOutage, MissedRuns
<1>2. IInv /\ [Next]_vars => IInv'
  BY TypeStep, CoveredStep, StrayStep, MissedStep DEF IInv
<1> QED
  BY <1>1, <1>2, PTL DEF Spec

\* Until days_ahead things have gone wrong, no row of today or later is in the
\* default partition: an outage that short cannot block the creation of a day.
THEOREM OutageSurvived == Spec => []SurvivesOutage
<1>1. IInv => SurvivesOutage
  BY DEF IInv
<1> QED
  BY <1>1, Inductive, PTL

=============================================================================
