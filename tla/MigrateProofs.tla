---------------------------- MODULE MigrateProofs -----------------------------
(***************************************************************************)
(* Theorems about Migrate: for every set of processes, every image of each *)
(* and every number of faults.                                             *)
(***************************************************************************)
EXTENDS Migrate, TLAPS

------------------------------------------------------------------------------
(* The inductive invariant *)

\* Past ensure_airflow_database, and at work on the list of pending files.
Ensured == Locations \ {"down", "check", "create"}
Applying == {"next", "recheck", "recreate", "execute", "insert", "commit", "serving"}

EnsuredInv == \A s \in Services : pc[s] \in Ensured => database = "present"

\* A file that is not on the list of a process is one that is applied.
TodoInv ==
    \A s \in Services :
        pc[s] \in Applying =>
            todo[s] \subseteq 1 .. Image[s] /\ 1 .. Image[s] \subseteq todo[s] \cup versions

ServingInv == \A s \in Services : pc[s] = "serving" => todo[s] = {}

\* A process that is about to commit is the only one that has inserted its version.
RecordedInv ==
    \A s \in Services :
        /\ pc[s] = "commit" <=> open[s] = "recorded"
        /\ \A f \in todo[s] :
              open[s] = "recorded" /\ First(todo[s], f) =>
                  f \notin versions /\ ~Contended(s, f, {"recorded"})

MInv ==
    /\ TypeOK /\ EnsuredInv /\ TodoInv /\ ServingInv /\ RecordedInv
    /\ AppliedOnce /\ AppliedInOrder

------------------------------------------------------------------------------
(* Constants and the parts that actions share *)

LEMMA Bounds ==
    /\ Last \in Nat /\ Last >= 1 /\ MaxFaults \in Nat
    /\ \A s \in Services : Image[s] \in Files /\ 1 .. Image[s] \subseteq Files
BY MigrateAssumption DEF Files

LEMMA SufferType ==
    ASSUME TypeOK, NEW k, Suffer(k)
    PROVE  faults' \in 0 .. MaxFaults
BY Bounds DEF Suffer, TypeOK, ProcessTypeOK

LEMMA ToType ==
    ASSUME TypeOK, NEW s \in Services, NEW l \in Locations, To(s, l)
    PROVE  /\ pc' \in [Services -> Locations]
           /\ pc'[s] = l
           /\ \A t \in Services \ {s} : pc'[t] = pc[t]
BY DEF To, TypeOK, ProcessTypeOK

LEMMA DiesType ==
    ASSUME TypeOK, NEW s \in Services, Dies(s)
    PROVE  /\ pc' \in [Services -> Locations]
           /\ todo' \in [Services -> SUBSET Files]
           /\ open' \in [Services -> {"none", "executed", "recorded"}]
           /\ pc'[s] = "down" /\ todo'[s] = {} /\ open'[s] = "none"
           /\ \A t \in Services \ {s} :
                 pc'[t] = pc[t] /\ todo'[t] = todo[t] /\ open'[t] = open[t]
<1>1. "down" \in Locations
  BY DEF Locations
<1> QED
  BY <1>1, ToType DEF Dies, TypeOK, ProcessTypeOK

LEMMA CommittedType ==
    ASSUME TypeOK, NEW s \in Services, NEW f \in Files, Committed(s, f)
    PROVE  StoreTypeOK'
BY DEF Committed, TypeOK, StoreTypeOK

------------------------------------------------------------------------------
(* Steps of one process *)

\* Nobody but s has moved, and s is not about to commit: RecordedInv holds on.
LEMMA RecordedKept ==
    ASSUME MInv, NEW s \in Services, versions' = versions,
           pc'[s] # "commit", open'[s] # "recorded",
           \A t \in Services \ {s} :
               pc'[t] = pc[t] /\ todo'[t] = todo[t] /\ open'[t] = open[t]
    PROVE  RecordedInv'
<1> SUFFICES ASSUME NEW t \in Services
             PROVE  /\ pc'[t] = "commit" <=> open'[t] = "recorded"
                    /\ \A f \in todo'[t] :
                          open'[t] = "recorded" /\ First(todo'[t], f) =>
                              f \notin versions' /\ ~Contended(t, f, {"recorded"})'
  BY DEF RecordedInv
<1>1. CASE t = s
  BY <1>1
<1>2. CASE t # s
  <2>1. pc'[t] = pc[t] /\ todo'[t] = todo[t] /\ open'[t] = open[t]
    BY <1>2
  <2>2. \A f \in todo[t] :
            open[t] = "recorded" /\ First(todo[t], f) => ~Contended(t, f, {"recorded"})'
    <3> SUFFICES ASSUME NEW f \in todo[t], open[t] = "recorded", First(todo[t], f),
                        NEW u \in Services \ {t}, open'[u] \in {"recorded"},
                        First(todo'[u], f)
                 PROVE  FALSE
      BY DEF Contended
    <3>1. u # s
      BY DEF MInv
    <3>2. open[u] = "recorded" /\ First(todo[u], f)
      BY <3>1
    <3> QED
      BY <3>2 DEF MInv, RecordedInv, Contended
  <2> QED
    BY <2>1, <2>2 DEF MInv, RecordedInv
<1> QED
  BY <1>1, <1>2

\* A process ends and its transaction is rolled back.
LEMMA DeathStep ==
    ASSUME MInv, NEW s \in Services, Dies(s), UNCHANGED store, faults' \in 0 .. MaxFaults
    PROVE  MInv'
<1>0. TypeOK
  BY DEF MInv
<1>1. TypeOK'
  BY <1>0, DiesType DEF TypeOK, StoreTypeOK, ProcessTypeOK, store
<1>2. EnsuredInv'
  BY <1>0, DiesType DEF MInv, EnsuredInv, Ensured, store
<1>3. TodoInv'
  BY <1>0, DiesType DEF MInv, TodoInv, Applying, store
<1>4. ServingInv'
  BY <1>0, DiesType DEF MInv, ServingInv
<1>5. RecordedInv'
  BY <1>0, DiesType, RecordedKept DEF store
<1>6. AppliedOnce' /\ AppliedInOrder'
  BY DEF MInv, AppliedOnce, AppliedInOrder, store
<1> QED
  BY <1>1, <1>2, <1>3, <1>4, <1>5, <1>6 DEF MInv

\* A process goes from one place to another and only the catalogue may change.
LEMMA MoveStep ==
    ASSUME MInv, NEW s \in Services, NEW l \in Locations, To(s, l),
           pc[s] # "commit", l # "commit",
           l \in Ensured => database' = "present",
           database = "present" => database' = "present",
           l \in Applying => pc[s] \in Applying,
           l = "serving" => todo[s] = {},
           database' \in {"absent", "present"}, table' \in {"absent", "present"},
           UNCHANGED <<versions, effects, todo, open, faults>>
    PROVE  MInv'
<1>0. TypeOK
  BY DEF MInv
<1>1. TypeOK'
  BY <1>0, ToType DEF TypeOK, StoreTypeOK, ProcessTypeOK
<1>2. EnsuredInv'
  BY <1>0, ToType DEF MInv, EnsuredInv
<1>3. TodoInv'
  BY <1>0, ToType DEF MInv, TodoInv
<1>4. ServingInv'
  BY <1>0, ToType DEF MInv, ServingInv
<1>5. RecordedInv'
  <2>1. open'[s] # "recorded"
    BY DEF MInv, RecordedInv
  <2> QED
    BY <1>0, <2>1, ToType, RecordedKept
<1>6. AppliedOnce' /\ AppliedInOrder'
  BY DEF MInv, AppliedOnce, AppliedInOrder
<1> QED
  BY <1>1, <1>2, <1>3, <1>4, <1>5, <1>6 DEF MInv

LEMMA ListStep ==
    ASSUME MInv, NEW s \in Services, List(s)
    PROVE  MInv'
<1>0. TypeOK
  BY DEF MInv
<1>a. "next" \in Locations /\ "next" \in Ensured /\ "next" \in Applying
  BY DEF Locations, Ensured, Applying
<1>b. /\ pc' \in [Services -> Locations] /\ pc'[s] = "next"
      /\ \A t \in Services \ {s} : pc'[t] = pc[t]
  BY <1>0, <1>a, ToType DEF List
<1>c. /\ todo' \in [Services -> SUBSET Files]
      /\ todo'[s] = 1 .. Image[s] \ versions
      /\ \A t \in Services \ {s} : todo'[t] = todo[t]
  BY <1>0, Bounds DEF List, TypeOK, ProcessTypeOK
<1>1. TypeOK'
  BY <1>0, <1>b, <1>c DEF List, TypeOK, StoreTypeOK, ProcessTypeOK, store
<1>2. EnsuredInv'
  BY <1>0, <1>b DEF List, MInv, EnsuredInv, Ensured, Locations, store
<1>3. TodoInv'
  BY <1>0, <1>b, <1>c DEF List, MInv, TodoInv, store
<1>4. ServingInv'
  BY <1>0, <1>b, <1>c DEF MInv, ServingInv
<1>5. RecordedInv'
  <2>1. open'[s] # "recorded"
    BY DEF List, MInv, RecordedInv
  <2> QED
    BY <1>b, <1>c, <2>1, RecordedKept DEF List, store
<1>6. AppliedOnce' /\ AppliedInOrder'
  BY DEF List, MInv, AppliedOnce, AppliedInOrder, store
<1> QED
  BY <1>1, <1>2, <1>3, <1>4, <1>5, <1>6 DEF MInv

LEMMA ExecuteStep ==
    ASSUME MInv, NEW s \in Services, Execute(s)
    PROVE  MInv'
<1>0. TypeOK
  BY DEF MInv
<1>a. "insert" \in Locations /\ "insert" \in Ensured /\ "insert" \in Applying
      /\ "execute" \in Ensured /\ "execute" \in Applying
  BY DEF Locations, Ensured, Applying
<1>b. /\ pc' \in [Services -> Locations] /\ pc'[s] = "insert"
      /\ \A t \in Services \ {s} : pc'[t] = pc[t]
  BY <1>0, <1>a, ToType DEF Execute
<1>c. /\ open' \in [Services -> {"none", "executed", "recorded"}]
      /\ open'[s] = "executed"
      /\ \A t \in Services \ {s} : open'[t] = open[t]
  BY <1>0 DEF Execute, TypeOK, ProcessTypeOK
<1>1. TypeOK'
  BY <1>0, <1>b, <1>c DEF Execute, TypeOK, StoreTypeOK, ProcessTypeOK, store
<1>2. EnsuredInv'
  BY <1>a, <1>b DEF Execute, MInv, EnsuredInv, store
<1>3. TodoInv'
  BY <1>a, <1>b DEF Execute, MInv, TodoInv, store
<1>4. ServingInv'
  BY <1>b DEF Execute, MInv, ServingInv
<1>5. RecordedInv'
  BY <1>b, <1>c, RecordedKept DEF Execute, store
<1>6. AppliedOnce' /\ AppliedInOrder'
  BY DEF Execute, MInv, AppliedOnce, AppliedInOrder, store
<1> QED
  BY <1>1, <1>2, <1>3, <1>4, <1>5, <1>6 DEF MInv

\* The first file of a list is one file.
LEMMA FirstIsOne ==
    ASSUME NEW S, S \subseteq Files, NEW f, NEW g, First(S, f), First(S, g)
    PROVE  f = g
BY Bounds DEF First, Files

\* The insertion succeeds: nobody else has inserted the version, committed or not.
LEMMA InsertStep ==
    ASSUME MInv, NEW s \in Services, NEW f \in todo[s], pc[s] = "insert",
           First(todo[s], f), ~Contended(s, f, {"recorded"}), f \notin versions,
           To(s, "commit"), open' = [open EXCEPT ![s] = "recorded"],
           UNCHANGED <<store, todo, faults>>
    PROVE  MInv'
<1>0. TypeOK
  BY DEF MInv
<1>a. "commit" \in Locations /\ "commit" \in Ensured /\ "commit" \in Applying
      /\ "insert" \in Ensured /\ "insert" \in Applying
  BY DEF Locations, Ensured, Applying
<1>b. /\ pc' \in [Services -> Locations] /\ pc'[s] = "commit"
      /\ \A t \in Services \ {s} : pc'[t] = pc[t]
  BY <1>0, <1>a, ToType
<1>c. /\ open' \in [Services -> {"none", "executed", "recorded"}]
      /\ open'[s] = "recorded"
      /\ \A t \in Services \ {s} : open'[t] = open[t]
  BY <1>0 DEF TypeOK, ProcessTypeOK
<1>1. TypeOK'
  BY <1>0, <1>b, <1>c DEF TypeOK, StoreTypeOK, ProcessTypeOK, store
<1>2. EnsuredInv'
  BY <1>a, <1>b DEF MInv, EnsuredInv, store
<1>3. TodoInv'
  BY <1>a, <1>b DEF MInv, TodoInv, store
<1>4. ServingInv'
  BY <1>b DEF MInv, ServingInv
<1>5. RecordedInv'
  <2> SUFFICES ASSUME NEW t \in Services
               PROVE  /\ pc'[t] = "commit" <=> open'[t] = "recorded"
                      /\ \A g \in todo'[t] :
                            open'[t] = "recorded" /\ First(todo'[t], g) =>
                                g \notin versions' /\ ~Contended(t, g, {"recorded"})'
    BY DEF RecordedInv
  <2>1. pc'[t] = "commit" <=> open'[t] = "recorded"
    BY <1>b, <1>c DEF MInv, RecordedInv
  <2>2. ASSUME NEW g \in todo'[t], open'[t] = "recorded", First(todo'[t], g)
        PROVE  g \notin versions' /\ ~Contended(t, g, {"recorded"})'
    <3>0. First(todo[t], g) /\ g \in todo[t]
      BY <2>2
    <3>1. CASE t = s
      <4>1. g = f
        BY <1>0, <3>0, <3>1, FirstIsOne DEF TypeOK, ProcessTypeOK
      <4> QED
        BY <1>c, <3>1, <4>1 DEF Contended, store
    <3>2. CASE t # s
      <4>1. open[t] = "recorded"
        BY <1>c, <2>2, <3>2
      <4>2. g \notin versions /\ ~Contended(t, g, {"recorded"})
        BY <3>0, <4>1 DEF MInv, RecordedInv
      <4>3. ~First(todo[s], g)
        <5> SUFFICES ASSUME First(todo[s], g) PROVE FALSE
          OBVIOUS
        <5>1. g = f
          BY <1>0, FirstIsOne DEF TypeOK, ProcessTypeOK
        <5> QED
          BY <3>0, <3>2, <4>1, <5>1 DEF Contended
      <4> QED
        BY <1>c, <4>2, <4>3 DEF Contended, store
    <3> QED
      BY <3>1, <3>2
  <2> QED
    BY <2>1, <2>2
<1>6. AppliedOnce' /\ AppliedInOrder'
  BY DEF MInv, AppliedOnce, AppliedInOrder, store
<1> QED
  BY <1>1, <1>2, <1>3, <1>4, <1>5, <1>6 DEF MInv

\* COMMIT: the process goes on to its next file, or dies of the lost answer.
LEMMA CommitStep ==
    ASSUME MInv, NEW s \in Services, NEW f \in todo[s], pc[s] = "commit", Committed(s, f),
           pc' \in [Services -> Locations], todo' \in [Services -> SUBSET Files],
           open' \in [Services -> {"none", "executed", "recorded"}],
           faults' \in 0 .. MaxFaults,
           open'[s] = "none",
           \/ pc'[s] = "next" /\ todo'[s] = todo[s] \ {f}
           \/ pc'[s] = "down",
           \A t \in Services \ {s} :
               pc'[t] = pc[t] /\ todo'[t] = todo[t] /\ open'[t] = open[t]
    PROVE  MInv'
<1>0. TypeOK /\ f \in Files /\ open[s] = "recorded"
  BY DEF MInv, TypeOK, ProcessTypeOK, RecordedInv
<1>a. /\ First(todo[s], f) /\ versions' = versions \cup {f}
      /\ effects' = [effects EXCEPT ![f] = @ + 1]
      /\ database' = database /\ table' = table
  BY DEF Committed
<1>b. f \notin versions /\ ~Contended(s, f, {"recorded"})
  BY <1>0, <1>a DEF MInv, RecordedInv
<1>c. 1 .. Image[s] \subseteq todo[s] \cup versions /\ todo[s] \subseteq 1 .. Image[s]
  BY DEF MInv, TodoInv, Applying
<1>1. TypeOK'
  <2>1. StoreTypeOK'
    BY <1>0, <1>a DEF TypeOK, StoreTypeOK
  <2> QED
    BY <2>1 DEF TypeOK, ProcessTypeOK
<1>2. EnsuredInv'
  BY <1>a DEF MInv, EnsuredInv, Ensured, Locations
<1>3. TodoInv'
  BY <1>a, <1>c DEF MInv, TodoInv, Applying
<1>4. ServingInv'
  BY DEF MInv, ServingInv
<1>5. RecordedInv'
  <2> SUFFICES ASSUME NEW t \in Services
               PROVE  /\ pc'[t] = "commit" <=> open'[t] = "recorded"
                      /\ \A g \in todo'[t] :
                            open'[t] = "recorded" /\ First(todo'[t], g) =>
                                g \notin versions' /\ ~Contended(t, g, {"recorded"})'
    BY DEF RecordedInv
  <2>1. CASE t = s
    BY <2>1
  <2>2. CASE t # s
    <3>1. pc'[t] = pc[t] /\ todo'[t] = todo[t] /\ open'[t] = open[t]
      BY <2>2
    <3>2. ASSUME NEW g \in todo[t], open[t] = "recorded", First(todo[t], g)
          PROVE  g \notin versions' /\ ~Contended(t, g, {"recorded"})'
      <4>1. g \notin versions /\ ~Contended(t, g, {"recorded"})
        BY <3>2 DEF MInv, RecordedInv
      <4>2. g # f
        BY <1>0, <1>b, <2>2, <3>2 DEF Contended
      <4> QED
        BY <1>a, <4>1, <4>2 DEF Contended
    <3> QED
      BY <3>1, <3>2 DEF MInv, RecordedInv
  <2> QED
    BY <2>1, <2>2
<1>6. AppliedOnce'
  <2> SUFFICES ASSUME NEW g \in Files
               PROVE  effects'[g] = (IF g \in versions' THEN 1 ELSE 0)
    BY DEF AppliedOnce
  <2>1. effects[g] = (IF g \in versions THEN 1 ELSE 0)
    BY DEF MInv, AppliedOnce
  <2>2. effects'[g] = (IF g = f THEN effects[g] + 1 ELSE effects[g])
    BY <1>0, <1>a DEF TypeOK, StoreTypeOK
  <2> QED
    BY <1>a, <1>b, <2>1, <2>2
<1>7. AppliedInOrder'
  <2>1. 1 .. f \subseteq versions'
    BY <1>a, <1>c, Bounds DEF First, Files
  <2> QED
    BY <1>a, <2>1 DEF MInv, AppliedInOrder
<1> QED
  BY <1>1, <1>2, <1>3, <1>4, <1>5, <1>6, <1>7 DEF MInv

------------------------------------------------------------------------------
(* Every step *)

LEMMA EnsureStep ==
    ASSUME MInv, NEW s \in Services, EnsureDatabase(s)
    PROVE  MInv'
<1>0. TypeOK
  BY DEF MInv
<1>1. ASSUME NEW here, NEW create, NEW past, CheckDatabase(s, here, create, past),
             \/ here = "check" /\ create = "create" /\ past = "table"
             \/ here = "recheck" /\ create = "recreate" /\ past = "execute"
      PROVE  MInv'
  <2>1. CASE database = "present"
    BY <1>0, <1>1, <2>1, MoveStep
       DEF CheckDatabase, Locations, Ensured, Applying, store, TypeOK, StoreTypeOK
  <2>2. CASE database # "present"
    <3>1. pc[s] = "check"
      BY <1>1, <2>2 DEF CheckDatabase, MInv, EnsuredInv, Ensured, Locations
    <3> QED
      BY <1>0, <1>1, <2>2, <3>1, MoveStep
         DEF CheckDatabase, Locations, Ensured, Applying, store, TypeOK, StoreTypeOK
  <2> QED
    BY <2>1, <2>2
<1>2. ASSUME NEW here, NEW past, CreateDatabase(s, here, past),
             \/ here = "create" /\ past = "table"
             \/ here = "recreate" /\ past = "execute"
      PROVE  MInv'
  <2>1. CASE database = "present" /\ Dies(s)
    BY <1>0, <1>2, <2>1, DeathStep DEF CreateDatabase, store, TypeOK, ProcessTypeOK
  <2>2. CASE To(s, past) /\ UNCHANGED <<todo, open>>
    BY <1>0, <1>2, <2>2, MoveStep
       DEF CreateDatabase, Locations, Ensured, Applying, TypeOK, StoreTypeOK
  <2> QED
    BY <1>2, <2>1, <2>2 DEF CreateDatabase
<1> QED
  BY <1>1, <1>2 DEF EnsureDatabase

LEMMA RunStep ==
    ASSUME MInv, NEW s \in Services, Run(s)
    PROVE  MInv'
<1>0. TypeOK /\ faults \in 0 .. MaxFaults
  BY DEF MInv, TypeOK, ProcessTypeOK
<1>1. CASE Start(s)
  BY <1>0, <1>1, MoveStep DEF Start, Locations, Ensured, Applying, store, TypeOK, StoreTypeOK
<1>2. CASE EnsureDatabase(s)
  BY <1>2, EnsureStep
<1>3. CASE CreateTable(s)
  <2>1. database = "present"
    BY <1>3 DEF CreateTable, MInv, EnsuredInv, Ensured, Locations
  <2> QED
    BY <1>0, <1>3, <2>1, MoveStep DEF CreateTable, Locations, Ensured, Applying
<1>4. CASE CreateTableRace(s)
  BY <1>0, <1>4, DeathStep DEF CreateTableRace
<1>5. CASE List(s)
  BY <1>5, ListStep
<1>6. CASE Take(s)
  <2>0. database = "present"
    BY <1>6 DEF Take, MInv, EnsuredInv, Ensured, Locations
  <2>1. PICK l \in {"recheck", "execute", "serving"} :
            To(s, l) /\ (l = "serving" => todo[s] = {})
    BY <1>6 DEF Take
  <2> QED
    BY <1>0, <1>6, <2>0, <2>1, MoveStep
       DEF Take, Locations, Ensured, Applying, store, TypeOK, StoreTypeOK
<1>7. CASE Execute(s)
  BY <1>7, ExecuteStep
<1>8. CASE ExecuteRace(s)
  BY <1>0, <1>8, DeathStep DEF ExecuteRace
<1>9. CASE Insert(s)
  <2>1. PICK f \in todo[s] :
            /\ First(todo[s], f) /\ ~Contended(s, f, {"recorded"})
            /\ \/ f \in versions /\ Dies(s)
               \/ /\ f \notin versions /\ To(s, "commit")
                  /\ open' = [open EXCEPT ![s] = "recorded"] /\ UNCHANGED todo
    BY <1>9 DEF Insert
  <2>2. CASE Dies(s)
    BY <1>0, <1>9, <2>2, DeathStep DEF Insert
  <2>3. CASE f \notin versions /\ To(s, "commit")
             /\ open' = [open EXCEPT ![s] = "recorded"] /\ UNCHANGED todo
    BY <1>9, <2>1, <2>3, InsertStep DEF Insert
  <2> QED
    BY <2>1, <2>2, <2>3
<1>10. CASE Commit(s)
  <2>1. PICK f \in todo[s] : Committed(s, f) /\ todo' = [todo EXCEPT ![s] = @ \ {f}]
    BY <1>10 DEF Commit
  <2>2. /\ pc' \in [Services -> Locations] /\ pc'[s] = "next"
        /\ \A t \in Services \ {s} : pc'[t] = pc[t]
    BY <1>0, <1>10, ToType DEF Commit, Locations
  <2>3. /\ todo' \in [Services -> SUBSET Files] /\ todo'[s] = todo[s] \ {f}
        /\ \A t \in Services \ {s} : todo'[t] = todo[t]
    BY <1>0, <2>1 DEF TypeOK, ProcessTypeOK
  <2>4. /\ open' \in [Services -> {"none", "executed", "recorded"}] /\ open'[s] = "none"
        /\ \A t \in Services \ {s} : open'[t] = open[t]
    BY <1>0, <1>10 DEF Commit, TypeOK, ProcessTypeOK
  <2> QED
    BY <1>0, <1>10, <2>1, <2>2, <2>3, <2>4, CommitStep DEF Commit
<1> QED
  BY <1>1, <1>2, <1>3, <1>4, <1>5, <1>6, <1>7, <1>8, <1>9, <1>10 DEF Run

LEMMA MInvStep == MInv /\ [Next]_vars => MInv'
<1> SUFFICES ASSUME MInv, [Next]_vars PROVE MInv'
  OBVIOUS
<1>0. TypeOK
  BY DEF MInv
<1>1. CASE UNCHANGED vars
  BY <1>1 DEF vars, store, process, MInv, TypeOK, StoreTypeOK, ProcessTypeOK, EnsuredInv,
              TodoInv, ServingInv, RecordedInv, Contended, First, AppliedOnce,
              AppliedInOrder
<1>2. ASSUME NEW s \in Services, Run(s) PROVE MInv'
  BY <1>2, RunStep
<1>3. ASSUME NEW s \in Services, Crash(s) PROVE MInv'
  BY <1>0, <1>3, SufferType, DeathStep DEF Crash
<1>4. ASSUME NEW s \in Services, StatementError(s) PROVE MInv'
  BY <1>0, <1>4, SufferType, DeathStep DEF StatementError
<1>5. ASSUME NEW s \in Services, CommitAnswerLost(s) PROVE MInv'
  <2>1. PICK f \in todo[s] : Committed(s, f)
    BY <1>5 DEF CommitAnswerLost
  <2> QED
    BY <1>0, <1>5, <2>1, SufferType, DiesType, CommitStep DEF CommitAnswerLost
<1> QED
  BY <1>1, <1>2, <1>3, <1>4, <1>5 DEF Next

LEMMA MInvInit == Init => MInv
<1> SUFFICES ASSUME Init PROVE MInv
  OBVIOUS
<1>1. TypeOK
  BY Bounds DEF Init, TypeOK, StoreTypeOK, ProcessTypeOK, Locations
<1>2. EnsuredInv /\ TodoInv /\ ServingInv /\ RecordedInv
  BY DEF Init, EnsuredInv, Ensured, TodoInv, Applying, ServingInv, RecordedInv
<1>3. AppliedOnce /\ AppliedInOrder
  BY DEF Init, AppliedOnce, AppliedInOrder
<1> QED
  BY <1>1, <1>2, <1>3 DEF MInv

LEMMA MInvHolds == Spec => []MInv
BY MInvInit, MInvStep, PTL DEF Spec

------------------------------------------------------------------------------
(* Theorems *)

(***************************************************************************)
(* The variables keep their types.                                         *)
(***************************************************************************)
THEOREM TypeCorrect == Spec => []TypeOK
<1>1. MInv => TypeOK
  BY DEF MInv
<1> QED
  BY <1>1, MInvHolds, PTL

(***************************************************************************)
(* However many processes migrate at once and wherever they die, a file    *)
(* takes effect once and with its version, or not at all, and the files    *)
(* are applied in order, whatever images meet.                             *)
(***************************************************************************)
THEOREM EachFileOnceInOrder == Spec => []MigratedOnceInOrder
<1>1. MInv => MigratedOnceInOrder
  BY DEF MInv, MigratedOnceInOrder
<1> QED
  BY <1>1, MInvHolds, PTL

(***************************************************************************)
(* A consumer that runs finds the schema of its image and the meta         *)
(* database.                                                               *)
(***************************************************************************)
THEOREM ConsumersFindTheirSchema == Spec => []ServingIsMigrated
<1>1. MInv => ServingIsMigrated
  BY DEF MInv, ServingInv, TodoInv, EnsuredInv, Ensured, Applying, Locations,
         ServingIsMigrated
<1> QED
  BY <1>1, MInvHolds, PTL

=============================================================================
