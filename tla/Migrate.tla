------------------------------- MODULE Migrate -------------------------------
(***************************************************************************)
(* Schema migrations (sql/migrate.py): what every consumer container runs  *)
(* before the consumer itself (or somebody, by hand).  Several of them may *)
(* migrate one database at once, in containers of different age.  One that *)
(* fails is restarted and begins again.                                    *)
(*                                                                         *)
(* An action is one statement as the database sees it.  Whether a file has *)
(* taken effect and whether its version is recorded is kept apart: the     *)
(* properties are about the two agreeing.                                  *)
(***************************************************************************)
EXTENDS Integers

CONSTANTS
    Services,       \* the processes that migrate
    Last,           \* the files in sql/init are 1 .. Last, in the order of their names
    MetaFile,       \* 002_airflow_meta.sql
    Image,          \* Image[s]: the image of s holds the files 1 .. Image[s]
    Faults,         \* the kinds of fault this instance admits
    MaxFaults       \* bound: how many faults a behaviour has

\* "crash": the process dies.  "postgres": a call raises, or its answer is lost.
FaultKinds == {"crash", "postgres"}

Files == 1 .. Last

ASSUME MigrateAssumption ==
    /\ Last \in Nat \ {0}
    /\ MetaFile \in Files
    /\ Image \in [Services -> Files]
    /\ Faults \subseteq FaultKinds
    /\ MaxFaults \in Nat

VARIABLES
    \* the database
    database,       \* whether there is an airflow_meta database
    table,          \* whether there is a table schema_migrations
    versions,       \* schema_migrations: the files recorded as applied
    effects,        \* effects[f]: how often the statements of f were committed
    \* the processes
    pc,             \* pc[s]: where s is, "down" before and after it
    todo,           \* todo[s]: the files of pending_migrations not yet applied
    open,           \* open[s]: what the transaction of s has done so far
    faults          \* how many faults there have been

store   == <<database, table, versions, effects>>
process == <<pc, todo, open>>
vars    == <<store, process, faults>>

(***************************************************************************)
(* "check", "create": ensure_airflow_database at the start; "recheck",     *)
(* "recreate": again for MetaFile.  "next": the head of the loop over the  *)
(* pending files.  "serving": the consumer runs.                           *)
(***************************************************************************)
Locations == {"down", "check", "create", "table", "list", "next", "recheck",
              "recreate", "execute", "insert", "commit", "serving"}

StoreTypeOK ==
    /\ database \in {"absent", "present"} /\ table \in {"absent", "present"}
    /\ versions \subseteq Files
    /\ effects \in [Files -> Nat]

ProcessTypeOK ==
    /\ pc \in [Services -> Locations]
    /\ todo \in [Services -> SUBSET Files]
    /\ open \in [Services -> {"none", "executed", "recorded"}]
    /\ faults \in 0 .. MaxFaults

TypeOK == StoreTypeOK /\ ProcessTypeOK

------------------------------------------------------------------------------
(* Vocabulary *)

First(S, f) == f \in S /\ \A g \in S : f <= g      \* the files are sorted

To(s, l) == pc' = [pc EXCEPT ![s] = l]

\* Another process has an open transaction that works on file f.
Contended(s, f, state) ==
    \E t \in Services \ {s} : open[t] \in state /\ First(todo[t], f)

Suffer(k) == k \in Faults /\ faults < MaxFaults /\ faults' = faults + 1

\* On a fresh volume 00_create_airflow_db.sh may have created the meta database.
Init ==
    /\ database \in {"absent", "present"} /\ table = "absent"
    /\ versions = {} /\ effects = [f \in Files |-> 0]
    /\ pc = [s \in Services |-> "down"]
    /\ todo = [s \in Services |-> {}]
    /\ open = [s \in Services |-> "none"]
    /\ faults = 0

------------------------------------------------------------------------------
(* The life of a process *)

\* Faulty: the entrypoint goes on to the consumer when migrate.py fails.
DiesServing(s) ==
    /\ To(s, "serving")
    /\ todo' = [todo EXCEPT ![s] = {}] /\ open' = [open EXCEPT ![s] = "none"]

\* The process is gone, and an open transaction of it is rolled back.
Dies(s) ==
    /\ To(s, "down")
    /\ todo' = [todo EXCEPT ![s] = {}] /\ open' = [open EXCEPT ![s] = "none"]

\* The entrypoint: migrate.py first.
Start(s) ==
    /\ pc[s] = "down" /\ To(s, "check")
    /\ UNCHANGED <<store, todo, open, faults>>

\* Killed at any point, also while serving (a new deployment).
Crash(s) ==
    /\ pc[s] # "down" /\ Suffer("crash")
    /\ Dies(s) /\ UNCHANGED store

\* A statement raises before it has an effect.
StatementError(s) ==
    /\ pc[s] \notin {"down", "next", "serving"} /\ Suffer("postgres")
    /\ Dies(s) /\ UNCHANGED store

------------------------------------------------------------------------------
(* ensure_airflow_database, in autocommit mode *)

\* SELECT ... FROM pg_database, and on to its creation or past it.
CheckDatabase(s, here, create, past) ==
    /\ pc[s] = here
    /\ To(s, IF database = "present" THEN past ELSE create)
    /\ UNCHANGED <<store, todo, open, faults>>

\* CREATE DATABASE; somebody else may have created it since the check.
CreateDatabase(s, here, past) ==
    /\ pc[s] = here
    /\ database' = "present" /\ UNCHANGED <<table, versions, effects, faults>>
    /\ \/ database = "absent" /\ To(s, past) /\ UNCHANGED <<todo, open>>
       \/ database = "present" /\ Dies(s)

EnsureDatabase(s) ==
    \/ CheckDatabase(s, "check", "create", "table")
    \/ CreateDatabase(s, "create", "table")
    \/ CheckDatabase(s, "recheck", "recreate", "execute")
    \/ CreateDatabase(s, "recreate", "execute")

------------------------------------------------------------------------------
(* main *)

\* CREATE TABLE IF NOT EXISTS schema_migrations, committed.
CreateTable(s) ==
    /\ pc[s] = "table" /\ To(s, "list")
    /\ table' = "present"
    /\ UNCHANGED <<database, versions, effects, todo, open, faults>>

\* IF NOT EXISTS does not protect against a creation that commits meanwhile.
CreateTableRace(s) ==
    /\ pc[s] = "table" /\ table = "present"
    /\ \E t \in Services \ {s} : pc[t] = "list"
    /\ Dies(s) /\ UNCHANGED <<store, faults>>

\* Faulty: the shell script sorts before the first file.
ListScripts(s) ==
    /\ pc[s] = "list" /\ To(s, "next")
    /\ todo' = [todo EXCEPT ![s] = 0 .. Image[s] \ versions]
    /\ UNCHANGED <<store, open, faults>>

\* Faulty: every file of the image, applied or not.
ListAll(s) ==
    /\ pc[s] = "list" /\ To(s, "next")
    /\ todo' = [todo EXCEPT ![s] = 1 .. Image[s]]
    /\ UNCHANGED <<store, open, faults>>

\* pending_migrations: once, for the whole loop.
List(s) ==
    /\ pc[s] = "list" /\ To(s, "next")
    /\ todo' = [todo EXCEPT ![s] = 1 .. Image[s] \ versions]
    /\ UNCHANGED <<store, open, faults>>

\* The next pending file, or the end of main: the consumer is started.
Take(s) ==
    /\ pc[s] = "next"
    /\ \/ \E f \in todo[s] :
            First(todo[s], f) /\ To(s, IF f = MetaFile THEN "recheck" ELSE "execute")
       \/ todo[s] = {} /\ To(s, "serving")
    /\ UNCHANGED <<store, todo, open, faults>>

------------------------------------------------------------------------------
(* apply_file and the commit: one transaction *)

\* The statements of the file, all of them idempotent.
Execute(s) ==
    /\ pc[s] = "execute" /\ To(s, "insert")
    /\ open' = [open EXCEPT ![s] = "executed"]
    /\ UNCHANGED <<store, todo, faults>>

\* They meet the uncommitted objects or grants of a process at the same file.
ExecuteRace(s) ==
    /\ pc[s] = "execute"
    /\ \E f \in todo[s] : First(todo[s], f) /\ Contended(s, f, {"executed", "recorded"})
    /\ Dies(s) /\ UNCHANGED <<store, faults>>

\* Faulty: INSERT ... ON CONFLICT DO NOTHING.
InsertIfAbsent(s) ==
    /\ pc[s] = "insert" /\ To(s, "commit")
    /\ open' = [open EXCEPT ![s] = "recorded"]
    /\ UNCHANGED <<store, todo, faults>>

(***************************************************************************)
(* INSERT INTO schema_migrations.  The primary key makes it wait for       *)
(* another open transaction that has inserted the same version, and fail   *)
(* if the version is there.                                                *)
(***************************************************************************)
Insert(s) ==
    /\ pc[s] = "insert"
    /\ \E f \in todo[s] :
        /\ First(todo[s], f) /\ ~Contended(s, f, {"recorded"})
        /\ \/ f \in versions /\ Dies(s)
           \/ /\ f \notin versions /\ To(s, "commit")
              /\ open' = [open EXCEPT ![s] = "recorded"] /\ UNCHANGED todo
    /\ UNCHANGED <<store, faults>>

\* What COMMIT does to the database.
Committed(s, f) ==
    /\ First(todo[s], f)
    /\ versions' = versions \cup {f}
    /\ effects' = [effects EXCEPT ![f] = @ + 1]
    /\ UNCHANGED <<database, table>>

Commit(s) ==
    /\ pc[s] = "commit" /\ To(s, "next")
    /\ \E f \in todo[s] : Committed(s, f) /\ todo' = [todo EXCEPT ![s] = @ \ {f}]
    /\ open' = [open EXCEPT ![s] = "none"]
    /\ UNCHANGED faults

\* The answer is lost: committed, yet the process ends.
CommitAnswerLost(s) ==
    /\ pc[s] = "commit" /\ Suffer("postgres")
    /\ \E f \in todo[s] : Committed(s, f)
    /\ Dies(s)

------------------------------------------------------------------------------
(* Next-state relation and fairness *)

Run(s) ==
    \/ Start(s) \/ EnsureDatabase(s) \/ CreateTable(s) \/ CreateTableRace(s)
    \/ List(s) \/ Take(s)
    \/ Execute(s) \/ ExecuteRace(s) \/ Insert(s) \/ Commit(s)

Next ==
    \E s \in Services :
        Run(s) \/ Crash(s) \/ StatementError(s) \/ CommitAnswerLost(s)

Spec == Init /\ [][Next]_vars

\* Containers are restarted and the database answers in the end.
FairSpec == Spec /\ \A s \in Services : WF_vars(Run(s))

------------------------------------------------------------------------------
(* Properties *)

(***************************************************************************)
(* A file has taken effect exactly once if its version is recorded and not *)
(* at all otherwise, and what is applied is always a prefix of the files,  *)
(* however many processes work at once, from lists they read at other      *)
(* times and for other images, and wherever they die (migrate.py:85-121).  *)
(***************************************************************************)
AppliedOnce == \A f \in Files : effects[f] = (IF f \in versions THEN 1 ELSE 0)

AppliedInOrder == \A f \in versions : 1 .. f \subseteq versions

MigratedOnceInOrder == AppliedOnce /\ AppliedInOrder

(***************************************************************************)
(* A consumer never runs against a schema older than its image, even when  *)
(* another process has applied what it found pending (the entrypoint is    *)
(* "migrate.py && exec python -m consumer").                               *)
(***************************************************************************)
ServingIsMigrated ==
    \A s \in Services :
        pc[s] = "serving" => 1 .. Image[s] \subseteq versions /\ database = "present"

(***************************************************************************)
(* Every consumer gets to run: whoever loses a race dies of it and finds   *)
(* less to do after its restart, also after a commit whose answer was lost.*)
(***************************************************************************)
EventuallyServing == \A s \in Services : []<>(pc[s] = "serving")

=============================================================================
