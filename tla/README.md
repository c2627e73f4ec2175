# Formal models of wiki-stream-analytics

TLA+ specifications of the streaming pipeline in `src/`, the TLC instances that
check them, and TLAPS proofs of every safety property that a passing run checks.
Every definition is translated from the source; `PROJECT.json` maps each one to
the lines it stands for.

## 1. The system

Wikimedia EventStreams → **producer** → Kafka `wiki.recentchange` (+ `.dlq`) →
**consumer** → Postgres `raw.recentchange` and Redis live counters → **dbt** marts
→ **dashboard**. Airflow maintains the partitions of the raw table and runs dbt;
the **healthchecker** watches it all.

| Component | State | Operations | Talks to |
|---|---|---|---|
| producer (`services/producer`) | `_last_event_id`, backoff attempt, stop flag, the Kafka client's queue | read an event, reconnect, back off, produce, poll callbacks, flush | EventStreams (SSE), Kafka |
| consumer (`services/consumer`) | batch buffer, `_pending_offsets`, two `_available` latches, stop flag | poll, handle a message, flush (write, count, commit), final flush | Kafka, Redis, Postgres |
| healthchecker (`services/healthchecker`) | `latest` in memory; status and last alert per check in Redis | run a round, process a result, send, answer `/health` | everything, Telegram |
| partitions and retention (`airflow/lib`, `maintenance_daily`) | the daily partitions and the default partition | create today..today+3, drop old ones, vacuum, data-quality checks | Postgres |
| dbt marts (`dbt/wiki_analytics`, `dbt_hourly`) | `dim_wiki`, `fct_edits`, aggregates | one build per hour, incremental merges, tests | Postgres |
| migrations (`sql/migrate.py`) | `schema_migrations` | apply pending files, create the meta database | Postgres |
| dashboard (`dashboard`) | caches of 60 s | read marts and minute counters | Postgres, Redis |
| Airflow alerts (`airflow/plugins`) | none | one message per failed task | Telegram |

How they meet: the producer and the consumer share only the topic; the consumer
and dbt only `raw.recentchange`; the consumer, the dashboard and the
healthchecker the Redis keys; maintenance takes partitions away under dbt and
the consumer. Every container restarts when it exits (`restart: unless-stopped`).

What is hard, and what makes each part correct:

- **consumer**: four systems change one after the other (Redis key, Postgres row,
  Redis counter, Kafka offset) and the process may die, be told to stop or see an
  exception between any two. Correct when no committed event lacks its row, no
  edit is counted twice or without a row, offsets only advance, and nothing stays
  in memory for ever.
- **producer**: connections break at any point, deliveries resolve in the
  background. Correct when a payload that was read reaches Kafka, reconnects leave
  no gap, a partition keeps the feed's order, and a stop ends the process.
- **healthchecker**: a status is recorded before it is announced; an HTTP thread
  reads what the checking thread replaces. Correct when a lasting problem is
  announced and served, alerts are throttled only by delivered ones, and an answer
  is one verdict.
- **partitions**: creation meets rows already in the default partition. Correct
  when every row is dropped within the retention and creation can always recover.
- **dbt marts**: look-back windows meet late rows; marts keep what raw drops; the
  models of one build read raw at different moments. Correct when every row in
  time reaches the facts, every table counts the same facts after a successful
  run, and runs recover.
- **migrations**: containers of two images start at once, and die between two
  statements. Correct when each file is applied once and in order, no consumer
  runs before its schema is there, and every consumer gets to run.
- **dashboard**: minute buckets read while they are written.

`PROJECT.json` lists the hazards one by one with the properties that cover them.

## 2. Modules

| Module | What it is |
|---|---|
| `AtLeastOnceSink` | abstract contract of the Kafka → Postgres path: publish, store, acknowledge; `Lossy` says whether events may be forfeited |
| `WikiConsumer` | the consumer process with Kafka, Redis and Postgres; refines `AtLeastOnceSink` |
| `WikiConsumerProofs` | its theorems |
| `OrderedTopic` | abstract contract of the feed → Kafka path: partitions that hold feed positions in feed order, each where it belongs |
| `WikiProducer` | the producer process with the feed and the Kafka client; refines `OrderedTopic` |
| `WikiProducerProofs` | its theorems |
| `HealthChecker` | the checking thread, the alerter, its Redis state and what `/health` serves |
| `HealthCheckerProofs` | its theorems |
| `KafkaLag` | the `kafka_lag` check composed with `WikiConsumer`: it reads offsets and watermarks while the consumer runs |
| `KafkaLagProofs` | its theorem; extends `WikiConsumerProofs`, whose invariant it uses |
| `Partitions` | the daily partitions of the raw table under the consumer's rows and the DAG `maintenance_daily` |
| `PartitionsProofs` | its theorems |
| `DbtBuild` | the marts and the DAG `dbt_hourly` over a raw table with late rows and retention |
| `DbtBuildProofs` | its theorems |
| `Migrate` | `sql/migrate.py` in several containers at once |
| `MigrateProofs` | its theorems |
| `MCWikiConsumer`, `MCWikiProducer`, `MCHealthChecker`, `MCKafkaLag`, `MCPartitions`, `MCDbtBuild`, `MCMigrate` | small instances for TLC |

Operators whose comment begins with "Faulty" are not part of a specification:
each is a plausible mistake in the definition after it, and shows that a
property would notice.

### WikiConsumer

One action is one step whose effect another system can see. `pc` follows
`WikiConsumer.run`: `poll` is the top of the loop, `check` the `should_flush`
after a message, `write`/`count`/`commit` the three calls of `_flush`, `finally`
the finally block. `block` tells a flush of the loop from the final one, because
an exception leaves the first for the finally block and the second for good
(`Raise`). Memory is `position` (the client's position), `pending`
(`_pending_offsets`), `buffer` (the `BatchBuffer`), `batch` (rows that `_flush`
has drained), `timer` (whether `max_wait_s` has passed) and `lost` (the two
`_available = False` latches). A message is an event of a kind: `edit`, `poison`
(Postgres rejects the row), `log` (filtered), `malformed` (caught by
`_handle_message`) or `undecodable` (not caught). Calls that raise may have taken
effect or not: `HandleDedupError`, `WriteError`/`WriteAnswerLost`, `CountError`,
`CommitError`. `dropped`, `orphaned` and `faults` are history.

`WriteBatch` is atomic because it is one transaction; the live counters are
incremented one row at a time because each row is its own pipeline.

### WikiProducer

An event is its position in the feed, which is also its SSE id. `pc` follows the
generator of `EventStream.events` and the loop over it: `connect`, `read`,
`handle` (a payload is yielded), `backoff`, `close`. `queue` and `reports` are
the Kafka client: what `produce` accepted, and what is resolved but whose
callback `poll` has not served; both count against the queue limit. The contract
says nothing of connections and processes: a position of the feed may be missing
from its partition or repeated at its end, but never come before an earlier one.

### HealthChecker

`pc` follows `run_once` → `Alerter.process` → `_maybe_send_problem` → `_send`.
`mode` distinguishes the first round, in the main thread, from the rounds of the
daemon thread: an exception ends the process in the first case and only the
thread in the second (`Fatal`). Time is abstracted to whether the last message
about a check lies within `alert_throttle_seconds` (`recent`) or not (`old`).
What the checks compute is the environment's choice (`condition`, `Possible`): a
status, and whether Telegram can parse the message made of the details. `_send`
asks for Markdown and `_format_details` escapes nothing, so a message with an odd
number of underscores is refused with 400 on every attempt. This is a step of the
thread (`SendUnparsed`), not a fault; `SendRejected`, a fault, stands for Telegram
not reached or refusing a text it could parse. How Telegram's legacy Markdown
counts underscores is taken from its documentation, the details from the checks:
one underscore in those of `kafka_lag` with a lag (`total_lag`), three in those of
`freshness` with an age (`max_event_ts`, `age_minutes`), an even number in those of
`redis` and `db_size` and in what `dashboard` says of an answer. The text of an
exception is arbitrary. `told` is history: the status in the last message delivered
about a check since its condition last changed, so that an older message about
another problem announces nothing.
A handler of `/health` only reads `latest`, so it is not an action. `unstamped` is
history: whose last delivered message never reached `last_alert`.

### KafkaLag

One step of the consumer or one of the check. `ReadOffsets` is the single answer
of `list_consumer_group_offsets`, in which a partition without a commit has the
offset -1001; `ReadWatermark(p)` is one turn of the loop, and after the last one
the check returns. `told` shrinks as the loop goes on: what it has subtracted it
does not use again. `asked` and `behind` are history: how far the group was behind when
it was asked, for the partitions to come and, added up, for those behind it. The
check never writes, so `WikiConsumer` runs unchanged
beneath it and its own properties are checked in the same run.

### Partitions

A day is named by its age, so `NewDay` shifts every set of days by one and the
model needs no last day; ages from `Oldest` on are one. `daily` are the days with
a partition, `filled` and `stray` those with rows in it and in
`recentchange_default`. `task` follows the DAG `create >> drop >> vacuum >> dq`,
`attempt` its one retry, `schedule` a due interval (one, whatever was missed:
`catchup=False`). Each of `create_raw_partitions` and `drop_old_partitions` is one
transaction, hence one step; a failing one may have committed. `Blocked` is what
Postgres enforces: no partition is attached while the default one holds rows of
its range. The two data-quality tasks change nothing and are one step.

### DbtBuild

Time counts half hours, so that a row can be early or late in its hour. A row is
its timestamp and its wiki. A model is built in one transaction, hence one step;
`node` is what dbt knows of each node in this attempt, and `Above` the graph it
follows (`ref` in the SQL). dbt lets a test hold back only models downstream of
*all* the models it reads; nothing is downstream of `dim_wiki`, so nothing waits
for the relationships test, and it only decides how the run ends. `Ended` says
that a model may be built and yet have an error, when a test on a column fails;
`BuildError` that it is not built. `agg` is the set of facts that the groups of
`agg_edits_hourly` count: merging by `(hour, wiki)` replaces a group by the rows
of the window. `unseen`, `late` and `expired` are history and classify rows that
are not in `fct_edits`. A run that is tried again begins `dbt build` from the
start; at most one runs (`max_active_runs=1`).

### Migrate

`pc[s]` follows `main`, statement by statement, because each of them meets what
others have committed since: `check`/`create` are `ensure_airflow_database` (in
autocommit), `list` reads the pending files once for the whole loop, and
`execute`, `insert`, `commit` are one transaction, whose state is `open[s]`.
`versions` is what `schema_migrations` says and `effects` how often a file's
statements were really committed. What Postgres decides is named: `Insert` waits
for an open transaction with the same version and fails if it commits;
`CreateTableRace` and `ExecuteRace` are the errors of concurrent DDL and GRANTs.
Everything that raises ends the container, and the entrypoint begins again.

## 3. Runs

Passing runs check the whole set of faults they name; a violation run shows a
disagreement between the code and what its documentation or a test says.

| Run | Faults | Shows |
|---|---|---|
| `consumer_faults` | all | an event is lost in two ways only (`LossAccounted`); memory is replayable; counted implies stored; offsets advance to what was handled; the contract is refined |
| `consumer_liveness` | crash, postgres, kafka, stop; a poison row | every edit is settled, a stop ends the process, no edit is counted twice |
| `consumer_commit` (`MCKafkaLag`) | redis, expiry, stop; repeated events | committed is stored, every edit's offset is committed, and the lag check beside it never understates |
| `consumer_write_error` | postgres | **violation**: the finally block commits a batch that was not written |
| `consumer_crash` | crash | **violation**: a claimed event is lost when the process dies before the write |
| `producer_faults` | all | what was read is accounted for; no gap; the topic is an `OrderedTopic`; it catches up, delivers, and ends when told |
| `health_faults` | all | only delivered messages silence; Redis and `/health` agree; lasting problems are served while the thread lives, and announced with their present severity if Telegram can parse their text |
| `partitions_faults` | all | the days ahead stay covered and bridge short outages; nothing leaves within the window; retention works unless blocked |
| `partitions_missed` | airflow | **violation**: after two missed days maintenance never gets past its first task again |
| `dbt_faults` | all; late rows, retention | the look-backs lose late rows only; the hourly table counts exactly the facts; a successful run leaves the marts consistent; rows in time are reported and runs recover |
| `dbt_silent` | none | **violation**: a wiki silent for longer than the retention breaks the foreign key to `dim_wiki` for good |
| `migrate_faults` | all; two images | each file takes effect once and in order; no consumer runs before its schema; every one gets to run |

Bounds. Two partitions with two messages each, in `consumer_faults`, make two
partitions progress independently with a batch of two that fills, an undecodable
message beside one edit and a filtered kind of event beside the other; the other
consumer runs have three messages. Two copies of an event exercise duplicates; crashes
and uncertain commits replay the others. Two faults are enough for a failure
while recovering from another; `consumer_liveness` and `producer_faults` have
three. The feed of the producer has three events, so that a reconnect happens
before, between and after events; `Overflow` and `QueueLimit` are 2, so that a
full queue and the overflow are reached (the code's is 1024). The healthchecker has two checks, where a failure about one may
silence the other: `kafka_lag`, whose texts do not parse, its recovery included, but
that of a missing topic, and `db_size`, whose texts parse in all three severities. To
bound the instance, the lag is never between its two thresholds.
A broken connection of the producer is a fault, so `CatchesUp` is exercised with up
to three of them in a behaviour. `EventuallyCommitted` is about one partition, and
about first copies in runs without crashes: what a replay leaves uncommitted and how
partitions share a batch are outside it (`CommitsAdvance` is checked with two). Two days ahead and two days of
retention give every kind of age, and four faults (missed days, failed tasks) are
twice what it takes to run out of partitions; rows come up to one day late because
Kafka keeps twelve hours (`docker-compose.yml`). In `consumer_commit` one partition
is enough for the lag check's offset and watermark to be read around any step of
the consumer; that the lags of several partitions add up is not exercised there,
and proved in section 4. The marts have three rows in three hours and two wikis, a delay longer than either
look-back, a retention that can take a row before and after it was loaded, and two
tries. Three containers of two images let two run into each other while a third has
another list; three files have one before and one after the file that looks for
the meta database, and three faults let each container die once. Counters that grow (`MaxCopies`, `MaxFeed`, `MaxFaults`) are
bounded in the guards.

Fairness. `Start` is weakly fair because containers restart; the steps of a
process because its thread is scheduled and what it calls answers, refuses or fails
in the end. Not every call makes sure of that: Telegram, Kafka and the dashboard are
called with a timeout, `psycopg.connect` and `redis.from_url` without one, and a
Postgres or Redis that accepts a connection and never answers would stop the consumer,
and freeze `/health` while the checking thread is alive. The liveness properties
assume that it does not happen. The other steps are weakly fair too: `Tick`, `Wake`
and `Age` because time passes; `Deliver` because the broker is up
in the end; `NewDay`, `Maintenance` and `Build` because days pass and Airflow's scheduler
runs; `Run` of a migrating container because containers are restarted. The lag
check owes nothing: the consumer must not depend on it. `Handle(p)` is strongly fair because librdkafka serves every
partition that has messages again and again. Faults are never fair. Liveness of
the consumer holds with crashes because the faults of a behaviour are finite.

## 4. Proofs

All theorems are about the specification for every value of its constants that
meets its `ASSUME`; TLC evaluates the assumption in every run.

Of `WikiConsumer`, in `WikiConsumerProofs`:

| Theorem | States |
|---|---|
| `TypeCorrect` | `Spec => []TypeOK` |
| `LossIsAccounted` | `Spec => []LossAccounted` |
| `MemoryIsReplayable` | `Spec => []HeldIsReplayable` |
| `CountersFollowStore` | `Spec => []CountedIsStored` |
| `CommitsOnlyAdvance` | `Spec => CommitsAdvance` |
| `NoFaultNoLoss` | without crashes, failed writes and poison rows, `Spec => []CommittedIsStored` |
| `NeverCountedTwice` | without Redis failures and key expiry, `Spec => []CountedOnce` |
| `ImplementsSink` | `Spec => SinkSpec` |

Of `KafkaLag`, in `KafkaLagProofs`: `LagIsNeverUnderstated`, that is
`LagSpec => []LagNeverUnderstates`.

Of `WikiProducer`, in `WikiProducerProofs`:

| Theorem | States |
|---|---|
| `TypeCorrect` | `Spec => []TypeOK` |
| `NothingSlipsAway` | `Spec => []OwedIsAccounted` |
| `ReadsWithoutGap` | `Spec => []NoGap` |
| `PartitionsInOrder` | `Spec => []OrderedPerPartition` |
| `ImplementsOrderedTopic` | `Spec => ContractSpec` |
| `RepeatsOnlyAfterReconnect` | without network failures, no partition holds an event twice |

Of `HealthChecker`, in `HealthCheckerProofs`:

| Theorem | States |
|---|---|
| `TypeCorrect` | `Spec => []TypeOK` |
| `OnlyDeliverySilences` | `Spec => []SilenceIsEarned` |
| `RepeatsAreThrottled` | `Spec => []AlertsThrottled` |
| `HealthIsWhatAlertsCompare` | `Spec => []StateMatchesHealth` |
| `NoFailureNoRepeat` | with no fault but Telegram's refusals, no PROBLEM is sent while a delivered message about the check is within the throttle |
| `UnparsedNeverHeard` | a check none of whose texts parse is never heard of and never silenced, whatever its problems, rounds and faults |

Of `Partitions`, in `PartitionsProofs`:

| Theorem | States |
|---|---|
| `TypeCorrect` | `Spec => []TypeOK` |
| `DaysAheadCovered` | `Spec => []Covered` |
| `OutageSurvived` | `Spec => []SurvivesOutage` |
| `RetentionKeepsWindow` | `Spec => KeepsWindow` |

Of `DbtBuild`, in `DbtBuildProofs`:

| Theorem | States |
|---|---|
| `TypeCorrect` | `Spec => []TypeOK` |
| `OnlyLateRowsLost` | `Spec => []RowsAccounted` |
| `HourlyTableExact` | `Spec => []AggMatchesFacts` |
| `SuccessIsConsistent` | `Spec => []PassedIsConsistent` |
| `InTimeIsNeverLost` | if no row comes an hour late or more, every row that was in raw is a fact, unless it waits for its first build or was deleted before one |

Of `Migrate`, in `MigrateProofs`:

| Theorem | States |
|---|---|
| `TypeCorrect` | `Spec => []TypeOK` |
| `EachFileOnceInOrder` | `Spec => []MigratedOnceInOrder` |
| `ConsumersFindTheirSchema` | `Spec => []ServingIsMigrated` |

The argument for the consumer. `LossAccounted` is not inductive: a commit is
safe only because of what memory held before it. `IInv` adds what each step
needs. `ControlInv` ties `pc` to the buffers (while `_flush` works the buffer is
empty, at `commit` the batch is). `OffsetInv` says that a pending offset is one
less than the position. `HandledInv` is the heart: everything before the
position is settled or in memory; a commit moves the committed offset to the
position when memory is empty, hence `LossAccounted`. `KeyInv` is what makes
dropping a duplicate safe: a key exists only for an event that is settled or in
memory, so a message that is skipped as a duplicate keeps `HandledInv` true. A
crash empties memory and breaks `KeyInv` unless the rows it held are counted as
`orphaned`: this is the loss of `consumer_crash`. A failed write empties `batch`
and breaks `HandledInv` unless they are counted as `dropped`: the loss of
`consumer_write_error`. `NoFaultNoLoss` proves that both sets stay empty without
those faults. `NeverCountedTwice` uses `CountInv`: a row in memory has a key, is
there once and has not been counted. `ImplementsSink` maps each step to one of
the contract or to a stutter, using `IInv` in the states before and after.

The argument for the lag check. `LInv` adds to `IInv` that what is still to be
read of a partition covers what was asked of it (`UnreadInv`: the offset is fixed
since `ReadOffsets`, and a partition only grows) and that `behind <= total`
(`TotalInv`), which adds the same one partition at a time; `Status` is monotonic in
the total. From `IInv` it needs that an offset never exceeds its partition.

The argument for the producer. What orders a partition is spread over the
connection, the handler and the client's queue, and `PInv` says how they agree.
`StreamInv`: the connection goes on at or right behind the Last-Event-ID, so a
replay repeats at most the last event. `QueueInv`: the queue holds read payloads in
feed order, on their way to where they belong; a replayed event joins it at the
end, equal to the last or later. `TopicInv`: nothing in a partition is later than
what is still queued for it or will be read. A restarted process has no last id
and reads from where the feed is now, which is why its case is stated by itself.
The client delivers per partition in order, and a failed delivery only shortens
the queue, so `OrderedPerPartition` follows and each `Deliver` is a `Publish` of
the contract. All other steps are stutters of it, but `Emit`.
`RepeatsOnlyAfterReconnect` makes the comparisons strict: without a broken
connection a process connects once, behind all that the feed held, and reads each
event once, so what is queued is strictly behind its partition (`OnceInv`). With
reconnects TLC finds repeated messages at once; the consumer de-duplicates them.

The argument for the healthchecker. Between rounds Redis and memory agree
(`StateMatchesHealth`); within one they differ, and `RoundInv` says by how much:
Redis agrees with the results of this round for the checks that are done, and for
the present one once it is past `set_status`. At the end of the list all are done
and `latest` becomes the results; that the order lists every check once is the
assumption on `Order`. `HeardInv` says where a delivered message is: stamped, about
to be, or in `unstamped`, where only a failure between `send` and the stamp puts
it. `AlertsThrottled` follows, because `throttle` lets a check pass only without a
recent stamp. `NoFailureNoRepeat` adds that without those failures `unstamped`
stays empty. `UnparsedNeverHeard` needs that from `alert` to `send` the text in hand
is one the check can have, hence one that does not parse; so `stamp` is not reached.

The argument for the partitions. `Covered` is inductive with the types: a day
later the same days are one day older, `DROP` never reaches today, and a creation
starts the count again. `SurvivesOutage` is not: it needs `MissedRuns`, which
charges every day since the last creation, except the present one, to a fault. So
while there are fewer faults than `days_ahead`, `Covered` reaches today, a row of
today finds its partition, and nothing can block the next creation.

The argument for the marts. `DInv` adds to the properties what a build relies on
between its nodes: `OrderInv` (a node is built after what it waits for, so the
facts do not change once a table above them is built), `ReachInv` (a fact that the
hourly table does not count yet is within its look-back, whatever builds failed:
the lemma `FactsWithinReach` compares the two windows, `WholeGroups` says that the
second one never splits a group) and `UnseenInv` (a row that is in time stays in
time until the next build of `fct_edits`, because only that build moves the newest
fact). `InTimeIsNeverLost` adds that no fact is of the future (`InTimeInv`): then a
row that is less than an hour late is less than an hour behind the newest fact.

The argument for the migrations. `TodoInv`: a file of the image that is not on a
process's list is applied, hence order and `ServingIsMigrated`. `RecordedInv`: a
process about to commit is the only one that has inserted its version, and nobody
has committed it, hence once.

Only model-checked: the liveness properties, because TLAPS does not reason about
the fairness they rest on. The violation runs are counterexamples and have nothing to
prove; what holds in the absence of the faults is proved: `NoFaultNoLoss`, `OutageSurvived`,
and besides `NoFailureNoRepeat`, `RepeatsOnlyAfterReconnect`, `InTimeIsNeverLost`.

## 5. Findings

Shown by a violation run:

1. `finally` commits the offsets of a batch whose write raised (`main.py:155-157`
   of the consumer; `docs/architecture.md:30-32` promises the opposite).
2. The de-duplication key precedes the row: a crash in between loses the event
   although Kafka replays it (`main.py:106`; `docs/architecture.md:32`).
3. Rows of a day without a partition block its creation, and with it that of the
   days after it and all of retention, for good while rows arrive before the run
   (`maintenance.py:36`; `docs/architecture.md:40`).
4. A wiki that is silent for longer than the retention leaves `dim_wiki`, which is
   rebuilt from raw, and not `fct_edits`: every `dbt_hourly` run fails its
   relationships test until the wiki is edited again (`dim_wiki.sql:5`;
   `_marts.yml:48`). The tables are refreshed all the same (`EventuallyReported`).

Shown by a theorem (`UnparsedNeverHeard`): `alerter.py:85` sends detail keys as
Markdown without escaping them, and an odd number of underscores makes Telegram
answer 400, which is logged (`alerter.py:93-95`). With a token set, problems of
`kafka_lag` with a lag (`kafka_lag.py:66-71`) and of `freshness` with an age
(`freshness.py:40-43`), and the recoveries of both, are therefore never announced,
however often they are sent again. `docs/railway-deploy.md:292-293` promises for a
stopped consumer, which is just these two, "Telegram log/alert (if configured)" and a
"recovery alert". `ProblemReported` is stated for the other problems.

Seen while modelling, without a run of their own: the backoff overflows after 1024
failures in a row and ends the process (`backoff.py:16`; "forever", `sse.py:52`;
`BackoffOverflow` is a step of the model); a `TimeoutError` or `RedisError` in the
alerter ends the checking thread and freezes `/health` (`runner.py:46`;
`docs/railway-deploy.md:292`; this is why `ServedWhileAlive` has its exception, and
no property speaks of a dead thread); the
"last 60 completed" minutes of the sparkline include the current one
(`live.py:23`); rows later than the look-back never reach `fct_edits`
(`fct_edits.sql:30`; the set `late`); a failed delivery is only
counted (`kafka_sink.py:67`; `DeliveryError` puts it into `undelivered`); the
producer publishes every valid event (`README.md:33` says it filters); a recovery
whose message is not taken is not announced again (`alerter.py:46`); `/health` reads
`latest` twice, so that body and code may come from two rounds (`app.py:17-18`);
a process that restarts has no Last-Event-ID and misses what happened meanwhile;
rows in the default partition are never dropped (`partitions.py:35`; "7 days",
`README.md:111`).

## 6. Not modelled, and the plan

Left out for good: chart and URL building, SQL text, settings, logging and
statistics, CI fixtures, images. Outside a single group member: rebalances.
Outside Kafka's promise: retention of the topic.

The thresholds of the data-quality checks and of most health checks are pure
comparisons of one query result; the models keep only where they stand and what
follows from their verdict.

Left, in this order:

1. `Pipeline` – `WikiProducer` and `WikiConsumer` over one topic: an event of the
   feed that was read ends as a row. Both sides are checked against the same
   reading of the topic; their product is beyond TLC at bounds that still say
   something about both, and tlapm does not let a proof cite the theorems of a
   module that is instantiated with other variables.
2. `LiveCounters` – minute buckets with a TTL, `edits_last_minute`, the sparkline
   and `RedisCheck` reading them while the consumer writes. Each reader takes
   single keys and keeps nothing.
3. Rebalance as an extension of `WikiConsumer` (two members, `position` and
   `pending` per member); the deployment has one.
