----------------------------- MODULE WikiConsumer -----------------------------
(***************************************************************************)
(* The consumer service (services/consumer): one process that polls a      *)
(* Kafka topic, drops what it need not keep, claims each event in a Redis  *)
(* de-duplication cache, batches rows, writes a batch to Postgres, counts  *)
(* it in Redis and commits the offsets it has handled.                     *)
(*                                                                         *)
(* One action is one step whose effect on Kafka, Redis or Postgres is      *)
(* visible: a crash, a signal or an error may fall between any two.        *)
(***************************************************************************)
EXTENDS Integers, Sequences, FiniteSets, Functions

CONSTANTS
    Partitions,     \* the partitions of wiki.recentchange
    Events,         \* the recent-change events (an event id with its timestamp)
    PartitionOf,    \* PartitionOf[e]: where the producer's key, the wiki, sends e
    Kind,           \* Kind[e]: what the consumer makes of e, see Kinds
    BatchSize,      \* Settings.batch_size
    Faults,         \* the kinds of fault this instance admits
    MaxCopies,      \* bound: how often the producer publishes one event
    MaxFaults       \* bound: how many faults a behaviour has

(***************************************************************************)
(* "edit": a row.  "poison": a row Postgres rejects.  "log": another       *)
(* change type, filtered.  "malformed": parse_payload or row_from_payload  *)
(* raises.  "undecodable": the value is not UTF-8, which raises outside    *)
(* the try of _handle_message.                                             *)
(***************************************************************************)
Kinds == {"edit", "poison", "log", "malformed", "undecodable"}

(***************************************************************************)
(* "crash": the process dies (SIGKILL, OOM).  "postgres": write_batch      *)
(* raises.  "kafka": poll or commit raises.  "redis": a call raises        *)
(* RedisError.  "expiry": the TTL of a de-duplication key runs out before  *)
(* the event is seen again.  "stop": SIGTERM or SIGINT.                    *)
(***************************************************************************)
FaultKinds == {"crash", "postgres", "kafka", "redis", "expiry", "stop"}

ASSUME ConsumerAssumption ==
    /\ PartitionOf \in [Events -> Partitions]
    /\ Kind \in [Events -> Kinds]
    /\ BatchSize \in Nat \ {0}
    /\ Faults \subseteq FaultKinds
    /\ MaxFaults \in Nat

NoOffset == -1      \* a partition without an entry in _pending_offsets

VARIABLES
    \* Kafka
    log,            \* log[p]: the messages of partition p
    committed,      \* committed[p]: the group's next offset
    \* Redis
    keys,           \* the events whose dedup:{event_id} key exists
    counted,        \* counted[e]: how often e has been added to the live counters
    \* Postgres
    store,          \* the events with a row in raw.recentchange
    \* the process
    pc,             \* where it is: "down" when there is no process
    signal,         \* _stopped: "stop" once the signal handler has run
    block,          \* the block of run it is in: "finally" once that flushes
    position,       \* position[p]: the next offset poll returns
    pending,        \* _pending_offsets
    buffer,         \* the rows of the BatchBuffer
    batch,          \* the rows _flush has drained and still works on
    timer,          \* "due" once max_wait_s have passed since the buffer was opened
    lost,           \* which of DedupStore and LiveCounters have latched _available = False
    \* history, read by the properties only
    dropped,        \* rows given up because their write_batch raised
    orphaned,       \* rows a killed process held, whose dedup key outlived it
    faults          \* how many faults there have been

kafka    == <<log, committed>>
redis    == <<keys, counted>>
control  == <<signal, block>>
offsets  == <<position, pending>>
rows     == <<buffer, batch, timer>>
history  == <<dropped, orphaned>>
vars     == <<kafka, redis, store, pc, control, offsets, rows, lost, history, faults>>

Locations == {"down", "poll", "check", "write", "count", "commit", "finally"}

WorldTypeOK ==
    /\ log \in [Partitions -> Seq(Events)]
    /\ committed \in [Partitions -> Nat]
    /\ keys \subseteq Events
    /\ counted \in [Events -> Nat]
    /\ store \subseteq Events

ProcessTypeOK ==
    /\ pc \in Locations
    /\ signal \in {"none", "stop"} /\ block \in {"loop", "finally"}
    /\ position \in [Partitions -> Nat]
    /\ pending \in [Partitions -> Nat \cup {NoOffset}]
    /\ buffer \in Seq(Events) /\ batch \in Seq(Events)
    /\ timer \in {"open", "due"}
    /\ lost \subseteq {"dedup", "counters"}

HistoryTypeOK ==
    /\ dropped \subseteq Events /\ orphaned \subseteq Events
    /\ faults \in 0 .. MaxFaults

TypeOK == WorldTypeOK /\ ProcessTypeOK /\ HistoryTypeOK

------------------------------------------------------------------------------
(* Vocabulary *)

Persistable(e) == Kind[e] \in {"edit", "poison"}    \* should_persist

Nothing == [p \in Partitions |-> NoOffset]          \* an empty _pending_offsets

Message(p) == log[p][position[p] + 1]               \* what poll returns from p

Held == Range(buffer) \cup Range(batch)             \* rows only in memory

\* Faulty: only the size of the batch matters.
ShouldFlushWhenFull == Len(buffer) >= BatchSize

\* BatchBuffer.should_flush
ShouldFlush == buffer # << >> /\ (Len(buffer) >= BatchSize \/ timer = "due")

\* One more fault of kind k, within the bound.
Suffer(k) == k \in Faults /\ faults < MaxFaults /\ faults' = faults + 1

------------------------------------------------------------------------------
(* Initial state, and the world around the process *)

Init ==
    /\ log = [p \in Partitions |-> << >>]
    /\ committed = [p \in Partitions |-> 0]
    /\ keys = {} /\ counted = [e \in Events |-> 0]
    /\ store = {}
    /\ pc = "down" /\ signal = "none" /\ block = "loop"
    /\ position = [p \in Partitions |-> 0] /\ pending = Nothing
    /\ buffer = << >> /\ batch = << >> /\ timer = "open" /\ lost = {}
    /\ dropped = {} /\ orphaned = {}
    /\ faults = 0

\* The producer appends an event, possibly one it has published before.
Publish(e) ==
    LET p == PartitionOf[e] IN
    /\ Cardinality({i \in DOMAIN log[p] : log[p][i] = e}) < MaxCopies
    /\ log' = [log EXCEPT ![p] = Append(@, e)]
    /\ UNCHANGED <<committed, redis, store, pc, control, offsets, rows, lost,
                   history, faults>>

\* The TTL of a de-duplication key runs out.
Expire(e) ==
    /\ "expiry" \in Faults
    /\ e \in keys /\ keys' = keys \ {e}
    /\ UNCHANGED <<kafka, counted, store, pc, control, offsets, rows, lost,
                   history, faults>>

\* max_wait_s pass since the buffer was opened.
Tick ==
    /\ pc # "down" /\ timer = "open" /\ timer' = "due"
    /\ UNCHANGED <<kafka, redis, store, pc, control, offsets, buffer, batch, lost,
                   history, faults>>

\* SIGTERM or SIGINT: the handler only sets the flag.
Stop ==
    /\ pc # "down" /\ signal = "none" /\ signal' = "stop"
    /\ Suffer("stop")
    /\ UNCHANGED <<kafka, redis, store, pc, block, offsets, rows, lost, history>>

------------------------------------------------------------------------------
(* The life of the process *)

\* The process is gone, and its memory with it.
ProcessEnds ==
    /\ pc' = "down" /\ signal' = "none" /\ block' = "loop"
    /\ position' = [p \in Partitions |-> 0] /\ pending' = Nothing
    /\ buffer' = << >> /\ batch' = << >> /\ timer' = "open" /\ lost' = {}

\* An exception leaves the loop for its finally block, or the finally block itself.
Raise ==
    \/ /\ block = "loop" /\ pc' = "finally" /\ batch' = << >>
       /\ UNCHANGED <<control, offsets, buffer, timer, lost>>
    \/ block = "finally" /\ ProcessEnds

\* _flush returns: to the loop, or from the finally block to the end of run.
Return ==
    \/ /\ block = "loop" /\ pc' = "poll"
       /\ UNCHANGED <<control, position, rows, lost>>
    \/ block = "finally" /\ ProcessEnds

\* Faulty: polling starts at the oldest message, whatever is committed.
StartAtEarliest ==
    /\ pc = "down" /\ pc' = "poll"
    /\ position' = [p \in Partitions |-> 0]
    /\ UNCHANGED <<kafka, redis, store, control, pending, rows, lost, history, faults>>

\* Faulty: polling starts after the newest message.
StartAtLatest ==
    /\ pc = "down" /\ pc' = "poll"
    /\ position' = [p \in Partitions |-> Len(log[p])]
    /\ UNCHANGED <<kafka, redis, store, control, pending, rows, lost, history, faults>>

\* Construct, connect, ping and subscribe: the group's offsets are where poll begins.
Start ==
    /\ pc = "down" /\ pc' = "poll"
    /\ position' = committed
    /\ \/ lost' = {} /\ UNCHANGED faults
       \/ lost' = {"dedup"} /\ Suffer("redis")
    /\ UNCHANGED <<kafka, redis, store, control, pending, rows, history>>

Crash ==
    /\ pc # "down" /\ Suffer("crash")
    /\ ProcessEnds
    /\ orphaned' = orphaned \cup ((Held \cap keys) \ store)
    /\ UNCHANGED <<kafka, redis, store, dropped>>

------------------------------------------------------------------------------
(* Polling and handling one message: _handle_message *)

\* Faulty: the first offset of a partition stays.
TrackFirstOffset(p, o) == pending' = [pending EXCEPT ![p] = IF @ = NoOffset THEN o ELSE @]

\* _track_offset keeps the largest offset of a partition.
TrackOffset(p, o) == pending' = [pending EXCEPT ![p] = IF o > @ THEN o ELSE @]

Take(p) ==
    /\ pc = "poll" /\ signal = "none"
    /\ position[p] < Len(log[p])
    /\ position' = [position EXCEPT ![p] = @ + 1]
    /\ TrackOffset(p, position[p])

HandleUndecodable(p) ==
    /\ Take(p) /\ Kind[Message(p)] = "undecodable"
    /\ pc' = "finally"
    /\ UNCHANGED <<kafka, redis, store, control, rows, lost, history, faults>>

HandleSkipped(p) ==
    /\ Take(p) /\ Kind[Message(p)] \in {"log", "malformed"}
    /\ pc' = "check"
    /\ UNCHANGED <<kafka, redis, store, control, rows, lost, history, faults>>

\* Faulty: SET without NX, every event looks new.
HandleDuplicateAsNew(p) ==
    /\ Take(p) /\ Persistable(Message(p))
    /\ "dedup" \notin lost /\ Message(p) \in keys
    /\ buffer' = Append(buffer, Message(p))
    /\ pc' = "check"
    /\ UNCHANGED <<kafka, redis, store, control, batch, timer, lost, history, faults>>

\* SET NX finds the key: the event has been claimed before.
HandleDuplicate(p) ==
    /\ Take(p) /\ Persistable(Message(p))
    /\ "dedup" \notin lost /\ Message(p) \in keys
    /\ pc' = "check"
    /\ UNCHANGED <<kafka, redis, store, control, rows, lost, history, faults>>

\* SET NX creates the key and the row is buffered.
HandleFresh(p) ==
    /\ Take(p) /\ Persistable(Message(p))
    /\ "dedup" \notin lost /\ Message(p) \notin keys
    /\ keys' = keys \cup {Message(p)}
    /\ buffer' = Append(buffer, Message(p))
    /\ pc' = "check"
    /\ UNCHANGED <<kafka, counted, store, control, batch, timer, lost, history, faults>>

\* Redis was lost before: everything counts as new.
HandleUnchecked(p) ==
    /\ Take(p) /\ Persistable(Message(p))
    /\ "dedup" \in lost
    /\ buffer' = Append(buffer, Message(p))
    /\ pc' = "check"
    /\ UNCHANGED <<kafka, redis, store, control, batch, timer, lost, history, faults>>

\* Faulty: a RedisError reads as "duplicate".
HandleDedupErrorAsDuplicate(p) ==
    /\ Take(p) /\ Persistable(Message(p))
    /\ "dedup" \notin lost /\ Suffer("redis") /\ lost' = lost \cup {"dedup"}
    /\ pc' = "check"
    /\ UNCHANGED <<kafka, redis, store, control, rows, history>>

\* The SET raises, whether or not it took effect: de-duplication is off from here on.
HandleDedupError(p) ==
    /\ Take(p) /\ Persistable(Message(p))
    /\ "dedup" \notin lost /\ Suffer("redis") /\ lost' = lost \cup {"dedup"}
    /\ keys' \in {keys, keys \cup {Message(p)}}
    /\ buffer' = Append(buffer, Message(p))
    /\ pc' = "check"
    /\ UNCHANGED <<kafka, counted, store, control, batch, timer, history>>

\* poll timed out, or reported the end of a partition, and no batch is due.
PollNothing ==
    /\ pc = "poll" /\ signal = "none" /\ ~ShouldFlush
    /\ UNCHANGED vars

PollError ==
    /\ pc = "poll" /\ signal = "none" /\ Suffer("kafka")
    /\ pc' = "finally"
    /\ UNCHANGED <<kafka, redis, store, control, offsets, rows, lost, history>>

\* Faulty: the loop runs until it is stopped and its buffer is empty.
SeeStopWhenEmpty ==
    /\ pc = "poll" /\ signal = "stop" /\ buffer = << >>
    /\ pc' = "finally"
    /\ UNCHANGED <<kafka, redis, store, control, offsets, rows, lost, history, faults>>

SeeStop ==
    /\ pc = "poll" /\ signal = "stop"
    /\ pc' = "finally"
    /\ UNCHANGED <<kafka, redis, store, control, offsets, rows, lost, history, faults>>

------------------------------------------------------------------------------
(* Flushing: _flush *)

\* The rows are taken out of the buffer before anything is done with them.
Drain ==
    /\ batch' = buffer /\ buffer' = << >> /\ timer' = "open"
    /\ pc' = IF buffer = << >> THEN "commit" ELSE "write"

\* poll timed out and a batch is due.
IdleFlush ==
    /\ pc = "poll" /\ signal = "none" /\ ShouldFlush
    /\ Drain
    /\ UNCHANGED <<kafka, redis, store, control, offsets, lost, history, faults>>

\* After a message: flush if a batch is due.
CheckFlush ==
    /\ pc = "check" /\ ShouldFlush
    /\ Drain
    /\ UNCHANGED <<kafka, redis, store, control, offsets, lost, history, faults>>

\* Faulty: enable.auto.commit, offsets move as messages are handled.
CheckContinueAutoCommit ==
    /\ pc = "check" /\ ~ShouldFlush
    /\ committed' = position
    /\ pc' = "poll"
    /\ UNCHANGED <<log, redis, store, control, offsets, rows, lost, history, faults>>

CheckContinue ==
    /\ pc = "check" /\ ~ShouldFlush
    /\ pc' = "poll"
    /\ UNCHANGED <<kafka, redis, store, control, offsets, rows, lost, history, faults>>

\* Faulty: the finally block commits and does not write.
FinallyCommitOnly ==
    /\ pc = "finally" /\ (buffer # << >> \/ pending # Nothing)
    /\ block' = "finally"
    /\ batch' = << >> /\ buffer' = << >> /\ pc' = "commit"
    /\ UNCHANGED <<kafka, redis, store, signal, offsets, timer, lost, history, faults>>

\* The finally block flushes what is left, rows or only offsets.
FinallyFlush ==
    /\ pc = "finally" /\ (buffer # << >> \/ pending # Nothing)
    /\ block' = "finally"
    /\ Drain
    /\ UNCHANGED <<kafka, redis, store, signal, offsets, lost, history, faults>>

FinallyEnd ==
    /\ pc = "finally" /\ buffer = << >> /\ pending = Nothing
    /\ ProcessEnds
    /\ UNCHANGED <<kafka, redis, store, history, faults>>

\* Postgres takes a batch as a whole, and only one without a row it rejects.
Acceptable == \A e \in Range(batch) : Kind[e] # "poison"

\* write_batch: INSERT ... ON CONFLICT DO NOTHING and COMMIT.
WriteBatch ==
    /\ pc = "write" /\ Acceptable
    /\ store' = store \cup Range(batch)
    /\ pc' = "count"
    /\ UNCHANGED <<kafka, redis, control, offsets, rows, lost, history, faults>>

\* Faulty: the exception is swallowed and the batch goes on.
WriteErrorSwallowed ==
    /\ pc = "write"
    /\ (~Acceptable /\ UNCHANGED faults) \/ Suffer("postgres")
    /\ dropped' = dropped \cup (Range(batch) \ store)
    /\ pc' = "count"
    /\ UNCHANGED <<kafka, redis, store, control, offsets, rows, lost, orphaned>>

\* write_batch raises before the transaction commits: nothing is stored.
WriteError ==
    /\ pc = "write"
    /\ (~Acceptable /\ UNCHANGED faults) \/ Suffer("postgres")
    /\ dropped' = dropped \cup (Range(batch) \ store)
    /\ Raise
    /\ UNCHANGED <<kafka, redis, store, orphaned>>

\* The transaction commits and the answer is lost: stored, yet write_batch raises.
WriteAnswerLost ==
    /\ pc = "write" /\ Acceptable /\ Suffer("postgres")
    /\ store' = store \cup Range(batch)
    /\ Raise
    /\ UNCHANGED <<kafka, redis, history>>

\* increment: one row's minute keys, in one pipeline.
Count ==
    /\ pc = "count" /\ batch # << >> /\ "counters" \notin lost
    /\ counted' = [counted EXCEPT ![Head(batch)] = @ + 1]
    /\ batch' = Tail(batch)
    /\ UNCHANGED <<kafka, keys, store, pc, control, offsets, buffer, timer, lost,
                   history, faults>>

\* The pipeline raises, whether or not it took effect: counting is off from here on.
CountError ==
    /\ pc = "count" /\ batch # << >> /\ "counters" \notin lost
    /\ Suffer("redis") /\ lost' = lost \cup {"counters"}
    /\ counted' \in {counted, [counted EXCEPT ![Head(batch)] = @ + 1]}
    /\ batch' = Tail(batch)
    /\ UNCHANGED <<kafka, keys, store, pc, control, offsets, buffer, timer, history>>

CountDone ==
    /\ pc = "count" /\ (batch = << >> \/ "counters" \in lost)
    /\ batch' = << >> /\ pc' = "commit"
    /\ UNCHANGED <<kafka, redis, store, control, offsets, buffer, timer, lost,
                   history, faults>>

\* Faulty: commits the last handled offset itself.
AdvanceWithoutIncrement == committed' = pending

\* _commit_offsets, synchronous: the offset after the last one handled.
Advance ==
    committed' = [p \in Partitions |-> IF pending[p] = NoOffset THEN committed[p]
                                                               ELSE pending[p] + 1]

CommitOffsets ==
    /\ pc = "commit"
    /\ Advance /\ pending' = Nothing
    /\ Return
    /\ UNCHANGED <<log, redis, store, history, faults>>

\* commit raises, whether or not the broker applied it; nothing to commit cannot raise.
CommitError ==
    /\ pc = "commit" /\ pending # Nothing /\ Suffer("kafka")
    /\ Advance \/ UNCHANGED committed
    /\ Raise
    /\ UNCHANGED <<log, redis, store, history>>

------------------------------------------------------------------------------
(* Next-state relation and fairness *)

Handle(p) ==
    \/ HandleUndecodable(p) \/ HandleSkipped(p) \/ HandleDuplicate(p)
    \/ HandleFresh(p) \/ HandleUnchecked(p) \/ HandleDedupError(p)

Flush ==
    \/ IdleFlush \/ CheckFlush \/ CheckContinue \/ FinallyFlush \/ FinallyEnd
    \/ WriteBatch \/ WriteError \/ WriteAnswerLost
    \/ Count \/ CountError \/ CountDone
    \/ CommitOffsets \/ CommitError

Next ==
    \/ \E e \in Events : Publish(e) \/ Expire(e)
    \/ \E p \in Partitions : Handle(p)
    \/ Tick \/ Stop \/ Crash \/ Start \/ PollNothing \/ PollError \/ SeeStop
    \/ Flush

Spec == Init /\ [][Next]_vars

(***************************************************************************)
(* The loop runs on and time passes; a dead container is restarted         *)
(* (restart: unless-stopped); librdkafka serves each partition that has    *)
(* messages again and again, whatever the others hold.  No fault is fair.  *)
(***************************************************************************)
Fairness ==
    /\ WF_vars(Start) /\ WF_vars(Tick) /\ WF_vars(SeeStop) /\ WF_vars(Flush)
    /\ \A p \in Partitions : SF_vars(Handle(p))

FairSpec == Spec /\ Fairness

------------------------------------------------------------------------------
(* Properties *)

Due(p, n) == {e \in Events : Persistable(e) /\ \E i \in 1 .. n : log[p][i] = e}

Settled == store \cup dropped \cup orphaned

(***************************************************************************)
(* Whatever fails, a committed event that should have a row has one,       *)
(* unless its row was in a batch whose write raised, or in the memory of a *)
(* process that was killed after claiming it: there is no third way to     *)
(* lose an event (_flush, _commit_offsets, is_duplicate).                  *)
(***************************************************************************)
LossAccounted == \A p \in Partitions : Due(p, committed[p]) \subseteq Settled

(***************************************************************************)
(* The promise of docs/architecture.md:30-32, "commits offsets only after  *)
(* a successful Postgres batch", "no lost events on retry": whatever is    *)
(* committed is stored.  It needs an instance whose writes and processes   *)
(* do not fail (run and finally in main.py:112-160).                       *)
(***************************************************************************)
CommittedIsStored == \A p \in Partitions : Due(p, committed[p]) \subseteq store

(***************************************************************************)
(* The process is never the only owner of an event: a row it holds and has *)
(* not stored is still ahead of the committed offset of its partition, so  *)
(* Kafka will deliver it again.                                            *)
(***************************************************************************)
HeldIsReplayable ==
    \A e \in Held \ store :
        LET p == PartitionOf[e]
        IN  \E i \in committed[p] + 1 .. Len(log[p]) : log[p][i] = e

(***************************************************************************)
(* The live counters never show an edit that Postgres does not have:       *)
(* increment_many comes after write_batch, whatever is killed or replayed. *)
(***************************************************************************)
CountedIsStored == \A e \in Events : counted[e] > 0 => e \in store

(***************************************************************************)
(* With Redis up and its keys alive, no edit is counted twice, however     *)
(* often it is published, replayed after a crash or re-read after a failed *)
(* commit (DedupStore.is_duplicate before LiveCounters.increment).         *)
(***************************************************************************)
CountedOnce == \A e \in Events : counted[e] <= 1

(***************************************************************************)
(* Within one group member the committed offset of a partition never moves *)
(* back, and where it moves it moves to exactly what has been handled.     *)
(***************************************************************************)
CommitsAdvance ==
    [][\A p \in Partitions : committed'[p] # committed[p] =>
          committed[p] < committed'[p] /\ committed'[p] = position[p]]_vars

(***************************************************************************)
(* The inductive invariant behind the theorems of WikiConsumerProofs.      *)
(***************************************************************************)
ControlInv ==
    /\ pc = "down" => /\ buffer = << >> /\ batch = << >> /\ pending = Nothing
                      /\ block = "loop" /\ signal = "none" /\ timer = "open"
    /\ pc \in {"poll", "check", "finally"} => block = "loop" /\ batch = << >>
    /\ pc \in {"write", "count", "commit"} => buffer = << >>
    /\ pc = "count" => Range(batch) \subseteq store
    /\ pc = "commit" => batch = << >>

OffsetInv ==
    \A p \in Partitions :
        /\ committed[p] <= Len(log[p])
        /\ pc # "down" => committed[p] <= position[p] /\ position[p] <= Len(log[p])
        /\ pending[p] # NoOffset => pending[p] + 1 = position[p]

LogInv == \A p \in Partitions : \A i \in DOMAIN log[p] : PartitionOf[log[p][i]] = p

HeldInv == \A e \in Held : Persistable(e)

\* Only what is settled or in memory keeps others from being written.
KeyInv == keys \subseteq Settled \cup Held

HandledInv ==
    pc # "down" => \A p \in Partitions : Due(p, position[p]) \subseteq Settled \cup Held

IInv ==
    /\ TypeOK /\ ControlInv /\ OffsetInv /\ LogInv /\ HeldInv /\ HeldIsReplayable
    /\ KeyInv /\ HandledInv /\ LossAccounted /\ CountedIsStored

\* Behind CountedOnce: a row that is still to be counted is held once and has a key.
Distinct(s) == \A i, j \in DOMAIN s : s[i] = s[j] => i = j

CountInv ==
    /\ lost = {}
    /\ Held \subseteq keys
    /\ Distinct(buffer) /\ Distinct(batch)
    /\ \A e \in Held : counted[e] = 0
    /\ \A e \in Events : counted[e] <= 1 /\ (counted[e] # 0 => e \in keys)

\* Whether the instance admits one of the two ways to lose an event.
LossPossible ==
    "crash" \in Faults \/ "postgres" \in Faults \/ \E e \in Events : Kind[e] = "poison"

\* The consumer implements the contract of AtLeastOnceSink, lossy if it may be hit.
Sink == INSTANCE AtLeastOnceSink WITH
    published <- log, acked <- committed, stored <- store,
    forfeited <- dropped \cup orphaned,
    Wanted <- {e \in Events : Persistable(e)},
    Lossy <- LossPossible

SinkSpec == Sink!Spec

(***************************************************************************)
(* Every published event that should have a row gets one, or is given up   *)
(* for one of the two known reasons: nothing is left in memory for ever.   *)
(***************************************************************************)
EventuallySettled ==
    \A e \in Events :
        (Persistable(e) /\ e \in Range(log[PartitionOf[e]])) ~> (e \in Settled)

(***************************************************************************)
(* Every event that should have a row is committed in the end, across      *)
(* stops and Redis failures.  Not so after a failed commit or a crash: a   *)
(* replayed tail of duplicates buffers nothing, and only a flush commits.  *)
(***************************************************************************)
EventuallyCommitted ==
    \A e \in Events :
        LET p == PartitionOf[e]
        IN  (Persistable(e) /\ e \in Range(log[p])) ~> (e \in Due(p, committed[p]))

\* A signalled process ends, even when its last flush fails (run's finally block).
StopEnds == (signal = "stop") ~> (pc = "down")

=============================================================================
