----------------------------- MODULE WikiProducer -----------------------------
(***************************************************************************)
(* The producer service (services/producer): one process that reads the    *)
(* Wikimedia EventStreams feed over SSE, resumes it with Last-Event-ID     *)
(* after a disconnect, and hands each payload to a Kafka client, which     *)
(* delivers in the background.                                             *)
(*                                                                         *)
(* An event is known by its position in the feed, which is also its SSE    *)
(* id.  Two events of one wiki have the same key, hence the same partition.*)
(***************************************************************************)
EXTENDS Integers, Sequences, Functions

CONSTANTS
    Partitions,     \* the partitions of wiki.recentchange
    Dlq,            \* the one partition of wiki.recentchange.dlq
    Payloads,       \* what an event of the feed may carry
    PartitionOf,    \* PartitionOf[d]: where the key of payload d, its wiki, leads
    Class,          \* Class[d]: what the producer makes of payload d, see Classes
    Overflow,       \* the first attempt whose 2 ** attempt no float can hold
    QueueLimit,     \* queue.buffering.max.messages of the Kafka client
    Faults,         \* the kinds of fault this instance admits
    MaxFeed,        \* bound: how many events the feed has
    MaxFaults       \* bound: how many faults a behaviour has

(***************************************************************************)
(* "edit": an edit or a new page.  "log": any other valid change.          *)
(* "invalid": parse_event raises ParseError.  "empty": no data at all.     *)
(***************************************************************************)
Classes == {"edit", "log", "invalid", "empty"}

(***************************************************************************)
(* "network": connecting or reading raises httpx.HTTPError or SSEError, or *)
(* the server ends the stream.  "delivery": a delivery report carries an   *)
(* error, or flush runs out of time.  "crash": the process dies.  "stop":  *)
(* SIGTERM or SIGINT.                                                      *)
(***************************************************************************)
FaultKinds == {"network", "delivery", "crash", "stop"}

Topics == Partitions \cup {Dlq}

ASSUME ProducerAssumption ==
    /\ Dlq \notin Partitions
    /\ PartitionOf \in [Payloads -> Partitions]
    /\ Class \in [Payloads -> Classes]
    /\ Overflow \in Nat \ {0} /\ QueueLimit \in Nat \ {0}
    /\ Faults \subseteq FaultKinds
    /\ MaxFeed \in Nat /\ MaxFaults \in Nat

VARIABLES
    feed,           \* the events of the SSE stream
    topic,          \* topic[t]: the feed positions Kafka holds in t
    \* the process
    pc,             \* where it is: "down" when there is no process
    signal,         \* _stopped: "stop" once the signal handler has run
    lastId,         \* _last_event_id, 0 for None
    cursor,         \* the next position the open connection will send
    attempt,        \* ExponentialBackoff._attempt
    queue,          \* messages accepted by produce and not yet resolved
    reports,        \* resolved messages whose callback poll has not served
    \* history, read by the properties only
    seen,           \* the positions this process has read
    undelivered,    \* positions given up: delivery failed, or never flushed
    faults          \* how many faults there have been

stream  == <<lastId, cursor, attempt, seen>>
client  == <<queue, reports>>
kafka   == <<topic, undelivered>>
vars    == <<feed, kafka, pc, signal, stream, client, faults>>

Locations == {"down", "connect", "read", "handle", "backoff", "close"}

Message == [to : Topics, id : Nat \ {0}]

TypeOK ==
    /\ feed \in Seq(Payloads)
    /\ topic \in [Topics -> Seq(Nat \ {0})]
    /\ pc \in Locations /\ signal \in {"none", "stop"}
    /\ lastId \in Nat /\ cursor \in Nat
    /\ attempt \in 0 .. Overflow
    /\ queue \in Seq(Message) /\ reports \in Nat
    /\ seen \subseteq Nat /\ undelivered \subseteq Nat
    /\ faults \in 0 .. MaxFaults

------------------------------------------------------------------------------
(* Vocabulary *)

Suffer(k) == k \in Faults /\ faults < MaxFaults /\ faults' = faults + 1

ClassAt(i) == Class[feed[i]]

Pending == {m.id : m \in Range(queue)}

Stored == UNION {Range(topic[t]) : t \in Topics}

\* event_message and send_dlq: where the event at position i goes.
Route(i) == IF ClassAt(i) = "invalid" THEN Dlq ELSE PartitionOf[feed[i]]

------------------------------------------------------------------------------
(* Initial state and the world around the process *)

Init ==
    /\ feed = << >> /\ topic = [t \in Topics |-> << >>]
    /\ pc = "down" /\ signal = "none"
    /\ lastId = 0 /\ cursor = 0 /\ attempt = 0
    /\ queue = << >> /\ reports = 0
    /\ seen = {} /\ undelivered = {}
    /\ faults = 0

\* Wikimedia publishes an event.
Emit(d) ==
    /\ Len(feed) < MaxFeed
    /\ feed' = Append(feed, d)
    /\ UNCHANGED <<kafka, pc, signal, stream, client, faults>>

\* SIGTERM or SIGINT: EventStream.stop only sets the flag.
Stop ==
    /\ pc # "down" /\ signal = "none" /\ signal' = "stop"
    /\ Suffer("stop")
    /\ UNCHANGED <<feed, kafka, pc, stream, client>>

\* Faulty: without enable.idempotence, retries reorder a partition.
ResolveAnyOrder(i) ==
    /\ pc # "down"
    /\ i \in DOMAIN queue
    /\ queue' = [j \in 1 .. Len(queue) - 1 |-> IF j < i THEN queue[j] ELSE queue[j + 1]]
    /\ reports' = reports + 1

(***************************************************************************)
(* The background thread of the Kafka client.  acks=all and                *)
(* enable.idempotence: per partition in order, each message at most once.  *)
(***************************************************************************)
Resolve(i) ==
    /\ pc # "down"
    /\ i \in DOMAIN queue
    /\ \A j \in 1 .. i - 1 : queue[j].to # queue[i].to
    /\ queue' = [j \in 1 .. Len(queue) - 1 |-> IF j < i THEN queue[j] ELSE queue[j + 1]]
    /\ reports' = reports + 1

Deliver(i) ==
    /\ Resolve(i)
    /\ topic' = [topic EXCEPT ![queue[i].to] = Append(@, queue[i].id)]
    /\ UNCHANGED <<feed, pc, signal, stream, undelivered, faults>>

\* message.timeout.ms runs out: _on_delivery counts and logs the error, no more.
DeliveryError(i) ==
    /\ Resolve(i) /\ Suffer("delivery")
    /\ undelivered' = undelivered \cup {queue[i].id}
    /\ UNCHANGED <<feed, topic, pc, signal, stream>>

------------------------------------------------------------------------------
(* The life of the process *)

\* What the process still holds: queued messages, and a payload on its way to produce.
Unfinished == Pending \cup {i \in {lastId} : pc = "handle"}

\* The process is gone, with its Last-Event-ID and all it has not delivered.
ProcessEnds ==
    /\ pc' = "down" /\ signal' = "none"
    /\ lastId' = 0 /\ cursor' = 0 /\ attempt' = 0 /\ seen' = {}
    /\ queue' = << >> /\ reports' = 0
    /\ undelivered' = undelivered \cup Unfinished
    /\ UNCHANGED <<feed, topic>>

\* ensure_topics, then run constructs the stream and the sink.
Start ==
    /\ pc = "down" /\ pc' = "connect"
    /\ UNCHANGED <<feed, kafka, signal, stream, client, faults>>

Crash ==
    /\ pc # "down" /\ Suffer("crash")
    /\ ProcessEnds

------------------------------------------------------------------------------
(* EventStream.events *)

\* Faulty: every connection starts with the next event of the feed.
ConnectLive ==
    /\ pc = "connect" /\ signal = "none"
    /\ pc' = "read"
    /\ cursor' = Len(feed) + 1
    /\ UNCHANGED <<feed, kafka, signal, lastId, attempt, seen, client, faults>>

(***************************************************************************)
(* The loop condition, then a connection.  Without Last-Event-ID the       *)
(* server starts with the next event; with it, it replays from there, and  *)
(* may send the last one again.                                            *)
(***************************************************************************)
Connect ==
    /\ pc = "connect" /\ signal = "none"
    /\ pc' = "read"
    /\ cursor' \in IF lastId = 0 THEN {Len(feed) + 1} ELSE {lastId, lastId + 1}
    /\ UNCHANGED <<feed, kafka, signal, lastId, attempt, seen, client, faults>>

LeaveLoop ==
    /\ pc = "connect" /\ signal = "stop"
    /\ pc' = "close"
    /\ UNCHANGED <<feed, kafka, signal, stream, client, faults>>

\* An event arrives: the backoff is reset and its id kept before it is yielded.
Read ==
    /\ pc = "read" /\ signal = "none" /\ cursor \in 1 .. Len(feed)
    /\ attempt' = 0
    /\ lastId' = cursor /\ cursor' = cursor + 1 /\ seen' = seen \cup {cursor}
    /\ pc' = IF ClassAt(cursor) = "empty" THEN "read" ELSE "handle"
    /\ UNCHANGED <<feed, kafka, signal, client, faults>>

\* An event arrives after stop(): it is not looked at.
ReadStopped ==
    /\ pc = "read" /\ signal = "stop" /\ cursor \in 1 .. Len(feed)
    /\ pc' = "close"
    /\ UNCHANGED <<feed, kafka, signal, stream, client, faults>>

\* The server ends the stream: round the loop, without a pause.
EndOfStream ==
    /\ pc = "read" /\ Suffer("network")
    /\ pc' = "connect"
    /\ UNCHANGED <<feed, kafka, signal, stream, client>>

\* Connecting or reading fails after stop().
DisconnectStopped ==
    /\ pc = "read" /\ signal = "stop" /\ Suffer("network")
    /\ pc' = "close"
    /\ UNCHANGED <<feed, kafka, signal, stream, client>>

\* Faulty: a read that times out is taken for an empty one.
ReadTimeoutIgnored ==
    /\ pc = "read" /\ signal = "stop" /\ cursor > Len(feed)
    /\ UNCHANGED vars

\* The feed stays silent for sse_read_timeout_s: a ReadTimeout is an HTTPError.
ReadTimeout ==
    /\ pc = "read" /\ signal = "stop" /\ cursor > Len(feed)
    /\ pc' = "close"
    /\ UNCHANGED <<feed, kafka, signal, stream, client, faults>>

Connecting == pc \in {"connect", "read"} /\ signal = "none"

\* Connecting or reading fails: next_delay, then sleep.
Disconnect ==
    /\ Connecting /\ Suffer("network")
    /\ attempt < Overflow /\ attempt' = attempt + 1
    /\ pc' = "backoff"
    /\ UNCHANGED <<feed, kafka, signal, lastId, cursor, seen, client>>

\* base * 2 ** attempt overflows: next_delay raises out of the except clause.
BackoffOverflow ==
    /\ Connecting /\ Suffer("network")
    /\ attempt = Overflow
    /\ ProcessEnds

Wake ==
    /\ pc = "backoff" /\ pc' = "connect"
    /\ UNCHANGED <<feed, kafka, signal, stream, client, faults>>

------------------------------------------------------------------------------
(* The main loop, and what follows it *)

\* Faulty: invalid payloads are dropped.
ProduceValidOnly ==
    /\ pc = "handle" /\ Len(queue) + reports < QueueLimit
    /\ queue' = IF ClassAt(lastId) = "invalid" THEN queue
                ELSE Append(queue, [to |-> Route(lastId), id |-> lastId])
    /\ reports' = 0
    /\ pc' = "read"
    /\ UNCHANGED <<feed, kafka, signal, stream, faults>>

\* Faulty: poll is taken to serve one callback, ready or not.
ProduceServesOne ==
    /\ pc = "handle" /\ Len(queue) + reports < QueueLimit
    /\ queue' = Append(queue, [to |-> Route(lastId), id |-> lastId])
    /\ reports' = reports - 1
    /\ pc' = "read"
    /\ UNCHANGED <<feed, kafka, signal, stream, faults>>

\* send_event or send_dlq, then poll serves the callbacks that are ready.
Produce ==
    /\ pc = "handle" /\ Len(queue) + reports < QueueLimit
    /\ queue' = Append(queue, [to |-> Route(lastId), id |-> lastId])
    /\ reports' = 0
    /\ pc' = "read"
    /\ UNCHANGED <<feed, kafka, signal, stream, faults>>

\* produce raises BufferError, which nothing catches.
QueueFull ==
    /\ pc = "handle" /\ Len(queue) + reports >= QueueLimit
    /\ ProcessEnds
    /\ UNCHANGED faults

\* KafkaSink.close: flush(30) sees everything resolved.
Close ==
    /\ pc = "close" /\ queue = << >>
    /\ ProcessEnds
    /\ UNCHANGED faults

\* flush(30) returns with messages left: flush_incomplete is logged.
CloseIncomplete ==
    /\ pc = "close" /\ queue # << >> /\ Suffer("delivery")
    /\ ProcessEnds

------------------------------------------------------------------------------
(* Next-state relation and fairness *)

\* Nothing arrives, or nothing is due: the process waits in a read.
Wait ==
    /\ pc = "read" /\ signal = "none" /\ cursor > Len(feed)
    /\ UNCHANGED vars

Run ==
    \/ Start \/ Connect \/ LeaveLoop \/ Read \/ ReadStopped \/ ReadTimeout \/ Wake
    \/ Produce \/ QueueFull \/ Close

Network == EndOfStream \/ DisconnectStopped \/ Disconnect \/ BackoffOverflow

Next ==
    \/ \E d \in Payloads : Emit(d)
    \/ \E i \in DOMAIN queue : Deliver(i) \/ DeliveryError(i)
    \/ Stop \/ Crash \/ Wait
    \/ Run \/ Network \/ CloseIncomplete

Spec == Init /\ [][Next]_vars

(***************************************************************************)
(* The process runs on, sleeps end, a silent read times out, the broker    *)
(* takes messages, and a dead container is restarted.  No fault is fair.   *)
(***************************************************************************)
Fairness ==
    /\ WF_vars(Run)
    /\ WF_vars(\E i \in DOMAIN queue : Deliver(i))

FairSpec == Spec /\ Fairness

------------------------------------------------------------------------------
(* Properties *)

\* What this process has read and must hand to Kafka.
Owed == {i \in seen : ClassAt(i) # "empty"}

(***************************************************************************)
(* Every payload read is in Kafka, on its way there, or given up with a    *)
(* failed delivery or with the process: produce, the callbacks and the     *)
(* reconnects together lose nothing else.                                  *)
(***************************************************************************)
OwedIsAccounted == Owed \subseteq Stored \cup Unfinished \cup undelivered

(***************************************************************************)
(* "No events are lost across disconnects" (sse.py:3-4): from the first    *)
(* event a process reads, it reads every later one up to its Last-Event-ID *)
(* whatever connections break in between.                                  *)
(***************************************************************************)
NoGap ==
    /\ \A i, j \in seen : i .. j \subseteq seen
    /\ seen # {} => lastId \in seen /\ \A i \in seen : i <= lastId

(***************************************************************************)
(* Ordering per wiki (kafka_sink.py:16): a partition holds its events in   *)
(* feed order, across reconnects, failed deliveries and restarts.          *)
(***************************************************************************)
OrderedPerPartition ==
    \A t \in Topics : \A m, n \in DOMAIN topic[t] : m < n => topic[t][m] <= topic[t][n]

(***************************************************************************)
(* The producer implements the contract of OrderedTopic: whatever happens  *)
(* to connections, deliveries and processes, each message it leaves in     *)
(* Kafka is an event of the feed, in the partition of its wiki or the DLQ, *)
(* and behind every earlier event there (event_message, send_dlq).         *)
(***************************************************************************)
Contract == INSTANCE OrderedTopic WITH
    Publishable <- {d \in Payloads : Class[d] # "empty"},
    Destination <- [d \in Payloads |->
                        IF Class[d] = "invalid" THEN Dlq ELSE PartitionOf[d]]

ContractSpec == Contract!Spec

(***************************************************************************)
(* A process that knows an event id catches up with the feed, unless it    *)
(* ends or is told to.                                                     *)
(***************************************************************************)
CatchesUp ==
    (lastId # 0) ~> (lastId = Len(feed) \/ signal = "stop" \/ pc = "down")

(***************************************************************************)
(* Invalid payloads included, what is read reaches Kafka, or is given up.  *)
(***************************************************************************)
EventuallyStored ==
    \A i \in 1 .. MaxFeed : (i \in Owed) ~> (i \in Stored \cup undelivered)

(***************************************************************************)
(* A signalled process ends: the flag is seen at the next event, the next  *)
(* error or the read timeout, and flush waits for the broker.              *)
(***************************************************************************)
StopEnds == (signal = "stop") ~> (pc = "down")

=============================================================================
