-------------------------- MODULE WikiProducerProofs --------------------------
(***************************************************************************)
(* Theorems about WikiProducer: for every feed, topic and key, every size  *)
(* of the client's queue and every combination and number of faults.       *)
(***************************************************************************)
EXTENDS WikiProducer, SequenceTheorems, TLAPS

------------------------------------------------------------------------------
(* The inductive invariant *)

\* What the process has read ends at its Last-Event-ID, and the connection goes on there.
StreamInv ==
    /\ lastId \in 0 .. Len(feed)
    /\ seen \subseteq 1 .. lastId
    /\ lastId # 0 => lastId \in seen
    /\ pc = "read" => IF lastId = 0 THEN cursor \in 1 .. Len(feed) + 1
                                    ELSE cursor \in {lastId, lastId + 1}
    /\ pc = "handle" => lastId # 0 /\ cursor = lastId + 1 /\ ClassAt(lastId) # "empty"

\* The queue holds what was read, in the order of the feed and on its right way.
QueueInv ==
    /\ \A i \in DOMAIN queue :
          /\ queue[i].id <= lastId
          /\ ClassAt(queue[i].id) # "empty" /\ queue[i].to = Route(queue[i].id)
    /\ \A i, j \in DOMAIN queue : i < j => queue[i].id <= queue[j].id

\* Position n of the feed is behind all that partition t holds.
Behind(t, n) == \A m \in DOMAIN topic[t] : topic[t][m] <= n

TopicInv ==
    \A t \in Topics :
        /\ Behind(t, IF lastId # 0 THEN lastId ELSE Len(feed))
        /\ pc = "read" /\ lastId = 0 => Behind(t, cursor - 1)
        /\ \A i \in DOMAIN queue : queue[i].to = t => Behind(t, queue[i].id)

PInv ==
    /\ TypeOK /\ StreamInv /\ QueueInv /\ TopicInv
    /\ NoGap /\ OwedIsAccounted /\ OrderedPerPartition

------------------------------------------------------------------------------
(* Constants and the parts that actions share *)

LEMMA RouteType ==
    ASSUME TypeOK, NEW i \in 1 .. Len(feed)
    PROVE  Route(i) \in Topics /\ feed[i] \in Payloads
BY ProducerAssumption DEF ProducerAssumption, Route, Topics, TypeOK

LEMMA SufferType ==
    ASSUME TypeOK, NEW k, Suffer(k)
    PROVE  faults' \in 0 .. MaxFaults
BY ProducerAssumption DEF ProducerAssumption, Suffer, TypeOK

\* What holds of later positions, too.
LEMMA BehindMore ==
    ASSUME TypeOK, NEW t \in Topics, NEW m \in Nat, NEW n \in Nat, Behind(t, m), m <= n
    PROVE  Behind(t, n)
<1>1. \A k \in DOMAIN topic[t] : topic[t][k] \in Nat
  BY DEF TypeOK
<1> QED
  BY <1>1 DEF Behind

\* A message in the queue is an event the process has read.
LEMMA QueuedType ==
    ASSUME PInv, NEW i \in DOMAIN queue
    PROVE  /\ queue[i].id \in 1 .. lastId /\ queue[i].id \in Nat
           /\ lastId # 0 /\ lastId \in Nat /\ queue[i].id \in 1 .. Len(feed)
           /\ queue[i].to \in Topics
<1>1. queue[i] \in Message
  BY DEF PInv, TypeOK
<1> QED
  BY <1>1 DEF PInv, TypeOK, StreamInv, QueueInv, Message

------------------------------------------------------------------------------
(* Steps *)

(***************************************************************************)
(* The process moves between connections and changes neither what it has   *)
(* read nor what it has handed over.                                       *)
(***************************************************************************)
LEMMA MoveStep ==
    ASSUME PInv, UNCHANGED <<feed, kafka, lastId, seen, queue>>,
           \/ pc' = pc /\ cursor' = cursor
           \/ pc' \in Locations \ {"read", "handle"} /\ pc # "handle" /\ cursor' \in Nat,
           signal' \in {"none", "stop"}, attempt' \in 0 .. Overflow,
           reports' \in Nat, faults' \in 0 .. MaxFaults
    PROVE  PInv'
<1> USE DEF kafka
<1>1. TypeOK'
  BY DEF PInv, TypeOK
<1>2. StreamInv' /\ NoGap'
  BY DEF PInv, StreamInv, ClassAt, NoGap
<1>3. QueueInv' /\ TopicInv' /\ OrderedPerPartition'
  BY DEF PInv, QueueInv, TopicInv, Behind, ClassAt, Route, OrderedPerPartition
<1>4. OwedIsAccounted'
  BY DEF PInv, OwedIsAccounted, Owed, ClassAt, Stored, Unfinished, Pending
<1> QED
  BY <1>1, <1>2, <1>3, <1>4 DEF PInv

LEMMA EmitStep ==
    ASSUME PInv, NEW d \in Payloads, Emit(d)
    PROVE  PInv'
<1> USE DEF kafka, stream, client
<1>0. TypeOK /\ StreamInv
  BY DEF PInv
<1>1. /\ feed' \in Seq(Payloads) /\ Len(feed) \in Nat /\ Len(feed') = Len(feed) + 1
      /\ \A i \in 1 .. Len(feed) : feed'[i] = feed[i]
  BY <1>0 DEF Emit, TypeOK
<1>2. \A i \in 1 .. Len(feed) : ClassAt(i)' = ClassAt(i) /\ Route(i)' = Route(i)
  BY <1>1 DEF ClassAt, Route
<1>3. TypeOK'
  BY <1>0, <1>1 DEF Emit, TypeOK
<1>4. StreamInv' /\ NoGap'
  BY <1>0, <1>1, <1>2 DEF Emit, PInv, StreamInv, NoGap
<1>5. QueueInv'
  BY <1>2, QueuedType DEF Emit, PInv, QueueInv
<1>6. TopicInv'
  <2> SUFFICES ASSUME NEW t \in Topics
               PROVE  /\ Behind(t, IF lastId # 0 THEN lastId ELSE Len(feed'))
                      /\ pc = "read" /\ lastId = 0 => Behind(t, cursor - 1)
                      /\ \A i \in DOMAIN queue :
                            queue[i].to = t => Behind(t, queue[i].id)
    BY DEF Emit, TopicInv, Behind
  <2>1. Behind(t, Len(feed)) => Behind(t, Len(feed'))
    BY <1>0, <1>1, BehindMore
  <2> QED
    BY <2>1 DEF PInv, TopicInv
<1>7. OrderedPerPartition'
  BY DEF Emit, PInv, OrderedPerPartition
<1>8. OwedIsAccounted'
  <2>1. \A i \in seen : ClassAt(i)' = ClassAt(i)
    BY <1>0, <1>1, <1>2 DEF StreamInv
  <2>2. Owed' = Owed
    BY <2>1 DEF Emit, Owed
  <2> QED
    BY <2>2 DEF Emit, PInv, OwedIsAccounted, Stored, Unfinished, Pending
<1> QED
  BY <1>3, <1>4, <1>5, <1>6, <1>7, <1>8 DEF PInv

\* The process ends: all it held is given up, and the next one starts with nothing.
LEMMA EndStep ==
    ASSUME PInv, ProcessEnds, faults' \in 0 .. MaxFaults
    PROVE  PInv'
<1>0. TypeOK /\ StreamInv
  BY DEF PInv
<1>1. Unfinished \subseteq Nat
  <2>1. Pending \subseteq Nat
    BY QueuedType DEF Pending, Range
  <2> QED
    BY <1>0, <2>1 DEF Unfinished, TypeOK
<1>2. TypeOK'
  BY <1>0, <1>1, ProducerAssumption
     DEF ProducerAssumption, ProcessEnds, TypeOK, Locations
<1>3. StreamInv' /\ NoGap' /\ QueueInv'
  BY <1>0 DEF ProcessEnds, StreamInv, NoGap, QueueInv, TypeOK
<1>4. TopicInv'
  <2>1. ASSUME NEW t \in Topics PROVE Behind(t, Len(feed))
    BY <1>0, BehindMore DEF PInv, TopicInv, StreamInv, TypeOK
  <2> QED
    BY <2>1 DEF ProcessEnds, TopicInv, Behind
<1>5. OrderedPerPartition' /\ OwedIsAccounted'
  BY DEF ProcessEnds, PInv, OrderedPerPartition, OwedIsAccounted, Owed
<1> QED
  BY <1>2, <1>3, <1>4, <1>5 DEF PInv

(***************************************************************************)
(* A connection: it starts behind all that Kafka has of an earlier process,*)
(* or where the last connection of this one ended.                         *)
(***************************************************************************)
LEMMA ConnectStep ==
    ASSUME PInv, Connect
    PROVE  PInv'
<1> USE DEF kafka, client
<1>0. TypeOK /\ StreamInv
  BY DEF PInv
<1>1. /\ lastId = 0 => cursor' = Len(feed) + 1
      /\ lastId # 0 => cursor' \in {lastId, lastId + 1}
  BY DEF Connect
<1>2. Len(feed) \in Nat
  BY <1>0 DEF TypeOK
<1>3. TypeOK'
  BY <1>0, <1>1, <1>2 DEF Connect, TypeOK, Locations
<1>4. StreamInv' /\ NoGap'
  BY <1>0, <1>1, <1>2 DEF Connect, PInv, StreamInv, NoGap
<1>5. QueueInv' /\ OrderedPerPartition'
  BY DEF Connect, PInv, QueueInv, ClassAt, Route, OrderedPerPartition
<1>6. TopicInv'
  <2>1. lastId = 0 => cursor' - 1 = Len(feed)
    BY <1>1, <1>2
  <2> QED
    BY <2>1 DEF Connect, PInv, TopicInv, Behind
<1>7. OwedIsAccounted'
  BY DEF Connect, PInv, OwedIsAccounted, Owed, ClassAt, Stored, Unfinished, Pending
<1> QED
  BY <1>3, <1>4, <1>5, <1>6, <1>7 DEF PInv

\* An event is read: the one after the last, or the last one again.
LEMMA ReadStep ==
    ASSUME PInv, Read
    PROVE  PInv'
<1> USE DEF kafka, client
<1>0. TypeOK /\ StreamInv /\ NoGap
  BY DEF PInv
<1>1. /\ cursor \in 1 .. Len(feed) /\ lastId \in 0 .. Len(feed) /\ Len(feed) \in Nat
      /\ lastId # 0 => cursor \in {lastId, lastId + 1}
      /\ lastId' = cursor /\ cursor' = cursor + 1 /\ seen' = seen \cup {cursor}
  BY <1>0 DEF Read, StreamInv, TypeOK
<1>2. TypeOK'
  BY <1>0, <1>1, ProducerAssumption DEF ProducerAssumption, Read, TypeOK, Locations
<1>3. StreamInv'
  BY <1>0, <1>1 DEF Read, StreamInv, ClassAt
<1>4. NoGap'
  <2>1. lastId = 0 => seen = {}
    BY <1>0 DEF StreamInv
  <2>2. \A i \in seen : i \in Nat /\ i <= lastId /\ i <= cursor
    BY <1>0, <1>1 DEF StreamInv
  <2>3. ASSUME NEW i \in seen', NEW j \in seen' PROVE i .. j \subseteq seen'
    <3>1. CASE j \in seen
      BY <1>0, <1>1, <2>2, <2>3, <3>1 DEF NoGap, StreamInv
    <3>2. CASE j = cursor /\ i \in seen
      <4>1. i .. lastId \subseteq seen /\ lastId # 0
        BY <1>0, <2>1, <3>2 DEF NoGap, StreamInv
      <4> QED
        BY <1>1, <2>2, <3>2, <4>1
    <3>3. CASE j = cursor /\ i = cursor
      BY <1>1, <3>3
    <3> QED
      BY <1>1, <2>3, <3>1, <3>2, <3>3
  <2>4. cursor \in seen' /\ \A i \in seen' : i <= cursor
    BY <1>1, <2>2
  <2> QED
    BY <1>1, <2>3, <2>4 DEF NoGap
<1>5. QueueInv'
  BY <1>1, QueuedType DEF Read, PInv, QueueInv, ClassAt, Route
<1>6. TopicInv'
  <2>1. ASSUME NEW t \in Topics PROVE Behind(t, cursor)
    <3>1. CASE lastId # 0
      <4>1. Behind(t, lastId) /\ lastId <= cursor
        BY <1>1, <3>1 DEF PInv, TopicInv
      <4> QED
        BY <1>0, <1>1, <4>1, BehindMore
    <3>2. CASE lastId = 0
      <4>1. Behind(t, cursor - 1) /\ cursor - 1 \in Nat
        BY <1>1, <3>2 DEF Read, PInv, TopicInv
      <4> QED
        BY <1>0, <1>1, <4>1, BehindMore
    <3> QED
      BY <3>1, <3>2
  <2> QED
    BY <1>1, <2>1 DEF Read, PInv, TopicInv, Behind
<1>7. OrderedPerPartition'
  BY DEF Read, PInv, OrderedPerPartition
<1>8. OwedIsAccounted'
  <2>1. Stored' = Stored /\ Pending' = Pending /\ undelivered' = undelivered
    BY DEF Read, Stored, Pending
  <2>2. Unfinished = Pending
    BY DEF Read, Unfinished
  <2>3. ClassAt(cursor) # "empty" => cursor \in Unfinished'
    BY <1>1 DEF Read, Unfinished
  <2>4. Owed' \subseteq Owed \cup {i \in {cursor} : ClassAt(i) # "empty"}
    BY <1>1 DEF Read, Owed, ClassAt
  <2> QED
    BY <2>1, <2>2, <2>3, <2>4 DEF PInv, OwedIsAccounted, Unfinished
<1> QED
  BY <1>2, <1>3, <1>4, <1>5, <1>6, <1>7, <1>8 DEF PInv

\* produce takes the payload: it is the last in the queue.
LEMMA ProduceStep ==
    ASSUME PInv, Produce
    PROVE  PInv'
<1> USE DEF kafka, stream
<1> DEFINE m == [to |-> Route(lastId), id |-> lastId]
<1>0. TypeOK /\ StreamInv
  BY DEF PInv
<1>1. lastId \in 1 .. Len(feed) /\ lastId # 0 /\ cursor = lastId + 1
      /\ ClassAt(lastId) # "empty"
  BY <1>0 DEF Produce, StreamInv, TypeOK
<1>2. m \in Message
  BY <1>0, <1>1, RouteType DEF Message
<1>3. /\ queue' = Append(queue, m) /\ queue' \in Seq(Message) /\ Len(queue) \in Nat
      /\ DOMAIN queue = 1 .. Len(queue) /\ DOMAIN queue' = 1 .. Len(queue) + 1
      /\ \A i \in DOMAIN queue : queue'[i] = queue[i]
      /\ queue'[Len(queue) + 1] = m
  BY <1>0, <1>2 DEF Produce, TypeOK
<1>4. TypeOK'
  BY <1>0, <1>3 DEF Produce, TypeOK, Locations
<1>5. StreamInv' /\ NoGap'
  BY <1>0, <1>1 DEF Produce, PInv, StreamInv, NoGap
<1>6. QueueInv'
  BY <1>1, <1>3 DEF Produce, PInv, QueueInv, ClassAt, Route
<1>7. TopicInv'
  <2> SUFFICES ASSUME NEW t \in Topics
               PROVE  /\ Behind(t, lastId)
                      /\ \A i \in DOMAIN queue' :
                            queue'[i].to = t => Behind(t, queue'[i].id)
    BY <1>1 DEF Produce, TopicInv, Behind
  <2>1. Behind(t, lastId)
    BY <1>1 DEF PInv, TopicInv
  <2> QED
    BY <1>3, <2>1 DEF PInv, TopicInv
<1>8. OrderedPerPartition'
  BY DEF Produce, PInv, OrderedPerPartition
<1>9. OwedIsAccounted'
  <2>1. Pending \cup {lastId} \subseteq Pending'
    BY <1>3 DEF Pending, Range
  <2>2. Unfinished \subseteq Unfinished'
    BY <2>1 DEF Unfinished
  <2> QED
    BY <2>2 DEF Produce, PInv, OwedIsAccounted, Owed, ClassAt, Stored
<1> QED
  BY <1>4, <1>5, <1>6, <1>7, <1>8, <1>9 DEF PInv

\* The queue without its i-th message.
LEMMA ResolveFacts ==
    ASSUME PInv, NEW i \in DOMAIN queue, Resolve(i)
    PROVE  /\ queue' \in Seq(Message) /\ reports' \in Nat
           /\ \A j \in DOMAIN queue' :
                 LET k == IF j < i THEN j ELSE j + 1
                 IN  k \in DOMAIN queue /\ queue'[j] = queue[k]
           /\ Pending \subseteq Pending' \cup {queue[i].id}
<1>0. TypeOK /\ queue \in Seq(Message)
  BY DEF PInv, TypeOK
<1> DEFINE n == Len(queue) - 1
<1>1. n \in Nat /\ i \in 1 .. n + 1 /\ DOMAIN queue = 1 .. n + 1
  BY <1>0
<1>2. queue' = [j \in 1 .. n |-> IF j < i THEN queue[j] ELSE queue[j + 1]]
  BY DEF Resolve
<1> HIDE DEF n
<1>3. \A j \in 1 .. n : queue'[j] = IF j < i THEN queue[j] ELSE queue[j + 1]
  BY <1>2
<1>4. \A j \in 1 .. n : j \in DOMAIN queue /\ j + 1 \in DOMAIN queue
  BY <1>1
<1>5. queue' \in [1 .. n -> Message]
  BY <1>0, <1>2, <1>4
<1>6. queue' \in Seq(Message) /\ DOMAIN queue' = 1 .. n
  BY <1>1, <1>2, <1>5, SeqDef
<1>7. Pending \subseteq Pending' \cup {queue[i].id}
  <2> SUFFICES ASSUME NEW k \in DOMAIN queue, k # i
               PROVE  \E j \in DOMAIN queue' : queue'[j].id = queue[k].id
    BY DEF Pending, Range
  <2>1. CASE k < i
    BY <1>1, <1>3, <1>6, <2>1
  <2>2. CASE k > i
    <3>1. k - 1 \in 1 .. n /\ ~(k - 1 < i) /\ (k - 1) + 1 = k
      BY <1>1, <2>2
    <3>2. queue'[k - 1] = queue[k]
      BY <1>3, <3>1
    <3> QED
      BY <1>6, <3>1, <3>2
  <2> QED
    BY <1>1, <2>1, <2>2
<1>8. reports' \in Nat
  BY <1>0 DEF Resolve, TypeOK
<1> QED
  BY <1>3, <1>4, <1>6, <1>7, <1>8

\* What a message leaves behind in the queue when it is resolved.
LEMMA ResolveStep ==
    ASSUME PInv, NEW i \in DOMAIN queue, Resolve(i), UNCHANGED <<feed, pc, signal, stream>>
    PROVE  /\ StreamInv' /\ QueueInv' /\ NoGap'
           /\ Owed' \subseteq Stored \cup Unfinished' \cup {queue[i].id} \cup undelivered
<1> USE DEF stream
<1>1. StreamInv' /\ NoGap'
  BY DEF PInv, StreamInv, NoGap, ClassAt
<1>2. QueueInv'
  <2>1. ASSUME NEW j \in DOMAIN queue'
        PROVE  /\ queue'[j].id <= lastId
               /\ ClassAt(queue'[j].id) # "empty" /\ queue'[j].to = Route(queue'[j].id)
    BY <2>1, ResolveFacts DEF PInv, QueueInv
  <2>2. ASSUME NEW j \in DOMAIN queue', NEW l \in DOMAIN queue', j < l
        PROVE  queue'[j].id <= queue'[l].id
    <3> DEFINE at(x) == IF x < i THEN x ELSE x + 1
    <3>1. DOMAIN queue' \subseteq Nat /\ DOMAIN queue \subseteq Nat
      BY ResolveFacts DEF PInv, TypeOK
    <3>2. at(j) < at(l)
      BY <2>2, <3>1
    <3> QED
      BY <3>2, ResolveFacts DEF PInv, QueueInv
  <2> QED
    BY <2>1, <2>2 DEF QueueInv, ClassAt, Route
<1>3. Unfinished \subseteq Unfinished' \cup {queue[i].id} /\ Owed' = Owed
  BY ResolveFacts DEF Unfinished, Owed, ClassAt
<1> QED
  BY <1>1, <1>2, <1>3 DEF PInv, OwedIsAccounted

LEMMA DeliveryErrorStep ==
    ASSUME PInv, NEW i \in DOMAIN queue, DeliveryError(i)
    PROVE  PInv'
<1> USE DEF stream
<1>0. TypeOK /\ Resolve(i) /\ queue[i].id \in Nat
  BY QueuedType DEF PInv, DeliveryError
<1>1. TypeOK'
  BY <1>0, ResolveFacts, SufferType DEF DeliveryError, TypeOK
<1>2. StreamInv' /\ QueueInv' /\ NoGap'
  BY <1>0, ResolveStep DEF DeliveryError
<1>3. TopicInv' /\ OrderedPerPartition'
  BY <1>0, ResolveFacts DEF DeliveryError, PInv, TopicInv, Behind, OrderedPerPartition
<1>4. OwedIsAccounted'
  <2>1. Stored' = Stored /\ undelivered' = undelivered \cup {queue[i].id}
    BY DEF DeliveryError, Stored
  <2> QED
    BY <1>0, <2>1, ResolveStep DEF DeliveryError, OwedIsAccounted
<1> QED
  BY <1>1, <1>2, <1>3, <1>4 DEF PInv

\* The message that is delivered is the first of its partition: what follows is behind it.
LEMMA DeliverStep ==
    ASSUME PInv, NEW i \in DOMAIN queue, Deliver(i)
    PROVE  PInv'
<1> USE DEF stream
<1>p. PICK p \in Topics, x \in Nat : p = queue[i].to /\ x = queue[i].id
  BY QueuedType
<1>0. /\ TypeOK /\ Resolve(i)
      /\ x \in Nat \ {0} /\ x \in 1 .. lastId /\ lastId # 0 /\ lastId \in Nat
  BY <1>p, QueuedType DEF PInv, Deliver
<1>1. /\ topic' \in [Topics -> Seq(Nat \ {0})]
      /\ topic'[p] = Append(topic[p], x)
      /\ \A t \in Topics \ {p} : topic'[t] = topic[t]
  BY <1>p, <1>0 DEF Deliver, TypeOK
<1>2. /\ Len(topic[p]) \in Nat
      /\ DOMAIN topic[p] = 1 .. Len(topic[p]) /\ DOMAIN topic'[p] = 1 .. Len(topic[p]) + 1
      /\ \A m \in DOMAIN topic[p] : topic'[p][m] = topic[p][m]
      /\ topic'[p][Len(topic[p]) + 1] = x
  <2>1. topic[p] \in Seq(Nat \ {0})
    BY <1>0 DEF TypeOK
  <2>2. topic'[p] = Append(topic[p], x)
    BY <1>1
  <2> QED
    BY <1>0, <2>1, <2>2
<1>3. TypeOK'
  BY <1>p, <1>0, <1>1, ResolveFacts DEF Deliver, TypeOK
<1>4. StreamInv' /\ QueueInv' /\ NoGap'
  BY <1>p, <1>0, ResolveStep DEF Deliver
<1>5. \A n : Behind(p, n) /\ x <= n => Behind(p, n)'
  BY <1>2 DEF Behind
<1>6. TopicInv'
  <2> SUFFICES ASSUME NEW t \in Topics
               PROVE  /\ Behind(t, lastId)'
                      /\ \A j \in DOMAIN queue' :
                            queue'[j].to = t => Behind(t, queue[j].id)'
    BY <1>p, <1>0 DEF Deliver, TopicInv, Behind
  <2>1. Behind(t, lastId) /\ lastId' = lastId
    BY <1>p, <1>0 DEF Deliver, PInv, TopicInv
  <2>2. CASE t # p
    <3>1. topic'[t] = topic[t]
      BY <1>1, <2>2
    <3> QED
      BY <1>p, <1>0, <2>1, <3>1, ResolveFacts DEF PInv, TopicInv, Behind
  <2>3. CASE t = p
    <3>1. Behind(t, lastId)'
      BY <1>p, <1>0, <1>5, <2>1, <2>3
    <3>2. ASSUME NEW j \in DOMAIN queue', queue'[j].to = t
          PROVE  Behind(t, queue[j].id)'
      <4> DEFINE k == IF j < i THEN j ELSE j + 1
      <4>1. k \in DOMAIN queue /\ queue'[j] = queue[k]
        BY <1>p, <1>0, ResolveFacts
      <4>2. k > i
        <5>1. i \in Nat /\ j \in Nat /\ k \in Nat \ {0} /\ k # i
          <6>1. queue \in Seq(Message) /\ queue' \in Seq(Message)
            BY <1>0, <1>3 DEF TypeOK
          <6> QED
            BY <4>1, <6>1
        <5>2. ~(k < i)
          BY <1>p, <1>0, <2>3, <3>2, <4>1, <5>1 DEF Resolve
        <5> QED
          BY <4>1, <5>1, <5>2
      <4>3. x <= queue[k].id /\ Behind(p, queue[k].id)
        BY <1>p, <2>3, <3>2, <4>1, <4>2 DEF PInv, QueueInv, TopicInv
      <4> QED
        BY <1>5, <2>3, <4>1, <4>3 DEF Behind
    <3> QED
      BY <3>1, <3>2
  <2> QED
    BY <2>2, <2>3
<1>7. OrderedPerPartition'
  <2> SUFFICES ASSUME NEW t \in Topics, NEW m \in DOMAIN topic'[t], NEW n \in DOMAIN topic'[t],
                      m < n
               PROVE  topic'[t][m] <= topic'[t][n]
    BY DEF OrderedPerPartition
  <2>1. CASE t # p
    <3>1. topic'[t] = topic[t]
      BY <1>1, <2>1
    <3> QED
      BY <3>1 DEF PInv, OrderedPerPartition
  <2>2. CASE t = p
    <3>1. Behind(p, x)
      BY <1>p, <1>0 DEF PInv, TopicInv
    <3>2. m \in DOMAIN topic[p] /\ n \in 1 .. Len(topic[p]) + 1
      BY <1>2, <2>2
    <3> QED
      BY <1>p, <1>0, <1>2, <2>2, <3>1, <3>2 DEF PInv, OrderedPerPartition, Behind
  <2> QED
    BY <2>1, <2>2
<1>8. OwedIsAccounted'
  <2>1. ASSUME NEW t \in Topics, NEW m \in DOMAIN topic[t]
        PROVE  m \in DOMAIN topic'[t] /\ topic'[t][m] = topic[t][m]
    <3>1. CASE t = p
      BY <1>2, <3>1
    <3>2. CASE t # p
      BY <1>1, <3>2
    <3> QED
      BY <3>1, <3>2
  <2>2. Stored \subseteq Stored'
    BY <2>1 DEF Stored, Range
  <2>3. x \in Stored'
    BY <1>p, <1>0, <1>2 DEF Stored, Range
  <2> QED
    BY <1>p, <1>0, <2>2, <2>3, ResolveStep DEF Deliver, OwedIsAccounted
<1> QED
  BY <1>3, <1>4, <1>6, <1>7, <1>8 DEF PInv

LEMMA PInvStep == PInv /\ [Next]_vars => PInv'
<1> SUFFICES ASSUME PInv, [Next]_vars PROVE PInv'
  OBVIOUS
<1> USE DEF stream, client
<1>0. /\ TypeOK /\ Overflow \in Nat
      /\ \A l \in Locations \ {"read", "handle"} : l \in Locations
  BY ProducerAssumption DEF PInv
<1>a. {"connect", "backoff", "close"} \subseteq Locations \ {"read", "handle"}
  BY DEF Locations
<1>1. ASSUME NEW d \in Payloads, Emit(d) PROVE PInv'
  BY <1>1, EmitStep
<1>2. ASSUME NEW i \in DOMAIN queue, Deliver(i) \/ DeliveryError(i) PROVE PInv'
  BY <1>2, DeliverStep, DeliveryErrorStep
<1>3. CASE Stop
  BY <1>0, <1>3, SufferType, MoveStep DEF Stop, TypeOK
<1>4. CASE Crash \/ BackoffOverflow \/ CloseIncomplete
  <2>1. faults' \in 0 .. MaxFaults /\ ProcessEnds
    BY <1>0, <1>4, SufferType DEF Crash, BackoffOverflow, CloseIncomplete
  <2> QED
    BY <2>1, EndStep
<1>5. CASE QueueFull \/ Close
  BY <1>0, <1>5, EndStep DEF QueueFull, Close, TypeOK
<1>6. CASE Start \/ LeaveLoop \/ ReadStopped \/ ReadTimeout \/ Wake
  BY <1>0, <1>a, <1>6, MoveStep
     DEF Start, LeaveLoop, ReadStopped, ReadTimeout, Wake, TypeOK
<1>7. CASE EndOfStream \/ DisconnectStopped
  BY <1>0, <1>a, <1>7, SufferType, MoveStep DEF EndOfStream, DisconnectStopped, TypeOK
<1>8. CASE Disconnect
  <2>1. attempt' \in 0 .. Overflow
    BY <1>0, <1>8 DEF Disconnect, TypeOK
  <2> QED
    BY <1>0, <1>a, <1>8, <2>1, SufferType, MoveStep DEF Disconnect, Connecting, TypeOK
<1>9. CASE Connect
  BY <1>9, ConnectStep
<1>10. CASE Read
  BY <1>10, ReadStep
<1>11. CASE Produce
  BY <1>11, ProduceStep
<1>12. CASE Wait \/ UNCHANGED vars
  BY <1>0, <1>12, MoveStep DEF Wait, vars, TypeOK
<1> QED
  BY <1>1, <1>2, <1>3, <1>4, <1>5, <1>6, <1>7, <1>8, <1>9, <1>10, <1>11, <1>12
     DEF Next, Run, Network

LEMMA PInvInit == Init => PInv
<1> SUFFICES ASSUME Init PROVE PInv
  OBVIOUS
<1>1. TypeOK
  BY ProducerAssumption DEF ProducerAssumption, Init, TypeOK, Locations
<1> QED
  BY <1>1 DEF Init, PInv, StreamInv, QueueInv, TopicInv, Behind, NoGap, OwedIsAccounted,
              Owed, OrderedPerPartition

LEMMA PInvHolds == Spec => []PInv
BY PInvInit, PInvStep, PTL DEF Spec

------------------------------------------------------------------------------
(* Theorems *)

(***************************************************************************)
(* The variables keep their types, the backoff's attempt its range.        *)
(***************************************************************************)
THEOREM TypeCorrect == Spec => []TypeOK
<1>1. PInv => TypeOK
  BY DEF PInv
<1> QED
  BY <1>1, PInvHolds, PTL

(***************************************************************************)
(* Every payload the process has read is in Kafka, on its way there or     *)
(* given up (the main loop, KafkaSink and its callbacks).                  *)
(***************************************************************************)
THEOREM NothingSlipsAway == Spec => []OwedIsAccounted
<1>1. PInv => OwedIsAccounted
  BY DEF PInv
<1> QED
  BY <1>1, PInvHolds, PTL

(***************************************************************************)
(* "No events are lost across disconnects" (sse.py:3-4), for a process     *)
(* that lives on, with any number of disconnects.                          *)
(***************************************************************************)
THEOREM ReadsWithoutGap == Spec => []NoGap
<1>1. PInv => NoGap
  BY DEF PInv
<1> QED
  BY <1>1, PInvHolds, PTL

(***************************************************************************)
(* A partition is in feed order (kafka_sink.py:16), also across restarts.  *)
(***************************************************************************)
THEOREM PartitionsInOrder == Spec => []OrderedPerPartition
<1>1. PInv => OrderedPerPartition
  BY DEF PInv
<1> QED
  BY <1>1, PInvHolds, PTL

\* A delivery is a step of the contract; everything else leaves it alone or adds to the feed.
LEMMA ContractStep == PInv /\ [Next]_vars => [Contract!Next]_(Contract!vars)
<1> SUFFICES ASSUME PInv, [Next]_vars PROVE [Contract!Next]_(Contract!vars)
  OBVIOUS
<1> USE DEF kafka, stream, client
<1>1. ASSUME NEW d \in Payloads, Emit(d) PROVE Contract!Next
  BY <1>1 DEF Emit, Contract!Next, Contract!Emit
<1>2. ASSUME NEW i \in DOMAIN queue, Deliver(i) PROVE Contract!Next
  <2>1. PICK p \in Topics, x \in DOMAIN feed :
            /\ p = queue[i].to /\ x = queue[i].id /\ x \in 1 .. Len(feed)
    BY QueuedType DEF PInv, TypeOK
  <2>2. /\ feed[x] \in {d \in Payloads : Class[d] # "empty"}
        /\ p = [d \in Payloads |->
                   IF Class[d] = "invalid" THEN Dlq ELSE PartitionOf[d]][feed[x]]
    BY <2>1, RouteType DEF PInv, QueueInv, ClassAt, Route
  <2>3. \A n \in DOMAIN topic[p] : topic[p][n] <= x
    BY <2>1 DEF PInv, TopicInv, Behind
  <2>4. topic' = [topic EXCEPT ![p] = Append(@, x)] /\ feed' = feed
    BY <1>2, <2>1 DEF Deliver
  <2>5. Contract!Publish(x)
    BY <2>2, <2>3, <2>4 DEF Contract!Publish
  <2> QED
    BY <2>1, <2>5 DEF Contract!Next
<1>3. CASE UNCHANGED <<feed, topic>>
  BY <1>3 DEF Contract!vars
<1>4. ASSUME NEW i \in DOMAIN queue, DeliveryError(i) PROVE UNCHANGED <<feed, topic>>
  BY <1>4 DEF DeliveryError
<1>5. ASSUME Stop \/ Crash \/ Wait \/ Run \/ Network \/ CloseIncomplete
      PROVE  UNCHANGED <<feed, topic>>
  BY <1>5 DEF Stop, Crash, Wait, Run, Network, CloseIncomplete, Start, Connect, LeaveLoop,
              Read, ReadStopped, ReadTimeout, Wake, Produce, QueueFull, Close, EndOfStream,
              DisconnectStopped, Disconnect, BackoffOverflow, ProcessEnds, vars
<1> QED
  BY <1>1, <1>2, <1>3, <1>4, <1>5 DEF Next, vars

(***************************************************************************)
(* The producer implements OrderedTopic: what its partitions hold is the   *)
(* feed's, in the right place and in order, whatever breaks.               *)
(***************************************************************************)
THEOREM ImplementsOrderedTopic == Spec => ContractSpec
<1>1. Init => Contract!Init
  BY DEF Init, Contract!Init
<1> QED
  BY <1>1, PInvHolds, ContractStep, PTL DEF Spec, ContractSpec, Contract!Spec

------------------------------------------------------------------------------
(* Where repeated messages come from *)

\* No partition holds an event twice.
NoRepeats ==
    \A t \in Topics : \A m, n \in DOMAIN topic[t] : m < n => topic[t][m] < topic[t][n]

\* Position x of the feed comes strictly behind all that partition t holds.
StrictlyBehind(t, x) == \A m \in DOMAIN topic[t] : topic[t][m] < x

\* Each process has one connection, which sends each event once.
OneConnection ==
    /\ pc # "backoff"
    /\ pc \in {"down", "connect"} => lastId = 0
    /\ pc = "read" /\ lastId # 0 => cursor = lastId + 1

OnceInv ==
    /\ NoRepeats /\ OneConnection
    /\ \A i, j \in DOMAIN queue : i < j => queue[i].id < queue[j].id
    /\ \A i \in DOMAIN queue : StrictlyBehind(queue[i].to, queue[i].id)
    /\ pc = "handle" => /\ \A i \in DOMAIN queue : queue[i].id < lastId
                        /\ \A t \in Topics : StrictlyBehind(t, lastId)

\* What is read is new: behind what was read before, or behind what the feed held.
LEMMA OnceRead ==
    ASSUME PInv, OnceInv, Read
    PROVE  OnceInv'
<1> USE DEF kafka, client
<1>0. /\ TypeOK /\ cursor \in 1 .. Len(feed) /\ lastId' = cursor /\ cursor' = cursor + 1
      /\ lastId \in Nat /\ cursor \in Nat /\ pc = "read"
      /\ lastId # 0 => cursor = lastId + 1
  BY DEF PInv, TypeOK, Read, OnceInv, OneConnection
<1>1. ASSUME NEW i \in DOMAIN queue PROVE queue[i].id < cursor
  <2>1. queue[i].id \in 1 .. lastId /\ lastId # 0
    BY QueuedType
  <2> QED
    BY <1>0, <2>1
<1>2. ASSUME NEW t \in Topics PROVE StrictlyBehind(t, cursor)
  <2> SUFFICES ASSUME NEW m \in DOMAIN topic[t] PROVE topic[t][m] < cursor
    BY DEF StrictlyBehind
  <2>1. topic[t][m] \in Nat
    BY <1>0 DEF TypeOK
  <2>2. CASE lastId # 0
    <3>1. topic[t][m] <= lastId
      BY <2>2 DEF PInv, TopicInv, Behind
    <3> QED
      BY <1>0, <2>1, <2>2, <3>1
  <2>3. CASE lastId = 0
    <3>1. topic[t][m] <= cursor - 1
      BY <1>0, <2>3 DEF PInv, TopicInv, Behind
    <3> QED
      BY <1>0, <2>1, <3>1
  <2> QED
    BY <2>2, <2>3
<1>3. OneConnection'
  BY <1>0 DEF Read, OneConnection
<1> QED
  BY <1>0, <1>1, <1>2, <1>3 DEF Read, OnceInv, NoRepeats, StrictlyBehind

LEMMA OnceProduce ==
    ASSUME PInv, OnceInv, Produce
    PROVE  OnceInv'
<1> USE DEF kafka, stream
<1> DEFINE msg == [to |-> Route(lastId), id |-> lastId]
<1>0. TypeOK /\ lastId \in 1 .. Len(feed) /\ cursor = lastId + 1
  BY DEF PInv, Produce, StreamInv, TypeOK
<1>1. PICK r \in Topics : r = Route(lastId)
  BY <1>0, RouteType
<1>2. /\ DOMAIN queue = 1 .. Len(queue) /\ Len(queue) \in Nat
      /\ DOMAIN queue' = 1 .. Len(queue) + 1
      /\ \A i \in DOMAIN queue : queue'[i] = queue[i]
      /\ queue'[Len(queue) + 1] = msg
  BY <1>0 DEF Produce, TypeOK
<1>3. OneConnection'
  BY <1>0 DEF Produce, OneConnection
<1>4. \A i \in DOMAIN queue' : StrictlyBehind(queue'[i].to, queue'[i].id)
  BY <1>1, <1>2 DEF Produce, OnceInv, StrictlyBehind
<1>5. \A i, j \in DOMAIN queue' : i < j => queue'[i].id < queue'[j].id
  BY <1>2 DEF Produce, OnceInv
<1> QED
  BY <1>3, <1>4, <1>5 DEF Produce, OnceInv, NoRepeats, StrictlyBehind

LEMMA OnceResolve ==
    ASSUME PInv, OnceInv, NEW i \in DOMAIN queue, Resolve(i), UNCHANGED <<pc, stream>>
    PROVE  /\ OneConnection'
           /\ \A j, l \in DOMAIN queue' : j < l => queue'[j].id < queue'[l].id
           /\ pc = "handle" => \A j \in DOMAIN queue' : queue'[j].id < lastId
<1> USE DEF stream
<1>1. \A j, l \in DOMAIN queue' : j < l => queue'[j].id < queue'[l].id
  <2> SUFFICES ASSUME NEW j \in DOMAIN queue', NEW l \in DOMAIN queue', j < l
               PROVE  queue'[j].id < queue'[l].id
    OBVIOUS
  <2> DEFINE at(x) == IF x < i THEN x ELSE x + 1
  <2>1. DOMAIN queue' \subseteq Nat /\ DOMAIN queue \subseteq Nat
    BY ResolveFacts DEF PInv, TypeOK
  <2>2. at(j) < at(l)
    BY <2>1
  <2> QED
    BY <2>2, ResolveFacts DEF OnceInv
<1> QED
  BY <1>1, ResolveFacts DEF OnceInv, OneConnection

LEMMA OnceDeliveryError ==
    ASSUME PInv, OnceInv, NEW i \in DOMAIN queue, DeliveryError(i)
    PROVE  OnceInv'
BY OnceResolve, ResolveFacts DEF DeliveryError, stream, OnceInv, NoRepeats, StrictlyBehind

LEMMA OnceDeliver ==
    ASSUME PInv, OnceInv, NEW i \in DOMAIN queue, Deliver(i)
    PROVE  OnceInv'
<1> USE DEF stream
<1> DEFINE after(t, n) == \A m \in DOMAIN topic'[t] : topic'[t][m] < n
<1>p. PICK p \in Topics, x \in Nat : p = queue[i].to /\ x = queue[i].id
  BY QueuedType
<1>0. TypeOK /\ Resolve(i) /\ x \in Nat \ {0}
  BY <1>p, QueuedType DEF PInv, Deliver
<1>1. /\ topic'[p] = Append(topic[p], x)
      /\ \A t \in Topics \ {p} : topic'[t] = topic[t]
      /\ topic[p] \in Seq(Nat \ {0})
  BY <1>p, <1>0 DEF Deliver, TypeOK
<1>2. /\ Len(topic[p]) \in Nat
      /\ DOMAIN topic[p] = 1 .. Len(topic[p]) /\ DOMAIN topic'[p] = 1 .. Len(topic[p]) + 1
      /\ \A m \in DOMAIN topic[p] : topic'[p][m] = topic[p][m]
      /\ topic'[p][Len(topic[p]) + 1] = x
  BY <1>0, <1>1
<1>3. \A n : StrictlyBehind(p, n) /\ x < n => after(p, n)
  BY <1>2 DEF StrictlyBehind
<1>4. ASSUME NEW t \in Topics, NEW n, StrictlyBehind(t, n), t = p => x < n
      PROVE  after(t, n)
  <2>1. CASE t = p
    BY <1>3, <1>4, <2>1
  <2>2. CASE t # p
    <3>1. topic'[t] = topic[t]
      BY <1>1, <2>2
    <3> QED
      BY <1>4, <3>1 DEF StrictlyBehind
  <2> QED
    BY <2>1, <2>2
<1>5. NoRepeats'
  <2> SUFFICES ASSUME NEW t \in Topics, NEW m \in DOMAIN topic'[t], NEW n \in DOMAIN topic'[t],
                      m < n
               PROVE  topic'[t][m] < topic'[t][n]
    BY DEF NoRepeats
  <2>1. CASE t # p
    <3>1. topic'[t] = topic[t]
      BY <1>1, <2>1
    <3> QED
      BY <3>1 DEF OnceInv, NoRepeats
  <2>2. CASE t = p
    <3>1. StrictlyBehind(p, x)
      BY <1>p DEF OnceInv
    <3>2. m \in DOMAIN topic[p] /\ n \in 1 .. Len(topic[p]) + 1
      BY <1>2, <2>2
    <3> QED
      BY <1>2, <2>2, <3>1, <3>2 DEF OnceInv, NoRepeats, StrictlyBehind
  <2> QED
    BY <2>1, <2>2
<1>6. ASSUME NEW j \in DOMAIN queue'
      PROVE  after(queue'[j].to, queue'[j].id)
  <2> DEFINE k == IF j < i THEN j ELSE j + 1
  <2>1. k \in DOMAIN queue /\ queue'[j] = queue[k]
    BY <1>0, ResolveFacts
  <2>2. queue[k].to \in Topics /\ StrictlyBehind(queue[k].to, queue[k].id)
    BY <2>1, QueuedType DEF OnceInv
  <2>3. queue[k].to = p => x < queue[k].id
    <3> SUFFICES ASSUME queue[k].to = p PROVE x < queue[k].id
      OBVIOUS
    <3>1. i \in Nat /\ j \in Nat /\ k \in Nat \ {0} /\ k # i
      <4>1. queue \in Seq(Message) /\ queue' \in Seq(Message)
        BY <1>0, ResolveFacts DEF TypeOK
      <4> QED
        BY <2>1, <4>1
    <3>2. ~(k < i)
      BY <1>p, <1>0, <2>1, <3>1 DEF Resolve
    <3> QED
      BY <1>p, <2>1, <3>1, <3>2 DEF OnceInv
  <2>4. after(queue[k].to, queue[k].id)
    BY <1>4, <2>2, <2>3
  <2> QED
    BY <2>1, <2>4
<1>7. pc = "handle" => \A t \in Topics : after(t, lastId)
  <2>1. pc = "handle" => x < lastId
    BY <1>p DEF OnceInv
  <2> QED
    BY <1>4, <2>1 DEF OnceInv
<1> QED
  BY <1>0, <1>5, <1>6, <1>7, OnceResolve DEF Deliver, OnceInv, StrictlyBehind

LEMMA OnceStep ==
    ASSUME "network" \notin Faults, PInv, OnceInv, [Next]_vars
    PROVE  OnceInv'
<1> USE DEF kafka, stream, client
<1>1. ASSUME NEW i \in DOMAIN queue, Deliver(i) \/ DeliveryError(i) PROVE OnceInv'
  BY <1>1, OnceDeliver, OnceDeliveryError
<1>2. CASE Read
  BY <1>2, OnceRead
<1>3. CASE Produce
  BY <1>3, OnceProduce
<1>4. CASE ProcessEnds
  BY <1>4 DEF ProcessEnds, OnceInv, NoRepeats, OneConnection, StrictlyBehind
<1>5. CASE Connect
  <2>1. OneConnection'
    BY <1>5 DEF Connect, OnceInv, OneConnection
  <2> QED
    BY <1>5, <2>1 DEF Connect, OnceInv, NoRepeats, StrictlyBehind
<1>6. CASE /\ UNCHANGED <<topic, queue, lastId>>
           /\ \/ pc' = pc /\ cursor' = cursor
              \/ pc = "down" /\ pc' = "connect"
              \/ pc' = "close"
  <2>1. OneConnection'
    BY <1>6 DEF OnceInv, OneConnection
  <2> QED
    BY <1>6, <2>1 DEF OnceInv, NoRepeats, StrictlyBehind
<1>7. ~Network /\ ~Wake
  BY DEF Network, EndOfStream, DisconnectStopped, Disconnect, BackoffOverflow, Suffer, Wake,
         OnceInv, OneConnection
<1> QED
  BY <1>1, <1>2, <1>3, <1>4, <1>5, <1>6, <1>7
     DEF Next, Run, Emit, Stop, Crash, Wait, CloseIncomplete, Start, LeaveLoop, ReadStopped,
         ReadTimeout, QueueFull, Close, vars

(***************************************************************************)
(* Kafka holds an event twice only because a connection broke: the replay  *)
(* from Last-Event-ID (sse.py:48) is the one source of repeated messages.  *)
(* Failed deliveries, full queues, crashes and restarts repeat nothing.    *)
(***************************************************************************)
THEOREM RepeatsOnlyAfterReconnect ==
    ASSUME "network" \notin Faults
    PROVE  Spec => []NoRepeats
<1>1. Init => OnceInv
  BY DEF Init, OnceInv, NoRepeats, OneConnection, StrictlyBehind
<1>2. PInv /\ OnceInv /\ [Next]_vars => OnceInv'
  BY OnceStep
<1>3. OnceInv => NoRepeats
  BY DEF OnceInv
<1> QED
  BY <1>1, <1>2, <1>3, PInvHolds, PTL DEF Spec

=============================================================================
