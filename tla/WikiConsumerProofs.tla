-------------------------- MODULE WikiConsumerProofs --------------------------
(***************************************************************************)
(* Proofs about WikiConsumer, for every topic, event set, batch size and   *)
(* combination of faults.                                                  *)
(***************************************************************************)
EXTENDS WikiConsumer, TLAPS

------------------------------------------------------------------------------
(* Types *)

LEMMA RangeType == ASSUME NEW s \in Seq(Events) PROVE Range(s) \subseteq Events
  BY DEF Range

LEMMA SufferType ==
  ASSUME HistoryTypeOK, NEW k, Suffer(k) PROVE faults' \in 0 .. MaxFaults
  BY ConsumerAssumption DEF ConsumerAssumption, HistoryTypeOK, Suffer

LEMMA ProcessEndsType == ASSUME ProcessEnds PROVE ProcessTypeOK'
  BY DEF ProcessEnds, ProcessTypeOK, Locations, Nothing, NoOffset

LEMMA RaiseType == ASSUME ProcessTypeOK, Raise PROVE ProcessTypeOK'
<1>1. CASE block = "finally" /\ ProcessEnds BY <1>1, ProcessEndsType
<1>2. CASE block = "loop" /\ pc' = "finally" /\ batch' = << >>
           /\ UNCHANGED <<control, offsets, buffer, timer, lost>>
  BY <1>2 DEF ProcessTypeOK, Locations, control, offsets
<1>3. QED BY <1>1, <1>2 DEF Raise

LEMMA ReturnType ==
  ASSUME ProcessTypeOK, Return, pending' = Nothing PROVE ProcessTypeOK'
<1>1. CASE block = "finally" /\ ProcessEnds BY <1>1, ProcessEndsType
<1>2. CASE block = "loop" /\ pc' = "poll" /\ UNCHANGED <<control, position, rows, lost>>
  BY <1>2 DEF ProcessTypeOK, Locations, control, rows, Nothing, NoOffset
<1>3. QED BY <1>1, <1>2 DEF Return

\* What a message brings: a known event, one more offset handled, and that one tracked.
LEMMA TakeType ==
  ASSUME TypeOK, NEW p \in Partitions, Take(p)
  PROVE  /\ Message(p) \in Events
         /\ position' \in [Partitions -> Nat]
         /\ pending' \in [Partitions -> Nat \cup {NoOffset}]
  BY DEF TypeOK, WorldTypeOK, ProcessTypeOK, Take, TrackOffset, Message

LEMMA DrainType ==
  ASSUME ProcessTypeOK, Drain
  PROVE  /\ buffer' \in Seq(Events) /\ batch' \in Seq(Events)
         /\ timer' \in {"open", "due"} /\ pc' \in Locations
  BY DEF ProcessTypeOK, Drain, Locations

LEMMA InitType == Init => TypeOK
  BY ConsumerAssumption
  DEF ConsumerAssumption, Init, TypeOK, WorldTypeOK, ProcessTypeOK, HistoryTypeOK,
      Nothing, NoOffset, Locations

LEMMA HandleType ==
  ASSUME TypeOK, NEW p \in Partitions, Handle(p) PROVE TypeOK'
<1> USE DEF TypeOK, WorldTypeOK, ProcessTypeOK, HistoryTypeOK, Locations,
            kafka, redis, control, offsets, rows, history
<1>1. Take(p)
  BY DEF Handle, HandleUndecodable, HandleSkipped, HandleDuplicate, HandleFresh,
         HandleUnchecked, HandleDedupError
<1>2. /\ Message(p) \in Events
      /\ position' \in [Partitions -> Nat]
      /\ pending' \in [Partitions -> Nat \cup {NoOffset}]
  BY <1>1, TakeType
<1>3. CASE HandleUndecodable(p) BY <1>2, <1>3 DEF HandleUndecodable
<1>4. CASE HandleSkipped(p) BY <1>2, <1>4 DEF HandleSkipped
<1>5. CASE HandleDuplicate(p) BY <1>2, <1>5 DEF HandleDuplicate
<1>6. CASE HandleFresh(p) BY <1>2, <1>6 DEF HandleFresh
<1>7. CASE HandleUnchecked(p) BY <1>2, <1>7 DEF HandleUnchecked
<1>8. CASE HandleDedupError(p) BY <1>2, <1>8, SufferType DEF HandleDedupError
<1>9. QED BY <1>3, <1>4, <1>5, <1>6, <1>7, <1>8 DEF Handle

LEMMA FlushType == ASSUME TypeOK, Flush PROVE TypeOK'
<1> USE DEF TypeOK, WorldTypeOK, HistoryTypeOK, kafka, redis, control, offsets, rows, history
<1>1. CASE IdleFlush BY <1>1, DrainType DEF IdleFlush, ProcessTypeOK
<1>2. CASE CheckFlush BY <1>2, DrainType DEF CheckFlush, ProcessTypeOK
<1>3. CASE CheckContinue BY <1>3 DEF CheckContinue, ProcessTypeOK, Locations
<1>4. CASE FinallyFlush BY <1>4, DrainType DEF FinallyFlush, ProcessTypeOK
<1>5. CASE FinallyEnd BY <1>5, ProcessEndsType DEF FinallyEnd
<1> DEFINE written == Range(batch)
<1>6. written \subseteq Events BY RangeType DEF ProcessTypeOK
<1>7. CASE WriteBatch BY <1>6, <1>7 DEF WriteBatch, ProcessTypeOK, Locations
<1>8. CASE WriteError
  <2>1. faults' \in 0 .. MaxFaults BY <1>8, SufferType DEF WriteError
  <2>2. ProcessTypeOK' BY <1>8, RaiseType DEF WriteError
  <2>3. QED BY <1>6, <1>8, <2>1, <2>2 DEF WriteError
<1>9. CASE WriteAnswerLost
  <2>1. faults' \in 0 .. MaxFaults BY <1>9, SufferType DEF WriteAnswerLost
  <2>2. ProcessTypeOK' BY <1>9, RaiseType DEF WriteAnswerLost
  <2>3. QED BY <1>6, <1>9, <2>1, <2>2 DEF WriteAnswerLost
<1>10. CASE Count BY <1>10 DEF Count, ProcessTypeOK
<1>11. CASE CountError
  <2>1. faults' \in 0 .. MaxFaults BY <1>11, SufferType DEF CountError
  <2>2. counted' \in [Events -> Nat] BY <1>11 DEF CountError
  <2>3. QED BY <1>11, <2>1, <2>2 DEF CountError, ProcessTypeOK
<1>12. CASE CountDone BY <1>12 DEF CountDone, ProcessTypeOK, Locations
<1> DEFINE advanced == [p \in Partitions |-> IF pending[p] = NoOffset THEN committed[p]
                                                                    ELSE pending[p] + 1]
<1>13. advanced \in [Partitions -> Nat] BY DEF ProcessTypeOK, NoOffset
<1>14. CASE CommitOffsets
  <2>1. ProcessTypeOK' BY <1>14, ReturnType DEF CommitOffsets
  <2>2. QED BY <1>13, <1>14, <2>1 DEF CommitOffsets, Advance
<1>15. CASE CommitError
  <2>1. faults' \in 0 .. MaxFaults BY <1>15, SufferType DEF CommitError
  <2>2. ProcessTypeOK' BY <1>15, RaiseType DEF CommitError
  <2>3. QED BY <1>13, <1>15, <2>1, <2>2 DEF CommitError, Advance
<1>16. QED
  BY <1>1, <1>2, <1>3, <1>4, <1>5, <1>7, <1>8, <1>9, <1>10, <1>11, <1>12, <1>14, <1>15
  DEF Flush

LEMMA NextType == ASSUME TypeOK, [Next]_vars PROVE TypeOK'
<1> USE DEF TypeOK, WorldTypeOK, ProcessTypeOK, HistoryTypeOK, Locations,
            kafka, redis, control, offsets, rows, history
<1>1. CASE UNCHANGED vars BY <1>1 DEF vars
<1>2. ASSUME NEW e \in Events, Publish(e) PROVE TypeOK'
  BY <1>2, ConsumerAssumption DEF Publish, ConsumerAssumption
<1>3. ASSUME NEW e \in Events, Expire(e) PROVE TypeOK' BY <1>3 DEF Expire
<1>4. ASSUME NEW p \in Partitions, Handle(p) PROVE TypeOK' BY <1>4, HandleType
<1>5. CASE Tick BY <1>5 DEF Tick
<1>6. CASE Stop BY <1>6, SufferType DEF Stop
<1>7. CASE Crash
  <2>1. ProcessTypeOK' /\ faults' \in 0 .. MaxFaults
    BY <1>7, ProcessEndsType, SufferType DEF Crash
  <2>2. QED BY <1>7, <2>1 DEF Crash
<1>8. CASE Start BY <1>8, SufferType DEF Start
<1>9. CASE PollNothing BY <1>9 DEF PollNothing, vars
<1>10. CASE PollError BY <1>10, SufferType DEF PollError
<1>11. CASE SeeStop BY <1>11 DEF SeeStop
<1>12. CASE Flush BY <1>12, FlushType
<1>13. QED
  BY <1>1, <1>2, <1>3, <1>4, <1>5, <1>6, <1>7, <1>8, <1>9, <1>10, <1>11, <1>12 DEF Next

\* Every variable keeps its type, whatever faults are admitted.
THEOREM TypeCorrect == Spec => []TypeOK
<1>1. Init => TypeOK BY InitType
<1>2. TypeOK /\ [Next]_vars => TypeOK' BY NextType
<1>3. QED BY <1>1, <1>2, PTL DEF Spec

------------------------------------------------------------------------------
(* The inductive invariant *)

LEMMA RangeEmpty == Range(<< >>) = {}
  BY DEF Range

LEMMA RangeAppend ==
  ASSUME NEW s \in Seq(Events), NEW e \in Events
  PROVE  Range(Append(s, e)) = Range(s) \cup {e}
<1> DEFINE t == Append(s, e)
<1>1. /\ t \in Seq(Events) /\ Len(t) = Len(s) + 1
      /\ \A i \in 1 .. Len(s) : t[i] = s[i]
      /\ t[Len(s) + 1] = e
  OBVIOUS
<1>2. DOMAIN t = 1 .. Len(s) + 1 /\ DOMAIN s = 1 .. Len(s) BY <1>1
<1> HIDE DEF t
<1>3. QED BY <1>1, <1>2 DEF Range, t

LEMMA RangeTail ==
  ASSUME NEW s \in Seq(Events), s # << >>
  PROVE  Range(Tail(s)) \subseteq Range(s) /\ Head(s) \in Range(s)
<1> DEFINE t == Tail(s)
<1>1. /\ t \in Seq(Events) /\ Len(t) = Len(s) - 1 /\ Len(s) \in Nat \ {0}
      /\ \A i \in 1 .. Len(t) : t[i] = s[i + 1]
      /\ Head(s) = s[1]
  OBVIOUS
<1>2. DOMAIN t = 1 .. Len(t) /\ DOMAIN s = 1 .. Len(s) BY <1>1
<1> HIDE DEF t
<1>3. ASSUME NEW i \in DOMAIN t PROVE t[i] \in Range(s)
  BY <1>1, <1>2, i + 1 \in DOMAIN s DEF Range
<1>4. Head(s) \in Range(s) BY <1>1, <1>2 DEF Range
<1>5. QED BY <1>3, <1>4 DEF Range, t

\* Whatever the process holds, Due only grows with the log and with the prefix asked for.
LEMMA DueMonotone ==
  ASSUME NEW p, NEW m \in Nat, NEW n \in Nat, m <= n PROVE Due(p, m) \subseteq Due(p, n)
  BY DEF Due

LEMMA InitIInv == Init => IInv
<1> SUFFICES ASSUME Init PROVE IInv OBVIOUS
<1>1. TypeOK BY InitType
<1>2. Held = {} BY RangeEmpty DEF Init, Held
<1>3. ControlInv BY DEF Init, ControlInv
<1>4. OffsetInv /\ LogInv BY DEF Init, OffsetInv, LogInv, Nothing, NoOffset
<1>5. HeldInv /\ HeldIsReplayable BY <1>2 DEF HeldInv, HeldIsReplayable
<1>6. KeyInv /\ HandledInv BY DEF Init, KeyInv, HandledInv
<1>7. LossAccounted BY DEF Init, LossAccounted, Due
<1>8. CountedIsStored BY DEF Init, CountedIsStored
<1>9. QED BY <1>1, <1>3, <1>4, <1>5, <1>6, <1>7, <1>8 DEF IInv

(***************************************************************************)
(* Steps that touch neither offsets, rows, stores nor history, and move pc *)
(* only among locations outside a flush.                                   *)
(***************************************************************************)
LEMMA QuietStep ==
  ASSUME IInv, TypeOK',
         UNCHANGED <<kafka, redis, store, offsets, buffer, batch, history, block>>,
         \/ pc' = pc /\ pc # "down"
         \/ pc \in {"poll", "check"} /\ pc' \in {"poll", "finally"}
  PROVE  IInv'
<1> USE DEF IInv, kafka, redis, offsets, history
<1>1. Held' = Held /\ Settled' = Settled BY DEF Held, Settled
<1>2. ControlInv' BY DEF ControlInv
<1>3. OffsetInv' /\ LogInv' BY DEF OffsetInv, LogInv
<1>4. HeldInv' /\ HeldIsReplayable' BY <1>1 DEF HeldInv, HeldIsReplayable
<1>5. KeyInv' BY <1>1 DEF KeyInv
<1>6. HandledInv' BY <1>1 DEF HandledInv, Due
<1>7. LossAccounted' BY <1>1 DEF LossAccounted, Due
<1>8. CountedIsStored' BY DEF CountedIsStored
<1>9. QED BY <1>2, <1>3, <1>4, <1>5, <1>6, <1>7, <1>8

LEMMA PublishStep ==
  ASSUME IInv, TypeOK', NEW e \in Events, Publish(e) PROVE IInv'
<1> USE DEF IInv
<1> DEFINE q == PartitionOf[e]
<1>1. q \in Partitions BY ConsumerAssumption DEF ConsumerAssumption
<1>2. /\ log' = [log EXCEPT ![q] = Append(@, e)]
      /\ UNCHANGED <<committed, keys, counted, store, pc, signal, block, position, pending,
                     buffer, batch, timer, lost, dropped, orphaned>>
  BY DEF Publish, redis, control, offsets, rows, history
<1>3. ASSUME NEW p \in Partitions
      PROVE  /\ Len(log[p]) \in Nat
             /\ Len(log[p]) <= Len(log'[p]) /\ Len(log'[p]) \in Nat
             /\ \A i \in 1 .. Len(log[p]) : log'[p][i] = log[p][i]
             /\ \A i \in 1 .. Len(log'[p]) : i > Len(log[p]) => p = q /\ log'[p][i] = e
  BY <1>1, <1>2 DEF TypeOK, WorldTypeOK
<1>4. Held' = Held /\ Settled' = Settled BY <1>2 DEF Held, Settled
<1>5. ControlInv' BY <1>2 DEF ControlInv
<1>6. OffsetInv' BY <1>2, <1>3 DEF OffsetInv, TypeOK, WorldTypeOK, ProcessTypeOK
<1>7. LogInv'
  <2> SUFFICES ASSUME NEW p \in Partitions, NEW i \in DOMAIN log'[p]
               PROVE  PartitionOf[log'[p][i]] = p
    BY <1>2 DEF LogInv
  <2>1. i \in 1 .. Len(log'[p]) BY DEF TypeOK, WorldTypeOK
  <2>2. CASE i <= Len(log[p])
    <3>1. i \in DOMAIN log[p] BY <1>3, <2>1, <2>2 DEF TypeOK, WorldTypeOK
    <3>2. QED BY <1>3, <2>1, <2>2, <3>1 DEF LogInv
  <2>3. CASE i > Len(log[p]) BY <1>3, <2>1, <2>3
  <2>4. QED BY <1>3, <2>1, <2>2, <2>3
<1>8. HeldInv' BY <1>4 DEF HeldInv
<1>9. HeldIsReplayable'
  <2> SUFFICES ASSUME NEW h \in Held \ store
               PROVE  LET p == PartitionOf[h]
                      IN  \E i \in committed[p] + 1 .. Len(log'[p]) : log'[p][i] = h
    BY <1>2, <1>4 DEF HeldIsReplayable
  <2> DEFINE p == PartitionOf[h]
  <2>1. h \in Events BY RangeType DEF Held, TypeOK, ProcessTypeOK
  <2>2. p \in Partitions BY <2>1, ConsumerAssumption DEF ConsumerAssumption
  <2>3. PICK i \in committed[p] + 1 .. Len(log[p]) : log[p][i] = h BY DEF HeldIsReplayable
  <2>4. committed[p] \in Nat BY <2>2 DEF TypeOK, WorldTypeOK
  <2>5. QED BY <1>3, <2>2, <2>3, <2>4
<1>10. KeyInv' BY <1>2, <1>4 DEF KeyInv
<1>11. ASSUME NEW p \in Partitions, NEW n \in Nat, n <= Len(log[p])
       PROVE  Due(p, n)' = Due(p, n)
  BY <1>3, <1>11 DEF Due
<1>12. HandledInv'
  BY <1>2, <1>4, <1>11 DEF HandledInv, OffsetInv, TypeOK, ProcessTypeOK
<1>13. LossAccounted'
  BY <1>2, <1>4, <1>11 DEF LossAccounted, OffsetInv, TypeOK, WorldTypeOK
<1>14. CountedIsStored' BY <1>2 DEF CountedIsStored
<1>15. QED BY <1>5, <1>6, <1>7, <1>8, <1>9, <1>10, <1>12, <1>13, <1>14

\* Polling one message: what it is, and what is handled afterwards.
LEMMA TakeFacts ==
  ASSUME IInv, NEW p \in Partitions, Take(p)
  PROVE  /\ Message(p) \in Events /\ PartitionOf[Message(p)] = p
         /\ \E i \in committed[p] + 1 .. Len(log[p]) : log[p][i] = Message(p)
         /\ \A q \in Partitions :
               /\ committed[q] <= position'[q] /\ position'[q] <= Len(log[q])
               /\ pending'[q] # NoOffset => pending'[q] + 1 = position'[q]
               /\ Due(q, position'[q]) \subseteq
                     Due(q, position[q]) \cup {e \in {Message(p)} : Persistable(e)}
<1> USE DEF IInv, TypeOK, WorldTypeOK, ProcessTypeOK
<1> DEFINE n == position[p] + 1
<1>1. /\ n \in 1 .. Len(log[p]) /\ Message(p) = log[p][n]
      /\ position' = [position EXCEPT ![p] = n]
      /\ pc = "poll"
  BY DEF Take, Message
<1>2. n > committed[p] BY <1>1 DEF OffsetInv
<1>3. Message(p) \in Events /\ PartitionOf[Message(p)] = p BY <1>1 DEF LogInv
<1>4. \E i \in committed[p] + 1 .. Len(log[p]) : log[p][i] = Message(p)
  <2>1. n \in committed[p] + 1 .. Len(log[p])
    <3>1. committed[p] \in Nat /\ n \in Nat /\ Len(log[p]) \in Nat /\ n <= Len(log[p])
      BY <1>1
    <3>2. QED BY <1>2, <3>1
  <2>2. QED BY <1>1, <2>1
<1>5. ASSUME NEW q \in Partitions
      PROVE  /\ committed[q] <= position'[q] /\ position'[q] <= Len(log[q])
             /\ pending'[q] # NoOffset => pending'[q] + 1 = position'[q]
  BY <1>1, <1>5 DEF OffsetInv, Take, TrackOffset, NoOffset
<1>6. ASSUME NEW q \in Partitions
      PROVE  Due(q, position'[q]) \subseteq
                Due(q, position[q]) \cup {e \in {Message(p)} : Persistable(e)}
  BY <1>1, <1>6 DEF Due
<1>7. QED BY <1>3, <1>4, <1>5, <1>6

(***************************************************************************)
(* Handling a message: it is skipped, recognised as a duplicate, or joins  *)
(* the buffer with or without a key of its own.                            *)
(***************************************************************************)
LEMMA HandleStep ==
  ASSUME IInv, TypeOK', NEW p \in Partitions, Handle(p) PROVE IInv'
<1> DEFINE e == Message(p)
<1>1. /\ Take(p) /\ pc = "poll" /\ pc' \in {"check", "finally"}
      /\ UNCHANGED <<log, committed, counted, store, signal, block, batch, timer,
                     dropped, orphaned>>
      /\ \/ /\ ~Persistable(e) \/ e \in keys
            /\ UNCHANGED <<keys, buffer>>
         \/ /\ Persistable(e) /\ buffer' = Append(buffer, e)
            /\ keys \subseteq keys' /\ keys' \subseteq keys \cup {e}
  BY DEF Handle, HandleUndecodable, HandleSkipped, HandleDuplicate, HandleFresh,
         HandleUnchecked, HandleDedupError, Persistable, Take,
         kafka, redis, control, rows, history
<1>2. /\ e \in Events /\ PartitionOf[e] = p
      /\ \E i \in committed[p] + 1 .. Len(log[p]) : log[p][i] = e
      /\ \A q \in Partitions :
            /\ committed[q] <= position'[q] /\ position'[q] <= Len(log[q])
            /\ pending'[q] # NoOffset => pending'[q] + 1 = position'[q]
            /\ Due(q, position'[q]) \subseteq
                  Due(q, position[q]) \cup {x \in {e} : Persistable(x)}
  BY <1>1, TakeFacts
<1> HIDE DEF e
<1> USE DEF IInv
<1>3. Settled' = Settled BY <1>1 DEF Settled
<1>4. \/ Held' = Held /\ keys' = keys /\ (~Persistable(e) \/ e \in Settled \cup Held)
      \/ Persistable(e) /\ Held' = Held \cup {e} /\ keys' \subseteq keys \cup {e}
  <2>1. CASE UNCHANGED buffer /\ keys' = keys /\ (~Persistable(e) \/ e \in keys)
    BY <1>1, <2>1 DEF Held, KeyInv
  <2>2. CASE Persistable(e) /\ buffer' = Append(buffer, e) /\ keys' \subseteq keys \cup {e}
    <3>1. Range(buffer') = Range(buffer) \cup {e}
      BY <1>2, <2>2, RangeAppend DEF TypeOK, ProcessTypeOK
    <3>2. QED BY <1>1, <2>2, <3>1 DEF Held
  <2>3. QED BY <1>1, <2>1, <2>2
<1>5. ControlInv' BY <1>1 DEF ControlInv
<1>6. OffsetInv' BY <1>1, <1>2 DEF OffsetInv
<1>7. LogInv' /\ CountedIsStored' BY <1>1 DEF LogInv, CountedIsStored
<1>8. HeldInv' BY <1>4 DEF HeldInv, Persistable
<1>9. HeldIsReplayable' BY <1>1, <1>2, <1>4 DEF HeldIsReplayable
<1>10. KeyInv' BY <1>3, <1>4 DEF KeyInv
<1>11. \A q \in Partitions : \A n : Due(q, n)' = Due(q, n) BY <1>1 DEF Due, Persistable
<1>12. HandledInv'
  <2> SUFFICES ASSUME NEW q \in Partitions
               PROVE  Due(q, position'[q]) \subseteq Settled \cup Held'
    BY <1>3, <1>11 DEF HandledInv, Due, Persistable
  <2>1. Due(q, position[q]) \subseteq Settled \cup Held BY <1>1 DEF HandledInv
  <2>2. QED BY <1>2, <1>4, <2>1
<1>13. LossAccounted' BY <1>1, <1>3 DEF LossAccounted, Due, Persistable
<1>14. QED BY <1>5, <1>6, <1>7, <1>8, <1>9, <1>10, <1>12, <1>13

\* _flush takes the rows over: what is held stays held.
LEMMA DrainStep ==
  ASSUME IInv, TypeOK', Drain, pc \in {"poll", "check", "finally"},
         UNCHANGED <<kafka, redis, store, offsets, history>>
  PROVE  IInv'
<1> USE DEF IInv, kafka, redis, offsets, history
<1>1. /\ batch = << >> /\ batch' = buffer /\ buffer' = << >>
      /\ pc' = IF buffer = << >> THEN "commit" ELSE "write"
  BY DEF ControlInv, Drain
<1>2. Held' = Held BY <1>1 DEF Held
<1>3. Settled' = Settled BY DEF Settled
<1>4. ControlInv' BY <1>1 DEF ControlInv
<1>5. OffsetInv' /\ LogInv' BY <1>1 DEF OffsetInv, LogInv
<1>6. HeldInv' /\ HeldIsReplayable' BY <1>2 DEF HeldInv, HeldIsReplayable, Persistable
<1>7. KeyInv' BY <1>2, <1>3 DEF KeyInv
<1>8. HandledInv' BY <1>1, <1>2, <1>3 DEF HandledInv, Due, Persistable
<1>9. LossAccounted' BY <1>3 DEF LossAccounted, Due, Persistable
<1>10. CountedIsStored' BY DEF CountedIsStored
<1>11. QED BY <1>4, <1>5, <1>6, <1>7, <1>8, <1>9, <1>10

(***************************************************************************)
(* The process ends, for whatever reason: enough that nothing claimed is   *)
(* lost without account, and that what is committed is settled.            *)
(***************************************************************************)
LEMMA EndStep ==
  ASSUME IInv, TypeOK', ProcessEnds, UNCHANGED <<log, redis>>,
         store \subseteq store', Settled \subseteq Settled',
         Held \cap keys \subseteq Settled',
         \A p \in Partitions : /\ committed'[p] <= Len(log[p])
                               /\ Due(p, committed'[p]) \subseteq Settled'
  PROVE  IInv'
<1> USE DEF IInv, redis
<1>1. /\ pc' = "down" /\ buffer' = << >> /\ batch' = << >> /\ pending' = Nothing
      /\ block' = "loop" /\ signal' = "none" /\ timer' = "open"
  BY DEF ProcessEnds
<1>2. Held' = {} BY <1>1, RangeEmpty DEF Held
<1>3. ControlInv' BY <1>1 DEF ControlInv
<1>4. OffsetInv' /\ LogInv' BY <1>1 DEF OffsetInv, LogInv, Nothing
<1>5. HeldInv' /\ HeldIsReplayable' BY <1>2 DEF HeldInv, HeldIsReplayable
<1>6. KeyInv' BY DEF KeyInv
<1>7. HandledInv' BY <1>1 DEF HandledInv
<1>8. LossAccounted' BY DEF LossAccounted, Due, Persistable
<1>9. CountedIsStored' BY DEF CountedIsStored
<1>10. QED BY <1>3, <1>4, <1>5, <1>6, <1>7, <1>8, <1>9

(***************************************************************************)
(* A flush is over, by an exception or by returning: all it held is        *)
(* settled, so whatever has been handled may be committed.                 *)
(***************************************************************************)
LEMMA FlushOver ==
  ASSUME IInv, TypeOK', pc \in {"write", "commit"}, UNCHANGED <<log, redis>>,
         store \subseteq store', Settled \subseteq Settled', Held \subseteq Settled',
         \A p \in Partitions : committed'[p] \in {committed[p], position[p]},
         \/ ProcessEnds
         \/ /\ block = "loop" /\ block' = "loop"
            /\ pc' \in {"poll", "finally"} /\ buffer' = << >> /\ batch' = << >>
            /\ position' = position
            /\ pending' \in {pending, Nothing}
  PROVE  IInv'
<1> USE DEF IInv, redis
<1>1. ASSUME NEW p \in Partitions
      PROVE  /\ committed'[p] <= Len(log[p]) /\ committed'[p] <= position[p]
             /\ Due(p, position[p]) \subseteq Settled'
             /\ Due(p, committed'[p]) \subseteq Settled'
  <2>1. /\ committed[p] \in Nat /\ position[p] \in Nat /\ Len(log[p]) \in Nat
        /\ committed[p] <= position[p] /\ position[p] <= Len(log[p])
    <3>1. committed[p] \in Nat /\ position[p] \in Nat /\ log[p] \in Seq(Events)
      BY <1>1 DEF TypeOK, WorldTypeOK, ProcessTypeOK
    <3>2. Len(log[p]) \in Nat BY <3>1
    <3>3. committed[p] <= position[p] /\ position[p] <= Len(log[p]) BY <1>1 DEF OffsetInv
    <3>4. QED BY <3>1, <3>2, <3>3
  <2>2. Due(p, position[p]) \subseteq Settled' BY DEF HandledInv
  <2>3. Due(p, committed[p]) \subseteq Settled' BY DEF LossAccounted
  <2>4. CASE committed'[p] = committed[p] BY <2>1, <2>2, <2>3, <2>4
  <2>5. CASE committed'[p] = position[p] BY <2>1, <2>2, <2>5
  <2>6. QED BY <2>4, <2>5
<1>2. CASE ProcessEnds BY <1>1, <1>2, EndStep
<1>3. CASE /\ block = "loop" /\ block' = "loop"
           /\ pc' \in {"poll", "finally"} /\ buffer' = << >> /\ batch' = << >>
           /\ position' = position /\ pending' \in {pending, Nothing}
  <2>1. Held' = {} BY <1>3, RangeEmpty DEF Held
  <2>2. ControlInv' BY <1>3 DEF ControlInv
  <2>3. OffsetInv' BY <1>1, <1>3 DEF OffsetInv, Nothing
  <2>4. LogInv' BY DEF LogInv
  <2>5. HeldInv' /\ HeldIsReplayable' BY <2>1 DEF HeldInv, HeldIsReplayable
  <2>6. KeyInv' BY DEF KeyInv
  <2>7. HandledInv' BY <1>1, <1>3 DEF HandledInv, Due, Persistable
  <2>8. LossAccounted' BY <1>1 DEF LossAccounted, Due, Persistable
  <2>9. CountedIsStored' BY DEF CountedIsStored
  <2>10. QED BY <2>2, <2>3, <2>4, <2>5, <2>6, <2>7, <2>8, <2>9
<1>4. QED BY <1>2, <1>3

LEMMA FlushStep == ASSUME IInv, TypeOK', Flush PROVE IInv'
<1> USE DEF IInv
<1>1. CASE IdleFlush BY <1>1, DrainStep DEF IdleFlush
<1>2. CASE CheckFlush BY <1>2, DrainStep DEF CheckFlush
<1>3. CASE CheckContinue
  BY <1>3, QuietStep DEF CheckContinue, control, rows
<1>4. CASE FinallyFlush BY <1>4, DrainStep DEF FinallyFlush
<1>5. CASE FinallyEnd
  <2>1. Held = {} BY <1>5, RangeEmpty DEF FinallyEnd, ControlInv, Held
  <2>2. ASSUME NEW p \in Partitions
        PROVE  committed[p] <= Len(log[p]) /\ Due(p, committed[p]) \subseteq Settled
    BY <2>2 DEF OffsetInv, LossAccounted
  <2>3. committed' = committed /\ Settled' = Settled /\ ProcessEnds
        /\ UNCHANGED <<log, redis, store>>
    BY <1>5 DEF FinallyEnd, kafka, history, Settled
  <2>4. QED BY <2>1, <2>2, <2>3, EndStep
<1>6. CASE WriteBatch
  <2>1. /\ pc = "write" /\ pc' = "count" /\ store' = store \cup Range(batch)
        /\ UNCHANGED <<log, committed, keys, counted, block, position, pending,
                       buffer, batch, dropped, orphaned>>
    BY <1>6 DEF WriteBatch, kafka, redis, control, offsets, rows, history
  <2>2. Held' = Held /\ Settled \subseteq Settled' BY <2>1 DEF Held, Settled
  <2>3. ControlInv' BY <2>1 DEF ControlInv
  <2>4. OffsetInv' /\ LogInv' BY <2>1 DEF OffsetInv, LogInv
  <2>5. HeldInv' /\ HeldIsReplayable' BY <2>1, <2>2 DEF HeldInv, HeldIsReplayable, Persistable
  <2>6. KeyInv' BY <2>1, <2>2 DEF KeyInv
  <2>7. HandledInv' BY <2>1, <2>2 DEF HandledInv, Due, Persistable
  <2>8. LossAccounted' BY <2>1, <2>2 DEF LossAccounted, Due, Persistable
  <2>9. CountedIsStored' BY <2>1 DEF CountedIsStored
  <2>10. QED BY <2>3, <2>4, <2>5, <2>6, <2>7, <2>8, <2>9
<1>7. CASE WriteError \/ WriteAnswerLost
  <2>1. /\ pc = "write" /\ Raise /\ UNCHANGED <<log, committed, redis, orphaned>>
        /\ \/ store' = store \cup Range(batch) /\ dropped' = dropped
           \/ store' = store /\ dropped' = dropped \cup (Range(batch) \ store)
    BY <1>7 DEF WriteError, WriteAnswerLost, kafka, history
  <2>2. buffer = << >> BY <2>1 DEF ControlInv
  <2>3. Held = Range(batch) BY <2>2, RangeEmpty DEF Held
  <2>4. store \subseteq store' /\ Settled \subseteq Settled' /\ Held \subseteq Settled'
    BY <2>1, <2>3 DEF Settled
  <2>5. \/ ProcessEnds
        \/ /\ block = "loop" /\ block' = "loop"
           /\ pc' = "finally" /\ buffer' = << >> /\ batch' = << >>
           /\ position' = position /\ pending' = pending
    BY <2>1, <2>2 DEF Raise, control, offsets
  <2>6. QED BY <2>1, <2>4, <2>5, FlushOver
<1>8. CASE Count \/ CountError
  <2>1. /\ pc = "count" /\ pc' = "count" /\ batch # << >> /\ batch' = Tail(batch)
        /\ counted' \in {counted, [counted EXCEPT ![Head(batch)] = @ + 1]}
        /\ UNCHANGED <<log, committed, keys, store, block, position, pending, buffer,
                       dropped, orphaned>>
    BY <1>8 DEF Count, CountError, kafka, control, offsets, history
  <2>2. Range(batch') \subseteq Range(batch) /\ Head(batch) \in store
    BY <2>1, RangeTail DEF ControlInv, TypeOK, ProcessTypeOK
  <2>3. Held' \subseteq Held /\ Held \subseteq Held' \cup store
    BY <2>1, <2>2 DEF Held, ControlInv
  <2>4. Settled' = Settled /\ store \subseteq Settled BY <2>1 DEF Settled
  <2>5. ControlInv' BY <2>1, <2>2 DEF ControlInv
  <2>6. OffsetInv' /\ LogInv' BY <2>1 DEF OffsetInv, LogInv
  <2>7. HeldInv' /\ HeldIsReplayable' BY <2>1, <2>3 DEF HeldInv, HeldIsReplayable, Persistable
  <2>8. KeyInv' BY <2>1, <2>3, <2>4 DEF KeyInv
  <2>9. HandledInv' BY <2>1, <2>3, <2>4 DEF HandledInv, Due, Persistable
  <2>10. LossAccounted' BY <2>1, <2>4 DEF LossAccounted, Due, Persistable
  <2>11. CountedIsStored'
    BY <2>1, <2>2 DEF CountedIsStored, TypeOK, WorldTypeOK
  <2>12. QED BY <2>5, <2>6, <2>7, <2>8, <2>9, <2>10, <2>11
<1>9. CASE CountDone
  <2>1. /\ pc = "count" /\ pc' = "commit" /\ batch' = << >>
        /\ UNCHANGED <<log, committed, keys, counted, store, block, position, pending, buffer,
                       dropped, orphaned>>
    BY <1>9 DEF CountDone, kafka, redis, control, offsets, history
  <2>2. Held' = {} /\ Held \subseteq store
    BY <2>1, RangeEmpty DEF Held, ControlInv
  <2>3. Settled' = Settled /\ store \subseteq Settled BY <2>1 DEF Settled
  <2>4. ControlInv' BY <2>1 DEF ControlInv
  <2>5. OffsetInv' /\ LogInv' BY <2>1 DEF OffsetInv, LogInv
  <2>6. HeldInv' /\ HeldIsReplayable' BY <2>2 DEF HeldInv, HeldIsReplayable
  <2>7. KeyInv' BY <2>1, <2>2, <2>3 DEF KeyInv
  <2>8. HandledInv' BY <2>1, <2>2, <2>3 DEF HandledInv, Due, Persistable
  <2>9. LossAccounted' BY <2>1, <2>3 DEF LossAccounted, Due, Persistable
  <2>10. CountedIsStored' BY <2>1 DEF CountedIsStored
  <2>11. QED BY <2>4, <2>5, <2>6, <2>7, <2>8, <2>9, <2>10
<1>10. CASE CommitOffsets \/ CommitError
  <2>1. /\ pc = "commit" /\ UNCHANGED <<log, redis, store, dropped, orphaned>>
        /\ Advance \/ UNCHANGED committed
        /\ Raise \/ (Return /\ pending' = Nothing)
    BY <1>10 DEF CommitOffsets, CommitError, history
  <2>2. buffer = << >> /\ batch = << >> BY <2>1 DEF ControlInv
  <2>3. Held = {} /\ Settled' = Settled BY <2>1, <2>2, RangeEmpty DEF Held, Settled
  <2>4. \A p \in Partitions : committed'[p] \in {committed[p], position[p]}
    BY <2>1 DEF Advance, OffsetInv
  <2>5. \/ ProcessEnds
        \/ /\ block = "loop" /\ block' = "loop"
           /\ pc' \in {"poll", "finally"} /\ buffer' = << >> /\ batch' = << >>
           /\ position' = position /\ pending' \in {pending, Nothing}
    BY <2>1, <2>2 DEF Raise, Return, control, offsets, rows
  <2>6. QED BY <2>1, <2>3, <2>4, <2>5, FlushOver
<1>11. QED
  BY <1>1, <1>2, <1>3, <1>4, <1>5, <1>6, <1>7, <1>8, <1>9, <1>10 DEF Flush

LEMMA NextIInv == ASSUME IInv, [Next]_vars PROVE IInv'
<1>1. TypeOK' BY NextType DEF IInv
<1> USE <1>1 DEF kafka, redis, control, offsets, rows, history
<1>2. CASE UNCHANGED vars
  BY <1>2 DEF vars, IInv, TypeOK, WorldTypeOK, ProcessTypeOK, HistoryTypeOK, ControlInv,
         OffsetInv, LogInv, HeldInv, HeldIsReplayable, KeyInv, HandledInv, LossAccounted,
         CountedIsStored, Held, Settled, Due, Persistable
<1>3. ASSUME NEW e \in Events, Publish(e) PROVE IInv' BY <1>3, PublishStep
<1>4. ASSUME NEW e \in Events, Expire(e) PROVE IInv'
  <2>1. /\ keys' \subseteq keys
        /\ UNCHANGED <<log, committed, counted, store, pc, signal, block, position, pending,
                       buffer, batch, timer, lost, dropped, orphaned>>
    BY <1>4 DEF Expire
  <2>2. Held' = Held /\ Settled' = Settled BY <2>1 DEF Held, Settled
  <2>3. ControlInv' /\ OffsetInv' /\ LogInv' BY <2>1 DEF IInv, ControlInv, OffsetInv, LogInv
  <2>4. HeldInv' /\ HeldIsReplayable'
    BY <2>1, <2>2 DEF IInv, HeldInv, HeldIsReplayable, Persistable
  <2>5. KeyInv' BY <2>1, <2>2 DEF IInv, KeyInv
  <2>6. HandledInv' BY <2>1, <2>2 DEF IInv, HandledInv, Due, Persistable
  <2>7. LossAccounted' BY <2>1, <2>2 DEF IInv, LossAccounted, Due, Persistable
  <2>8. CountedIsStored' BY <2>1 DEF IInv, CountedIsStored
  <2>9. QED BY <2>3, <2>4, <2>5, <2>6, <2>7, <2>8 DEF IInv
<1>5. ASSUME NEW p \in Partitions, Handle(p) PROVE IInv' BY <1>5, HandleStep
<1>6. CASE Tick BY <1>6, QuietStep DEF Tick
<1>7. CASE Stop BY <1>7, QuietStep DEF Stop
<1>8. CASE Crash
  <2>1. /\ ProcessEnds /\ UNCHANGED <<log, committed, redis, store, dropped>>
        /\ orphaned' = orphaned \cup ((Held \cap keys) \ store)
    BY <1>8 DEF Crash
  <2>2. Settled \subseteq Settled' /\ Held \cap keys \subseteq Settled'
    BY <2>1 DEF Settled
  <2>3. ASSUME NEW p \in Partitions
        PROVE  committed'[p] <= Len(log[p]) /\ Due(p, committed'[p]) \subseteq Settled'
    BY <2>1, <2>2, <2>3 DEF IInv, OffsetInv, LossAccounted
  <2>4. QED BY <2>1, <2>2, <2>3, EndStep
<1>9. CASE Start
  <2>1. /\ pc = "down" /\ pc' = "poll" /\ position' = committed
        /\ UNCHANGED <<log, committed, keys, counted, store, signal, block, pending,
                       buffer, batch, timer, dropped, orphaned>>
    BY <1>9 DEF Start
  <2>2. Held' = Held /\ Settled' = Settled BY <2>1 DEF Held, Settled
  <2>3. ControlInv' BY <2>1 DEF IInv, ControlInv
  <2>4. OffsetInv' /\ LogInv'
    BY <2>1 DEF IInv, ControlInv, OffsetInv, LogInv, Nothing, TypeOK, WorldTypeOK
  <2>5. HeldInv' /\ HeldIsReplayable'
    BY <2>1, <2>2 DEF IInv, HeldInv, HeldIsReplayable, Persistable
  <2>6. KeyInv' BY <2>1, <2>2 DEF IInv, KeyInv
  <2>7. HandledInv' BY <2>1, <2>2 DEF IInv, HandledInv, LossAccounted, Due, Persistable
  <2>8. LossAccounted' BY <2>1, <2>2 DEF IInv, LossAccounted, Due, Persistable
  <2>9. CountedIsStored' BY <2>1 DEF IInv, CountedIsStored
  <2>10. QED BY <2>3, <2>4, <2>5, <2>6, <2>7, <2>8, <2>9 DEF IInv
<1>10. CASE PollNothing BY <1>10, <1>2 DEF PollNothing
<1>11. CASE PollError BY <1>11, QuietStep DEF PollError
<1>12. CASE SeeStop BY <1>12, QuietStep DEF SeeStop
<1>13. CASE Flush BY <1>13, FlushStep
<1>14. QED
  BY <1>2, <1>3, <1>4, <1>5, <1>6, <1>7, <1>8, <1>9, <1>10, <1>11, <1>12, <1>13 DEF Next

LEMMA Invariance == Spec => []IInv
<1>1. Init => IInv BY InitIInv
<1>2. IInv /\ [Next]_vars => IInv' BY NextIInv
<1>3. QED BY <1>1, <1>2, PTL DEF Spec

------------------------------------------------------------------------------
(* Safety *)

(***************************************************************************)
(* A committed event that should have a row has one, or was in a batch     *)
(* whose write raised, or in the memory of a process killed after claiming *)
(* it.                                                                     *)
(***************************************************************************)
THEOREM LossIsAccounted == Spec => []LossAccounted
<1>1. IInv => LossAccounted BY DEF IInv
<1>2. QED BY <1>1, Invariance, PTL

\* A row that is only in memory will be delivered again by Kafka.
THEOREM MemoryIsReplayable == Spec => []HeldIsReplayable
<1>1. IInv => HeldIsReplayable BY DEF IInv
<1>2. QED BY <1>1, Invariance, PTL

\* The live counters never run ahead of Postgres.
THEOREM CountersFollowStore == Spec => []CountedIsStored
<1>1. IInv => CountedIsStored BY DEF IInv
<1>2. QED BY <1>1, Invariance, PTL

(***************************************************************************)
(* Committed offsets only move forward, and to what has been handled.      *)
(***************************************************************************)
LEMMA CommitMoves ==
  ASSUME IInv, [Next]_vars, NEW p \in Partitions, committed'[p] # committed[p]
  PROVE  committed[p] < committed'[p] /\ committed'[p] = position[p]
<1>1. CommitOffsets \/ CommitError
  BY DEF Next, vars, kafka, Publish, Expire, Handle, HandleUndecodable, HandleSkipped,
         HandleDuplicate, HandleFresh, HandleUnchecked, HandleDedupError, Tick, Stop, Crash,
         Start, PollNothing, PollError, SeeStop, Flush, IdleFlush, CheckFlush, CheckContinue,
         FinallyFlush, FinallyEnd, WriteBatch, WriteError, WriteAnswerLost, Count, CountError,
         CountDone
<1>2. pc = "commit" /\ Advance BY <1>1 DEF CommitOffsets, CommitError
<1>3. committed'[p] = position[p] BY <1>2 DEF Advance, IInv, OffsetInv
<1>4. committed[p] <= position[p] /\ committed[p] \in Nat /\ position[p] \in Nat
  BY <1>2 DEF IInv, OffsetInv, TypeOK, WorldTypeOK, ProcessTypeOK
<1>5. QED BY <1>3, <1>4

\* No offset is ever taken back, whatever fails.
THEOREM CommitsOnlyAdvance == Spec => CommitsAdvance
<1>1. IInv /\ [Next]_vars =>
        [\A p \in Partitions : committed'[p] # committed[p] =>
            committed[p] < committed'[p] /\ committed'[p] = position[p]]_vars
  BY CommitMoves
<1>2. QED BY <1>1, Invariance, PTL DEF Spec, CommitsAdvance

(***************************************************************************)
(* Where neither processes nor writes fail and no row is poison, history   *)
(* stays empty and the promise of docs/architecture.md holds.              *)
(***************************************************************************)
NothingForfeited == dropped = {} /\ orphaned = {}

LEMMA ForfeitCause ==
  ASSUME IInv, [Next]_vars, dropped' # dropped \/ orphaned' # orphaned
  PROVE  \/ Crash /\ "crash" \in Faults
         \/ WriteError /\ ("postgres" \in Faults \/ \E e \in Events : Kind[e] = "poison")
<1>1. Crash \/ WriteError
  BY DEF Next, vars, history, Publish, Expire, Handle, HandleUndecodable, HandleSkipped,
         HandleDuplicate, HandleFresh, HandleUnchecked, HandleDedupError, Tick, Stop,
         Start, PollNothing, PollError, SeeStop, Flush, IdleFlush, CheckFlush, CheckContinue,
         FinallyFlush, FinallyEnd, WriteBatch, WriteAnswerLost, Count, CountError,
         CountDone, CommitOffsets, CommitError
<1>2. CASE Crash BY <1>2 DEF Crash, Suffer
<1>3. CASE WriteError
  <2>1. Range(batch) \subseteq Events
    BY RangeType DEF IInv, TypeOK, ProcessTypeOK
  <2>2. QED BY <1>3, <2>1 DEF WriteError, Suffer, Acceptable
<1>4. QED BY <1>1, <1>2, <1>3

THEOREM NoFaultNoLoss == ASSUME ~LossPossible PROVE Spec => []CommittedIsStored
<1>1. Init => NothingForfeited BY DEF Init, NothingForfeited
<1>2. NothingForfeited /\ IInv /\ [Next]_vars => NothingForfeited'
  BY ForfeitCause DEF NothingForfeited, LossPossible
<1>3. NothingForfeited /\ IInv => CommittedIsStored
  BY DEF NothingForfeited, IInv, LossAccounted, CommittedIsStored, Settled
<1>4. QED BY <1>1, <1>2, <1>3, Invariance, PTL DEF Spec

------------------------------------------------------------------------------
(* Counting once *)

LEMMA DistinctAppend ==
  ASSUME NEW s \in Seq(Events), Distinct(s), NEW e \in Events, e \notin Range(s)
  PROVE  Distinct(Append(s, e))
<1> DEFINE t == Append(s, e)
<1>1. /\ Len(s) \in Nat /\ DOMAIN s = 1 .. Len(s) /\ DOMAIN t = 1 .. Len(s) + 1
      /\ \A i \in 1 .. Len(s) : t[i] = s[i]
      /\ t[Len(s) + 1] = e
  OBVIOUS
<1>2. \A i \in 1 .. Len(s) : s[i] # e BY <1>1 DEF Range
<1> HIDE DEF t
<1>3. QED BY <1>1, <1>2 DEF Distinct, t

LEMMA DistinctTail ==
  ASSUME NEW s \in Seq(Events), Distinct(s), s # << >>
  PROVE  Distinct(Tail(s)) /\ Head(s) \notin Range(Tail(s))
<1> DEFINE t == Tail(s)
<1>1. /\ t \in Seq(Events) /\ Len(t) = Len(s) - 1 /\ Len(s) \in Nat \ {0}
      /\ \A i \in 1 .. Len(t) : t[i] = s[i + 1]
      /\ Head(s) = s[1]
  OBVIOUS
<1>2. DOMAIN t = 1 .. Len(t) /\ DOMAIN s = 1 .. Len(s) BY <1>1
<1> HIDE DEF t
<1>3. Distinct(t)
  <2> SUFFICES ASSUME NEW i \in DOMAIN t, NEW j \in DOMAIN t, t[i] = t[j] PROVE i = j
    BY DEF Distinct
  <2>1. i + 1 \in DOMAIN s /\ j + 1 \in DOMAIN s /\ s[i + 1] = s[j + 1] BY <1>1, <1>2
  <2>2. i + 1 = j + 1 BY <2>1 DEF Distinct
  <2>3. QED BY <1>1, <1>2, <2>2
<1>4. ASSUME NEW i \in DOMAIN t PROVE t[i] # s[1]
  <2>1. i + 1 \in DOMAIN s /\ 1 \in DOMAIN s /\ i + 1 # 1 /\ t[i] = s[i + 1] BY <1>1, <1>2
  <2>2. QED BY <2>1 DEF Distinct
<1>5. Head(s) \notin Range(t) BY <1>1, <1>4 DEF Range
<1>6. QED BY <1>3, <1>5 DEF t

LEMMA CountInit == Init => CountInv
<1>1. Init => Held = {} BY RangeEmpty DEF Init, Held
<1>2. QED BY <1>1 DEF Init, CountInv, Distinct

\* With a clean memory only the keys have to cover what has been counted.
LEMMA CountEnd ==
  ASSUME CountInv, ProcessEnds, UNCHANGED redis PROVE CountInv'
<1>1. buffer' = << >> /\ batch' = << >> /\ lost' = {} BY DEF ProcessEnds
<1>2. Held' = {} BY <1>1, RangeEmpty DEF Held
<1>3. QED BY <1>1, <1>2 DEF CountInv, redis, Distinct

LEMMA CountRaise ==
  ASSUME IInv, CountInv, Raise, pc \in {"write", "commit"}, UNCHANGED redis PROVE CountInv'
<1>1. CASE block = "finally" /\ ProcessEnds BY <1>1, CountEnd
<1>2. CASE lost' = lost /\ buffer' = buffer /\ batch' = << >>
  <2>1. Held' \subseteq Held BY <1>2, RangeEmpty DEF Held
  <2>2. QED BY <1>2, <2>1 DEF CountInv, redis, Distinct
<1>3. QED BY <1>1, <1>2 DEF Raise

LEMMA CountStep ==
  ASSUME Faults \cap {"redis", "expiry"} = {}, IInv, CountInv, [Next]_vars PROVE CountInv'
<1> USE DEF kafka, redis, control, offsets, rows, history
<1>1. CASE UNCHANGED <<keys, counted, buffer, batch, lost>>
  BY <1>1 DEF CountInv, Held, Distinct
<1>2. ASSUME NEW e \in Events, Publish(e) \/ Expire(e) PROVE CountInv'
  BY <1>1, <1>2 DEF Publish, Expire
<1>3. ASSUME NEW p \in Partitions, Handle(p) PROVE CountInv'
  <2> DEFINE e == Message(p)
  <2>1. CASE HandleFresh(p)
    <3>1. e \in Events
      BY <2>1, TakeFacts DEF HandleFresh
    <3>2. /\ e \notin keys /\ keys' = keys \cup {e} /\ buffer' = Append(buffer, e)
          /\ UNCHANGED <<counted, batch, lost>>
      BY <2>1 DEF HandleFresh
    <3> HIDE DEF e
    <3>3. e \notin Held /\ counted[e] = 0
      BY <3>1, <3>2 DEF CountInv
    <3>4. buffer \in Seq(Events) /\ e \notin Range(buffer)
      BY <3>3 DEF IInv, TypeOK, ProcessTypeOK, Held
    <3>5. Distinct(buffer') /\ Held' = Held \cup {e}
      BY <3>1, <3>2, <3>4, DistinctAppend, RangeAppend DEF CountInv, Held
    <3>6. QED BY <3>2, <3>3, <3>5 DEF CountInv, Distinct
  <2>2. CASE HandleUndecodable(p) \/ HandleSkipped(p) \/ HandleDuplicate(p)
    BY <1>1, <2>2 DEF HandleUndecodable, HandleSkipped, HandleDuplicate
  <2>3. ~HandleUnchecked(p) BY DEF HandleUnchecked, CountInv
  <2>4. ~HandleDedupError(p) BY DEF HandleDedupError, Suffer
  <2>5. QED BY <1>3, <2>1, <2>2, <2>3, <2>4 DEF Handle
<1>4. CASE Tick \/ Stop \/ PollNothing \/ PollError \/ SeeStop
  BY <1>1, <1>4 DEF Tick, Stop, PollNothing, PollError, SeeStop, vars
<1>5. CASE Crash BY <1>5, CountEnd DEF Crash
<1>6. CASE Start
  <2>1. lost' = {} BY <1>6 DEF Start, Suffer
  <2>2. QED BY <1>1, <1>6, <2>1 DEF Start, CountInv
<1>7. CASE IdleFlush \/ CheckFlush \/ FinallyFlush
  <2>1. /\ batch = << >> /\ batch' = buffer /\ buffer' = << >>
        /\ UNCHANGED <<keys, counted, lost>>
    BY <1>7 DEF IdleFlush, CheckFlush, FinallyFlush, Drain, IInv, ControlInv
  <2>2. Held' = Held BY <2>1 DEF Held
  <2>3. QED BY <2>1, <2>2 DEF CountInv, Distinct
<1>8. CASE CheckContinue \/ WriteBatch
  BY <1>1, <1>8 DEF CheckContinue, WriteBatch
<1>9. CASE FinallyEnd BY <1>9, CountEnd DEF FinallyEnd
<1>10. CASE WriteError \/ WriteAnswerLost
  BY <1>10, CountRaise DEF WriteError, WriteAnswerLost
<1>11. CASE Count
  <2>1. /\ pc = "count" /\ batch # << >> /\ batch' = Tail(batch)
        /\ counted' = [counted EXCEPT ![Head(batch)] = @ + 1]
        /\ UNCHANGED <<keys, buffer, lost>>
    BY <1>11 DEF Count
  <2>2. batch \in Seq(Events) /\ buffer = << >> /\ counted \in [Events -> Nat]
    BY <2>1 DEF IInv, TypeOK, WorldTypeOK, ProcessTypeOK, ControlInv
  <2>3. /\ Range(batch') \subseteq Range(batch) /\ Head(batch) \in Range(batch)
        /\ Distinct(batch') /\ Head(batch) \notin Range(batch')
    BY <2>1, <2>2, RangeTail, DistinctTail DEF CountInv
  <2>4. Held = Range(batch) /\ Held' = Range(batch')
    BY <2>1, <2>2, RangeEmpty DEF Held
  <2>5. Head(batch) \in keys /\ counted[Head(batch)] = 0 BY <2>3, <2>4 DEF CountInv
  <2>6. \A e \in Held' : counted'[e] = 0
    BY <2>1, <2>2, <2>3, <2>4, RangeType DEF CountInv
  <2>7. \A e \in Events : counted'[e] <= 1 /\ (counted'[e] # 0 => e \in keys)
    BY <2>1, <2>2, <2>5 DEF CountInv
  <2>8. QED BY <2>1, <2>3, <2>4, <2>6, <2>7 DEF CountInv, Distinct
<1>12. ~CountError BY DEF CountError, Suffer
<1>13. CASE CountDone
  <2>1. batch' = << >> /\ UNCHANGED <<keys, counted, buffer, lost>> BY <1>13 DEF CountDone
  <2>2. Held' \subseteq Held BY <2>1, RangeEmpty DEF Held
  <2>3. QED BY <2>1, <2>2 DEF CountInv, Distinct
<1>14. CASE CommitOffsets
  <2>1. CASE ProcessEnds BY <1>14, <2>1, CountEnd DEF CommitOffsets
  <2>2. CASE UNCHANGED <<rows, lost>> BY <1>1, <1>14, <2>2 DEF CommitOffsets
  <2>3. QED BY <1>14, <2>1, <2>2 DEF CommitOffsets, Return
<1>15. CASE CommitError BY <1>15, CountRaise DEF CommitError
<1>16. CASE UNCHANGED vars BY <1>1, <1>16 DEF vars
<1>17. QED
  BY <1>2, <1>3, <1>4, <1>5, <1>6, <1>7, <1>8, <1>9, <1>10, <1>11, <1>12, <1>13, <1>14,
     <1>15, <1>16
  DEF Next, Flush

\* As long as Redis answers and keeps its keys, no edit is counted twice.
THEOREM NeverCountedTwice ==
  ASSUME Faults \cap {"redis", "expiry"} = {} PROVE Spec => []CountedOnce
<1>1. Init => CountInv BY CountInit
<1>2. CountInv /\ IInv /\ [Next]_vars => CountInv' BY CountStep
<1>3. CountInv => CountedOnce BY DEF CountInv, CountedOnce
<1>4. QED BY <1>1, <1>2, <1>3, Invariance, PTL DEF Spec

------------------------------------------------------------------------------
(* Refinement *)

LEMMA SinkInit == Init => Sink!Init
  BY DEF Init, Sink!Init

LEMMA SinkStep == ASSUME IInv, IInv', [Next]_vars PROVE [Sink!Next]_(Sink!vars)
<1> USE DEF kafka, redis, control, offsets, rows, history
<1> DEFINE forfeited == dropped \cup orphaned
<1>1. CASE UNCHANGED <<log, committed, store, dropped, orphaned>>
  BY <1>1 DEF Sink!vars
<1>2. ASSUME NEW e \in Events, Publish(e) PROVE Sink!Publish
  <2>1. PartitionOf[e] \in Partitions BY ConsumerAssumption DEF ConsumerAssumption
  <2>2. QED BY <1>2, <2>1 DEF Publish, Sink!Publish
<1>3. ASSUME NEW e \in Held \ store PROVE e \in Sink!Due
  <2>1. e \in Events BY RangeType DEF Held, IInv, TypeOK, ProcessTypeOK
  <2>2. PartitionOf[e] \in Partitions BY <2>1, ConsumerAssumption DEF ConsumerAssumption
  <2>3. committed[PartitionOf[e]] \in Nat
    BY <2>2 DEF IInv, TypeOK, WorldTypeOK
  <2>4. PICK i \in committed[PartitionOf[e]] + 1 .. Len(log[PartitionOf[e]]) :
                log[PartitionOf[e]][i] = e
    BY DEF IInv, HeldIsReplayable
  <2>5. Persistable(e) BY DEF IInv, HeldInv
  <2>6. i \in 1 .. Len(log[PartitionOf[e]]) BY <2>3, <2>4
  <2>7. QED BY <2>1, <2>2, <2>4, <2>5, <2>6 DEF Sink!Due
<1>4. CASE WriteBatch \/ WriteAnswerLost
  <2>1. store' = store \cup Range(batch) /\ UNCHANGED <<log, committed, dropped, orphaned>>
    BY <1>4 DEF WriteBatch, WriteAnswerLost
  <2>2. Range(batch) \subseteq Held BY DEF Held
  <2>3. Sink!Store BY <1>3, <2>1, <2>2 DEF Sink!Store
  <2>4. QED BY <2>3 DEF Sink!Next
<1>5. CASE dropped' # dropped \/ orphaned' # orphaned
  <2>1. LossPossible BY <1>5, ForfeitCause DEF LossPossible
  <2>2. /\ forfeited \subseteq forfeited' /\ forfeited' \subseteq forfeited \cup (Held \ store)
        /\ UNCHANGED <<log, committed, store>>
    <3>1. CASE Crash BY <3>1 DEF Crash
    <3>2. CASE WriteError BY <3>2 DEF WriteError, Held
    <3>3. QED BY <1>5, <3>1, <3>2, ForfeitCause
  <2>3. Sink!Forfeit BY <1>3, <2>1, <2>2 DEF Sink!Forfeit
  <2>4. QED BY <2>3 DEF Sink!Next
<1>6. CASE CommitOffsets \/ CommitError
  <2>1. UNCHANGED <<log, store, dropped, orphaned>> BY <1>6 DEF CommitOffsets, CommitError
  <2>2. ASSUME NEW p \in Partitions
        PROVE  /\ committed[p] <= committed'[p] /\ committed'[p] <= Len(log[p])
               /\ Sink!Covered(p, committed'[p])
    <3>1. committed[p] \in Nat /\ committed'[p] \in Nat
      BY DEF IInv, TypeOK, WorldTypeOK
    <3>2. committed[p] <= committed'[p] BY <3>1, CommitMoves
    <3>3. committed'[p] <= Len(log[p]) BY <2>1 DEF IInv, OffsetInv
    <3>4. Due(p, committed'[p]) \subseteq Settled
      BY <2>1 DEF IInv, LossAccounted, Due, Settled, Persistable
    <3>5. \A i \in 1 .. committed'[p] : log[p][i] \in Events
      BY <3>1, <3>3 DEF IInv, TypeOK, WorldTypeOK
    <3>6. QED BY <3>2, <3>3, <3>4, <3>5 DEF Sink!Covered, Due, Settled
  <2>3. Sink!Acknowledge BY <2>1, <2>2 DEF Sink!Acknowledge
  <2>4. QED BY <2>3 DEF Sink!Next
<1>7. \/ UNCHANGED <<log, committed, store, dropped, orphaned>>
      \/ dropped' # dropped \/ orphaned' # orphaned
      \/ WriteBatch \/ WriteAnswerLost \/ CommitOffsets \/ CommitError
      \/ \E e \in Events : Publish(e)
  BY DEF Next, vars, Expire, Handle, HandleUndecodable, HandleSkipped,
         HandleDuplicate, HandleFresh, HandleUnchecked, HandleDedupError, Tick, Stop, Crash,
         Start, PollNothing, PollError, SeeStop, Flush, IdleFlush, CheckFlush, CheckContinue,
         FinallyFlush, FinallyEnd, WriteError, Count, CountError, CountDone
<1>8. QED BY <1>1, <1>2, <1>4, <1>5, <1>6, <1>7 DEF Sink!Next

(***************************************************************************)
(* The consumer implements the at-least-once contract, and the contract    *)
(* without forfeiture wherever LossPossible is false.                      *)
(***************************************************************************)
THEOREM ImplementsSink == Spec => SinkSpec
<1>1. Init => Sink!Init BY SinkInit
<1>2. IInv /\ IInv' /\ [Next]_vars => [Sink!Next]_(Sink!vars) BY SinkStep
<1>3. QED BY <1>1, <1>2, Invariance, PTL DEF Spec, SinkSpec, Sink!Spec

=============================================================================
