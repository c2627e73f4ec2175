---------------------------- MODULE KafkaLagProofs ----------------------------
(***************************************************************************)
(* Theorems about KafkaLag: for every number of partitions and any pair of *)
(* thresholds, beside a consumer with any faults.                          *)
(***************************************************************************)
EXTENDS KafkaLag, WikiConsumerProofs

------------------------------------------------------------------------------
(* The inductive invariant *)

\* What is still to be read of a partition covers what the group was behind there.
UnreadInv == \A p \in Unread : asked[p] <= LagOf(p)

\* So does what has been read of the others.
TotalInv == behind <= total

LInv == IInv /\ LagTypeOK /\ UnreadInv /\ TotalInv

------------------------------------------------------------------------------
(* Steps *)

\* The check only looks: beside it the consumer is what it is alone.
LEMMA ConsumerAlone == [LagNext]_<<vars, checking>> => [Next]_vars
BY DEF LagNext, checking

LEMMA LagNatural ==
    ASSUME IInv, LagTypeOK, NEW p \in Unread
    PROVE  /\ told[p] \in Nat \cup {Invalid} /\ Len(log[p]) \in Nat
           /\ LagOf(p) \in Nat /\ asked[p] \in Nat /\ p \in Partitions
<1>1. p \in Partitions /\ told[p] \in Nat \cup {Invalid} /\ asked[p] \in Nat
  BY DEF LagTypeOK, Unread
<1>2. Len(log[p]) \in Nat
  BY <1>1 DEF IInv, TypeOK, WorldTypeOK
<1> QED
  BY <1>1, <1>2 DEF LagOf, NonNegative, Invalid

\* Partitions only grow, and nothing else of the consumer matters between two reads.
LEMMA LogGrows ==
    ASSUME IInv, [Next]_vars, NEW p \in Partitions
    PROVE  Len(log[p]) <= Len(log'[p]) /\ Len(log[p]) \in Nat /\ Len(log'[p]) \in Nat
<1> USE DEF kafka
<1>0. log \in [Partitions -> Seq(Events)] /\ Len(log[p]) \in Nat
  BY DEF IInv, TypeOK, WorldTypeOK
<1>1. ASSUME NEW e \in Events, Publish(e) PROVE Len(log[p]) <= Len(log'[p]) /\ Len(log'[p]) \in Nat
  BY <1>0, <1>1, ConsumerAssumption DEF ConsumerAssumption, Publish
<1>2. CASE log' = log
  BY <1>0, <1>2
<1>3. ASSUME ~ \E e \in Events : Publish(e) PROVE log' = log
  BY <1>3
     DEF Next, vars, Expire, Tick, Stop, Start, Crash, PollNothing, PollError, SeeStop, Handle,
         HandleUndecodable, HandleSkipped, HandleDuplicate, HandleFresh, HandleUnchecked,
         HandleDedupError, Take, Flush, IdleFlush, CheckFlush, CheckContinue, FinallyFlush,
         FinallyEnd, WriteBatch, WriteError, WriteAnswerLost, Count, CountError, CountDone,
         CommitOffsets, CommitError
<1> QED
  BY <1>0, <1>1, <1>2, <1>3

LEMMA ConsumerStep ==
    ASSUME LInv, [Next]_vars, UNCHANGED checking
    PROVE  LagTypeOK' /\ UnreadInv' /\ TotalInv'
<1>1. LagTypeOK' /\ TotalInv'
  BY DEF LInv, checking, LagTypeOK, TotalInv
<1>2. ASSUME NEW p \in Unread' PROVE asked'[p] <= LagOf(p)'
  <2>1. p \in Unread /\ asked'[p] = asked[p] /\ told'[p] = told[p]
    BY DEF checking, Unread
  <2>2. /\ told[p] \in Nat \cup {Invalid} /\ asked[p] \in Nat /\ p \in Partitions
        /\ asked[p] <= LagOf(p)
    BY <2>1, LagNatural DEF LInv, UnreadInv
  <2>3. Len(log[p]) <= Len(log'[p]) /\ Len(log[p]) \in Nat /\ Len(log'[p]) \in Nat
    BY <2>2, LogGrows DEF LInv
  <2> QED
    BY <2>1, <2>2, <2>3 DEF LagOf, NonNegative, Invalid
<1> QED
  BY <1>1, <1>2 DEF UnreadInv

LEMMA EndCheckStep ==
    ASSUME EndCheck
    PROVE  LagTypeOK' /\ UnreadInv' /\ TotalInv'
BY DEF EndCheck, NoneTold, LagTypeOK, UnreadInv, Unread, TotalInv

LEMMA ReadOffsetsStep ==
    ASSUME LInv, ReadOffsets, UNCHANGED vars
    PROVE  LagTypeOK' /\ UnreadInv' /\ TotalInv'
<1>1. ASSUME NEW p \in Partitions
      PROVE  committed[p] \in Nat /\ Len(log[p]) \in Nat /\ committed[p] <= Len(log[p])
  BY DEF LInv, IInv, TypeOK, WorldTypeOK, OffsetInv
<1>2. /\ told' = GroupOffsets /\ asked' = Backlog /\ total' = total /\ behind' = behind
      /\ log' = log
  BY DEF ReadOffsets, vars, kafka
<1>3. LagTypeOK' /\ TotalInv'
  BY <1>1, <1>2 DEF LInv, LagTypeOK, TotalInv, GroupOffsets, Backlog
<1>4. UnreadInv'
  BY <1>1, <1>2
     DEF UnreadInv, Unread, GroupOffsets, Backlog, LagOf, NonNegative, Invalid
<1> QED
  BY <1>3, <1>4

LEMMA ReadWatermarkStep ==
    ASSUME LInv, NEW p \in Partitions, ReadWatermark(p), UNCHANGED vars
    PROVE  LagTypeOK' /\ UnreadInv' /\ TotalInv'
<1>1. CASE EndCheck
  BY <1>1, EndCheckStep
<1>2. CASE /\ told' = Restrict(told, Unread \ {p}) /\ asked' = Restrict(asked, Unread \ {p})
           /\ total' = total + LagOf(p) /\ behind' = behind + asked[p]
  <2>1. p \in Unread /\ LagOf(p) \in Nat /\ asked[p] \in Nat /\ asked[p] <= LagOf(p)
    BY LagNatural DEF ReadWatermark, LInv, UnreadInv
  <2>2. LagTypeOK' /\ TotalInv'
    BY <1>2, <2>1 DEF LInv, LagTypeOK, TotalInv, Restrict, Unread
  <2>3. ASSUME NEW q \in Unread' PROVE asked'[q] <= LagOf(q)'
    <3>1. q \in Unread /\ asked'[q] = asked[q] /\ told'[q] = told[q] /\ log' = log
      BY <1>2 DEF Restrict, Unread, vars, kafka
    <3> QED
      BY <3>1 DEF LInv, UnreadInv, LagOf
  <2> QED
    BY <2>2, <2>3 DEF UnreadInv
<1> QED
  BY <1>1, <1>2 DEF ReadWatermark

LEMMA LInvStep == LInv /\ [LagNext]_<<vars, checking>> => LInv'
<1> SUFFICES ASSUME LInv, [LagNext]_<<vars, checking>> PROVE LInv'
  OBVIOUS
<1>1. IInv'
  BY ConsumerAlone, NextIInv DEF LInv
<1>2. CASE [Next]_vars /\ UNCHANGED checking
  BY <1>1, <1>2, ConsumerStep DEF LInv
<1>3. CASE Probe /\ UNCHANGED vars
  <2>1. LagTypeOK' /\ UnreadInv' /\ TotalInv'
    BY <1>3, ReadOffsetsStep, ReadWatermarkStep, EndCheckStep DEF Probe, CheckError
  <2> QED
    BY <1>1, <2>1 DEF LInv
<1> QED
  BY <1>2, <1>3 DEF LagNext

LEMMA LInvInit == LagInit => LInv
BY InitIInv DEF LagInit, LInv, LagTypeOK, UnreadInv, Unread, TotalInv, NoneTold

LEMMA LInvHolds == LagSpec => []LInv
BY LInvInit, LInvStep, PTL DEF LagSpec

------------------------------------------------------------------------------
(* Theorems *)

(***************************************************************************)
(* The lag check never reports less than the group was behind when it was  *)
(* asked, whatever the producer and the consumer do between its reads      *)
(* (KafkaLagCheck.check).                                                  *)
(***************************************************************************)
THEOREM LagIsNeverUnderstated == LagSpec => []LagNeverUnderstates
<1>1. LInv => LagNeverUnderstates
  <2> SUFFICES ASSUME LInv, NEW p \in Partitions, Unread = {p}
               PROVE  /\ Status(total + LagOf(p)) = "ok" => behind + asked[p] <= LagWarn
                      /\ behind + asked[p] > LagCritical
                            => Status(total + LagOf(p)) = "critical"
    BY DEF LagNeverUnderstates
  <2>1. /\ total \in Nat /\ behind \in Nat /\ behind <= total
        /\ asked[p] \in Nat /\ LagOf(p) \in Nat /\ asked[p] <= LagOf(p)
    BY LagNatural DEF LInv, LagTypeOK, UnreadInv, TotalInv
  <2> QED
    BY <2>1, LagAssumption DEF LagAssumption, Status
<1> QED
  BY <1>1, LInvHolds, PTL

=============================================================================
