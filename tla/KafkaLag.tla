------------------------------- MODULE KafkaLag -------------------------------
(***************************************************************************)
(* The kafka_lag check of the healthchecker beside the consumer it watches *)
(* (checks/kafka_lag.py).  It asks for the committed offsets of the group  *)
(* once and then for the high watermarks, partition by partition, while    *)
(* the producer appends and the consumer commits: the numbers it subtracts *)
(* belong to different moments.                                            *)
(***************************************************************************)
EXTENDS WikiConsumer

CONSTANTS
    LagWarn,        \* Settings.kafka_lag_warn
    LagCritical     \* Settings.kafka_lag_critical

ASSUME LagAssumption == LagWarn \in Nat /\ LagCritical \in Nat

Invalid == -1001    \* OFFSET_INVALID: the group has not committed in a partition

VARIABLES
    told,           \* told[p]: the group's offset in p, until p's watermark is read
    total,          \* total_lag
    \* history, read by the properties only
    asked,          \* asked[p]: how far the group was behind in p when it was asked
    behind          \* the sum of that over the partitions that total covers

checking == <<told, total, asked, behind>>

LagTypeOK ==
    /\ DOMAIN told \subseteq Partitions
    /\ told \in [DOMAIN told -> Nat \cup {Invalid}]
    /\ asked \in [DOMAIN told -> Nat]
    /\ total \in Nat /\ behind \in Nat

------------------------------------------------------------------------------

Unread == DOMAIN told       \* empty between two checks

NoneTold == [p \in {} |-> 0]

NonNegative(n) == IF n >= 0 THEN n ELSE 0

Backlog == [p \in Partitions |-> Len(log[p]) - committed[p]]

\* list_consumer_group_offsets
GroupOffsets == [p \in Partitions |-> IF committed[p] = 0 THEN Invalid ELSE committed[p]]

\* Faulty: a partition without a commit has no lag.
LagWhereCommitted(p) ==
    IF told[p] = Invalid THEN 0 ELSE NonNegative(Len(log[p]) - told[p])

\* max(0, high - offset), from the beginning where nothing was committed.
LagOf(p) == NonNegative(Len(log[p]) - NonNegative(told[p]))

\* The status for a total of n.
Status(n) ==
    IF n > LagCritical THEN "critical"
    ELSE IF n > LagWarn THEN "warn" ELSE "ok"

EndCheck == told' = NoneTold /\ total' = 0 /\ asked' = NoneTold /\ behind' = 0

ReadOffsets ==
    /\ Unread = {} /\ told' = GroupOffsets
    /\ asked' = Backlog
    /\ UNCHANGED <<total, behind>>

\* get_watermark_offsets; after the last one the check returns Status(total + LagOf(p)).
ReadWatermark(p) ==
    /\ p \in Unread
    /\ IF Unread = {p} THEN EndCheck
       ELSE /\ told' = Restrict(told, Unread \ {p})
            /\ total' = total + LagOf(p)
            /\ asked' = Restrict(asked, Unread \ {p})
            /\ behind' = behind + asked[p]

\* No answer from the broker: critical, whatever was read.
CheckError == Unread # {} /\ EndCheck

Probe == ReadOffsets \/ CheckError \/ \E p \in Partitions : ReadWatermark(p)

LagInit == Init /\ told = NoneTold /\ total = 0 /\ asked = NoneTold /\ behind = 0

LagNext == (Next /\ UNCHANGED checking) \/ (Probe /\ UNCHANGED vars)

LagSpec == LagInit /\ [][LagNext]_<<vars, checking>> /\ Fairness

------------------------------------------------------------------------------
(* Properties *)

(***************************************************************************)
(* The check never reports less than the group was behind when it was      *)
(* asked: the offsets are read before the watermarks, and both only grow,  *)
(* so what happens meanwhile can only add to the lag.  An "ok" means that  *)
(* at most LagWarn messages were waiting, and more than LagCritical of     *)
(* them are never called less than critical.                               *)
(***************************************************************************)
LagNeverUnderstates ==
    \A p \in Partitions : Unread = {p} =>
        /\ Status(total + LagOf(p)) = "ok" => behind + asked[p] <= LagWarn
        /\ behind + asked[p] > LagCritical => Status(total + LagOf(p)) = "critical"

=============================================================================
