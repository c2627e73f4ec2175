--------------------------- MODULE MCHealthChecker ---------------------------
(* Small instances of HealthChecker for TLC. *)
EXTENDS HealthChecker

CONSTANTS kafka_lag, db_size

TwoChecks == <<kafka_lag, db_size>>

(***************************************************************************)
(* Which results there are, and which of their texts parse: the details of *)
(* KafkaLagCheck have one underscore (total_lag) but when the topic is     *)
(* missing, those of DbSizeCheck have four.  To bound the instance the lag *)
(* is never between its two thresholds: it is db_size that warns.          *)
(***************************************************************************)
CheckPossible == [c \in Checks |->
    IF c = kafka_lag
    THEN [status : {"ok", "critical"}, parses : {FALSE}]
            \cup [status : {"critical"}, parses : {TRUE}]
    ELSE [status : Statuses, parses : {TRUE}]]

=============================================================================
