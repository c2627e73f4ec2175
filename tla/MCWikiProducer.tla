--------------------------- MODULE MCWikiProducer ----------------------------
(* Small instances of WikiProducer for TLC: one payload of each class. *)
EXTENDS WikiProducer

CONSTANTS edit, log, invalid, empty, p1, p2

PayloadPartition == [d \in Payloads |-> IF d = log THEN p2 ELSE p1]

PayloadClass ==
    [d \in Payloads |-> CASE d = edit -> "edit"
                          [] d = log -> "log"
                          [] d = invalid -> "invalid"
                          [] d = empty -> "empty"]

=============================================================================
