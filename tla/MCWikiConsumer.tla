--------------------------- MODULE MCWikiConsumer ----------------------------
(* Small instances of WikiConsumer for TLC. *)
EXTENDS WikiConsumer

CONSTANTS e1, e2, e3, e4, p1, p2

\* Two edits in two partitions, and a message of another kind behind each.
MixedPartitionOf == [e \in Events |-> IF e \in {e2, e4} THEN p2 ELSE p1]
MixedKind(k) ==
    [e \in Events |-> CASE e = e3 -> k [] e = e4 -> "log" [] OTHER -> "edit"]
MalformedKind   == MixedKind("malformed")
UndecodableKind == MixedKind("undecodable")
PoisonKind      == MixedKind("poison")

\* One partition of edits.
OnePartition == [e \in Events |-> p1]
EditKind == [e \in Events |-> "edit"]

=============================================================================
