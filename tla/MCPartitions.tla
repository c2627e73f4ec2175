----------------------------- MODULE MCPartitions -----------------------------
(* Small instances of Partitions for TLC: all constants are numbers and sets. *)
EXTENDS Partitions

=============================================================================
