--------------------------- MODULE AtLeastOnceSink ---------------------------
(***************************************************************************)
(* What the Kafka -> Postgres path promises, with no process, batch or     *)
(* cache in sight: messages are appended to partitions, rows reach a       *)
(* store, and an acknowledgement moves forward over a partition only when  *)
(* the row of every wanted message it covers is stored, or forfeited.      *)
(* docs/architecture.md:28-32 claims the contract with Lossy = FALSE: no   *)
(* message is ever forfeited.                                              *)
(***************************************************************************)
EXTENDS Integers, Sequences

CONSTANTS
    Partitions,     \* the partitions of the topic
    Events,         \* the recent-change events
    Wanted,         \* the events that must become rows
    Lossy           \* whether an event may be forfeited

VARIABLES
    published,      \* published[p]: the messages of partition p, in order
    acked,          \* acked[p]: how many of them are acknowledged
    stored,         \* the events whose row is stored
    forfeited       \* the events given up

vars == <<published, acked, stored, forfeited>>

Init ==
    /\ published = [p \in Partitions |-> << >>]
    /\ acked = [p \in Partitions |-> 0]
    /\ stored = {}
    /\ forfeited = {}

\* The wanted events some partition holds.
Due == {e \in Wanted : \E p \in Partitions :
                          \E i \in 1 .. Len(published[p]) : published[p][i] = e}

Publish ==
    /\ \E p \in Partitions, e \in Events :
          published' = [published EXCEPT ![p] = Append(@, e)]
    /\ UNCHANGED <<acked, stored, forfeited>>

Store ==
    /\ stored \subseteq stored'
    /\ stored' \subseteq stored \cup Due
    /\ UNCHANGED <<published, acked, forfeited>>

Forfeit ==
    /\ Lossy
    /\ forfeited \subseteq forfeited'
    /\ forfeited' \subseteq forfeited \cup (Due \ stored)
    /\ UNCHANGED <<published, acked, stored>>

\* An acknowledgement of partition p up to message n is honest.
Covered(p, n) ==
    \A i \in 1 .. n : published[p][i] \in Wanted => published[p][i] \in stored \cup forfeited

Acknowledge ==
    /\ \A p \in Partitions : /\ acked[p] <= acked'[p]
                             /\ acked'[p] <= Len(published[p])
                             /\ Covered(p, acked'[p])
    /\ UNCHANGED <<published, stored, forfeited>>

Next == Publish \/ Store \/ Forfeit \/ Acknowledge

Spec == Init /\ [][Next]_vars

=============================================================================
