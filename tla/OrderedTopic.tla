----------------------------- MODULE OrderedTopic -----------------------------
(***************************************************************************)
(* What the feed -> Kafka path promises, with no connection, process or    *)
(* queue in sight: the feed grows, and each topic partition is a list of   *)
(* feed positions in feed order, every one an event that is worth a        *)
(* message and belongs there.  Positions may be left out, by a delivery    *)
(* that fails or while no process runs, and the last one may be repeated.  *)
(* This is the topic that the model of the consumer starts from.           *)
(***************************************************************************)
EXTENDS Integers, Sequences

CONSTANTS
    Payloads,       \* what an event of the feed may carry
    Topics,         \* the topic partitions
    Publishable,    \* the payloads that become a message
    Destination     \* Destination[d]: the partition payload d belongs to

VARIABLES
    feed,           \* the events of the feed
    topic           \* topic[t]: the feed positions partition t holds

vars == <<feed, topic>>

Init == feed = << >> /\ topic = [t \in Topics |-> << >>]

Emit == /\ \E d \in Payloads : feed' = Append(feed, d)
        /\ UNCHANGED topic

\* Position i comes behind what its partition holds.
Publish(i) ==
    LET t == Destination[feed[i]]
    IN  /\ feed[i] \in Publishable
        /\ \A n \in DOMAIN topic[t] : topic[t][n] <= i
        /\ topic' = [topic EXCEPT ![t] = Append(@, i)]
        /\ UNCHANGED feed

Next == Emit \/ \E i \in DOMAIN feed : Publish(i)

Spec == Init /\ [][Next]_vars

=============================================================================
