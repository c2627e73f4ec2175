------------------------- MODULE HealthCheckerProofs --------------------------
(***************************************************************************)
(* Theorems about HealthChecker: for every set and order of checks, every  *)
(* combination of faults and every number of them.                         *)
(***************************************************************************)
EXTENDS HealthChecker, TLAPS

------------------------------------------------------------------------------
(* The inductive invariant *)

\* In a round, and in it past the point where the status of the check is recorded.
InRound == {"check", "alert", "throttle", "send", "stamp"}
Announcing == {"throttle", "send", "stamp"}

\* Redis agrees with the results of this round for every check that is done.
DoneUpTo(n) == \A i \in DOMAIN Order : i <= n => status[Order[i]] = results[Order[i]]

RoundInv ==
    /\ pc \in InRound => DoneUpTo(index - 1)
    /\ pc \in Announcing => DoneUpTo(index)

\* Between two rounds, and before the first, the next check is the first one.
DownInv == pc \in {"down", "wait"} => index = 1

\* A message that was heard is stamped, about to be, or known to be unstamped.
HeardInv ==
    \A c \in Checks :
        heard[c] = "recent" => last[c] = "recent" \/ c \in unstamped \cup Interrupted

HInv ==
    /\ TypeOK /\ DownInv /\ RoundInv /\ StateMatchesHealth
    /\ HeardInv /\ SilenceIsEarned /\ AlertsThrottled

------------------------------------------------------------------------------
(* Constants and the parts that actions share *)

LEMMA Rounds ==
    /\ Len(Order) \in Nat /\ Len(Order) >= 1 /\ DOMAIN Order = 1 .. Len(Order)
    /\ \A i \in DOMAIN Order : Order[i] \in Checks
    /\ \A c \in Checks : \E i \in DOMAIN Order : Order[i] = c
    /\ \A i, j \in DOMAIN Order : Order[i] = Order[j] => i = j
BY HealthAssumption DEF HealthAssumption, Range

LEMMA CurrentIsCheck == ASSUME TypeOK PROVE current \in Checks
BY Rounds DEF TypeOK, ProcessTypeOK, current

LEMMA SufferType ==
    ASSUME TypeOK, NEW k, Suffer(k)
    PROVE  faults' \in 0 .. MaxFaults
BY HealthAssumption DEF HealthAssumption, Suffer, TypeOK, ProcessTypeOK

\* What the steps of the thread leave well typed beside Redis and Telegram.
ThreadTypeOK ==
    /\ pc \in Locations /\ mode \in {"startup", "serving"}
    /\ index \in DOMAIN Order /\ text \in BOOLEAN
    /\ results \in [Checks -> Statuses \cup {"none"}]
    /\ latest \in [Checks -> Statuses \cup {"none"}]

LEMMA ProcessEndsType == ASSUME ProcessEnds PROVE ThreadTypeOK'
BY Rounds DEF ProcessEnds, ThreadTypeOK, Locations, None

LEMMA FatalType == ASSUME TypeOK, Fatal PROVE ThreadTypeOK'
<1>1. CASE ProcessEnds
  BY <1>1, ProcessEndsType
<1>2. CASE mode = "serving" /\ pc' = "dead" /\ UNCHANGED <<index, text, results, server>>
  BY <1>2 DEF TypeOK, ProcessTypeOK, ThreadTypeOK, Locations, server
<1> QED
  BY <1>1, <1>2 DEF Fatal

LEMMA NextCheckType == ASSUME TypeOK, NextCheck PROVE ThreadTypeOK'
<1> USE Rounds DEF TypeOK, ProcessTypeOK, ThreadTypeOK, Locations
<1>1. CASE /\ index < Len(Order) /\ index' = index + 1 /\ pc' = "check" /\ text' = TRUE
           /\ UNCHANGED <<results, server>>
  BY <1>1 DEF server
<1>2. CASE /\ index' = 1 /\ pc' = "wait" /\ text' = TRUE
           /\ latest' = results /\ results' = None /\ mode' = "serving"
  BY <1>2 DEF None
<1> QED
  BY <1>1, <1>2 DEF NextCheck

LEMMA StatusType ==
    ASSUME TypeOK
    PROVE  /\ Recorded \in [Checks -> Statuses \cup {"none"}]
           /\ Stamped \in [Checks -> {"recent", "old"}]
BY CurrentIsCheck
   DEF Recorded, Stamped, found, TypeOK, StoreTypeOK, ChatTypeOK, ProcessTypeOK

LEMMA DeliveredType == ASSUME TypeOK, Delivered PROVE ChatTypeOK'
BY CurrentIsCheck DEF Delivered, found, TypeOK, ChatTypeOK, ProcessTypeOK

------------------------------------------------------------------------------
(* Types *)

LEMMA TypeStep == TypeOK /\ [Next]_vars => TypeOK'
<1> SUFFICES ASSUME TypeOK, [Next]_vars PROVE TypeOK'
  OBVIOUS
<1> USE DEF StoreTypeOK, ChatTypeOK, store, chat
<1>a. TypeOK <=> (/\ StoreTypeOK /\ ChatTypeOK /\ ThreadTypeOK
                  /\ unstamped \subseteq Checks /\ faults \in 0 .. MaxFaults)
  BY DEF TypeOK, ProcessTypeOK, ThreadTypeOK
<1>b. TypeOK' <=> (/\ StoreTypeOK' /\ ChatTypeOK' /\ ThreadTypeOK'
                   /\ unstamped' \subseteq Checks /\ faults' \in 0 .. MaxFaults)
  BY DEF TypeOK, ProcessTypeOK, ThreadTypeOK
<1>c. current \in Checks /\ Interrupted \subseteq Checks
  BY CurrentIsCheck DEF Interrupted
<1>1. ASSUME NEW c \in Checks, Change(c) PROVE TypeOK'
  <2>1. condition' \in [Checks -> Result]
    <3>1. PICK r \in Possible[c] : condition' = [condition EXCEPT ![c] = r]
      BY <1>1 DEF Change
    <3>2. r \in Result
      BY <3>1, HealthAssumption DEF HealthAssumption
    <3> QED
      BY <1>a, <3>1, <3>2
  <2> QED
    BY <1>a, <1>b, <1>1, <2>1 DEF Change, ThreadTypeOK, thread, server
<1>2. ASSUME NEW c \in Checks, Age(c) PROVE TypeOK'
  BY <1>a, <1>b, <1>2 DEF Age, Aged, ThreadTypeOK, thread, server
<1>3. CASE Start
  BY <1>a, <1>b, <1>3 DEF Start, ThreadTypeOK, Locations, server
<1>4. CASE Crash
  BY <1>a, <1>b, <1>c, <1>4, SufferType, ProcessEndsType DEF Crash
<1>5. CASE Check
  <2>1. condition[current].status \in Statuses /\ condition[current].parses \in BOOLEAN
    BY <1>c DEF TypeOK, Result
  <2> QED
    BY <1>a, <1>b, <1>c, <1>5, <2>1 DEF Check, ThreadTypeOK, Locations, server
<1>6. CASE AlertSame
  <2>1. ThreadTypeOK'
    BY <1>a, <1>6, NextCheckType DEF AlertSame, ThreadTypeOK, Locations, server
  <2> QED
    BY <1>a, <1>b, <1>6, <2>1 DEF AlertSame
<1>7. CASE AlertChanged
  <2>1. ThreadTypeOK'
    BY <1>a, <1>7, NextCheckType DEF AlertChanged, ThreadTypeOK, Locations, server
  <2> QED
    BY <1>a, <1>b, <1>7, <2>1, StatusType DEF AlertChanged
<1>8. CASE AlertRecovered
  BY <1>a, <1>b, <1>8, StatusType DEF AlertRecovered, ThreadTypeOK, Locations, server
<1>9. CASE Throttled
  BY <1>a, <1>b, <1>9, NextCheckType DEF Throttled
<1>10. CASE Unthrottled
  BY <1>a, <1>b, <1>10 DEF Unthrottled, ThreadTypeOK, Locations, server
<1>11. CASE SendDelivered
  BY <1>a, <1>b, <1>11, DeliveredType DEF SendDelivered, ThreadTypeOK, Locations, server
<1>12. CASE Stamp
  BY <1>a, <1>b, <1>12, StatusType, NextCheckType DEF Stamp
<1>13. CASE Wake
  BY <1>a, <1>b, <1>13 DEF Wake, ThreadTypeOK, Locations, server
<1>14. CASE SendUnparsed \/ SendRejected
  BY <1>a, <1>b, <1>14, SufferType, NextCheckType DEF SendUnparsed, SendRejected
<1>15. CASE SendTimeout
  BY <1>a, <1>b, <1>c, <1>15, SufferType, FatalType, DeliveredType DEF SendTimeout
<1>16. CASE StoreError
  BY <1>a, <1>b, <1>c, <1>16, SufferType, FatalType, StatusType DEF StoreError
<1>17. CASE UNCHANGED vars
  BY <1>a, <1>b, <1>17 DEF vars, ThreadTypeOK, thread, server
<1> QED
  BY <1>1, <1>2, <1>3, <1>4, <1>5, <1>6, <1>7, <1>8, <1>9, <1>10, <1>11, <1>12,
     <1>13, <1>14, <1>15, <1>16, <1>17 DEF Next, Thread

------------------------------------------------------------------------------
(* A round: what Redis has and what the process will publish *)

\* Nothing that RoundInv or StateMatchesHealth looks at has changed but the place.
LEMMA MoveRound ==
    ASSUME TypeOK, RoundInv, UNCHANGED <<status, results, index>>,
           pc' \in InRound => pc \in InRound,
           pc' \in Announcing => pc \in Announcing,
           pc' # "wait"
    PROVE  RoundInv' /\ StateMatchesHealth'
BY DEF RoundInv, DoneUpTo, StateMatchesHealth

\* The status of the current check is recorded: Redis agrees up to it.
LEMMA RecordAgrees ==
    ASSUME TypeOK, RoundInv, pc = "alert", status'[current] = results[current],
           \A c \in Checks : c # current => status'[c] = status[c]
    PROVE  \A i \in DOMAIN Order : i <= index => status'[Order[i]] = results[Order[i]]
<1> SUFFICES ASSUME NEW i \in DOMAIN Order, i <= index
             PROVE  status'[Order[i]] = results[Order[i]]
  OBVIOUS
<1>1. CASE i = index
  BY <1>1 DEF current
<1>2. CASE i # index
  <2>1. i <= index - 1 /\ Order[i] # current /\ Order[i] \in Checks
    BY <1>2, Rounds DEF TypeOK, ProcessTypeOK, current
  <2> QED
    BY <2>1 DEF RoundInv, InRound, DoneUpTo
<1> QED
  BY <1>1, <1>2

\* It is recorded, and to be announced.
LEMMA RecordRound ==
    ASSUME TypeOK, RoundInv, pc = "alert", status'[current] = results[current],
           \A c \in Checks : c # current => status'[c] = status[c],
           pc' \in Announcing, UNCHANGED <<results, index>>
    PROVE  RoundInv' /\ StateMatchesHealth'
<1>1. DoneUpTo(index)'
  BY RecordAgrees DEF DoneUpTo
<1>2. DoneUpTo(index - 1)'
  BY <1>1, Rounds DEF DoneUpTo, TypeOK, ProcessTypeOK
<1> QED
  BY <1>1, <1>2 DEF RoundInv, StateMatchesHealth, Announcing

\* The check is done: the next one begins, or the round is published as Redis has it.
LEMMA NextCheckRound ==
    ASSUME TypeOK, NextCheck, status' \in [Checks -> Statuses \cup {"none"}],
           \A i \in DOMAIN Order : i <= index => status'[Order[i]] = results[Order[i]]
    PROVE  RoundInv' /\ StateMatchesHealth'
<1>1. CASE index < Len(Order) /\ index' = index + 1 /\ pc' = "check" /\ results' = results
  BY <1>1, Rounds
     DEF RoundInv, StateMatchesHealth, DoneUpTo, Announcing, TypeOK, ProcessTypeOK
<1>2. CASE index = Len(Order) /\ pc' = "wait" /\ latest' = results
  <2>1. \A c \in Checks : status'[c] = results[c]
    BY <1>2, Rounds
  <2>2. status' = results
    BY <2>1 DEF TypeOK, ProcessTypeOK
  <2> QED
    BY <1>2, <2>2 DEF RoundInv, StateMatchesHealth, InRound, Announcing
<1> QED
  BY <1>1, <1>2 DEF NextCheck

\* In the first check of a round there is nothing to agree on yet.
LEMMA FirstRound ==
    ASSUME pc' \notin Announcing, pc' # "wait", index' = 1
    PROVE  RoundInv' /\ StateMatchesHealth'
BY Rounds DEF RoundInv, DoneUpTo, StateMatchesHealth

\* The process, or its thread, is gone.
LEMMA FatalRound ==
    ASSUME Fatal
    PROVE  RoundInv' /\ StateMatchesHealth'
BY DEF Fatal, ProcessEnds, RoundInv, StateMatchesHealth, InRound, Announcing

LEMMA RoundStep ==
    ASSUME TypeOK, TypeOK', RoundInv, StateMatchesHealth, DownInv, [Next]_vars
    PROVE  RoundInv' /\ StateMatchesHealth'
<1> USE DEF store, thread, server
<1>a. status' \in [Checks -> Statuses \cup {"none"}] /\ current \in Checks
  BY CurrentIsCheck DEF TypeOK, StoreTypeOK
<1>b. ASSUME pc \in Announcing
      PROVE  \A i \in DOMAIN Order : i <= index => status[Order[i]] = results[Order[i]]
  BY <1>b DEF RoundInv, DoneUpTo
<1>c. /\ Recorded[current] = results[current]
      /\ \A c \in Checks : c # current => Recorded[c] = status[c]
  BY <1>a DEF Recorded, found, TypeOK, StoreTypeOK
<1>1. ASSUME NEW c \in Checks, Change(c) \/ Age(c) PROVE RoundInv' /\ StateMatchesHealth'
  BY <1>1 DEF Change, Age, RoundInv, DoneUpTo, StateMatchesHealth
<1>2. CASE Start \/ Wake
  BY <1>2, FirstRound DEF Start, Wake, DownInv, Announcing
<1>3. CASE Crash
  BY <1>3, FatalRound DEF Crash, Fatal, ProcessEnds, RoundInv, StateMatchesHealth, InRound,
                          Announcing
<1>4. CASE Check
  <2>1. DoneUpTo(index - 1)'
    <3> SUFFICES ASSUME NEW i \in DOMAIN Order, i <= index - 1
                 PROVE  status[Order[i]] = results'[Order[i]]
      BY <1>4 DEF Check, DoneUpTo
    <3>1. Order[i] # current /\ Order[i] \in Checks
      BY Rounds DEF TypeOK, ProcessTypeOK, current
    <3>2. results'[Order[i]] = results[Order[i]]
      BY <1>4, <3>1 DEF Check, TypeOK, ProcessTypeOK
    <3> QED
      BY <1>4, <3>2 DEF Check, RoundInv, InRound, DoneUpTo
  <2> QED
    BY <1>4, <2>1 DEF Check, RoundInv, StateMatchesHealth, Announcing
<1>5. CASE AlertSame
  <2>1. CASE NextCheck
    BY <1>5, <1>a, <2>1, RecordAgrees, NextCheckRound DEF AlertSame, found
  <2>2. CASE pc' = "throttle" /\ UNCHANGED <<index, results>>
    BY <1>5, <2>2, RecordRound DEF AlertSame, Announcing, found
  <2> QED
    BY <1>5, <2>1, <2>2 DEF AlertSame
<1>6. CASE AlertChanged
  <2>1. CASE NextCheck
    BY <1>6, <1>a, <1>c, <2>1, RecordAgrees, NextCheckRound DEF AlertChanged
  <2>2. CASE pc' = "throttle" /\ UNCHANGED <<index, results>>
    BY <1>6, <1>c, <2>2, RecordRound DEF AlertChanged, Announcing
  <2> QED
    BY <1>6, <2>1, <2>2 DEF AlertChanged
<1>7. CASE AlertRecovered
  BY <1>7, <1>c, RecordRound DEF AlertRecovered, Announcing
<1>8. CASE Throttled \/ SendUnparsed \/ SendRejected \/ Stamp
  <2>1. pc \in Announcing /\ status' = status /\ NextCheck
    BY <1>8 DEF Throttled, SendUnparsed, SendRejected, Stamp, Announcing
  <2> QED
    BY <1>a, <1>b, <2>1, NextCheckRound
<1>9. CASE Unthrottled \/ SendDelivered
  BY <1>9, MoveRound DEF Unthrottled, SendDelivered, InRound, Announcing
<1>10. CASE SendTimeout \/ StoreError
  BY <1>10, FatalRound DEF SendTimeout, StoreError
<1>11. CASE UNCHANGED vars
  BY <1>11 DEF vars, RoundInv, DoneUpTo, StateMatchesHealth
<1> QED
  BY <1>1, <1>2, <1>3, <1>4, <1>5, <1>6, <1>7, <1>8, <1>9, <1>10, <1>11 DEF Next, Thread

------------------------------------------------------------------------------
(* The throttle: what was heard, what is stamped *)

\* After ProcessEnds or the death of the thread no message is being sent or stamped.
LEMMA FatalPlace ==
    ASSUME Fatal \/ ProcessEnds
    PROVE  pc' \in {"down", "dead"} /\ (pc' = "down" => index' = 1)
BY DEF Fatal, ProcessEnds

\* After NextCheck neither.
LEMMA NextCheckPlace ==
    ASSUME NextCheck
    PROVE  pc' \in {"check", "wait"} /\ (pc' = "wait" => index' = 1)
BY DEF NextCheck

LEMMA DownStep == ASSUME DownInv, [Next]_vars PROVE DownInv'
BY FatalPlace, NextCheckPlace
   DEF DownInv, Next, Thread, vars, thread, server, Change, Age, Start, Crash, Check,
       AlertSame, AlertChanged, AlertRecovered, Throttled, Unthrottled, SendDelivered,
       Stamp, Wake, SendUnparsed, SendRejected, SendTimeout, StoreError

\* Neither Telegram nor the stamps have changed, and no problem is about to be sent
\* that was not before.
LEMMA QuietStep ==
    ASSUME HeardInv, SilenceIsEarned, AlertsThrottled, UNCHANGED <<last, heard>>,
           unstamped \cup Interrupted \subseteq (unstamped \cup Interrupted)',
           pc' # "send"
    PROVE  HeardInv' /\ SilenceIsEarned' /\ AlertsThrottled'
BY DEF HeardInv, SilenceIsEarned, AlertsThrottled

\* A message about the current check is delivered: stamped next, or never.
LEMMA DeliveredStep ==
    ASSUME TypeOK, HeardInv, SilenceIsEarned, Delivered, last' = last, pc' # "send",
           unstamped \cup {current} \subseteq (unstamped \cup Interrupted)',
           pc # "stamp"
    PROVE  HeardInv' /\ SilenceIsEarned' /\ AlertsThrottled'
<1>1. /\ heard'[current] = "recent"
      /\ \A c \in Checks : c # current => heard'[c] = heard[c]
  BY CurrentIsCheck DEF Delivered, TypeOK, ChatTypeOK
<1> QED
  BY <1>1 DEF HeardInv, SilenceIsEarned, AlertsThrottled, Interrupted

\* last_alert takes the time of the message.
LEMMA StampedStep ==
    ASSUME TypeOK, HeardInv, SilenceIsEarned, last' = Stamped, heard' = heard,
           unstamped' = unstamped \ {current}, pc' # "send"
    PROVE  HeardInv' /\ SilenceIsEarned' /\ AlertsThrottled'
<1>1. /\ last'[current] = heard[current]
      /\ \A c \in Checks : c # current => last'[c] = last[c]
  BY CurrentIsCheck DEF Stamped, TypeOK, StoreTypeOK
<1> QED
  BY <1>1 DEF HeardInv, SilenceIsEarned, AlertsThrottled, Interrupted

LEMMA ThrottleStep ==
    ASSUME TypeOK, HeardInv, SilenceIsEarned, AlertsThrottled, [Next]_vars
    PROVE  HeardInv' /\ SilenceIsEarned' /\ AlertsThrottled'
<1> USE DEF store, chat, thread, server
<1>1. ASSUME NEW c \in Checks, Change(c) PROVE HeardInv' /\ SilenceIsEarned' /\ AlertsThrottled'
  BY <1>1 DEF Change, HeardInv, SilenceIsEarned, AlertsThrottled, Interrupted, Message, found, current
<1>2. ASSUME NEW c \in Checks, Age(c) PROVE HeardInv' /\ SilenceIsEarned' /\ AlertsThrottled'
  <2>1. /\ heard'[c] = "old" /\ last'[c] # "recent"
        /\ \A d \in Checks : d # c => heard'[d] = heard[d] /\ last'[d] = last[d]
    BY <1>2 DEF Age, Aged, TypeOK, StoreTypeOK, ChatTypeOK
  <2>2. current \in Checks /\ current' = current /\ Interrupted' = Interrupted
        /\ unstamped' = unstamped \ {c} /\ Message' = Message /\ pc' = pc
    BY <1>2, CurrentIsCheck DEF Age, current, Interrupted, Message, found
  <2> QED
    BY <2>1, <2>2 DEF HeardInv, SilenceIsEarned, AlertsThrottled
<1>3. CASE Start \/ Check \/ Wake \/ AlertSame \/ AlertChanged \/ Throttled
           \/ SendUnparsed \/ SendRejected
  BY <1>3, NextCheckPlace, QuietStep
     DEF Start, Check, Wake, AlertSame, AlertChanged, Throttled, SendUnparsed, SendRejected,
         Interrupted
<1>4. CASE AlertRecovered
  BY <1>4 DEF AlertRecovered, Recovering, Message, found, current, Interrupted, HeardInv,
              SilenceIsEarned, AlertsThrottled
<1>5. CASE Unthrottled
  BY <1>5, CurrentIsCheck
     DEF Unthrottled, Message, found, current, Interrupted, HeardInv, SilenceIsEarned, AlertsThrottled
<1>6. CASE SendDelivered
  <2>1. unstamped \cup {current} \subseteq (unstamped \cup Interrupted)'
    BY <1>6, CurrentIsCheck DEF SendDelivered, Interrupted, current
  <2> QED
    BY <1>6, <2>1, DeliveredStep DEF SendDelivered
<1>7. CASE Stamp
  BY <1>7, NextCheckPlace, StampedStep DEF Stamp
<1>8. CASE Crash
  BY <1>8, FatalPlace, QuietStep DEF Crash, Interrupted
<1>9. CASE SendTimeout
  <2>1. pc' # "send" /\ pc # "stamp"
    BY <1>9, FatalPlace DEF SendTimeout
  <2>2. CASE Delivered /\ unstamped' = unstamped \cup {current}
    BY <1>9, <2>1, <2>2, DeliveredStep DEF SendTimeout
  <2>3. CASE UNCHANGED <<chat, unstamped>>
    BY <1>9, <2>1, <2>3, QuietStep DEF SendTimeout, Interrupted
  <2> QED
    BY <1>9, <2>2, <2>3 DEF SendTimeout
<1>10. CASE StoreError
  <2>1. pc' # "send"
    BY <1>10, FatalPlace DEF StoreError
  <2>2. CASE pc = "stamp" /\ last' = Stamped /\ unstamped' = unstamped \ {current}
    BY <1>10, <2>1, <2>2, StampedStep DEF StoreError
  <2>3. CASE last' = last /\ unstamped \cup Interrupted \subseteq unstamped'
    BY <1>10, <2>1, <2>3, QuietStep DEF StoreError
  <2> QED
    BY <1>10, <2>2, <2>3 DEF StoreError, Interrupted
<1>11. CASE UNCHANGED vars
  BY <1>11 DEF vars, HeardInv, SilenceIsEarned, AlertsThrottled, Interrupted, Message, found, current
<1> QED
  BY <1>1, <1>2, <1>3, <1>4, <1>5, <1>6, <1>7, <1>8, <1>9, <1>10, <1>11 DEF Next, Thread

------------------------------------------------------------------------------
(* Theorems *)

LEMMA HInvInit == Init => HInv
<1> SUFFICES ASSUME Init PROVE HInv
  OBVIOUS
<1>1. TypeOK
  BY Rounds, HealthAssumption
     DEF HealthAssumption, Init, TypeOK, StoreTypeOK, ChatTypeOK, ProcessTypeOK, None,
         Statuses, Locations
<1> QED
  BY <1>1 DEF Init, HInv, DownInv, RoundInv, InRound, Announcing, StateMatchesHealth,
              HeardInv, SilenceIsEarned, AlertsThrottled

LEMMA HInvStep == HInv /\ [Next]_vars => HInv'
BY TypeStep, DownStep, RoundStep, ThrottleStep DEF HInv

LEMMA HInvHolds == Spec => []HInv
BY HInvInit, HInvStep, PTL DEF Spec

(***************************************************************************)
(* The variables keep their types; a round never leaves the list of checks *)
(* (CheckRunner.run_once).                                                 *)
(***************************************************************************)
THEOREM TypeCorrect == Spec => []TypeOK
<1>1. HInv => TypeOK
  BY DEF HInv
<1> QED
  BY <1>1, HInvHolds, PTL

(***************************************************************************)
(* Whatever fails and however often, a check is silenced only by a message *)
(* that somebody has heard within the throttle (Alerter._send before       *)
(* set_last_alert_ts).                                                     *)
(***************************************************************************)
THEOREM OnlyDeliverySilences == Spec => []SilenceIsEarned
<1>1. HInv => SilenceIsEarned
  BY DEF HInv
<1> QED
  BY <1>1, HInvHolds, PTL

(***************************************************************************)
(* A problem is sent again within the throttle only if the last message    *)
(* never got its stamp.                                                    *)
(***************************************************************************)
THEOREM RepeatsAreThrottled == Spec => []AlertsThrottled
<1>1. HInv => AlertsThrottled
  BY DEF HInv
<1> QED
  BY <1>1, HInvHolds, PTL

(***************************************************************************)
(* What /health publishes at the end of a round is what Redis remembers    *)
(* for the comparison in the next one, for any number and order of checks. *)
(***************************************************************************)
THEOREM HealthIsWhatAlertsCompare == Spec => []StateMatchesHealth
<1>1. HInv => StateMatchesHealth
  BY DEF HInv
<1> QED
  BY <1>1, HInvHolds, PTL

(***************************************************************************)
(* With a process that does not crash, a Redis that answers and a Telegram *)
(* that answers at all, be it with a refusal, no problem is ever sent      *)
(* twice within the throttle.                                              *)
(***************************************************************************)
THEOREM NoFailureNoRepeat ==
    ASSUME Faults \subseteq {"rejected"}
    PROVE  Spec => [](pc = "send" /\ Message = "PROBLEM" => heard[current] # "recent")
<1> DEFINE AllStamped == unstamped = {}
<1>1. Init => AllStamped
  BY DEF Init
<1>2. AllStamped /\ [Next]_vars => AllStamped'
  BY DEF Next, Thread, vars, Change, Age, Start, Crash, Check, AlertSame, AlertChanged,
         AlertRecovered, Throttled, Unthrottled, SendDelivered, SendUnparsed, Stamp, Wake, SendRejected,
         SendTimeout, StoreError, Suffer
<1>3. HInv /\ AllStamped
      => (pc = "send" /\ Message = "PROBLEM" => heard[current] # "recent")
  BY DEF HInv, AlertsThrottled
<1> HIDE DEF AllStamped
<1> QED
  BY <1>1, <1>2, <1>3, HInvHolds, PTL DEF Spec

(***************************************************************************)
(* A check none of whose texts Telegram can parse (alerter.py:85 sends its *)
(* detail keys as Markdown) is never heard of, however many rounds find    *)
(* its problem: kafka_lag while its topic and group can be read, freshness *)
(* while the table has rows.  Nor is it ever silenced.                     *)
(***************************************************************************)
THEOREM UnparsedNeverHeard ==
    ASSUME NEW c \in Checks, \A r \in Possible[c] : ~r.parses
    PROVE  Spec => [](heard[c] # "recent" /\ last[c] # "recent" /\ told[c] = "none")
<1> DEFINE Unheard ==
      /\ condition[c] \in Possible[c]
      /\ heard[c] # "recent" /\ last[c] # "recent" /\ told[c] = "none"
      /\ (pc \in {"alert"} \cup Announcing /\ current = c) => (~text /\ pc # "stamp")
<1>1. Init => Unheard
  BY DEF Init, Announcing, None
<1>2. TypeOK /\ Unheard /\ [Next]_vars => Unheard'
  <2> SUFFICES ASSUME TypeOK, Unheard, [Next]_vars PROVE Unheard'
    OBVIOUS
  <2> USE DEF store, chat, thread, server, Announcing
  <2>a. /\ current \in Checks
        /\ NextCheck => pc' \in {"check", "wait"}
        /\ Fatal \/ ProcessEnds => pc' \in {"down", "dead"}
    BY CurrentIsCheck, NextCheckPlace, FatalPlace
  <2>1. ASSUME NEW d \in Checks, Change(d) PROVE Unheard'
    <3>1. PICK r \in Possible[d] : condition' = [condition EXCEPT ![d] = r]
      BY <2>1 DEF Change
    <3>2. condition'[c] \in Possible[c] /\ told'[c] = "none"
      BY <2>1, <3>1 DEF Change, TypeOK, StoreTypeOK, ChatTypeOK
    <3> QED
      BY <2>1, <3>2 DEF Change, current
  <2>2. ASSUME NEW d \in Checks, Age(d) PROVE Unheard'
    BY <2>2 DEF Age, Aged, current, TypeOK, StoreTypeOK, ChatTypeOK
  <2>3. CASE Check
    BY <2>3 DEF Check, current
  <2>4. CASE AlertSame \/ AlertChanged \/ AlertRecovered \/ Unthrottled
    BY <2>4, <2>a DEF AlertSame, AlertChanged, AlertRecovered, Unthrottled, current
  <2>5. CASE Start \/ Crash \/ Throttled \/ SendUnparsed \/ SendRejected \/ Wake
    BY <2>5, <2>a DEF Start, Crash, Throttled, SendUnparsed, SendRejected, Wake
  <2>6. ASSUME text, pc = "send", Delivered, last' = last, condition' = condition,
               (pc' = "stamp" /\ index' = index) \/ pc' \in {"down", "dead"}
        PROVE  Unheard'
    <3>1. current # c
      BY <2>6
    <3>2. heard'[c] = heard[c] /\ told'[c] = told[c]
      BY <2>6, <3>1 DEF Delivered, TypeOK, ChatTypeOK
    <3> QED
      BY <2>6, <3>1, <3>2 DEF current
  <2>7. CASE SendDelivered
    BY <2>6, <2>7 DEF SendDelivered
  <2>8. CASE SendTimeout
    BY <2>a, <2>6, <2>8 DEF SendTimeout
  <2>9. ASSUME pc = "stamp", last' = Stamped, UNCHANGED <<heard, told, condition>>,
               pc' \notin {"alert"} \cup Announcing
        PROVE  Unheard'
    BY <2>a, <2>9 DEF Stamped, TypeOK, StoreTypeOK
  <2>10. CASE Stamp
    BY <2>a, <2>9, <2>10 DEF Stamp
  <2>11. CASE StoreError
    BY <2>a, <2>9, <2>11 DEF StoreError
  <2>12. CASE UNCHANGED vars
    BY <2>12 DEF vars, current
  <2> QED
    BY <2>1, <2>2, <2>3, <2>4, <2>5, <2>7, <2>8, <2>10, <2>11, <2>12 DEF Next, Thread
<1>3. Unheard => heard[c] # "recent" /\ last[c] # "recent" /\ told[c] = "none"
  OBVIOUS
<1>4. HInv => TypeOK
  BY DEF HInv
<1> HIDE DEF Unheard
<1> QED
  BY <1>1, <1>2, <1>3, <1>4, HInvHolds, PTL DEF Spec

=============================================================================
