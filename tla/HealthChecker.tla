---------------------------- MODULE HealthChecker ----------------------------
(***************************************************************************)
(* The healthchecker service (services/healthchecker): a thread that runs  *)
(* the checks one after another, remembers each status in Redis, announces *)
(* changes over Telegram with a throttle, and publishes the result of a    *)
(* round; and an HTTP server that answers /health from what was published. *)
(*                                                                         *)
(* An action is one step that others can see: a check, a Redis write, a    *)
(* Telegram message, the published result.                                 *)
(***************************************************************************)
EXTENDS Integers, Sequences, Functions

CONSTANTS
    Checks,         \* the checks
    Order,          \* build_checks: in which order a round runs them
    Possible,       \* Possible[c]: the results check c can have
    Faults,         \* the kinds of fault this instance admits
    MaxFaults       \* bound: how many faults a behaviour has

Statuses == {"ok", "warn", "critical"}

(***************************************************************************)
(* A result is a status and its details.  Of the details one thing counts: *)
(* whether Telegram can parse the message made of them.  _send asks for    *)
(* Markdown and _format_details escapes nothing, so an underscore in a key *)
(* or a value opens an entity and the next one closes it: with an odd      *)
(* number of them the text is refused (HTTP 400) whenever it is sent.      *)
(* Without a token the log takes every text: every result parses then, and *)
(* there is neither "rejected" nor "timeout".                              *)
(***************************************************************************)
Result == [status : Statuses, parses : BOOLEAN]

(***************************************************************************)
(* "crash": the process dies.  "redis": a call of the state store raises.  *)
(* "rejected": Telegram is not reached or refuses a text it could parse.   *)
(* "timeout": its answer does not come, a TimeoutError, not a URLError.    *)
(***************************************************************************)
FaultKinds == {"crash", "redis", "rejected", "timeout"}

ASSUME HealthAssumption ==
    /\ Order \in Seq(Checks) /\ Range(Order) = Checks
    /\ \A i, j \in DOMAIN Order : Order[i] = Order[j] => i = j
    /\ Order # << >>
    /\ Possible \in [Checks -> SUBSET Result]
    /\ \A c \in Checks : \E r \in Possible[c] : r.status = "ok"
    /\ Faults \subseteq FaultKinds
    /\ MaxFaults \in Nat

VARIABLES
    condition,      \* condition[c]: what check c would return now
    \* Redis
    status,         \* status[c]: healthchecker:state:{c}, "none" without the key
    last,           \* last[c]: whether last_alert:{c} lies within the throttle,
                    \* "recent", or is older or not there, "old"
    \* Telegram
    heard,          \* heard[c]: "recent" if a message about c was delivered within
                    \* alert_throttle_seconds
    \* the process
    pc,             \* where the checking thread is: "dead" once it has raised
    mode,           \* "startup" in the first run_once, then "serving"
    index,          \* which check of the round is on
    text,           \* whether the text of the result being processed parses
    results,        \* the statuses found in this round
    latest,         \* _latest: those of the last round, which /health serves
    \* history, read by the properties only
    told,           \* told[c]: the status in the last message delivered about c since
                    \* condition[c] last changed, "none" if there was none
    unstamped,      \* checks whose last delivered message never reached last_alert
    faults          \* how many faults there have been

store  == <<status, last>>
chat   == <<told, heard>>
thread == <<pc, index, text, results>>
server == <<mode, latest>>
vars   == <<condition, store, chat, thread, server, unstamped, faults>>

Locations == {"down", "check", "alert", "throttle", "send", "stamp", "wait", "dead"}

None == [c \in Checks |-> "none"]

StoreTypeOK ==
    /\ condition \in [Checks -> Result]
    /\ status \in [Checks -> Statuses \cup {"none"}]
    /\ last \in [Checks -> {"recent", "old"}]

ChatTypeOK ==
    /\ told \in [Checks -> Statuses \cup {"none"}]
    /\ heard \in [Checks -> {"recent", "old"}]

ProcessTypeOK ==
    /\ pc \in Locations /\ mode \in {"startup", "serving"}
    /\ index \in DOMAIN Order
    /\ text \in BOOLEAN
    /\ results \in [Checks -> Statuses \cup {"none"}]
    /\ latest \in [Checks -> Statuses \cup {"none"}]
    /\ unstamped \subseteq Checks
    /\ faults \in 0 .. MaxFaults

TypeOK == StoreTypeOK /\ ChatTypeOK /\ ProcessTypeOK

------------------------------------------------------------------------------
(* Vocabulary *)

Problem(s) == s \in {"warn", "critical"}        \* CheckStatus.is_problem

\* AggregatedHealth.aggregate; of no results at all it makes "ok".
Aggregate(r) ==
    CASE \E c \in Checks : r[c] = "critical" -> "critical"
      [] \A c \in Checks : r[c] # "critical" ->
            IF \E c \in Checks : r[c] = "warn" THEN "warn" ELSE "ok"

current == Order[index]

\* The status the check on has found.
found == results[current]

\* The message _send is called with: RECOVERED only for a check that is OK.
Message == IF found = "ok" THEN "RECOVERED" ELSE "PROBLEM"

Recorded == [status EXCEPT ![current] = found]

\* last_alert carries the time of the message just sent.
Stamped == [last EXCEPT ![current] = heard[current]]

\* A message that was delivered and is not yet stamped.
Interrupted == {c \in Checks : c = current /\ pc = "stamp"}

Suffer(k) == k \in Faults /\ faults < MaxFaults /\ faults' = faults + 1

Init ==
    /\ condition \in [Checks -> Result]
    /\ \A c \in Checks : condition[c] \in Possible[c] /\ condition[c].status = "ok"
    /\ status = None /\ last = [c \in Checks |-> "old"]
    /\ told = None /\ heard = [c \in Checks |-> "old"]
    /\ pc = "down" /\ mode = "startup" /\ index = 1 /\ text = TRUE
    /\ results = None /\ latest = None /\ unstamped = {}
    /\ faults = 0

------------------------------------------------------------------------------
(* The world around the process *)

\* The monitored system gets better or worse.
Change(c) ==
    /\ \E r \in Possible[c] \ {condition[c]} : condition' = [condition EXCEPT ![c] = r]
    /\ told' = [told EXCEPT ![c] = "none"]
    /\ UNCHANGED <<store, heard, thread, server, unstamped, faults>>

Aged(f, c) == [f EXCEPT ![c] = IF @ = "recent" THEN "old" ELSE @]

\* alert_throttle_seconds have passed since the last message about c.
Age(c) ==
    /\ heard[c] = "recent"
    /\ heard' = Aged(heard, c) /\ last' = Aged(last, c)
    /\ unstamped' = unstamped \ {c}
    /\ UNCHANGED <<condition, status, told, thread, server, faults>>

------------------------------------------------------------------------------
(* The life of the process *)

ProcessEnds ==
    /\ pc' = "down" /\ mode' = "startup" /\ index' = 1 /\ text' = TRUE
    /\ results' = None /\ latest' = None

\* An exception ends the process in the first round, and later only the thread.
Fatal ==
    \/ mode = "startup" /\ ProcessEnds
    \/ mode = "serving" /\ pc' = "dead" /\ UNCHANGED <<index, text, results, server>>

\* run: the checks are built and run_once starts, before there is a server.
Start ==
    /\ pc = "down" /\ pc' = "check"
    /\ UNCHANGED <<condition, store, chat, index, text, results, server, unstamped, faults>>

Crash ==
    /\ pc # "down" /\ Suffer("crash")
    /\ ProcessEnds
    /\ unstamped' = unstamped \cup Interrupted
    /\ UNCHANGED <<condition, store, chat>>

------------------------------------------------------------------------------
(* CheckRunner.run_once and Alerter.process *)

Check ==
    /\ pc = "check"
    /\ results' = [results EXCEPT ![current] = condition[current].status]
    /\ text' = condition[current].parses
    /\ pc' = "alert"
    /\ UNCHANGED <<condition, store, chat, index, server, unstamped, faults>>

\* Faulty: the result of a round is published once, at startup.
NextCheckPublishOnce ==
    \/ /\ index < Len(Order)
       /\ index' = index + 1 /\ pc' = "check" /\ text' = TRUE
       /\ UNCHANGED <<results, server>>
    \/ /\ index = Len(Order)
       /\ index' = 1 /\ pc' = "wait" /\ text' = TRUE
       /\ latest' = (IF mode = "startup" THEN results ELSE latest) /\ results' = None
       /\ mode' = "serving"

\* Faulty: the next round does not begin with the first check.
NextCheckNoReset ==
    /\ index' = index + 1 /\ text' = TRUE
    /\ \/ /\ index < Len(Order) /\ pc' = "check"
          /\ UNCHANGED <<results, server>>
       \/ /\ index = Len(Order) /\ pc' = "wait"
          /\ latest' = results /\ results' = None
          /\ mode' = "serving"

(***************************************************************************)
(* process returns: the next check, or the end of the round, which is      *)
(* published.  After the first round the server starts.                    *)
(***************************************************************************)
NextCheck ==
    \/ /\ index < Len(Order)
       /\ index' = index + 1 /\ pc' = "check" /\ text' = TRUE
       /\ UNCHANGED <<results, server>>
    \/ /\ index = Len(Order)
       /\ index' = 1 /\ pc' = "wait" /\ text' = TRUE
       /\ latest' = results /\ results' = None
       /\ mode' = "serving"

\* Faulty: an unchanged problem is never announced again.
AlertSameSilent ==
    /\ pc = "alert" /\ found = status[current]
    /\ NextCheck
    /\ UNCHANGED <<condition, store, chat, unstamped, faults>>

\* previous == current: a problem may be announced again.
AlertSame ==
    /\ pc = "alert" /\ found = status[current]
    /\ \/ /\ Problem(found) /\ pc' = "throttle"
          /\ UNCHANGED <<index, text, results, server>>
       \/ ~Problem(found) /\ NextCheck
    /\ UNCHANGED <<condition, store, chat, unstamped, faults>>

Recovering == Problem(status[current]) /\ found = "ok"

\* Faulty: a problem that gets worse is not recorded.
AlertChangedForgotten ==
    /\ pc = "alert" /\ found # status[current] /\ ~Recovering
    /\ status' = IF Problem(status[current]) THEN status ELSE Recorded
    /\ \/ /\ Problem(found) /\ pc' = "throttle"
          /\ UNCHANGED <<index, text, results, server>>
       \/ ~Problem(found) /\ NextCheck
    /\ UNCHANGED <<condition, last, chat, unstamped, faults>>

\* A first status, a new problem, or a problem of another severity.
AlertChanged ==
    /\ pc = "alert" /\ found # status[current] /\ ~Recovering
    /\ status' = Recorded
    /\ \/ /\ Problem(found) /\ pc' = "throttle"
          /\ UNCHANGED <<index, text, results, server>>
       \/ ~Problem(found) /\ NextCheck
    /\ UNCHANGED <<condition, last, chat, unstamped, faults>>

\* A recovery is recorded, then announced without a look at the throttle.
AlertRecovered ==
    /\ pc = "alert" /\ Recovering
    /\ status' = Recorded
    /\ pc' = "send"
    /\ UNCHANGED <<condition, last, chat, index, text, results, server, unstamped, faults>>

\* should_send_alert is false.
Throttled ==
    /\ pc = "throttle" /\ last[current] = "recent"
    /\ NextCheck
    /\ UNCHANGED <<condition, store, chat, unstamped, faults>>

\* Faulty: severity is no reason to wait.
UnthrottledCritical ==
    /\ pc = "throttle" /\ (last[current] # "recent" \/ found = "critical")
    /\ pc' = "send"
    /\ UNCHANGED <<condition, store, chat, index, text, results, server, unstamped, faults>>

Unthrottled ==
    /\ pc = "throttle" /\ last[current] # "recent"
    /\ pc' = "send"
    /\ UNCHANGED <<condition, store, chat, index, text, results, server, unstamped, faults>>

\* Telegram takes the message.
Delivered ==
    /\ told' = [told EXCEPT ![current] = found]
    /\ heard' = [heard EXCEPT ![current] = "recent"]

\* Telegram takes it; without a token, the log does.
SendDelivered ==
    /\ pc = "send" /\ text
    /\ Delivered
    /\ pc' = "stamp"
    /\ UNCHANGED <<condition, store, index, text, results, server, unstamped, faults>>

\* Faulty: a message that was refused counts as sent.
SendRejectedStamped ==
    /\ pc = "send" /\ Suffer("rejected")
    /\ last' = [last EXCEPT ![current] = "recent"]
    /\ NextCheck
    /\ UNCHANGED <<condition, status, chat, unstamped>>

\* Telegram cannot parse the text and answers 400, an HTTPError and so a URLError:
\* logged, and process goes on.  No fault: the next round gets the same answer.
SendUnparsed ==
    /\ pc = "send" /\ ~text
    /\ NextCheck
    /\ UNCHANGED <<condition, store, chat, unstamped, faults>>

\* Any other URLError, or an answer that is not 200.
SendRejected ==
    /\ pc = "send" /\ Suffer("rejected")
    /\ NextCheck
    /\ UNCHANGED <<condition, store, chat, unstamped>>

\* The answer does not come, whether or not the message arrived: nothing catches it.
SendTimeout ==
    /\ pc = "send" /\ Suffer("timeout")
    /\ \/ /\ text /\ Delivered
          /\ unstamped' = unstamped \cup {current}
       \/ UNCHANGED <<chat, unstamped>>
    /\ Fatal
    /\ UNCHANGED <<condition, store>>

Stamp ==
    /\ pc = "stamp" /\ last' = Stamped
    /\ unstamped' = unstamped \ {current}
    /\ NextCheck
    /\ UNCHANGED <<condition, status, chat, faults>>

\* A call of the state store raises, whether or not a write took effect.
StoreError ==
    /\ pc \in {"alert", "throttle", "stamp"} /\ Suffer("redis")
    /\ \/ unstamped' = unstamped \cup Interrupted /\ UNCHANGED store
       \/ pc = "alert" /\ status' = Recorded /\ UNCHANGED <<last, unstamped>>
       \/ /\ pc = "stamp" /\ last' = Stamped
          /\ unstamped' = unstamped \ {current} /\ UNCHANGED status
    /\ Fatal
    /\ UNCHANGED <<condition, chat>>

\* check_interval_seconds are over.
Wake ==
    /\ pc = "wait" /\ pc' = "check"
    /\ UNCHANGED <<condition, store, chat, index, text, results, server, unstamped, faults>>

------------------------------------------------------------------------------
(* Next-state relation and fairness *)

Thread ==
    \/ Check \/ AlertSame \/ AlertChanged \/ AlertRecovered
    \/ Throttled \/ Unthrottled \/ SendDelivered \/ SendUnparsed \/ Stamp \/ Wake

Next ==
    \/ \E c \in Checks : Change(c) \/ Age(c)
    \/ Start \/ Crash
    \/ Thread
    \/ SendRejected \/ SendTimeout \/ StoreError

Spec == Init /\ [][Next]_vars

(***************************************************************************)
(* The container is restarted, the thread is scheduled and time passes;    *)
(* what the thread calls answers, refuses or fails.  Telegram, Kafka and   *)
(* the dashboard are called with a timeout; Postgres (psycopg.connect) and *)
(* Redis (redis.from_url) are not, and that they do not hang is assumed: a *)
(* call that hung would freeze /health while its thread is alive.  No      *)
(* fault is fair, and the monitored system owes nothing.                   *)
(***************************************************************************)
Fairness ==
    /\ WF_vars(Start) /\ WF_vars(Thread)
    /\ \A c \in Checks : WF_vars(Age(c))

FairSpec == Spec /\ Fairness

------------------------------------------------------------------------------
(* Properties *)

(***************************************************************************)
(* Only a message that was delivered silences the next one: whatever       *)
(* fails, last_alert lies within the throttle only if somebody has heard   *)
(* about the check within it (_send returns before set_last_alert_ts).     *)
(***************************************************************************)
SilenceIsEarned == \A c \in Checks : last[c] = "recent" => heard[c] = "recent"

(***************************************************************************)
(* A problem is not announced while the last message is within the         *)
(* throttle, whatever its severity and whatever Telegram refused before    *)
(* (test_repeated_problem_throttled): only a failure between a message and *)
(* its stamp lets a second one through.                                    *)
(***************************************************************************)
AlertsThrottled ==
    (pc = "send" /\ Message = "PROBLEM" /\ heard[current] = "recent")
        => current \in unstamped

(***************************************************************************)
(* Between two rounds, what alerts compare with (Redis) is what /health    *)
(* serves (memory): across restarts and changes of severity the two        *)
(* accounts of a check's status do not drift apart.                        *)
(***************************************************************************)
StateMatchesHealth == pc = "wait" => status = latest

\* A result that stays is announced with its severity, in a message sent since it began.
Announced(c, r) ==
    condition[c] = r ~> (told[c] = r.status \/ condition[c] # r \/ pc = "dead")

Problems == {r \in Result : Problem(r.status)}

(***************************************************************************)
(* A problem whose text Telegram can parse is announced in the end, with   *)
(* its present severity and however the check was announced before, unless *)
(* it changes or the checking thread has died: throttled, or sent into a   *)
(* failure, it is sent again in a later round, also by the next process.   *)
(* A problem whose text it cannot parse is refused in every round and      *)
(* never announced (UnparsedNeverHeard in HealthCheckerProofs).            *)
(***************************************************************************)
ProblemReported ==
    \A c \in Checks, r \in Problems : r.parses => Announced(c, r)

AllWell == \A c \in Checks : condition[c].status = "ok"

(***************************************************************************)
(* "Within ~5 min: healthchecker /health -> 503" and back to 200           *)
(* (docs/railway-deploy.md:292-293): a check that stays critical is served *)
(* as critical, and a system that stays well as ok, for as long as the     *)
(* checking thread lives.  Nothing ends the process when it does not:      *)
(* /health then serves the last round for ever.                            *)
(***************************************************************************)
ServedWhileAlive ==
    /\ \A c \in Checks :
          (condition[c].status = "critical") ~>
              (\/ Aggregate(latest) = "critical"
               \/ condition[c].status # "critical" \/ pc = "dead")
    /\ AllWell ~> (Aggregate(latest) = "ok" \/ ~AllWell \/ pc = "dead")

=============================================================================
