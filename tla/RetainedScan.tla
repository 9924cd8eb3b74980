---------------------------- MODULE RetainedScan ----------------------------
(***************************************************************************)
(* Client.CollectRetained: the goroutine that called it, the MQTT          *)
(* library's goroutine that runs the message handler, the broker, the      *)
(* connection and the two timers.  Time is discrete: one Tick is 100 ms    *)
(* when TotalTime is 20 (2 s) and Grace is 3 (300 ms).                     *)
(***************************************************************************)
EXTENDS Naturals, FiniteSets

CONSTANTS
  Topic, Payload,
  Start,       \* possible retained messages at the time of the call, [Topic -> Payload or None]
  None,
  TotalTime,   \* timeout, in ticks
  Grace,       \* idleGrace, in ticks
  MaxLive,     \* bound: publications while the scan is subscribed
  Faulty       \* may the connection be lost

ASSUME ScanAssumption ==
  /\ None \notin Payload
  /\ Start \subseteq [Topic -> Payload \cup {None}]
  /\ TotalTime \in Nat /\ Grace \in Nat \ {0} /\ MaxLive \in Nat /\ Faulty \in BOOLEAN

Record  == Topic \X Payload
Message == [record : Record, retained : BOOLEAN]
Idle    == [at |-> "idle", record |-> None]   \* the handler does not run
Off     == Grace + 1                          \* idle == nil

VARIABLES
  pc,         \* where CollectRetained is
  subscribed, \* does the broker have the subscription
  link,       \* is the connection open
  store,      \* what the broker retains
  stream,     \* messages on their way, [record, retained]
  handler,    \* the running call of the handler
  collected,  \* the map, a set of records
  activity,   \* is the activity channel full
  total,      \* ticks until totalTimer fires
  idle,       \* ticks until idleTimer fires, Off before the first activity
  result,     \* the map that was returned
  snapshot,   \* the records the broker held when it took the subscription
  pause,      \* longest wait for a further record since SUBACK: it stays at Grace
  lost,       \* was the connection lost
  live        \* publications so far

main  == <<pc, total, idle, result, pause>>
net   == <<subscribed, link, store, snapshot, lost, live>>
local == <<handler, collected, activity>>
vars  == <<main, net, local, stream>>

Held(s) == {r \in Record : s[r[1]] = r[2]}

\* The library runs one handler at a time; what it reads is <<topic, payload>>.
Init ==
  /\ pc = "subscribe"
  /\ subscribed = FALSE /\ link = TRUE /\ lost = FALSE /\ live = 0
  /\ store \in Start
  /\ stream = {} /\ snapshot = {}
  /\ handler = Idle /\ collected = {} /\ activity = FALSE
  /\ total = TotalTime /\ idle = Off
  /\ result = {} /\ pause = 0

-----------------------------------------------------------------------------
\* The broker takes the subscription and queues what it retains.
Accept ==
  /\ pc = "subscribe" /\ link /\ ~subscribed
  /\ subscribed' = TRUE
  /\ snapshot' = Held(store)
  /\ stream' = {[record |-> r, retained |-> TRUE] : r \in Held(store)}
  /\ UNCHANGED <<main, local, link, store, lost, live>>

\* SUBACK: token.Wait returns. Records may already have been handled.
Suback ==
  /\ pc = "subscribe" /\ link /\ subscribed
  /\ pc' = "select"
  /\ pause' = 0
  /\ UNCHANGED <<net, local, stream, total, idle, result>>

\* Subscribe or Unsubscribe reports an error.
TokenFails ==
  /\ pc \in {"subscribe", "unsubscribe"} /\ ~link
  /\ pc' = "failed"
  /\ UNCHANGED <<net, local, stream, total, idle, result, pause>>

\* Deviation: break without its label only leaves the select.
TotalFiresUnlabelled == pc = "select" /\ total = 0 /\ UNCHANGED vars

\* The cases of the select; when several are ready any of them is taken.
TotalFires ==
  /\ pc = "select" /\ total = 0
  /\ pc' = "unsubscribe"
  /\ UNCHANGED <<net, local, stream, total, idle, result, pause>>

\* Deviations: activity adds to the idle time; later activity leaves the idle
\* timer alone.
ActivityAdds ==
  /\ pc = "select" /\ activity
  /\ activity' = FALSE
  /\ idle' = idle + Grace
  /\ UNCHANGED <<net, stream, handler, collected, pc, total, result, pause>>

ActivityOnce ==
  /\ pc = "select" /\ activity
  /\ activity' = FALSE
  /\ idle' = IF idle = Off THEN Grace ELSE idle
  /\ UNCHANGED <<net, stream, handler, collected, pc, total, result, pause>>

Activity ==
  /\ pc = "select" /\ activity
  /\ activity' = FALSE
  /\ idle' = Grace
  /\ UNCHANGED <<net, stream, handler, collected, pc, total, result, pause>>

IdleFires ==
  /\ pc = "select" /\ idle = 0
  /\ pc' = "unsubscribe"
  /\ UNCHANGED <<net, local, stream, total, idle, result, pause>>

\* The broker ends the subscription and UNSUBACK arrives; the library passes
\* nothing on any more, but a handler may still be running.
Unsuback ==
  /\ pc = "unsubscribe" /\ link
  /\ pc' = "copy"
  /\ subscribed' = FALSE
  /\ stream' = {}
  /\ UNCHANGED <<local, link, store, snapshot, lost, live, total, idle, result, pause>>

\* The copy is made while the mutex is held.
Copy ==
  /\ pc = "copy"
  /\ pc' = "returned"
  /\ result' = collected
  /\ UNCHANGED <<net, local, stream, total, idle, pause>>

-----------------------------------------------------------------------------
\* Deviation: live messages are kept as well.
HandleAny ==
  /\ handler = Idle
  /\ \E m \in stream :
       /\ stream' = stream \ {m}
       /\ handler' = [at |-> "store", record |-> m.record]
  /\ UNCHANGED <<main, net, collected, activity>>

\* The library calls the handler; a live message is none of its business.
Handle ==
  /\ handler = Idle
  /\ \E m \in stream :
       /\ stream' = stream \ {m}
       /\ handler' = IF m.retained THEN [at |-> "store", record |-> m.record] ELSE Idle
  /\ UNCHANGED <<main, net, collected, activity>>

\* The handler stores the record under the mutex.
Store ==
  /\ handler.at = "store"
  /\ collected' = collected \cup {handler.record}
  /\ handler' = [handler EXCEPT !.at = "notify"]
  /\ pause' = IF pc = "select" /\ pause < Grace THEN 0 ELSE pause
  /\ UNCHANGED <<net, stream, activity, pc, total, idle, result>>

\* It says so without waiting: one word in the channel is enough.
Notify ==
  /\ handler.at = "notify"
  /\ activity' = TRUE
  /\ handler' = Idle
  /\ UNCHANGED <<main, net, stream, collected>>

-----------------------------------------------------------------------------
\* Another client publishes: the broker keeps it, and passes it to the scan as a
\* live message.
Publish ==
  /\ live < MaxLive
  /\ \E r \in Record :
       /\ store' = [store EXCEPT ![r[1]] = r[2]]
       /\ stream' = IF subscribed THEN stream \cup {[record |-> r, retained |-> FALSE]} ELSE stream
  /\ live' = live + 1
  /\ UNCHANGED <<main, local, subscribed, link, snapshot, lost>>

\* The connection is lost and with it the subscription and what was on its way.
Drop ==
  /\ Faulty /\ link /\ ~lost
  /\ link' = FALSE /\ lost' = TRUE
  /\ subscribed' = FALSE
  /\ stream' \in SUBSET stream
  /\ UNCHANGED <<main, local, store, snapshot, live>>

\* SetAutoReconnect; a subscription is not renewed, its token has failed.
Reconnect ==
  /\ ~link /\ pc # "subscribe"
  /\ link' = TRUE
  /\ UNCHANGED <<main, local, stream, subscribed, store, snapshot, lost, live>>

\* Nothing is left to do before time passes.
Quiescent ==
  /\ handler = Idle
  /\ pc = "select" => ~activity /\ total > 0 /\ idle > 0
  /\ pc # "copy"

Countdown(t) == IF t > 0 THEN t - 1 ELSE 0

\* 100 ms pass. The timers matter until the select is left.
Tick ==
  /\ pc \in {"subscribe", "select"} /\ Quiescent
  /\ total' = Countdown(total)
  /\ idle' = IF idle = Off THEN Off ELSE Countdown(idle)
  /\ pause' = IF collected = {} \/ pause = Grace THEN pause ELSE pause + 1
  /\ UNCHANGED <<net, local, stream, pc, result>>

Token    == Accept \/ Suback \/ Unsuback \/ TokenFails
Collect  == TotalFires \/ Activity \/ IdleFires \/ Copy
Callback == Handle \/ Store \/ Notify
Finished == pc \in {"returned", "failed"} /\ UNCHANGED vars

Next == Token \/ Collect \/ Callback \/ Publish \/ Drop \/ Reconnect \/ Tick \/ Finished

Spec == Init /\ [][Next]_vars

\* The goroutines are scheduled, a token is completed (by the broker, or by the
\* library when the connection is lost), and time goes on: only finitely many
\* messages arrive within a tick.
FairSpec ==
  Spec /\ WF_vars(Token) /\ WF_vars(Collect) /\ WF_vars(Callback) /\ SF_vars(Tick)

-----------------------------------------------------------------------------
\* Every variable holds a value of its kind; a timer never runs past zero.
TypeOK ==
  /\ pc \in {"subscribe", "select", "unsubscribe", "copy", "returned", "failed"}
  /\ subscribed \in BOOLEAN /\ link \in BOOLEAN /\ lost \in BOOLEAN /\ activity \in BOOLEAN
  /\ store \in [Topic -> Payload \cup {None}]
  /\ stream \subseteq Message
  /\ handler \in {Idle} \cup [at : {"store", "notify"}, record : Record]
  /\ collected \subseteq Record /\ result \subseteq Record /\ snapshot \subseteq Record
  /\ total \in 0..TotalTime /\ idle \in 0..Off /\ pause \in 0..Grace /\ live \in 0..MaxLive

\* A scan that returns less than the broker held when it subscribed has run out
\* of its total time, has waited idleGrace for the next record, or has lost
\* the connection (comment at client.go:84-85).
MissesExplained ==
  pc = "returned" /\ ~(snapshot \subseteq result) => total = 0 \/ pause = Grace \/ lost

\* The call returns, whatever other clients publish meanwhile and however the
\* records are spread over time (comment at client.go:85).
ScanEnds == <>(pc \in {"returned", "failed"})

\* The scan as the cleanup sees it.
OnTheWay ==
  {m.record : m \in {n \in stream : n.retained}}
    \cup (IF handler.at = "store" THEN {handler.record} ELSE {})

Ended == pc \in {"returned", "failed"}

Phase ==
  IF pc = "subscribe" /\ ~subscribed /\ ~lost THEN "closed" ELSE IF Ended THEN pc ELSE "open"

Queued == IF Ended THEN {} ELSE OnTheWay
Found  == CASE pc = "returned" -> result [] pc = "failed" -> {} [] OTHER -> collected

AbstractScan ==
  INSTANCE Scan WITH Message <- Record, phase <- Phase, queued <- Queued, found <- Found

\* CollectRetained implements the scan that the cleanup relies on: only records
\* that the broker retained at subscription, and a handler that is late changes
\* nothing that was returned.
ScanImplemented == AbstractScan!SSpec
=============================================================================
