------------------------ MODULE RetainedScanProofs ------------------------
(***************************************************************************)
(* Proofs about RetainedScan, for any retained messages, any timeouts and  *)
(* any number of publications: the scan is what Scan says, and it ends for *)
(* one of its reasons.                                                     *)
(***************************************************************************)
EXTENDS RetainedScan, TLAPS

\* Nothing arrives before the broker has the subscription; a record that the
\* handler has in hand has left the stream.
StreamInv ==
  /\ link \/ lost
  /\ pc = "subscribe" /\ link => ~lost
  /\ pc = "subscribe" /\ ~subscribed /\ ~lost => stream = {} /\ handler = Idle /\ collected = {}
  /\ handler.at = "store" => [record |-> handler.record, retained |-> TRUE] \notin stream

\* While the idle timer runs, the wait for a record so far and the rest of the timer
\* add up to the grace time, unless a record has just come.
IdleCovers ==
  \/ pause = Grace
  \/ idle > 0 /\ (pause + idle >= Grace \/ handler.at = "notify" \/ activity)

TimerInv ==
  /\ activity \/ handler.at = "notify" \/ idle # Off => collected # {}
  /\ pc = "subscribe" => idle = Off
  /\ pc = "select" /\ idle # Off => IdleCovers
  /\ pc \in {"unsubscribe", "copy", "returned"} => total = 0 \/ pause = Grace

ScanInv == TypeOK /\ StreamInv /\ TimerInv

\* The invariant holds when CollectRetained is called.
LEMMA ScanInit == Init => ScanInv
<1> SUFFICES ASSUME Init PROVE ScanInv OBVIOUS
<1>1. TypeOK
  <2>1. store \in [Topic -> Payload \cup {None}] BY ScanAssumption DEF Init
  <2>2. total \in 0..TotalTime /\ idle \in 0..Off /\ pause \in 0..Grace /\ live \in 0..MaxLive
    BY ScanAssumption DEF Init, Off
  <2> QED BY <2>1, <2>2 DEF Init, TypeOK
<1>2. StreamInv BY DEF Init, StreamInv, Idle
<1>3. TimerInv BY DEF Init, TimerInv, Idle
<1> QED BY <1>1, <1>2, <1>3 DEF ScanInv

\* Messages of either kind are messages.
LEMMA MessagesTyped ==
  ASSUME NEW r \in Record, NEW b \in BOOLEAN
  PROVE  [record |-> r, retained |-> b] \in Message
BY Zenon DEF Message

\* The steps of the tokens keep the invariant.
LEMMA TokenStep ==
  ASSUME ScanInv, Token
  PROVE  ScanInv'
<1> USE ScanAssumption DEF ScanInv, TypeOK, StreamInv, TimerInv, IdleCovers, main, net, local, Idle, Off
<1>1. CASE Accept
  <2>1. Held(store) \subseteq Record BY DEF Held
  <2>2. stream' \subseteq Message
    <3>1. \A r \in Record : [record |-> r, retained |-> TRUE] \in Message BY MessagesTyped
    <3> HIDE DEF ScanInv, TypeOK, Idle
    <3> QED BY <1>1, <2>1, <3>1, Zenon DEF Accept
  <2>3. TypeOK' BY <1>1, <2>1, <2>2 DEF Accept
  <2>4. StreamInv' BY <1>1 DEF Accept
  <2>5. TimerInv' BY <1>1 DEF Accept
  <2> QED BY <2>3, <2>4, <2>5
<1>2. CASE Suback BY <1>2 DEF Suback
<1>3. CASE Unsuback BY <1>3 DEF Unsuback
<1>4. CASE TokenFails BY <1>4 DEF TokenFails
<1> QED BY <1>1, <1>2, <1>3, <1>4 DEF Token

\* The steps of the loop and the copy keep the invariant.
LEMMA CollectStep ==
  ASSUME ScanInv, Collect
  PROVE  ScanInv'
<1> USE ScanAssumption DEF ScanInv, TypeOK, StreamInv, TimerInv, IdleCovers, main, net, local, Idle, Off
<1>1. CASE TotalFires BY <1>1 DEF TotalFires
<1>2. CASE Activity
  <2>1. TypeOK'
    <3>1. idle' \in 0..Off BY <1>2 DEF Activity
    <3> QED BY <1>2, <3>1 DEF Activity
  <2>2. StreamInv' BY <1>2 DEF Activity
  <2>3. TimerInv' BY <1>2 DEF Activity
  <2> QED BY <2>1, <2>2, <2>3
<1>3. CASE IdleFires BY <1>3 DEF IdleFires
<1>4. CASE Copy BY <1>4 DEF Copy
<1> QED BY <1>1, <1>2, <1>3, <1>4 DEF Collect

\* The steps of the handler keep the invariant.
LEMMA CallbackStep ==
  ASSUME ScanInv, Callback
  PROVE  ScanInv'
<1> USE ScanAssumption DEF ScanInv, TypeOK, StreamInv, TimerInv, IdleCovers, main, net, local, Idle, Off
<1>1. CASE Handle
  <2>1. PICK m \in stream :
          /\ stream' = stream \ {m}
          /\ handler' = IF m.retained THEN [at |-> "store", record |-> m.record] ELSE Idle
    BY <1>1 DEF Handle
  <2>2. m \in Message /\ m.record \in Record /\ m.retained \in BOOLEAN BY <2>1 DEF Message
  <2>3. m.retained => m = [record |-> m.record, retained |-> TRUE] BY <2>2 DEF Message
  <2>4. TypeOK' BY <1>1, <2>1, <2>2 DEF Handle
  <2>5. StreamInv' BY <1>1, <2>1, <2>3 DEF Handle
  <2>6. TimerInv' BY <1>1, <2>1 DEF Handle
  <2> QED BY <2>4, <2>5, <2>6
<1>2. CASE Store BY <1>2 DEF Store
<1>3. CASE Notify BY <1>3 DEF Notify
<1> QED BY <1>1, <1>2, <1>3 DEF Callback

\* The steps of the environment and of time keep the invariant.
LEMMA EnvironmentStep ==
  ASSUME ScanInv, Publish \/ Drop \/ Reconnect \/ Tick \/ UNCHANGED vars
  PROVE  ScanInv'
<1> USE ScanAssumption DEF ScanInv, TypeOK, StreamInv, TimerInv, IdleCovers, main, net, local, Idle, Off
<1>1. CASE Publish
  <2>1. PICK r \in Record :
          /\ store' = [store EXCEPT ![r[1]] = r[2]]
          /\ stream' = IF subscribed THEN stream \cup {[record |-> r, retained |-> FALSE]} ELSE stream
    BY <1>1 DEF Publish
  <2>2. TypeOK'
    <3>1. store' \in [Topic -> Payload \cup {None}] BY <2>1 DEF Record
    <3>2. [record |-> r, retained |-> FALSE] \in Message BY MessagesTyped
    <3>3. stream' \subseteq Message BY <2>1, <3>2
    <3> QED BY <1>1, <3>1, <3>3 DEF Publish
  <2>3. StreamInv' BY <1>1, <2>1 DEF Publish
  <2>4. TimerInv' BY <1>1 DEF Publish
  <2> QED BY <2>2, <2>3, <2>4
<1>2. CASE Drop BY <1>2 DEF Drop
<1>3. CASE Reconnect BY <1>3 DEF Reconnect
<1>4. CASE Tick BY <1>4 DEF Tick, Countdown, Quiescent
<1>5. CASE UNCHANGED vars BY <1>5 DEF vars
<1> QED BY <1>1, <1>2, <1>3, <1>4, <1>5

\* Every step keeps the invariant.
LEMMA ScanStep == ScanInv /\ [Next]_vars => ScanInv'
BY TokenStep, CollectStep, CallbackStep, EnvironmentStep DEF Next, Finished

\* The invariant holds in every reachable state.
LEMMA ScanAlways == Spec => []ScanInv
BY ScanInit, ScanStep, PTL DEF Spec

\* Every variable keeps its kind; no timer runs past zero.
THEOREM ScanTypeCorrect == Spec => []TypeOK
BY ScanAlways, PTL DEF ScanInv

\* The call only returns when its total time is over or no record has come for the
\* grace time: what it misses, it misses for one of these reasons or because the
\* connection was lost.
THEOREM MissesAreExplained == Spec => []MissesExplained
<1>1. ScanInv => MissesExplained BY DEF ScanInv, TimerInv, MissesExplained
<1> QED BY <1>1, ScanAlways, PTL

-----------------------------------------------------------------------------
\* A step that the abstract scan does not see.
Unseen == UNCHANGED <<Phase, Queued, Found>>

\* The token steps are the opening, a loss, the failure, or unseen.
LEMMA TokenImplements ==
  ASSUME ScanInv, Token
  PROVE  AbstractScan!Open \/ AbstractScan!Lose \/ AbstractScan!Fail \/ Unseen
<1> USE DEF ScanInv, StreamInv, Unseen, Phase, Queued, Found, Ended, main, net, local
<1>1. CASE Accept
  <2>1. pc = "subscribe" /\ ~subscribed /\ ~lost /\ stream = {} /\ handler = Idle /\ collected = {}
    BY <1>1 DEF Accept
  <2>2. OnTheWay' = Held(store)
    <3>1. handler'.at # "store" BY <1>1, <2>1 DEF Accept, Idle
    <3>2. stream' = {[record |-> r, retained |-> TRUE] : r \in Held(store)} BY <1>1 DEF Accept
    <3>3. \A r \in Held(store) : \E m \in stream' : m.retained /\ m.record = r
      <4> SUFFICES ASSUME NEW r \in Held(store)
                   PROVE  \E m \in stream' : m.retained /\ m.record = r
        OBVIOUS
      <4>1. [record |-> r, retained |-> TRUE] \in stream' BY <3>2
      <4> WITNESS [record |-> r, retained |-> TRUE] \in stream'
      <4> QED OBVIOUS
    <3>4. \A m \in stream' : m.record \in Held(store) BY <3>2
    <3> QED BY <3>1, <3>3, <3>4 DEF OnTheWay
  <2>3. Held(store) \subseteq Record BY DEF Held
  <2> QED BY <1>1, <2>1, <2>2, <2>3 DEF Accept, AbstractScan!Open
<1>2. CASE Suback BY <1>2 DEF Suback, OnTheWay
<1>3. CASE Unsuback
  <2>1. OnTheWay' \subseteq OnTheWay BY <1>3 DEF Unsuback, OnTheWay
  <2> QED BY <1>3, <2>1 DEF Unsuback, AbstractScan!Lose
<1>4. CASE TokenFails BY <1>4 DEF TokenFails, AbstractScan!Fail
<1> QED BY <1>1, <1>2, <1>3, <1>4 DEF Token

\* The loop is unseen until the map is returned.
LEMMA CollectImplements ==
  ASSUME ScanInv, Collect
  PROVE  AbstractScan!Finish \/ Unseen
<1> USE DEF Unseen, Phase, Queued, Found, Ended, main, net, local, OnTheWay
<1>1. CASE TotalFires BY <1>1 DEF TotalFires
<1>2. CASE Activity BY <1>2 DEF Activity
<1>3. CASE IdleFires BY <1>3 DEF IdleFires
<1>4. CASE Copy BY <1>4 DEF Copy, AbstractScan!Finish
<1> QED BY <1>1, <1>2, <1>3, <1>4 DEF Collect

\* The handler delivers when it stores a record.
LEMMA CallbackImplements ==
  ASSUME ScanInv, Callback
  PROVE  AbstractScan!Deliver \/ Unseen
<1> USE DEF ScanInv, StreamInv, Unseen, Phase, Queued, Found, Ended, main, net, local
<1>1. CASE Handle
  <2>1. PICK m \in stream :
          /\ stream' = stream \ {m}
          /\ handler' = IF m.retained THEN [at |-> "store", record |-> m.record] ELSE Idle
    BY <1>1 DEF Handle
  <2>2. OnTheWay' = OnTheWay BY <1>1, <2>1 DEF Handle, OnTheWay, Idle
  <2> QED BY <1>1, <2>2 DEF Handle
<1>2. CASE Store
  <2>1. handler.record \in OnTheWay BY <1>2 DEF Store, OnTheWay
  <2>2. \A m \in stream : m.retained => m.record # handler.record
    <3>1. SUFFICES ASSUME NEW m \in stream, m.retained, m.record = handler.record PROVE FALSE
      OBVIOUS
    <3>2. m \in Message BY <3>1 DEF TypeOK
    <3>3. m = [record |-> m.record, retained |-> TRUE] BY <3>1, <3>2 DEF Message
    <3> QED BY <1>2, <3>1, <3>3 DEF Store
  <2>3. OnTheWay' = OnTheWay \ {handler.record} BY <1>2, <2>2 DEF Store, OnTheWay, TypeOK, Idle
  <2>4. CASE Ended BY <1>2, <2>4 DEF Store
  <2>5. CASE ~Ended
    <3>1. Phase = "open" /\ Phase' = "open" BY <1>2, <2>5 DEF Store, Idle
    <3> QED BY <1>2, <2>1, <2>3, <2>5, <3>1 DEF Store, AbstractScan!Deliver
  <2> QED BY <2>4, <2>5
<1>3. CASE Notify BY <1>3 DEF Notify, OnTheWay, Idle
<1> QED BY <1>1, <1>2, <1>3 DEF Callback

\* A lost connection opens the scan in vain or loses records; the rest is unseen.
LEMMA EnvironmentImplements ==
  ASSUME ScanInv, Publish \/ Drop \/ Reconnect \/ Tick \/ UNCHANGED vars
  PROVE  AbstractScan!Open \/ AbstractScan!Lose \/ Unseen
<1> USE DEF ScanInv, StreamInv, Unseen, Phase, Queued, Found, Ended, main, net, local
<1>1. CASE Publish
  <2>1. OnTheWay' = OnTheWay BY <1>1 DEF Publish, OnTheWay
  <2> QED BY <1>1, <2>1 DEF Publish
<1>2. CASE Drop
  <2>1. OnTheWay' \subseteq OnTheWay BY <1>2 DEF Drop, OnTheWay
  <2>2. CASE Phase = "closed"
    <3>1. OnTheWay = {} BY <2>2 DEF OnTheWay, Idle
    <3> QED BY <1>2, <2>1, <2>2, <3>1 DEF Drop, AbstractScan!Open
  <2>3. CASE Phase = "open" BY <1>2, <2>1, <2>3 DEF Drop, AbstractScan!Lose
  <2>4. CASE Ended BY <1>2, <2>4 DEF Drop
  <2> QED BY <2>2, <2>3, <2>4
<1>3. CASE Reconnect BY <1>3 DEF Reconnect, OnTheWay
<1>4. CASE Tick BY <1>4 DEF Tick, OnTheWay
<1>5. CASE UNCHANGED vars BY <1>5 DEF vars, OnTheWay
<1> QED BY <1>1, <1>2, <1>3, <1>4, <1>5

\* CollectRetained implements the scan that the cleanup relies on, for any retained
\* messages, timeouts and interleavings of its handler with the caller.
THEOREM ScanIsImplemented == Spec => ScanImplemented
<1>1. Init => AbstractScan!SInit
  BY DEF Init, AbstractScan!SInit, Phase, Queued, Found, Ended, OnTheWay, Idle
<1>2. ScanInv /\ [Next]_vars => [AbstractScan!SNext]_(AbstractScan!svars)
  <2> SUFFICES ASSUME ScanInv, [Next]_vars
               PROVE  AbstractScan!SNext \/ Unseen
    BY DEF Unseen, AbstractScan!svars
  <2> QED BY TokenImplements, CollectImplements, CallbackImplements, EnvironmentImplements
          DEF Next, Finished, AbstractScan!SNext
<1> QED BY <1>1, <1>2, ScanAlways, PTL DEF Spec, ScanImplemented, AbstractScan!SSpec
=============================================================================
