----------------------------- MODULE Discovery -----------------------------
(***************************************************************************)
(* The service's main loop and its Home Assistant discovery records:       *)
(* several installations, one MQTT broker with retained messages, the      *)
(* cleanup of stale records at start-up and the re-publication every few   *)
(* intervals.  Links drop, the broker forgets its retained messages, scans *)
(* end early and services stop and start with another configuration.       *)
(***************************************************************************)
EXTENDS Naturals, Sequences, FiniteSets

CONSTANTS
  Host,         \* installations
  Device,       \* effective device.id values
  SafeId,       \* those that are one MQTT topic level
  Order,        \* the object ids in the order in which they are published
  Configs,      \* the configurations each host may be started with
  Initial,      \* possible retained messages before anything runs
  Every,        \* collections between two publications of discovery (10)
  MaxFaults,    \* bound: link drops, broker wipes and early ends of a scan
  None          \* no message

Object  == {Order[i] : i \in DOMAIN Order}
Topic   == [node : Device, object : Object]   \* homeassistant/+/node/object/config
Payload == [origin : BOOLEAN, ids : SUBSET Device]  \* origin.name is ours; identifiers

\* disks stands for the sensors that depend on the host's disks and cores.
Config  == [id : Device, disks : SUBSET Object, updates : BOOLEAN, monitor : BOOLEAN]

ASSUME DiscoveryAssumption ==
  /\ SafeId \subseteq Device
  /\ {"cpu", "zimaos_version", "zimaos_monitor"} \subseteq Object
  /\ Configs \in [Host -> SUBSET Config]
  /\ Every \in Nat \ {0} /\ MaxFaults \in Nat
  /\ None \notin Payload
  /\ Initial \subseteq [Topic -> Payload \cup {None}]

\* Installations have different device ids (identity.go, config.go).
ASSUME DistinctIdentities ==
  \A h, g \in Host : \A c \in Configs[h], d \in Configs[g] : h # g => c.id # d.id

VARIABLES
  retained,   \* the broker's retained message of each topic
  link,       \* is the host's MQTT connection open
  pc,         \* where the host's main goroutine is
  cfg,        \* the configuration it was started with
  inflight,   \* retained messages the broker has yet to deliver to a scan
  found,      \* CollectRetained's map, as a set of <<topic, payload>>
  stale,      \* plan.staleTopics still to be cleared
  pending,    \* objects PublishDiscovery has still to publish
  counter,    \* discoveryCounter
  faults      \* faults so far

scan == <<inflight, found, stale>>
vars == <<retained, link, pc, cfg, scan, pending, counter, faults>>

Own(d)        == [origin |-> TRUE, ids |-> {d}]
OwnedBy(m, d) == m # None /\ m.origin /\ d \in m.ids
At(d, o)      == [node |-> d, object |-> o]

\* The desired set of PublishDiscovery.
Desired(c) ==
  {"cpu"} \cup c.disks \cup {"zimaos_version"}
          \cup (IF c.monitor THEN {"zimaos_monitor"} ELSE {})

\* o comes first in publication order.
IsFirst(o, objects) ==
  \E i \in DOMAIN Order : Order[i] = o /\ \A j \in 1..(i - 1) : Order[j] \notin objects

Init ==
  /\ retained \in Initial
  /\ link = [h \in Host |-> FALSE]
  /\ pc = [h \in Host |-> "off"]
  /\ cfg \in [Host -> UNION {Configs[h] : h \in Host}]
  /\ \A h \in Host : cfg[h] \in Configs[h]
  /\ inflight = [h \in Host |-> {}]
  /\ found = [h \in Host |-> {}]
  /\ stale = [h \in Host |-> {}]
  /\ pending = [h \in Host |-> {}]
  /\ counter = [h \in Host |-> 0]
  /\ faults = 0

-----------------------------------------------------------------------------
Goto(h, from, to) == pc[h] = from /\ pc' = [pc EXCEPT ![h] = to]

\* PublishDiscovery goes on to its publications.
Announce(h) ==
  /\ pc' = [pc EXCEPT ![h] = "publish"]
  /\ pending' = [pending EXCEPT ![h] = Desired(cfg[h])]

\* The service starts: the configuration is read and NewClient waits until the
\* broker has accepted the connection.
Start(h) ==
  /\ Goto(h, "off", "subscribe")
  /\ \E c \in Configs[h] : cfg' = [cfg EXCEPT ![h] = c]
  /\ link' = [link EXCEPT ![h] = TRUE]
  /\ counter' = [counter EXCEPT ![h] = 0]
  /\ UNCHANGED <<retained, scan, pending, faults>>

\* Subscribe to homeassistant/+/<id>/+/config: the broker queues what it
\* retains below this device id.
Subscribe(h) ==
  /\ cfg[h].id \in SafeId /\ link[h]
  /\ Goto(h, "subscribe", "scan")
  /\ inflight' = [inflight EXCEPT ![h] =
       {<<t, retained[t]>> : t \in {u \in Topic : u.node = cfg[h].id /\ retained[u] # None}}]
  /\ UNCHANGED <<retained, link, cfg, found, stale, pending, counter, faults>>

\* An unsafe device id, or an error of Subscribe: no cleanup in this run.
SkipCleanup(h) ==
  /\ pc[h] = "subscribe"
  /\ cfg[h].id \notin SafeId \/ ~link[h]
  /\ Announce(h)
  /\ UNCHANGED <<retained, link, cfg, scan, counter, faults>>

\* The message handler stores one retained message.
Receive(h) ==
  /\ pc[h] = "scan" /\ link[h]
  /\ \E m \in inflight[h] :
       /\ inflight' = [inflight EXCEPT ![h] = @ \ {m}]
       /\ found' = [found EXCEPT ![h] = @ \cup {m}]
  /\ UNCHANGED <<retained, link, pc, cfg, stale, pending, counter, faults>>

\* Deviation: the payload is not asked for this device's identifier.
StaleByOrigin(c, messages) ==
  {m[1] : m \in {n \in messages : n[1].object \notin Desired(c) /\ n[2].origin}}

\* Deviation: desired topics are not set apart.
StaleAll(c, messages) ==
  {m[1] : m \in {n \in messages : n[1].node = c.id /\ OwnedBy(n[2], c.id)}}

\* planDiscoveryCleanup. What parses as a discovery topic of another node never
\* reaches it: the filter names the node.
Stale(c, messages) ==
  {m[1] : m \in {n \in messages :
     /\ n[1].node = c.id
     /\ n[1].object \notin Desired(c)
     /\ OwnedBy(n[2], c.id)}}

\* Deviation: the scan does not wait for the messages.
EndScanAtOnce(h) ==
  /\ link[h]
  /\ Goto(h, "scan", "purge")
  /\ stale' = [stale EXCEPT ![h] = Stale(cfg[h], found[h])]
  /\ inflight' = [inflight EXCEPT ![h] = {}]
  /\ found' = [found EXCEPT ![h] = {}]
  /\ UNCHANGED <<retained, link, cfg, pending, counter, faults>>

\* The idle or the total timer fires.  Messages more than 300 ms apart or
\* slower than the total time are missed.
EndScan(h) ==
  /\ link[h]
  /\ Goto(h, "scan", "purge")
  /\ IF inflight[h] = {} THEN UNCHANGED faults
     ELSE faults < MaxFaults /\ faults' = faults + 1
  /\ stale' = [stale EXCEPT ![h] = Stale(cfg[h], found[h])]
  /\ inflight' = [inflight EXCEPT ![h] = {}]
  /\ found' = [found EXCEPT ![h] = {}]
  /\ UNCHANGED <<retained, link, cfg, pending, counter>>

\* Unsubscribe fails: the scan is given up.
ScanFails(h) ==
  /\ pc[h] = "scan" /\ ~link[h]
  /\ Announce(h)
  /\ inflight' = [inflight EXCEPT ![h] = {}]
  /\ found' = [found EXCEPT ![h] = {}]
  /\ UNCHANGED <<retained, link, cfg, stale, counter, faults>>

\* Clear one stale topic; an error is only logged.
Purge(h) ==
  /\ pc[h] = "purge"
  /\ \E t \in stale[h] :
       /\ stale' = [stale EXCEPT ![h] = @ \ {t}]
       /\ retained' = IF link[h] THEN [retained EXCEPT ![t] = None] ELSE retained
  /\ UNCHANGED <<link, pc, cfg, inflight, found, pending, counter, faults>>

PurgeDone(h) ==
  /\ pc[h] = "purge" /\ stale[h] = {}
  /\ Announce(h)
  /\ UNCHANGED <<retained, link, cfg, scan, counter, faults>>

-----------------------------------------------------------------------------
\* Publish one record. Without a connection a QoS 0 publication is dropped
\* without an error, or fails and ends PublishDiscovery.
PublishConfig(h) ==
  /\ pc[h] = "publish"
  /\ \E o \in pending[h] :
       /\ IsFirst(o, pending[h])
       /\ \/ /\ link[h]
             /\ retained' = [retained EXCEPT ![At(cfg[h].id, o)] = Own(cfg[h].id)]
             /\ pending' = [pending EXCEPT ![h] = @ \ {o}]
          \/ /\ ~link[h]
             /\ pending' = [pending EXCEPT ![h] = @ \ {o}] \/ pending' = [pending EXCEPT ![h] = {}]
             /\ UNCHANGED retained
  /\ UNCHANGED <<link, pc, cfg, scan, counter, faults>>

PublishDone(h) ==
  /\ pending[h] = {}
  /\ Goto(h, "publish", "loop")
  /\ UNCHANGED <<retained, link, cfg, scan, pending, counter, faults>>

\* Deviation: the records are only published at start-up.
CollectOnly(h) ==
  /\ pc[h] = "loop"
  /\ counter' = [counter EXCEPT ![h] = (@ + 1) % Every]
  /\ UNCHANGED <<retained, link, pc, cfg, scan, pending, faults>>

\* Deviation: discoveryCounter is not reset.
CollectNoReset(h) ==
  /\ pc[h] = "loop"
  /\ counter' = [counter EXCEPT ![h] = @ + 1]
  /\ IF counter[h] + 1 >= Every THEN Announce(h) ELSE UNCHANGED <<pc, pending>>
  /\ UNCHANGED <<retained, link, cfg, scan, faults>>

\* One collection: the state topics, which are not retained, and with every
\* Every-th one the discovery records.
Collect(h) ==
  /\ pc[h] = "loop"
  /\ IF counter[h] + 1 >= Every
     THEN counter' = [counter EXCEPT ![h] = 0] /\ Announce(h)
     ELSE counter' = [counter EXCEPT ![h] = @ + 1] /\ UNCHANGED <<pc, pending>>
  /\ UNCHANGED <<retained, link, cfg, scan, faults>>

\* SIGTERM at the select, or the process is killed anywhere.
Stop(h) ==
  /\ pc[h] # "off"
  /\ pc' = [pc EXCEPT ![h] = "off"]
  /\ link' = [link EXCEPT ![h] = FALSE]
  /\ inflight' = [inflight EXCEPT ![h] = {}]
  /\ found' = [found EXCEPT ![h] = {}]
  /\ stale' = [stale EXCEPT ![h] = {}]
  /\ pending' = [pending EXCEPT ![h] = {}]
  /\ UNCHANGED <<retained, cfg, counter, faults>>

-----------------------------------------------------------------------------
\* The connection is lost; what the broker had queued is not sent again.
Drop(h) ==
  /\ link[h] /\ faults < MaxFaults
  /\ link' = [link EXCEPT ![h] = FALSE]
  /\ inflight' = [inflight EXCEPT ![h] = {}]
  /\ faults' = faults + 1
  /\ UNCHANGED <<retained, pc, cfg, found, stale, pending, counter>>

\* SetAutoReconnect. The subscription of a scan is not renewed.
Reconnect(h) ==
  /\ pc[h] # "off" /\ ~link[h]
  /\ link' = [link EXCEPT ![h] = TRUE]
  /\ UNCHANGED <<retained, pc, cfg, scan, pending, counter, faults>>

\* The broker restarts without its retained messages.
Wipe ==
  /\ faults < MaxFaults
  /\ retained' = [t \in Topic |-> None]
  /\ link' = [h \in Host |-> FALSE]
  /\ inflight' = [h \in Host |-> {}]
  /\ faults' = faults + 1
  /\ UNCHANGED <<pc, cfg, found, stale, pending, counter>>

Main(h) ==
  \/ Subscribe(h) \/ SkipCleanup(h) \/ EndScan(h) \/ ScanFails(h)
  \/ Purge(h) \/ PurgeDone(h) \/ PublishConfig(h) \/ PublishDone(h) \/ Collect(h)

Next ==
  \/ \E h \in Host : Start(h) \/ Main(h) \/ Receive(h) \/ Stop(h) \/ Drop(h) \/ Reconnect(h)
  \/ Wipe

Spec == Init /\ [][Next]_vars

\* The ticker, the timers of a scan and the reconnection every few seconds
\* always come; a broker that is connected delivers what it queued.
FairSpec ==
  Spec /\ \A h \in Host : WF_vars(Main(h)) /\ WF_vars(Receive(h)) /\ WF_vars(Reconnect(h))

-----------------------------------------------------------------------------
\* Every variable holds a value of its kind.
TypeOK ==
  /\ retained \in [Topic -> Payload \cup {None}]
  /\ link \in [Host -> BOOLEAN]
  /\ pc \in [Host -> {"off", "subscribe", "scan", "purge", "publish", "loop"}]
  /\ cfg \in [Host -> Config]
  /\ inflight \in [Host -> SUBSET (Topic \X Payload)]
  /\ found \in [Host -> SUBSET (Topic \X Payload)]
  /\ stale \in [Host -> SUBSET Topic]
  /\ pending \in [Host -> SUBSET Object]
  /\ counter \in [Host -> 0..(Every - 1)]
  /\ faults \in 0..MaxFaults

\* A record changes only in the hands of a running installation, below its own
\* device id, and only if it is one of its desired topics or carries its own
\* ownership marks; or because the broker forgot everything. Other devices' and
\* other publishers' records survive scans, crashes in the middle of a cleanup
\* and changes of configuration (autodiscovery.go:358-427).
OthersPreserved ==
  [][\A t \in Topic :
       retained'[t] # retained[t] =>
         \/ faults' # faults
         \/ \E h \in Host :
              /\ pc[h] \in {"purge", "publish"} /\ t.node = cfg[h].id
              /\ \/ t.object \in Desired(cfg[h])
                 \/ OwnedBy(retained[t], cfg[h].id)]_vars

\* A start-up never removes the record of an entity that it is about to publish
\* again (comment at autodiscovery.go:246).
DesiredNeverCleared ==
  [][\A h \in Host : \A o \in Desired(cfg[h]) :
       pc[h] # "off" /\ retained[At(cfg[h].id, o)] # None /\ faults' = faults
         => retained'[At(cfg[h].id, o)] # None]_vars

\* After a start-up no fault disturbed, no record of this device is left that the
\* configuration does not ask for, whatever earlier runs and their crashes left
\* behind (README.md:404, "Stale topics from prior deployments are purged on
\* startup").
StaleGone ==
  \A h \in Host :
    faults = 0 /\ cfg[h].id \in SafeId /\ pc[h] \in {"publish", "loop"} =>
      \A o \in Object \ Desired(cfg[h]) : ~OwnedBy(retained[At(cfg[h].id, o)], cfg[h].id)

AllPublished(h) ==
  \A o \in Desired(cfg[h]) : retained[At(cfg[h].id, o)] = Own(cfg[h].id)

\* While a service stays up, the broker ends up holding all its records, through
\* lost publications and forgotten retained messages (main.go:244-251).
EventuallyPublished ==
  \A h \in Host : <>[](pc[h] # "off") => <>[]AllPublished(h)

\* autodiscovery.go:58-60: "existing retained discovery topics from this publisher
\* that are no longer in the current sensor set are cleared, which prevents
\* duplicate entities when disk names or device IDs change between deployments".
OldIdentityGone ==
  \A h \in Host : Host = {h} /\ faults = 0 /\ pc[h] = "loop" =>
    \A t \in Topic : retained[t] # None /\ retained[t].origin =>
      t.node = cfg[h].id /\ t.object \in Desired(cfg[h])

\* README.md:46: "`ZimaOS Operating System Update` is created when
\* `updates.enabled` is `true`".
UpdateEntityFollowsConfig ==
  \A h \in Host : pc[h] = "loop" /\ ~cfg[h].updates =>
    retained[At(cfg[h].id, "zimaos_version")] = None
=============================================================================
