-------------------------- MODULE DiscoveryProofs --------------------------
(***************************************************************************)
(* Proofs about Discovery, for any number of installations, devices,       *)
(* objects, configurations and initial retained messages.                  *)
(***************************************************************************)
EXTENDS Discovery, TLAPS

\* A scan holds records of its own node; since it began such a record can only
\* have disappeared with everything else.
ScanInv ==
  \A h \in Host :
    \A m \in inflight[h] \cup found[h] :
      /\ pc[h] = "scan"
      /\ m[1].node = cfg[h].id
      /\ retained[m[1]] \in {m[2], None}

\* What is about to be cleared is the host's own and not desired.
StaleInv ==
  \A h \in Host :
    \A t \in stale[h] :
      /\ pc[h] = "purge"
      /\ t.node = cfg[h].id
      /\ t.object \notin Desired(cfg[h])
      /\ retained[t] = None \/ OwnedBy(retained[t], cfg[h].id)

\* What is about to be published is desired.
PendingInv ==
  \A h \in Host :
    /\ pending[h] \subseteq Desired(cfg[h])
    /\ pending[h] # {} => pc[h] = "publish"

ConfigInv == \A h \in Host : cfg[h] \in Configs[h]

DiscoveryInv == TypeOK /\ ConfigInv /\ ScanInv /\ StaleInv /\ PendingInv

\* What a host may be configured with, and what it then wants published, is typed.
LEMMA ConfigTyped ==
  ASSUME NEW h \in Host, NEW c \in Configs[h]
  PROVE  c \in Config /\ Desired(c) \subseteq Object
BY DiscoveryAssumption DEF Config, Desired

\* Two installations never work below the same node.
LEMMA NodesDiffer ==
  ASSUME ConfigInv, NEW h \in Host, NEW g \in Host, h # g
  PROVE  cfg[h].id # cfg[g].id
BY DistinctIdentities DEF ConfigInv

\* What planDiscoveryCleanup selects.
LEMMA StaleSelects ==
  ASSUME NEW c \in Config, NEW messages \in SUBSET (Topic \X Payload),
         NEW t \in Stale(c, messages)
  PROVE  /\ t \in Topic /\ t.node = c.id /\ t.object \notin Desired(c)
         /\ \E m \in messages : m[1] = t /\ OwnedBy(m[2], c.id)
BY DEF Stale

\* The invariant holds before any service has started.
LEMMA DiscoveryInit == Init => DiscoveryInv
<1> SUFFICES ASSUME Init PROVE DiscoveryInv OBVIOUS
<1> USE DiscoveryAssumption
<1>1. ConfigInv BY DEF Init, ConfigInv
<1>2. TypeOK BY <1>1, ConfigTyped DEF Init, TypeOK, ConfigInv
<1>3. ScanInv BY DEF Init, ScanInv
<1>4. StaleInv BY DEF Init, StaleInv
<1>5. PendingInv BY DEF Init, PendingInv
<1> QED BY <1>1, <1>2, <1>3, <1>4, <1>5 DEF DiscoveryInv

\* One step of the service h keeps the invariant.
LEMMA DiscoveryHost ==
  ASSUME DiscoveryInv, NEW h \in Host,
         Start(h) \/ Main(h) \/ Receive(h) \/ Stop(h) \/ Drop(h) \/ Reconnect(h)
  PROVE  DiscoveryInv'
<1> USE DiscoveryAssumption, ConfigTyped DEF DiscoveryInv, TypeOK, Goto, Announce, scan
<1>1. CASE Start(h)
  <2>1. TypeOK' BY <1>1 DEF Start, ConfigInv
  <2>2. ConfigInv' BY <1>1 DEF Start, ConfigInv
  <2>3. ScanInv' BY <1>1 DEF Start, ScanInv
  <2>4. StaleInv' BY <1>1 DEF Start, StaleInv
  <2>5. PendingInv' BY <1>1 DEF Start, PendingInv
  <2> QED BY <2>1, <2>2, <2>3, <2>4, <2>5
<1>2. CASE Subscribe(h)
  <2>1. TypeOK' BY <1>2 DEF Subscribe, ConfigInv
  <2>2. ConfigInv' BY <1>2 DEF Subscribe, ConfigInv
  <2>3. ScanInv' BY <1>2 DEF Subscribe, ScanInv
  <2>4. StaleInv' BY <1>2 DEF Subscribe, StaleInv
  <2>5. PendingInv' BY <1>2 DEF Subscribe, PendingInv
  <2> QED BY <2>1, <2>2, <2>3, <2>4, <2>5
<1>3. CASE SkipCleanup(h)
  <2>1. TypeOK' BY <1>3 DEF SkipCleanup, ConfigInv
  <2>2. ConfigInv' BY <1>3 DEF SkipCleanup, ConfigInv
  <2>3. ScanInv' BY <1>3 DEF SkipCleanup, ScanInv
  <2>4. StaleInv' BY <1>3 DEF SkipCleanup, StaleInv
  <2>5. PendingInv' BY <1>3 DEF SkipCleanup, PendingInv
  <2> QED BY <2>1, <2>2, <2>3, <2>4, <2>5
<1>4. CASE Receive(h)
  <2>1. TypeOK' BY <1>4 DEF Receive, ConfigInv
  <2>2. ConfigInv' BY <1>4 DEF Receive, ConfigInv
  <2>3. ScanInv' BY <1>4 DEF Receive, ScanInv
  <2>4. StaleInv' BY <1>4 DEF Receive, StaleInv
  <2>5. PendingInv' BY <1>4 DEF Receive, PendingInv
  <2> QED BY <2>1, <2>2, <2>3, <2>4, <2>5
<1>5. CASE EndScan(h)
  <2>1. stale[h]' = Stale(cfg[h], found[h])
    BY <1>5 DEF EndScan
  <2>2. \A t \in stale[h]' :
          /\ t \in Topic /\ t.node = cfg[h].id /\ t.object \notin Desired(cfg[h])
          /\ \E m \in found[h] : m[1] = t /\ OwnedBy(m[2], cfg[h].id)
    BY <2>1, StaleSelects
  <2>3. TypeOK' BY <1>5, <2>2 DEF EndScan
  <2>4. ConfigInv' BY <1>5 DEF EndScan, ConfigInv
  <2>5. ScanInv' BY <1>5 DEF EndScan, ScanInv
  <2>6. StaleInv'
    <3>1. \A t \in stale[h]' : retained[t] = None \/ OwnedBy(retained[t], cfg[h].id)
      BY <2>2 DEF ScanInv
    <3> QED BY <1>5, <2>2, <3>1 DEF EndScan, StaleInv
  <2>7. PendingInv' BY <1>5 DEF EndScan, PendingInv
  <2> QED BY <2>3, <2>4, <2>5, <2>6, <2>7
<1>6. CASE ScanFails(h)
  <2>1. TypeOK' BY <1>6 DEF ScanFails, ConfigInv
  <2>2. ConfigInv' BY <1>6 DEF ScanFails, ConfigInv
  <2>3. ScanInv' BY <1>6 DEF ScanFails, ScanInv
  <2>4. StaleInv' BY <1>6 DEF ScanFails, StaleInv
  <2>5. PendingInv' BY <1>6 DEF ScanFails, PendingInv
  <2> QED BY <2>1, <2>2, <2>3, <2>4, <2>5
<1>7. CASE Purge(h)
  <2>1. TypeOK' BY <1>7 DEF Purge, ConfigInv
  <2>2. ConfigInv' BY <1>7 DEF Purge, ConfigInv
  <2>3. ScanInv' BY <1>7 DEF Purge, ScanInv
  <2>4. StaleInv' BY <1>7 DEF Purge, StaleInv
  <2>5. PendingInv' BY <1>7 DEF Purge, PendingInv
  <2> QED BY <2>1, <2>2, <2>3, <2>4, <2>5
<1>8. CASE PurgeDone(h)
  <2>1. TypeOK' BY <1>8 DEF PurgeDone, ConfigInv
  <2>2. ConfigInv' BY <1>8 DEF PurgeDone, ConfigInv
  <2>3. ScanInv' BY <1>8 DEF PurgeDone, ScanInv
  <2>4. StaleInv' BY <1>8 DEF PurgeDone, StaleInv
  <2>5. PendingInv' BY <1>8 DEF PurgeDone, PendingInv
  <2> QED BY <2>1, <2>2, <2>3, <2>4, <2>5
<1>9. CASE PublishConfig(h)
  <2>1. PICK o \in pending[h] :
          /\ \/ retained' = [retained EXCEPT ![At(cfg[h].id, o)] = Own(cfg[h].id)]
             \/ retained' = retained
          /\ pending' \in {[pending EXCEPT ![h] = @ \ {o}], [pending EXCEPT ![h] = {}]}
    BY <1>9 DEF PublishConfig
  <2>2. UNCHANGED <<link, pc, cfg, inflight, found, stale, counter, faults>> /\ pc[h] = "publish"
    BY <1>9 DEF PublishConfig
  <2>3. Own(cfg[h].id) \in Payload BY DEF Own, Payload, ConfigInv, Config
  <2>4. \A t \in Topic : t.node # cfg[h].id => retained'[t] = retained[t]
    BY <2>1 DEF At
  <2>5. TypeOK' BY <2>1, <2>2, <2>3
  <2>6. ConfigInv' BY <2>2 DEF ConfigInv
  <2>7. ScanInv'
    <3>1. ASSUME NEW g \in Host, NEW m \in inflight[g] \cup found[g]
          PROVE  pc[g] = "scan" /\ m[1].node = cfg[g].id /\ retained'[m[1]] \in {m[2], None}
      <4>1. /\ pc[g] = "scan" /\ m[1].node = cfg[g].id /\ m[1] \in Topic
            /\ retained[m[1]] \in {m[2], None}
        BY DEF ScanInv
      <4>2. g # h BY <2>2, <4>1
      <4> QED BY <2>4, <4>1, <4>2, NodesDiffer
    <3> QED BY <2>2, <3>1 DEF ScanInv
  <2>8. StaleInv'
    <3>1. ASSUME NEW g \in Host, NEW t \in stale[g]
          PROVE  retained'[t] = retained[t]
      <4>1. pc[g] = "purge" /\ t.node = cfg[g].id /\ t \in Topic BY DEF StaleInv
      <4>2. g # h BY <2>2, <4>1
      <4> QED BY <2>4, <4>1, <4>2, NodesDiffer
    <3> QED BY <2>2, <3>1 DEF StaleInv
  <2>9. PendingInv' BY <2>1, <2>2 DEF PendingInv
  <2> QED BY <2>5, <2>6, <2>7, <2>8, <2>9
<1>10. CASE PublishDone(h)
  <2>1. TypeOK' BY <1>10 DEF PublishDone, ConfigInv
  <2>2. ConfigInv' BY <1>10 DEF PublishDone, ConfigInv
  <2>3. ScanInv' BY <1>10 DEF PublishDone, ScanInv
  <2>4. StaleInv' BY <1>10 DEF PublishDone, StaleInv
  <2>5. PendingInv' BY <1>10 DEF PublishDone, PendingInv
  <2> QED BY <2>1, <2>2, <2>3, <2>4, <2>5
<1>11. CASE Collect(h)
  <2>1. TypeOK' BY <1>11 DEF Collect, ConfigInv
  <2>2. ConfigInv' BY <1>11 DEF Collect, ConfigInv
  <2>3. ScanInv' BY <1>11 DEF Collect, ScanInv
  <2>4. StaleInv' BY <1>11 DEF Collect, StaleInv
  <2>5. PendingInv' BY <1>11 DEF Collect, PendingInv
  <2> QED BY <2>1, <2>2, <2>3, <2>4, <2>5
<1>12. CASE Stop(h)
  <2>1. TypeOK' BY <1>12 DEF Stop, ConfigInv
  <2>2. ConfigInv' BY <1>12 DEF Stop, ConfigInv
  <2>3. ScanInv' BY <1>12 DEF Stop, ScanInv
  <2>4. StaleInv' BY <1>12 DEF Stop, StaleInv
  <2>5. PendingInv' BY <1>12 DEF Stop, PendingInv
  <2> QED BY <2>1, <2>2, <2>3, <2>4, <2>5
<1>13. CASE Drop(h)
  <2>1. TypeOK' BY <1>13 DEF Drop, ConfigInv
  <2>2. ConfigInv' BY <1>13 DEF Drop, ConfigInv
  <2>3. ScanInv' BY <1>13 DEF Drop, ScanInv
  <2>4. StaleInv' BY <1>13 DEF Drop, StaleInv
  <2>5. PendingInv' BY <1>13 DEF Drop, PendingInv
  <2> QED BY <2>1, <2>2, <2>3, <2>4, <2>5
<1>14. CASE Reconnect(h)
  <2>1. TypeOK' BY <1>14 DEF Reconnect, ConfigInv
  <2>2. ConfigInv' BY <1>14 DEF Reconnect, ConfigInv
  <2>3. ScanInv' BY <1>14 DEF Reconnect, ScanInv
  <2>4. StaleInv' BY <1>14 DEF Reconnect, StaleInv
  <2>5. PendingInv' BY <1>14 DEF Reconnect, PendingInv
  <2> QED BY <2>1, <2>2, <2>3, <2>4, <2>5
<1> QED BY <1>1, <1>2, <1>3, <1>4, <1>5, <1>6, <1>7, <1>8, <1>9, <1>10, <1>11, <1>12, <1>13, <1>14 DEF Main

\* Every step of the system keeps the invariant.
LEMMA DiscoveryStep == DiscoveryInv /\ [Next]_vars => DiscoveryInv'
<1> SUFFICES ASSUME DiscoveryInv, [Next]_vars PROVE DiscoveryInv' OBVIOUS
<1>1. CASE \E h \in Host :
             Start(h) \/ Main(h) \/ Receive(h) \/ Stop(h) \/ Drop(h) \/ Reconnect(h)
  BY <1>1, DiscoveryHost
<1>2. CASE Wipe
  BY <1>2, DiscoveryAssumption
     DEF Wipe, DiscoveryInv, TypeOK, ConfigInv, ScanInv, StaleInv, PendingInv
<1>3. CASE UNCHANGED vars
  BY <1>3 DEF vars, scan, DiscoveryInv, TypeOK, ConfigInv, ScanInv, StaleInv, PendingInv
<1> QED BY <1>1, <1>2, <1>3 DEF Next

\* The invariant holds in every reachable state.
LEMMA DiscoveryAlways == Spec => []DiscoveryInv
BY DiscoveryInit, DiscoveryStep, PTL DEF Spec

-----------------------------------------------------------------------------
\* Only these steps touch a retained message.
LEMMA RetainedChanges ==
  ASSUME DiscoveryInv, [Next]_vars, retained' # retained
  PROVE  \/ faults' # faults
         \/ \E h \in Host : Purge(h) \/ PublishConfig(h)
<1>1. CASE Wipe
  BY <1>1 DEF Wipe, DiscoveryInv, TypeOK
<1>2. ASSUME NEW h \in Host,
             Start(h) \/ Main(h) \/ Receive(h) \/ Stop(h) \/ Drop(h) \/ Reconnect(h)
      PROVE  Purge(h) \/ PublishConfig(h)
  BY <1>2 DEF Start, Main, Subscribe, SkipCleanup, EndScan, ScanFails, PurgeDone,
              PublishDone, Collect, Receive, Stop, Drop, Reconnect
<1> QED BY <1>1, <1>2 DEF Next, vars

\* What Purge and PublishConfig do to one topic.
LEMMA PurgeChanges ==
  ASSUME DiscoveryInv, NEW h \in Host, Purge(h), NEW t \in Topic, retained'[t] # retained[t]
  PROVE  t \in stale[h]
BY DEF Purge, DiscoveryInv, TypeOK

\* A publication touches a desired topic of its own device only.
LEMMA PublishChanges ==
  ASSUME DiscoveryInv, NEW h \in Host, PublishConfig(h), NEW t \in Topic,
         retained'[t] # retained[t]
  PROVE  t.node = cfg[h].id /\ t.object \in Desired(cfg[h]) /\ retained'[t] # None
<1>1. PICK o \in pending[h] : retained' = [retained EXCEPT ![At(cfg[h].id, o)] = Own(cfg[h].id)]
  BY DEF PublishConfig
<1>2. t = At(cfg[h].id, o) BY <1>1 DEF DiscoveryInv, TypeOK
<1>3. Own(cfg[h].id) # None
  <2>1. Own(cfg[h].id) \in Payload BY DEF Own, Payload, DiscoveryInv, TypeOK, Config
  <2> QED BY <2>1, DiscoveryAssumption
<1> QED BY <1>1, <1>2, <1>3 DEF At, DiscoveryInv, TypeOK, PendingInv

\* Every variable keeps its type.
THEOREM DiscoveryTypeCorrect == Spec => []TypeOK
BY DiscoveryAlways, PTL DEF DiscoveryInv

\* No scan, cleanup, publication, crash or restart of one installation changes a
\* record of another device or of another publisher.
THEOREM OthersArePreserved == Spec => OthersPreserved
<1>1. ASSUME DiscoveryInv, [Next]_vars, NEW t \in Topic, retained'[t] # retained[t]
      PROVE  \/ faults' # faults
             \/ \E h \in Host :
                  /\ pc[h] \in {"purge", "publish"} /\ t.node = cfg[h].id
                  /\ \/ t.object \in Desired(cfg[h])
                     \/ OwnedBy(retained[t], cfg[h].id)
  <2>1. ASSUME NEW h \in Host, Purge(h)
        PROVE  /\ pc[h] = "purge" /\ t.node = cfg[h].id
               /\ OwnedBy(retained[t], cfg[h].id)
    <3>1. t \in stale[h] BY <1>1, <2>1, PurgeChanges
    <3>2. retained'[t] = None
      BY <1>1, <2>1 DEF Purge, DiscoveryInv, TypeOK
    <3> QED BY <1>1, <3>1, <3>2 DEF DiscoveryInv, StaleInv
  <2>2. ASSUME NEW h \in Host, PublishConfig(h)
        PROVE  /\ pc[h] = "publish" /\ t.node = cfg[h].id
               /\ t.object \in Desired(cfg[h])
    BY <1>1, <2>2, PublishChanges DEF PublishConfig
  <2> QED BY <1>1, <2>1, <2>2, RetainedChanges
<1>2. DiscoveryInv /\ [Next]_vars =>
        [\A t \in Topic :
           retained'[t] # retained[t] =>
             \/ faults' # faults
             \/ \E h \in Host :
                  /\ pc[h] \in {"purge", "publish"} /\ t.node = cfg[h].id
                  /\ \/ t.object \in Desired(cfg[h])
                     \/ OwnedBy(retained[t], cfg[h].id)]_vars
  BY <1>1
<1> QED BY <1>2, DiscoveryAlways, PTL DEF Spec, OthersPreserved

\* A running installation never loses one of its desired records to a cleanup,
\* its own or another's.
THEOREM DesiredIsNeverCleared == Spec => DesiredNeverCleared
<1>1. ASSUME DiscoveryInv, [Next]_vars, NEW h \in Host, NEW o \in Desired(cfg[h]),
             pc[h] # "off", retained[At(cfg[h].id, o)] # None, faults' = faults
      PROVE  retained'[At(cfg[h].id, o)] # None
  <2> DEFINE t == At(cfg[h].id, o)
  <2>1. /\ t \in Topic /\ t.node = cfg[h].id /\ t.object = o
        /\ cfg[h] \in Configs[h]
    BY <1>1, ConfigTyped DEF At, Topic, DiscoveryInv, ConfigInv, Config
  <2>2. ASSUME NEW g \in Host, Purge(g) PROVE t \notin stale[g]
    <3> SUFFICES ASSUME t \in stale[g] PROVE FALSE OBVIOUS
    <3>1. t.node = cfg[g].id /\ o \notin Desired(cfg[g])
      BY <1>1, <2>1 DEF DiscoveryInv, StaleInv
    <3> QED BY <1>1, <2>1, <3>1, NodesDiffer DEF DiscoveryInv
  <2> QED BY <1>1, <2>1, <2>2, RetainedChanges, PurgeChanges, PublishChanges
<1>2. DiscoveryInv /\ [Next]_vars =>
        [\A h \in Host : \A o \in Desired(cfg[h]) :
           pc[h] # "off" /\ retained[At(cfg[h].id, o)] # None /\ faults' = faults
             => retained'[At(cfg[h].id, o)] # None]_vars
  BY <1>1
<1> QED BY <1>2, DiscoveryAlways, PTL DEF Spec, DesiredNeverCleared

-----------------------------------------------------------------------------
\* A leftover of host h: its own record of an object it does not ask for.
Leftover(h, t) ==
  /\ t.node = cfg[h].id /\ t.object \notin Desired(cfg[h])
  /\ OwnedBy(retained[t], cfg[h].id)

\* As long as nothing was lost, a leftover is either still to be delivered,
\* found, or about to be cleared; none survives the cleanup.
CleanInv ==
  faults = 0 =>
    \A h \in Host :
      /\ pc[h] # "off" => link[h]
      /\ cfg[h].id \in SafeId =>
           \A t \in Topic :
             Leftover(h, t) =>
               /\ pc[h] \notin {"publish", "loop"}
               /\ pc[h] = "scan" => <<t, retained[t]>> \in inflight[h] \cup found[h]
               /\ pc[h] = "purge" => t \in stale[h]

\* A host that did not move keeps what it knows about its leftovers.
LEMMA CleanHost ==
  ASSUME DiscoveryInv, CleanInv, faults' = 0, faults = 0, NEW h \in Host,
         Start(h) \/ Main(h) \/ Receive(h) \/ Stop(h) \/ Drop(h) \/ Reconnect(h)
  PROVE  CleanInv'
<1> USE DEF DiscoveryInv, TypeOK, Goto, Announce, scan
<1>1. ASSUME NEW g \in Host, NEW t \in Topic, Leftover(g, t)', cfg'[g] = cfg[g]
      PROVE  Leftover(g, t) /\ retained'[t] = retained[t]
  <2>1. CASE retained'[t] = retained[t] BY <1>1, <2>1 DEF Leftover
  <2>2. CASE retained'[t] # retained[t]
    <3>1. retained'[t] # None /\ t.object \notin Desired(cfg[g]) /\ t.node = cfg[g].id
      BY <1>1 DEF Leftover, OwnedBy
    <3>2. \A k \in Host : ~PublishConfig(k)
      <4> SUFFICES ASSUME NEW k \in Host, PublishConfig(k) PROVE FALSE OBVIOUS
      <4>1. t.node = cfg[k].id /\ t.object \in Desired(cfg[k]) BY <2>2, PublishChanges
      <4> QED BY <3>1, <4>1, NodesDiffer
    <3>3. \A k \in Host : ~Purge(k)
      BY <2>2, <3>1 DEF Purge
    <3> QED BY <2>2, <3>2, <3>3, RetainedChanges DEF Next
  <2> QED BY <2>1, <2>2
<1>2. CASE Start(h)
  BY <1>1, <1>2 DEF Start, CleanInv, ConfigInv
<1>3. CASE Subscribe(h)
  <2>1. \A t \in Topic : Leftover(h, t) => <<t, retained[t]>> \in inflight'[h]
    BY <1>3 DEF Subscribe, Leftover, OwnedBy
  <2> QED BY <1>1, <1>3, <2>1 DEF Subscribe, CleanInv
<1>4. CASE SkipCleanup(h)
  BY <1>1, <1>4 DEF SkipCleanup, CleanInv
<1>5. CASE Receive(h)
  BY <1>1, <1>5 DEF Receive, CleanInv
<1>6. CASE EndScan(h)
  <2>1. inflight[h] = {} /\ stale'[h] = Stale(cfg[h], found[h]) /\ pc[h] = "scan"
    BY <1>6 DEF EndScan
  <2>2. ASSUME NEW t \in Topic, Leftover(h, t), cfg[h].id \in SafeId
        PROVE  t \in Stale(cfg[h], found[h])
    <3>1. <<t, retained[t]>> \in found[h] BY <2>1, <2>2 DEF CleanInv
    <3> QED BY <2>2, <3>1 DEF Stale, Leftover
  <2> QED BY <1>1, <1>6, <2>1, <2>2 DEF EndScan, CleanInv
<1>7. CASE ScanFails(h)
  BY <1>1, <1>7 DEF ScanFails, CleanInv
<1>8. CASE Purge(h)
  <2>1. PICK u \in stale[h] :
          /\ stale' = [stale EXCEPT ![h] = @ \ {u}]
          /\ link[h] => retained' = [retained EXCEPT ![u] = None]
    BY <1>8 DEF Purge
  <2>2. UNCHANGED <<link, pc, cfg, inflight, found>> /\ pc[h] = "purge" /\ link[h]
    BY <1>8 DEF Purge, CleanInv
  <2>3. ASSUME NEW g \in Host, NEW t \in Topic, Leftover(g, t)', cfg[g].id \in SafeId
        PROVE  /\ pc[g] \notin {"publish", "loop"}
               /\ pc[g] = "scan" => <<t, retained'[t]>> \in inflight[g] \cup found[g]
               /\ pc[g] = "purge" => t \in stale'[g]
    <3>1. Leftover(g, t) /\ retained'[t] = retained[t] BY <1>1, <2>2, <2>3
    <3>2. t # u
      BY <2>1, <2>2, <3>1 DEF Leftover, OwnedBy
    <3> QED BY <2>1, <2>2, <2>3, <3>1, <3>2 DEF CleanInv
  <2> QED BY <2>2, <2>3 DEF CleanInv
<1>9. CASE PurgeDone(h)
  BY <1>1, <1>9 DEF PurgeDone, CleanInv
<1>10. CASE PublishConfig(h)
  BY <1>1, <1>10 DEF PublishConfig, CleanInv
<1>11. CASE PublishDone(h)
  BY <1>1, <1>11 DEF PublishDone, CleanInv
<1>12. CASE Collect(h)
  BY <1>1, <1>12 DEF Collect, CleanInv
<1>13. CASE Stop(h)
  BY <1>1, <1>13 DEF Stop, CleanInv
<1>14. CASE Drop(h)
  BY <1>1, <1>14 DEF Drop, CleanInv
<1>15. CASE Reconnect(h)
  BY <1>1, <1>15 DEF Reconnect, CleanInv
<1> QED BY <1>2, <1>3, <1>4, <1>5, <1>6, <1>7, <1>8, <1>9, <1>10, <1>11, <1>12, <1>13, <1>14, <1>15 DEF Main

\* Every step keeps what the hosts know about their leftovers.
LEMMA CleanStep == DiscoveryInv /\ CleanInv /\ [Next]_vars => CleanInv'
<1> SUFFICES ASSUME DiscoveryInv, CleanInv, [Next]_vars, faults' = 0 PROVE CleanInv'
  BY DEF CleanInv
<1>1. faults = 0
  BY DEF Next, Start, Main, Subscribe, SkipCleanup, EndScan, ScanFails, Purge, PurgeDone,
         PublishConfig, PublishDone, Collect, Receive, Stop, Drop, Reconnect, Wipe, vars,
         DiscoveryInv, TypeOK
<1>2. CASE \E h \in Host :
             Start(h) \/ Main(h) \/ Receive(h) \/ Stop(h) \/ Drop(h) \/ Reconnect(h)
  BY <1>1, <1>2, CleanHost
<1>3. CASE Wipe
  BY <1>1, <1>3 DEF Wipe
<1>4. CASE UNCHANGED vars
  BY <1>4 DEF vars, scan, CleanInv, Leftover
<1> QED BY <1>2, <1>3, <1>4 DEF Next

\* A start-up that nothing disturbed leaves no stale record of its own device,
\* whatever earlier configurations, crashes and half-done cleanups left.
THEOREM StaleIsGone == Spec => []StaleGone
<1>1. Init => CleanInv
  BY DEF Init, CleanInv
<1>2. DiscoveryInv /\ CleanInv => StaleGone
  <2> SUFFICES ASSUME DiscoveryInv, CleanInv, NEW h \in Host, faults = 0,
                      cfg[h].id \in SafeId, pc[h] \in {"publish", "loop"},
                      NEW o \in Object \ Desired(cfg[h]),
                      OwnedBy(retained[At(cfg[h].id, o)], cfg[h].id)
               PROVE  FALSE
    BY DEF StaleGone
  <2>1. At(cfg[h].id, o) \in Topic
    BY DEF At, Topic, DiscoveryInv, TypeOK, Config
  <2>2. Leftover(h, At(cfg[h].id, o)) BY DEF Leftover, At
  <2> QED BY <2>1, <2>2 DEF CleanInv
<1> QED BY <1>1, <1>2, CleanStep, DiscoveryAlways, PTL DEF Spec
=============================================================================
