------------------------------ MODULE Service ------------------------------
(***************************************************************************)
(* The service process: start-up, the collection loop, signals and the end *)
(* of main.go, together with its checkers, its power meter, its identity   *)
(* and the systemd unit that starts it again.                              *)
(***************************************************************************)
EXTENDS Identity, Meter, Pollers, FiniteSets

CONSTANTS
  Disk,          \* disk names
  Underscored,   \* names with spaces replaced by "_", [Disk -> Disk]
  Hosts,         \* configurations with the contents of the machine-id files, [conf, files]
  Every,         \* collections between two publications of discovery (10)
  MaxCrashes     \* bound: deaths by a crash or SIGKILL

Conf == [client : Field, device : Field, disks : SUBSET Disk, checkers : SUBSET Checker,
         interval : {"positive", "negative"}, rapl : BOOLEAN]

ASSUME ServiceAssumption ==
  /\ Underscored \in [Disk -> Disk]
  /\ Hosts \subseteq [conf : Conf, files : Files]
  /\ Checker = {"upstream", "monitor"}
  /\ Every \in Nat \ {0} /\ MaxCrashes \in Nat

VARIABLES
  pc,         \* where the main goroutine is, "off" without a process
  conf,       \* config.yaml and the host's hardware
  files,      \* the machine-id files
  ident,      \* the effective ids
  broker,     \* does the broker accept connections
  notified,   \* has signal.Notify been called
  sig,        \* sigCh
  tick,       \* ticker.C
  counter,    \* discoveryCounter
  read,       \* the words a collection has read, [Checker -> version and page]
  shown,      \* the last published update states
  announced,  \* disk keys in the templates of the discovery records
  disks,      \* disk keys in the last published state
  exit,       \* how the last process ended
  crashes     \* crashes so far

world == <<conf, files, broker, crashes>>
loop  == <<notified, sig, tick, counter, exit>>
out   == <<shown, announced, disks>>
vars  == <<pc, world, ident, loop, read, out, pollers, meter>>

NoIdent == [client |-> NoId, device |-> NoId]
Nothing == [k \in Checker |-> Blank]

Init ==
  /\ pc = "off" /\ exit = "stopped" /\ crashes = 0
  /\ \E h \in Hosts : conf = h.conf /\ files = h.files
  /\ broker \in BOOLEAN
  /\ ident = NoIdent
  /\ notified = FALSE /\ sig = FALSE /\ tick = FALSE /\ counter = 0
  /\ read = Nothing /\ shown = Nothing /\ announced = {} /\ disks = {}
  /\ PollersInit /\ MeterInit

Goto(from, to) == pc = from /\ pc' = to

-----------------------------------------------------------------------------
\* config.Load, the checkers' goroutines and the collector; log.Fatalf when an
\* identity is missing.
Boot ==
  /\ pc = "off"
  /\ IF Loads(conf.client, conf.device, files)
     THEN /\ pc' = "connect" /\ exit' = "none"
          /\ ident' = [client |-> Effective("client", conf.client, files),
                       device |-> Effective("device", conf.device, files)]
          /\ StartPollers(conf.checkers)
          /\ IF conf.rapl THEN NewCPUCollector ELSE UNCHANGED meter
     ELSE /\ pc' = "off" /\ exit' = "failure"
          /\ UNCHANGED <<ident, pollers, meter>>
  /\ counter' = 0 /\ read' = Nothing /\ shown' = Nothing
  /\ UNCHANGED <<world, notified, sig, tick, announced, disks>>

\* NewClient: with ConnectRetry token.Wait lasts until a broker accepts.
Connect ==
  /\ broker
  /\ Goto("connect", "discover")
  /\ UNCHANGED <<world, ident, loop, read, out, pollers, meter>>

\* PublishDiscovery, which may fail before it comes to the disks.
Discover(from, to) ==
  /\ Goto(from, to)
  /\ announced' \in {announced, {Underscored[d] : d \in conf.disks}}
  /\ UNCHANGED <<world, ident, loop, read, shown, disks, pollers, meter>>

-----------------------------------------------------------------------------
\* collect: the power first, then the words of the upstream checker.
CollectPower ==
  /\ Goto("sample", IF "upstream" \in conf.checkers THEN "rlock" ELSE "state")
  /\ Sample
  /\ UNCHANGED <<world, ident, loop, read, out, pollers>>

\* Latest of checker k: RLock, the two words, RUnlock.
ReadLock(k, from, to) ==
  /\ Goto(from, to) /\ RLock(k)
  /\ UNCHANGED <<world, ident, loop, read, out, meter>>

ReadWord(k, word, from, to) ==
  /\ Goto(from, to)
  /\ read' = [read EXCEPT ![k][word] = latest[k][word]]
  /\ UNCHANGED <<world, ident, loop, out, pollers, meter>>

ReadUnlock(k, from, to) ==
  /\ Goto(from, to) /\ RUnlock(k)
  /\ UNCHANGED <<world, ident, loop, read, out, meter>>

\* The state topic; a disk whose usage cannot be read is left out.
PublishState ==
  /\ Goto("state", "update")
  /\ disks' \in {disks} \cup SUBSET conf.disks
  /\ sample' = NoSample
  /\ UNCHANGED <<world, ident, loop, read, shown, announced, pollers, energy, lastEnergy, age, since>>

\* An update topic; the publication may be lost.
PublishUpdate(k, from, to) ==
  /\ Goto(from, to)
  /\ shown' \in {shown, [shown EXCEPT ![k] = read[k]]}
  /\ read' = [read EXCEPT ![k] = Blank]
  /\ UNCHANGED <<world, ident, loop, announced, disks, pollers, meter>>

EndOfCollect == IF notified THEN "select" ELSE "ticker"

\* Deviation: the counter is not reset.
CountOn ==
  /\ Goto("count", IF counter + 1 >= Every THEN "rediscover" ELSE EndOfCollect)
  /\ counter' = counter + 1
  /\ UNCHANGED <<world, ident, notified, sig, tick, exit, read, out, pollers, meter>>

\* Every tenth collection announces again.
Count ==
  /\ Goto("count", IF counter + 1 >= Every THEN "rediscover" ELSE EndOfCollect)
  /\ counter' = IF counter + 1 >= Every THEN 0 ELSE counter + 1
  /\ UNCHANGED <<world, ident, notified, sig, tick, exit, read, out, pollers, meter>>

Acquire == ReadLock("upstream", "rlock", "version") \/ ReadLock("monitor", "mrlock", "mversion")

Collect ==
  \/ CollectPower
  \/ Acquire
  \/ ReadWord("upstream", "version", "version", "page")
  \/ ReadWord("upstream", "page", "page", "runlock")
  \/ ReadUnlock("upstream", "runlock", "state")
  \/ PublishState
  \/ PublishUpdate("upstream", "update", IF "monitor" \in conf.checkers THEN "mrlock" ELSE "count")
  \/ ReadWord("monitor", "version", "mversion", "mpage")
  \/ ReadWord("monitor", "page", "mpage", "mrunlock")
  \/ ReadUnlock("monitor", "mrunlock", "mupdate")
  \/ PublishUpdate("monitor", "mupdate", "count")
  \/ Count
  \/ Discover("rediscover", EndOfCollect)

-----------------------------------------------------------------------------
\* The process ends; systemd sees whether it failed.
End(how) ==
  /\ pc' = "off" /\ exit' = how
  /\ ident' = NoIdent
  /\ notified' = FALSE /\ sig' = FALSE /\ tick' = FALSE /\ counter' = 0
  /\ read' = Nothing /\ shown' = Nothing
  /\ StopPollers
  /\ age' = Never /\ lastEnergy' = 0 /\ since' = Fresh /\ sample' = NoSample
  /\ UNCHANGED <<conf, files, broker, announced, disks, energy>>

\* time.NewTicker, which panics unless the interval is positive.
NewTicker ==
  \/ /\ conf.interval = "positive"
     /\ Goto("ticker", "notify")
     /\ UNCHANGED <<world, ident, loop, read, out, pollers, meter>>
  \/ /\ conf.interval = "negative" /\ pc = "ticker"
     /\ End("failure")
     /\ UNCHANGED crashes

Notify ==
  /\ Goto("notify", "select")
  /\ notified' = TRUE
  /\ UNCHANGED <<world, ident, sig, tick, counter, exit, read, out, pollers, meter>>

TakeTick ==
  /\ tick
  /\ Goto("select", "sample")
  /\ tick' = FALSE
  /\ UNCHANGED <<world, ident, notified, sig, counter, exit, read, out, pollers, meter>>

\* Deviation: a tick that waits goes first.
TakeSignalIdle ==
  /\ sig /\ ~tick
  /\ Goto("select", "disconnect")
  /\ UNCHANGED <<world, ident, loop, read, out, pollers, meter>>

TakeSignal ==
  /\ sig
  /\ Goto("select", "disconnect")
  /\ UNCHANGED <<world, ident, loop, read, out, pollers, meter>>

\* The deferred Disconnect, and main returns.
Disconnect == pc = "disconnect" /\ End("stopped") /\ UNCHANGED crashes

Main ==
  \/ Connect \/ Discover("discover", "sample") \/ Collect \/ NewTicker \/ Notify \/ TakeTick
  \/ Disconnect

-----------------------------------------------------------------------------
\* SIGTERM: before signal.Notify it ends the process, which systemd takes for a
\* clean end; afterwards it waits in sigCh.
Signal ==
  /\ pc # "off"
  /\ IF notified
     THEN sig' = TRUE /\ UNCHANGED <<pc, world, ident, notified, tick, counter, exit, read, out, pollers, meter>>
     ELSE End("stopped") /\ UNCHANGED crashes

Crash ==
  /\ pc # "off" /\ crashes < MaxCrashes
  /\ crashes' = crashes + 1
  /\ End("failure")

Ticks ==
  /\ pc # "off" /\ (notified \/ pc = "notify")
  /\ tick' = TRUE
  /\ UNCHANGED <<pc, world, ident, notified, sig, counter, exit, read, out, pollers, meter>>

\* Restart=on-failure after RestartSec.
AutoRestart == exit = "failure" /\ Boot

AdminStart == exit # "failure" /\ Boot

\* Only an attempt to connect asks for the broker.
BrokerChanges ==
  /\ pc \in {"off", "connect"}
  /\ broker' = ~broker
  /\ UNCHANGED <<pc, conf, files, crashes, ident, loop, read, out, pollers, meter>>

\* The machine id is repaired.
RepairFiles ==
  /\ ~Resolvable(files)
  /\ files' \in {[etc |-> m, dbus |-> files.dbus] : m \in MachineId}
  /\ UNCHANGED <<pc, conf, broker, crashes, ident, loop, read, out, pollers, meter>>

\* Energy is used and time passes between two samples.
PowerUsed ==
  /\ conf.rapl /\ pc \in {"connect", "select"}
  /\ \E t \in 1..MaxTime, e \in 0..MaxEnergy : Passes(t, e)
  /\ UNCHANGED <<pc, world, ident, loop, read, out, pollers>>

PollStep == (\E k \in Checker : Poll(k)) /\ UNCHANGED <<pc, world, ident, loop, read, out, meter>>
Releases == (\E k \in Checker : Release(k)) /\ UNCHANGED <<pc, world, ident, loop, read, out, meter>>

Next ==
  \/ AutoRestart \/ AdminStart \/ Main \/ TakeSignal
  \/ PollStep \/ Releases
  \/ Signal \/ Crash \/ Ticks \/ BrokerChanges \/ RepairFiles \/ PowerUsed

Spec == Init /\ [][Next]_vars

\* systemd restarts a failed unit, the ticker ticks, the goroutines run, a token
\* and a request are completed some time, an RWMutex lets every reader in, and the
\* select takes a case that is ready again and again.
FairSpec ==
  /\ Spec
  /\ WF_vars(AutoRestart) /\ WF_vars(Main) /\ WF_vars(Ticks)
  /\ \A k \in Checker : WF_vars(Poll(k) /\ UNCHANGED <<pc, world, ident, loop, read, out, meter>>)
  /\ SF_vars(Acquire) /\ SF_vars(TakeSignal)

-----------------------------------------------------------------------------
\* Every variable holds a value of its kind.
Words  == [version : Nat, page : Nat]
Places == {"off", "connect", "discover", "sample", "rlock", "version", "page", "runlock", "state",
           "update", "mrlock", "mversion", "mpage", "mrunlock", "mupdate", "count", "rediscover",
           "ticker", "notify", "select", "disconnect"}

TypeOK ==
  /\ pc \in Places
  /\ conf \in Conf /\ files \in Files /\ broker \in BOOLEAN /\ crashes \in 0..MaxCrashes
  /\ ident.client \in Id \cup {NoId} /\ ident.device \in Id \cup {NoId}
  /\ notified \in BOOLEAN /\ sig \in BOOLEAN /\ tick \in BOOLEAN /\ counter \in 0..(Every - 1)
  /\ exit \in {"none", "stopped", "failure"}
  /\ read \in [Checker -> Words] /\ shown \in [Checker -> Words]
  /\ announced \subseteq Disk /\ disks \subseteq Disk
  /\ poll \in [Checker -> {"gone", "fetch", "lock", "version", "page", "unlock", "wait"}]
  /\ mu \in [Checker -> {"free", "writer", "reader"}]
  /\ latest \in [Checker -> Words]
  /\ energy \in 0..(Range - 1) /\ lastEnergy \in 0..(Range - 1) /\ age \in 0..Never

\* A published update state names the page of the very release it names, though
\* the checkers replace both words at any time (upstream.go:106-110).
PairConsistent == \A k \in Checker : shown[k].version = shown[k].page

\* During one run of the service an update state never goes back: neither to an
\* older version nor, after a failed poll, to none (upstream.go:84-99), as long as the
\* endpoints do not (NewestFirst): nothing in the code compares (upstream.go:104-112).
NeverBackwards ==
  [][pc' # "off" /\ pc # "off" =>
       \A k \in Checker : Ordinal(k, shown'[k].version) >= Ordinal(k, shown[k].version)]_vars

Waits == [k \in Checker |-> IF k = "upstream" THEN "rlock" ELSE "mrlock"]

\* The collection loop may wait for a checker to store two words, never for its
\* request (upstream.go:106, release.go:97).
NeverBehindNetwork ==
  \A k \in Checker : pc = Waits[k] /\ mu[k] = "writer" => poll[k] \in {"version", "page", "unlock"}

\* The program only goes on to the broker with ids that are spelled out or derived
\* from a valid machine id (README.md:82-83), and it skips the cleanup exactly when it
\* has warned of it (README.md:184-186).
IdentitySound ==
  pc # "off" =>
    /\ ident.client \in Id /\ ident.device \in Id
    /\ SafeDeviceID(ident.device) <=> "cleanup skipped" \notin Warnings(conf.client, conf.device)

\* After SIGTERM the process ends, however fast the ticks come (main.go:263-271).
Shutdown == sig /\ pc # "off" ~> pc = "off"

CanRun ==
  /\ Loads(conf.client, conf.device, files)
  /\ broker /\ conf.interval = "positive"
  /\ exit # "stopped" /\ ~sig

\* Once an identity and a broker are there for good and nobody stops the service,
\* it collects for ever: failed starts are repeated and no wait lasts for ever.
KeepsCollecting == <>[]CanRun => []<>(pc = "sample")

\* README.md:30-35: the values of a disk are at `disks.<disk_key>`, where "`<disk_key>`
\* is derived from the configured disk name, replacing spaces with underscores".
DiskValuesReach == \A d \in conf.disks : d \in disks => Underscored[d] \in disks
=============================================================================
