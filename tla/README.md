# A TLA+ model of zimaos-monitor

zimaos-monitor is a Go program that runs as a systemd service on a ZimaOS host,
publishes hardware metrics over MQTT with Home Assistant discovery records, and
replaces its own executable with `zimaos-monitor update`. This directory holds
TLA+ modules for the parts of it that are hard to test, the TLC runs that check
them and proofs checked by TLAPS. `PROJECT.json` lists the components, runs,
hazards, findings and theorems, and maps each definition to the lines it models.

## Inventory

| Component | State | Operations | Interacts with |
|---|---|---|---|
| Self-updater (`internal/selfupdate/updater.go`, `runUpdate` in `main.go`) | executable, `.previous`, `.update.lock`, temporary directory, the locals of `Apply` | `Apply`: lock, fetch, download, verify, probe, back up, rename, restart and check, roll back; deferred cleanup | release endpoint (HTTP), systemd (`systemctl`), other update processes (lock and files), the user (signals) |
| Release metadata (`release.go`) | none (pure), the `Checker`'s cached release | `FetchLatest`, `IsNewer`, `parseVersion`; `Checker.Start`, `Latest` | release endpoint, self-updater, main loop |
| Upstream checker (`collector/upstream.go`) | cached version and page behind an RWMutex | `Start`, `fetch`, `Latest` | its goroutine and the main loop |
| Discovery records (`mqtt/autodiscovery.go`) | none of its own: the broker's retained messages | `PublishDiscovery`, `planDiscoveryCleanup`, `purgeStaleDiscovery` | MQTT client, every other publisher on the broker |
| MQTT client (`mqtt/client.go`) | connection, the map of a scan | `NewClient`, `Publish`, `CollectRetained`, `Disconnect` | broker, callbacks of the paho library |
| Main loop (`cmd/zimaos-monitor/main.go`) | `discoveryCounter`, ticker, signal channel | start-up, `collect`, shutdown | everything above |
| Configuration and identity (`config/`) | none | `Load`, `canonicalMachineID`, `derive*` | machine-id, hostname, DMI |
| Setup wizard (`setup/setup.go`) | terminal flags, candidate file | `Run`, `ReadSecret`, `WriteExclusive` | terminal, signals, `install.sh` |
| Collectors (`collector/*.go`) | last RAPL energy and time | `Collect`, `CollectDisks`, ... | sysfs, gopsutil |
| Installer (`scripts/install.sh`) | installed files, backups, staged file | fresh install, upgrade, rollback, traps | setup wizard, systemd, self-updater |
| systemd unit | active or not, the running binary | start, restart, `Restart=on-failure` | all |

What is hard here, and what makes each part correct:

* **Self-updater.** It changes two things that must agree, the file and the
  running service, in many steps that may each fail, be interrupted by a signal
  or be cut off by a kill; several processes may run it; the release may change
  under it. Correct means: only verified releases are installed or run; the
  executable is never a partial file; trials do not overlap and a rollback puts
  back exactly the replaced binary; what `Apply` reports is true of the service;
  anything left behind is explained by a kill or by a reported error; a killed
  update blocks nobody; versions never go down; every update ends.
* **Discovery.** It deletes retained messages on a broker it shares. Correct
  means: it never changes a record of another device or publisher, never clears
  what it is about to publish, clears all that earlier runs of its own left,
  and the records come back after losses.
* **Scan of retained messages.** A handler on another goroutine, two timers and
  a connection that may go. Correct means: the result holds retained records
  only and no longer changes once it was returned, the call ends however
  messages arrive, and what it misses is explained.
* **Main loop and checkers.** Two words behind a lock, a select over ticks and
  signals, and waits for a broker. Correct means: a version is never published
  with another release's page nor goes back; SIGTERM ends the process; no wait
  or failed start stops the collection for good.
* **Identity, energy counter.** No ids without a valid machine id or an explicit
  choice; no power spike when the counter wraps, a reading fails or the service
  restarts.
* **Setup wizard and installer.** The echo flag of a terminal, a candidate file
  with a password, and an activation of several files and a service that may be
  interrupted at any command. Correct means: nothing is installed without a
  confirmation; a configuration is never replaced; a failed upgrade is undone;
  nothing is left behind; the terminal echoes again.

## Modules

| Module | What it is |
|---|---|
| `Release` | versions, release metadata and the order `IsNewer`, as operators |
| `SelfUpdate` | the update processes, their files, the lock, the service and the environment |
| `AtomicUpdate` | abstract specification of an update: begin a trial, keep it, revert it |
| `MCSelfUpdate` | values for TLC |
| `Discovery` | the services' main loops, discovery and the broker |
| `MCDiscovery` | values for TLC |
| `RetainedScan` | `CollectRetained`: caller, handler, broker, connection, timers |
| `Scan` | abstract specification of that scan, as the cleanup relies on it |
| `MCRetainedScan` | values for TLC |
| `Identity` | client and device ids, warnings and the failure of `Load`, as operators |
| `Meter` | the energy counter and the power computed from it |
| `Pollers` | the two background checkers and their locks |
| `Service` | the process: start-up, collection, signals, restarts; composes the three above |
| `MCService` | values for TLC |
| `Setup` | the setup wizard's processes, terminal and candidate files |
| `Installer` | `install.sh`, any number of them, with systemd and an update; composes `Setup` |
| `MCInstaller` | values for TLC |
| `ReleaseProofs`, `SelfUpdateProofs`, `SelfUpdateOutcomeProofs`, `DiscoveryProofs`, `RetainedScanProofs`, `ServiceProofs`, `InstallerProofs`, `InstallerOutcomeProofs` | theorems |

### Release

A version string is kept as the three things the code can see of it: which of
its patterns it matches, and its three numbers. A digest is represented by the
content that has it. `MaxUint64` stands for the largest number that
`strconv.ParseUint` takes; a stable tag with a larger number does not parse and
is therefore never newer.

### SelfUpdate

`pc[p]` is the place of process `p` inside `Apply`; one action is one call that
another process, a signal or a fault could come before or after:

| Code | Actions |
|---|---|
| `runUpdate` | `Start`, `Cancel` (signal.NotifyContext) |
| `acquireLock` | `AcquireLock`, `LockFails` |
| metadata, download, checksum, extraction, `--version` | `Fetch`, `MkdirTemp`, `DownloadFile`, `VerifyChecksum`, `ProbeCandidate` or `ProbeHangs`; every error return is in `Abandon` |
| `copyFile` to `.previous` | `TruncateBackup`, `CopyFile` |
| `os.Rename(candidate, executable)` | `Replace`, `ReplaceFails` |
| `restartAndCheck` | `Restart`, `RestartFails`, `HealthTimer`, `HealthCancelled`, `IsActive`, `CheckFails` |
| removal of the backup | `Accept` |
| `rollback` | `Restore`, `RestoreFails`, `RestartPrevious`, `RestartPreviousFails` |
| deferred calls | `Cleanup` |
| kill, SIGHUP | `Crash` |
| GitHub, systemd | `Publish`, `ServiceFails`, `ServiceAutoRestarts` |

`Faults` says which kinds of trouble exist. `net` lets a request fail and lets a
download carry any content; `disk` lets file operations fail; `systemctl` lets a
command fail; `hang` lets a candidate's `--version` not return, which nothing but
a signal or a kill ends; `cancel` and `crash` are signals. A `systemctl restart`
that was
not seen to succeed leaves the service as it was, stopped, or restarted
(`Disturbed`). Once the context is done no request and no command can start.

Abstractions: the content of a file is one model value; downloads have no size;
the order of the two deferred calls is one step, which is harmless because a
process that tries the lock in between is turned away exactly as before;
crashes are those of processes, and a crash loses nothing that was written.

The refinement mapping to `AtomicUpdate`: the owner is the process that holds
the lock while its new binary is in place and not yet accepted, and the undo
value is the backup during that time. `Replace` is `Begin`, `Restore` is
`Revert`, and `Accept`, a restore that failed and a kill during the trial are
`Keep`. Everything else stutters.

### Discovery

One broker, several installations. `retained` is the broker's memory. `pc[h]`
is where the main goroutine is: `subscribe` and `scan` are `CollectRetained`,
`purge` is the loop over `plan.staleTopics`, `publish` is the rest of
`PublishDiscovery`, `loop` is the select of `main`. `Receive` is the message
handler, which runs on a goroutine of the MQTT library. `Stop` is SIGTERM at the
select as well as a kill anywhere; a later `Start` may read another
configuration. `Drop`, `Reconnect` and `Wipe` are the connection and a broker
that loses its retained messages.

Abstractions: a topic is its node and object id (the component level follows
from the object); a payload is what the cleanup looks at, origin and device
identifiers; the disks and cores of a host are the set of objects they produce.
The end of a scan is nondeterministic instead of timed: ending it while
messages are still on their way is possible and counts as one of the
`MaxFaults` disturbances. The paho library is not part of the repository; its
behaviour (QoS 0 publications are dropped without an error while reconnecting,
subscriptions are not renewed) is modelled as the program meets it.

### RetainedScan and Scan

`pc` is where `CollectRetained` is: waiting for SUBACK, in the select, waiting
for UNSUBACK, copying, done. The handler has the two steps that others can see:
it stores a record under the mutex (`Store`) and fills the activity channel
without waiting (`Notify`). `Accept` and `Unsuback` are the broker's sides of
the two tokens, `Drop` takes the subscription and the messages on their way.
The total timer starts before the subscription, as in the code; the idle timer
starts with the first activity. `Tick` is a fixed piece of time and passes only
when no goroutine of the scan has anything left to do, which is the meaning of a
timer that is long against a step. `pause` and `snapshot` are history: the
longest wait for a further record and what the broker held at subscription.

`Scan` says what `Discovery` and the code of `purgeStaleDiscovery` rely on; in
the refinement mapping a record is queued while it is on the stream or in the
handler's hands, and found when it is in the map, or in the result. `Discovery`
uses the same scan in coarser steps (its `Receive` stores at once).

### Service, Pollers, Meter, Identity

`pc` is the main goroutine from `config.Load` to the deferred `Disconnect`; a
collection is nine to thirteen steps, because a checker may write between any
two of them. `Boot` is the part before the connection: it fails as a whole when
`Load` does. `End` is the end of a process, of whatever kind, and forgets what a
process has in memory. `Signal` before `Notify` kills the process. A negative
`interval` passes `Load` and panics in `time.NewTicker`, so the unit collects
once and is started again, for ever; `NewTicker` has both outcomes.

Each checker has its goroutine (`Poll`), its RWMutex and two words. `Fetch`
stands for an HTTP request with its answer; the write of the monitor checker's
`Release` is as much two words as the upstream checker's fields. Those words are
the number of a release, its place in `Feed`, the versions that the endpoint
comes to serve as its newest stable one; `Ordinal` is the version of a release.
The code takes the first stable tag of the answer and compares it with nothing,
so that a version never goes back needs `NewestFirst`: the endpoint does not. `RLock` and
`RUnlock` are taken by the main goroutine only.

`Meter` keeps, next to `lastEnergy` and `lastTime`, the true energy and time
since the last good reading. `Never` is the zero `lastTime`: a collector whose
first reading failed reports 0 W until it is restarted. The service model lets
energy be used at the select and while it connects.

`Identity` takes a hash for injective. The first readable machine-id file decides,
even if it is invalid; that is the code's fallback (`identity.go:53-63`), though
README.md:215-216 can be read as looking for the first valid one. No run is
spent on it.

Left out of `Service`: the dry run, the sampled values, the retained records
(they are `Discovery`'s), and an error of `json.Marshal`.

### Setup and Installer

`Setup` is one wizard per installer. `ask` is the question, `caught` says
whether `signal.Notify` is in force, `watcher` is the goroutine of `ReadSecret`,
`cand` holds the candidate files. A signal that nobody catches ends the process;
between `EchoOff` and `Guard` that leaves the terminal without echo, which the
model records as the code "unguarded". There is a second such gap: if the prompt
for the password cannot be printed (`Unprompted`), `restore` is not called and
the deferred calls are `signal.Stop` (`StopFirst`) before `restore`
(`RestoreLast`); the two are `Gap`. A signal that is caught but no longer
taken by the goroutine, because the line was accepted first, is dropped. The end
of the input at a prompt is a cancellation with exit status 0 (`InputEnds`,
"ended" for the password), as a no is (`Declined`); every other error is a failure
(`Unanswered`). Since `set -e` sees nothing of a cancellation, only the test for
the candidate file keeps the script from installing then (install.sh:144).

`sh[p].pc` is the command of the script that comes next. The trap of a signal
runs when the foreground command has ended: `Interrupt` sets `pending` (and
reaches the wizard, which is in the same process group), `Trap` and `Cleanup`
follow. `Fails` is a command that fails under `set -e`, under `&&` in an
activation, or under `|| true` in a rollback. A first installation whose
`mktemp` fails goes on, because `if !` switches `set -e` off (`NoWorkDir`), with
`/config.yaml` as its candidate (`Root`). Besides a failing command this may be
the host's state: `full` says that the temporary directory takes nothing, so
that it fails for every installer.

Next to the installers run systemd (what unit it has read, the symlink, the
running binary, `Restart=on-failure`, and `ConditionPathExists` of the unit:
without a configuration a start starts nothing, `Launched`) and one update of the program in its
essential steps: it takes a lock that the script does not know.

Left out: file modes and contents, the removal of a former update unit, tests
of the environment before anything is changed, a kill of the wizard alone. Every
installer has a terminal of its own.

## Runs

| Run | Checks | Shows |
|---|---|---|
| `update_safety` | `TypeOK`, `InstalledIsReleased`, `OutcomeMatchesService`, `DivergenceExplained`, `BackupExplained`, `NoDowngrade`, `BusyOnlyWhileRunning`, `Transaction` | two overlapping updates with every kind of fault |
| `update_liveness` | `Terminates`, `ServiceSettles` | every update ends, one whose candidate hangs after a signal, and the service with it on the installed executable |
| `update_rollback` | `PreviousRestarted`, violated | a signal during the wait of the health check: the file is restored, the service is not |
| `update_current` | `CurrentLeftAlone`, violated | two updates in a row reinstall the installed version |
| `discovery_safety` | `TypeOK`, `StaleGone`, `OthersPreserved`, `DesiredNeverCleared` | two installations, restarts with other configurations, one fault |
| `discovery_liveness` | `EventuallyPublished` | two faults: the records come back |
| `discovery_identity` | `OldIdentityGone`, violated | records of a former device id stay |
| `discovery_updates` | `UpdateEntityFollowsConfig`, violated | the ZimaOS update entity ignores `updates.enabled` |
| `scan` | `TypeOK`, `MissesExplained`, `ScanEnds`, `ScanImplemented` | every order of handler, channel, timers and connection |
| `service` | `TypeOK`, `PairConsistent`, `NeverBehindNetwork`, `IdentitySound`, `PowerTrue`, `NeverBackwards`, `Shutdown`, `KeepsCollecting` | start-up, collection, signals, crashes and restarts with the checkers at work |
| `service_disks` | `DiskValuesReach`, violated | a disk with a space in its name |
| `install` | `TypeOK`, `Consent`, `EchoKept`, `RolledBack`, `Settled`, `NoLeftovers`, `ConfigNeverReplaced`, `InstallerEnds` | racing first installations, the end of the input at every prompt, upgrades and rollbacks with faults, interrupts and kills, an update meanwhile |

Deadlock is checked in every run but `install`, whose installers, wizard and
update end for good. (A service can always fail and be restarted by systemd, so
the other models never stop; a scan that has returned stutters by `Finished`.)

### Bounds

* Two update processes, each started once. The lock admits one; the second one
  meets it at every step and also runs after it with what it left behind, which
  is where one update could spoil another. The theorems hold for any number.
* Four releases: one older than the installed binary, one with only a checksum
  file, one whose archive reports another version, one good; and a binary that
  is damaged on the way. They come out at any moment, in an order in which the
  version never goes back (`PublicationOrder`; `NoDowngrade` needs it).
  `MaxUint64 = 9` only keeps the numbers small.
* The liveness run has the two good releases, a development build, candidates
  that may hang and no network fault, to keep the graph small enough for the temporal check; a download that
  fails ends an update exactly as a full disk does, which the run has.
* Discovery: three device ids of which two belong to the host that changes, one
  topic each for the disk that comes and goes, initial records of its own, of
  another publisher and of another device below the same node; publication
  every second collection instead of every tenth; one fault for safety (a fault
  ends what `StaleGone` promises, and `OthersPreserved` is about single steps),
  two for liveness, so that a repair is disturbed again.

* Scan: 12 ticks in total and 2 of idle grace, in the proportion of 2 s and
  300 ms; three records, which are enough for one to be in the map, one in the
  handler and one on its way; one foreign publication; one lost connection.
* Service: the hosts of `MCService` are alternatives, so that their state spaces
  add instead of multiply: each checker alone (they share nothing but the main
  goroutine, which reads one after the other), the power meter alone, and the
  machine-id files with a negative interval. Two releases for each endpoint make a
  mixed pair and a step back possible; discovery every second collection instead of every tenth;
  one crash, after any step; a counter of range 2 with up to 3 units between
  readings, so that it wraps once and more than once, in a word of 16.
* Install: the hosts of `MCInstaller` are alternatives as well; faults and kills
  are bounded by host (at most two faults and one kill): two failures are enough
  for one in an activation and one in its rollback. Interrupts are unbounded.
  One host has a full temporary directory and two first installations: they
  share `/config.yaml`, and one may install the candidate that the other is
  still writing. `TypeOK` says that an installed file is incomplete in this case
  only (`Shared`).

### Fairness

`SelfUpdate!FairSpec` has weak fairness of `Apply(p)`: a process that is not
killed goes on, because what it waits for has a bound (HTTP client timeout,
`LOCK_NB`, the health timer, the job timeout of systemd). The exception is
`candidate --version`, which runs under a context without a deadline
(`updater.go:79`, `main.go:311`): at the place "hung" nothing of `Apply` is enabled
until a signal has come, so fairness does not end it, and `Terminates` says so.
Nothing is assumed of signals, kills, releases or of the service.

`Discovery!FairSpec` has weak fairness of the main goroutine (the ticker and
the scan's timers always fire), of the delivery of queued messages and of the
reconnection (`SetAutoReconnect`). That a publication returns at all is part of
this assumption; `token.Wait` has no timeout (a hazard listed as open).

`RetainedScan!FairSpec` has weak fairness of the goroutines and of the tokens
(the library completes them, with an error when the connection is lost), and
strong fairness of `Tick`: messages of others may interrupt a tick, but only
finitely many arrive within one.

`Service!FairSpec` has weak fairness of systemd's restart, of the main goroutine,
the ticker and each checker's goroutine, and strong fairness of two things the Go
runtime promises: an RWMutex lets a waiting reader in, and a select does not
ignore a ready case for ever (it chooses at random). It assumes nothing of the
broker; `KeepsCollecting` has the broker in its condition.

`Installer!FairSpec` has weak fairness of the shell, of the wizard's own steps
and of its goroutine. Nothing is assumed of the user.

## Proofs

All theorems hold for every value of the constants that satisfies the named
assumptions: `ReleaseAssumption`, `SelfUpdateAssumption` and, for
`NeverDowngrades` only, `PublicationOrder` (the latest release never has a lower
version than an earlier one) and, for `UpdatesNeverGoBack` only, `NewestFirst`
(the same of the endpoints of the checkers); `DiscoveryAssumption` and `DistinctIdentities`
(installations have different ids); `ScanAssumption`; `ServiceAssumption` with
`IdentityAssumption`, `MeterAssumption` and `PollersAssumption`;
`SetupAssumption` and `InstallerAssumption`. Except for the two about versions
they say that constants have their types and that model values differ.

* `ReleaseProofs`: `IsNewer` is a strict order, total on stable versions with
  different numbers.
* `SelfUpdateProofs`: `TypeCorrect`, `OnlyReleasesInstalled`, `UpdateIsAtomic`.
  `InstalledIsReleased` is not inductive. `CoreInv` adds: exactly the process
  inside the locked part holds the lock (`LockInv`); what has been established
  of the candidate at each place (`CandidateInv`), so that the rename installs a
  verified one; and that the backup is the installed binary before the rename
  and a trusted one during the trial (`BackupInv`), so that a rollback restores
  one. The refinement goes action by action: each one is `Begin`, `Keep`,
  `Revert` or leaves the mapped variables alone (`Unseen`).
* `SelfUpdateOutcomeProofs`: `OutcomeIsTrue`, `DivergenceIsExplained`,
  `BackupIsExplained`, `NeverDowngrades`, `BusyMeansRunning`. `OutcomeInv`
  follows, besides `CoreInv`, where the service and the executable may differ
  (only during a trial, or after a kill or a reported failure) and where a backup
  may exist. For the version: a process compares a release with its own version,
  which may not be the installed one. `VersionInv` says what makes that harmless:
  no process is older than the binary of the start (`Since`), and what is
  installed, or may be put back, was published no later than what the holder of
  the lock has fetched (`UpTo`), as it fetches under the lock. `BusyMeansRunning`
  follows from `LockInv`.
* `DiscoveryProofs`: `DiscoveryTypeCorrect`, `OthersArePreserved`,
  `DesiredIsNeverCleared`, `StaleIsGone`. `DiscoveryInv` says that what a scan
  holds lies below the host's own node and was once retained there, that the
  topics to be cleared are stale, and that what is to be published is desired.
  `CleanInv` says, while no fault has occurred, where a leftover record still
  is: on its way to the scan, in its map, or among the topics to be cleared.
* `RetainedScanProofs`: `ScanTypeCorrect`, `MissesAreExplained`,
  `ScanIsImplemented`. The invariant says where each record of the snapshot is:
  on the stream, with the handler, in the map, or lost with a reason; and, for
  the idle timer, that a scan which ended by idleness has had a pause that
  covers the idle grace.
* `ServiceProofs`: `ServiceTypeCorrect`, for which the main loop's own variables
  are followed with those of the checkers, the meter and the identity
  (`LoopInv`); `PairIsConsistent`, `NeverWaitsForNetwork`,
  `UpdatesNeverGoBack` from `PollInv`: who holds a lock is at one of the places
  between taking and giving it back (`LockInv`), outside of a store a checker's
  words are of one release and no older than any that was read or shown
  (`CacheInv`), and a collection that has read the version still holds the lock
  when it reads the page (`ReadInv`). For `UpdatesNeverGoBack` a lemma adds that a
  later release of `Feed` has no lower version (`OrdinalRises`). `PowerIsTrue` from `MeterInv`: the last
  reading plus the energy used since is the counter plus a number of whole
  ranges. `IdentityIsSound` from `IdentInv`: the ids of a process that is past
  its start are those its configuration asks for.
* `InstallerProofs`: `ConfigIsKept`, `NothingWithoutConsent`, `EchoIsKept`,
  `NothingLeft`, for any set of installers on any host. `WizardInv` follows each
  wizard (where signals are caught; a goroutine that is about to end the process
  has switched the echo on; the echo is only off in the reading or in one of the
  two gaps; a complete candidate was agreed to). That the end of the input exits
  with status 0 does no harm because the script goes on only with a candidate. `ShellInv` ties it to its script: the wizard only runs while the
  script waits for it or was killed, what is staged is marked for the cleanup, a
  candidate of its own implies the work directory, and an installer that changes
  anything upgrades, has an accepted wizard, or has no work directory. `Persists`
  says that these facts are never taken back.

* `InstallerOutcomeProofs`: `InstallerTypeCorrect`, `EverythingSettled`,
  `RollbackRestores`. The lemmas of the first part say once what a step of the
  script does to place, mode, backups and staged file, and to everything but the
  shell; `ShellForms` sums them up by the part of the script (`Begins`, `Backs`,
  `Installs`, `Commits`, `Activates`, `Restores`, `Breaks`, `Leaves`), and the
  three invariants are proved over these eight cases instead of forty actions.
  - `WholeInv`: what a script is about to move, and what it has saved, is
    complete (a copy that failed ends the script first); an incomplete candidate
    is one that a wizard is writing or that a failed wizard left, and so no script
    that went on has one, unless another installer writes to the same file.
  - `SettledInv`, without faults and kills: if systemd has not read the installed
    unit, some installer still owes a reload (`OwesReload`); if the service runs
    another binary than the installed one, an installer still owes a restart
    (`OwesRestart`), or the update does; or an installer was interrupted, which
    `Settled` excludes; or the installed unit or binary is the one of a first
    installation that lost the race for the configuration (`LeftLost`), which
    `Settled` names as its exception. To blame just that installer, the invariant
    keeps whose file is in place and that each moves its own only (`OwnAssets`). A first installation owes a restart only up to the link
    of its configuration, because until then the path condition keeps the service
    from being started with the old binary.
  - `RollInv`: at each place of an upgrade, which files are the host's and which
    are new, and what has been saved; that a rollback has cost a fault or a
    binary that does not stay up; and, if it was the only trouble (`Calm`), what
    each step of the rollback has restored of systemd and the service.

  All three were model-checked on the hosts of the run before they were proved.

With these every type invariant, safety invariant, action property and
refinement that a passing run checks is stated by a theorem. Only model-checked:
all liveness (`Terminates`, `ServiceSettles`, `EventuallyPublished`, `ScanEnds`,
`Shutdown`, `KeepsCollecting`, `InstallerEnds`), which is out of the prover's
reach, and the five properties that the code violates.

## Findings

1. `rollback` restarts the service under the update's context
   (`updater.go:277`). After SIGINT or SIGTERM during the wait of the health check
   (`HealthCancelled`) the restart cannot run: the old file is back and the new
   binary keeps running. README.md:329 promises the restart. The same happens when
   the signal comes earlier, during `systemctl restart`; the run is about the health
   check because that is what the document speaks of.
2. `Apply` compares the release with the version compiled into the running
   process (`updater.go:47`), not with the installed executable; README.md:318
   says an installation that is already current is left alone.
3. The comment at `autodiscovery.go:58` says that records are cleared when
   device ids change; the scan only looks below the current id.
4. README.md:46 says the ZimaOS update entity is created when `updates.enabled`
   is true; it is always created (`autodiscovery.go:276`).
5. A disk with a space in its name: `CollectDisks` uses the name as the key of
   the state message (`disk.go:31`), the discovery records read the name with
   underscores; README.md:30-35 describes one `<disk_key>`.

Behaviour that contradicts no document but should be known:

* An installation that is interrupted between two files stays mixed, since the
  trap removes the backups.
* A first installation that loses the race for the configuration
  (install.sh:152-166) has already moved its binary and its unit into place and
  ends without a reload or a restart: they are installed, and nobody has started
  them (`Lost`).
* An update that rolls back may put its backup over what an installer has just
  installed.
* An update whose candidate hangs in `--version` holds the lock until it is sent
  a signal; every other update is told that one is running.
* A failing `mktemp` in a first installation makes the wizard write, with the
  password, to `/config.yaml` in the root directory.
* A signal in one of the two gaps of `ReadSecret` leaves the terminal without
  echo: between switching it off and `signal.Notify`, and, when the prompt cannot
  be printed, between the deferred `signal.Stop` and `restore`.
* An interval below zero makes the unit restart for ever.
* An invalid `/etc/machine-id` hides a valid `/var/lib/dbus/machine-id`.
* An endpoint that goes back makes the published version go back.

Hazards that no property covers, with the reason in `PROJECT.json`: a foreign
publisher that writes below the device id between the scan and the purge,
`token.Wait` without a timeout, the negative interval, the two equal timers of
the health check and the unit, a power loss after the rename, and the temporary
directories of killed updates.

## Not modelled, and the plan

In this order:

1. `Discovery`'s scan as an instance of `Scan`, and a foreign publisher that
   writes below the device id between the scan and the purge
   (`autodiscovery.go:398`).
2. A timed refinement of the health check (health delay equal to `RestartSec`)
   and a page cache for power loss around the rename.
3. `SelfUpdate` itself in the place of the installer's short `Update`.

Left out for good: the wording of discovery records and payloads, the syntax of
host names and ports, defaults of configuration fields, DMI and the display
name, memory, load and temperature readings (gopsutil and sysfs, without state
between samples), `DiscoverDisks` and `osinfo.go`, the dry run, the build and
release workflows and the tests.
