----------------------------- MODULE SelfUpdate -----------------------------
(***************************************************************************)
(* `zimaos-monitor update` (selfupdate.Apply): several update processes on *)
(* one host, the installed executable, the systemd service that runs it    *)
(* and the release endpoint.  A process is killed, interrupted or met by a *)
(* fault at any step; Faults says which kinds of trouble exist.            *)
(***************************************************************************)
EXTENDS Release, Sequences

CONSTANTS
  Proc,        \* update processes; each one is started at most once
  NoProc,      \* nobody
  Releases,    \* the releases in the order in which they become the latest
  Installed,   \* the binary installed at the start
  Torn,        \* a file truncated or half written
  Faults       \* what may go wrong: see FaultKind

FaultKind == {"net", "disk", "systemctl", "hang", "cancel", "crash"}

ASSUME SelfUpdateAssumption ==
  /\ NoProc \notin Proc
  /\ Releases \in Seq(Release) /\ Len(Releases) > 0
  /\ Installed \in Binary
  /\ Torn \notin Binary /\ Torn # None
  /\ Faults \subseteq FaultKind

\* The endpoint's latest release never goes back to a lower version.
ASSUME PublicationOrder ==
  \A i, j \in 1..Len(Releases) :
    i < j /\ Parses(Releases[i].tag) /\ Parses(Releases[j].tag)
      => NotOlder(Releases[i].tag, Releases[j].tag)

VARIABLES
  hub,        \* index of the release served as the latest
  exe,        \* content of the installed executable
  backup,     \* content of the .previous file
  lock,       \* the process whose open file holds the flock of .update.lock
  service,    \* the systemd service: is it active, and which binary it runs
  workdir,    \* processes whose temporary directory exists
  pc,         \* where each process is
  cur,        \* opts.CurrentVersion, compiled into the process's own binary
  rel,        \* the release fetched, 0 before
  got,        \* content of the downloaded archive, then of the candidate
  cancelled,  \* ctx was cancelled by SIGINT or SIGTERM
  result      \* what Apply returns

disk == <<exe, backup, workdir>>
own  == <<cur, rel, got>>
vars == <<hub, disk, lock, service, own, pc, cancelled, result>>

Running == {"lock", "fetch", "mkdir", "download", "checksum", "probe", "hung",
            "backup", "copying", "replace", "restart", "health", "check",
            "accept", "restore", "restart_previous", "cleanup"}
PC      == Running \cup {"off", "done", "dead"}
Holding == Running \ {"lock"}                       \* holds the lock
Trial   == {"restart", "health", "check", "accept", "restore"}
Result  == {"none", "busy", "failed", "kept_backup", "updated",
            "rolled_back", "restore_failed", "restart_failed"}

Init ==
  /\ hub = 1
  /\ exe = Installed /\ backup = None /\ workdir = {}
  /\ lock = NoProc
  /\ service = [up |-> TRUE, bin |-> Installed]
  /\ pc = [p \in Proc |-> "off"]
  /\ cur = [p \in Proc |-> Reports[Installed]]
  /\ rel = [p \in Proc |-> 0]
  /\ got = [p \in Proc |-> None]
  /\ cancelled = [p \in Proc |-> FALSE]
  /\ result = [p \in Proc |-> "none"]

-----------------------------------------------------------------------------
Goto(p, from, to) == pc[p] = from /\ pc' = [pc EXCEPT ![p] = to]

Continue(p, from, to) == Goto(p, from, to) /\ UNCHANGED result

\* Apply returns; its deferred calls are still to run.
Return(p, from, r) ==
  Goto(p, from, "cleanup") /\ result' = [result EXCEPT ![p] = r]

Fault(f) == f \in Faults

\* A request or a command that cannot succeed: ctx is done, or it fails.
Broken(p, f) == cancelled[p] \/ Fault(f)

\* systemctl restart: the unit is started from the file now at ExecStart.
Restarted == service' = [up |-> TRUE, bin |-> exe]

\* What is left of the service when systemctl restart was not seen to succeed.
Disturbed == service' \in {service, [service EXCEPT !.up = FALSE],
                           [up |-> TRUE, bin |-> exe]}

\* systemctl restart is not even started once ctx is done; otherwise it fails,
\* or the signal kills it and not the job it queued.
NotRestarted(p) ==
  \/ cancelled[p] /\ UNCHANGED <<service, cancelled>>
  \/ /\ ~cancelled[p] /\ Disturbed
     /\ \/ Fault("systemctl") /\ UNCHANGED cancelled
        \/ Fault("cancel") /\ cancelled' = [cancelled EXCEPT ![p] = TRUE]

-----------------------------------------------------------------------------
\* The root user runs the installed executable with the argument "update".
Start(p) ==
  /\ Continue(p, "off", "lock")
  /\ cur' = [cur EXCEPT ![p] = Reports[exe]]
  /\ UNCHANGED <<hub, disk, lock, service, rel, got, cancelled>>

\* Deviation: the result of flock is not looked at.
AcquireUnlocked(p) ==
  /\ Continue(p, "lock", "fetch")
  /\ lock' = p
  /\ UNCHANGED <<hub, disk, service, own, cancelled>>

AcquireLock(p) ==
  /\ Continue(p, "lock", "fetch")
  /\ lock = NoProc
  /\ lock' = p
  /\ UNCHANGED <<hub, disk, service, own, cancelled>>

\* LOCK_NB: a lock that is taken, or a lock file that cannot be opened, ends
\* the update before any deferred call exists.
LockFails(p) ==
  /\ Goto(p, "lock", "done")
  /\ \/ lock # NoProc /\ result' = [result EXCEPT ![p] = "busy"]
     \/ Fault("disk") /\ result' = [result EXCEPT ![p] = "failed"]
  /\ UNCHANGED <<hub, disk, lock, service, own, cancelled>>

Fetch(p) ==
  /\ Continue(p, "fetch", "mkdir")
  /\ ~cancelled[p]
  /\ Eligible(cur[p], Releases[hub])
  /\ rel' = [rel EXCEPT ![p] = hub]
  /\ UNCHANGED <<hub, disk, lock, service, cur, got, cancelled>>

MkdirTemp(p) ==
  /\ Continue(p, "mkdir", "download")
  /\ workdir' = workdir \cup {p}
  /\ UNCHANGED <<hub, exe, backup, lock, service, own, cancelled>>

\* With a faulty network the body may be any content.
DownloadFile(p) ==
  /\ Continue(p, "download", "checksum")
  /\ ~cancelled[p]
  /\ \E b \in Binary :
       /\ b = Releases[rel[p]].archive \/ Fault("net")
       /\ got' = [got EXCEPT ![p] = b]
  /\ UNCHANGED <<hub, disk, lock, service, cur, rel, cancelled>>

\* Deviation: any archive is taken.
SkipChecksum(p) ==
  /\ Continue(p, "checksum", "probe")
  /\ UNCHANGED <<hub, disk, lock, service, own, cancelled>>

\* downloadChecksum is called only when the asset had no digest.
VerifyChecksum(p) ==
  /\ Continue(p, "checksum", "probe")
  /\ Releases[rel[p]].digest # None \/ ~cancelled[p]
  /\ got[p] = Expected(Releases[rel[p]])
  /\ UNCHANGED <<hub, disk, lock, service, own, cancelled>>

\* extractBinary, then the candidate is run for its version.
ProbeCandidate(p) ==
  /\ Continue(p, "probe", "backup")
  /\ ~cancelled[p]
  /\ Reports[got[p]] = Releases[rel[p]].tag
  /\ UNCHANGED <<hub, disk, lock, service, own, cancelled>>

\* The candidate does not come back; only the context ends it, which has no deadline.
ProbeHangs(p) ==
  /\ Fault("hang")
  /\ Continue(p, "probe", "hung")
  /\ ~cancelled[p]
  /\ UNCHANGED <<hub, disk, lock, service, own, cancelled>>

-----------------------------------------------------------------------------
\* The error returns before the executable is touched; a failed copy leaves the
\* backup as it is.
Abandon(p) ==
  /\ \/ /\ Return(p, "fetch", "failed")
        /\ Broken(p, "net") \/ ~Eligible(cur[p], Releases[hub])
     \/ Return(p, "mkdir", "failed") /\ Fault("disk")
     \/ Return(p, "download", "failed") /\ (Broken(p, "net") \/ Fault("disk"))
     \/ /\ Return(p, "checksum", "failed")
        /\ \/ got[p] # Expected(Releases[rel[p]])
           \/ Releases[rel[p]].digest = None /\ Broken(p, "net")
           \/ Fault("disk")
     \/ /\ Return(p, "probe", "failed")
        /\ Broken(p, "disk") \/ Reports[got[p]] # Releases[rel[p]].tag
     \/ Return(p, "hung", "failed") /\ cancelled[p]
     \/ Return(p, "backup", "failed") /\ Fault("disk")
     \/ Return(p, "copying", "failed") /\ Fault("disk")
  /\ UNCHANGED <<hub, disk, lock, service, own, cancelled>>

\* Deviation: the errors of the copy are not looked at.
CopyUnchecked(p) ==
  /\ Continue(p, "backup", "replace")
  /\ backup' = Torn
  /\ UNCHANGED <<hub, exe, workdir, lock, service, own, cancelled>>

\* copyFile(executable, .previous) opens the target with O_TRUNC ...
TruncateBackup(p) ==
  /\ Continue(p, "backup", "copying")
  /\ backup' = Torn
  /\ UNCHANGED <<hub, exe, workdir, lock, service, own, cancelled>>

\* ... and fills it, checking io.Copy, Sync and Close.
CopyFile(p) ==
  /\ Continue(p, "copying", "replace")
  /\ backup' = exe
  /\ UNCHANGED <<hub, exe, workdir, lock, service, own, cancelled>>

Replace(p) ==
  /\ Continue(p, "replace", "restart")
  /\ exe' = got[p]
  /\ UNCHANGED <<hub, backup, workdir, lock, service, own, cancelled>>

\* The error of os.Remove(backup) is ignored.
ReplaceFails(p) ==
  /\ Return(p, "replace", "failed")
  /\ Fault("disk")
  /\ backup' \in {backup, None}
  /\ UNCHANGED <<hub, exe, workdir, lock, service, own, cancelled>>

-----------------------------------------------------------------------------
\* Deviation: systemctl start, which leaves an active service alone.
StartOnly(p) ==
  /\ Continue(p, "restart", "health")
  /\ ~cancelled[p]
  /\ service' = IF service.up THEN service ELSE [up |-> TRUE, bin |-> exe]
  /\ UNCHANGED <<hub, disk, lock, own, cancelled>>

\* restartAndCheck
Restart(p) ==
  /\ Continue(p, "restart", "health")
  /\ ~cancelled[p]
  /\ Restarted
  /\ UNCHANGED <<hub, disk, lock, own, cancelled>>

\* Deviation: an error of the restart is returned without a rollback.
RestartFailsNoRollback(p) ==
  /\ Return(p, "restart", "failed")
  /\ NotRestarted(p)
  /\ UNCHANGED <<hub, disk, lock, own>>

RestartFails(p) ==
  /\ Continue(p, "restart", "restore")
  /\ NotRestarted(p)
  /\ UNCHANGED <<hub, disk, lock, own>>

\* select: when both channels are ready either branch may be taken.
HealthTimer(p) ==
  /\ Continue(p, "health", "check")
  /\ UNCHANGED <<hub, disk, lock, service, own, cancelled>>

HealthCancelled(p) ==
  /\ Continue(p, "health", "restore")
  /\ cancelled[p]
  /\ UNCHANGED <<hub, disk, lock, service, own, cancelled>>

IsActive(p) ==
  /\ Continue(p, "check", "accept")
  /\ ~cancelled[p] /\ service.up
  /\ UNCHANGED <<hub, disk, lock, service, own, cancelled>>

\* Deviation: is-active is polled until it succeeds.
CheckAgain(p) ==
  /\ Continue(p, "check", "check")
  /\ Broken(p, "systemctl") \/ ~service.up
  /\ UNCHANGED <<hub, disk, lock, service, own, cancelled>>

CheckFails(p) ==
  /\ Continue(p, "check", "restore")
  /\ Broken(p, "systemctl") \/ ~service.up
  /\ UNCHANGED <<hub, disk, lock, service, own, cancelled>>

\* Deviation: the backup is not removed.
AcceptOnly(p) ==
  /\ Return(p, "accept", "updated")
  /\ UNCHANGED <<hub, disk, lock, service, own, cancelled>>

\* os.Remove(backup), the last step of a successful update.
Accept(p) ==
  /\ \/ Return(p, "accept", "updated") /\ backup' = None
     \/ Fault("disk") /\ Return(p, "accept", "kept_backup") /\ UNCHANGED backup
  /\ UNCHANGED <<hub, exe, workdir, lock, service, own, cancelled>>

-----------------------------------------------------------------------------
\* Deviation: the rollback ends with the rename.
RestoreOnly(p) ==
  /\ Return(p, "restore", "rolled_back")
  /\ exe' = backup /\ backup' = None
  /\ UNCHANGED <<hub, workdir, lock, service, own, cancelled>>

\* rollback renames the backup over the executable ...
Restore(p) ==
  /\ Continue(p, "restore", "restart_previous")
  /\ exe' = backup /\ backup' = None
  /\ UNCHANGED <<hub, workdir, lock, service, own, cancelled>>

RestoreFails(p) ==
  /\ Return(p, "restore", "restore_failed")
  /\ Fault("disk")
  /\ UNCHANGED <<hub, disk, lock, service, own, cancelled>>

\* ... and restarts the service, under the context of the update.
RestartPrevious(p) ==
  /\ Return(p, "restart_previous", "rolled_back")
  /\ ~cancelled[p]
  /\ Restarted
  /\ UNCHANGED <<hub, disk, lock, own, cancelled>>

RestartPreviousFails(p) ==
  /\ Return(p, "restart_previous", "restart_failed")
  /\ NotRestarted(p)
  /\ UNCHANGED <<hub, disk, lock, own>>

-----------------------------------------------------------------------------
\* The deferred calls: RemoveAll(workDir), whose error nobody sees, and Close
\* of the lock file.
Cleanup(p) ==
  /\ Continue(p, "cleanup", "done")
  /\ workdir' = workdir \ {p} \/ (Fault("disk") /\ UNCHANGED workdir)
  /\ lock' = NoProc
  /\ UNCHANGED <<hub, exe, backup, service, own, cancelled>>

\* SIGINT or SIGTERM, caught by signal.NotifyContext.
Cancel(p) ==
  /\ Fault("cancel") /\ pc[p] \in Running /\ ~cancelled[p]
  /\ cancelled' = [cancelled EXCEPT ![p] = TRUE]
  /\ UNCHANGED <<hub, disk, lock, service, own, pc, result>>

\* Deviation: a lock file whose existence is the lock.
CrashKeepsLock(p) ==
  /\ Fault("crash") /\ pc[p] \in Running
  /\ pc' = [pc EXCEPT ![p] = "dead"]
  /\ UNCHANGED <<hub, disk, lock, service, own, cancelled, result>>

\* SIGKILL, or the SIGHUP of a closed terminal: no deferred call runs, the
\* kernel closes the lock file. A systemctl it was waiting for goes on.
Crash(p) ==
  /\ Fault("crash") /\ pc[p] \in Running
  /\ pc' = [pc EXCEPT ![p] = "dead"]
  /\ lock' = IF lock = p THEN NoProc ELSE lock
  /\ IF pc[p] \in {"restart", "restart_previous"} THEN Disturbed ELSE UNCHANGED service
  /\ UNCHANGED <<hub, disk, own, cancelled, result>>

\* The environment: a newer release, a service that exits, Restart=on-failure.
Publish ==
  /\ hub < Len(Releases)
  /\ hub' = hub + 1
  /\ UNCHANGED <<disk, lock, service, own, pc, cancelled, result>>

ServiceFails ==
  /\ service.up
  /\ service' = [service EXCEPT !.up = FALSE]
  /\ UNCHANGED <<hub, disk, lock, own, pc, cancelled, result>>

ServiceAutoRestarts ==
  /\ ~service.up
  /\ Restarted
  /\ UNCHANGED <<hub, disk, lock, own, pc, cancelled, result>>

-----------------------------------------------------------------------------
Prepare(p) ==
  \/ AcquireLock(p) \/ LockFails(p) \/ Fetch(p) \/ MkdirTemp(p)
  \/ DownloadFile(p) \/ VerifyChecksum(p) \/ ProbeCandidate(p) \/ ProbeHangs(p) \/ Abandon(p)

Install(p) ==
  \/ TruncateBackup(p) \/ CopyFile(p) \/ Replace(p) \/ ReplaceFails(p)
  \/ Restart(p) \/ RestartFails(p)
  \/ HealthTimer(p) \/ HealthCancelled(p) \/ IsActive(p) \/ CheckFails(p)
  \/ Accept(p)

Rollback(p) ==
  Restore(p) \/ RestoreFails(p) \/ RestartPrevious(p) \/ RestartPreviousFails(p)

\* Apply, step by step.
Apply(p) == Prepare(p) \/ Install(p) \/ Rollback(p) \/ Cleanup(p)

Environment == Publish \/ ServiceFails \/ ServiceAutoRestarts

Next ==
  \/ \E p \in Proc : Start(p) \/ Apply(p) \/ Cancel(p) \/ Crash(p)
  \/ Environment

Spec == Init /\ [][Next]_vars

\* One step of Apply waits without a bound, for a candidate that hangs, and is not
\* enabled meanwhile. The others end: HTTPClient has a timeout, flock is LOCK_NB,
\* the health wait is a timer, systemctl gives up after the unit's job timeout.
FairSpec == Spec /\ \A p \in Proc : WF_vars(Apply(p))

-----------------------------------------------------------------------------
\* Every variable holds a value of its kind; in particular the installed
\* executable is never a partial file, whatever fails between the truncation
\* of the backup and the renames (updater.go:87-101, 273-281).
TypeOK ==
  /\ hub \in 1..Len(Releases)
  /\ exe \in Binary
  /\ backup \in Binary \cup {None, Torn}
  /\ lock \in Proc \cup {NoProc}
  /\ service \in [up : BOOLEAN, bin : Binary]
  /\ workdir \subseteq Proc
  /\ pc \in [Proc -> PC]
  /\ cur \in [Proc -> Version]
  /\ rel \in [Proc -> 0..Len(Releases)]
  /\ got \in [Proc -> Binary \cup {None}]
  /\ cancelled \in [Proc -> BOOLEAN]
  /\ result \in [Proc -> Result]

\* b was there at the start, or is a published stable release whose checksum
\* and version were both right.
Trusted(b) ==
  b = Installed \/ \E i \in 1..hub :
    IsStable(Releases[i]) /\ Parses(Releases[i].tag) /\ Genuine(b, Releases[i])

\* The installed executable and the binary the service runs are only ever the
\* initial one or a verified release, through overlapping updates, damaged
\* downloads, rollbacks and crashes at any step (updater.go:60-101).
InstalledIsReleased == Trusted(exe) /\ Trusted(service.bin)

\* When Apply has returned success or "was rolled back", and before anyone
\* else may take the lock, the service runs the installed executable
\* (updater.go:96-105).
OutcomeMatchesService ==
  \A p \in Proc :
    pc[p] = "cleanup" /\ result[p] \in {"updated", "kept_backup", "rolled_back"}
      => service.bin = exe

\* With no update in progress, a service that runs something else than the
\* installed executable is the trace of an update that was killed or that
\* reported that its rollback could not restart or restore (updater.go:96-101).
DivergenceExplained ==
  lock = NoProc /\ service.bin # exe =>
    \E p \in Proc : pc[p] = "dead" \/ result[p] \in {"restore_failed", "restart_failed"}

\* A .previous file that outlives the update is the trace of an update that was
\* killed or met a disk error (updater.go:87-104).
BackupExplained ==
  lock = NoProc /\ backup # None =>
    \E p \in Proc : \/ pc[p] = "dead"
                    \/ result[p] \in {"failed", "kept_backup", "restore_failed"}

\* Putting a candidate in place never lowers the version, even for a process
\* whose own version is no longer the installed one: metadata is fetched under
\* the lock (updater.go:37-49, 91).
NoDowngrade ==
  [][\A p \in Proc : pc[p] = "replace" /\ pc'[p] = "restart"
        => NotOlder(Reports[exe], Reports[exe'])]_vars

\* An update is turned away as "already running" only while another process is
\* really inside Apply: a killed update blocks nobody (updater.go:126-136).
BusyOnlyWhileRunning ==
  [][\A p \in Proc : result[p] # "busy" /\ result'[p] = "busy"
        => \E q \in Proc \ {p} : pc[q] \in Holding]_vars

\* The process whose new binary is in place and not yet accepted.
Owner == IF lock # NoProc /\ pc[lock] \in Trial THEN lock ELSE NoProc

Atomic == INSTANCE AtomicUpdate WITH
            undo <- IF Owner = NoProc THEN None ELSE backup,
            owner <- Owner

\* Apply implements the update transaction: trials never overlap, the backup is
\* the replaced binary for as long as it may be needed, and a rollback puts
\* exactly that one back (updater.go:35-106, 273-281).
Transaction == Atomic!ASpec

\* Every update that started ends, unless its candidate hangs in `--version`
\* (updater.go:79); such an update ends as well once it is sent a signal.
Terminates ==
  \A p \in Proc :
    pc[p] = "lock" \/ (pc[p] = "hung" /\ cancelled[p])
      ~> pc[p] \in {"done", "dead"} \/ (pc[p] = "hung" /\ ~cancelled[p])

\* Updates end by leaving the service on the installed executable for good,
\* also after a failed health check or a disk error, unless one was killed or
\* reported that its rollback failed (updater.go:96-105).
ServiceSettles ==
  <>[](service.bin = exe \/ \E p \in Proc :
         pc[p] = "dead" \/ result[p] \in {"restore_failed", "restart_failed"})

\* README.md:318: "If the installed stable version is already current or newer,
\* the command exits without changing the installation."
CurrentLeftAlone ==
  \A p \in Proc : pc[p] = "replace" => IsNewer(Reports[exe], Reports[got[p]])

\* README.md:329: "Restores the previous binary and restarts the service if the
\* health check fails.": an update whose health check is given up because of a signal
\* has, when it has ended, left no service running on another binary than the
\* installed one.
PreviousRestarted ==
  \A p \in Proc :
    [](pc[p] = "health" /\ cancelled[p] => [](pc[p] = "done" /\ service.up => service.bin = exe))
=============================================================================
