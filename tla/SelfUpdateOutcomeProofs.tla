----------------------- MODULE SelfUpdateOutcomeProofs -----------------------
(***************************************************************************)
(* What is left when an update has ended: the service, the backup and the  *)
(* result Apply returned agree, the version has not gone down, and nobody  *)
(* was turned away without an update in progress; for any set of           *)
(* processes, releases and faults.                                         *)
(***************************************************************************)
EXTENDS SelfUpdateProofs

\* Updates that explain a service on another binary, and a backup left behind.
ServiceBlame ==
  \E p \in Proc : pc[p] = "dead" \/ result[p] \in {"restore_failed", "restart_failed"}
BackupBlame ==
  \E p \in Proc : pc[p] = "dead" \/ result[p] \in {"failed", "kept_backup", "restore_failed"}

\* A result is set once, when Apply returns.
ResultInv == \A p \in Proc : result[p] # "none" => pc[p] \in {"cleanup", "done", "dead"}

\* Between a restart that succeeded and the return, the service runs what is
\* installed.
ServiceInv ==
  \A p \in Proc :
    \/ pc[p] \in {"health", "check", "accept"}
    \/ pc[p] = "cleanup" /\ result[p] \in {"updated", "kept_backup", "rolled_back"}
    => service.bin = exe

\* Where the service and the executable may differ without an explanation yet,
\* and where a backup may exist.
DivergenceInv ==
  service.bin # exe =>
    ServiceBlame \/ \E p \in Proc : pc[p] \in {"restart", "restore", "restart_previous"}
LeftoverInv ==
  backup # None =>
    BackupBlame \/ \E p \in Proc : pc[p] \in {"copying", "replace"} \cup Trial

OutcomeInv == ResultInv /\ ServiceInv /\ DivergenceInv /\ LeftoverInv

\* The invariant of the outcomes holds before any update has started.
LEMMA OutcomeInit == Init => OutcomeInv
BY DEF Init, OutcomeInv, ResultInv, ServiceInv, DivergenceInv, LeftoverInv

\* A process whose location lies inside Apply holds the lock, so no two do.
LEMMA OneHolder ==
  ASSUME CoreInv, NEW p \in Proc, NEW q \in Proc, pc[p] \in Holding, pc[q] \in Holding
  PROVE  p = q
BY DEF CoreInv, LockInv

\* The steps of Apply before the backup change neither service nor files.
LEMMA OutcomePrepare ==
  ASSUME CoreInv, OutcomeInv, NEW p \in Proc, Prepare(p)
  PROVE  OutcomeInv'
<1> USE OneHolder DEF CoreInv, TypeOK, Holding, Running, Trial, OutcomeInv, ServiceBlame,
        BackupBlame, Goto, Continue, Return, disk, own, Result
<1>1. CASE AcquireLock(p)
  <2>1. ResultInv' BY <1>1 DEF AcquireLock, ResultInv
  <2>2. ServiceInv' BY <1>1 DEF AcquireLock, ServiceInv, ResultInv
  <2>3. DivergenceInv' BY <1>1 DEF AcquireLock, DivergenceInv, ServiceInv, ResultInv
  <2>4. LeftoverInv' BY <1>1 DEF AcquireLock, LeftoverInv, ResultInv
  <2> QED BY <2>1, <2>2, <2>3, <2>4
<1>2. CASE LockFails(p)
  <2>1. ResultInv' BY <1>2 DEF LockFails, ResultInv
  <2>2. ServiceInv' BY <1>2 DEF LockFails, ServiceInv, ResultInv
  <2>3. DivergenceInv' BY <1>2 DEF LockFails, DivergenceInv, ServiceInv, ResultInv
  <2>4. LeftoverInv' BY <1>2 DEF LockFails, LeftoverInv, ResultInv
  <2> QED BY <2>1, <2>2, <2>3, <2>4
<1>3. CASE Fetch(p)
  <2>1. ResultInv' BY <1>3 DEF Fetch, ResultInv
  <2>2. ServiceInv' BY <1>3 DEF Fetch, ServiceInv, ResultInv
  <2>3. DivergenceInv' BY <1>3 DEF Fetch, DivergenceInv, ServiceInv, ResultInv
  <2>4. LeftoverInv' BY <1>3 DEF Fetch, LeftoverInv, ResultInv
  <2> QED BY <2>1, <2>2, <2>3, <2>4
<1>4. CASE MkdirTemp(p)
  <2>1. ResultInv' BY <1>4 DEF MkdirTemp, ResultInv
  <2>2. ServiceInv' BY <1>4 DEF MkdirTemp, ServiceInv, ResultInv
  <2>3. DivergenceInv' BY <1>4 DEF MkdirTemp, DivergenceInv, ServiceInv, ResultInv
  <2>4. LeftoverInv' BY <1>4 DEF MkdirTemp, LeftoverInv, ResultInv
  <2> QED BY <2>1, <2>2, <2>3, <2>4
<1>5. CASE DownloadFile(p)
  <2>1. ResultInv' BY <1>5 DEF DownloadFile, ResultInv
  <2>2. ServiceInv' BY <1>5 DEF DownloadFile, ServiceInv, ResultInv
  <2>3. DivergenceInv' BY <1>5 DEF DownloadFile, DivergenceInv, ServiceInv, ResultInv
  <2>4. LeftoverInv' BY <1>5 DEF DownloadFile, LeftoverInv, ResultInv
  <2> QED BY <2>1, <2>2, <2>3, <2>4
<1>6. CASE VerifyChecksum(p)
  <2>1. ResultInv' BY <1>6 DEF VerifyChecksum, ResultInv
  <2>2. ServiceInv' BY <1>6 DEF VerifyChecksum, ServiceInv, ResultInv
  <2>3. DivergenceInv' BY <1>6 DEF VerifyChecksum, DivergenceInv, ServiceInv, ResultInv
  <2>4. LeftoverInv' BY <1>6 DEF VerifyChecksum, LeftoverInv, ResultInv
  <2> QED BY <2>1, <2>2, <2>3, <2>4
<1>7. CASE ProbeCandidate(p)
  <2>1. ResultInv' BY <1>7 DEF ProbeCandidate, ResultInv
  <2>2. ServiceInv' BY <1>7 DEF ProbeCandidate, ServiceInv, ResultInv
  <2>3. DivergenceInv' BY <1>7 DEF ProbeCandidate, DivergenceInv, ServiceInv, ResultInv
  <2>4. LeftoverInv' BY <1>7 DEF ProbeCandidate, LeftoverInv, ResultInv
  <2> QED BY <2>1, <2>2, <2>3, <2>4
<1>8. CASE Abandon(p)
  <2>1. ResultInv' BY <1>8 DEF Abandon, ResultInv
  <2>2. ServiceInv' BY <1>8 DEF Abandon, ServiceInv, ResultInv
  <2>3. DivergenceInv' BY <1>8 DEF Abandon, DivergenceInv, ServiceInv, ResultInv
  <2>4. LeftoverInv' BY <1>8 DEF Abandon, LeftoverInv, ResultInv
  <2> QED BY <2>1, <2>2, <2>3, <2>4
<1>9. CASE ProbeHangs(p)
  <2>1. ResultInv' BY <1>9 DEF ProbeHangs, ResultInv
  <2>2. ServiceInv' BY <1>9 DEF ProbeHangs, ServiceInv, ResultInv
  <2>3. DivergenceInv' BY <1>9 DEF ProbeHangs, DivergenceInv, ServiceInv, ResultInv
  <2>4. LeftoverInv' BY <1>9 DEF ProbeHangs, LeftoverInv, ResultInv
  <2> QED BY <2>1, <2>2, <2>3, <2>4
<1> QED BY <1>1, <1>2, <1>3, <1>4, <1>5, <1>6, <1>7, <1>8, <1>9 DEF Prepare

\* The backup, the replacement and the check.
LEMMA OutcomeInstall ==
  ASSUME CoreInv, OutcomeInv, NEW p \in Proc, Install(p)
  PROVE  OutcomeInv'
<1> USE OneHolder DEF CoreInv, TypeOK, Holding, Running, Trial, OutcomeInv, ServiceBlame,
        BackupBlame, Goto, Continue, Return, disk, own, Result
<1>1. CASE TruncateBackup(p)
  <2>1. ResultInv' BY <1>1 DEF TruncateBackup, ResultInv
  <2>2. ServiceInv' BY <1>1 DEF TruncateBackup, ServiceInv, ResultInv
  <2>3. DivergenceInv' BY <1>1 DEF TruncateBackup, DivergenceInv, ServiceInv, ResultInv
  <2>4. LeftoverInv' BY <1>1 DEF TruncateBackup, LeftoverInv, ResultInv
  <2> QED BY <2>1, <2>2, <2>3, <2>4
<1>2. CASE CopyFile(p)
  <2>1. ResultInv' BY <1>2 DEF CopyFile, ResultInv
  <2>2. ServiceInv' BY <1>2 DEF CopyFile, ServiceInv, ResultInv
  <2>3. DivergenceInv' BY <1>2 DEF CopyFile, DivergenceInv, ServiceInv, ResultInv
  <2>4. LeftoverInv' BY <1>2 DEF CopyFile, LeftoverInv, ResultInv
  <2> QED BY <2>1, <2>2, <2>3, <2>4
<1>3. CASE Replace(p)
  <2>1. ResultInv' BY <1>3 DEF Replace, ResultInv
  <2>2. ServiceInv' BY <1>3 DEF Replace, ServiceInv, ResultInv
  <2>3. DivergenceInv' BY <1>3 DEF Replace, DivergenceInv, ServiceInv, ResultInv
  <2>4. LeftoverInv' BY <1>3 DEF Replace, LeftoverInv, ResultInv
  <2> QED BY <2>1, <2>2, <2>3, <2>4
<1>4. CASE ReplaceFails(p)
  <2>1. ResultInv' BY <1>4 DEF ReplaceFails, ResultInv
  <2>2. ServiceInv' BY <1>4 DEF ReplaceFails, ServiceInv, ResultInv
  <2>3. DivergenceInv' BY <1>4 DEF ReplaceFails, DivergenceInv, ServiceInv, ResultInv
  <2>4. LeftoverInv' BY <1>4 DEF ReplaceFails, LeftoverInv, ResultInv
  <2> QED BY <2>1, <2>2, <2>3, <2>4
<1>5. CASE Restart(p)
  <2>1. ResultInv' BY <1>5 DEF Restart, ResultInv
  <2>2. ServiceInv' BY <1>5 DEF Restart, ServiceInv, ResultInv, Restarted
  <2>3. DivergenceInv' BY <1>5 DEF Restart, DivergenceInv, ServiceInv, ResultInv, Restarted
  <2>4. LeftoverInv' BY <1>5 DEF Restart, LeftoverInv, ResultInv
  <2> QED BY <2>1, <2>2, <2>3, <2>4
<1>6. CASE RestartFails(p)
  <2>1. UNCHANGED <<exe, backup>> BY <1>6 DEF RestartFails
  <2>2. ResultInv' BY <1>6 DEF RestartFails, ResultInv
  <2>3. ServiceInv'
    <3>1. CASE pc[p] \in Holding BY <1>6, <3>1 DEF RestartFails, ServiceInv
    <3>2. CASE pc[p] \notin Holding BY <1>6, <3>2 DEF RestartFails, ServiceInv
    <3> QED BY <3>1, <3>2
  <2>4. DivergenceInv' BY <1>6 DEF RestartFails, DivergenceInv
  <2>5. LeftoverInv' BY <1>6, <2>1 DEF RestartFails, LeftoverInv, ResultInv
  <2> QED BY <2>2, <2>3, <2>4, <2>5
<1>7. CASE HealthTimer(p)
  <2>1. ResultInv' BY <1>7 DEF HealthTimer, ResultInv
  <2>2. ServiceInv' BY <1>7 DEF HealthTimer, ServiceInv, ResultInv
  <2>3. DivergenceInv' BY <1>7 DEF HealthTimer, DivergenceInv, ServiceInv, ResultInv
  <2>4. LeftoverInv' BY <1>7 DEF HealthTimer, LeftoverInv, ResultInv
  <2> QED BY <2>1, <2>2, <2>3, <2>4
<1>8. CASE HealthCancelled(p)
  <2>1. ResultInv' BY <1>8 DEF HealthCancelled, ResultInv
  <2>2. ServiceInv' BY <1>8 DEF HealthCancelled, ServiceInv, ResultInv
  <2>3. DivergenceInv' BY <1>8 DEF HealthCancelled, DivergenceInv, ServiceInv, ResultInv
  <2>4. LeftoverInv' BY <1>8 DEF HealthCancelled, LeftoverInv, ResultInv
  <2> QED BY <2>1, <2>2, <2>3, <2>4
<1>9. CASE IsActive(p)
  <2>1. ResultInv' BY <1>9 DEF IsActive, ResultInv
  <2>2. ServiceInv' BY <1>9 DEF IsActive, ServiceInv, ResultInv
  <2>3. DivergenceInv' BY <1>9 DEF IsActive, DivergenceInv, ServiceInv, ResultInv
  <2>4. LeftoverInv' BY <1>9 DEF IsActive, LeftoverInv, ResultInv
  <2> QED BY <2>1, <2>2, <2>3, <2>4
<1>10. CASE CheckFails(p)
  <2>1. ResultInv' BY <1>10 DEF CheckFails, ResultInv
  <2>2. ServiceInv' BY <1>10 DEF CheckFails, ServiceInv, ResultInv
  <2>3. DivergenceInv' BY <1>10 DEF CheckFails, DivergenceInv, ServiceInv, ResultInv
  <2>4. LeftoverInv' BY <1>10 DEF CheckFails, LeftoverInv, ResultInv
  <2> QED BY <2>1, <2>2, <2>3, <2>4
<1>11. CASE Accept(p)
  <2>1. ResultInv' BY <1>11 DEF Accept, ResultInv
  <2>2. ServiceInv' BY <1>11 DEF Accept, ServiceInv, ResultInv
  <2>3. DivergenceInv' BY <1>11 DEF Accept, DivergenceInv, ServiceInv, ResultInv
  <2>4. LeftoverInv' BY <1>11 DEF Accept, LeftoverInv, ResultInv
  <2> QED BY <2>1, <2>2, <2>3, <2>4
<1> QED BY <1>1, <1>2, <1>3, <1>4, <1>5, <1>6, <1>7, <1>8, <1>9, <1>10, <1>11 DEF Install

\* The rollback.
LEMMA OutcomeRollback ==
  ASSUME CoreInv, OutcomeInv, NEW p \in Proc, Rollback(p)
  PROVE  OutcomeInv'
<1> USE OneHolder DEF CoreInv, TypeOK, Holding, Running, Trial, OutcomeInv, ServiceBlame,
        BackupBlame, Goto, Continue, Return, disk, own, Result
<1>1. CASE Restore(p)
  <2>1. ResultInv' BY <1>1 DEF Restore, ResultInv
  <2>2. ServiceInv' BY <1>1 DEF Restore, ServiceInv, ResultInv
  <2>3. DivergenceInv' BY <1>1 DEF Restore, DivergenceInv, ServiceInv, ResultInv
  <2>4. LeftoverInv' BY <1>1 DEF Restore, LeftoverInv, ResultInv
  <2> QED BY <2>1, <2>2, <2>3, <2>4
<1>2. CASE RestoreFails(p)
  <2>1. ResultInv' BY <1>2 DEF RestoreFails, ResultInv
  <2>2. ServiceInv' BY <1>2 DEF RestoreFails, ServiceInv, ResultInv
  <2>3. DivergenceInv' BY <1>2 DEF RestoreFails, DivergenceInv, ServiceInv, ResultInv
  <2>4. LeftoverInv' BY <1>2 DEF RestoreFails, LeftoverInv, ResultInv
  <2> QED BY <2>1, <2>2, <2>3, <2>4
<1>3. CASE RestartPrevious(p)
  <2>1. ResultInv' BY <1>3 DEF RestartPrevious, ResultInv
  <2>2. ServiceInv' BY <1>3 DEF RestartPrevious, ServiceInv, ResultInv, Restarted
  <2>3. DivergenceInv' BY <1>3 DEF RestartPrevious, DivergenceInv, ServiceInv, ResultInv, Restarted
  <2>4. LeftoverInv' BY <1>3 DEF RestartPrevious, LeftoverInv, ResultInv
  <2> QED BY <2>1, <2>2, <2>3, <2>4
<1>4. CASE RestartPreviousFails(p)
  <2>1. UNCHANGED <<exe, backup>> BY <1>4 DEF RestartPreviousFails
  <2>2. ResultInv' BY <1>4 DEF RestartPreviousFails, ResultInv
  <2>3. ServiceInv'
    <3>1. CASE pc[p] \in Holding BY <1>4, <3>1 DEF RestartPreviousFails, ServiceInv
    <3>2. CASE pc[p] \notin Holding BY <1>4, <3>2 DEF RestartPreviousFails, ServiceInv
    <3> QED BY <3>1, <3>2
  <2>4. DivergenceInv' BY <1>4 DEF RestartPreviousFails, DivergenceInv
  <2>5. LeftoverInv' BY <1>4, <2>1 DEF RestartPreviousFails, LeftoverInv, ResultInv
  <2> QED BY <2>2, <2>3, <2>4, <2>5
<1> QED BY <1>1, <1>2, <1>3, <1>4 DEF Rollback

\* The start and the end of an update, and what interrupts it.
LEMMA OutcomeOther ==
  ASSUME CoreInv, OutcomeInv, NEW p \in Proc, Start(p) \/ Cleanup(p) \/ Cancel(p) \/ Crash(p)
  PROVE  OutcomeInv'
<1> USE OneHolder DEF CoreInv, TypeOK, Holding, Running, Trial, OutcomeInv, ServiceBlame,
        BackupBlame, Goto, Continue, Return, disk, own, Result
<1>1. CASE Start(p)
  <2>1. ResultInv' BY <1>1 DEF Start, ResultInv
  <2>2. ServiceInv' BY <1>1 DEF Start, ServiceInv, ResultInv
  <2>3. DivergenceInv' BY <1>1 DEF Start, DivergenceInv, ServiceInv, ResultInv
  <2>4. LeftoverInv' BY <1>1 DEF Start, LeftoverInv, ResultInv
  <2> QED BY <2>1, <2>2, <2>3, <2>4
<1>2. CASE Cleanup(p)
  <2>1. ResultInv' BY <1>2 DEF Cleanup, ResultInv
  <2>2. ServiceInv' BY <1>2 DEF Cleanup, ServiceInv, ResultInv
  <2>3. DivergenceInv' BY <1>2 DEF Cleanup, DivergenceInv, ServiceInv, ResultInv
  <2>4. LeftoverInv' BY <1>2 DEF Cleanup, LeftoverInv, ResultInv
  <2> QED BY <2>1, <2>2, <2>3, <2>4
<1>3. CASE Cancel(p)
  <2>1. ResultInv' BY <1>3 DEF Cancel, ResultInv
  <2>2. ServiceInv' BY <1>3 DEF Cancel, ServiceInv, ResultInv
  <2>3. DivergenceInv' BY <1>3 DEF Cancel, DivergenceInv, ServiceInv, ResultInv
  <2>4. LeftoverInv' BY <1>3 DEF Cancel, LeftoverInv, ResultInv
  <2> QED BY <2>1, <2>2, <2>3, <2>4
<1>4. CASE Crash(p)
  <2>1. UNCHANGED <<exe, backup>> BY <1>4 DEF Crash
  <2>2. ResultInv' BY <1>4 DEF Crash, ResultInv
  <2>3. ServiceInv'
    <3>1. CASE pc[p] \in Holding BY <1>4, <3>1 DEF Crash, ServiceInv
    <3>2. CASE pc[p] \notin Holding BY <1>4, <3>2 DEF Crash, ServiceInv
    <3> QED BY <3>1, <3>2
  <2>4. DivergenceInv' BY <1>4 DEF Crash, DivergenceInv
  <2>5. LeftoverInv' BY <1>4, <2>1 DEF Crash, LeftoverInv, ResultInv
  <2> QED BY <2>2, <2>3, <2>4, <2>5
<1> QED BY <1>1, <1>2, <1>3, <1>4

\* Every step of the system keeps the invariant of the outcomes.
LEMMA OutcomeStep == CoreInv /\ OutcomeInv /\ [Next]_vars => OutcomeInv'
<1> SUFFICES ASSUME CoreInv, OutcomeInv, [Next]_vars PROVE OutcomeInv' OBVIOUS
<1>1. ASSUME NEW p \in Proc, Start(p) \/ Apply(p) \/ Cancel(p) \/ Crash(p)
      PROVE  OutcomeInv'
  BY <1>1, OutcomePrepare, OutcomeInstall, OutcomeRollback, OutcomeOther DEF Apply
<1> USE DEF CoreInv, TypeOK, OutcomeInv, ResultInv, ServiceInv, DivergenceInv, LeftoverInv,
            ServiceBlame, BackupBlame, disk, own
<1>2. CASE Publish BY <1>2 DEF Publish
<1>3. CASE ServiceFails BY <1>3 DEF ServiceFails
<1>4. CASE ServiceAutoRestarts BY <1>4 DEF ServiceAutoRestarts, Restarted
<1>5. CASE UNCHANGED vars BY <1>5 DEF vars
<1> QED BY <1>1, <1>2, <1>3, <1>4, <1>5 DEF Next, Environment

\* Both invariants hold in every reachable state.
LEMMA OutcomeAlways == Spec => [](CoreInv /\ OutcomeInv)
BY CoreAlways, OutcomeInit, OutcomeStep, PTL DEF Spec

\* The lock is free only when nobody is inside Apply.
LEMMA FreeLock ==
  ASSUME CoreInv, lock = NoProc, NEW p \in Proc PROVE pc[p] \notin Holding
BY SelfUpdateAssumption DEF CoreInv, LockInv

-----------------------------------------------------------------------------
\* Success, and a reported rollback, mean that the service runs the installed
\* executable.
THEOREM OutcomeIsTrue == Spec => []OutcomeMatchesService
<1>1. OutcomeInv => OutcomeMatchesService
  BY DEF OutcomeInv, ServiceInv, OutcomeMatchesService
<1> QED BY <1>1, OutcomeAlways, PTL

\* Between updates, the service runs the installed executable unless an update
\* was killed or reported that its rollback failed.
THEOREM DivergenceIsExplained == Spec => []DivergenceExplained
<1>1. CoreInv /\ OutcomeInv => DivergenceExplained
  BY FreeLock DEF OutcomeInv, DivergenceInv, DivergenceExplained, ServiceBlame, Holding, Running
<1> QED BY <1>1, OutcomeAlways, PTL

\* Between updates, a backup file is left only by an update that was killed or
\* met a disk error.
THEOREM BackupIsExplained == Spec => []BackupExplained
<1>1. CoreInv /\ OutcomeInv => BackupExplained
  BY FreeLock DEF OutcomeInv, LeftoverInv, BackupExplained, BackupBlame, Holding, Running, Trial
<1> QED BY <1>1, OutcomeAlways, PTL

-----------------------------------------------------------------------------
\* v is what was installed at the start or a release that is no older.
Since(v) ==
  \/ v = Reports[Installed]
  \/ Parses(v) /\ NotOlder(Reports[Installed], v)

\* b was there at the start or is one of the first n releases.
UpTo(b, n) ==
  \/ Reports[b] = Reports[Installed]
  \/ \E i \in 1..n : Parses(Releases[i].tag) /\ Reports[b] = Releases[i].tag

\* No process was built from anything older than the first binary; what is
\* installed, or may be put back, was published before now, and before what the
\* holder of the lock has fetched.
VersionInv ==
  /\ \A p \in Proc : Since(cur[p])
  /\ Since(Reports[exe]) /\ UpTo(exe, hub)
  /\ \A p \in Proc : pc[p] \in Trial => Since(Reports[backup]) /\ UpTo(backup, hub)
  /\ \A p \in Proc : pc[p] \in Fetched => UpTo(exe, rel[p])

-----------------------------------------------------------------------------
\* A version that is newer than one since the start is since the start.
LEMMA SinceNewer ==
  ASSUME NEW u \in Version, NEW v \in Version, Since(u), IsNewer(u, v)
  PROVE  Since(v)
<1>1. Parses(v) BY DEF IsNewer
<1>2. Reports[Installed] \in Version BY ReleaseAssumption, SelfUpdateAssumption
<1>3. CASE u = Reports[Installed] BY <1>1, <1>3 DEF Since, IsNewer, NotOlder
<1>4. CASE Parses(u) /\ NotOlder(Reports[Installed], u)
  <2>1. Precedes(u.part, v.part) BY <1>4 DEF IsNewer, Parses
  <2>2. CASE u = Reports[Installed] BY <1>3, <2>2
  <2>3. CASE Reports[Installed].kind = "dev" BY <1>1, <2>3 DEF Since, NotOlder
  <2>4. CASE Precedes(Reports[Installed].part, u.part)
    <3>1. Precedes(Reports[Installed].part, v.part)
      BY <1>2, <2>1, <2>4, PrecedesTransitive DEF Version
    <3> QED BY <1>1, <3>1 DEF Since, NotOlder
  <2> QED BY <1>4, <2>2, <2>3, <2>4 DEF NotOlder
<1> QED BY <1>3, <1>4 DEF Since

\* What is known of the candidate at the replacement.
LEMMA Candidate ==
  ASSUME CoreInv, VersionInv, NEW p \in Proc, pc[p] = "replace"
  PROVE  /\ rel[p] \in 1..hub /\ Reports[got[p]] = Releases[rel[p]].tag
         /\ Parses(Releases[rel[p]].tag)
         /\ Since(Reports[got[p]]) /\ NotOlder(Reports[exe], Reports[got[p]])
<1> USE SelfUpdateAssumption, ReleasesTyped DEF CoreInv, TypeOK
<1>1. /\ rel[p] \in 1..hub /\ Reports[got[p]] = Releases[rel[p]].tag
      /\ IsNewer(cur[p], Releases[rel[p]].tag)
  BY DEF CandidateInv, Fetched, Eligible
<1>2. rel[p] \in 1..Len(Releases) BY <1>1
<1>3. Releases[rel[p]].tag \in Version /\ cur[p] \in Version BY <1>2 DEF Release
<1>4. Parses(Releases[rel[p]].tag) BY <1>1 DEF IsNewer
<1>5. Since(Releases[rel[p]].tag) BY <1>1, <1>3, SinceNewer DEF VersionInv
<1>6. UpTo(exe, rel[p]) BY DEF VersionInv, Fetched
<1>7. CASE Reports[exe] = Reports[Installed] BY <1>1, <1>4, <1>5, <1>7 DEF Since, NotOlder
<1>8. CASE \E i \in 1..rel[p] : Parses(Releases[i].tag) /\ Reports[exe] = Releases[i].tag
  <2>1. PICK i \in 1..rel[p] : Parses(Releases[i].tag) /\ Reports[exe] = Releases[i].tag BY <1>8
  <2>2. CASE i = rel[p] BY <1>1, <1>4, <1>5, <2>1, <2>2 DEF NotOlder
  <2>3. CASE i < rel[p]
    <3>1. i \in 1..Len(Releases) BY <1>2
    <3>2. NotOlder(Releases[i].tag, Releases[rel[p]].tag)
      BY <1>2, <1>4, <2>1, <2>3, <3>1, PublicationOrder
    <3> QED BY <1>1, <1>4, <1>5, <2>1, <3>2
  <2>4. i \in Nat /\ rel[p] \in Nat /\ i <= rel[p] BY <1>2
  <2> QED BY <2>2, <2>3, <2>4
<1> QED BY <1>1, <1>4, <1>5, <1>6, <1>7, <1>8 DEF UpTo

\* A release that is published later takes nothing away.
LEMMA UpToLater ==
  ASSUME NEW b, NEW m \in Nat, NEW n \in Nat, m <= n, UpTo(b, m)
  PROVE  UpTo(b, n)
BY DEF UpTo

-----------------------------------------------------------------------------
\* Steps that leave both binaries, the versions of the processes and what they
\* have fetched, and start no trial.
Quiet ==
  /\ UNCHANGED <<exe, backup, cur, rel, hub>>
  /\ \A p \in Proc : pc'[p] \in Trial => pc[p] \in Trial
  /\ \A p \in Proc : pc'[p] \in Fetched => pc[p] \in Fetched

\* Such steps keep every claim about versions.
LEMMA QuietKeeps ==
  ASSUME VersionInv, Quiet
  PROVE  VersionInv'
BY DEF VersionInv, Quiet, Since, UpTo

\* The first half of Apply keeps the invariant; the release is fetched under the lock.
LEMMA VersionPrepare ==
  ASSUME CoreInv, VersionInv, NEW p \in Proc, Prepare(p)
  PROVE  VersionInv'
<1> USE DEF CoreInv, TypeOK, Goto, Continue, Return, disk, own
<1>1. CASE Fetch(p)
  <2>1. /\ UNCHANGED <<exe, backup, cur, hub>> /\ rel' = [rel EXCEPT ![p] = hub]
        /\ pc' = [pc EXCEPT ![p] = "mkdir"]
    BY <1>1 DEF Fetch
  <2>2. \A q \in Proc : pc'[q] \in Trial => pc[q] \in Trial BY <2>1 DEF Trial
  <2>3. \A q \in Proc : pc'[q] \in Fetched => UpTo(exe, rel'[q])
    <3> SUFFICES ASSUME NEW q \in Proc, pc'[q] \in Fetched PROVE UpTo(exe, rel'[q]) OBVIOUS
    <3>1. CASE q = p BY <2>1, <3>1 DEF VersionInv
    <3>2. CASE q # p BY <2>1, <3>2 DEF VersionInv
    <3> QED BY <3>1, <3>2
  <2> QED BY <2>1, <2>2, <2>3 DEF VersionInv, Since, UpTo
<1>2. CASE ~Fetch(p)
  <2>1. Quiet
    BY <1>2 DEF Quiet, Prepare, AcquireLock, LockFails, MkdirTemp, DownloadFile, VerifyChecksum,
                ProbeCandidate, ProbeHangs, Abandon, Trial, Fetched
  <2> QED BY <2>1, QuietKeeps
<1> QED BY <1>1, <1>2

\* Installing keeps the invariant: the candidate is a release since the start.
LEMMA VersionInstall ==
  ASSUME CoreInv, VersionInv, NEW p \in Proc, Install(p)
  PROVE  VersionInv'
<1> USE DEF CoreInv, TypeOK, Goto, Continue, Return, disk, own
<1>0. \A q \in Proc : q # p /\ pc[p] \in Holding => pc[q] \notin Holding
  BY SelfUpdateAssumption DEF LockInv
<1>1. CASE TruncateBackup(p) \/ CopyFile(p)
  <2>1. /\ UNCHANGED <<exe, cur, rel, hub>> /\ pc[p] \in Holding
        /\ pc[p] \in Fetched /\ \E x \in {"copying", "replace"} : pc' = [pc EXCEPT ![p] = x]
    BY <1>1 DEF TruncateBackup, CopyFile, Holding, Running, Fetched
  <2>2. \A q \in Proc : pc'[q] \notin Trial BY <1>0, <2>1 DEF Trial, Holding, Running
  <2>3. \A q \in Proc : pc'[q] \in Fetched => pc[q] \in Fetched BY <2>1
  <2> QED BY <2>1, <2>2, <2>3 DEF VersionInv, Since, UpTo
<1>2. CASE Replace(p)
  <2>1. /\ UNCHANGED <<backup, cur, rel, hub>> /\ exe' = got[p]
        /\ pc[p] = "replace" /\ pc' = [pc EXCEPT ![p] = "restart"] /\ backup = exe
    BY <1>2 DEF Replace, BackupInv
  <2>2. Since(Reports[got[p]]) /\ UpTo(got[p], hub) BY <2>1, Candidate DEF UpTo
  <2>3. \A q \in Proc : pc'[q] \notin Fetched
    BY <1>0, <2>1 DEF Fetched, Holding, Running
  <2> QED BY <2>1, <2>2, <2>3 DEF VersionInv, Since, UpTo
<1>3. CASE ReplaceFails(p)
  <2>1. /\ UNCHANGED <<exe, cur, rel, hub>> /\ pc[p] \in Holding
        /\ pc' = [pc EXCEPT ![p] = "cleanup"]
    BY <1>3 DEF ReplaceFails, Holding, Running
  <2>2. \A q \in Proc : pc'[q] \notin Trial BY <1>0, <2>1 DEF Trial, Holding, Running
  <2>3. \A q \in Proc : pc'[q] \in Fetched => pc[q] \in Fetched BY <2>1 DEF Fetched
  <2> QED BY <2>1, <2>2, <2>3 DEF VersionInv, Since, UpTo
<1>4. CASE Accept(p)
  <2>1. /\ UNCHANGED <<exe, cur, rel, hub>> /\ pc[p] \in Holding
        /\ pc' = [pc EXCEPT ![p] = "cleanup"]
    BY <1>4 DEF Accept, Holding, Running
  <2>2. \A q \in Proc : pc'[q] \notin Trial BY <1>0, <2>1 DEF Trial, Holding, Running
  <2>3. \A q \in Proc : pc'[q] \in Fetched => pc[q] \in Fetched BY <2>1 DEF Fetched
  <2> QED BY <2>1, <2>2, <2>3 DEF VersionInv, Since, UpTo
<1>5. CASE \/ Restart(p) \/ RestartFails(p) \/ HealthTimer(p) \/ HealthCancelled(p)
           \/ IsActive(p) \/ CheckFails(p)
  <2>1. Quiet
    BY <1>5 DEF Quiet, Restart, RestartFails, HealthTimer, HealthCancelled, IsActive, CheckFails,
                Trial, Fetched
  <2> QED BY <2>1, QuietKeeps
<1> QED BY <1>1, <1>2, <1>3, <1>4, <1>5 DEF Install

\* The rollback puts back a binary that was since the start.
LEMMA VersionRollback ==
  ASSUME CoreInv, VersionInv, NEW p \in Proc, Rollback(p)
  PROVE  VersionInv'
<1> USE DEF CoreInv, TypeOK, Goto, Continue, Return, disk, own
<1>1. CASE Restore(p)
  <2>1. /\ UNCHANGED <<cur, rel, hub>> /\ exe' = backup /\ pc[p] \in Trial /\ pc[p] \in Holding
        /\ pc' = [pc EXCEPT ![p] = "restart_previous"]
    BY <1>1 DEF Restore, Trial, Holding, Running
  <2>2. \A q \in Proc : pc'[q] \notin Trial /\ pc'[q] \notin Fetched
    BY <2>1, SelfUpdateAssumption DEF LockInv, Trial, Fetched, Holding, Running
  <2>3. Since(Reports[backup]) /\ UpTo(backup, hub) BY <2>1 DEF VersionInv
  <2> QED BY <2>1, <2>2, <2>3 DEF VersionInv, Since, UpTo
<1>2. CASE RestoreFails(p) \/ RestartPrevious(p) \/ RestartPreviousFails(p)
  <2>1. Quiet
    BY <1>2 DEF Quiet, RestoreFails, RestartPrevious, RestartPreviousFails, Trial, Fetched
  <2> QED BY <2>1, QuietKeeps
<1> QED BY <1>1, <1>2 DEF Rollback

\* A process that starts is built from what is installed; a release only adds.
LEMMA VersionOther ==
  ASSUME CoreInv, VersionInv,
         \/ Environment \/ UNCHANGED vars
         \/ \E p \in Proc : Start(p) \/ Cleanup(p) \/ Cancel(p) \/ Crash(p)
  PROVE  VersionInv'
<1> USE DEF CoreInv, TypeOK, Goto, Continue, Return, disk, own
<1>1. ASSUME NEW p \in Proc, Start(p) PROVE VersionInv'
  <2>1. /\ UNCHANGED <<exe, backup, rel, hub>> /\ cur' = [cur EXCEPT ![p] = Reports[exe]]
        /\ pc' = [pc EXCEPT ![p] = "lock"]
    BY <1>1 DEF Start
  <2>2. \A q \in Proc : Since(cur'[q]) BY <2>1 DEF VersionInv
  <2>3. \A q \in Proc : (pc'[q] \in Trial => pc[q] \in Trial) /\ (pc'[q] \in Fetched => pc[q] \in Fetched)
    BY <2>1 DEF Trial, Fetched
  <2> QED BY <2>1, <2>2, <2>3 DEF VersionInv, Since, UpTo
<1>2. ASSUME NEW p \in Proc, Cleanup(p) \/ Cancel(p) \/ Crash(p) PROVE VersionInv'
  <2>1. Quiet BY <1>2 DEF Quiet, Cleanup, Cancel, Crash, Trial, Fetched
  <2> QED BY <2>1, QuietKeeps
<1>3. CASE Publish
  <2>1. UNCHANGED <<exe, backup, cur, rel, pc>> /\ hub' = hub + 1 /\ hub \in Nat
    BY <1>3, ReleasesTyped DEF Publish
  <2>2. UpTo(exe, hub') BY <2>1, UpToLater DEF VersionInv
  <2>3. \A q \in Proc : pc[q] \in Trial => UpTo(backup, hub') BY <2>1, UpToLater DEF VersionInv
  <2> QED BY <2>1, <2>2, <2>3 DEF VersionInv, Since, UpTo
<1>4. CASE ServiceFails \/ ServiceAutoRestarts \/ UNCHANGED vars
  <2>1. Quiet BY <1>4 DEF Quiet, ServiceFails, ServiceAutoRestarts, vars
  <2> QED BY <2>1, QuietKeeps
<1> QED BY <1>1, <1>2, <1>3, <1>4 DEF Environment

\* Every step keeps the invariant.
LEMMA VersionStep == CoreInv /\ VersionInv /\ [Next]_vars => VersionInv'
<1> SUFFICES ASSUME CoreInv, VersionInv, [Next]_vars PROVE VersionInv' OBVIOUS
<1>1. ASSUME NEW p \in Proc, Apply(p) PROVE VersionInv'
  BY <1>1, VersionPrepare, VersionInstall, VersionRollback, VersionOther DEF Apply
<1> QED BY <1>1, VersionOther DEF Next

\* The invariant holds in every reachable state.
LEMMA VersionAlways == Spec => [](CoreInv /\ VersionInv)
<1>1. Init => VersionInv
  <2> SUFFICES ASSUME Init PROVE VersionInv OBVIOUS
  <2>1. \A p \in Proc : cur[p] = Reports[Installed] BY DEF Init
  <2>2. exe = Installed BY DEF Init
  <2>3. \A p \in Proc : pc[p] \notin Trial /\ pc[p] \notin Fetched BY DEF Init, Trial, Fetched
  <2>4. Since(Reports[Installed]) BY DEF Since
  <2>5. \A n : UpTo(Installed, n) BY DEF UpTo
  <2> QED BY <2>1, <2>2, <2>3, <2>4, <2>5 DEF VersionInv
<1> QED BY <1>1, CoreAlways, VersionStep, PTL DEF Spec

\* A replacement never lowers the version of what is installed.
THEOREM NeverDowngrades == Spec => NoDowngrade
<1>1. CoreInv /\ VersionInv /\ [Next]_vars =>
        [\A p \in Proc : pc[p] = "replace" /\ pc'[p] = "restart"
           => NotOlder(Reports[exe], Reports[exe'])]_vars
  <2> SUFFICES ASSUME CoreInv, VersionInv, Next, NEW p \in Proc, pc[p] = "replace", pc'[p] = "restart"
               PROVE  NotOlder(Reports[exe], Reports[exe'])
    OBVIOUS
  <2>1. exe' = got[p] \/ exe' = exe
    <3>1. \A q \in Proc : q # p => pc[q] \notin Holding
      BY SelfUpdateAssumption DEF CoreInv, LockInv, Holding, Running
    <3>2. ASSUME NEW q \in Proc, Restore(q) PROVE FALSE
      BY <3>1, <3>2 DEF Restore, Continue, Goto, Holding, Running
    <3>3. ASSUME NEW q \in Proc, Replace(q) PROVE exe' = got[p]
      BY <3>1, <3>3 DEF Replace, Continue, Goto, Holding, Running
    <3>4. exe' = exe \/ (\E q \in Proc : Restore(q) \/ Replace(q))
      BY DEF Next, Apply, Prepare, Install, Rollback, Environment, Start, Cancel, Crash, Cleanup,
             AcquireLock, LockFails, Fetch, MkdirTemp, DownloadFile, VerifyChecksum, ProbeCandidate,
             ProbeHangs, Abandon, TruncateBackup, CopyFile, ReplaceFails, Restart, RestartFails, HealthTimer,
             HealthCancelled, IsActive, CheckFails, Accept, RestoreFails, RestartPrevious,
             RestartPreviousFails, Publish, ServiceFails, ServiceAutoRestarts, disk
    <3> QED BY <3>2, <3>3, <3>4
  <2>2. NotOlder(Reports[exe], Reports[got[p]]) BY Candidate
  <2> QED BY <2>1, <2>2 DEF NotOlder
<1> QED BY <1>1, VersionAlways, PTL DEF Spec, NoDowngrade

-----------------------------------------------------------------------------
\* "Already running" is only said while another process holds the lock.
THEOREM BusyMeansRunning == Spec => BusyOnlyWhileRunning
<1>1. CoreInv /\ [Next]_vars =>
        [\A p \in Proc : result[p] # "busy" /\ result'[p] = "busy"
           => \E q \in Proc \ {p} : pc[q] \in Holding]_vars
  <2> SUFFICES ASSUME CoreInv, Next, NEW p \in Proc, result[p] # "busy", result'[p] = "busy"
               PROVE  \E q \in Proc \ {p} : pc[q] \in Holding
    OBVIOUS
  <2>1. LockFails(p) /\ lock # NoProc
    <3>1. ASSUME NEW q \in Proc, NEW r \in Result \ {"busy"}, result' = [result EXCEPT ![q] = r]
          PROVE  FALSE
      BY <3>1 DEF CoreInv, TypeOK
    <3>2. result' # result BY DEF CoreInv, TypeOK
    <3> HIDE DEF CoreInv
    <3>3. \/ \E q \in Proc : LockFails(q)
          \/ \E q \in Proc, r \in Result \ {"busy"} : result' = [result EXCEPT ![q] = r]
      BY <3>2
         DEF Next, Apply, Prepare, Install, Rollback, Environment, Start, Cancel, Crash, Cleanup,
             AcquireLock, Fetch, MkdirTemp, DownloadFile, VerifyChecksum, ProbeCandidate,
             ProbeHangs, Abandon, TruncateBackup, CopyFile, Replace, ReplaceFails, Restart, RestartFails,
             HealthTimer, HealthCancelled, IsActive, CheckFails, Accept, Restore, RestoreFails,
             RestartPrevious, RestartPreviousFails, Publish, ServiceFails, ServiceAutoRestarts,
             Continue, Return, Result
    <3>4. ASSUME NEW q \in Proc, LockFails(q) PROVE q = p /\ lock # NoProc
      BY <3>4 DEF LockFails, CoreInv, TypeOK
    <3> QED BY <3>1, <3>3, <3>4
  <2>2. lock \in Proc /\ pc[lock] \in Holding BY <2>1 DEF CoreInv, TypeOK, LockInv
  <2>3. pc[p] = "lock" BY <2>1 DEF LockFails, Goto
  <2>4. lock # p BY <2>2, <2>3 DEF Holding
  <2> QED BY <2>2, <2>4
<1> QED BY <1>1, CoreAlways, PTL DEF Spec, BusyOnlyWhileRunning
=============================================================================
