-------------------------- MODULE SelfUpdateProofs --------------------------
(***************************************************************************)
(* Proofs about SelfUpdate, for any set of processes, releases, binaries   *)
(* and faults.                                                             *)
(***************************************************************************)
EXTENDS SelfUpdate, ReleaseProofs

\* Program locations at which the fetched metadata is in use.
Fetched == {"mkdir", "download", "checksum", "probe", "hung", "backup", "copying", "replace"}

\* Exactly the process inside the locked part of Apply holds the lock.
LockInv == \A p \in Proc : pc[p] \in Holding <=> lock = p

\* What has been established about the candidate at each location.
CandidateInv ==
  \A p \in Proc :
    /\ pc[p] \in Fetched =>
         rel[p] \in 1..hub /\ Eligible(cur[p], Releases[rel[p]])
    /\ pc[p] \in {"checksum", "probe", "backup", "copying", "replace"} =>
         got[p] \in Binary
    /\ pc[p] \in {"probe", "backup", "copying", "replace"} =>
         got[p] = Expected(Releases[rel[p]])
    /\ pc[p] \in {"backup", "copying", "replace"} =>
         Reports[got[p]] = Releases[rel[p]].tag

\* The backup is the installed binary before the replacement, and a binary
\* that may be put back for as long as the trial lasts.
BackupInv ==
  \A p \in Proc :
    /\ pc[p] = "replace" => backup = exe
    /\ pc[p] \in Trial => backup \in Binary /\ Trusted(backup)

CoreInv == TypeOK /\ LockInv /\ CandidateInv /\ BackupInv /\ InstalledIsReleased

-----------------------------------------------------------------------------
\* Every published release is a record of its type.
LEMMA ReleasesTyped ==
  /\ Len(Releases) \in Nat /\ 1 \in 1..Len(Releases)
  /\ \A i \in 1..Len(Releases) : Releases[i] \in Release
BY SelfUpdateAssumption

\* The invariant holds before any update has started.
LEMMA CoreInit == Init => CoreInv
<1> SUFFICES ASSUME Init PROVE CoreInv OBVIOUS
<1> USE ReleaseAssumption, SelfUpdateAssumption, ReleasesTyped
<1>1. TypeOK BY DEF Init, TypeOK, PC, Running, Result
<1>2. LockInv BY DEF Init, LockInv, Holding, Running
<1>3. CandidateInv BY DEF Init, CandidateInv, Fetched
<1>4. BackupInv BY DEF Init, BackupInv, Trial
<1>5. InstalledIsReleased BY DEF Init, InstalledIsReleased, Trusted
<1> QED BY <1>1, <1>2, <1>3, <1>4, <1>5 DEF CoreInv

\* Whatever systemctl was stopped at, the service runs what it ran or what is
\* installed.
LEMMA DisturbedBinary ==
  ASSUME service \in [up : BOOLEAN, bin : Binary], exe \in Binary, Disturbed
  PROVE  service' \in [up : BOOLEAN, bin : Binary] /\ service'.bin \in {service.bin, exe}
<1>1. CASE service' = service BY <1>1
<1>2. CASE service' = [service EXCEPT !.up = FALSE] BY <1>2
<1>3. CASE service' = [up |-> TRUE, bin |-> exe] BY <1>3
<1> QED BY <1>1, <1>2, <1>3 DEF Disturbed

\* The steps of Apply before the backup.
LEMMA CorePrepare ==
  ASSUME CoreInv, NEW p \in Proc, Prepare(p) PROVE CoreInv'
<1> USE ReleaseAssumption, SelfUpdateAssumption, ReleasesTyped
<1> USE DEF CoreInv, TypeOK, PC, Running, Holding, Trial, Fetched, Result,
            disk, own, Goto, Continue, Return, Fault
<1>1. CASE AcquireLock(p)
  BY <1>1 DEF AcquireLock, LockInv, CandidateInv, BackupInv, InstalledIsReleased, Trusted
<1>2. CASE LockFails(p)
  BY <1>2 DEF LockFails, LockInv, CandidateInv, BackupInv, InstalledIsReleased, Trusted
<1>3. CASE Fetch(p)
  <2>1. TypeOK' BY <1>3 DEF Fetch
  <2>2. LockInv' BY <1>3 DEF Fetch, LockInv
  <2>3. CandidateInv' BY <1>3 DEF Fetch, CandidateInv, LockInv
  <2>4. BackupInv' BY <1>3 DEF Fetch, BackupInv, LockInv, InstalledIsReleased, Trusted
  <2>5. InstalledIsReleased'
    BY <1>3 DEF Fetch, InstalledIsReleased, Trusted
  <2> QED BY <2>1, <2>2, <2>3, <2>4, <2>5
<1>4. CASE MkdirTemp(p)
  BY <1>4 DEF MkdirTemp, LockInv, CandidateInv, BackupInv, InstalledIsReleased, Trusted
<1>5. CASE DownloadFile(p)
  <2>1. TypeOK' BY <1>5 DEF DownloadFile
  <2>2. LockInv' BY <1>5 DEF DownloadFile, LockInv
  <2>3. CandidateInv' BY <1>5 DEF DownloadFile, CandidateInv, LockInv
  <2>4. BackupInv' BY <1>5 DEF DownloadFile, BackupInv, LockInv, InstalledIsReleased, Trusted
  <2>5. InstalledIsReleased'
    BY <1>5 DEF DownloadFile, InstalledIsReleased, Trusted
  <2> QED BY <2>1, <2>2, <2>3, <2>4, <2>5
<1>6. CASE VerifyChecksum(p)
  <2>1. TypeOK' BY <1>6 DEF VerifyChecksum
  <2>2. LockInv' BY <1>6 DEF VerifyChecksum, LockInv
  <2>3. CandidateInv' BY <1>6 DEF VerifyChecksum, CandidateInv, LockInv
  <2>4. BackupInv' BY <1>6 DEF VerifyChecksum, BackupInv, LockInv, InstalledIsReleased, Trusted
  <2>5. InstalledIsReleased'
    BY <1>6 DEF VerifyChecksum, InstalledIsReleased, Trusted
  <2> QED BY <2>1, <2>2, <2>3, <2>4, <2>5
<1>7. CASE ProbeCandidate(p)
  BY <1>7 DEF ProbeCandidate, LockInv, CandidateInv, BackupInv, InstalledIsReleased, Trusted
<1>8. CASE Abandon(p)
  <2>1. \E from \in Fetched \cup {"fetch"} : Return(p, from, "failed")
    BY <1>8 DEF Abandon
  <2>2. UNCHANGED <<hub, exe, backup, workdir, lock, service, cur, rel, got, cancelled>>
    BY <1>8 DEF Abandon
  <2>3. TypeOK' BY <2>1, <2>2
  <2>4. LockInv' BY <2>1, <2>2 DEF LockInv
  <2>5. CandidateInv' BY <2>1, <2>2 DEF CandidateInv
  <2>6. BackupInv' BY <2>1, <2>2 DEF BackupInv, Trusted
  <2>7. InstalledIsReleased' BY <2>2 DEF InstalledIsReleased, Trusted
  <2> QED BY <2>3, <2>4, <2>5, <2>6, <2>7
<1>9. CASE ProbeHangs(p)
  BY <1>9 DEF ProbeHangs, LockInv, CandidateInv, BackupInv, InstalledIsReleased, Trusted
<1> QED BY <1>1, <1>2, <1>3, <1>4, <1>5, <1>6, <1>7, <1>8, <1>9 DEF Prepare

\* The backup, the replacement and the check.
LEMMA CoreInstall ==
  ASSUME CoreInv, NEW p \in Proc, Install(p) PROVE CoreInv'
<1> USE ReleaseAssumption, SelfUpdateAssumption, ReleasesTyped
<1> USE DEF CoreInv, TypeOK, PC, Running, Holding, Trial, Fetched, Result,
            disk, own, Goto, Continue, Return, Fault
<1>1. CASE TruncateBackup(p)
  <2>1. TypeOK' BY <1>1 DEF TruncateBackup
  <2>2. LockInv' BY <1>1 DEF TruncateBackup, LockInv
  <2>3. CandidateInv' BY <1>1 DEF TruncateBackup, CandidateInv, LockInv
  <2>4. BackupInv' BY <1>1 DEF TruncateBackup, BackupInv, LockInv, InstalledIsReleased, Trusted
  <2>5. InstalledIsReleased'
    BY <1>1 DEF TruncateBackup, InstalledIsReleased, Trusted
  <2> QED BY <2>1, <2>2, <2>3, <2>4, <2>5
<1>2. CASE CopyFile(p)
  <2>1. TypeOK' BY <1>2 DEF CopyFile
  <2>2. LockInv' BY <1>2 DEF CopyFile, LockInv
  <2>3. CandidateInv' BY <1>2 DEF CopyFile, CandidateInv, LockInv
  <2>4. BackupInv' BY <1>2 DEF CopyFile, BackupInv, LockInv, InstalledIsReleased, Trusted
  <2>5. InstalledIsReleased'
    BY <1>2 DEF CopyFile, InstalledIsReleased, Trusted
  <2> QED BY <2>1, <2>2, <2>3, <2>4, <2>5
<1>3. CASE Replace(p)
  <2>1. pc[p] = "replace" /\ lock = p /\ got[p] \in Binary
    BY <1>3 DEF Replace, LockInv, CandidateInv
  <2>2. Trusted(got[p])
    <3>1. rel[p] \in 1..hub /\ Genuine(got[p], Releases[rel[p]])
      BY <2>1 DEF CandidateInv, Genuine
    <3>2. IsStable(Releases[rel[p]]) /\ Parses(Releases[rel[p]].tag)
      BY <2>1 DEF CandidateInv, Eligible, IsNewer
    <3> QED BY <3>1, <3>2 DEF Trusted
  <2>3. TypeOK' BY <1>3, <2>1 DEF Replace
  <2>4. LockInv' BY <1>3 DEF Replace, LockInv
  <2>5. CandidateInv' BY <1>3 DEF Replace, CandidateInv
  <2>6. BackupInv'
    BY <1>3, <2>1 DEF Replace, BackupInv, LockInv, InstalledIsReleased, Trusted
  <2>7. InstalledIsReleased'
    BY <1>3, <2>2 DEF Replace, InstalledIsReleased, Trusted
  <2> QED BY <2>3, <2>4, <2>5, <2>6, <2>7
<1>4. CASE ReplaceFails(p)
  <2>1. TypeOK' BY <1>4 DEF ReplaceFails
  <2>2. LockInv' BY <1>4 DEF ReplaceFails, LockInv
  <2>3. CandidateInv' BY <1>4 DEF ReplaceFails, CandidateInv, LockInv
  <2>4. BackupInv'
    <3>1. lock = p /\ pc'[p] = "cleanup" BY <1>4 DEF ReplaceFails, LockInv
    <3>2. \A q \in Proc : pc'[q] \notin Trial \cup {"replace"}
      BY <1>4, <3>1 DEF ReplaceFails, LockInv
    <3> QED BY <3>2 DEF BackupInv
  <2>5. InstalledIsReleased'
    BY <1>4 DEF ReplaceFails, InstalledIsReleased, Trusted
  <2> QED BY <2>1, <2>2, <2>3, <2>4, <2>5
<1>5. CASE Restart(p)
  <2>1. TypeOK' BY <1>5 DEF Restart, Restarted
  <2>2. LockInv' BY <1>5 DEF Restart, LockInv, Restarted
  <2>3. CandidateInv' BY <1>5 DEF Restart, CandidateInv, LockInv, Restarted
  <2>4. BackupInv' BY <1>5 DEF Restart, BackupInv, LockInv, InstalledIsReleased, Trusted, Restarted
  <2>5. InstalledIsReleased'
    BY <1>5 DEF Restart, InstalledIsReleased, Trusted, Restarted
  <2> QED BY <2>1, <2>2, <2>3, <2>4, <2>5
<1>6. CASE RestartFails(p)
  <2>1. /\ service' \in [up : BOOLEAN, bin : Binary]
        /\ service'.bin \in {service.bin, exe}
        /\ cancelled' \in [Proc -> BOOLEAN]
    BY <1>6, DisturbedBinary DEF RestartFails, NotRestarted
  <2> HIDE DEF Fault
  <2>2. TypeOK' BY <1>6, <2>1 DEF RestartFails
  <2>3. LockInv' BY <1>6 DEF RestartFails, LockInv
  <2>4. CandidateInv' BY <1>6 DEF RestartFails, CandidateInv
  <2>5. BackupInv' BY <1>6 DEF RestartFails, BackupInv, Trusted
  <2>6. InstalledIsReleased'
    BY <1>6, <2>1 DEF RestartFails, InstalledIsReleased, Trusted
  <2> QED BY <2>2, <2>3, <2>4, <2>5, <2>6
<1>7. CASE HealthTimer(p)
  BY <1>7 DEF HealthTimer, LockInv, CandidateInv, BackupInv, InstalledIsReleased, Trusted
<1>8. CASE HealthCancelled(p)
  BY <1>8 DEF HealthCancelled, LockInv, CandidateInv, BackupInv, InstalledIsReleased, Trusted
<1>9. CASE IsActive(p)
  BY <1>9 DEF IsActive, LockInv, CandidateInv, BackupInv, InstalledIsReleased, Trusted
<1>10. CASE CheckFails(p)
  BY <1>10 DEF CheckFails, LockInv, CandidateInv, BackupInv, InstalledIsReleased, Trusted
<1>11. CASE Accept(p)
  <2>1. TypeOK'
    <3>1. backup' \in Binary \cup {None, Torn} BY <1>11 DEF Accept
    <3>2. \E r \in Result : Return(p, "accept", r) BY <1>11 DEF Accept
    <3>3. pc' \in [Proc -> PC] /\ result' \in [Proc -> Result] BY <3>2
    <3> QED BY <1>11, <3>1, <3>3 DEF Accept
  <2>2. LockInv' BY <1>11 DEF Accept, LockInv
  <2>3. CandidateInv' BY <1>11 DEF Accept, CandidateInv, LockInv
  <2>4. BackupInv'
    <3>1. lock = p /\ pc'[p] = "cleanup" BY <1>11 DEF Accept, LockInv
    <3>2. \A q \in Proc : pc'[q] \notin Trial \cup {"replace"}
      BY <1>11, <3>1 DEF Accept, LockInv
    <3> QED BY <3>2 DEF BackupInv
  <2>5. InstalledIsReleased'
    BY <1>11 DEF Accept, InstalledIsReleased, Trusted
  <2> QED BY <2>1, <2>2, <2>3, <2>4, <2>5
<1> QED BY <1>1, <1>2, <1>3, <1>4, <1>5, <1>6, <1>7, <1>8, <1>9, <1>10, <1>11 DEF Install

\* The rollback.
LEMMA CoreRollback ==
  ASSUME CoreInv, NEW p \in Proc, Rollback(p) PROVE CoreInv'
<1> USE ReleaseAssumption, SelfUpdateAssumption, ReleasesTyped
<1> USE DEF CoreInv, TypeOK, PC, Running, Holding, Trial, Fetched, Result,
            disk, own, Goto, Continue, Return, Fault
<1>1. CASE Restore(p)
  <2>0. backup \in Binary /\ Trusted(backup) BY <1>1 DEF Restore, BackupInv
  <2>1. TypeOK' BY <1>1, <2>0 DEF Restore
  <2>2. LockInv' BY <1>1 DEF Restore, LockInv
  <2>3. CandidateInv' BY <1>1 DEF Restore, CandidateInv, LockInv
  <2>4. BackupInv'
    <3>1. lock = p /\ pc'[p] = "restart_previous" BY <1>1 DEF Restore, LockInv
    <3>2. \A q \in Proc : pc'[q] \notin Trial \cup {"replace"}
      BY <1>1, <3>1 DEF Restore, LockInv
    <3> QED BY <3>2 DEF BackupInv
  <2>5. InstalledIsReleased'
    BY <1>1, <2>0 DEF Restore, InstalledIsReleased, Trusted
  <2> QED BY <2>1, <2>2, <2>3, <2>4, <2>5
<1>2. CASE RestoreFails(p)
  BY <1>2 DEF RestoreFails, LockInv, CandidateInv, BackupInv, InstalledIsReleased, Trusted
<1>3. CASE RestartPrevious(p)
  <2>1. TypeOK' BY <1>3 DEF RestartPrevious, Restarted
  <2>2. LockInv' BY <1>3 DEF RestartPrevious, LockInv, Restarted
  <2>3. CandidateInv' BY <1>3 DEF RestartPrevious, CandidateInv, LockInv, Restarted
  <2>4. BackupInv' BY <1>3 DEF RestartPrevious, BackupInv, LockInv, InstalledIsReleased, Trusted, Restarted
  <2>5. InstalledIsReleased'
    BY <1>3 DEF RestartPrevious, InstalledIsReleased, Trusted, Restarted
  <2> QED BY <2>1, <2>2, <2>3, <2>4, <2>5
<1>4. CASE RestartPreviousFails(p)
  <2>1. /\ service' \in [up : BOOLEAN, bin : Binary]
        /\ service'.bin \in {service.bin, exe}
        /\ cancelled' \in [Proc -> BOOLEAN]
    BY <1>4, DisturbedBinary DEF RestartPreviousFails, NotRestarted
  <2> HIDE DEF Fault
  <2>2. TypeOK' BY <1>4, <2>1 DEF RestartPreviousFails
  <2>3. LockInv' BY <1>4 DEF RestartPreviousFails, LockInv
  <2>4. CandidateInv' BY <1>4 DEF RestartPreviousFails, CandidateInv
  <2>5. BackupInv' BY <1>4 DEF RestartPreviousFails, BackupInv, Trusted
  <2>6. InstalledIsReleased'
    BY <1>4, <2>1 DEF RestartPreviousFails, InstalledIsReleased, Trusted
  <2> QED BY <2>2, <2>3, <2>4, <2>5, <2>6
<1> QED BY <1>1, <1>2, <1>3, <1>4 DEF Rollback

\* The end of an update, and the steps that are not its own.
LEMMA CoreOther ==
  ASSUME CoreInv, NEW p \in Proc, Start(p) \/ Cleanup(p) \/ Cancel(p) \/ Crash(p)
  PROVE  CoreInv'
<1> USE ReleaseAssumption, SelfUpdateAssumption, ReleasesTyped
<1> USE DEF CoreInv, TypeOK, PC, Running, Holding, Trial, Fetched, Result,
            disk, own, Goto, Continue, Return, Fault
<1>1. CASE Start(p)
  BY <1>1 DEF Start, LockInv, CandidateInv, BackupInv, InstalledIsReleased, Trusted
<1>2. CASE Cleanup(p)
  BY <1>2 DEF Cleanup, LockInv, CandidateInv, BackupInv, InstalledIsReleased, Trusted
<1>3. CASE Cancel(p)
  BY <1>3 DEF Cancel, LockInv, CandidateInv, BackupInv, InstalledIsReleased, Trusted
<1>4. CASE Crash(p)
  <2>1. /\ service' \in [up : BOOLEAN, bin : Binary]
        /\ service'.bin \in {service.bin, exe}
    BY <1>4, DisturbedBinary DEF Crash
  <2>2. TypeOK' BY <1>4, <2>1 DEF Crash
  <2>3. LockInv' BY <1>4 DEF Crash, LockInv
  <2>4. CandidateInv' BY <1>4 DEF Crash, CandidateInv
  <2>5. BackupInv' BY <1>4 DEF Crash, BackupInv, Trusted
  <2>6. InstalledIsReleased'
    BY <1>4, <2>1 DEF Crash, InstalledIsReleased, Trusted
  <2> QED BY <2>2, <2>3, <2>4, <2>5, <2>6
<1> QED BY <1>1, <1>2, <1>3, <1>4

\* A new release and the comings and goings of the service.
LEMMA CoreEnvironment ==
  ASSUME CoreInv, Environment PROVE CoreInv'
<1> USE ReleaseAssumption, SelfUpdateAssumption, ReleasesTyped
<1> USE DEF CoreInv, TypeOK, PC, Running, Holding, Trial, Fetched, Result,
            disk, own, Goto, Continue, Return, Fault
<1>1. CASE Publish
  BY <1>1 DEF Publish, LockInv, CandidateInv, BackupInv, InstalledIsReleased, Trusted
<1>2. CASE ServiceFails
  BY <1>2 DEF ServiceFails, LockInv, CandidateInv, BackupInv, InstalledIsReleased, Trusted
<1>3. CASE ServiceAutoRestarts
  BY <1>3 DEF ServiceAutoRestarts, Restarted, LockInv, CandidateInv, BackupInv, InstalledIsReleased, Trusted
<1> QED BY <1>1, <1>2, <1>3 DEF Environment

\* Every step of the system keeps the invariant.
LEMMA CoreStep == CoreInv /\ [Next]_vars => CoreInv'
<1> SUFFICES ASSUME CoreInv, [Next]_vars PROVE CoreInv' OBVIOUS
<1>1. ASSUME NEW p \in Proc, Start(p) \/ Apply(p) \/ Cancel(p) \/ Crash(p)
      PROVE  CoreInv'
  BY <1>1, CorePrepare, CoreInstall, CoreRollback, CoreOther DEF Apply
<1>2. CASE Environment BY <1>2, CoreEnvironment
<1>3. CASE UNCHANGED vars
  BY <1>3 DEF vars, disk, own, CoreInv, TypeOK, LockInv, CandidateInv, BackupInv,
              InstalledIsReleased, Trusted
<1> QED BY <1>1, <1>2, <1>3 DEF Next

\* The invariant holds in every reachable state.
LEMMA CoreAlways == Spec => []CoreInv
BY CoreInit, CoreStep, PTL DEF Spec

-----------------------------------------------------------------------------
\* Whatever fails and whenever a process is killed, the installed executable is
\* a complete binary and every other variable keeps its type.
THEOREM TypeCorrect == Spec => []TypeOK
BY CoreAlways, PTL DEF CoreInv

\* Only the initial binary or a verified release is ever installed or run by the
\* service.
THEOREM OnlyReleasesInstalled == Spec => []InstalledIsReleased
BY CoreAlways, PTL DEF CoreInv
-----------------------------------------------------------------------------
\* Refinement of AtomicUpdate.

\* What the abstract transaction does not see.
Unseen ==
  /\ exe' = exe /\ Owner' = Owner
  /\ Owner # NoProc => backup' = backup

\* An unseen step leaves the abstract state alone.
LEMMA UnseenStutters == Unseen => UNCHANGED Atomic!avars
BY DEF Unseen, Atomic!avars

\* Nothing before the replacement is seen.
LEMMA PrepareUnseen ==
  ASSUME CoreInv, NEW p \in Proc, Prepare(p) PROVE Unseen
<1> USE SelfUpdateAssumption
    DEF CoreInv, TypeOK, LockInv, Holding, Running, Trial, Unseen, Owner,
        Goto, Continue, Return, disk, own
<1>1. CASE AcquireLock(p) BY <1>1 DEF AcquireLock
<1>2. CASE LockFails(p)
  <2>1. \A q \in Proc : pc'[q] \in Trial <=> pc[q] \in Trial BY <1>2 DEF LockFails
  <2>2. UNCHANGED <<exe, backup, lock>> BY <1>2 DEF LockFails
  <2> QED BY <2>1, <2>2
<1>3. CASE \/ Fetch(p) \/ MkdirTemp(p) \/ DownloadFile(p) \/ VerifyChecksum(p)
           \/ ProbeCandidate(p) \/ ProbeHangs(p) \/ Abandon(p)
  <2>1. \E from, to \in Holding \ Trial : Goto(p, from, to)
    BY <1>3 DEF Fetch, MkdirTemp, DownloadFile, VerifyChecksum, ProbeCandidate, ProbeHangs, Abandon
  <2>2. UNCHANGED <<exe, backup, lock>>
    BY <1>3 DEF Fetch, MkdirTemp, DownloadFile, VerifyChecksum, ProbeCandidate, ProbeHangs, Abandon
  <2> QED BY <2>1, <2>2
<1> QED BY <1>1, <1>2, <1>3 DEF Prepare

\* Of the steps of Install, Replace begins a trial and Accept ends one.
LEMMA InstallImplements ==
  ASSUME CoreInv, NEW p \in Proc, Install(p)
  PROVE  Unseen \/ Atomic!Begin(p) \/ Atomic!Keep
<1> USE SelfUpdateAssumption
    DEF CoreInv, TypeOK, LockInv, Holding, Running, Trial, Owner,
        Goto, Continue, Return, disk, own
<1>1. CASE TruncateBackup(p) \/ CopyFile(p) \/ ReplaceFails(p)
  BY <1>1 DEF TruncateBackup, CopyFile, ReplaceFails, Unseen
<1>2. CASE Replace(p)
  BY <1>2 DEF Replace, Atomic!Begin, CandidateInv, BackupInv
<1>3. CASE \/ Restart(p) \/ RestartFails(p) \/ HealthTimer(p) \/ HealthCancelled(p)
           \/ IsActive(p) \/ CheckFails(p)
  <2>1. \E from, to \in Trial : Goto(p, from, to)
    BY <1>3 DEF Restart, RestartFails, HealthTimer, HealthCancelled, IsActive, CheckFails
  <2>2. UNCHANGED <<exe, backup, lock>>
    BY <1>3 DEF Restart, RestartFails, HealthTimer, HealthCancelled, IsActive, CheckFails
  <2> QED BY <2>1, <2>2 DEF Unseen
<1>4. CASE Accept(p)
  <2>1. pc[p] = "accept" /\ lock = p /\ p # NoProc BY <1>4 DEF Accept
  <2>2. pc'[p] = "cleanup" /\ UNCHANGED <<lock, exe>> BY <1>4, <2>1 DEF Accept
  <2>3. Owner = p BY <2>1
  <2>4. Owner' = NoProc BY <2>1, <2>2
  <2> QED BY <2>1, <2>2, <2>3, <2>4 DEF Atomic!Keep
<1> QED BY <1>1, <1>2, <1>3, <1>4 DEF Install

\* Restore reverts the trial, a failed restore ends it with the new binary.
LEMMA RollbackImplements ==
  ASSUME CoreInv, NEW p \in Proc, Rollback(p)
  PROVE  Unseen \/ Atomic!Keep \/ Atomic!Revert
<1> USE SelfUpdateAssumption
    DEF CoreInv, TypeOK, LockInv, Holding, Running, Trial, Owner,
        Goto, Continue, Return, disk, own
<1>1. CASE Restore(p)
  BY <1>1 DEF Restore, Atomic!Revert
<1>2. CASE RestoreFails(p)
  BY <1>2 DEF RestoreFails, Atomic!Keep
<1>3. CASE RestartPrevious(p) \/ RestartPreviousFails(p)
  BY <1>3 DEF RestartPrevious, RestartPreviousFails, Unseen
<1> QED BY <1>1, <1>2, <1>3 DEF Rollback

\* A kill during a trial ends it with the new binary; the rest is not seen.
LEMMA OtherImplements ==
  ASSUME CoreInv, NEW p \in Proc, Start(p) \/ Cleanup(p) \/ Cancel(p) \/ Crash(p)
  PROVE  Unseen \/ Atomic!Keep
<1> USE SelfUpdateAssumption
    DEF CoreInv, TypeOK, LockInv, Holding, Running, Trial, Owner,
        Goto, Continue, disk, own
<1>1. CASE Start(p)
  <2>1. \A q \in Proc : pc'[q] \in Trial <=> pc[q] \in Trial BY <1>1 DEF Start
  <2> QED BY <1>1, <2>1 DEF Start, Unseen
<1>2. CASE Cleanup(p) BY <1>2 DEF Cleanup, Unseen
<1>3. CASE Cancel(p) BY <1>3 DEF Cancel, Unseen
<1>4. CASE Crash(p)
  <2>1. CASE lock = p BY <1>4, <2>1 DEF Crash, Unseen, Atomic!Keep
  <2>2. CASE lock # p BY <1>4, <2>2 DEF Crash, Unseen
  <2> QED BY <2>1, <2>2
<1> QED BY <1>1, <1>2, <1>3, <1>4

\* Every step of the system is a step of the transaction or a stutter.
LEMMA StepImplements ==
  CoreInv /\ [Next]_vars => [Atomic!ANext]_(Atomic!avars)
<1> SUFFICES ASSUME CoreInv, [Next]_vars
             PROVE  Atomic!ANext \/ UNCHANGED Atomic!avars
  OBVIOUS
<1>1. ASSUME NEW p \in Proc, Start(p) \/ Apply(p) \/ Cancel(p) \/ Crash(p)
      PROVE  Unseen \/ Atomic!ANext
  BY <1>1, PrepareUnseen, InstallImplements, RollbackImplements, OtherImplements
     DEF Apply, Atomic!ANext
<1>2. CASE Environment \/ UNCHANGED vars
  <2>1. UNCHANGED <<exe, backup, lock, pc>>
    BY <1>2 DEF Environment, Publish, ServiceFails, ServiceAutoRestarts, vars, disk
  <2> QED BY <2>1, UnseenStutters DEF Unseen, Owner
<1> QED BY <1>1, <1>2, UnseenStutters DEF Next

\* Apply is an atomic update transaction of the installed executable.
THEOREM UpdateIsAtomic == Spec => Transaction
<1>1. Init => Atomic!AInit
  BY SelfUpdateAssumption DEF Init, Atomic!AInit, Owner
<1>2. CoreInv /\ [Next]_vars => [Atomic!ANext]_(Atomic!avars)
  BY StepImplements
<1> QED BY <1>1, <1>2, CoreAlways, PTL DEF Spec, Transaction, Atomic!ASpec
=============================================================================
