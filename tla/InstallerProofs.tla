-------------------------- MODULE InstallerProofs --------------------------
(***************************************************************************)
(* Proofs about Installer, for any set of installers, any hosts and any    *)
(* number of faults and kills.                                             *)
(***************************************************************************)
EXTENDS Installer, TLAPS

Any == Content \cup {Partial}

ShellType ==
  [pc : Commands, mode : {"none", "fresh", "upgrade"}, pending : BOOLEAN, current : BOOLEAN,
   staged : Any, workdir : BOOLEAN,
   backup : [bin : Any, unit : Any, active : BOOLEAN, enabled : BOOLEAN],
   result : {"none", "ok", "cancelled", "failed", "lost", "rolled back", "interrupted"}]

SetupType ==
  [ask : {"none", "terminal", "host", "port", "user", "secret", "unguarded", "reading", "entered",
          "restored", "unprompted", "exposed", "unread", "ended", "lonely", "confirm", "open", "write"},
   code : {"none", "ok", "failed", "cancelled", "unguarded"},
   agreed : BOOLEAN, echo : BOOLEAN, caught : BOOLEAN, sigch : BOOLEAN,
   watcher : {"none", "waiting", "restore", "kill"}, path : Installer \cup {Root}]

\* The kind of every value; that a file is never incomplete is not part of it.
ShellShape == sh \in [Installer -> ShellType]
WizardShape == setup \in [Installer -> SetupType] /\ cand \in [Installer \cup {Root} -> Any]
FileShape == file \in [File -> Any] /\ undo \in Any /\ enabled \in BOOLEAN
Shape == ShellShape /\ WizardShape /\ FileShape

\* One setup process: where signals are caught, where the echo may be off and who
\* switches it on again, and what was agreed to.
WizardOK(p) ==
  /\ setup[p].path \in {p, Root}
  /\ setup[p].ask # "none" => setup[p].code = "none"
  /\ setup[p].caught <=> setup[p].ask \in {"reading", "entered", "restored", "unprompted"}
  /\ setup[p].ask \in {"none", "terminal", "host", "port", "user", "secret", "unguarded"} =>
       setup[p].watcher = "none"
  /\ setup[p].watcher = "kill" => setup[p].echo
  /\ setup[p].ask = "reading" /\ setup[p].watcher = "waiting" => ~setup[p].echo
  /\ ~setup[p].echo =>
       setup[p].ask \in Gap \cup {"reading", "entered", "unprompted"} \/ setup[p].code = "unguarded"
  /\ setup[p].ask \in {"open", "write"} => setup[p].agreed
  /\ cand[p] # None => setup[p].code \in {"ok", "failed"} \/ setup[p].ask = "write"

AgreedTo(x) == x \in Installer => setup[x].agreed

WizardInv == (\A p \in Installer : WizardOK(p)) /\ (\A d \in Installer \cup {Root} : AgreedTo(cand[d]))

-----------------------------------------------------------------------------
\* A step of one setup process.
WizardStep(p) == Runs(p) \/ Watch(p) \/ User(p) \/ NotCreated(p) \/ NotWritten(p) \/ SignalSetup(p)

\* It changes its own record and its own candidate; an answer is not taken back, and
\* a process that has ended stays ended.
OwnWizard(p) ==
  /\ \A q \in Installer \ {p} : setup'[q] = setup[q]
  /\ \A d \in (Installer \cup {Root}) \ {setup[p].path} : cand'[d] = cand[d]
  /\ setup'[p].path = setup[p].path
  /\ setup[p].agreed => setup'[p].agreed

\* What one step has to show of its own process.
Locally(p) ==
  /\ WizardShape' /\ OwnWizard(p) /\ WizardOK(p)'
  /\ \A x \in Installer \ {p} : cand'[setup[p].path] = x => cand[setup[p].path] = x
  /\ cand'[setup[p].path] = p => setup'[p].agreed

\* Records of a setup process keep their type.
LEMMA SetupRecords ==
  ASSUME NEW r \in SetupType
  PROVE  /\ [r EXCEPT !.ask = "restored", !.echo = TRUE] \in SetupType
         /\ [r EXCEPT !.watcher = "kill", !.echo = TRUE] \in SetupType
         /\ [r EXCEPT !.ask = "open", !.agreed = TRUE] \in SetupType
         /\ [r EXCEPT !.sigch = TRUE] \in SetupType
         /\ [r EXCEPT !.ask = "unread", !.echo = TRUE] \in SetupType
<1>1. [r EXCEPT !.ask = "restored", !.echo = TRUE] \in SetupType BY DEF SetupType
<1>2. [r EXCEPT !.watcher = "kill", !.echo = TRUE] \in SetupType BY DEF SetupType
<1>3. [r EXCEPT !.ask = "open", !.agreed = TRUE] \in SetupType BY DEF SetupType
<1>4. [r EXCEPT !.sigch = TRUE] \in SetupType BY DEF SetupType
<1>5. [r EXCEPT !.ask = "unread", !.echo = TRUE] \in SetupType BY DEF SetupType
<1> QED BY <1>1, <1>2, <1>3, <1>4, <1>5

\* Every step of a setup process keeps what is said of it.
LEMMA WizardStepLocal ==
  ASSUME WizardShape, WizardInv, NEW p \in Installer, WizardStep(p), setup[p].ask # "none"
  PROVE  Locally(p)
<1>b. /\ [setup[p] EXCEPT !.ask = "restored", !.echo = TRUE] \in SetupType
      /\ [setup[p] EXCEPT !.watcher = "kill", !.echo = TRUE] \in SetupType
      /\ [setup[p] EXCEPT !.ask = "open", !.agreed = TRUE] \in SetupType
      /\ [setup[p] EXCEPT !.sigch = TRUE] \in SetupType
      /\ [setup[p] EXCEPT !.ask = "unread", !.echo = TRUE] \in SetupType
  BY SetupRecords DEF WizardShape
<1> USE SetupAssumption DEF WizardShape, WizardInv, AgreedTo, WizardOK, SetupType, OwnWizard, Locally, SetupEnds,
        Ask, Gap
<1>a. None \in Any /\ Partial \in Any /\ Installer \subseteq Any BY DEF Any, Content
<1>1. CASE EchoOff(p) BY <1>1 DEF EchoOff
<1>2. CASE Guard(p) BY <1>2 DEF Guard
<1>3. CASE RestoreEcho(p)
  <2>1. setup' = [setup EXCEPT ![p] = [setup[p] EXCEPT !.ask = "restored", !.echo = TRUE]] BY <1>3 DEF RestoreEcho
  <2>2. [setup[p] EXCEPT !.ask = "restored", !.echo = TRUE] \in SetupType BY <1>b
  <2>3. WizardShape' /\ OwnWizard(p) BY <1>3, <2>1, <2>2 DEF RestoreEcho
  <2>4. WizardOK(p)' BY <1>3, <2>1 DEF RestoreEcho
  <2> QED BY <1>3, <2>1, <2>3, <2>4 DEF RestoreEcho
<1>4. CASE Unguard(p) BY <1>4 DEF Unguard
<1>5. CASE Unread(p) BY <1>5 DEF Unread
<1>6. CASE Create(p) BY <1>a, <1>6 DEF Create
<1>7. CASE Write(p) BY <1>a, <1>7 DEF Write
<1>8. CASE NotCreated(p) BY <1>8 DEF NotCreated
<1>9. CASE NotWritten(p) BY <1>a, <1>9 DEF NotWritten
<1>10. CASE WatchSignal(p) BY <1>10 DEF WatchSignal
<1>11. CASE WatchDone(p) BY <1>11 DEF WatchDone
<1>12. CASE WatchRestore(p)
  <2>1. setup' = [setup EXCEPT ![p] = [setup[p] EXCEPT !.watcher = "kill", !.echo = TRUE]] BY <1>12 DEF WatchRestore
  <2>2. [setup[p] EXCEPT !.watcher = "kill", !.echo = TRUE] \in SetupType BY <1>b
  <2>3. WizardShape' /\ OwnWizard(p) BY <1>12, <2>1, <2>2 DEF WatchRestore
  <2>4. WizardOK(p)' BY <1>12, <2>1 DEF WatchRestore
  <2> QED BY <1>12, <2>1, <2>3, <2>4 DEF WatchRestore
<1>13. CASE WatchKill(p) BY <1>13 DEF WatchKill
<1>14. CASE Unanswered(p) BY <1>14 DEF Unanswered
<1>15. CASE Declined(p) BY <1>15 DEF Declined
<1>16. CASE Answered(p) BY <1>16 DEF Answered
<1>17. CASE Confirmed(p)
  <2>1. setup' = [setup EXCEPT ![p] = [setup[p] EXCEPT !.ask = "open", !.agreed = TRUE]] BY <1>17 DEF Confirmed
  <2>2. [setup[p] EXCEPT !.ask = "open", !.agreed = TRUE] \in SetupType BY <1>b
  <2>3. WizardShape' /\ OwnWizard(p) BY <1>17, <2>1, <2>2 DEF Confirmed
  <2>4. WizardOK(p)' BY <1>17, <2>1 DEF Confirmed
  <2> QED BY <1>17, <2>1, <2>3, <2>4 DEF Confirmed
<1>18. CASE Entered(p) BY <1>18 DEF Entered
<1>19. CASE SignalSetup(p)
  <2>1. UNCHANGED cand BY <1>19 DEF SignalSetup
  <2>2. CASE setup[p].caught
    <3>1. setup' = [setup EXCEPT ![p].sigch = TRUE] BY <1>19, <2>2 DEF SignalSetup
    <3>2. [setup[p] EXCEPT !.sigch = TRUE] \in SetupType BY <1>b
    <3>3. setup' = [setup EXCEPT ![p] = [setup[p] EXCEPT !.sigch = TRUE]] BY <3>1
    <3>4. WizardShape' /\ OwnWizard(p) BY <2>1, <3>2, <3>3
    <3>5. WizardOK(p)' BY <2>1, <3>3
    <3> QED BY <2>1, <3>3, <3>4, <3>5
  <2>3. CASE ~setup[p].caught
    <3>1. SetupEnds(p, IF setup[p].ask \in Gap THEN "unguarded" ELSE "failed")
      BY <1>19, <2>3 DEF SignalSetup
    <3>2. CASE setup[p].ask \in Gap BY <2>1, <2>3, <3>1, <3>2
    <3>3. CASE setup[p].ask \notin Gap BY <2>1, <2>3, <3>1, <3>3
    <3> QED BY <3>2, <3>3
  <2> QED BY <2>2, <2>3
<1>20. CASE InputEnds(p) BY <1>20 DEF InputEnds
<1>21. CASE Unprompted(p) BY <1>21 DEF Unprompted
<1>22. CASE StopFirst(p) BY <1>22 DEF StopFirst
<1>23. CASE RestoreLast(p)
  <2>1. setup' = [setup EXCEPT ![p] = [setup[p] EXCEPT !.ask = "unread", !.echo = TRUE]] BY <1>23 DEF RestoreLast
  <2>2. [setup[p] EXCEPT !.ask = "unread", !.echo = TRUE] \in SetupType BY <1>b
  <2>3. WizardShape' /\ OwnWizard(p) BY <1>23, <2>1, <2>2 DEF RestoreLast
  <2>4. WizardOK(p)' BY <1>23, <2>1 DEF RestoreLast
  <2> QED BY <1>23, <2>1, <2>3, <2>4 DEF RestoreLast
<1> QED
  BY <1>1, <1>2, <1>3, <1>4, <1>5, <1>6, <1>7, <1>8, <1>9, <1>10, <1>11, <1>12, <1>13, <1>14, <1>15,
     <1>16, <1>17, <1>18, <1>19, <1>20, <1>21, <1>22, <1>23 DEF WizardStep, Runs, Watch, User, Exists

\* It keeps the invariant of all of them.
LEMMA WizardStepKeeps ==
  ASSUME WizardShape, WizardInv, NEW p \in Installer, WizardStep(p), setup[p].ask # "none"
  PROVE  WizardShape' /\ WizardInv' /\ OwnWizard(p)
<1>1. Locally(p) BY WizardStepLocal
<1>2. setup[p].path \in {p, Root} BY DEF WizardInv, WizardOK
<1>3. ASSUME NEW q \in Installer \ {p} PROVE WizardOK(q)'
  <2>1. setup'[q] = setup[q] /\ cand'[q] = cand[q] BY <1>1, <1>2, SetupAssumption DEF Locally, OwnWizard
  <2> QED BY <2>1 DEF WizardInv, WizardOK
<1>4. \A x : AgreedTo(x) => AgreedTo(x)'
  BY <1>1 DEF Locally, OwnWizard, AgreedTo
<1>5. \A d \in Installer \cup {Root} : AgreedTo(cand[d])'
  BY <1>1, <1>4 DEF Locally, OwnWizard, WizardInv, AgreedTo
<1> QED BY <1>1, <1>3, <1>5 DEF Locally, WizardInv

-----------------------------------------------------------------------------
\* Places at which an installer has not yet changed anything, or will not any more.
Free == {"start", "workdir", "setup", "cleanup", "trapped", "done", "killed"}

\* One installer: its setup process only runs while it waits for it, what is staged
\* or saved is known to the cleanup, and what it installs was agreed to.
ShellOK(p) ==
  /\ sh[p].pc \in {"start", "workdir"} =>
       setup[p].ask = "none" /\ setup[p].code = "none" /\ setup[p].path = p
  /\ sh[p].pc = "start" => sh[p].mode = "none"
  /\ sh[p].pc = "workdir" => sh[p].mode # "none"
  /\ setup[p].ask # "none" => sh[p].pc \in {"setup", "killed"}
  /\ sh[p].pc = "setup" /\ setup[p].path = p => sh[p].workdir
  /\ ~sh[p].workdir /\ sh[p].pc # "killed" => cand[p] = None
  /\ sh[p].staged # None => sh[p].current
  /\ sh[p].pc = "done" => sh[p].staged = None /\ ~sh[p].workdir
  /\ sh[p].pc # "start" \/ sh[p].pending => p \in host.actors
  /\ sh[p].pc \notin Free => sh[p].mode = "upgrade" \/ setup[p].code = "ok" \/ setup[p].path = Root
  /\ sh[p].pc \in {"recheck", "link", "unlink"} => AgreedTo(sh[p].staged)

ShellInv == \A p \in Installer : ShellOK(p)

\* A step of one shell changes its own record.
OwnShell(p) == ShellShape' /\ \A q \in Installer \ {p} : sh'[q] = sh[q]

\* The steps of a shell that leave the setup processes and the candidates alone.
PlainShell(p) ==
  \/ Start(p) \/ SetupDone(p) \/ Save(p) \/ StageReleaseAssets(p) \/ CommitFirstConfiguration(p)
  \/ Activate(p) \/ RollbackUpgrade(p) \/ Trap(p) \/ Fails(p) \/ Kill(p)

\* r is what such a step may make of the record of p.
Sound(p, r) ==
  /\ r.workdir = sh[p].workdir
  /\ r.staged # None => r.current
  /\ r.pc \notin {"start", "setup", "done"}
  /\ r.pc = "workdir" => sh[p].pc = "start" /\ r.mode # "none"
  /\ p \in host.actors
  /\ r.pc \notin Free =>
       sh[p].mode = "upgrade" \/ r.mode = "upgrade" \/ setup[p].code = "ok" \/ setup[p].path = Root
  /\ r.mode = sh[p].mode \/ r.pc = "workdir"
  /\ r.pc \in {"recheck", "link", "unlink"} => AgreedTo(r.staged)
  /\ setup[p].ask = "none" \/ r.pc = "killed"
  /\ r.pc # "killed" => sh[p].pc # "killed"

Becomes(p, r) ==
  r \in ShellType /\ sh' = [sh EXCEPT ![p] = r] /\ UNCHANGED host /\ UNCHANGED wizard /\ Sound(p, r)

\* A record that is sound keeps the invariant of its installer.
LEMMA BecomesKeeps ==
  ASSUME ShellShape, ShellInv, NEW p \in Installer, NEW r, Becomes(p, r)
  PROVE  OwnShell(p) /\ ShellOK(p)'
<1>1. sh'[p] = r /\ OwnShell(p) BY DEF Becomes, ShellShape, OwnShell
<1>2. UNCHANGED <<host, setup, cand>> BY DEF Becomes, wizard
<1>3. ShellOK(p) /\ Sound(p, r) BY DEF ShellInv, Becomes
<1> QED BY <1>1, <1>2, <1>3 DEF ShellOK, Sound, AgreedTo, Free

\* An installer that has its answers, or needs none, goes on.
LEMMA InstallingSound ==
  ASSUME NEW p \in Installer, ShellOK(p), NEW r, sh[p].pc \notin Free,
         r.workdir = sh[p].workdir, r.mode = sh[p].mode, r.staged # None => r.current,
         r.pc \notin {"start", "workdir", "setup", "done"},
         r.pc \in {"recheck", "link", "unlink"} => AgreedTo(r.staged)
  PROVE  Sound(p, r)
BY DEF Sound, ShellOK, Free

\* Only the place changes, and perhaps the result or what is saved.
Same(p, r) ==
  /\ r \in ShellType
  /\ r.workdir = sh[p].workdir /\ r.mode = sh[p].mode
  /\ r.staged = sh[p].staged /\ r.current = sh[p].current

\* A step to the next place that stages nothing.
LEMMA GoesOn ==
  ASSUME NEW p \in Installer, ShellOK(p), NEW r, sh' = [sh EXCEPT ![p] = r], Same(p, r),
         UNCHANGED wizard, UNCHANGED host,
         sh[p].pc \notin Free,
         r.pc \notin {"start", "workdir", "setup", "done"},
         r.pc \in {"recheck", "link", "unlink"} => sh[p].pc \in {"recheck", "link", "unlink"}
  PROVE  Becomes(p, r)
<1>1. r.staged # None => r.current BY DEF ShellOK, Same
<1>2. r.pc \in {"recheck", "link", "unlink"} => AgreedTo(r.staged) BY DEF ShellOK, Same, AgreedTo
<1>3. Sound(p, r) BY <1>1, <1>2, InstallingSound DEF Same
<1> QED BY <1>3 DEF Becomes, Same

\* Going to the next place, or leaving with a result.
LEMMA GotoKeeps ==
  ASSUME Shape, ShellInv, NEW p \in Installer, UNCHANGED wizard, UNCHANGED host,
         NEW place \in Commands, sh[p].pc \notin Free,
         place \notin {"start", "workdir", "setup", "done"},
         place \in {"recheck", "link", "unlink"} => sh[p].pc \in {"recheck", "link", "unlink"},
         NEW how \in {"ok", "cancelled", "failed", "lost", "rolled back", "interrupted"},
         \/ sh' = [sh EXCEPT ![p].pc = place]
         \/ sh' = [sh EXCEPT ![p].pc = place, ![p].result = how]
         \/ sh' = [sh EXCEPT ![p].result = how, ![p].pc = place]
  PROVE  \E r : Becomes(p, r)
<1>1. sh \in [Installer -> ShellType] /\ ShellOK(p) BY DEF Shape, ShellShape, ShellInv
<1>0. sh[p] \in ShellType /\ place \in Commands BY <1>1
<1>2. CASE sh' = [sh EXCEPT ![p].pc = place]
  <2> DEFINE r == [sh[p] EXCEPT !.pc = place]
  <2>1. sh' = [sh EXCEPT ![p] = r] BY <1>2
  <2>2. Same(p, r) /\ r.pc = place BY <1>0 DEF Same, ShellType
  <2> HIDE DEF r
  <2> QED BY <1>1, <2>1, <2>2, GoesOn
<1>3. CASE sh' = [sh EXCEPT ![p].pc = place, ![p].result = how]
  <2> DEFINE r == [sh[p] EXCEPT !.pc = place, !.result = how]
  <2>1. sh' = [sh EXCEPT ![p] = r] BY <1>1, <1>3
  <2>2. Same(p, r) /\ r.pc = place BY <1>0 DEF Same, ShellType
  <2> HIDE DEF r
  <2> QED BY <1>1, <2>1, <2>2, GoesOn
<1>4. CASE sh' = [sh EXCEPT ![p].result = how, ![p].pc = place]
  <2> DEFINE r == [sh[p] EXCEPT !.result = how, !.pc = place]
  <2>1. sh' = [sh EXCEPT ![p] = r] BY <1>1, <1>4
  <2>2. Same(p, r) /\ r.pc = place BY <1>0 DEF Same, ShellType
  <2> HIDE DEF r
  <2> QED BY <1>1, <2>1, <2>2, GoesOn
<1> QED BY <1>2, <1>3, <1>4

\* A step that stages a file or takes the staged file away.
LEMMA StageKeeps ==
  ASSUME Shape, ShellInv, NEW p \in Installer, UNCHANGED wizard, UNCHANGED host,
         NEW place \in Commands, sh[p].pc \notin Free, NEW x \in Any, NEW r \in ShellType,
         place \notin {"start", "workdir", "setup", "done", "link", "unlink"},
         place = "recheck" => AgreedTo(x),
         sh' = [sh EXCEPT ![p] = r], r.pc = place, r.workdir = sh[p].workdir, r.mode = sh[p].mode,
         (r.current /\ r.staged = x) \/ (~r.current /\ r.staged = None /\ place # "recheck")
  PROVE  \E t : Becomes(p, t)
<1>1. ShellOK(p) BY DEF ShellInv
<1>2. r.pc \in {"recheck", "link", "unlink"} => AgreedTo(r.staged) BY DEF AgreedTo
<1>3. Sound(p, r) BY <1>1, <1>2, InstallingSound
<1> QED BY <1>3 DEF Becomes

\* The first half of stage_file, as a step of an installer.
LEMMA Staging ==
  ASSUME Shape, ShellInv, NEW p \in Installer, NEW place, NEW next \in Commands, NEW x \in Any,
         Stage(p, place, next, x), place \notin Free,
         next \notin {"start", "workdir", "setup", "done", "link", "unlink"},
         next = "recheck" => AgreedTo(x)
  PROVE  \E t : Becomes(p, t)
<1> DEFINE r == [sh[p] EXCEPT !.pc = next, !.current = TRUE, !.staged = x]
<1>1. sh \in [Installer -> ShellType] /\ sh[p] \in ShellType /\ sh[p].pc \notin Free
  BY DEF Shape, ShellShape, Stage, At
<1>2. sh' = [sh EXCEPT ![p] = r] BY <1>1 DEF Stage
<1>3. r \in ShellType /\ r.pc = next /\ r.workdir = sh[p].workdir /\ r.mode = sh[p].mode
      /\ r.current /\ r.staged = x
  BY <1>1 DEF ShellType
<1>4. UNCHANGED wizard /\ UNCHANGED host BY DEF Stage, quiet, env
<1> HIDE DEF r
<1> QED BY <1>1, <1>2, <1>3, <1>4, StageKeeps

\* mv, or rm of the staged file.
LEMMA Unstaging ==
  ASSUME Shape, ShellInv, NEW p \in Installer, UNCHANGED wizard, UNCHANGED host,
         NEW next \in Commands, sh[p].pc \notin Free,
         next \notin {"start", "workdir", "setup", "done", "recheck", "link", "unlink"},
         sh' = [sh EXCEPT ![p] = Unstaged(p, next)]
  PROVE  \E t : Becomes(p, t)
<1> DEFINE r == Unstaged(p, next)
<1>1. sh[p] \in ShellType /\ None \in Any BY DEF Shape, ShellShape, Any, Content
<1>2. r \in ShellType /\ r.pc = next /\ r.workdir = sh[p].workdir /\ r.mode = sh[p].mode
      /\ ~r.current /\ r.staged = None
  BY <1>1 DEF Unstaged, ShellType
<1>3. sh' = [sh EXCEPT ![p] = r] OBVIOUS
<1> HIDE DEF r
<1> QED BY <1>1, <1>2, <1>3, StageKeeps

\* The end because a configuration has appeared.
LEMMA Refusing ==
  ASSUME Shape, ShellInv, NEW p \in Installer, UNCHANGED wizard, UNCHANGED host,
         sh[p].pc \notin Free, Refuse(p)
  PROVE  \E t : Becomes(p, t)
<1> DEFINE r == [Unstaged(p, "cleanup") EXCEPT !.result = "lost"]
<1>1. sh[p] \in ShellType /\ None \in Any /\ "cleanup" \in Commands
  BY DEF Shape, ShellShape, Any, Content, Commands
<1>2. r \in ShellType /\ r.pc = "cleanup" /\ r.workdir = sh[p].workdir /\ r.mode = sh[p].mode
      /\ ~r.current /\ r.staged = None
  BY <1>1 DEF Unstaged, ShellType
<1>3. sh' = [sh EXCEPT ![p] = r] BY DEF Refuse
<1> HIDE DEF r
<1> QED BY <1>1, <1>2, <1>3, StageKeeps

\* Every plain step of a shell makes a sound record.
LEMMA PlainShellKeeps ==
  ASSUME Shape, WizardInv, ShellInv, NEW p \in Installer, PlainShell(p)
  PROVE  \E r : Becomes(p, r)
<1> DEFINE s == sh[p]
           Kept == UNCHANGED wizard /\ UNCHANGED host
<1>a. None \in Any /\ Partial \in Any /\ p \in Any BY DEF Any, Content
<1>b. s \in ShellType /\ sh \in [Installer -> ShellType] BY DEF Shape, ShellShape
<1>c. \A d \in Installer \cup {Root} : cand[d] \in Any /\ AgreedTo(cand[d])
  BY DEF Shape, WizardShape, WizardInv
<1>0. ShellOK(p) /\ WizardOK(p) BY DEF ShellInv, WizardInv
<1>1. CASE Start(p)
  <2>1. PICK r \in {[s EXCEPT !.pc = "cleanup", !.result = "failed"],
                    [s EXCEPT !.pc = "workdir", !.mode = "fresh"],
                    [s EXCEPT !.pc = "workdir", !.mode = "upgrade"]} : sh' = [sh EXCEPT ![p] = r]
    BY <1>1 DEF Start, Exit
  <2>2. UNCHANGED wizard /\ UNCHANGED host /\ s.pc = "start" /\ p \in host.actors
    BY <1>1 DEF Start, At, quiet, env
  <2>3. r \in ShellType BY <1>b, <2>1 DEF ShellType, Commands
  <2>4. /\ r.workdir = s.workdir /\ r.staged = s.staged /\ r.current = s.current
        /\ r.pc \in {"cleanup", "workdir"}
        /\ r.pc = "workdir" => r.mode # "none"
        /\ r.pc = "cleanup" => r.mode = s.mode
    BY <1>b, <2>1 DEF ShellType
  <2>5. Sound(p, r) BY <1>0, <2>2, <2>4 DEF Sound, ShellOK, Free
  <2> QED BY <2>1, <2>2, <2>3, <2>5 DEF Becomes
<1>3. CASE Save(p)
  <2>1. Kept /\ s.pc \notin Free /\ IsActive \in BOOLEAN /\ enabled \in BOOLEAN
        /\ file["bin"] \in Any /\ file["unit"] \in Any
    BY <1>3 DEF Save, At, quiet, env, Free, IsActive, Shape, FileShape, File
  <2>2. PICK r \in {[s EXCEPT !.pc = "save unit", !.backup.bin = file["bin"]],
                    [s EXCEPT !.pc = "was active", !.backup.unit = file["unit"]],
                    [s EXCEPT !.pc = "was enabled", !.backup.active = IsActive],
                    [s EXCEPT !.pc = "bin", !.backup.enabled = enabled]} : sh' = [sh EXCEPT ![p] = r]
    BY <1>b, <1>3 DEF Save
  <2>3. {"save unit", "was active", "was enabled", "bin"} \subseteq Commands
    BY DEF Commands, Stages, Others
  <2>4. Same(p, r) /\ r.pc \in {"save unit", "was active", "was enabled", "bin"}
    <3>1. CASE r = [s EXCEPT !.pc = "save unit", !.backup.bin = file["bin"]]
      BY <1>b, <2>1, <2>3, <3>1 DEF Same, ShellType
    <3>2. CASE r = [s EXCEPT !.pc = "was active", !.backup.unit = file["unit"]]
      BY <1>b, <2>1, <2>3, <3>2 DEF Same, ShellType
    <3>3. CASE r = [s EXCEPT !.pc = "was enabled", !.backup.active = IsActive]
      BY <1>b, <2>1, <2>3, <3>3 DEF Same, ShellType
    <3>4. CASE r = [s EXCEPT !.pc = "bin", !.backup.enabled = enabled]
      BY <1>b, <2>1, <2>3, <3>4 DEF Same, ShellType
    <3> QED BY <2>2, <3>1, <3>2, <3>3, <3>4
  <2> QED BY <1>0, <2>1, <2>2, <2>4, GoesOn
<1>4. CASE StageReleaseAssets(p)
  <2>1. CASE Stage(p, "bin", "mv bin", p) \/ Stage(p, "unit", "mv unit", p)
    BY <1>a, <2>1, Staging DEF Commands, Stages, Others, Free
  <2>2. ASSUME NEW f, NEW place \in {"mv bin", "mv unit"}, NEW next \in {"unit", "check", "chmod"},
               Move(p, f, place, next)
        PROVE  \E r : Becomes(p, r)
    <3>1. Kept /\ s.pc \notin Free /\ next \in Commands
      BY <2>2 DEF Move, At, env, Free, Commands, Stages, Others
    <3> QED BY <2>2, <3>1, Unstaging DEF Move
  <2> QED BY <1>4, <2>1, <2>2 DEF StageReleaseAssets
<1>5. CASE CommitFirstConfiguration(p)
  <2>1. CASE Stage(p, "stage config", "recheck", cand[setup[p].path])
    <3>1. setup[p].path \in Installer \cup {Root} BY <1>0 DEF WizardOK
    <3>2. "recheck" \in Commands /\ "stage config" \notin Free BY DEF Commands, Free
    <3> QED BY <1>c, <2>1, <3>1, <3>2, Staging
  <2>2. ASSUME NEW place, NEW next \in {"stage config", "link"}, Check(p, place, next),
               <<place, next>> \in {<<"check", "stage config">>, <<"recheck", "link">>}
        PROVE  \E r : Becomes(p, r)
    <3>1. Kept /\ s.pc = place /\ s.pc \notin Free /\ next \in Commands
      BY <2>2 DEF Check, At, quiet, env, Free, Commands, Stages, Others
    <3>2. CASE Goto(p, next) BY <2>2, <3>1, <3>2, GotoKeeps DEF Goto
    <3>3. CASE Refuse(p) BY <3>1, <3>3, Refusing
    <3> QED BY <2>2, <3>2, <3>3 DEF Check
  <2>3. CASE Link(p)
    <3>1. Kept /\ s.pc = "link" /\ s.pc \notin Free /\ "unlink" \in Commands
      BY <2>3 DEF Link, At, env, Free, Commands
    <3>2. CASE Goto(p, "unlink") BY <3>1, <3>2, GotoKeeps DEF Goto
    <3>3. CASE Refuse(p) BY <3>1, <3>3, Refusing
    <3> QED BY <2>3, <3>2, <3>3 DEF Link
  <2>4. CASE At(p, "unlink") /\ sh' = [sh EXCEPT ![p] = Unstaged(p, "reload")] /\ UNCHANGED quiet
    <3>1. Kept /\ s.pc \notin Free /\ "reload" \in Commands
      BY <2>4 DEF At, quiet, env, Free, Commands, Activation
    <3> QED BY <2>4, <3>1, Unstaging
  <2>5. CASE Check(p, "check", "stage config") BY <2>2, <2>5
  <2>6. CASE Check(p, "recheck", "link") BY <2>2, <2>6
  <2> QED BY <1>5, <2>1, <2>3, <2>4, <2>5, <2>6 DEF CommitFirstConfiguration
<1>6. ASSUME Kept, s.pc \notin Free,
             \/ \E next \in {"reload", "enable", "restart", "verify", "restore unit", "reload back",
                             "enable back", "restart back"} : Goto(p, next)
             \/ \E how \in {"ok", "failed", "rolled back"} : Exit(p, how)
             \/ NotActivated(p)
      PROVE  \E r : Becomes(p, r)
  <2>1. {"reload", "enable", "restart", "verify", "restore bin", "restore unit", "reload back",
         "enable back", "restart back", "cleanup"} \subseteq Commands
    BY DEF Commands, Stages, Activation, Optional
  <2>2. ASSUME NEW next \in {"reload", "enable", "restart", "verify", "restore unit", "reload back",
                             "enable back", "restart back"}, Goto(p, next)
        PROVE  \E r : Becomes(p, r)
    BY <1>6, <2>1, <2>2, GotoKeeps DEF Goto
  <2>3. ASSUME NEW how \in {"ok", "failed", "rolled back"}, Exit(p, how)
        PROVE  \E r : Becomes(p, r)
    BY <1>6, <2>1, <2>3, GotoKeeps DEF Exit
  <2>4. CASE NotActivated(p)
    <3>1. PICK place \in {"cleanup", "restore bin"} :
            sh' = [sh EXCEPT ![p].result = "failed", ![p].pc = place]
      BY <2>4 DEF NotActivated
    <3> QED BY <1>6, <2>1, <3>1, GotoKeeps
  <2> QED BY <1>6, <2>2, <2>3, <2>4
<1>7. CASE Activate(p)
  <2>1. Kept /\ s.pc \notin Free
    BY <1>7 DEF Activate, Protect, Reload, Enable, Restart, Verify, At, quiet, env, Free
  <2> QED BY <1>6, <1>7, <2>1 DEF Activate, Protect, Reload, Enable, Restart, Verify
<1>8. CASE RollbackUpgrade(p)
  <2>1. s.backup.bin \in Any /\ s.backup.unit \in Any BY <1>b DEF ShellType
  <2>2. ASSUME NEW f \in {"bin", "unit"}, NEW place \in {"restore bin", "restore unit"},
               NEW between \in {"mv old bin", "mv old unit"}, NEW next \in {"restore unit", "reload back"},
               PutBack(p, f, place, between, next)
        PROVE  \E r : Becomes(p, r)
    <3>0. s.backup[f] \in Any BY <2>1
    <3>1. CASE Stage(p, place, between, s.backup[f])
      BY <3>0, <3>1, Staging DEF Commands, Others, Free
    <3>2. CASE Move(p, f, between, next)
      <4>1. Kept /\ s.pc \notin Free /\ next \in Commands
        BY <3>2 DEF Move, At, env, Free, Commands, Stages, Optional
      <4> QED BY <3>2, <4>1, Unstaging DEF Move
    <3>3. CASE At(p, place) /\ Goto(p, next) /\ UNCHANGED <<systemd, updater, env, wizard>>
      BY <1>6, <3>3 DEF At, env, Free
    <3> QED BY <2>2, <3>1, <3>2, <3>3 DEF PutBack
  <2>3. CASE Reload(p, "reload back", "enable back") \/ EnableBack(p) \/ RestartBack(p)
    <3>1. Kept /\ s.pc \notin Free
      BY <2>3 DEF Reload, EnableBack, RestartBack, At, env, Free
    <3> QED BY <1>6, <2>3, <3>1 DEF Reload, EnableBack, RestartBack
  <2> QED BY <1>8, <2>2, <2>3 DEF RollbackUpgrade
<1>9. CASE SetupDone(p)
  <2>1. PICK r \in {[s EXCEPT !.pc = "cleanup", !.result = "failed"],
                    [s EXCEPT !.pc = "cleanup", !.result = "cancelled"],
                    [s EXCEPT !.pc = "bin"]} :
          sh' = [sh EXCEPT ![p] = r] /\ (r.pc = "bin" => ~SetupFailed(p) /\ cand[setup[p].path] # None)
    BY <1>b, <1>9 DEF SetupDone, Exit, Goto, ShellType
  <2>2. Kept /\ s.pc = "setup" /\ setup[p].ask = "none" BY <1>9 DEF SetupDone, At, quiet, env
  <2>3. "cleanup" \in Commands /\ "bin" \in Commands BY DEF Commands, Stages
  <2>4. Same(p, r) /\ r.pc \in {"cleanup", "bin"} BY <1>b, <2>1, <2>3 DEF Same, ShellType
  <2>5. r.pc = "bin" => setup[p].code = "ok" \/ setup[p].path = Root
    BY <1>0, <2>1, <2>2 DEF WizardOK, SetupFailed
  <2>6. Sound(p, r) BY <1>0, <2>2, <2>4, <2>5 DEF Sound, ShellOK, Same, Free
  <2> QED BY <2>1, <2>2, <2>4, <2>6 DEF Becomes, Same
<1>10. CASE Trap(p)
  <2> DEFINE r == [s EXCEPT !.pc = "trapped", !.pending = FALSE, !.result = "interrupted"]
  <2>1. Kept /\ sh' = [sh EXCEPT ![p] = r] BY <1>b, <1>10 DEF Trap, quiet, env
  <2>2. Same(p, r) /\ r.pc = "trapped" BY <1>b DEF Same, ShellType, Commands
  <2>3. setup[p].ask = "none" /\ s.pc # "killed" /\ s.pending BY <1>10 DEF Trap, Ended
  <2> HIDE DEF r
  <2>4. Sound(p, r) BY <1>0, <2>2, <2>3 DEF Sound, ShellOK, Same, Free
  <2> QED BY <2>1, <2>2, <2>4 DEF Becomes, Same
<1>11. CASE Fails(p)
  <2>1. Kept BY <1>11 DEF Fails
  <2>2. CASE sh[p].pc \in Stages /\ sh' = [sh EXCEPT ![p].pc = "cleanup", ![p].result = "failed",
                                                     ![p].current = TRUE, ![p].staged = Partial]
    <3> DEFINE r == [s EXCEPT !.pc = "cleanup", !.result = "failed", !.current = TRUE, !.staged = Partial]
    <3>1. sh' = [sh EXCEPT ![p] = r] /\ "cleanup" \in Commands BY <1>b, <2>2 DEF Commands
    <3>2. r \in ShellType /\ r.pc = "cleanup" /\ r.workdir = s.workdir /\ r.mode = s.mode
          /\ r.current /\ r.staged = Partial
      BY <1>a, <1>b, <3>1 DEF ShellType
    <3>3. s.pc \notin Free BY <2>2 DEF Stages, Free
    <3> HIDE DEF r
    <3> QED BY <1>a, <2>1, <3>1, <3>2, <3>3, StageKeeps
  <2>3. CASE s.pc \in Others /\ Exit(p, "failed") BY <1>6, <2>1, <2>3 DEF Others, Free
  <2>4. CASE s.pc \in Activation /\ NotActivated(p) BY <1>6, <2>1, <2>4 DEF Activation, Free
  <2>5. CASE \/ s.pc = "reload back" /\ Goto(p, "enable back")
             \/ s.pc = "enable back" /\ Goto(p, "restart back")
             \/ s.pc = "restart back" /\ Exit(p, "rolled back")
    BY <1>6, <2>1, <2>5 DEF Free
  <2> QED BY <1>11, <2>2, <2>3, <2>4, <2>5 DEF Fails
<1>12. CASE Kill(p)
  <2> DEFINE r == [s EXCEPT !.pc = "killed"]
  <2>1. Kept /\ sh' = [sh EXCEPT ![p] = r] BY <1>12 DEF Kill, Goto
  <2>2. Same(p, r) /\ r.pc = "killed" BY <1>b DEF Same, ShellType, Commands
  <2>3. s.pc # "start" BY <1>12 DEF Kill
  <2> HIDE DEF r
  <2>4. Sound(p, r) BY <1>0, <2>2, <2>3 DEF Sound, ShellOK, Same, Free
  <2> QED BY <2>1, <2>2, <2>4 DEF Becomes, Same
<1> QED
  BY <1>1, <1>3, <1>4, <1>5, <1>7, <1>8, <1>9, <1>10, <1>11, <1>12 DEF PlainShell

-----------------------------------------------------------------------------
\* What holds of an installer for good.
Persists ==
  \A q \in Installer :
    /\ setup[q].agreed => setup'[q].agreed
    /\ setup[q].code = "ok" => setup'[q].code = "ok"
    /\ setup[q].path = Root => setup'[q].path = Root
    /\ sh[q].mode = "upgrade" => sh'[q].mode = "upgrade"

\* A step of installer p or of its setup process, seen from the others.
Around(p) ==
  /\ \A q \in Installer \ {p} : setup'[q] = setup[q] /\ cand'[q] = cand[q] /\ sh'[q] = sh[q]
  /\ Persists
  /\ UNCHANGED host /\ ShellShape' /\ WizardShape'

Inv == Shape /\ WizardInv /\ ShellInv

Stepped == ShellShape' /\ WizardShape' /\ WizardInv' /\ ShellInv' /\ Persists /\ UNCHANGED host

\* What a step of p does not touch keeps its part of the invariant.
LEMMA AroundKeeps ==
  ASSUME Inv, NEW p \in Installer, Around(p), WizardOK(p)', ShellOK(p)',
         \A d \in Installer \cup {Root} : AgreedTo(cand[d])'
  PROVE  Stepped
<1>1. ASSUME NEW q \in Installer \ {p} PROVE WizardOK(q)' /\ ShellOK(q)'
  <2>1. setup'[q] = setup[q] /\ cand'[q] = cand[q] /\ sh'[q] = sh[q] /\ UNCHANGED host BY DEF Around
  <2>2. WizardOK(q) /\ ShellOK(q) BY DEF Inv, WizardInv, ShellInv
  <2>3. WizardOK(q)' BY <2>1, <2>2 DEF WizardOK
  <2>4. AgreedTo(sh[q].staged) => AgreedTo(sh[q].staged)' BY <2>1 DEF AgreedTo, Around, Persists
  <2>5. ShellOK(q)' BY <2>1, <2>2, <2>4 DEF ShellOK
  <2> QED BY <2>3, <2>5
<1> QED BY <1>1 DEF WizardInv, ShellInv, Stepped, Around

\* A plain step of a shell.
LEMMA PlainStep ==
  ASSUME Inv, NEW p \in Installer, PlainShell(p)
  PROVE  Stepped
<1>1. PICK r : Becomes(p, r) BY PlainShellKeeps DEF Inv
<1>2. OwnShell(p) /\ ShellOK(p)' BY <1>1, BecomesKeeps DEF Inv, Shape
<1>3. UNCHANGED wizard /\ UNCHANGED host BY <1>1 DEF Becomes
<1>4. Persists
  <2>1. sh'[p] = r /\ \A q \in Installer : q # p => sh'[q] = sh[q]
    BY <1>1 DEF Becomes, Inv, Shape, ShellShape
  <2>2. sh[p].mode = "upgrade" => r.mode = "upgrade"
    BY <1>1 DEF Becomes, Sound, Inv, ShellInv, ShellOK
  <2> QED BY <1>3, <2>1, <2>2 DEF Persists, wizard
<1>6. Around(p) BY <1>2, <1>3, <1>4 DEF Around, OwnShell, wizard, Inv, Shape, WizardShape
<1>5. WizardOK(p)' /\ \A d \in Installer \cup {Root} : AgreedTo(cand[d])'
  BY <1>3 DEF Inv, WizardInv, WizardOK, AgreedTo, wizard
<1> QED BY <1>2, <1>5, <1>6, AroundKeeps

\* A step of a setup process, with its shell or without.
LEMMA SetupStep ==
  ASSUME Inv, NEW p \in Installer, WizardStep(p), setup[p].ask # "none", UNCHANGED host,
         \/ UNCHANGED sh
         \/ sh' = [sh EXCEPT ![p].pending = TRUE] /\ sh[p].pc # "start"
  PROVE  Stepped
<1>1. WizardShape' /\ WizardInv' /\ OwnWizard(p) BY WizardStepKeeps DEF Inv, Shape
<1>2. ShellOK(p) /\ WizardOK(p) /\ sh \in [Installer -> ShellType]
  BY DEF Inv, ShellInv, WizardInv, Shape, ShellShape
<1>3. /\ ShellShape'
      /\ \A q \in Installer \ {p} : sh'[q] = sh[q]
      /\ sh'[p].pc = sh[p].pc /\ sh'[p].workdir = sh[p].workdir /\ sh'[p].staged = sh[p].staged
      /\ sh'[p].current = sh[p].current /\ sh'[p].mode = sh[p].mode
      /\ sh'[p].pending => sh[p].pending \/ sh[p].pc # "start"
  <2>1. sh[p] \in ShellType BY <1>2
  <2>2. CASE UNCHANGED sh BY <1>2, <2>2 DEF ShellShape
  <2>3. CASE sh' = [sh EXCEPT ![p].pending = TRUE] /\ sh[p].pc # "start"
    <3> DEFINE r == [sh[p] EXCEPT !.pending = TRUE]
    <3>1. sh' = [sh EXCEPT ![p] = r] BY <2>3
    <3>2. r \in ShellType /\ r.pc = sh[p].pc /\ r.workdir = sh[p].workdir /\ r.staged = sh[p].staged
          /\ r.current = sh[p].current /\ r.mode = sh[p].mode
      BY <2>1 DEF ShellType
    <3> HIDE DEF r
    <3> QED BY <1>2, <2>3, <3>1, <3>2 DEF ShellShape
  <2> QED BY <2>2, <2>3
<1>4. sh[p].pc \in {"setup", "killed"} BY <1>2 DEF ShellOK
<1>5. setup'[p].path = setup[p].path /\ (setup[p].path # p => cand'[p] = cand[p])
  BY <1>1 DEF OwnWizard
<1>6. ShellOK(p)' BY <1>2, <1>3, <1>4, <1>5 DEF ShellOK, Free
<1>7. Around(p)
  <2>1. \A q \in Installer : q # p => setup'[q] = setup[q] /\ cand'[q] = cand[q]
    BY <1>1, <1>2, SetupAssumption DEF OwnWizard, WizardOK
  <2>2. setup[p].code # "ok" /\ (setup[p].agreed => setup'[p].agreed) BY <1>1, <1>2 DEF OwnWizard, WizardOK
  <2>3. Persists BY <1>3, <1>5, <2>1, <2>2 DEF Persists
  <2> QED BY <1>1, <1>3, <2>1, <2>3 DEF Around
<1>8. WizardOK(p)' /\ \A d \in Installer \cup {Root} : AgreedTo(cand[d])' BY <1>1 DEF WizardInv
<1> QED BY <1>6, <1>7, <1>8, AroundKeeps

\* An interrupt that meets no setup process.
LEMMA InterruptStep ==
  ASSUME Inv, NEW p \in Installer, Interrupt(p)
  PROVE  Stepped
<1>1. sh' = [sh EXCEPT ![p].pending = TRUE] /\ sh[p].pc # "start" /\ UNCHANGED host
  BY DEF Interrupt, env
<1>2. CASE setup[p].ask # "none" BY <1>1, <1>2, SetupStep DEF Interrupt, WizardStep
<1>3. CASE setup[p].ask = "none"
  <2>1. UNCHANGED wizard BY <1>3 DEF Interrupt
  <2> DEFINE r == [sh[p] EXCEPT !.pending = TRUE]
  <2>2. ShellOK(p) /\ WizardOK(p) /\ sh[p] \in ShellType /\ sh \in [Installer -> ShellType]
    BY DEF Inv, ShellInv, WizardInv, Shape, ShellShape
  <2>3. sh' = [sh EXCEPT ![p] = r] BY <1>1
  <2>4. Same(p, r) /\ r.pc = sh[p].pc BY <2>2 DEF Same, ShellType
  <2> HIDE DEF r
  <2>5. sh'[p] = r /\ OwnShell(p) BY <2>2, <2>3, <2>4 DEF OwnShell, ShellShape, Same
  <2>6. ShellOK(p)' BY <1>1, <2>1, <2>2, <2>4, <2>5 DEF ShellOK, Same, wizard, AgreedTo
  <2>9. Persists BY <2>1, <2>4, <2>5 DEF Persists, OwnShell, wizard, Same
  <2>7. Around(p) BY <1>1, <2>1, <2>5, <2>9 DEF Around, OwnShell, wizard, Inv, Shape, WizardShape
  <2>8. WizardOK(p)' /\ \A d \in Installer \cup {Root} : AgreedTo(cand[d])'
    BY <2>1 DEF Inv, WizardInv, WizardOK, AgreedTo, wizard
  <2> QED BY <2>6, <2>7, <2>8, AroundKeeps
<1> QED BY <1>2, <1>3

\* The work directory, made or not.
LEMMA WorkDirStep ==
  ASSUME Inv, NEW p \in Installer, CreateWorkDir(p) \/ NoWorkDir(p)
  PROVE  Stepped
<1>1. ShellOK(p) /\ WizardOK(p) /\ sh[p] \in ShellType /\ sh \in [Installer -> ShellType]
      /\ setup \in [Installer -> SetupType] /\ setup[p] \in SetupType /\ WizardShape
  BY DEF Inv, ShellInv, WizardInv, Shape, ShellShape, WizardShape
<1>2. /\ UNCHANGED host /\ UNCHANGED cand /\ sh[p].pc = "workdir"
      /\ sh[p].mode \in {"fresh", "upgrade"} /\ p \in host.actors
      /\ setup[p].ask = "none" /\ setup[p].code = "none" /\ setup[p].path = p
  BY <1>1 DEF CreateWorkDir, NoWorkDir, At, StartSetup, env, wizard, ShellOK, ShellType
<1>3. PICK r \in {[sh[p] EXCEPT !.workdir = TRUE, !.pc = "setup"],
                  [sh[p] EXCEPT !.workdir = TRUE, !.pc = "save bin"],
                  [sh[p] EXCEPT !.pc = "setup"],
                  [sh[p] EXCEPT !.pc = "cleanup", !.result = "failed"]},
           w \in {setup[p], [setup[p] EXCEPT !.ask = "terminal", !.path = p],
                  [setup[p] EXCEPT !.ask = "terminal", !.path = Root]} :
        /\ sh' = [sh EXCEPT ![p] = r] /\ setup' = [setup EXCEPT ![p] = w]
        /\ r.pc = "setup" => w.path = Root \/ r.workdir
        /\ r.pc # "setup" => w = setup[p]
        /\ r.pc = "save bin" => sh[p].mode = "upgrade"
  <2>1. CASE CreateWorkDir(p) /\ sh[p].mode = "fresh"
    BY <1>1, <2>1 DEF CreateWorkDir, StartSetup, ShellType
  <2>2. CASE CreateWorkDir(p) /\ sh[p].mode = "upgrade"
    BY <1>1, <2>2 DEF CreateWorkDir, wizard, ShellType
  <2>3. CASE NoWorkDir(p) /\ sh[p].mode = "fresh"
    BY <1>1, <2>3 DEF NoWorkDir, StartSetup, Goto, ShellType, SetupType
  <2>4. CASE NoWorkDir(p) /\ sh[p].mode = "upgrade"
    BY <1>1, <2>4 DEF NoWorkDir, Exit, wizard, ShellType
  <2> QED BY <1>2, <2>1, <2>2, <2>3, <2>4
<1>4. {"setup", "save bin", "cleanup"} \subseteq Commands BY DEF Commands, Others
<1>5. /\ r \in ShellType /\ r.pc \in {"setup", "save bin", "cleanup"}
      /\ r.mode = sh[p].mode /\ r.staged = sh[p].staged /\ r.current = sh[p].current
      /\ r.workdir \/ r.workdir = sh[p].workdir
  <2>1. CASE r = [sh[p] EXCEPT !.workdir = TRUE, !.pc = "setup"] BY <1>1, <1>4, <2>1 DEF ShellType
  <2>2. CASE r = [sh[p] EXCEPT !.workdir = TRUE, !.pc = "save bin"] BY <1>1, <1>4, <2>2 DEF ShellType
  <2>3. CASE r = [sh[p] EXCEPT !.pc = "setup"] BY <1>1, <1>4, <2>3 DEF ShellType
  <2>4. CASE r = [sh[p] EXCEPT !.pc = "cleanup", !.result = "failed"] BY <1>1, <1>4, <2>4 DEF ShellType
  <2> QED BY <1>3, <2>1, <2>2, <2>3, <2>4
<1>6. /\ w \in SetupType /\ w.path \in {p, Root} /\ w.code = setup[p].code /\ w.agreed = setup[p].agreed
      /\ w.caught = setup[p].caught /\ w.watcher = setup[p].watcher /\ w.echo = setup[p].echo
      /\ w.ask \in {"none", "terminal"} /\ (w.ask = "terminal" => w # setup[p])
  <2>1. CASE w = setup[p] BY <1>1, <1>2, <2>1
  <2>2. ASSUME NEW d \in {p, Root}, w = [setup[p] EXCEPT !.ask = "terminal", !.path = d]
        PROVE  /\ w \in SetupType /\ w.path \in {p, Root} /\ w.code = setup[p].code
               /\ w.agreed = setup[p].agreed /\ w.caught = setup[p].caught
               /\ w.watcher = setup[p].watcher /\ w.echo = setup[p].echo /\ w.ask = "terminal"
    BY <1>1, <2>2 DEF SetupType
  <2> QED BY <1>2, <1>3, <2>1, <2>2
<1>7. setup'[p] = w /\ WizardShape' BY <1>1, <1>2, <1>3, <1>6 DEF WizardShape
<1>8. sh'[p] = r /\ OwnShell(p) BY <1>1, <1>3, <1>5 DEF OwnShell, ShellShape
<1>9. WizardOK(p)' BY <1>1, <1>2, <1>6, <1>7 DEF WizardOK, Gap
<1>10. ShellOK(p)'
  <2>1. cand'[p] = None BY <1>1, <1>2 DEF WizardOK
  <2>2. w.ask # "none" => r.pc = "setup" BY <1>2, <1>3
  <2>3. r.pc = "setup" /\ w.path = p => r.workdir BY <1>3, SetupAssumption
  <2>4. r.staged # None => r.current BY <1>1, <1>5 DEF ShellOK
  <2>5. r.pc \notin Free => r.mode = "upgrade" BY <1>3, <1>5 DEF Free
  <2>6. p \in host'.actors BY <1>2
  <2> QED BY <1>5, <1>7, <1>8, <2>1, <2>2, <2>3, <2>4, <2>5, <2>6 DEF ShellOK
<1>11. \A q \in Installer : q # p => setup'[q] = setup[q] BY <1>1, <1>3
<1>12. \A q \in Installer : setup'[q].agreed = setup[q].agreed BY <1>6, <1>7, <1>11
<1>15. Persists
  <2>1. setup[p].code # "ok" /\ setup[p].path # Root BY <1>2, SetupAssumption
  <2>2. sh'[p].mode = sh[p].mode BY <1>5, <1>8
  <2>3. \A q \in Installer : q # p => sh'[q] = sh[q] BY <1>8 DEF OwnShell
  <2> QED BY <1>11, <1>12, <2>1, <2>2, <2>3 DEF Persists
<1>13. Around(p) BY <1>2, <1>7, <1>8, <1>11, <1>15 DEF Around, OwnShell
<1>14. \A d \in Installer \cup {Root} : AgreedTo(cand[d])'
  BY <1>2, <1>12 DEF Inv, WizardInv, AgreedTo
<1> QED BY <1>9, <1>10, <1>13, <1>14, AroundKeeps

\* The cleanup of an installer that was not killed.
LEMMA CleanupStep ==
  ASSUME Inv, NEW p \in Installer, Cleanup(p)
  PROVE  Stepped
<1>1. ShellOK(p) /\ WizardOK(p) /\ sh[p] \in ShellType /\ sh \in [Installer -> ShellType]
      /\ cand \in [Installer \cup {Root} -> Any] /\ None \in Any
  BY DEF Inv, ShellInv, WizardInv, Shape, ShellShape, WizardShape, Any, Content
<1>2. UNCHANGED <<setup, host>> /\ sh[p].pc \in {"cleanup", "trapped"} BY DEF Cleanup, env
<1> DEFINE t == IF sh[p].current THEN Unstaged(p, "done") ELSE [sh[p] EXCEPT !.pc = "done"]
           r == [t EXCEPT !.workdir = FALSE, !.backup = NoBackup]
<1>3. sh' = [sh EXCEPT ![p] = r] BY DEF Cleanup
<1>4. NoBackup \in [bin : Any, unit : Any, active : BOOLEAN, enabled : BOOLEAN] BY <1>1 DEF NoBackup
<1>5. t \in ShellType /\ t.mode = sh[p].mode /\ t.pc = "done" /\ t.staged = (IF sh[p].current THEN None ELSE sh[p].staged)
  BY <1>1 DEF Unstaged, ShellType, Commands
<1> HIDE DEF t
<1>6. r \in ShellType /\ r.pc = "done" /\ ~r.workdir /\ r.staged = t.staged /\ r.mode = t.mode
  BY <1>4, <1>5 DEF ShellType
<1> HIDE DEF r
<1>7. sh'[p] = r /\ OwnShell(p) BY <1>1, <1>3, <1>6 DEF OwnShell, ShellShape
<1>8. cand' = [cand EXCEPT ![p] = IF sh[p].workdir THEN None ELSE @] BY DEF Cleanup
<1>9. cand'[p] = None /\ r.staged = None BY <1>1, <1>2, <1>5, <1>6, <1>8 DEF ShellOK
<1>10. WizardOK(p)' BY <1>1, <1>2, <1>9 DEF WizardOK
<1>11. ShellOK(p)' BY <1>1, <1>2, <1>6, <1>7, <1>9 DEF ShellOK, Free
<1>12. \A d \in Installer \cup {Root} : AgreedTo(cand[d])'
  BY <1>1, <1>2, <1>8, SetupAssumption DEF Inv, WizardInv, AgreedTo
<1>13. Around(p)
  <2>1. r.mode = sh[p].mode BY <1>5, <1>6
  <2>2. Persists BY <1>2, <1>7, <2>1 DEF Persists, OwnShell
  <2> QED BY <1>1, <1>2, <1>7, <1>8, <2>2 DEF Around, OwnShell, WizardShape, Inv, Shape
<1> QED BY <1>10, <1>11, <1>12, <1>13, AroundKeeps

-----------------------------------------------------------------------------
\* What a step may do to the files and to the symlink: an installer that is past its
\* questions, or an update, replaces the binary or the unit file or sets the symlink,
\* and an installer links its staged configuration where there is none.
Replaces == \E f \in {"bin", "unit"}, x \in Any : file' = [file EXCEPT ![f] = x]

Links(p) ==
  /\ sh[p].pc = "link" /\ file["config"] = None
  /\ file' = [file EXCEPT !["config"] = sh[p].staged]

FileEffect(p) ==
  /\ undo' = undo /\ enabled' \in BOOLEAN /\ upd' = upd
  /\ \/ UNCHANGED <<file, enabled>>
     \/ sh[p].pc \notin Free /\ (UNCHANGED file \/ Replaces \/ Links(p))

\* Every step of a shell has one of these effects.
LEMMA ShellFiles ==
  ASSUME Shape, NEW p \in Installer,
         Shell(p) \/ Fails(p) \/ Interrupt(p) \/ Kill(p)
  PROVE  FileEffect(p)
<1>a. /\ sh[p] \in ShellType /\ enabled \in BOOLEAN /\ sh[p].staged \in Any /\ None \in Any
      /\ sh[p].backup.enabled \in BOOLEAN
  BY DEF Shape, ShellShape, FileShape, ShellType, Any, Content
<1> USE DEF FileEffect, quiet, systemd, updater, At, Goto
<1>1. CASE \/ Start(p) \/ SetupDone(p) \/ Save(p) \/ CreateWorkDir(p) \/ NoWorkDir(p) \/ Trap(p)
           \/ Cleanup(p) \/ Interrupt(p) \/ Kill(p) \/ Fails(p)
  BY <1>a, <1>1
     DEF Start, SetupDone, Save, CreateWorkDir, NoWorkDir, Trap, Cleanup, Interrupt, Kill, Fails
<1>2. ASSUME NEW place, NEW next, NEW x, Stage(p, place, next, x) PROVE FileEffect(p)
  BY <1>a, <1>2 DEF Stage
<1>3. ASSUME NEW f \in {"bin", "unit"}, NEW place, place \notin Free, NEW next, Move(p, f, place, next)
      PROVE  FileEffect(p)
  BY <1>a, <1>3 DEF Move, Replaces
<1>4. CASE StageReleaseAssets(p)
  BY <1>2, <1>3, <1>4 DEF StageReleaseAssets, Free
<1>5. CASE CommitFirstConfiguration(p)
  <2>1. CASE Check(p, "check", "stage config") \/ Check(p, "recheck", "link")
    BY <1>a, <2>1 DEF Check
  <2>2. CASE Link(p) BY <1>a, <2>2 DEF Link, Links, Free
  <2>3. CASE UNCHANGED quiet BY <1>a, <2>3
  <2> QED BY <1>2, <1>5, <2>1, <2>2, <2>3 DEF CommitFirstConfiguration
<1>6. CASE Activate(p)
  BY <1>a, <1>6 DEF Activate, Protect, Reload, Enable, Restart, Verify, Free
<1>7. CASE RollbackUpgrade(p)
  <2>1. ASSUME NEW f \in {"bin", "unit"}, NEW place, NEW between, NEW next,
               place \notin Free, between \notin Free, PutBack(p, f, place, between, next)
        PROVE  FileEffect(p)
    <3>1. CASE At(p, place) /\ file' = [file EXCEPT ![f] = None] /\ UNCHANGED <<systemd, updater, env, wizard>>
      BY <1>a, <2>1, <3>1 DEF Replaces
    <3> QED BY <1>2, <1>3, <2>1, <3>1 DEF PutBack
  <2>2. CASE Reload(p, "reload back", "enable back") \/ RestartBack(p)
    BY <1>a, <2>2 DEF Reload, RestartBack
  <2>3. CASE EnableBack(p) BY <1>a, <2>3 DEF EnableBack, Free
  <2> QED BY <1>7, <2>1, <2>2, <2>3 DEF RollbackUpgrade, Free
<1> QED BY <1>1, <1>4, <1>5, <1>6, <1>7 DEF Shell

FileInv ==
  /\ host \in Hosts
  /\ AgreedTo(file["config"])
  /\ Unconfirmed => file = host.file /\ enabled = host.on

\* Nothing makes an installation unconfirmed again, and what is confirmed or was there
\* before the upgrade explains a file that changes.
LEMMA FilesKeep ==
  ASSUME Inv, FileInv, NEW p \in Installer, FileEffect(p), Persists, UNCHANGED host
  PROVE  /\ FileShape' /\ FileInv'
         /\ file["config"] # None => file'["config"] = file["config"]
<1>1. file \in [File -> Any] /\ undo \in Any /\ ShellOK(p) /\ host \in Hosts
  BY DEF Inv, Shape, FileShape, ShellInv, FileInv
<1>2. sh[p].staged \in Any BY DEF Inv, Shape, ShellShape, ShellType
<1>3. FileShape' BY <1>1, <1>2 DEF FileEffect, Replaces, Links, FileShape, File
<1>4. file["config"] # None => file'["config"] = file["config"]
  BY <1>1 DEF FileEffect, Replaces, Links, File
<1>5. AgreedTo(file["config"])'
  <2>1. file'["config"] = file["config"] \/ (file'["config"] = sh[p].staged /\ sh[p].pc = "link")
    BY <1>1 DEF FileEffect, Replaces, Links, File
  <2>2. AgreedTo(file["config"]) /\ (sh[p].pc = "link" => AgreedTo(sh[p].staged))
    BY <1>1 DEF FileInv, ShellOK
  <2> QED BY <2>1, <2>2 DEF AgreedTo, Persists
<1>6. Unconfirmed' => file' = host'.file /\ enabled' = host'.on
  <2> SUFFICES ASSUME Unconfirmed' PROVE file' = host'.file /\ enabled' = host'.on OBVIOUS
  <2>1. host.actors \subseteq Installer BY <1>1, InstallerAssumption DEF Host
  <2>2. Unconfirmed BY <2>1 DEF Unconfirmed, FileEffect, Persists
  <2>3. sh[p].pc \in Free
    BY <1>1, <2>2 DEF Unconfirmed, ShellOK, Free
  <2> QED BY <2>2, <2>3 DEF FileInv, FileEffect
<1> QED BY <1>1, <1>3, <1>4, <1>5, <1>6 DEF FileInv

\* The update and the service touch neither the configuration nor an installer.
LEMMA OtherFiles ==
  ASSUME Inv, FileInv, Update \/ ServiceFails \/ ServiceAutoRestarts \/ UNCHANGED vars
  PROVE  /\ Inv' /\ FileInv'
         /\ file["config"] # None => file'["config"] = file["config"]
<1>1. UNCHANGED <<sh, setup, cand, host, enabled>>
  BY DEF Update, ServiceFails, ServiceAutoRestarts, vars, quiet, wizard, env, systemd
<1>2. file \in [File -> Any] /\ undo \in Any /\ enabled \in BOOLEAN BY DEF Inv, Shape, FileShape
<1>3. /\ file' \in [File -> Any] /\ undo' \in Any /\ file'["config"] = file["config"]
      /\ (file' = file /\ upd' = upd) \/ upd' # "off"
  <2>1. CASE Update
    <3>1. PICK x \in Any : UNCHANGED file \/ file' = [file EXCEPT !["bin"] = x]
      BY <1>2, <2>1 DEF Update, Any, Content
    <3>2. undo' \in Any /\ upd' # "off" BY <1>2, <2>1 DEF Update, UpdTo, File
    <3> QED BY <1>2, <3>1, <3>2 DEF File
  <2>2. CASE UNCHANGED <<file, undo, upd>> BY <1>2, <2>2
  <2> QED BY <2>1, <2>2 DEF ServiceFails, ServiceAutoRestarts, vars, quiet, updater
<1>4. Shape' BY <1>1, <1>2, <1>3 DEF Inv, Shape, ShellShape, WizardShape, FileShape
<1>5. WizardInv' /\ ShellInv'
  BY <1>1 DEF Inv, WizardInv, ShellInv, WizardOK, ShellOK, AgreedTo
<1>6. Unconfirmed' => file' = host'.file /\ enabled' = host'.on
  BY <1>1, <1>3 DEF FileInv, Unconfirmed
<1> QED BY <1>1, <1>3, <1>4, <1>5, <1>6 DEF Inv, FileInv, AgreedTo

\* A step of a setup process concerns a process that runs, and nothing outside it.
LEMMA SetupMoves ==
  ASSUME Inv, NEW p \in Installer, SetupRuns(p) \/ SetupWatches(p) \/ SetupAsks(p) \/ SetupFails(p)
  PROVE  /\ WizardStep(p) /\ setup[p].ask # "none"
         /\ UNCHANGED <<sh, host, file, loaded, enabled, running, undo, upd, kills>>
         /\ faults' \in {faults, faults + 1}
<1>1. /\ WizardStep(p) /\ UNCHANGED <<sh, host, file, loaded, enabled, running, undo, upd, kills>>
      /\ faults' \in {faults, faults + 1}
  BY DEF SetupRuns, SetupWatches, SetupAsks, SetupFails, WizardStep, env, systemd, updater
<1>2. WizardOK(p) BY DEF Inv, WizardInv
<1>3. setup[p].ask # "none"
  BY <1>2
     DEF SetupRuns, SetupWatches, SetupAsks, SetupFails, Runs, Watch, User, WizardOK, Ask, EchoOff,
         Guard, RestoreEcho, Unguard, Unread, Create, Write, Exists, NotCreated, NotWritten,
         WatchSignal, WatchRestore, WatchKill, WatchDone, Unanswered, Declined, Answered, Confirmed,
         Entered, InputEnds, Unprompted, StopFirst, RestoreLast
<1> QED BY <1>1, <1>3

\* Every step keeps both invariants and the configuration.
LEMMA InstallerStep ==
  ASSUME Inv, FileInv, [Next]_vars
  PROVE  /\ Inv' /\ FileInv'
         /\ file["config"] # None => file'["config"] = file["config"]
<1> DEFINE Goal == Inv' /\ FileInv' /\ (file["config"] # None => file'["config"] = file["config"])
<1>1. ASSUME NEW p \in Installer, Stepped, FileEffect(p) PROVE Goal
  BY <1>1, FilesKeep DEF Stepped, Inv, Shape
<1>2. ASSUME NEW p \in Installer, Shell(p) \/ Fails(p) \/ Interrupt(p) \/ Kill(p)
      PROVE  Goal
  <2>1. FileEffect(p) BY <1>2, ShellFiles DEF Inv
  <2>2. Stepped
    BY <1>2, PlainStep, WorkDirStep, CleanupStep, InterruptStep DEF Shell, PlainShell
  <2> QED BY <1>1, <2>1, <2>2
<1>3. ASSUME NEW p \in Installer, SetupRuns(p) \/ SetupWatches(p) \/ SetupAsks(p) \/ SetupFails(p)
      PROVE  Goal
  <2>1. WizardStep(p) /\ setup[p].ask # "none" /\ UNCHANGED <<sh, host, file, enabled, undo, upd>>
    BY <1>3, SetupMoves
  <2>2. Stepped BY <2>1, SetupStep
  <2>3. FileEffect(p) BY <2>1 DEF FileEffect, Inv, Shape, FileShape
  <2> QED BY <1>1, <2>2, <2>3
<1>4. CASE Update \/ ServiceFails \/ ServiceAutoRestarts \/ UNCHANGED vars BY <1>4, OtherFiles
<1> QED BY <1>2, <1>3, <1>4 DEF Next

\* The invariants hold at the start,
LEMMA InstallerInit == Init => Inv /\ FileInv
<1> SUFFICES ASSUME Init PROVE Inv /\ FileInv OBVIOUS
<1>a. None \in Any /\ host \in Hosts /\ host \in Host BY InstallerAssumption DEF Init, Any, Content
<1>1. ShellShape BY <1>a DEF Init, ShellShape, ShellType, NoBackup, Commands
<1>2. host.file \in [File -> {Old, Existing, Odd, None}] /\ host.on \in BOOLEAN
      /\ host.stray \in {Existing, None}
  BY <1>a DEF Host
<1>3. WizardShape BY <1>2, SetupAssumption DEF Init, SetupInit, WizardShape, SetupType, Any, Content
<1>4. FileShape BY <1>2 DEF Init, FileShape, Any, Content, File
<1>5. \A p \in Installer :
        /\ setup[p].ask = "none" /\ setup[p].code = "none" /\ setup[p].echo /\ ~setup[p].caught
        /\ setup[p].watcher = "none" /\ setup[p].path = p
        /\ cand[p] = None
        /\ sh[p].pc = "start" /\ sh[p].mode = "none" /\ ~sh[p].pending /\ sh[p].staged = None
  BY SetupAssumption DEF Init, SetupInit
<1>6. \A d \in Installer \cup {Root} : cand[d] \in {None, Existing}
  BY <1>2, SetupAssumption DEF Init, SetupInit
<1>7. WizardInv
  <2>1. \A p \in Installer : WizardOK(p) BY <1>5 DEF WizardOK
  <2>2. None \notin Installer /\ Existing \notin Installer BY SetupAssumption, InstallerAssumption
  <2>3. \A d \in Installer \cup {Root} : AgreedTo(cand[d]) BY <1>6, <2>2 DEF AgreedTo
  <2> QED BY <2>1, <2>3 DEF WizardInv
<1>8. ShellInv
  <2> SUFFICES ASSUME NEW p \in Installer PROVE ShellOK(p) BY DEF ShellInv
  <2> QED BY <1>5 DEF ShellOK, Free
<1>9. FileInv
  BY <1>a, <1>2, SetupAssumption, InstallerAssumption DEF Init, FileInv, AgreedTo, File
<1> QED BY <1>1, <1>3, <1>4, <1>7, <1>8, <1>9 DEF Inv, Shape

\* and for ever.
LEMMA InstallerAlways == Spec => [](Inv /\ FileInv)
<1>1. Inv /\ FileInv /\ [Next]_vars => (Inv /\ FileInv)' BY InstallerStep
<1> QED BY <1>1, InstallerInit, PTL DEF Spec

\* No installer replaces or removes a configuration that is there.
THEOREM ConfigIsKept == Spec => ConfigNeverReplaced
<1>1. Inv /\ FileInv /\ [Next]_vars => [file["config"] # None => file'["config"] = file["config"]]_file
  BY InstallerStep
<1> QED BY <1>1, InstallerAlways, PTL DEF Spec, ConfigNeverReplaced

\* Nothing is installed without an answer that was given.
THEOREM NothingWithoutConsent == Spec => []Consent
<1>1. Inv /\ FileInv => Consent BY DEF FileInv, Consent, AgreedTo
<1> QED BY <1>1, InstallerAlways, PTL

\* The terminal echoes again unless the signal came in one of the two gaps.
THEOREM EchoIsKept == Spec => []EchoKept
<1>1. Inv => EchoKept BY DEF Inv, WizardInv, WizardOK, EchoKept, Gap
<1> QED BY <1>1, InstallerAlways, PTL

\* An installer that has ended has removed what it staged, saved and asked for.
THEOREM NothingLeft == Spec => []NoLeftovers
<1>1. Inv => NoLeftovers BY DEF Inv, ShellInv, ShellOK, NoLeftovers
<1> QED BY <1>1, InstallerAlways, PTL
=============================================================================
