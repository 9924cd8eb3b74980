----------------------- MODULE InstallerOutcomeProofs -----------------------
(***************************************************************************)
(* Proofs about what installers leave on a host: whole files, the rollback *)
(* of an upgrade, and a service that runs what is installed; for any set   *)
(* of installers, any hosts and any number of faults and kills.            *)
(***************************************************************************)
EXTENDS InstallerProofs

\* Steps of the shell of installer p.
ShellSteps(p) == Shell(p) \/ Fails(p) \/ Interrupt(p) \/ Kill(p)

\* A step of one shell leaves the records of the others alone.
LEMMA ShellAlone ==
  ASSUME Inv, NEW p \in Installer, ShellSteps(p)
  PROVE  \A q \in Installer \ {p} : sh'[q] = sh[q]
<1>1. sh \in [Installer -> ShellType] BY DEF Inv, Shape, ShellShape
<1>2. CASE PlainShell(p)
  <2>1. PICK r : Becomes(p, r) BY <1>2, PlainShellKeeps DEF Inv
  <2> QED BY <1>1, <2>1 DEF Becomes
<1>3. CASE CreateWorkDir(p) \/ NoWorkDir(p) \/ Cleanup(p) \/ Interrupt(p)
  <2>1. \E r : sh' = [sh EXCEPT ![p] = r]
    BY <1>3 DEF CreateWorkDir, NoWorkDir, Cleanup, Interrupt, Goto, Exit
  <2> QED BY <1>1, <2>1
<1> QED BY <1>2, <1>3 DEF ShellSteps, Shell, PlainShell

\* What a step makes of setup processes and candidates: that of its own installer.
LEMMA SetupAlone ==
  ASSUME Inv, NEW p \in Installer, ShellSteps(p)
  PROVE  \/ UNCHANGED wizard
         \/ UNCHANGED setup /\ cand' = [cand EXCEPT ![p] = None]
         \/ sh[p].pc = "workdir" /\ \E d \in {p, Root} : StartSetup(p, d)
         \/ setup[p].ask # "none" /\ SignalSetup(p) /\ Interrupt(p)
<1>1. CASE PlainShell(p)
  <2>1. PICK r : Becomes(p, r) BY <1>1, PlainShellKeeps DEF Inv
  <2> QED BY <2>1 DEF Becomes
<1>2. CASE CreateWorkDir(p) \/ NoWorkDir(p)
  BY <1>2 DEF CreateWorkDir, NoWorkDir, At
<1>3. CASE Cleanup(p)
  <2>1. cand \in [Installer \cup {Root} -> Any] BY DEF Inv, Shape, WizardShape
  <2>2. CASE sh[p].workdir BY <1>3, <2>2 DEF Cleanup
  <2>3. CASE ~sh[p].workdir
    <3>1. cand' = cand BY <1>3, <2>1, <2>3 DEF Cleanup
    <3> QED BY <1>3, <3>1 DEF Cleanup, wizard
  <2> QED BY <2>2, <2>3
<1>4. CASE Interrupt(p) BY <1>4 DEF Interrupt
<1> QED BY <1>1, <1>2, <1>3, <1>4 DEF ShellSteps, Shell, PlainShell

-----------------------------------------------------------------------------
\* What a step makes of the record of installer p: the next place, the mode, what is
\* saved, what is staged, and the result.
Fields(p, c, m, b, x, how) ==
  /\ sh'[p].pc = c /\ sh'[p].mode = m /\ sh'[p].backup = b /\ sh'[p].staged = x
  /\ sh'[p].result = how

\* Only the place, or the place and the result.
Place(p, c)     == Fields(p, c, sh[p].mode, sh[p].backup, sh[p].staged, sh[p].result)
Ends(p, c, how) == Fields(p, c, sh[p].mode, sh[p].backup, sh[p].staged, how)
Staged1(p, c, x) == Fields(p, c, sh[p].mode, sh[p].backup, x, sh[p].result)

\* The forms that several commands share.
LEMMA GotoForm ==
  ASSUME ShellShape, NEW p \in Installer, NEW c, Goto(p, c)
  PROVE  Place(p, c)
BY DEF ShellShape, ShellType, Goto, Place, Fields

\* Ending a script sets its place and its result only.
LEMMA ExitForm ==
  ASSUME ShellShape, NEW p \in Installer, NEW how, Exit(p, how)
  PROVE  Ends(p, "cleanup", how)
BY DEF ShellShape, ShellType, Exit, Ends, Fields

\* A failed activation ends a first installation and rolls an upgrade back.
LEMMA NotActivatedForm ==
  ASSUME ShellShape, NEW p \in Installer, NotActivated(p)
  PROVE  Ends(p, IF sh[p].mode = "fresh" THEN "cleanup" ELSE "restore bin", "failed")
BY DEF ShellShape, ShellType, NotActivated, Ends, Fields

\* stage_file marks and fills the staged file and moves on; nothing active changes.
LEMMA StageForm ==
  ASSUME ShellShape, NEW p \in Installer, NEW place, NEW next, NEW x, Stage(p, place, next, x)
  PROVE  sh[p].pc = place /\ Staged1(p, next, x) /\ UNCHANGED quiet
<1>1. sh' = [sh EXCEPT ![p].pc = next, ![p].current = TRUE, ![p].staged = x]
      /\ sh[p].pc = place /\ UNCHANGED quiet
  BY DEF Stage, At
<1> QED BY <1>1 DEF ShellShape, ShellType, Staged1, Fields

\* Giving the staged file up leaves the rest of the shell as it was.
LEMMA UnstagedForm ==
  ASSUME ShellShape, NEW p \in Installer, NEW c, sh' = [sh EXCEPT ![p] = Unstaged(p, c)]
  PROVE  Staged1(p, c, None)
BY DEF ShellShape, ShellType, Unstaged, Staged1, Fields

\* A commit that comes too late ends the script as lost, without a staged file.
LEMMA RefuseForm ==
  ASSUME ShellShape, NEW p \in Installer, Refuse(p)
  PROVE  Fields(p, "cleanup", sh[p].mode, sh[p].backup, None, "lost")
BY DEF ShellShape, ShellType, Refuse, Unstaged, Fields

\* The commands that have a form of their own.
LEMMA StartForm ==
  ASSUME ShellShape, NEW p \in Installer, Start(p)
  PROVE  /\ sh[p].pc = "start" /\ p \in host.actors /\ UNCHANGED quiet
         /\ \/ Ends(p, "cleanup", "failed")
            \/ /\ file["config"] = None
               /\ Fields(p, "workdir", "fresh", sh[p].backup, sh[p].staged, sh[p].result)
            \/ /\ file["config"] # None
               /\ Fields(p, "workdir", "upgrade", sh[p].backup, sh[p].staged, sh[p].result)
<1>1. sh[p].pc = "start" /\ p \in host.actors /\ UNCHANGED quiet BY DEF Start, At
<1>2. CASE Exit(p, "failed") BY <1>1, <1>2, ExitForm
<1>3. CASE sh' = [sh EXCEPT ![p].pc = "workdir", ![p].mode = "fresh"] /\ file["config"] = None
  <2>1. Fields(p, "workdir", "fresh", sh[p].backup, sh[p].staged, sh[p].result)
    BY <1>3 DEF ShellShape, ShellType, Fields
  <2> QED BY <1>1, <1>3, <2>1
<1>4. CASE sh' = [sh EXCEPT ![p].pc = "workdir", ![p].mode = "upgrade"] /\ file["config"] # None
  <2>1. Fields(p, "workdir", "upgrade", sh[p].backup, sh[p].staged, sh[p].result)
    BY <1>4 DEF ShellShape, ShellType, Fields
  <2> QED BY <1>1, <1>4, <2>1
<1>5. \/ file["config"] = Odd /\ Exit(p, "failed")
      \/ file["config"] = None /\ sh' = [sh EXCEPT ![p].pc = "workdir", ![p].mode = "fresh"]
      \/ file["config"] # None /\ sh' = [sh EXCEPT ![p].pc = "workdir", ![p].mode = "upgrade"]
  BY DEF Start
<1> QED BY <1>2, <1>3, <1>4, <1>5

\* With a work directory or without: to the wizard, to the backups, or to the end.
LEMMA WorkDirForm ==
  ASSUME ShellShape, NEW p \in Installer, CreateWorkDir(p) \/ NoWorkDir(p)
  PROVE  /\ sh[p].pc = "workdir" /\ UNCHANGED <<file, systemd, updater, host, kills>>
         /\ \/ Place(p, "setup") /\ sh[p].mode = "fresh"
            \/ Place(p, "save bin") /\ sh[p].mode # "fresh"
            \/ Ends(p, "cleanup", "failed")
<1>1. sh[p].pc = "workdir" /\ UNCHANGED <<file, systemd, updater, host, kills>>
  BY DEF CreateWorkDir, NoWorkDir, At, env
<1>2. CASE CreateWorkDir(p)
  <2> DEFINE c == IF sh[p].mode = "fresh" THEN "setup" ELSE "save bin"
  <2>1. sh' = [sh EXCEPT ![p].workdir = TRUE, ![p].pc = c] BY <1>2 DEF CreateWorkDir
  <2> HIDE DEF c
  <2>2. Place(p, c) BY <2>1 DEF ShellShape, ShellType, Place, Fields
  <2> QED BY <1>1, <2>2 DEF c
<1>3. CASE NoWorkDir(p) BY <1>1, <1>3, GotoForm, ExitForm DEF NoWorkDir
<1> QED BY <1>2, <1>3

\* backup_upgrade_assets takes the two files and the two states in this order.
LEMMA SaveForm ==
  ASSUME ShellShape, NEW p \in Installer, Save(p)
  PROVE  LET b == sh[p].backup
             To(place, c, bb) == sh[p].pc = place
                                 /\ Fields(p, c, sh[p].mode, bb, sh[p].staged, sh[p].result)
         IN /\ UNCHANGED quiet
            /\ \/ To("save bin", "save unit", [b EXCEPT !.bin = file["bin"]])
               \/ To("save unit", "was active", [b EXCEPT !.unit = file["unit"]])
               \/ To("was active", "was enabled", [b EXCEPT !.active = IsActive])
               \/ To("was enabled", "bin", [b EXCEPT !.enabled = enabled])
<1> DEFINE s == sh[p]
<1>a. s \in ShellType /\ sh \in [Installer -> ShellType] BY DEF ShellShape
<1>1. PICK r \in {[s EXCEPT !.pc = "save unit", !.backup.bin = file["bin"]],
                  [s EXCEPT !.pc = "was active", !.backup.unit = file["unit"]],
                  [s EXCEPT !.pc = "was enabled", !.backup.active = IsActive],
                  [s EXCEPT !.pc = "bin", !.backup.enabled = enabled]} :
        /\ sh' = [sh EXCEPT ![p] = r]
        /\ r.pc = "save unit" => s.pc = "save bin"
        /\ r.pc = "was active" => s.pc = "save unit"
        /\ r.pc = "was enabled" => s.pc = "was active"
        /\ r.pc = "bin" => s.pc = "was enabled"
  BY <1>a DEF Save, At, ShellType
<1>2. sh'[p] = r /\ UNCHANGED quiet BY <1>a, <1>1 DEF Save
<1>3. CASE r = [s EXCEPT !.pc = "save unit", !.backup.bin = file["bin"]]
  <2>1. r.pc = "save unit" /\ r.mode = s.mode /\ r.backup = [s.backup EXCEPT !.bin = file["bin"]]
        /\ r.staged = s.staged /\ r.result = s.result
    BY <1>a, <1>3 DEF ShellType
  <2> QED BY <1>1, <1>2, <2>1 DEF Fields
<1>4. CASE r = [s EXCEPT !.pc = "was active", !.backup.unit = file["unit"]]
  <2>1. r.pc = "was active" /\ r.mode = s.mode /\ r.backup = [s.backup EXCEPT !.unit = file["unit"]]
        /\ r.staged = s.staged /\ r.result = s.result
    BY <1>a, <1>4 DEF ShellType
  <2> QED BY <1>1, <1>2, <2>1 DEF Fields
<1>5. CASE r = [s EXCEPT !.pc = "was enabled", !.backup.active = IsActive]
  <2>1. r.pc = "was enabled" /\ r.mode = s.mode /\ r.backup = [s.backup EXCEPT !.active = IsActive]
        /\ r.staged = s.staged /\ r.result = s.result
    BY <1>a, <1>5 DEF ShellType
  <2> QED BY <1>1, <1>2, <2>1 DEF Fields
<1>6. CASE r = [s EXCEPT !.pc = "bin", !.backup.enabled = enabled]
  <2>1. r.pc = "bin" /\ r.mode = s.mode /\ r.backup = [s.backup EXCEPT !.enabled = enabled]
        /\ r.staged = s.staged /\ r.result = s.result
    BY <1>a, <1>6 DEF ShellType
  <2> QED BY <1>1, <1>2, <2>1 DEF Fields
<1> QED BY <1>1, <1>3, <1>4, <1>5, <1>6

\* A trap goes to the cleanup from any place and records the interrupt.
LEMMA TrapForm ==
  ASSUME ShellShape, NEW p \in Installer, Trap(p)
  PROVE  Ends(p, "trapped", "interrupted") /\ UNCHANGED quiet
<1>1. sh' = [sh EXCEPT ![p].pc = "trapped", ![p].pending = FALSE, ![p].result = "interrupted"]
      /\ UNCHANGED quiet
  BY DEF Trap
<1> QED BY <1>1 DEF ShellShape, ShellType, Ends, Fields

\* The cleanup keeps mode and result and forgets the backups.
LEMMA CleanupForm ==
  ASSUME ShellShape, NEW p \in Installer, Cleanup(p)
  PROVE  /\ sh[p].pc \in {"cleanup", "trapped"} /\ UNCHANGED <<setup, file, systemd, updater, env>>
         /\ \E x \in {None, sh[p].staged} : Fields(p, "done", sh[p].mode, NoBackup, x, sh[p].result)
<1>1. sh[p].pc \in {"cleanup", "trapped"} /\ UNCHANGED <<setup, file, systemd, updater, env>>
  BY DEF Cleanup
<1> DEFINE t == IF sh[p].current THEN Unstaged(p, "done") ELSE [sh[p] EXCEPT !.pc = "done"]
<1>2. sh' = [sh EXCEPT ![p] = [t EXCEPT !.workdir = FALSE, !.backup = NoBackup]] BY DEF Cleanup
<1>3. /\ t \in ShellType /\ t.pc = "done" /\ t.mode = sh[p].mode /\ t.staged \in {None, sh[p].staged}
      /\ t.result = sh[p].result
  BY DEF Unstaged, ShellShape, ShellType, Commands, Any, Content
<1> HIDE DEF t
<1> DEFINE r == [t EXCEPT !.workdir = FALSE, !.backup = NoBackup]
<1>4. r.pc = t.pc /\ r.mode = t.mode /\ r.staged = t.staged /\ r.result = t.result
      /\ r.backup = NoBackup
  BY <1>3 DEF ShellType
<1> HIDE DEF r
<1>5. sh'[p] = r BY <1>2 DEF ShellShape, r
<1> QED BY <1>1, <1>3, <1>4, <1>5 DEF Fields

\* A failing command ends the script, rolls it back, or is ignored, by its place.
LEMMA FailForm ==
  ASSUME ShellShape, NEW p \in Installer, Fails(p)
  PROVE  /\ faults' = faults + 1 /\ faults < host.faults
         /\ UNCHANGED <<file, loaded, enabled, updater, host, kills, wizard>>
         /\ running' \in (IF sh[p].pc \in {"restart", "restart back"} THEN {running, None} ELSE {running})
         /\ \/ /\ sh[p].pc \in Stages
               /\ Fields(p, "cleanup", sh[p].mode, sh[p].backup, Partial, "failed")
            \/ sh[p].pc \in Others /\ Ends(p, "cleanup", "failed")
            \/ /\ sh[p].pc \in Activation
               /\ Ends(p, IF sh[p].mode = "fresh" THEN "cleanup" ELSE "restore bin", "failed")
            \/ sh[p].pc = "reload back" /\ Place(p, "enable back")
            \/ sh[p].pc = "enable back" /\ Place(p, "restart back")
            \/ sh[p].pc = "restart back" /\ Ends(p, "cleanup", "rolled back")
<1>1. CASE sh[p].pc \in Stages /\ sh' = [sh EXCEPT ![p].pc = "cleanup", ![p].result = "failed",
                                                   ![p].current = TRUE, ![p].staged = Partial]
  <2> DEFINE r == [sh[p] EXCEPT !.pc = "cleanup", !.result = "failed", !.current = TRUE, !.staged = Partial]
  <2>2. sh' = [sh EXCEPT ![p] = r] BY <1>1 DEF ShellShape
  <2>3. r.pc = "cleanup" /\ r.result = "failed" /\ r.mode = sh[p].mode /\ r.backup = sh[p].backup
        /\ r.staged = Partial
    BY DEF ShellShape, ShellType
  <2> HIDE DEF r
  <2>1. Fields(p, "cleanup", sh[p].mode, sh[p].backup, Partial, "failed")
    BY <2>2, <2>3 DEF ShellShape, Fields
  <2> QED BY <1>1, <2>1 DEF Fails
<1> QED BY <1>1, GotoForm, ExitForm, NotActivatedForm DEF Fails

\* An interrupt changes neither place nor files; its trap comes later.
LEMMA InterruptForm ==
  ASSUME ShellShape, NEW p \in Installer, Interrupt(p)
  PROVE  Place(p, sh[p].pc) /\ UNCHANGED <<file, systemd, updater, env>>
<1>1. sh' = [sh EXCEPT ![p].pending = TRUE] BY DEF Interrupt
<1>2. Place(p, sh[p].pc) BY <1>1 DEF ShellShape, ShellType, Place, Fields
<1> QED BY <1>2 DEF Interrupt

\* A kill changes the place of the shell only.
LEMMA KillForm ==
  ASSUME ShellShape, NEW p \in Installer, Kill(p)
  PROVE  /\ Place(p, "killed") /\ sh[p].pc # "start" /\ kills' = kills + 1
         /\ UNCHANGED <<file, systemd, updater, host, faults, wizard>>
BY GotoForm DEF Kill

-----------------------------------------------------------------------------
\* What a step of a shell does to everything but setup, by the part of the script.
Rest == UNCHANGED <<undo, upd, host>>
Kept == UNCHANGED <<file, loaded, enabled, running, faults, kills>> /\ Rest

Puts(f, x) ==
  file' = [file EXCEPT ![f] = x] /\ UNCHANGED <<loaded, enabled, running, faults, kills>> /\ Rest

Saved(p, next, b) == Fields(p, next, sh[p].mode, b, sh[p].staged, sh[p].result)

Begins(p) ==
  \/ /\ sh[p].pc = "start" /\ p \in host.actors /\ Kept
     /\ \/ Ends(p, "cleanup", "failed")
        \/ /\ file["config"] = None
           /\ Fields(p, "workdir", "fresh", sh[p].backup, sh[p].staged, sh[p].result)
        \/ /\ file["config"] # None
           /\ Fields(p, "workdir", "upgrade", sh[p].backup, sh[p].staged, sh[p].result)
  \/ /\ sh[p].pc = "workdir" /\ UNCHANGED <<file, loaded, enabled, running, kills>> /\ Rest
     /\ faults' \in {faults, faults + 1}
     /\ \/ Place(p, "setup") /\ sh[p].mode = "fresh"
        \/ Place(p, "save bin") /\ sh[p].mode # "fresh"
        \/ Ends(p, "cleanup", "failed")
  \/ /\ sh[p].pc = "setup" /\ Kept
     /\ \/ Place(p, "bin") /\ setup[p].ask = "none" /\ ~SetupFailed(p)
        \/ \E how \in {"failed", "cancelled"} : Ends(p, "cleanup", how)

Backs(p) ==
  /\ Kept
  /\ LET b == sh[p].backup
     IN \/ sh[p].pc = "save bin" /\ Saved(p, "save unit", [b EXCEPT !.bin = file["bin"]])
        \/ sh[p].pc = "save unit" /\ Saved(p, "was active", [b EXCEPT !.unit = file["unit"]])
        \/ sh[p].pc = "was active" /\ Saved(p, "was enabled", [b EXCEPT !.active = IsActive])
        \/ sh[p].pc = "was enabled" /\ Saved(p, "bin", [b EXCEPT !.enabled = enabled])

Installs(p) ==
  \/ /\ Kept
     /\ \/ sh[p].pc = "bin" /\ Staged1(p, "mv bin", p)
        \/ sh[p].pc = "unit" /\ Staged1(p, "mv unit", p)
  \/ sh[p].pc = "mv bin" /\ Puts("bin", sh[p].staged) /\ Staged1(p, "unit", None)
  \/ /\ sh[p].pc = "mv unit" /\ Puts("unit", sh[p].staged)
     /\ Staged1(p, IF sh[p].mode = "fresh" THEN "check" ELSE "chmod", None)

Commits(p) ==
  \/ /\ sh[p].pc \in {"check", "recheck", "link"} /\ file["config"] # None /\ Kept
     /\ Fields(p, "cleanup", sh[p].mode, sh[p].backup, None, "lost")
  \/ sh[p].pc = "check" /\ Kept /\ Place(p, "stage config")
  \/ sh[p].pc = "stage config" /\ Kept /\ Staged1(p, "recheck", cand[setup[p].path])
  \/ sh[p].pc = "recheck" /\ Kept /\ Place(p, "link")
  \/ /\ sh[p].pc = "link" /\ file["config"] = None /\ Puts("config", sh[p].staged)
     /\ Place(p, "unlink")
  \/ sh[p].pc = "unlink" /\ Kept /\ Staged1(p, "reload", None)

Gives(p) == Ends(p, IF sh[p].mode = "fresh" THEN "cleanup" ELSE "restore bin", "failed")

Activates(p) ==
  \/ sh[p].pc = "chmod" /\ Kept /\ Place(p, "reload")
  \/ /\ sh[p].pc = "reload" /\ Place(p, "enable") /\ loaded' = file["unit"]
     /\ UNCHANGED <<file, enabled, running, faults, kills>> /\ Rest
  \/ /\ sh[p].pc = "enable" /\ loaded # None /\ Place(p, "restart") /\ enabled' = TRUE
     /\ UNCHANGED <<file, loaded, running, faults, kills>> /\ Rest
  \/ sh[p].pc = "enable" /\ loaded = None /\ Kept /\ Gives(p)
  \/ /\ sh[p].pc = "restart" /\ Place(p, "verify")
     /\ running' = IF sh[p].mode = "fresh" /\ running # None THEN running ELSE Launched
     /\ UNCHANGED <<file, loaded, enabled, faults, kills>> /\ Rest
  \/ sh[p].pc = "verify" /\ enabled /\ IsActive /\ Kept /\ Ends(p, "cleanup", "ok")
  \/ sh[p].pc = "verify" /\ ~(enabled /\ IsActive) /\ Kept /\ Gives(p)

Restores(p) ==
  \/ /\ sh[p].pc = "restore bin" /\ sh[p].backup.bin = None /\ Puts("bin", None)
     /\ Place(p, "restore unit")
  \/ sh[p].pc = "restore bin" /\ Kept /\ Staged1(p, "mv old bin", sh[p].backup.bin)
  \/ sh[p].pc = "mv old bin" /\ Puts("bin", sh[p].staged) /\ Staged1(p, "restore unit", None)
  \/ /\ sh[p].pc = "restore unit" /\ sh[p].backup.unit = None /\ Puts("unit", None)
     /\ Place(p, "reload back")
  \/ sh[p].pc = "restore unit" /\ Kept /\ Staged1(p, "mv old unit", sh[p].backup.unit)
  \/ sh[p].pc = "mv old unit" /\ Puts("unit", sh[p].staged) /\ Staged1(p, "reload back", None)
  \/ /\ sh[p].pc = "reload back" /\ Place(p, "enable back") /\ loaded' = file["unit"]
     /\ UNCHANGED <<file, enabled, running, faults, kills>> /\ Rest
  \/ /\ sh[p].pc = "enable back" /\ Place(p, "restart back")
     /\ enabled' \in BOOLEAN
     /\ sh[p].backup.enabled => enabled'
     /\ ~sh[p].backup.enabled /\ file["unit"] # None => ~enabled'
     /\ UNCHANGED <<file, loaded, running, faults, kills>> /\ Rest
  \/ /\ sh[p].pc = "restart back" /\ Ends(p, "cleanup", "rolled back")
     /\ running' = IF sh[p].backup.active THEN Launched ELSE None
     /\ UNCHANGED <<file, loaded, enabled, faults, kills>> /\ Rest

Breaks(p) ==
  /\ faults' = faults + 1 /\ UNCHANGED <<file, loaded, enabled, kills>> /\ Rest
  /\ running' = running \/ (running' = None /\ sh[p].pc \in {"restart", "restart back"})
  /\ \/ /\ sh[p].pc \in Stages
        /\ Fields(p, "cleanup", sh[p].mode, sh[p].backup, Partial, "failed")
     \/ sh[p].pc \in Others /\ Ends(p, "cleanup", "failed")
     \/ sh[p].pc \in Activation /\ Gives(p)
     \/ sh[p].pc = "reload back" /\ Place(p, "enable back")
     \/ sh[p].pc = "enable back" /\ Place(p, "restart back")
     \/ sh[p].pc = "restart back" /\ Ends(p, "cleanup", "rolled back")

Leaves(p) ==
  \/ p \in host.actors /\ ~Ended(p) /\ Kept /\ Ends(p, "trapped", "interrupted")
  \/ /\ sh[p].pc \in {"cleanup", "trapped"} /\ Kept
     /\ \E x \in {None, sh[p].staged} : Fields(p, "done", sh[p].mode, NoBackup, x, sh[p].result)
  \/ sh[p].pc \notin {"start", "done", "killed", "trapped", "cleanup"} /\ Kept /\ Place(p, sh[p].pc)
  \/ /\ sh[p].pc # "start" /\ Place(p, "killed") /\ kills' = kills + 1
     /\ UNCHANGED <<file, loaded, enabled, running, faults>> /\ Rest

ShellForm(p) ==
  \/ Begins(p) \/ Backs(p) \/ Installs(p) \/ Commits(p) \/ Activates(p) \/ Restores(p)
  \/ Breaks(p) \/ Leaves(p)

\* Every step of a shell is one of them.
LEMMA ShellForms ==
  ASSUME Inv, NEW p \in Installer, ShellSteps(p)
  PROVE  ShellForm(p)
<1> DEFINE s == sh[p]
<1>a. ShellShape /\ ShellOK(p) /\ enabled \in BOOLEAN BY DEF Inv, Shape, ShellInv, FileShape
<1>b. UNCHANGED quiet => Kept BY DEF quiet, systemd, updater, env, Kept, Rest
<1>c. UNCHANGED <<systemd, updater, env>> =>
        UNCHANGED <<loaded, enabled, running, faults, kills>> /\ Rest
  BY DEF systemd, updater, env, Rest
<1> USE DEF ShellForm
<1>1. CASE Start(p) \/ CreateWorkDir(p) \/ NoWorkDir(p) \/ SetupDone(p)
  <2>1. CASE Start(p) BY <1>a, <1>b, <2>1, StartForm DEF Begins
  <2>2. CASE CreateWorkDir(p) \/ NoWorkDir(p)
    <3>1. faults' \in {faults, faults + 1} /\ UNCHANGED upd /\ UNCHANGED undo
      BY <2>2 DEF CreateWorkDir, NoWorkDir, env, updater
    <3>2. UNCHANGED <<loaded, enabled, running>>
      BY <2>2 DEF CreateWorkDir, NoWorkDir, systemd
    <3> QED BY <1>a, <2>2, <3>1, <3>2, WorkDirForm DEF Begins, Rest
  <2>3. CASE SetupDone(p)
    <3>1. s.pc = "setup" /\ setup[p].ask = "none" /\ Kept BY <1>b, <2>3 DEF SetupDone, At
    <3>2. (Goto(p, "bin") /\ ~SetupFailed(p)) \/ Exit(p, "failed") \/ Exit(p, "cancelled")
      BY <2>3 DEF SetupDone
    <3> QED BY <1>a, <3>1, <3>2, GotoForm, ExitForm DEF Begins
  <2> QED BY <1>1, <2>1, <2>2, <2>3 DEF ShellForm
<1>2. CASE Save(p)
  <2>1. Backs(p) BY <1>a, <1>b, <1>2, SaveForm DEF Backs, Saved
  <2> QED BY <2>1 DEF ShellForm
<1>3. ASSUME NEW f, NEW place, NEW next, Move(p, f, place, next)
      PROVE  s.pc = place /\ Puts(f, s.staged) /\ Staged1(p, next, None)
  BY <1>a, <1>c, <1>3, UnstagedForm DEF Move, At, Puts
<1>4. CASE StageReleaseAssets(p)
  <2>1. CASE Stage(p, "bin", "mv bin", p) \/ Stage(p, "unit", "mv unit", p)
    BY <1>a, <1>b, <2>1, StageForm DEF Installs
  <2> QED BY <1>3, <1>4, <2>1 DEF StageReleaseAssets, Installs
<1>5. CASE CommitFirstConfiguration(p)
  <2>1. CASE Check(p, "check", "stage config")
    BY <1>a, <1>b, <2>1, GotoForm, RefuseForm DEF Check, At, Commits
  <2>2. CASE Check(p, "recheck", "link")
    BY <1>a, <1>b, <2>2, GotoForm, RefuseForm DEF Check, At, Commits
  <2>3. CASE Stage(p, "stage config", "recheck", cand[setup[p].path])
    BY <1>a, <1>b, <2>3, StageForm DEF Commits
  <2>4. CASE Link(p)
    BY <1>a, <1>c, <2>4, GotoForm, RefuseForm DEF Link, At, Commits, Puts, Kept
  <2>5. CASE At(p, "unlink") /\ sh' = [sh EXCEPT ![p] = Unstaged(p, "reload")] /\ UNCHANGED quiet
    BY <1>a, <1>b, <2>5, UnstagedForm DEF At, Commits
  <2> QED BY <1>5, <2>1, <2>2, <2>3, <2>4, <2>5 DEF CommitFirstConfiguration
<1>6. CASE Activate(p)
  <2>1. CASE Protect(p) BY <1>a, <1>b, <2>1, GotoForm DEF Protect, At, Activates
  <2>2. CASE Reload(p, "reload", "enable")
    BY <1>a, <2>2, GotoForm DEF Reload, At, Activates, updater, env, Rest
  <2>3. CASE Enable(p)
    BY <1>a, <2>3, GotoForm, NotActivatedForm
       DEF Enable, At, Activates, updater, env, Rest, Kept, Gives
  <2>4. CASE Restart(p)
    BY <1>a, <2>4, GotoForm DEF Restart, At, Activates, updater, env, Rest
  <2>5. CASE Verify(p)
    BY <1>a, <1>b, <2>5, ExitForm, NotActivatedForm DEF Verify, At, Activates, Gives
  <2> QED BY <1>6, <2>1, <2>2, <2>3, <2>4, <2>5 DEF Activate
<1>7. CASE RollbackUpgrade(p)
  <2>1. ASSUME NEW f, NEW place, NEW between, NEW next, PutBack(p, f, place, between, next)
        PROVE  \/ s.pc = place /\ s.backup[f] = None /\ Puts(f, None) /\ Place(p, next)
               \/ s.pc = place /\ Kept /\ Staged1(p, between, s.backup[f])
               \/ s.pc = between /\ Puts(f, s.staged) /\ Staged1(p, next, None)
    <3>1. CASE Stage(p, place, between, s.backup[f]) BY <1>a, <1>b, <3>1, StageForm
    <3>2. CASE Move(p, f, between, next) BY <1>3, <3>2
    <3>3. CASE /\ s.backup[f] = None /\ At(p, place) /\ Goto(p, next)
               /\ file' = [file EXCEPT ![f] = None] /\ UNCHANGED <<systemd, updater, env, wizard>>
      BY <1>a, <1>c, <3>3, GotoForm DEF At, Puts
    <3> QED BY <2>1, <3>1, <3>2, <3>3 DEF PutBack
  <2>2. CASE PutBack(p, "bin", "restore bin", "mv old bin", "restore unit")
    <3>1. \/ s.pc = "restore bin" /\ s.backup.bin = None /\ Puts("bin", None) /\ Place(p, "restore unit")
          \/ s.pc = "restore bin" /\ Kept /\ Staged1(p, "mv old bin", s.backup.bin)
          \/ s.pc = "mv old bin" /\ Puts("bin", s.staged) /\ Staged1(p, "restore unit", None)
      BY <2>1, <2>2
    <3> QED BY <3>1 DEF Restores
  <2>3. CASE PutBack(p, "unit", "restore unit", "mv old unit", "reload back")
    <3>1. \/ s.pc = "restore unit" /\ s.backup.unit = None /\ Puts("unit", None) /\ Place(p, "reload back")
          \/ s.pc = "restore unit" /\ Kept /\ Staged1(p, "mv old unit", s.backup.unit)
          \/ s.pc = "mv old unit" /\ Puts("unit", s.staged) /\ Staged1(p, "reload back", None)
      BY <2>1, <2>3
    <3> QED BY <3>1 DEF Restores
  <2>4. CASE Reload(p, "reload back", "enable back")
    BY <1>a, <2>4, GotoForm DEF Reload, At, Restores, updater, env, Rest
  <2>5. CASE EnableBack(p)
    BY <1>a, <2>5, GotoForm DEF EnableBack, At, Restores, updater, env, Rest
  <2>6. CASE RestartBack(p)
    BY <1>a, <2>6, ExitForm DEF RestartBack, At, Restores, updater, env, Rest
  <2> QED BY <1>7, <2>2, <2>3, <2>4, <2>5, <2>6 DEF RollbackUpgrade
<1>8. CASE Fails(p)
  <2>1. Breaks(p)
    BY <1>a, <1>8, FailForm DEF Breaks, Rest, Gives, updater
  <2> QED BY <2>1 DEF ShellForm
<1>9. CASE Trap(p) \/ Cleanup(p) \/ Interrupt(p) \/ Kill(p)
  <2>1. CASE Trap(p)
    <3>1. ~Ended(p) /\ p \in host.actors BY <1>a, <2>1 DEF Trap, ShellOK
    <3> QED BY <1>a, <1>b, <2>1, <3>1, TrapForm DEF Leaves
  <2>2. CASE Cleanup(p)
    <3>1. Kept BY <1>a, <2>2, CleanupForm DEF Kept, Rest, systemd, updater, env
    <3> QED BY <1>a, <2>2, <3>1, CleanupForm DEF Leaves
  <2>3. CASE Interrupt(p)
    <3>1. Kept BY <1>a, <2>3, InterruptForm DEF Kept, Rest, systemd, updater, env
    <3> QED BY <1>a, <2>3, <3>1, InterruptForm DEF Interrupt, Leaves
  <2>4. CASE Kill(p) BY <1>a, <2>4, KillForm DEF Leaves, Rest, systemd, updater
  <2> QED BY <1>9, <2>1, <2>2, <2>3, <2>4 DEF ShellForm
<1> QED
  BY <1>1, <1>2, <1>4, <1>5, <1>6, <1>7, <1>8, <1>9 DEF ShellSteps, Shell

-----------------------------------------------------------------------------
Saves    == {"save bin", "save unit", "was active", "was enabled"}
Assets   == {"bin", "mv bin", "unit", "mv unit", "check", "stage config"}
Moving   == {"mv bin", "mv unit", "mv old bin", "mv old unit"}
Linking  == {"recheck", "link", "unlink"}

\* What installer p has saved or is about to move into place is whole: only a first
\* installation whose setup did not fail comes to its candidate, and only another
\* installer's can be incomplete then.
WholeOK(p) ==
  /\ sh[p].backup.bin \in Content /\ sh[p].backup.unit \in Content
  /\ sh[p].pc \in Moving => sh[p].staged \in Content
  /\ sh[p].pc \in Saves => sh[p].mode # "fresh"
  /\ sh[p].pc \in {"check", "stage config"} \cup Linking => sh[p].mode = "fresh"
  /\ sh[p].mode = "fresh" /\ sh[p].pc \in Assets =>
       setup[p].ask = "none" /\ setup[p].code \notin {"failed", "unguarded"}
  /\ sh[p].pc \in Linking /\ sh[p].staged = Partial => Shared

\* An incomplete candidate is being written or was left by a setup that failed.
CandOK ==
  \A d \in Installer \cup {Root} : cand[d] = Partial =>
    \E q \in Installer : setup[q].path = d /\ (setup[q].ask = "write" \/ setup[q].code = "failed")

FileOK ==
  /\ file["bin"] \in Content /\ file["unit"] \in Content
  /\ file["config"] = Partial => Shared
  /\ loaded \in Content /\ undo \in Content /\ running \in Content \cup {Failing}

WholeInv == (\A p \in Installer : WholeOK(p)) /\ CandOK /\ FileOK

\* Installers that share a candidate do so for good.
LEMMA SharedStays ==
  ASSUME Persists, Shared PROVE Shared'
BY DEF Persists, Shared

\* What is staged from the candidate of an installer is incomplete only if another
\* installer shares it.
LEMMA StagedWhole ==
  ASSUME Inv, CandOK, NEW p \in Installer, cand[setup[p].path] = Partial,
         setup[p].ask = "none", setup[p].code # "failed"
  PROVE  Shared
<1>1. setup[p].path \in {p, Root} /\ \A q \in Installer : setup[q].path \in {q, Root}
  BY DEF Inv, WizardInv, WizardOK
<1>2. PICK q \in Installer :
        setup[q].path = setup[p].path /\ (setup[q].ask = "write" \/ setup[q].code = "failed")
  BY <1>1 DEF CandOK
<1>3. q # p BY <1>2
<1> QED BY <1>1, <1>2, <1>3, SetupAssumption DEF Shared

\* What holds for good does so in every step.
LEMMA AllPersists ==
  ASSUME Inv, [Next]_vars
  PROVE  Persists
<1>1. ASSUME NEW p \in Installer, ShellSteps(p) PROVE Persists
  <2>1. Stepped
    BY <1>1, PlainStep, WorkDirStep, CleanupStep, InterruptStep DEF ShellSteps, Shell, PlainShell
  <2> QED BY <2>1 DEF Stepped
<1>2. ASSUME NEW p \in Installer, WizardStep(p), setup[p].ask # "none", UNCHANGED <<sh, host>>
      PROVE  Persists
  BY <1>2, SetupStep DEF Stepped
<1>3. CASE UNCHANGED <<setup, sh>> BY <1>3 DEF Persists
<1>4. ASSUME NEW p \in Installer, SetupRuns(p) \/ SetupWatches(p) \/ SetupAsks(p) \/ SetupFails(p)
      PROVE  Persists
  BY <1>2, <1>4, SetupMoves
<1> QED
  BY <1>1, <1>3, <1>4
     DEF Next, ShellSteps, Update, ServiceFails, ServiceAutoRestarts, vars, quiet, wizard

\* A step of the shell of p keeps what is said of candidates,
LEMMA ShellCand ==
  ASSUME Inv, CandOK, NEW p \in Installer, ShellSteps(p)
  PROVE  CandOK'
<1>1. /\ setup \in [Installer -> SetupType] /\ cand \in [Installer \cup {Root} -> Any]
      /\ WizardOK(p) /\ ShellOK(p)
  BY DEF Inv, Shape, WizardShape, WizardInv, ShellInv
<1>2. CASE UNCHANGED wizard BY <1>2 DEF wizard, CandOK
<1>3. CASE UNCHANGED setup /\ cand' = [cand EXCEPT ![p] = None]
  BY <1>1, <1>3, InstallerAssumption DEF CandOK
<1>4. CASE sh[p].pc = "workdir" /\ \E d \in {p, Root} : StartSetup(p, d)
  <2>1. setup[p].ask = "none" /\ setup[p].code = "none" BY <1>1, <1>4 DEF ShellOK
  <2>2. cand' = cand /\ \A q \in Installer \ {p} : setup'[q] = setup[q]
    BY <1>1, <1>4 DEF StartSetup
  <2> QED BY <2>1, <2>2 DEF CandOK
<1>5. CASE setup[p].ask # "none" /\ SignalSetup(p)
  <2>1. cand' = cand /\ \A q \in Installer \ {p} : setup'[q] = setup[q]
    BY <1>1, <1>5 DEF SignalSetup, SetupEnds
  <2>2. setup[p].code # "failed" BY <1>1, <1>5 DEF WizardOK
  <2>3. setup[p].ask = "write" => setup'[p].code = "failed" /\ setup'[p].path = setup[p].path
    BY <1>1, <1>5 DEF SignalSetup, SetupEnds, WizardOK, SetupType
  <2> QED BY <2>1, <2>2, <2>3 DEF CandOK
<1> QED BY <1>2, <1>3, <1>4, <1>5, SetupAlone

\* of its own shell,
LEMMA ShellWhole ==
  ASSUME Inv, Inv', Persists, WholeInv, NEW p \in Installer, ShellSteps(p)
  PROVE  WholeOK(p)'
<1> DEFINE s == sh[p]
           t == sh'[p]
<1>1. s \in ShellType /\ t \in ShellType /\ ShellOK(p) /\ WizardOK(p) /\ WholeOK(p)
      /\ cand \in [Installer \cup {Root} -> Any]
  BY DEF Inv, Shape, ShellShape, ShellInv, WizardInv, WholeInv, WizardShape
<1>2. file["bin"] \in Content /\ file["unit"] \in Content /\ None \in Content /\ p \in Content
  BY DEF WholeInv, FileOK, Content
<1>3. Shared => Shared' BY SharedStays
<1>4. s.pc # "workdir" /\ setup[p].ask = "none" => setup' = setup
  BY SetupAlone DEF wizard
<1>5. t.pc \in Assets /\ t.mode = "fresh" => setup'[p].ask = "none" /\ setup'[p].code \notin {"failed", "unguarded"}
  <2> SUFFICES ASSUME t.pc \in Assets, t.mode = "fresh"
               PROVE  setup'[p].ask = "none" /\ setup'[p].code \notin {"failed", "unguarded"}
    OBVIOUS
  <2>1. \/ s.pc = "setup" /\ setup[p].ask = "none" /\ ~SetupFailed(p)
        \/ s.pc \in Assets /\ s.mode = "fresh"
    BY ShellForms, <1>1
       DEF ShellForm, Begins, Backs, Installs, Commits, Activates, Restores, Breaks, Leaves, Assets,
           Fields, Place, Ends, Staged1, Saved, Gives, WholeOK, Saves, Linking
  <2> QED BY <1>1, <1>4, <2>1 DEF WholeOK, SetupFailed, Assets
<1>6. t.pc \in Saves => t.mode # "fresh"
  BY ShellForms, <1>1
     DEF ShellForm, Begins, Backs, Installs, Commits, Activates, Restores, Breaks, Leaves,
         Fields, Place, Ends, Staged1, Saved, Gives, WholeOK, Saves
<1>7. t.pc \in {"check", "stage config"} \cup Linking => t.mode = "fresh"
  BY ShellForms, <1>1
     DEF ShellForm, Begins, Backs, Installs, Commits, Activates, Restores, Breaks, Leaves,
         Fields, Place, Ends, Staged1, Saved, Gives, WholeOK, Linking
<1>8. t.backup.bin \in Content /\ t.backup.unit \in Content
  <2>1. s.backup \in [bin : Any, unit : Any, active : BOOLEAN, enabled : BOOLEAN] BY <1>1 DEF ShellType
  <2>2. CASE Backs(p)
    BY <1>1, <1>2, <2>1, <2>2 DEF Backs, Saved, Fields, WholeOK
  <2>3. t.backup \in {s.backup, NoBackup} \/ Backs(p)
    BY ShellForms
       DEF ShellForm, Begins, Installs, Commits, Activates, Restores, Breaks, Leaves,
           Fields, Place, Ends, Staged1, Gives
  <2>4. NoBackup.bin = None /\ NoBackup.unit = None BY DEF NoBackup
  <2>5. s.backup.bin \in Content /\ s.backup.unit \in Content BY <1>1 DEF WholeOK
  <2> QED BY <1>2, <2>2, <2>3, <2>4, <2>5
<1>9. t.pc \in Moving => t.staged \in Content
  BY ShellForms, <1>1, <1>2
     DEF ShellForm, Begins, Backs, Installs, Commits, Activates, Restores, Breaks, Leaves,
         Fields, Place, Ends, Staged1, Saved, Gives, WholeOK, Moving
<1>10. t.pc \in Linking /\ t.staged = Partial => Shared
  <2> SUFFICES ASSUME t.pc \in Linking, t.staged = Partial PROVE Shared OBVIOUS
  <2>1. \/ s.pc \in Linking /\ s.staged = Partial
        \/ s.pc = "stage config" /\ cand[setup[p].path] = Partial
    BY ShellForms
       DEF ShellForm, Begins, Backs, Installs, Commits, Activates, Restores, Breaks, Leaves,
           Fields, Place, Ends, Staged1, Saved, Gives, Linking
  <2>2. CASE s.pc = "stage config" /\ cand[setup[p].path] = Partial
    <3>1. setup[p].ask = "none" /\ setup[p].code # "failed" BY <1>1, <2>2 DEF WholeOK, Assets
    <3> QED BY <2>2, <3>1, StagedWhole DEF WholeInv
  <2> QED BY <1>1, <2>1, <2>2 DEF WholeOK
<1> QED BY <1>3, <1>5, <1>6, <1>7, <1>8, <1>9, <1>10 DEF WholeOK

\* of the other shells,
LEMMA OthersWhole ==
  ASSUME Persists, NEW q \in Installer, WholeOK(q), UNCHANGED <<sh[q], setup[q]>>
  PROVE  WholeOK(q)'
BY SharedStays DEF WholeOK

\* What the start of the service makes of it is known.
LEMMA LaunchedWhole ==
  ASSUME FileOK PROVE Launched \in {None, Failing, file["bin"]} /\ Launched \in Content \cup {Failing}
BY DEF FileOK, Launched, Content

\* and of what is installed.
LEMMA ShellFileOK ==
  ASSUME Inv, Persists, WholeInv, NEW p \in Installer, ShellSteps(p)
  PROVE  FileOK'
<1>1. sh[p] \in ShellType /\ WholeOK(p) /\ FileOK /\ file \in [File -> Any]
  BY DEF Inv, Shape, ShellShape, FileShape, WholeInv
<1>2. Shared => Shared' BY SharedStays
<1>3. Launched \in Content \cup {Failing} BY <1>1, LaunchedWhole
<1>4. loaded' \in {loaded, file["unit"]} /\ undo' = undo /\ running' \in {running, None, Launched}
  BY ShellForms
     DEF ShellForm, Begins, Backs, Installs, Commits, Activates, Restores, Breaks, Leaves, Rest, Kept,
         Puts
<1>5. \/ file' = file
      \/ sh[p].pc = "link" /\ file' = [file EXCEPT !["config"] = sh[p].staged]
      \/ \E f \in {"bin", "unit"}, x \in {None, sh[p].staged} :
           /\ file' = [file EXCEPT ![f] = x]
           /\ x # None => sh[p].pc \in Moving
  BY ShellForms
     DEF ShellForm, Begins, Backs, Installs, Commits, Activates, Restores, Breaks, Leaves, Rest, Kept,
         Puts, Moving
<1>6. file'["bin"] \in Content /\ file'["unit"] \in Content /\ (file'["config"] = Partial => Shared)
  <2>1. CASE file' = file BY <1>1, <2>1 DEF FileOK
  <2>2. CASE sh[p].pc = "link" /\ file' = [file EXCEPT !["config"] = sh[p].staged]
    BY <1>1, <2>2 DEF FileOK, WholeOK, Linking, File
  <2>3. ASSUME NEW f \in {"bin", "unit"}, NEW x \in {None, sh[p].staged}, file' = [file EXCEPT ![f] = x],
               x # None => sh[p].pc \in Moving
        PROVE  file'["bin"] \in Content /\ file'["unit"] \in Content /\ file'["config"] = file["config"]
    <3>1. x \in Content BY <1>1, <2>3 DEF WholeOK, Content
    <3> QED BY <1>1, <2>3, <3>1 DEF FileOK, File
  <2> QED BY <1>1, <1>5, <2>1, <2>2, <2>3 DEF FileOK
<1>7. None \in Content BY DEF Content
<1> QED BY <1>1, <1>2, <1>3, <1>4, <1>6, <1>7 DEF FileOK

\* A setup process that leaves its candidate incomplete has failed.
LEMMA SetupCand ==
  ASSUME Inv, CandOK, NEW p \in Installer, WizardStep(p), setup[p].ask # "none"
  PROVE  CandOK'
<1> DEFINE d == setup[p].path
<1>1. setup \in [Installer -> SetupType] /\ WizardOK(p) /\ cand \in [Installer \cup {Root} -> Any]
  BY DEF Inv, Shape, WizardShape, WizardInv
<1>2. OwnWizard(p) BY WizardStepKeeps DEF Inv, Shape
<1>3. d \in {p, Root} /\ setup[p].code # "failed" BY <1>1 DEF WizardOK
<1>4. \/ setup'[p].ask = setup[p].ask /\ cand' = cand
      \/ setup'[p].ask = "write"
      \/ setup'[p].code = "failed"
      \/ setup[p].ask # "write" /\ cand' = cand
      \/ cand'[d] # Partial
  <2> USE <1>1 DEF SetupEnds, Ask, SetupType
  <2>1. CASE Runs(p)
    BY <1>3, <2>1, SetupAssumption
       DEF Runs, EchoOff, Guard, RestoreEcho, Unguard, StopFirst, RestoreLast, Unread, Create, Write,
           Exists, NotCreated
  <2>2. CASE Watch(p) BY <2>2 DEF Watch, WatchSignal, WatchRestore, WatchKill, WatchDone
  <2>3. CASE User(p) BY <2>3 DEF User, Unanswered, InputEnds, Declined, Answered, Confirmed, Entered, Unprompted
  <2>4. CASE NotCreated(p) \/ NotWritten(p)
    BY <1>3, <2>4, InstallerAssumption DEF NotCreated, NotWritten
  <2>5. CASE SignalSetup(p) BY <2>5 DEF SignalSetup, WizardOK
  <2> QED BY <2>1, <2>2, <2>3, <2>4, <2>5 DEF WizardStep
<1>5. ASSUME NEW e \in Installer \cup {Root}, cand'[e] = Partial
      PROVE  \E q \in Installer : setup'[q].path = e /\ (setup'[q].ask = "write" \/ setup'[q].code = "failed")
  <2>1. CASE cand[e] = Partial /\ (setup[p].ask # "write" \/ e # d)
    <3>1. PICK q \in Installer : setup[q].path = e /\ (setup[q].ask = "write" \/ setup[q].code = "failed")
      BY <2>1 DEF CandOK
    <3> QED BY <1>2, <1>3, <2>1, <3>1 DEF OwnWizard
  <2>2. CASE e = d
    BY <1>2, <1>4, <1>5, <2>1, <2>2 DEF OwnWizard
  <2>3. CASE e # d BY <1>2, <1>3, <1>5, <2>1, <2>3 DEF OwnWizard
  <2> QED BY <2>2, <2>3
<1> QED BY <1>5 DEF CandOK

\* Every step keeps it.
LEMMA WholeStep ==
  ASSUME Inv, Inv', WholeInv, [Next]_vars
  PROVE  WholeInv'
<1>0. Persists BY AllPersists
<1>1. setup \in [Installer -> SetupType] /\ cand \in [Installer \cup {Root} -> Any] /\ CandOK /\ FileOK
      /\ \A q \in Installer : WholeOK(q) /\ ShellOK(q) /\ WizardOK(q)
  BY DEF Inv, Shape, WizardShape, WholeInv, ShellInv, WizardInv
<1>2. ASSUME NEW p \in Installer, ShellSteps(p) PROVE WholeInv'
  <2>1. \A q \in Installer \ {p} : UNCHANGED <<sh[q], setup[q]>>
    <3>1. \A q \in Installer \ {p} : UNCHANGED setup[q]
      <4>1. CASE setup' = setup BY <4>1
      <4>2. CASE \E d \in {p, Root} : StartSetup(p, d) BY <1>1, <4>2 DEF StartSetup
      <4>3. CASE SignalSetup(p) BY <1>1, <4>3 DEF SignalSetup, SetupEnds
      <4> QED BY <1>2, <4>1, <4>2, <4>3, SetupAlone DEF wizard
    <3> QED BY <1>2, <3>1, ShellAlone
  <2>2. \A q \in Installer \ {p} : WholeOK(q)' BY <1>0, <1>1, <2>1, OthersWhole
  <2> QED BY <1>0, <1>1, <1>2, <2>2, ShellCand, ShellWhole, ShellFileOK DEF WholeInv
<1>3. ASSUME NEW p \in Installer, SetupRuns(p) \/ SetupWatches(p) \/ SetupAsks(p) \/ SetupFails(p)
      PROVE  WholeInv'
  <2>1. WizardStep(p) /\ setup[p].ask # "none"
        /\ UNCHANGED <<sh, file, loaded, running, undo>>
    BY <1>3, SetupMoves
  <2>2. \A q \in Installer \ {p} : setup'[q] = setup[q]
    BY <2>1, WizardStepKeeps DEF Inv, Shape, OwnWizard
  <2>3. \A q \in Installer \ {p} : WholeOK(q)' BY <1>0, <1>1, <2>1, <2>2, OthersWhole
  <2>4. WholeOK(p)'
    <3>1. sh[p].pc \in {"setup", "killed"} BY <1>1, <2>1 DEF ShellOK
    <3> QED BY <1>1, <2>1, <3>1 DEF WholeOK, Assets, Linking
  <2>5. FileOK' BY <1>0, <1>1, <2>1, SharedStays DEF FileOK
  <2>6. CandOK' BY <1>1, <2>1, SetupCand
  <2> QED BY <2>3, <2>4, <2>5, <2>6 DEF WholeInv
<1>4. CASE Update \/ ServiceFails \/ ServiceAutoRestarts \/ UNCHANGED vars
  <2>1. UNCHANGED <<sh, setup, cand, loaded>>
    BY <1>4 DEF Update, ServiceFails, ServiceAutoRestarts, vars, quiet, wizard, systemd
  <2>2. \A q \in Installer : WholeOK(q)' BY <1>0, <1>1, <2>1, OthersWhole
  <2>3. file'["config"] = file["config"]
        /\ file'["bin"] \in Content /\ file'["unit"] \in Content /\ undo' \in Content
        /\ running' \in Content \cup {Failing}
    <3>0. file \in [File -> Any] /\ Updated \in Content BY DEF Inv, Shape, FileShape, Content
    <3>1. CASE Update BY <1>1, <3>0, <3>1, LaunchedWhole DEF Update, UpdTo, FileOK, File
    <3>2. CASE ServiceFails \/ ServiceAutoRestarts
      BY <1>1, <3>2, LaunchedWhole DEF ServiceFails, ServiceAutoRestarts, FileOK, updater
    <3>3. CASE UNCHANGED vars BY <1>1, <3>3 DEF vars, quiet, systemd, updater, FileOK
    <3> QED BY <1>4, <3>1, <3>2, <3>3
  <2>4. FileOK' BY <1>0, <1>1, <2>1, <2>3, SharedStays DEF FileOK
  <2>5. CandOK' BY <1>1, <2>1 DEF CandOK
  <2> QED BY <2>2, <2>4, <2>5 DEF WholeInv
<1> QED BY <1>2, <1>3, <1>4 DEF Next, ShellSteps

\* The initial hosts are whole.
LEMMA WholeInit == Init => WholeInv
<1> SUFFICES ASSUME Init PROVE WholeInv OBVIOUS
<1>1. host \in Host /\ None \in Content BY InstallerAssumption DEF Init, Content
<1>2. host.file \in [File -> {Old, Existing, Odd, None}] /\ host.stray \in {Existing, None}
  BY <1>1 DEF Host
<1>3. \A p \in Installer : WholeOK(p)
  BY <1>1 DEF Init, WholeOK, NoBackup, Moving, Saves, Assets, Linking
<1>4. \A d \in Installer \cup {Root} : cand[d] \in {None, Existing}
  BY <1>2 DEF Init, SetupInit
<1>5. Partial \notin {Old, Existing, Odd, None} BY InstallerAssumption
<1>6. FileOK
  <2>1. file \in [File -> {Old, Existing, Odd, None}] BY <1>2 DEF Init
  <2>2. {Old, Existing, Odd, None} \subseteq Content BY DEF Content
  <2>3. running \in {file["bin"], None} /\ loaded = file["unit"] /\ undo = None BY DEF Init
  <2> QED BY <1>5, <2>1, <2>2, <2>3 DEF FileOK, File
<1>7. CandOK BY <1>4, <1>5 DEF CandOK
<1> QED BY <1>3, <1>6, <1>7 DEF WholeInv

\* The three invariants that the type invariant follows from hold in every state.
LEMMA WholeAlways == Spec => [](Inv /\ FileInv /\ WholeInv)
<1>1. Init => Inv /\ FileInv /\ WholeInv BY InstallerInit, WholeInit
<1>2. Inv /\ FileInv /\ WholeInv /\ [Next]_vars => (Inv /\ FileInv /\ WholeInv)'
  BY InstallerStep, WholeStep
<1> QED BY <1>1, <1>2, PTL DEF Spec

\* No installed file and no backup is ever incomplete, except a configuration that
\* another installer was writing into the shared candidate when it was staged.
THEOREM InstallerTypeCorrect == Spec => []TypeOK
<1>1. Inv /\ WholeInv => TypeOK
  <2> SUFFICES ASSUME Inv, WholeInv PROVE TypeOK OBVIOUS
  <2>1. Partial \notin Content BY SetupAssumption, InstallerAssumption DEF Content
  <2> DEFINE Whole == [pc : Commands, mode : {"none", "fresh", "upgrade"}, pending : BOOLEAN,
                       current : BOOLEAN, staged : Any, workdir : BOOLEAN,
                       backup : [bin : Content, unit : Content, active : BOOLEAN, enabled : BOOLEAN],
                       result : {"none", "ok", "cancelled", "failed", "lost", "rolled back", "interrupted"}]
  <2>2. ASSUME NEW p \in Installer PROVE sh[p] \in Whole
    <3>1. sh[p] \in ShellType BY DEF Inv, Shape, ShellShape
    <3>2. sh[p].backup \in [bin : Content, unit : Content, active : BOOLEAN, enabled : BOOLEAN]
      BY <3>1 DEF WholeInv, WholeOK, ShellType
    <3> QED BY <3>1, <3>2 DEF ShellType
  <2>3. sh \in [Installer -> Whole] BY <2>2 DEF Inv, Shape, ShellShape
  <2>4. file \in [File -> Any] /\ enabled \in BOOLEAN /\ cand \in [Installer \cup {Root} -> Any] /\ FileOK
    BY DEF Inv, Shape, FileShape, WizardShape, WholeInv
  <2> QED BY <2>1, <2>3, <2>4 DEF TypeOK, FileOK, Any
<1> QED BY <1>1, WholeAlways, PTL

-----------------------------------------------------------------------------
\* Whoever replaces a file owes systemd a reload, and the service a restart, until
\* it is past them or was interrupted; a first installation that finds a configuration
\* leaves its debt behind, for as long as the file is its own.
Rollback == {"restore bin", "mv old bin", "restore unit", "mv old unit"} \cup Optional

Leaving     == {"cleanup", "trapped", "done"}
Cut(p)      == sh[p].pc \in Leaving /\ sh[p].result = "interrupted"
LeftLost(p) == sh[p].pc \in Leaving /\ sh[p].result = "lost"

OwesReload(p) ==
  \/ file["unit"] = p /\ (sh[p].pc \in {"check", "stage config", "recheck", "link"} \/ LeftLost(p))
  \/ sh[p].pc \in {"unlink", "chmod", "reload", "reload back"}
  \/ Cut(p)

\* A first installation owes no restart once it has linked its configuration: there
\* was none until then, and nothing ran.
OwesRestart(p) ==
  \/ /\ file["bin"] = p
     /\ sh[p].pc \in {"unit", "mv unit", "check", "stage config", "recheck", "link"} \/ LeftLost(p)
  \/ sh[p].mode # "fresh" /\ sh[p].pc \in {"chmod", "reload", "enable", "restart"}
  \/ sh[p].pc \in Rollback
  \/ Cut(p)

\* What is moved into place is the installer's own.
OwnAssets == \A p \in Installer : sh[p].pc \in {"mv bin", "mv unit"} => sh[p].staged = p

Counted == faults \in Nat /\ kills \in Nat

\* Without a configuration nothing runs, unless it did at the start.
Idle == (host.on => host.file["config"] # None) => (file["config"] = None => running = None)

Loads == loaded = file["unit"] \/ \E p \in Installer : OwesReload(p)

Current ==
  \/ running \in {file["bin"], None, Failing} \/ upd \in {"restart", "restart previous"}
  \/ \E p \in Installer : OwesRestart(p)

SettledInv ==
  /\ Counted /\ Idle /\ OwnAssets
  /\ faults = 0 /\ kills = 0 =>
       Loads /\ ((host.on => host.file["config"] # None) => Current)

\* A step of an installer does what it owes, or still owes it.
LEMMA ShellSettles ==
  ASSUME Inv, WholeInv, SettledInv, NEW p \in Installer, ShellSteps(p)
  PROVE  SettledInv'
<1> USE DEF Rest, Kept, Puts, Fields, Place, Ends, Staged1, Saved, Gives
<1>0. ShellForm(p) BY ShellForms
<1>1. /\ sh[p] \in ShellType /\ file \in [File -> Any] /\ WholeOK(p)
      /\ Counted /\ Idle /\ OwnAssets
  BY DEF Inv, Shape, ShellShape, FileShape, WholeInv, SettledInv
<1>2. \A q \in Installer \ {p} : sh'[q] = sh[q] BY ShellAlone
<1>3. \A f, x : Puts(f, x) => \A g \in File : g # f => file'[g] = file[g]
  BY <1>1 DEF Puts
<1>4. \A f \in File : \A x : Puts(f, x) => file'[f] = x
  BY <1>1 DEF Puts
<1>5. /\ faults' \in {faults, faults + 1} /\ kills' \in {kills, kills + 1}
      /\ host' = host /\ upd' = upd
  BY <1>0 DEF ShellForm, Begins, Backs, Installs, Commits, Activates, Restores, Breaks, Leaves
<1>6. Counted' /\ (faults' = 0 /\ kills' = 0 => faults = 0 /\ kills = 0 /\ ~Breaks(p) /\ kills' # kills + 1)
  <2>1. Counted' BY <1>1, <1>5 DEF Counted
  <2>2. faults' = 0 => faults = 0 /\ faults' # faults + 1 BY <1>1, <1>5 DEF Counted
  <2>3. kills' = 0 => kills = 0 /\ kills' # kills + 1 BY <1>1, <1>5 DEF Counted
  <2> QED BY <2>1, <2>2, <2>3 DEF Breaks
<1>7. running' \in {running, None, Launched}
  BY <1>0 DEF ShellForm, Begins, Backs, Installs, Commits, Activates, Restores, Breaks, Leaves
<1>8. file'["config"] = file["config"] \/ file["config"] = None
  BY <1>1, <1>0
     DEF ShellForm, Begins, Backs, Installs, Commits, Activates, Restores, Breaks, Leaves, File
<1>9. Idle'
  <2>1. file'["config"] = None => file["config"] = None BY <1>8
  <2>2. file["config"] = None => Launched = None BY DEF Launched
  <2> QED BY <1>1, <1>5, <1>7, <2>1, <2>2 DEF Idle
<1>10. ASSUME faults' = 0, kills' = 0, Loads PROVE Loads'
  <2>1. ~Breaks(p) /\ kills' # kills + 1 BY <1>6, <1>10
  <2>2. \/ loaded' = file'["unit"] \/ OwesReload(p)'
        \/ loaded' = loaded /\ file'["unit"] = file["unit"] /\ (OwesReload(p) => OwesReload(p)')
    <3> USE DEF OwesReload, LeftLost, Cut, Leaving, OwnAssets
    <3>1. CASE Begins(p) BY <1>1, <3>1 DEF Begins
    <3>2. CASE Backs(p) BY <1>1, <3>2 DEF Backs
    <3>3. CASE Installs(p) BY <1>1, <3>3 DEF Installs, File
    <3>4. CASE Commits(p) BY <1>1, <3>4 DEF Commits, File
    <3>5. CASE Activates(p) BY <1>1, <3>5 DEF Activates
    <3>6. CASE Restores(p) BY <1>1, <3>6 DEF Restores, File
    <3>7. CASE Leaves(p) BY <1>1, <2>1, <3>7 DEF Leaves
    <3> QED BY <1>0, <2>1, <3>1, <3>2, <3>3, <3>4, <3>5, <3>6, <3>7 DEF ShellForm
  <2>3. file'["unit"] = file["unit"] => \A q \in Installer \ {p} : OwesReload(q) => OwesReload(q)'
    BY <1>2 DEF OwesReload, LeftLost, Cut, Leaving
  <2> QED BY <1>10, <2>2, <2>3 DEF Loads
<1>11. ASSUME faults' = 0, kills' = 0, host.on => host.file["config"] # None, Current
       PROVE  Current'
  <2>1. ~Breaks(p) /\ kills' # kills + 1 BY <1>6, <1>11
  <2>2. file["config"] = None => running = None BY <1>1, <1>11 DEF Idle
  <2>3. \/ running' \in {file'["bin"], None, Failing} \/ OwesRestart(p)'
        \/ running' = running /\ file'["bin"] = file["bin"] /\ (OwesRestart(p) => OwesRestart(p)')
    <3> USE DEF OwesRestart, LeftLost, Cut, Leaving, Rollback, Optional, OwnAssets
    <3>a. Launched \in {None, Failing, file["bin"]} BY DEF Launched
    <3>1. CASE Begins(p) BY <1>1, <3>1 DEF Begins
    <3>2. CASE Backs(p) BY <1>1, <3>2 DEF Backs
    <3>3. CASE Installs(p) BY <1>1, <3>3 DEF Installs, File
    <3>4. CASE Commits(p) BY <1>1, <2>2, <3>4 DEF Commits, File, WholeOK, Linking
    <3>5. CASE Activates(p) BY <1>1, <3>a, <3>5 DEF Activates
    <3>6. CASE Restores(p) BY <1>1, <3>a, <3>6 DEF Restores, File
    <3>7. CASE Leaves(p) BY <1>1, <2>1, <3>7 DEF Leaves
    <3> QED BY <1>0, <2>1, <3>1, <3>2, <3>3, <3>4, <3>5, <3>6, <3>7 DEF ShellForm
  <2>4. file'["bin"] = file["bin"] => \A q \in Installer \ {p} : OwesRestart(q) => OwesRestart(q)'
    BY <1>2 DEF OwesRestart, LeftLost, Cut, Leaving
  <2> QED BY <1>5, <1>11, <2>3, <2>4 DEF Current
<1>12. OwnAssets'
  <2>1. sh'[p].pc \in {"mv bin", "mv unit"} => sh'[p].staged = p
    <3> USE DEF OwnAssets
    <3>1. CASE Begins(p) BY <1>1, <3>1 DEF Begins
    <3>2. CASE Backs(p) BY <1>1, <3>2 DEF Backs
    <3>3. CASE Installs(p) BY <1>1, <3>3 DEF Installs
    <3>4. CASE Commits(p) BY <1>1, <3>4 DEF Commits
    <3>5. CASE Activates(p) BY <1>1, <3>5 DEF Activates
    <3>6. CASE Restores(p) BY <1>1, <3>6 DEF Restores
    <3>7. CASE Breaks(p) BY <1>1, <3>7 DEF Breaks
    <3>8. CASE Leaves(p) BY <1>1, <3>8 DEF Leaves
    <3> QED BY <1>0, <3>1, <3>2, <3>3, <3>4, <3>5, <3>6, <3>7, <3>8 DEF ShellForm
  <2> QED BY <1>1, <1>2, <2>1 DEF OwnAssets
<1> QED BY <1>5, <1>6, <1>9, <1>10, <1>11, <1>12 DEF SettledInv

\* Every step does.
LEMMA SettledStep ==
  ASSUME Inv, FileInv, WholeInv, SettledInv, [Next]_vars
  PROVE  SettledInv'
<1>1. Launched \in {None, Failing, file["bin"]} /\ (file["config"] = None => Launched = None)
      /\ None \notin host.bad /\ None # Failing /\ file \in [File -> Any]
  BY InstallerAssumption DEF Launched, FileInv, Host, Failing, Inv, Shape, FileShape
<1>2. ASSUME NEW p \in Installer, SetupRuns(p) \/ SetupWatches(p) \/ SetupAsks(p) \/ SetupFails(p)
      PROVE  SettledInv'
  <2>1. UNCHANGED <<sh, host, file, loaded, running, upd, kills>> /\ faults' \in {faults, faults + 1}
    BY <1>2, SetupMoves
  <2>2. Counted' /\ (faults' = 0 => faults = 0) BY <2>1 DEF SettledInv, Counted
  <2>3. Idle' /\ OwnAssets' /\ (Loads => Loads') /\ (Current => Current')
    BY <2>1 DEF SettledInv, Idle, OwnAssets, Loads, Current, OwesReload, OwesRestart, LeftLost, Cut, Leaving
  <2> QED BY <2>1, <2>2, <2>3 DEF SettledInv
<1>3. CASE ServiceFails \/ ServiceAutoRestarts
  <2>1. UNCHANGED <<sh, host, file, loaded, upd, faults, kills>>
    BY <1>3 DEF ServiceFails, ServiceAutoRestarts, updater, env
  <2>2. running' \in {None, Failing, file["bin"]} /\ (file["config"] = None /\ running = None => running' = None)
    BY <1>1, <1>3 DEF ServiceFails, ServiceAutoRestarts
  <2>3. Idle' BY <2>1, <2>2 DEF SettledInv, Idle
  <2>4. Current' BY <2>1, <2>2 DEF Current
  <2> QED BY <2>1, <2>3, <2>4 DEF SettledInv, Counted, OwnAssets, Loads, OwesReload, LeftLost, Cut, Leaving
<1>4. CASE Update
  <2>1. UNCHANGED <<sh, host, loaded, faults, kills>> /\ file'["unit"] = file["unit"]
        /\ file'["config"] = file["config"] /\ running' \in {running, Launched}
    BY <1>1, <1>4 DEF Update, env, File
  <2>2. \/ UNCHANGED <<file, running>> /\ upd \notin {"restart", "restart previous"}
        \/ upd' \in {"restart", "restart previous"}
        \/ file' = file /\ running' = Launched
    BY <1>4 DEF Update, UpdTo
  <2>3. Idle' BY <1>1, <2>1 DEF SettledInv, Idle
  <2>4. Current => Current' BY <1>1, <2>1, <2>2 DEF Current, OwesRestart, LeftLost, Cut, Leaving
  <2> QED BY <2>1, <2>3, <2>4 DEF SettledInv, Counted, OwnAssets, Loads, OwesReload, LeftLost, Cut, Leaving
<1>5. CASE UNCHANGED vars
  BY <1>5
     DEF vars, quiet, systemd, updater, env, SettledInv, Counted, Idle, OwnAssets, Loads, Current, OwesReload,
         OwesRestart, LeftLost, Cut, Leaving
<1> QED BY <1>2, <1>3, <1>4, <1>5, ShellSettles DEF Next, ShellSteps

\* At the start nothing is owed: systemd has read the unit, and runs the binary.
LEMMA SettledInit == Init => SettledInv
<1> SUFFICES ASSUME Init PROVE SettledInv OBVIOUS
<1>1. host \in Host BY InstallerAssumption DEF Init
<1> QED BY <1>1 DEF Init, SettledInv, Counted, Idle, OwnAssets, Loads, Current, Host

\* When everything has ended without a fault or a signal, the service runs the installed
\* binary or nothing, and systemd has read the installed unit; only the binary and the
\* unit of a first installation that lost the configuration are left unstarted.
THEOREM EverythingSettled == Spec => []Settled
<1>1. Inv /\ SettledInv => Settled
  <2> SUFFICES ASSUME Inv, SettledInv, faults = 0, kills = 0, upd \in {"off", "done"},
                      host.on => host.file["config"] # None,
                      \A p \in host.actors : Ended(p) /\ sh[p].result # "interrupted"
               PROVE  /\ running \in {file["bin"], None, Failing} \/ Lost(file["bin"])
                      /\ loaded = file["unit"] \/ Lost(file["unit"])
    BY DEF Settled
  <2>1. ASSUME NEW p \in Installer
        PROVE  /\ OwesReload(p) => Lost(file["unit"])
               /\ OwesRestart(p) => Lost(file["bin"])
    <3>1. sh[p].pc = "start" \/ p \in host.actors BY DEF Inv, ShellInv, ShellOK
    <3> QED BY <3>1
         DEF OwesReload, OwesRestart, LeftLost, Cut, Leaving, Lost, Ended, Rollback, Optional
  <2> QED BY <2>1 DEF SettledInv, Loads, Current
<1>2. Init => Inv /\ FileInv /\ WholeInv /\ SettledInv BY InstallerInit, WholeInit, SettledInit
<1>3. Inv /\ FileInv /\ WholeInv /\ SettledInv /\ [Next]_vars
        => (Inv /\ FileInv /\ WholeInv /\ SettledInv)'
  BY InstallerStep, WholeStep, SettledStep
<1> QED BY <1>1, <1>2, <1>3, PTL DEF Spec

-----------------------------------------------------------------------------
\* An installer that is alone on its host, and does not make a first installation.
Alone(p) == host.actors = {p} /\ upd = "off" /\ sh[p].mode # "fresh"

Untouched == {"start", "workdir"} \cup Saves \cup {"bin", "mv bin"}
Upgrading == {"bin", "mv bin", "unit", "mv unit", "chmod"} \cup Activation \cup Rollback

\* What ran at the start, and whether it runs until somebody stops it.
Was   == IF host.on THEN host.file["bin"] ELSE None
Stays == host.file["bin"] \notin host.bad

\* Nothing failed but the activation.
Calm == faults <= (IF host.bad = {} THEN 1 ELSE 0)

RolledBackBy(p) == sh[p].result = "rolled back"

\* Which files are installed at which place: the old ones, those of the release, and
\* in the rollback the old ones again.
RollFiles(p) ==
  LET s == sh[p]
  IN /\ file["config"] = host.file["config"] /\ s.pc # "setup"
     /\ s.pc \in {"workdir"} \cup Saves \cup Upgrading => file["config"] # None
     /\ s.pc \in Untouched => file["bin"] = host.file["bin"]
     /\ s.pc \in Untouched \cup {"unit", "mv unit"} => file["unit"] = host.file["unit"]
     /\ s.pc \in {"mv bin", "mv unit"} => s.staged = p
     /\ s.pc \in {"unit", "mv unit", "chmod"} \cup Activation => file["bin"] = p
     /\ s.pc \in {"chmod"} \cup Activation => file["unit"] = p
     /\ s.pc = "mv old bin" => s.staged = host.file["bin"]
     /\ s.pc = "mv old unit" => s.staged = host.file["unit"]
     /\ s.pc \in {"restore unit", "mv old unit"} \cup Optional => file["bin"] = host.file["bin"]
     /\ s.pc \in Optional => file["unit"] = host.file["unit"]
     /\ RolledBackBy(p) =>
          /\ s.pc \in {"cleanup", "done", "killed"}
          /\ file["bin"] = host.file["bin"] /\ file["unit"] = host.file["unit"]

\* What has been saved.
RollSaved(p) ==
  LET s == sh[p]
  IN /\ s.pc \in {"save unit", "was active", "was enabled"} \cup Upgrading =>
          s.backup.bin = host.file["bin"]
     /\ s.pc \in {"was active", "was enabled"} \cup Upgrading => s.backup.unit = host.file["unit"]
     /\ s.pc \in {"was enabled"} \cup Upgrading /\ Stays => s.backup.active = (Was # None)
     /\ s.pc \in Upgrading => s.backup.enabled = host.on

\* The service and systemd until the rollback, which a fault or a bad binary causes.
RollService(p) ==
  LET s == sh[p]
  IN /\ s.pc \in Untouched \cup {"unit", "mv unit", "chmod", "reload", "enable"} => enabled = host.on
     /\ s.pc \in Untouched \cup {"unit", "mv unit", "chmod", "reload", "enable", "restart"} /\ Stays =>
          running = Was
     /\ s.pc \in {"enable", "restart", "verify"} => loaded = p
     /\ s.pc \in {"restart", "verify"} => enabled = TRUE
     /\ s.pc = "verify" /\ host.bad = {} => running = p
     /\ s.pc \in Rollback \/ RolledBackBy(p) => host.bad # {} \/ faults # 0

\* And after it, step by step.
RollEnd(p) ==
  Calm =>
    /\ sh[p].pc \in {"enable back", "restart back"} \/ RolledBackBy(p) => loaded = host.file["unit"]
    /\ (sh[p].pc = "restart back" \/ RolledBackBy(p)) /\ host.file["unit"] # None => enabled = host.on
    /\ RolledBackBy(p) /\ Stays => running = Was

RollOK(p) == RollFiles(p) /\ RollSaved(p) /\ RollService(p) /\ RollEnd(p)

\* A first installation is not rolled back.
NeverBack(p) ==
  /\ sh[p].pc = "start" => sh[p].result = "none"
  /\ sh[p].mode = "fresh" => sh[p].pc \notin Rollback /\ ~RolledBackBy(p)

RollInv ==
  /\ \A p \in Installer : NeverBack(p)
  /\ \A p \in Installer : Alone(p) => RollOK(p)

\* Only the installers of a host take steps.
LEMMA OnlyActors ==
  ASSUME Inv, NEW p \in Installer, ShellSteps(p)
  PROVE  p \in host.actors
<1>1. ShellForm(p) /\ (sh[p].pc # "start" => p \in host.actors)
  BY ShellForms DEF Inv, ShellInv, ShellOK
<1> QED
  BY <1>1
     DEF ShellForm, Begins, Backs, Installs, Commits, Activates, Restores, Breaks, Leaves, Stages,
         Others, Activation

\* What is known of the host of an installer that is alone.
LEMMA HostFacts ==
  ASSUME Inv, FileInv, WholeInv, NEW p \in Installer
  PROVE  /\ sh[p] \in ShellType /\ file \in [File -> Any] /\ enabled \in BOOLEAN /\ WholeOK(p)
         /\ host.on \in BOOLEAN /\ host.file["bin"] # Failing /\ Was # Failing
         /\ (Stays => Was \notin host.bad) /\ None # Failing /\ p # Failing /\ p # None
         /\ host.file \in [File -> {Old, Existing, Odd, None}]
<1>1. /\ sh[p] \in ShellType /\ file \in [File -> Any] /\ enabled \in BOOLEAN /\ WholeOK(p)
  BY DEF Inv, Shape, ShellShape, FileShape, WholeInv
<1>2. /\ host.file \in [File -> {Old, Existing, Odd, None}] /\ host.on \in BOOLEAN
      /\ None \notin host.bad
  BY InstallerAssumption DEF FileInv, Host
<1>3. Failing \notin {Old, Existing, Odd, None} BY InstallerAssumption DEF Failing
<1>4. host.file["bin"] \in {Old, Existing, Odd, None} BY <1>2 DEF File
<1>5. p # Failing /\ p # None BY SetupAssumption DEF Failing
<1> QED BY <1>1, <1>2, <1>3, <1>4, <1>5 DEF Was, Stays

\* Faults are only added; a fault in the rollback is one too many.
LEMMA FaultsAdd ==
  ASSUME Counted, host' = host, faults' \in {faults, faults + 1}
  PROVE  /\ Calm' => Calm
         /\ faults # 0 => faults' # 0
         /\ faults' = faults + 1 => faults' # 0
         /\ faults' = faults + 1 /\ (host.bad # {} \/ faults # 0) => ~Calm'
BY DEF Counted, Calm

\* The number of faults that RolledBack asks for is one that leaves the rollback alone.
LEMMA FewFaults ==
  ASSUME Counted PROVE faults = (IF host.bad = {} THEN 1 ELSE 0) => Calm
<1>1. CASE host.bad = {} BY <1>1 DEF Counted, Calm
<1>2. CASE host.bad # {} BY <1>2 DEF Counted, Calm
<1> QED BY <1>1, <1>2

\* Two hosts with the same three files have the same files.
LEMMA SameFiles ==
  ASSUME NEW f \in [File -> Any], NEW g \in [File -> Any], \A x \in File : f[x] = g[x]
  PROVE  f = g
OBVIOUS

\* The files, one step of the installer further.
LEMMA RollFilesStep ==
  ASSUME Inv, FileInv, WholeInv, NEW p \in Installer, ShellSteps(p), sh[p].mode # "fresh",
         RollOK(p), sh'[p].mode # "fresh"
  PROVE  RollFiles(p)'
<1> USE DEF Rest, Kept, Puts, Fields, Place, Ends, Staged1, Saved, Gives, RollFiles, RolledBackBy,
            Untouched, Upgrading, Saves, Activation, Rollback, Optional
<1>1. sh[p] \in ShellType /\ file \in [File -> Any] /\ WholeOK(p) /\ RollSaved(p) /\ RollFiles(p)
  BY HostFacts DEF RollOK
<1>2. sh[p].pc \notin {"check", "stage config"} \cup Linking BY <1>1 DEF WholeOK
<1>3. CASE Begins(p) BY <1>1, <1>3 DEF Begins
<1>4. CASE Backs(p) BY <1>1, <1>4 DEF Backs
<1>5. CASE Installs(p) BY <1>1, <1>5 DEF Installs, File
<1>6. CASE Commits(p) BY <1>2, <1>6 DEF Commits, Linking
<1>7. CASE Activates(p) BY <1>1, <1>7 DEF Activates
<1>8. CASE Restores(p)
  <2>1. /\ sh[p].backup.bin = host.file["bin"] \/ sh[p].pc \notin Rollback
        /\ sh[p].backup.unit = host.file["unit"] \/ sh[p].pc \notin Rollback
    BY <1>1 DEF RollSaved
  <2>2. CASE sh[p].pc = "restore bin" BY <1>1, <1>8, <2>1, <2>2 DEF Restores, File
  <2>3. CASE sh[p].pc = "mv old bin" BY <1>1, <1>8, <2>3 DEF Restores, File
  <2>4. CASE sh[p].pc = "restore unit" BY <1>1, <1>8, <2>1, <2>4 DEF Restores, File
  <2>5. CASE sh[p].pc = "mv old unit" BY <1>1, <1>8, <2>5 DEF Restores, File
  <2>6. CASE sh[p].pc \in Optional BY <1>1, <1>8, <2>6 DEF Restores, File
  <2> QED BY <1>8, <2>2, <2>3, <2>4, <2>5, <2>6 DEF Restores
<1>9. CASE Breaks(p) BY <1>1, <1>9 DEF Breaks, Stages, Others
<1>10. CASE Leaves(p) BY <1>1, <1>10 DEF Leaves, Ended
<1> QED BY <1>3, <1>4, <1>5, <1>6, <1>7, <1>8, <1>9, <1>10, ShellForms DEF ShellForm

\* What has been saved,
LEMMA RollSavedStep ==
  ASSUME Inv, FileInv, WholeInv, NEW p \in Installer, ShellSteps(p), sh[p].mode # "fresh",
         RollOK(p), sh'[p].mode # "fresh"
  PROVE  RollSaved(p)'
<1> USE DEF Rest, Kept, Puts, Fields, Place, Ends, Staged1, Saved, Gives, RollSaved,
            Upgrading, Activation, Rollback, Optional
<1>1. /\ sh[p] \in ShellType /\ WholeOK(p) /\ RollSaved(p) /\ RollFiles(p) /\ RollService(p)
      /\ Was # Failing
  BY HostFacts DEF RollOK
<1>2. sh[p].pc \notin {"check", "stage config", "setup"} \cup Linking
  BY <1>1 DEF WholeOK, RollFiles
<1>3. CASE Begins(p) BY <1>1, <1>2, <1>3 DEF Begins
<1>4. CASE Backs(p)
  <2>0. sh[p].backup \in [bin : Any, unit : Any, active : BOOLEAN, enabled : BOOLEAN] BY <1>1 DEF ShellType
  <2>1. Saves \subseteq Untouched BY DEF Untouched
  <2>2. sh[p].pc \in Saves => /\ file["bin"] = host.file["bin"] /\ file["unit"] = host.file["unit"]
                              /\ enabled = host.on /\ (Stays => IsActive = (Was # None))
    BY <1>1, <2>1 DEF RollFiles, RollService, IsActive
  <2>3. UNCHANGED host BY <1>4 DEF Backs
  <2>4. CASE sh[p].pc = "save bin" BY <1>4, <2>0, <2>2, <2>4 DEF Backs, Saves
  <2>5. CASE sh[p].pc = "save unit" BY <1>1, <1>4, <2>0, <2>2, <2>5 DEF Backs, Saves
  <2>6. CASE sh[p].pc = "was active" BY <1>1, <1>4, <2>0, <2>2, <2>6 DEF Backs, Saves, Was, Stays
  <2>7. CASE sh[p].pc = "was enabled" BY <1>1, <1>4, <2>0, <2>2, <2>7 DEF Backs, Saves, Was, Stays
  <2> QED BY <1>4, <2>4, <2>5, <2>6, <2>7 DEF Backs
<1>5. CASE Installs(p) BY <1>1, <1>5 DEF Installs, Was, Stays
<1>6. CASE Commits(p) BY <1>2, <1>6 DEF Commits, Linking
<1>7. CASE Activates(p) BY <1>1, <1>7 DEF Activates, Was, Stays
<1>8. CASE Restores(p) BY <1>1, <1>8 DEF Restores, Was, Stays
<1>9. CASE Breaks(p) BY <1>1, <1>9 DEF Breaks, Was, Stays
<1>10. CASE Leaves(p) BY <1>1, <1>10 DEF Leaves, Ended, Was, Stays
<1> QED BY <1>3, <1>4, <1>5, <1>6, <1>7, <1>8, <1>9, <1>10, ShellForms DEF ShellForm

\* the service and systemd,
LEMMA RollServiceStep ==
  ASSUME Inv, FileInv, WholeInv, Counted, NEW p \in Installer, ShellSteps(p), sh[p].mode # "fresh",
         RollOK(p), sh'[p].mode # "fresh"
  PROVE  RollService(p)'
<1> USE DEF Rest, Kept, Puts, Fields, Place, Ends, Staged1, Saved, Gives, RollService, RolledBackBy,
            Untouched, Upgrading, Saves, Activation, Rollback, Optional
<1>1. /\ sh[p] \in ShellType /\ WholeOK(p) /\ RollFiles(p) /\ RollService(p)
      /\ p # Failing /\ p # None
  BY HostFacts DEF RollOK
<1>2. sh[p].pc \notin {"check", "stage config", "setup"} \cup Linking
  BY <1>1 DEF WholeOK, RollFiles
<1>a. host' = host => Was' = Was /\ Stays' = Stays BY DEF Was, Stays
<1>b. host' = host /\ faults' \in {faults, faults + 1} /\ faults # 0 => faults' # 0 BY FaultsAdd
<1>c. RolledBackBy(p) => sh[p].pc \in {"cleanup", "done", "killed"} BY <1>1 DEF RollFiles
<1>d. /\ UNCHANGED <<loaded, enabled, running, host>> /\ sh'[p].result \in {sh[p].result, "failed"}
      /\ sh'[p].pc \in Untouched \cup {"unit", "mv unit", "chmod", "cleanup"}
      /\ sh[p].pc \in Untouched \cup {"unit", "mv unit"}
      => RollService(p)'
  <2> HAVE /\ UNCHANGED <<loaded, enabled, running, host>> /\ sh'[p].result \in {sh[p].result, "failed"}
           /\ sh'[p].pc \in Untouched \cup {"unit", "mv unit", "chmod", "cleanup"}
           /\ sh[p].pc \in Untouched \cup {"unit", "mv unit"}
  <2>1. enabled' = host'.on BY <1>1
  <2>2. Stays' => running' = Was' BY <1>1, <1>a
  <2>3. ~RolledBackBy(p)' BY <1>c
  <2> QED BY <2>1, <2>2, <2>3
<1>3. CASE Begins(p) BY <1>1, <1>2, <1>3, <1>d DEF Begins
<1>4. CASE Backs(p) BY <1>4, <1>d DEF Backs
<1>5. CASE Installs(p) BY <1>1, <1>5, <1>d DEF Installs
<1>6. CASE Commits(p) BY <1>2, <1>6 DEF Commits, Linking
<1>7. CASE Activates(p)
  <2>1. sh[p].pc \in {"reload"} => file["unit"] = p BY <1>1 DEF RollFiles
  <2>2. sh[p].pc = "restart" => Launched = p BY <1>1 DEF RollFiles, Launched
  <2>3. p # None /\ (running = p => IsActive) BY <1>1 DEF IsActive
  <2>4. CASE sh[p].pc = "chmod"
    <3>1. sh'[p].pc = "reload" /\ UNCHANGED <<enabled, running, host>> /\ ~RolledBackBy(p)'
      BY <1>7, <1>c, <2>4 DEF Activates
    <3>2. Stays' => running' = Was' BY <1>1, <1>a, <2>4, <3>1
    <3>3. enabled' = host'.on BY <1>1, <2>4, <3>1
    <3> QED BY <3>1, <3>2, <3>3
  <2>5. CASE sh[p].pc = "reload"
    <3>1. /\ sh'[p].pc = "enable" /\ UNCHANGED <<enabled, running, host>> /\ ~RolledBackBy(p)'
          /\ loaded' = p
      BY <1>7, <1>c, <2>1, <2>5 DEF Activates
    <3>2. Stays' => running' = Was' BY <1>1, <1>a, <2>5, <3>1
    <3>3. enabled' = host'.on BY <1>1, <2>5, <3>1
    <3> QED BY <3>1, <3>2, <3>3
  <2>6. CASE sh[p].pc = "enable"
    <3>1. /\ sh'[p].pc = "restart" /\ enabled' = TRUE /\ ~RolledBackBy(p)'
          /\ UNCHANGED <<loaded, running, host>>
      BY <1>1, <1>7, <1>c, <2>6 DEF Activates
    <3>2. Stays' => running' = Was' BY <1>1, <1>a, <2>6, <3>1
    <3>3. loaded' = p BY <1>1, <2>6, <3>1
    <3> QED BY <3>1, <3>2, <3>3
  <2>7. CASE sh[p].pc = "restart" BY <1>1, <1>7, <1>a, <2>2, <2>7 DEF Activates
  <2>8. CASE sh[p].pc = "verify" BY <1>1, <1>7, <1>a, <2>3, <2>8 DEF Activates
  <2> QED BY <1>7, <2>4, <2>5, <2>6, <2>7, <2>8 DEF Activates
<1>8. CASE Restores(p) BY <1>1, <1>8, <1>a DEF Restores
<1>9. CASE Breaks(p)
  <2>1. faults' # 0 BY <1>9, FaultsAdd DEF Breaks
  <2> QED BY <1>1, <1>9, <1>a, <2>1 DEF Breaks, Stages, Others
<1>10. CASE Leaves(p)
  <2>1. /\ UNCHANGED <<loaded, enabled, running, faults, host>>
        /\ sh'[p].pc \in {sh[p].pc, "trapped", "done", "killed"}
        /\ sh'[p].result \in {sh[p].result, "interrupted"}
    BY <1>10 DEF Leaves
  <2>2. CASE sh'[p].pc = sh[p].pc
    <3>1. sh'[p].pc \in Untouched \cup {"unit", "mv unit", "chmod", "reload", "enable"} =>
            enabled' = host'.on
      BY <1>1, <2>1, <2>2
    <3>2. /\ sh'[p].pc \in Untouched \cup {"unit", "mv unit", "chmod", "reload", "enable", "restart"}
          /\ Stays'
          => running' = Was'
      BY <1>1, <1>a, <2>1, <2>2
    <3>3. sh'[p].pc \in {"enable", "restart", "verify"} => loaded' = p
      BY <1>1, <1>a, <2>1, <2>2
    <3>4. sh'[p].pc \in {"restart", "verify"} => enabled' = TRUE
      BY <1>1, <1>a, <2>1, <2>2
    <3>5. sh'[p].pc = "verify" /\ host'.bad = {} => running' = p
      BY <1>1, <1>a, <2>1, <2>2
    <3>6. sh'[p].pc \in Rollback \/ RolledBackBy(p)' => host'.bad # {} \/ faults' # 0
      BY <1>1, <1>a, <2>1, <2>2
    <3> QED BY <3>1, <3>2, <3>3, <3>4, <3>5, <3>6
  <2>3. CASE sh'[p].pc # sh[p].pc BY <1>1, <1>a, <2>1, <2>3
  <2> QED BY <2>2, <2>3
<1> QED BY <1>3, <1>4, <1>5, <1>6, <1>7, <1>8, <1>9, <1>10, ShellForms DEF ShellForm

\* and the rollback.
LEMMA RollEndStep ==
  ASSUME Inv, FileInv, WholeInv, Counted, NEW p \in Installer, ShellSteps(p), sh[p].mode # "fresh",
         RollOK(p), sh'[p].mode # "fresh"
  PROVE  RollEnd(p)'
<1> USE DEF Rest, Kept, Puts, Fields, Place, Ends, Staged1, Saved, Gives, RollEnd, RolledBackBy,
            Upgrading, Saves, Activation, Rollback, Optional
<1>1. /\ sh[p] \in ShellType /\ WholeOK(p) /\ RollFiles(p) /\ RollSaved(p) /\ RollService(p) /\ RollEnd(p)
      /\ host.on \in BOOLEAN
  BY HostFacts DEF RollOK
<1>2. sh[p].pc \notin {"check", "stage config", "setup"} \cup Linking
  BY <1>1 DEF WholeOK, RollFiles
<1>a. host' = host => Was' = Was /\ Stays' = Stays BY DEF Was, Stays
<1>b. host' = host /\ faults' \in {faults, faults + 1} => (Calm' => Calm) BY FaultsAdd
<1>c. RolledBackBy(p) => sh[p].pc \in {"cleanup", "done", "killed"} BY <1>1 DEF RollFiles
<1>3. CASE Begins(p) BY <1>1, <1>3, <1>c DEF Begins
<1>4. CASE Backs(p) BY <1>1, <1>4, <1>c DEF Backs
<1>5. CASE Installs(p) BY <1>1, <1>5, <1>c DEF Installs
<1>6. CASE Commits(p) BY <1>2, <1>6 DEF Commits, Linking
<1>7. CASE Activates(p) BY <1>1, <1>7, <1>c DEF Activates
<1>8. CASE Restores(p)
  <2>1. Calm' = Calm BY <1>8 DEF Restores, Calm
  <2>2. sh[p].pc \in Optional => /\ file["bin"] = host.file["bin"] /\ file["unit"] = host.file["unit"]
                                 /\ file["config"] # None /\ sh[p].backup.enabled = host.on
                                 /\ (Stays => sh[p].backup.active = (Was # None))
    BY <1>1 DEF RollFiles, RollSaved
  <2>3. sh[p].pc = "restart back" /\ Stays => (IF sh[p].backup.active THEN Launched ELSE None) = Was
    BY <2>2 DEF Launched, Was
  <2>4. CASE sh[p].pc = "restart back" BY <1>1, <1>8, <1>a, <2>1, <2>3, <2>4 DEF Restores
  <2>5. CASE sh[p].pc = "enable back"
    BY <1>1, <1>8, <1>a, <1>c, <2>1, <2>2, <2>5 DEF Restores
  <2>6. CASE sh[p].pc = "reload back"
    BY <1>1, <1>8, <1>a, <1>c, <2>1, <2>2, <2>6 DEF Restores
  <2>7. CASE sh[p].pc \notin Optional BY <1>1, <1>8, <1>a, <1>c, <2>1, <2>7 DEF Restores
  <2> QED BY <2>4, <2>5, <2>6, <2>7
<1>9. CASE Breaks(p)
  <2>1. sh[p].pc \in Rollback => ~Calm'
    BY <1>1, <1>9, FaultsAdd DEF RollService, Breaks
  <2> QED BY <1>1, <1>9, <1>a, <1>b, <1>c, <2>1 DEF Breaks, Stages, Others
<1>10. CASE Leaves(p)
  <2>1. Calm' = Calm BY <1>10 DEF Leaves, Calm
  <2> QED BY <1>1, <1>10, <1>a, <1>c, <2>1 DEF Leaves, Ended
<1> QED BY <1>3, <1>4, <1>5, <1>6, <1>7, <1>8, <1>9, <1>10, ShellForms DEF ShellForm

\* A first installation leaves without a rollback.
LEMMA NeverBackStep ==
  ASSUME Inv, NEW p \in Installer, ShellSteps(p), NeverBack(p)
  PROVE  NeverBack(p)'
<1> USE DEF Fields, Place, Ends, Staged1, Saved, Gives, NeverBack, RolledBackBy, Rollback, Optional
<1>1. CASE Begins(p) BY <1>1 DEF Begins
<1>2. CASE Backs(p) BY <1>2 DEF Backs
<1>3. CASE Installs(p) BY <1>3 DEF Installs
<1>4. CASE Commits(p) BY <1>4 DEF Commits
<1>5. CASE Activates(p) BY <1>5 DEF Activates
<1>6. CASE Restores(p) BY <1>6 DEF Restores
<1>7. CASE Breaks(p) BY <1>7 DEF Breaks
<1>8. CASE Leaves(p) BY <1>8 DEF Leaves, Ended
<1> QED BY <1>1, <1>2, <1>3, <1>4, <1>5, <1>6, <1>7, <1>8, ShellForms DEF ShellForm

\* The service fails and restarts by itself only where nothing is said of it.
LEMMA RollServiceRuns ==
  ASSUME Inv, FileInv, WholeInv, NEW p \in Installer, ServiceFails \/ ServiceAutoRestarts, RollOK(p)
  PROVE  RollOK(p)'
<1>1. UNCHANGED <<sh, host, file, loaded, enabled, faults>> /\ (running \in host.bad \/ running = Failing)
  BY DEF ServiceFails, ServiceAutoRestarts, updater, env
<1>2. p # Failing /\ Was # Failing /\ (Stays => Was \notin host.bad) BY HostFacts
<1>3. Was' = Was /\ (Stays' <=> Stays) /\ (Calm' <=> Calm) /\ (RolledBackBy(p)' <=> RolledBackBy(p))
  BY <1>1 DEF Was, Stays, Calm, RolledBackBy
<1>4. Stays => running # Was BY <1>1, <1>2
<1>5. host.bad = {} => running # p BY <1>1, <1>2
<1>6. RollFiles(p)' BY <1>1, <1>3 DEF RollOK, RollFiles
<1>7. RollSaved(p)' BY <1>1, <1>3 DEF RollOK, RollSaved
<1>8. RollService(p)'
  <2> DEFINE s == sh[p]
  <2>1. RollService(p) BY DEF RollOK
  <2>2. ~(s.pc \in Untouched \cup {"unit", "mv unit", "chmod", "reload", "enable", "restart"} /\ Stays)
    BY <1>4, <2>1 DEF RollService
  <2>3. ~(s.pc = "verify" /\ host.bad = {}) BY <1>5, <2>1 DEF RollService
  <2> QED BY <1>1, <1>3, <2>1, <2>2, <2>3 DEF RollService
<1>9. RollEnd(p)' BY <1>1, <1>3, <1>4 DEF RollOK, RollEnd
<1> QED BY <1>6, <1>7, <1>8, <1>9 DEF RollOK

\* Every step keeps all of it.
LEMMA RollStep ==
  ASSUME Inv, FileInv, WholeInv, Counted, RollInv, [Next]_vars
  PROVE  RollInv'
<1>1. ASSUME NEW p \in Installer, ShellSteps(p) PROVE RollInv'
  <2>1. p \in host.actors /\ host' = host /\ \A q \in Installer \ {p} : sh'[q] = sh[q]
    <3>1. host' = host
      BY <1>1, PlainStep, WorkDirStep, CleanupStep, InterruptStep
         DEF ShellSteps, Shell, PlainShell, Stepped
    <3> QED BY <1>1, <3>1, OnlyActors, ShellAlone
  <2>2. \A q \in Installer : NeverBack(q)'
    <3>1. NeverBack(p)' BY <1>1, NeverBackStep DEF RollInv
    <3>2. \A q \in Installer \ {p} : NeverBack(q)' BY <2>1 DEF RollInv, NeverBack, RolledBackBy
    <3> QED BY <3>1, <3>2
  <2>3. ASSUME NEW q \in Installer, Alone(q)' PROVE RollOK(q)'
    <3>1. q = p /\ sh'[p].mode # "fresh" BY <2>1, <2>3 DEF Alone
    <3>2. upd = "off" /\ sh[p].mode # "fresh"
      <4>1. ShellForm(p) /\ ShellOK(p) BY <1>1, ShellForms DEF Inv, ShellInv
      <4>2. upd' = upd
        BY <4>1
           DEF ShellForm, Begins, Backs, Installs, Commits, Activates, Restores, Breaks, Leaves, Kept,
               Puts, Rest
      <4>3. sh[p].mode = "fresh" => sh'[p].mode = "fresh"
        BY <4>1
           DEF ShellForm, Begins, Backs, Installs, Commits, Activates, Restores, Breaks, Leaves,
               Fields, Place, Ends, Staged1, Saved, Gives, ShellOK
      <4> QED BY <2>3, <3>1, <4>2, <4>3 DEF Alone
    <3>3. RollOK(p) BY <2>1, <2>3, <3>1, <3>2 DEF Alone, RollInv
    <3>4. RollOK(p)'
      BY <1>1, <3>1, <3>2, <3>3, RollFilesStep, RollSavedStep, RollServiceStep, RollEndStep DEF RollOK
    <3> QED BY <3>1, <3>4
  <2> QED BY <2>2, <2>3 DEF RollInv
<1>2. ASSUME NEW p \in Installer, SetupRuns(p) \/ SetupWatches(p) \/ SetupAsks(p) \/ SetupFails(p)
      PROVE  RollInv'
  <2>1. UNCHANGED <<sh, host, file, loaded, enabled, running, upd>> /\ faults' \in {faults, faults + 1}
    BY <1>2, SetupMoves
  <2>2. \A q \in Installer : NeverBack(q)' BY <2>1 DEF RollInv, NeverBack, RolledBackBy
  <2>3. ASSUME NEW q \in Installer, Alone(q)' PROVE RollOK(q)'
    <3>1. RollOK(q) BY <2>1, <2>3 DEF Alone, RollInv
    <3>2. RollFiles(q)' BY <2>1, <3>1 DEF RollOK, RollFiles, RolledBackBy
    <3>3. RollSaved(q)' BY <2>1, <3>1 DEF RollOK, RollSaved, Was, Stays
    <3>4. RollService(q)' /\ RollEnd(q)'
      <4>1. (faults # 0 => faults' # 0) /\ (Calm' => Calm) BY <2>1, FaultsAdd
      <4>2. Was' = Was /\ (Stays' <=> Stays) /\ (RolledBackBy(q)' <=> RolledBackBy(q))
        BY <2>1 DEF Was, Stays, RolledBackBy
      <4>3. RollService(q)' BY <2>1, <3>1, <4>1, <4>2 DEF RollOK, RollService
      <4>4. RollEnd(q)' BY <2>1, <3>1, <4>1, <4>2 DEF RollOK, RollEnd
      <4> QED BY <4>3, <4>4
    <3> QED BY <3>2, <3>3, <3>4 DEF RollOK
  <2> QED BY <2>2, <2>3 DEF RollInv
<1>3. CASE ServiceFails \/ ServiceAutoRestarts
  <2>1. UNCHANGED <<sh, host, upd>> BY <1>3 DEF ServiceFails, ServiceAutoRestarts, updater, env
  <2>2. \A q \in Installer : NeverBack(q)' BY <2>1 DEF RollInv, NeverBack, RolledBackBy
  <2>3. \A q \in Installer : Alone(q)' => RollOK(q)'
    BY <1>3, <2>1, RollServiceRuns DEF RollInv, Alone
  <2> QED BY <2>2, <2>3 DEF RollInv
<1>4. CASE Update
  <2>1. upd' # "off" /\ UNCHANGED sh BY <1>4 DEF Update, UpdTo
  <2> QED BY <2>1 DEF RollInv, NeverBack, RolledBackBy, Alone
<1>5. CASE UNCHANGED vars
  <2>1. UNCHANGED <<sh, host, file, loaded, enabled, running, upd, faults>>
    BY <1>5 DEF vars, quiet, systemd, updater, env
  <2>2. \A q \in Installer : NeverBack(q)' BY <2>1 DEF RollInv, NeverBack, RolledBackBy
  <2>3. ASSUME NEW q \in Installer, Alone(q)' PROVE RollOK(q)'
    <3>1. RollOK(q) BY <2>1, <2>3 DEF Alone, RollInv
    <3>2. /\ Was' = Was /\ (Stays' <=> Stays) /\ (Calm' <=> Calm)
          /\ (RolledBackBy(q)' <=> RolledBackBy(q))
      BY <2>1 DEF Was, Stays, Calm, RolledBackBy
    <3>3. RollFiles(q)' BY <2>1, <3>1, <3>2 DEF RollOK, RollFiles
    <3>4. RollSaved(q)' BY <2>1, <3>1, <3>2 DEF RollOK, RollSaved
    <3>5. RollService(q)' BY <2>1, <3>1, <3>2 DEF RollOK, RollService
    <3>6. RollEnd(q)' BY <2>1, <3>1, <3>2 DEF RollOK, RollEnd
    <3> QED BY <3>3, <3>4, <3>5, <3>6 DEF RollOK
  <2> QED BY <2>2, <2>3 DEF RollInv
<1> QED BY <1>1, <1>2, <1>3, <1>4, <1>5 DEF Next, ShellSteps

\* No installer has begun, and every file is as the host had it.
LEMMA RollInit == Init => RollInv
<1> SUFFICES ASSUME Init PROVE RollInv OBVIOUS
<1>1. \A p \in Installer : sh[p].pc = "start" /\ sh[p].mode = "none" /\ sh[p].result = "none"
  BY DEF Init
<1>2. file = host.file /\ enabled = host.on /\ running = Was BY DEF Init, Was
<1>3. \A p \in Installer : RollFiles(p)
  BY <1>1, <1>2 DEF RollFiles, RolledBackBy, Saves, Upgrading, Activation, Rollback, Optional
<1>4. \A p \in Installer : RollSaved(p) /\ RollService(p) /\ RollEnd(p)
  BY <1>1, <1>2
     DEF RollSaved, RollService, RollEnd, RolledBackBy, Upgrading, Activation, Rollback, Optional
<1> QED BY <1>1, <1>3, <1>4 DEF RollInv, RollOK, NeverBack, RolledBackBy, Rollback, Optional

\* An upgrade that is rolled back restores both files and, when nothing but the
\* activation failed, the state of systemd and the service.
THEOREM RollbackRestores == Spec => []RolledBack
<1>1. Inv /\ FileInv /\ WholeInv /\ SettledInv /\ RollInv => RolledBack
  <2> SUFFICES ASSUME Inv, FileInv, WholeInv, SettledInv, RollInv, NEW p \in host.actors,
                      sh[p].result = "rolled back", host.actors = {p}, upd = "off"
               PROVE  /\ file = host.file
                      /\ faults = (IF host.bad = {} THEN 1 ELSE 0) =>
                           /\ loaded = host.file["unit"]
                           /\ host.file["unit"] # None => enabled = host.on
                           /\ host.file["bin"] \notin host.bad =>
                                running = IF host.on THEN host.file["bin"] ELSE None
    BY DEF RolledBack
  <2>1. p \in Installer BY InstallerAssumption DEF FileInv, Host
  <2>2. RollOK(p) /\ RolledBackBy(p) BY <2>1 DEF RollInv, NeverBack, RolledBackBy, Alone
  <2>3. file = host.file
    <3>1. file \in [File -> Any] /\ host.file \in [File -> Any]
      BY <2>1, HostFacts DEF Any, Content
    <3>2. \A f \in File : file[f] = host.file[f] BY <2>2 DEF RollOK, RollFiles, File
    <3> QED BY <3>1, <3>2, SameFiles
  <2>4. faults = (IF host.bad = {} THEN 1 ELSE 0) => Calm
    BY FewFaults DEF SettledInv
  <2> QED BY <2>2, <2>3, <2>4 DEF RollOK, RollEnd, Was, Stays
<1>2. Init => Inv /\ FileInv /\ WholeInv /\ SettledInv /\ RollInv
  BY InstallerInit, WholeInit, SettledInit, RollInit
<1>3. Inv /\ FileInv /\ WholeInv /\ SettledInv /\ RollInv /\ [Next]_vars
        => (Inv /\ FileInv /\ WholeInv /\ SettledInv /\ RollInv)'
  BY InstallerStep, WholeStep, SettledStep, RollStep DEF SettledInv
<1> QED BY <1>1, <1>2, <1>3, PTL DEF Spec
=============================================================================
