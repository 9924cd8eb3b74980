----------------------------- MODULE Installer -----------------------------
(***************************************************************************)
(* scripts/install.sh: any number of installers on one host, each with its *)
(* own release, its setup process (Setup) and its traps, next to systemd   *)
(* and to an update of the program, which takes a lock the script does not *)
(* know.  A place of pc is the command that comes next; a trap runs before *)
(* the next command.                                                       *)
(***************************************************************************)
EXTENDS Setup

CONSTANTS
  Old,            \* what was installed
  Updated,        \* the binary that `zimaos-monitor update` installs
  Existing, Odd,  \* a configuration file, and something else in its place
  Hosts,          \* initial hosts, a subset of Host
  MaxFaults, MaxKills   \* bounds: failing commands, SIGKILLs

Content == Installer \cup {Old, Updated, Existing, Odd, None}
File    == {"bin", "unit", "config"}
Host    == [actors : SUBSET Installer, update : BOOLEAN, bad : SUBSET (Content \ {None}),
            file : [File -> {Old, Existing, Odd, None}], on : BOOLEAN, full : BOOLEAN,
            stray : {Existing, None}, faults : 0..MaxFaults, kills : 0..MaxKills]

ASSUME InstallerAssumption ==
  /\ {Old, Updated, Existing, Odd} \cap (Installer \cup {None, Partial, Root}) = {}
  /\ Old # Updated /\ Existing # Odd /\ None # Root /\ None # Partial
  /\ Hosts \subseteq Host /\ MaxFaults \in Nat /\ MaxKills \in Nat

VARIABLES
  host,     \* the host at the start, its trouble, the binaries that do not stay up (bad),
            \* whether the temporary directory takes nothing any more (full)
  sh,       \* the shell of each installer
  file,     \* /opt/zimaos-monitor/zimaos-monitor, the unit file, config.yaml
  loaded, enabled, running,  \* systemd: the unit it has read, the symlink, the process
  upd, undo,                 \* the updater and its backup
  faults, kills              \* failed commands and SIGKILLs so far

systemd == <<loaded, enabled, running>>
updater == <<upd, undo>>
env     == <<host, faults, kills>>
quiet   == <<file, systemd, updater, env, wizard>>
vars    == <<sh, quiet>>

NoBackup == [bin |-> None, unit |-> None, active |-> FALSE, enabled |-> FALSE]
Failing  == Root   \* activating (auto-restart)

\* mode is "fresh" or "upgrade"; pending is a signal whose trap has not run; current
\* says whether CURRENT_STAGED is set, workdir whether WORK_DIR is; staged is the
\* staged file; backup holds the backups, WAS_ACTIVE and WAS_ENABLED.
Init ==
  /\ host \in Hosts
  /\ sh = [p \in Installer |->
       [pc |-> "start", mode |-> "none", pending |-> FALSE, current |-> FALSE, staged |-> None,
        workdir |-> FALSE, backup |-> NoBackup, result |-> "none"]]
  /\ file = host.file
  /\ loaded = host.file["unit"] /\ enabled = host.on
  /\ running = IF host.on THEN host.file["bin"] ELSE None
  /\ upd = "off" /\ undo = None /\ faults = 0 /\ kills = 0
  /\ SetupInit(host.stray)

At(p, place)   == sh[p].pc = place /\ ~sh[p].pending
Goto(p, place) == sh' = [sh EXCEPT ![p].pc = place]
Exit(p, how)   == sh' = [sh EXCEPT ![p].pc = "cleanup", ![p].result = how]
IsActive       == running \notin {None, Failing}

-----------------------------------------------------------------------------
\* preflight, and the test for a configuration in main.
Start(p) ==
  /\ At(p, "start") /\ p \in host.actors
  /\ CASE file["config"] = Odd  -> Exit(p, "failed")
       [] file["config"] = None -> sh' = [sh EXCEPT ![p].pc = "workdir", ![p].mode = "fresh"]
       [] OTHER                 -> sh' = [sh EXCEPT ![p].pc = "workdir", ![p].mode = "upgrade"]
  /\ UNCHANGED quiet

\* create_work_dir, and in a first installation the setup command.
CreateWorkDir(p) ==
  /\ At(p, "workdir") /\ ~host.full
  /\ sh' = [sh EXCEPT ![p].workdir = TRUE,
                      ![p].pc = IF sh[p].mode = "fresh" THEN "setup" ELSE "save bin"]
  /\ IF sh[p].mode = "fresh" THEN StartSetup(p, p) ELSE UNCHANGED wizard
  /\ UNCHANGED <<file, systemd, updater, env>>

\* Under `if !` the shell goes on without a directory, and the candidate is
\* /config.yaml; in an upgrade set -e ends it.
NoWorkDir(p) ==
  /\ At(p, "workdir") /\ (host.full \/ faults < host.faults)
  /\ faults' = IF host.full THEN faults ELSE faults + 1
  /\ IF sh[p].mode = "fresh"
     THEN Goto(p, "setup") /\ StartSetup(p, Root)
     ELSE Exit(p, "failed") /\ UNCHANGED wizard
  /\ UNCHANGED <<file, systemd, updater, host, kills>>

SetupFailed(p) == setup[p].code \in {"failed", "unguarded"}

\* Deviation: only the exit status of setup is asked for.
SetupStatusOnly(p) ==
  /\ At(p, "setup") /\ setup[p].ask = "none"
  /\ IF SetupFailed(p) THEN Exit(p, "failed") ELSE Goto(p, "bin")
  /\ UNCHANGED quiet

\* The shell waits for setup: its exit status, then the candidate.
SetupDone(p) ==
  /\ At(p, "setup") /\ setup[p].ask = "none"
  /\ CASE SetupFailed(p)                              -> Exit(p, "failed")
       [] ~SetupFailed(p) /\ cand[setup[p].path] = None -> Exit(p, "cancelled")
       [] OTHER                                       -> Goto(p, "bin")
  /\ UNCHANGED quiet

-----------------------------------------------------------------------------
\* backup_upgrade_assets.
Save(p) ==
  /\ \/ At(p, "save bin") /\ sh' = [sh EXCEPT ![p].pc = "save unit", ![p].backup.bin = file["bin"]]
     \/ At(p, "save unit") /\ sh' = [sh EXCEPT ![p].pc = "was active", ![p].backup.unit = file["unit"]]
     \/ At(p, "was active") /\ sh' = [sh EXCEPT ![p].pc = "was enabled", ![p].backup.active = IsActive]
     \/ At(p, "was enabled") /\ sh' = [sh EXCEPT ![p].pc = "bin", ![p].backup.enabled = enabled]
  /\ UNCHANGED quiet

\* Deviations: CURRENT_STAGED is not set; the executable is written in place.
StageUnmarked(p, place, next, content) ==
  /\ At(p, place)
  /\ sh' = [sh EXCEPT ![p].pc = next, ![p].staged = content]
  /\ UNCHANGED quiet

StageInPlace(p, place, next, content) ==
  /\ At(p, place)
  /\ sh' = [sh EXCEPT ![p].pc = next, ![p].staged = content]
  /\ file' = [file EXCEPT !["bin"] = IF place = "bin" THEN Partial ELSE @]
  /\ UNCHANGED <<systemd, updater, env, wizard>>

\* The first half of stage_file: CURRENT_STAGED, rm, install.
Stage(p, place, next, content) ==
  /\ At(p, place)
  /\ sh' = [sh EXCEPT ![p].pc = next, ![p].current = TRUE, ![p].staged = content]
  /\ UNCHANGED quiet

\* The shell of p, at its next place, without its staged file.
Unstaged(p, place) == [sh[p] EXCEPT !.pc = place, !.current = FALSE, !.staged = None]

\* The second half: mv.
Move(p, f, place, next) ==
  /\ At(p, place)
  /\ file' = [file EXCEPT ![f] = sh[p].staged]
  /\ sh' = [sh EXCEPT ![p] = Unstaged(p, next)]
  /\ UNCHANGED <<systemd, updater, env, wizard>>

StageReleaseAssets(p) ==
  \/ Stage(p, "bin", "mv bin", p) \/ Move(p, "bin", "mv bin", "unit")
  \/ Stage(p, "unit", "mv unit", p)
  \/ Move(p, "unit", "mv unit", IF sh[p].mode = "fresh" THEN "check" ELSE "chmod")

-----------------------------------------------------------------------------
Refuse(p) == sh' = [sh EXCEPT ![p] = [Unstaged(p, "cleanup") EXCEPT !.result = "lost"]]

\* Deviation: a rename.
LinkOver(p) ==
  /\ At(p, "link")
  /\ Goto(p, "unlink") /\ file' = [file EXCEPT !["config"] = sh[p].staged]
  /\ UNCHANGED <<systemd, updater, env, wizard>>

\* ln, which never replaces.
Link(p) ==
  /\ At(p, "link")
  /\ IF file["config"] = None
     THEN Goto(p, "unlink") /\ file' = [file EXCEPT !["config"] = sh[p].staged]
     ELSE Refuse(p) /\ UNCHANGED file
  /\ UNCHANGED <<systemd, updater, env, wizard>>

\* The two tests before it.
Check(p, place, next) ==
  /\ At(p, place)
  /\ IF file["config"] = None THEN Goto(p, next) ELSE Refuse(p)
  /\ UNCHANGED quiet

CommitFirstConfiguration(p) ==
  \/ Check(p, "check", "stage config")
  \/ Stage(p, "stage config", "recheck", cand[setup[p].path])
  \/ Check(p, "recheck", "link") \/ Link(p)
  \/ At(p, "unlink") /\ sh' = [sh EXCEPT ![p] = Unstaged(p, "reload")] /\ UNCHANGED quiet

-----------------------------------------------------------------------------
\* A first installation ends in an error, an upgrade is rolled back.
NotActivated(p) ==
  sh' = [sh EXCEPT ![p].result = "failed",
                   ![p].pc = IF sh[p].mode = "fresh" THEN "cleanup" ELSE "restore bin"]

\* chmod 600 of the configuration, whose mode is left out.
Protect(p) == At(p, "chmod") /\ Goto(p, "reload") /\ UNCHANGED quiet

Reload(p, place, next) ==
  /\ At(p, place) /\ Goto(p, next)
  /\ loaded' = file["unit"]
  /\ UNCHANGED <<file, enabled, running, updater, env, wizard>>

Enable(p) ==
  /\ At(p, "enable")
  /\ IF loaded # None
     THEN Goto(p, "restart") /\ enabled' = TRUE
     ELSE NotActivated(p) /\ UNCHANGED enabled
  /\ UNCHANGED <<file, loaded, running, updater, env, wizard>>

\* What a start makes of the service; without a configuration the unit's path
\* condition fails and nothing is started.
Launched ==
  CASE file["config"] = None                       -> None
    [] file["config"] # None /\ file["bin"] = None -> Failing
    [] OTHER                                       -> file["bin"]

\* Deviation: a running service is left alone by an upgrade as well.
StartOnly(p) ==
  /\ At(p, "restart") /\ Goto(p, "verify")
  /\ running' = IF running # None THEN running ELSE Launched
  /\ UNCHANGED <<file, loaded, enabled, updater, env, wizard>>

\* restart, or in a first installation the start of enable --now.
Restart(p) ==
  /\ At(p, "restart") /\ Goto(p, "verify")
  /\ running' = IF sh[p].mode = "fresh" /\ running # None THEN running ELSE Launched
  /\ UNCHANGED <<file, loaded, enabled, updater, env, wizard>>

Verify(p) ==
  /\ At(p, "verify")
  /\ IF enabled /\ IsActive THEN Exit(p, "ok") ELSE NotActivated(p)
  /\ UNCHANGED quiet

Activate(p) == Protect(p) \/ Reload(p, "reload", "enable") \/ Enable(p) \/ Restart(p) \/ Verify(p)

-----------------------------------------------------------------------------
\* rollback_upgrade: a file that was not there is removed, the other one put back.
PutBack(p, f, place, between, next) ==
  \/ /\ sh[p].backup[f] = None
     /\ At(p, place) /\ Goto(p, next)
     /\ file' = [file EXCEPT ![f] = None]
     /\ UNCHANGED <<systemd, updater, env, wizard>>
  \/ sh[p].backup[f] # None /\ Stage(p, place, between, sh[p].backup[f])
  \/ Move(p, f, between, next)

\* disable may refuse to remove the symlink of a unit that is no longer there.
EnableBack(p) ==
  /\ At(p, "enable back") /\ Goto(p, "restart back")
  /\ enabled' \in IF sh[p].backup.enabled THEN {TRUE}
                  ELSE {FALSE} \cup {e \in {enabled} : file["unit"] = None}
  /\ UNCHANGED <<file, loaded, running, updater, env, wizard>>

\* Deviation: the service is left as it is.
LeaveService(p) == At(p, "restart back") /\ Exit(p, "rolled back") /\ UNCHANGED quiet

RestartBack(p) ==
  /\ At(p, "restart back") /\ Exit(p, "rolled back")
  /\ running' = IF sh[p].backup.active THEN Launched ELSE None
  /\ UNCHANGED <<file, loaded, enabled, updater, env, wizard>>

RollbackUpgrade(p) ==
  \/ PutBack(p, "bin", "restore bin", "mv old bin", "restore unit")
  \/ PutBack(p, "unit", "restore unit", "mv old unit", "reload back")
  \/ Reload(p, "reload back", "enable back") \/ EnableBack(p) \/ RestartBack(p)

-----------------------------------------------------------------------------
Stages     == {"bin", "unit", "stage config", "restore bin", "restore unit"}
Others     == {"save bin", "save unit", "mv bin", "mv unit", "chmod", "link", "mv old bin", "mv old unit"}
Activation == {"reload", "enable", "restart", "verify"}
Optional   == {"reload back", "enable back", "restart back"}

\* A command fails. set -e ends the script, and a staged file may be incomplete; the
\* activation of an upgrade is rolled back; in the rollback systemctl may fail. A
\* restart that fails has perhaps stopped the service.
Fails(p) ==
  /\ ~sh[p].pending /\ faults < host.faults
  /\ faults' = faults + 1
  /\ \/ /\ sh[p].pc \in Stages
        /\ sh' = [sh EXCEPT ![p].pc = "cleanup", ![p].result = "failed",
                            ![p].current = TRUE, ![p].staged = Partial]
     \/ sh[p].pc \in Others /\ Exit(p, "failed")
     \/ sh[p].pc \in Activation /\ NotActivated(p)
     \/ sh[p].pc = "reload back" /\ Goto(p, "enable back")
     \/ sh[p].pc = "enable back" /\ Goto(p, "restart back")
     \/ sh[p].pc = "restart back" /\ Exit(p, "rolled back")
  /\ running' \in IF sh[p].pc \in {"restart", "restart back"} THEN {running, None} ELSE {running}
  /\ UNCHANGED <<file, loaded, enabled, updater, host, kills, wizard>>

Ended(p) == sh[p].pc \in {"done", "killed"}

\* Ctrl-C or a lost terminal: the script and its setup process.
Interrupt(p) ==
  /\ sh[p].pc \notin {"start", "done", "killed", "trapped", "cleanup"} /\ ~sh[p].pending
  /\ sh' = [sh EXCEPT ![p].pending = TRUE]
  /\ IF setup[p].ask # "none" THEN SignalSetup(p) ELSE UNCHANGED wizard
  /\ UNCHANGED <<file, systemd, updater, env>>

\* on_signal, once the command has ended; a further signal now kills.
Trap(p) ==
  /\ sh[p].pending /\ setup[p].ask = "none" /\ ~Ended(p)
  /\ sh' = [sh EXCEPT ![p].pc = "trapped", ![p].pending = FALSE, ![p].result = "interrupted"]
  /\ UNCHANGED quiet

Cleanup(p) ==
  /\ sh[p].pc \in {"cleanup", "trapped"}
  /\ LET s == IF sh[p].current THEN Unstaged(p, "done") ELSE [sh[p] EXCEPT !.pc = "done"]
     IN sh' = [sh EXCEPT ![p] = [s EXCEPT !.workdir = FALSE, !.backup = NoBackup]]
  /\ cand' = [cand EXCEPT ![p] = IF sh[p].workdir THEN None ELSE @]
  /\ UNCHANGED <<setup, file, systemd, updater, env>>

\* SIGKILL; a setup process goes on.
Kill(p) ==
  /\ sh[p].pc # "start" /\ ~Ended(p) /\ kills < host.kills
  /\ kills' = kills + 1
  /\ Goto(p, "killed")
  /\ UNCHANGED <<file, systemd, updater, host, faults, wizard>>

-----------------------------------------------------------------------------
\* `zimaos-monitor update` meanwhile: its backup, the rename, the restart, the
\* check, and the rollback.
UpdTo(from, to) == upd = from /\ upd' = to

Update ==
  /\ \/ /\ host.update /\ file["bin"] # None /\ UpdTo("off", "rename")
        /\ undo' = file["bin"] /\ UNCHANGED <<file, running>>
     \/ /\ UpdTo("rename", "restart")
        /\ file' = [file EXCEPT !["bin"] = Updated] /\ UNCHANGED <<undo, running>>
     \/ /\ UpdTo("restart", "check") \/ UpdTo("restart previous", "done")
        /\ running' = Launched /\ UNCHANGED <<undo, file>>
     \/ UpdTo("check", IF IsActive THEN "done" ELSE "restore") /\ UNCHANGED <<undo, file, running>>
     \/ /\ UpdTo("restore", "restart previous")
        /\ file' = [file EXCEPT !["bin"] = undo] /\ UNCHANGED <<undo, running>>
  /\ UNCHANGED <<sh, loaded, enabled, env, wizard>>

\* A bad binary exits; Restart=on-failure starts what is installed then.
ServiceFails ==
  /\ running \in host.bad /\ running' = Failing
  /\ UNCHANGED <<sh, file, loaded, enabled, updater, env, wizard>>

ServiceAutoRestarts ==
  /\ running = Failing /\ running' = Launched
  /\ UNCHANGED <<sh, file, loaded, enabled, updater, env, wizard>>

Shell(p) ==
  \/ Start(p) \/ CreateWorkDir(p) \/ NoWorkDir(p) \/ SetupDone(p) \/ Save(p)
  \/ StageReleaseAssets(p) \/ CommitFirstConfiguration(p) \/ Activate(p) \/ RollbackUpgrade(p)
  \/ Trap(p) \/ Cleanup(p)

SetupRuns(p)    == Runs(p) /\ UNCHANGED <<sh, file, systemd, updater, env>>
SetupWatches(p) == Watch(p) /\ UNCHANGED <<sh, file, systemd, updater, env>>
SetupAsks(p)    == User(p) /\ UNCHANGED <<sh, file, systemd, updater, env>>

SetupFails(p) ==
  /\ NotCreated(p) \/ NotWritten(p)
  /\ faults < host.faults /\ faults' = faults + 1
  /\ UNCHANGED <<sh, file, systemd, updater, host, kills>>

Next ==
  \/ \E p \in Installer :
       \/ Shell(p) \/ Fails(p) \/ Interrupt(p) \/ Kill(p)
       \/ SetupRuns(p) \/ SetupWatches(p) \/ SetupAsks(p) \/ SetupFails(p)
  \/ Update \/ ServiceFails \/ ServiceAutoRestarts

Spec == Init /\ [][Next]_vars

\* A process that nobody kills goes on; a user need not answer.
FairSpec ==
  /\ Spec
  /\ \A p \in Installer : WF_vars(Shell(p)) /\ WF_vars(SetupRuns(p)) /\ WF_vars(SetupWatches(p))

-----------------------------------------------------------------------------
\* The candidates of two installers that have no work directory are one file.
Shared == \E p, q \in Installer : p # q /\ setup[p].path = Root /\ setup[q].path = Root

\* Every variable holds a value of its kind; in particular no installed file and no
\* backup is ever incomplete, except a configuration that another installer was
\* writing into the shared candidate when it was staged (install.sh:141, :157).
Commands ==
  {"start", "workdir", "setup", "was active", "was enabled", "check", "recheck", "unlink",
   "cleanup", "trapped", "done", "killed"} \cup Stages \cup Others \cup Activation \cup Optional

TypeOK ==
  /\ sh \in [Installer ->
       [pc : Commands, mode : {"none", "fresh", "upgrade"}, pending : BOOLEAN, current : BOOLEAN,
        staged : Content \cup {Partial}, workdir : BOOLEAN,
        backup : [bin : Content, unit : Content, active : BOOLEAN, enabled : BOOLEAN],
        result : {"none", "ok", "cancelled", "failed", "lost", "rolled back", "interrupted"}]]
  /\ file \in [File -> Content \cup {Partial}] /\ loaded \in Content /\ enabled \in BOOLEAN
  /\ Partial \notin {file["bin"], file["unit"]} /\ (file["config"] = Partial => Shared)
  /\ running \in Content \cup {Failing} /\ undo \in Content
  /\ cand \in [Installer \cup {Root} -> Content \cup {Partial}]

\* A configuration once in place is never replaced or removed by an installer,
\* although several of them may be past their tests for it (install.sh:151-165).
ConfigNeverReplaced == [][file["config"] # None => file'["config"] = file["config"]]_file

Unconfirmed ==
  /\ upd = "off"
  /\ \A p \in host.actors :
       sh[p].mode # "upgrade" /\ setup[p].code # "ok" /\ setup[p].path # Root

\* Nothing is installed without a confirmed setup: no configuration comes from an
\* answer that was not given, and a first installation that was declined, failed or
\* interrupted at its questions has changed no active file (README.md:293-294),
\* unless it had no work directory (install.sh:141) and took a file it had not made.
Consent ==
  /\ \A p \in Installer : file["config"] = p => setup[p].agreed
  /\ Unconfirmed => file = host.file /\ enabled = host.on

\* An installer that is alone and rolls its upgrade back puts back both files, and,
\* when nothing else went wrong than the activation, also the unit that systemd has
\* read, the symlink and the service that ran and stays up (install.sh:189-212).
RolledBack ==
  \A p \in host.actors :
    sh[p].result = "rolled back" /\ host.actors = {p} /\ upd = "off" =>
      /\ file = host.file
      /\ faults = (IF host.bad = {} THEN 1 ELSE 0) =>
           /\ loaded = host.file["unit"]
           /\ host.file["unit"] # None => enabled = host.on
           /\ host.file["bin"] \notin host.bad =>
                running = IF host.on THEN host.file["bin"] ELSE None

\* x was put in place by a first installation that then found a configuration and
\* ended without a reload or a restart (install.sh:152-166).
Lost(x) == x \in host.actors /\ sh[x].result = "lost"

\* Once every installer and the update have ended without a fault or a signal, the
\* service does not run anything but the installed binary, and systemd has read the
\* installed unit: whoever replaces a file restarts the service afterwards. The one
\* exception is a first installation that lost the race for the configuration: its
\* binary and its unit stay installed, and nobody has started them. (A service that
\* still runs though its configuration is gone is left alone by a first
\* installation, install.sh:229.)
Settled ==
  /\ faults = 0 /\ kills = 0 /\ upd \in {"off", "done"}
  /\ host.on => host.file["config"] # None
  /\ \A p \in host.actors : Ended(p) /\ sh[p].result # "interrupted"
  => /\ running \in {file["bin"], None, Failing} \/ Lost(file["bin"])
     /\ loaded = file["unit"] \/ Lost(file["unit"])

\* An installer that was not killed leaves no staged file, no backup, no work
\* directory and no candidate with the password behind, except the candidate of a
\* directory that could not be made (install.sh:42-62).
NoLeftovers ==
  \A p \in Installer :
    sh[p].pc = "done" => sh[p].staged = None /\ ~sh[p].workdir /\ cand[p] = None

\* An interrupt is not lost: at the password prompt it ends setup unless the line
\* was accepted first, and without setup it ends the installer; and an installer
\* that has its answers, or needs none, ends.
InstallerEnds ==
  \A p \in Installer :
    /\ setup[p].sigch ~> setup[p].ask = "none" \/ SecretRead(p)
    /\ (sh[p].pending /\ setup[p].ask = "none") \/ sh[p].mode = "upgrade" \/ setup[p].code # "none"
         ~> Ended(p)
=============================================================================
