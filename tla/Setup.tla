------------------------------- MODULE Setup -------------------------------
(***************************************************************************)
(* `zimaos-monitor setup`, one process per installer, on a terminal of its *)
(* own: the questions, the echo flag and the signal goroutine of           *)
(* ReadSecret, and the candidate file that WriteExclusive creates.  The    *)
(* wording of the answers is left out; an answer is valid, missing, or no. *)
(***************************************************************************)
EXTENDS Naturals

CONSTANTS
  Installer,  \* installers
  Root,       \* the place of a candidate file without a work directory, "/config.yaml"
  None, Partial

ASSUME SetupAssumption == Root \notin Installer /\ None \notin Installer /\ Partial \notin Installer

VARIABLES
  setup,  \* the setup process of each installer
  cand    \* candidate files: None, Partial, or the installer that has agreed to it

wizard == <<setup, cand>>

\* ask is the place in Run ("none" without a process), code how the process ended,
\* agreed is answers.Confirmed, echo the terminal's ECHO flag, caught says whether
\* signal.Notify is in force, sigch is sigCh, watcher the goroutine of ReadSecret
\* and path the directory of --output.
SetupInit(stray) ==
  /\ setup = [p \in Installer |->
       [ask |-> "none", code |-> "none", agreed |-> FALSE, echo |-> TRUE, caught |-> FALSE,
        sigch |-> FALSE, watcher |-> "none", path |-> p]]
  /\ cand = [d \in Installer \cup {Root} |-> IF d = Root THEN stray ELSE None]

Ask(p, from, to) == setup[p].ask = from /\ setup' = [setup EXCEPT ![p].ask = to]

\* runSetup with a place for the candidate.
StartSetup(p, where) ==
  setup' = [setup EXCEPT ![p].ask = "terminal", ![p].path = where] /\ UNCHANGED cand

\* The process ends and with it its goroutine.
SetupEnds(p, how) ==
  setup' = [setup EXCEPT ![p].ask = "none", ![p].code = how, ![p].caught = FALSE,
                         ![p].sigch = FALSE, ![p].watcher = "none"]

\* Not a terminal, a terminal that cannot be set, or an error of reading or writing.
Unanswered(p) ==
  /\ setup[p].ask \in {"terminal", "host", "port", "user", "secret", "lonely", "confirm"}
  /\ SetupEnds(p, "failed") /\ UNCHANGED cand

\* inputError: the end of the input at a prompt is ErrCancelled, so exit status 0.
InputEnds(p) ==
  /\ setup[p].ask \in {"host", "port", "user", "lonely", "confirm"}
  /\ SetupEnds(p, "cancelled") /\ UNCHANGED cand

\* A no, which is ErrCancelled as well.
Declined(p) ==
  /\ setup[p].ask \in {"lonely", "confirm"}
  /\ SetupEnds(p, "cancelled") /\ UNCHANGED cand

\* A valid answer; an invalid one is asked for again.
Answered(p) ==
  /\ \/ Ask(p, "terminal", "host") \/ Ask(p, "host", "port") \/ Ask(p, "port", "user")
     \/ Ask(p, "user", "secret") \/ Ask(p, "lonely", "confirm")
  /\ UNCHANGED cand

Confirmed(p) ==
  /\ setup[p].ask = "confirm"
  /\ setup' = [setup EXCEPT ![p].ask = "open", ![p].agreed = TRUE]
  /\ UNCHANGED cand

-----------------------------------------------------------------------------
\* ReadSecret: the echo is switched off,
EchoOff(p) ==
  /\ setup[p].ask = "secret"
  /\ setup' = [setup EXCEPT ![p].ask = "unguarded", ![p].echo = FALSE]
  /\ UNCHANGED cand

\* signals are caught and the goroutine waits for one,
Guard(p) ==
  /\ setup[p].ask = "unguarded"
  /\ setup' = [setup EXCEPT ![p].ask = "reading", ![p].caught = TRUE, ![p].watcher = "waiting"]
  /\ UNCHANGED cand

\* the line, the end of the input or an error comes: close(done),
Entered(p) == Ask(p, "reading", "entered") /\ UNCHANGED cand

\* restore,
RestoreEcho(p) ==
  /\ setup[p].ask = "entered"
  /\ setup' = [setup EXCEPT ![p].ask = "restored", ![p].echo = TRUE]
  /\ UNCHANGED cand

\* and the deferred signal.Stop; then the error, the end of the input, the question
\* for a password without a user name, or the summary.
Unguard(p) ==
  /\ setup[p].ask = "restored"
  /\ \E next \in {"unread", "ended", "lonely", "confirm"} :
       setup' = [setup EXCEPT ![p].ask = next, ![p].caught = FALSE]
  /\ UNCHANGED cand

\* If the prompt cannot be printed, close(done) and return: the deferred calls are
\* signal.Stop first,
Unprompted(p) == Ask(p, "reading", "unprompted") /\ UNCHANGED cand

StopFirst(p) ==
  /\ setup[p].ask = "unprompted"
  /\ setup' = [setup EXCEPT ![p].ask = "exposed", ![p].caught = FALSE]
  /\ UNCHANGED cand

\* and restore last.
RestoreLast(p) ==
  /\ setup[p].ask = "exposed"
  /\ setup' = [setup EXCEPT ![p].ask = "unread", ![p].echo = TRUE]
  /\ UNCHANGED cand

\* Run returns the error, or ErrCancelled at the end of the input.
Unread(p) ==
  /\ \/ setup[p].ask = "unread" /\ SetupEnds(p, "failed")
     \/ setup[p].ask = "ended" /\ SetupEnds(p, "cancelled")
  /\ UNCHANGED cand

\* done is closed.
SecretRead(p) ==
  setup[p].ask \in {"entered", "restored", "unprompted", "exposed", "unread", "ended",
                    "lonely", "confirm", "open", "write"}

\* The goroutine: a signal or done, either when both are there.
WatchSignal(p) ==
  /\ setup[p].watcher = "waiting" /\ setup[p].sigch
  /\ setup' = [setup EXCEPT ![p].watcher = "restore", ![p].sigch = FALSE]
  /\ UNCHANGED cand

WatchDone(p) ==
  /\ setup[p].watcher = "waiting" /\ SecretRead(p)
  /\ setup' = [setup EXCEPT ![p].watcher = "none"]
  /\ UNCHANGED cand

\* Deviation: the echo is left to the main goroutine.
WatchNothing(p) ==
  /\ setup[p].watcher = "restore"
  /\ setup' = [setup EXCEPT ![p].watcher = "kill"]
  /\ UNCHANGED cand

WatchRestore(p) ==
  /\ setup[p].watcher = "restore"
  /\ setup' = [setup EXCEPT ![p].watcher = "kill", ![p].echo = TRUE]
  /\ UNCHANGED cand

\* Deviation: the signal is not passed on.
WatchSwallows(p) ==
  /\ setup[p].watcher = "kill"
  /\ setup' = [setup EXCEPT ![p].watcher = "none"]
  /\ UNCHANGED cand

\* signal.Stop, and the signal kills the process after all.
WatchKill(p) == setup[p].watcher = "kill" /\ SetupEnds(p, "failed") /\ UNCHANGED cand

-----------------------------------------------------------------------------
\* WriteExclusive: O_EXCL, then the contents.
Create(p) ==
  /\ cand[setup[p].path] = None
  /\ Ask(p, "open", "write")
  /\ cand' = [cand EXCEPT ![setup[p].path] = Partial]

Write(p) ==
  /\ setup[p].ask = "write" /\ SetupEnds(p, "ok")
  /\ cand' = [cand EXCEPT ![setup[p].path] = p]

\* The file cannot be created, or cannot be written and is removed.
NotCreated(p) == setup[p].ask = "open" /\ SetupEnds(p, "failed") /\ UNCHANGED cand

NotWritten(p) ==
  /\ setup[p].ask = "write" /\ SetupEnds(p, "failed")
  /\ cand' = [cand EXCEPT ![setup[p].path] = None]

Exists(p) == cand[setup[p].path] # None /\ NotCreated(p)

\* Where the echo is off and signals are not caught.
Gap == {"unguarded", "exposed"}

\* SIGINT, SIGTERM or SIGHUP reaches the process.
SignalSetup(p) ==
  /\ IF setup[p].caught
     THEN setup' = [setup EXCEPT ![p].sigch = TRUE]
     ELSE SetupEnds(p, IF setup[p].ask \in Gap THEN "unguarded" ELSE "failed")
  /\ UNCHANGED cand

\* What the process does by itself, its goroutine, and what the user does.
Runs(p)  == EchoOff(p) \/ Guard(p) \/ RestoreEcho(p) \/ Unguard(p) \/ StopFirst(p)
              \/ RestoreLast(p) \/ Unread(p) \/ Create(p) \/ Write(p) \/ Exists(p)
Watch(p) == WatchSignal(p) \/ WatchRestore(p) \/ WatchKill(p) \/ WatchDone(p)
User(p)  == Unanswered(p) \/ InputEnds(p) \/ Declined(p) \/ Answered(p) \/ Confirmed(p)
              \/ Entered(p) \/ Unprompted(p)

-----------------------------------------------------------------------------
\* The password is read without echo, and once it has been read or setup has ended
\* the terminal echoes again, unless a signal came in one of two gaps: between the
\* calls that switch the echo off and catch signals (setup.go:357, :370), or, when
\* the prompt could not be printed, between the deferred signal.Stop and the deferred
\* restore (:371, :366).
EchoKept ==
  \A p \in Installer :
    /\ setup[p].ask = "reading" /\ setup[p].watcher = "waiting" => ~setup[p].echo
    /\ ~setup[p].echo =>
         setup[p].ask \in Gap \cup {"reading", "entered", "unprompted"} \/ setup[p].code = "unguarded"
=============================================================================
