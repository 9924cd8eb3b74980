---------------------------- MODULE AtomicUpdate ----------------------------
(***************************************************************************)
(* What `zimaos-monitor update` promises about the installed executable:   *)
(* at most one update is on trial at a time, the binary it replaced is     *)
(* kept until the trial ends, and a trial ends with the new binary kept or *)
(* with exactly the replaced binary back in place.                         *)
(***************************************************************************)
CONSTANTS
  Proc,        \* update processes
  NoProc,      \* not a process
  Binary,      \* contents of an executable
  Installed,   \* the binary found at the start
  None         \* no binary

VARIABLES
  exe,     \* content of the installed executable
  undo,    \* the binary a trial would go back to, None when there is no trial
  owner    \* the process whose update is on trial

avars == <<exe, undo, owner>>

AInit == exe = Installed /\ undo = None /\ owner = NoProc

Begin(p) ==
  /\ owner = NoProc
  /\ owner' = p
  /\ undo' = exe
  /\ exe' \in Binary

\* The new binary stays: it passed its check, or nobody is left to undo it.
Keep ==
  /\ owner # NoProc
  /\ owner' = NoProc
  /\ undo' = None
  /\ exe' = exe

Revert ==
  /\ owner # NoProc
  /\ owner' = NoProc
  /\ undo' = None
  /\ exe' = undo

ANext == (\E p \in Proc : Begin(p)) \/ Keep \/ Revert

ASpec == AInit /\ [][ANext]_avars
=============================================================================
