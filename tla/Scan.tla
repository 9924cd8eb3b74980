-------------------------------- MODULE Scan --------------------------------
(***************************************************************************)
(* What the start-up cleanup relies on when it asks the broker for its     *)
(* retained records: the scan returns some of the records that the broker  *)
(* held when it accepted the subscription, never anything else, and what   *)
(* it has returned does not change any more.                               *)
(***************************************************************************)
CONSTANT Message   \* <<topic, payload>>

VARIABLES
  phase,    \* "closed", "open", "returned" or "failed"
  queued,   \* records on their way to the scan
  found     \* records the scan has, or has returned

svars == <<phase, queued, found>>

SInit == phase = "closed" /\ queued = {} /\ found = {}

\* The broker queues what it retains below the filter.
Open ==
  /\ phase = "closed" /\ phase' = "open"
  /\ queued' \in SUBSET Message
  /\ UNCHANGED found

Deliver ==
  /\ phase = "open"
  /\ \E m \in queued : queued' = queued \ {m} /\ found' = found \cup {m}
  /\ UNCHANGED phase

\* The connection takes queued records with it.
Lose ==
  /\ phase = "open"
  /\ queued' \in SUBSET queued
  /\ UNCHANGED <<phase, found>>

Finish ==
  /\ phase = "open" /\ phase' = "returned"
  /\ queued' = {}
  /\ UNCHANGED found

Fail ==
  /\ phase \in {"closed", "open"} /\ phase' = "failed"
  /\ queued' = {} /\ found' = {}

SNext == Open \/ Deliver \/ Lose \/ Finish \/ Fail

SSpec == SInit /\ [][SNext]_svars
=============================================================================
