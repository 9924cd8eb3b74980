------------------------------ MODULE Identity ------------------------------
(***************************************************************************)
(* config.LoadWithIdentitySource: the MQTT client id and the device id of  *)
(* an installation, and which of them need a warning.  A derived id stands *)
(* for the hash of its namespace and the machine id; the hashes of         *)
(* different inputs are taken to be different.                             *)
(***************************************************************************)
EXTENDS Sequences

CONSTANTS
  MachineId,     \* valid machine ids, in canonical form
  ExplicitId,    \* ids that a configuration may spell out
  UnsafeId,      \* those with '/', '+', '#' or NUL
  SharedId,      \* "zimaos-monitor", the client id of old releases
  Unreadable,    \* a machine-id file that cannot be read
  Invalid,       \* one with anything else in it: wrong length, not hexadecimal, all zero
  Omitted        \* the field is empty in the configuration

ASSUME IdentityAssumption ==
  /\ UnsafeId \subseteq ExplicitId /\ SharedId \in ExplicitId
  /\ Unreadable \notin MachineId /\ Invalid \notin MachineId
  /\ Unreadable # Invalid /\ Omitted \notin ExplicitId

Content  == MachineId \cup {Unreadable, Invalid}
Files    == [etc : Content, dbus : Content]
Field    == ExplicitId \cup {Omitted}
NoId     == [kind |-> "none"]
Derived  == [kind : {"client", "device"}, machine : MachineId]
Explicit == [kind : {"explicit"}, name : ExplicitId]
Id       == Derived \cup Explicit

\* The first file that can be read decides, valid or not.
CanonicalMachineID(f) == IF f.etc # Unreadable THEN f.etc ELSE f.dbus

\* Deviation: what was read is not validated.
Readable(f) == CanonicalMachineID(f) # Unreadable

Resolvable(f) == CanonicalMachineID(f) \in MachineId

Automatic(kind, f) == [kind |-> kind, machine |-> CanonicalMachineID(f)]

\* Load fails only if an id is left to the machine and the machine has none.
Loads(clientField, deviceField, f) ==
  (clientField # Omitted /\ deviceField # Omitted) \/ Resolvable(f)

Effective(kind, field, f) ==
  IF field = Omitted THEN Automatic(kind, f) ELSE [kind |-> "explicit", name |-> field]

\* discoveryTopicFilter: the id is one topic level.
SafeDeviceID(id) == id.kind = "explicit" => id.name \notin UnsafeId

Warnings(clientField, deviceField) ==
  (IF clientField = Omitted THEN {"client automatic"} ELSE {})
    \cup (IF deviceField = Omitted THEN {"device automatic"} ELSE {})
    \cup (IF clientField = SharedId THEN {"client shared"} ELSE {})
    \cup (IF deviceField \in UnsafeId THEN {"cleanup skipped"} ELSE {})
=============================================================================
