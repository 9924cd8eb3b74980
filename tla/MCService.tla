----------------------------- MODULE MCService -----------------------------
(***************************************************************************)
(* Values for Service: two hosts with a checker each (the checkers share   *)
(* nothing but the main goroutine), one with a power meter and spelled-out *)
(* ids, one with an interval below zero and a machine id that is missing   *)
(* or broken; and, for the disk keys, a disk with a space in its name.     *)
(***************************************************************************)
EXTENDS Service

MCMachineId  == {"m1", "m2"}
MCExplicitId == {"nas", "nas/1", "zimaos-monitor"}
MCChecker    == {"upstream", "monitor"}
MCFeed       == [k \in MCChecker |-> <<1, 2>>]
MCDisk       == {"SSD", "My Disk", "My_Disk"}
MCUnderscored == [d \in MCDisk |-> IF d = "My Disk" THEN "My_Disk" ELSE d]

C(client, device, ds, ks, i, r) ==
  [client |-> client, device |-> device, disks |-> ds, checkers |-> ks, interval |-> i, rapl |-> r]

MCPolling == {C(Omitted, Omitted, {}, {k}, "positive", FALSE) : k \in MCChecker}
MCMetered == C("zimaos-monitor", "nas/1", {}, {}, "positive", TRUE)
MCHasty   == C(Omitted, "nas", {"SSD"}, {}, "negative", FALSE)

F(e, d) == [etc |-> e, dbus |-> d]
H(c, f) == [conf |-> c, files |-> f]

MCHosts ==
  {H(c, F("m1", "m2")) : c \in MCPolling}
    \cup {H(MCMetered, F(Unreadable, Unreadable))}
    \cup {H(MCHasty, f) : f \in {F(Unreadable, "m2"), F(Invalid, "m1"), F(Unreadable, Unreadable)}}

MCSpaced == {H(C(Omitted, Omitted, {"My Disk", "SSD"}, {}, "positive", FALSE), F("m1", "m1"))}
=============================================================================
