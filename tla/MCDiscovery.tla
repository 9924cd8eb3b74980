---------------------------- MODULE MCDiscovery ----------------------------
(***************************************************************************)
(* Values for Discovery: host h1 may change its disk, its monitor updates  *)
(* and its device id, host h2 keeps one configuration.                     *)
(***************************************************************************)
EXTENDS Discovery, TLC

CONSTANTS h1, h2

MCDevice == {"a", "a2", "b"}
MCOrder  == <<"cpu", "disk1", "disk2", "zimaos_version", "zimaos_monitor">>

C(id, disk, u, m) == [id |-> id, disks |-> {disk}, updates |-> u, monitor |-> m]

C1 == {C("a", "disk1", TRUE, TRUE), C("a", "disk2", TRUE, FALSE)}
C2 == {C("b", "disk1", TRUE, FALSE)}

MCTwoConfigs == h1 :> C1 @@ h2 :> C2
MCOneConfigs == h1 :> {C("a", "disk1", TRUE, TRUE), C("a2", "disk2", TRUE, FALSE)}
MCMovedConfigs == h1 :> {C("a", "disk1", TRUE, TRUE), C("a2", "disk1", FALSE, TRUE)}

MCTopic   == [node : MCDevice, object : {MCOrder[i] : i \in 1..5}]
T(d, o)   == [node |-> d, object |-> o]
M(org, d) == [origin |-> org, ids |-> {d}]
MCEmpty   == [t \in MCTopic |-> None]

\* Below device a: a stale record of its own, one of a foreign publisher for the
\* same device, one of this program for another device.
MCLegacy ==
  [t \in MCTopic |->
     CASE t = T("a", "disk2") -> M(TRUE, "a")
       [] t = T("a", "disk1") -> M(FALSE, "a")
       [] t = T("a", "zimaos_monitor") -> M(TRUE, "b")
       [] t = T("b", "disk2") -> M(TRUE, "b")
       [] OTHER -> None]
MCInitial      == {MCLegacy}
MCEmptyInitial == {MCEmpty}
=============================================================================
