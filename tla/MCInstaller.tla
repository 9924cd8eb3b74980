---------------------------- MODULE MCInstaller ----------------------------
(***************************************************************************)
(* Hosts for Installer: two first installations that race, with work       *)
(* directories or without, an upgrade with faults and kills, one to a      *)
(* release that does not start, one whose files are gone, one next to an   *)
(* update, and one beside a stray candidate.                               *)
(***************************************************************************)
EXTENDS Installer

H(actors, update, bad, present, conf, on, f, k) ==
  [actors |-> actors, update |-> update, bad |-> bad, on |-> on, full |-> FALSE, stray |-> None,
   faults |-> f, kills |-> k, file |-> [x \in File |-> IF x = "config" THEN conf ELSE present]]

MCHosts == {
  H({"i", "j"}, FALSE, {}, None, None, FALSE, 0, 0),
  [H({"i", "j"}, FALSE, {}, None, None, FALSE, 0, 0) EXCEPT !.full = TRUE],
  H({"i", "j"}, FALSE, {"i"}, Old, Existing, TRUE, 0, 0),
  H({"i"}, FALSE, {}, None, None, FALSE, 2, 1),
  [H({"i"}, FALSE, {}, None, None, FALSE, 1, 0) EXCEPT !.stray = Existing],
  H({"i"}, FALSE, {}, Old, Odd, TRUE, 0, 0),
  H({"i"}, FALSE, {}, Old, Existing, TRUE, 2, 1),
  H({"i"}, FALSE, {"i"}, Old, Existing, TRUE, 1, 0),
  H({"i"}, FALSE, {"i"}, Old, Existing, FALSE, 0, 0),
  H({"i"}, FALSE, {"i"}, None, Existing, FALSE, 0, 0),
  H({"i"}, TRUE, {}, Old, Existing, TRUE, 0, 1),
  H({"i"}, TRUE, {Updated}, Old, Existing, TRUE, 0, 0),
  H({"i"}, TRUE, {"i"}, Old, Existing, TRUE, 0, 0)}
=============================================================================
