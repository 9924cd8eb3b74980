---------------------------- MODULE MCSelfUpdate ----------------------------
(***************************************************************************)
(* Values for SelfUpdate.  The installed binary is newer than the first    *)
(* release, two good releases follow, one of them without an asset digest, *)
(* and one whose archive holds a binary of another version.                *)
(***************************************************************************)
EXTENDS SelfUpdate

CONSTANTS p1, p2

V(k, a, b, c) == [kind |-> k, part |-> <<a, b, c>>]

MCBinary == {"b115", "b120", "b130", "b200", "damaged"}

MCReports ==
  [b \in MCBinary |->
     CASE b = "b115" -> V("stable", 1, 1, 5)
       [] b = "b120" -> V("stable", 1, 2, 0)
       [] b = "b130" -> V("stable", 1, 3, 0)
       [] b = "b200" -> V("stable", 2, 0, 0)
       [] OTHER      -> V("stable", 1, 3, 0)]

R(v, a, d, s) == [tag |-> v, draft |-> FALSE, prerelease |-> FALSE,
                  archive |-> a, digest |-> d, sumfile |-> s]

MCReleases ==
  << R(V("stable", 1, 1, 5), "b115", "b115", None),
     R(V("stable", 1, 3, 0), "b130", None, "b130"),
     R(V("stable", 1, 4, 0), "b130", "b130", "b130"),
     R(V("stable", 2, 0, 0), "b200", "b200", "b200") >>

\* The two good releases only, and a host that runs the first of them.
MCShortReleases ==
  << R(V("stable", 1, 3, 0), "b130", "b130", "b130"),
     R(V("stable", 2, 0, 0), "b200", "b200", "b200") >>

\* A development build, whose version the endpoint never serves.
MCDevReports == [MCReports EXCEPT !["b120"] = V("dev", 0, 0, 0)]
=============================================================================
