------------------------------ MODULE Release ------------------------------
(***************************************************************************)
(* Release metadata and the version order of internal/selfupdate.          *)
(* A version string is kept as what the code can tell of it: whether it    *)
(* matches stableVersionPattern ("stable"), is "dev" or matches            *)
(* developmentVersionPattern ("dev"), or neither ("other"), and its three  *)
(* numbers.                                                                *)
(***************************************************************************)
EXTENDS Naturals

CONSTANTS
  MaxUint64,   \* largest number strconv.ParseUint(_, 10, 64) accepts
  Binary,      \* contents of an archive or of an executable file
  Reports,     \* what each content prints for --version
  None         \* an absent file, asset or digest

Version == [kind : {"stable", "dev", "other"}, part : [1..3 -> Nat]]

\* githubRelease after the loop over its assets. A SHA-256 digest is
\* represented by the content it is the digest of.
Release ==
  [tag : Version, draft : BOOLEAN, prerelease : BOOLEAN,
   archive : Binary \cup {None},    \* AssetURL, "" when no asset has the name
   digest  : Binary \cup {None},    \* SHA256
   sumfile : Binary \cup {None}]    \* what ChecksumURL holds

ASSUME ReleaseAssumption ==
  /\ MaxUint64 \in Nat
  /\ Reports \in [Binary -> Version]
  /\ None \notin Binary

-----------------------------------------------------------------------------
\* parseVersion: the pattern matches and every number fits a uint64.
Parses(v) == v.kind = "stable" /\ \A i \in 1..3 : v.part[i] <= MaxUint64

\* The first component that differs decides.
Precedes(a, b) ==
  \E i \in 1..3 : a[i] < b[i] /\ \A j \in 1..3 : j < i => a[j] = b[j]

\* Deviation: any larger component makes the version newer.
IsNewerAnyPart(current, latest) ==
  /\ Parses(latest)
  /\ \/ Parses(current) /\ \E i \in 1..3 : current.part[i] < latest.part[i]
     \/ current.kind = "dev"

IsNewer(current, latest) ==
  /\ Parses(latest)
  /\ \/ Parses(current) /\ Precedes(current.part, latest.part)
     \/ current.kind = "dev"

\* FetchLatest accepts what the endpoint served.
IsStable(r) == ~r.draft /\ ~r.prerelease /\ r.tag.kind = "stable"

\* The checks of Apply on the metadata, before anything is downloaded.
Eligible(current, r) ==
  /\ IsStable(r)
  /\ IsNewer(current, r.tag)
  /\ r.archive # None
  /\ r.digest # None \/ r.sumfile # None

\* The asset's own digest wins over the checksum file.
Expected(r) == IF r.digest # None THEN r.digest ELSE r.sumfile

\* b has the published digest and says it is the published version.
Genuine(b, r) == b = Expected(r) /\ Reports[b] = r.tag

-----------------------------------------------------------------------------
\* v is no older than w; every release is newer than a development build.
NotOlder(w, v) ==
  v = w \/ w.kind = "dev" \/ Precedes(w.part, v.part)
=============================================================================
