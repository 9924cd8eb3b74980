--------------------------- MODULE ReleaseProofs ---------------------------
(***************************************************************************)
(* The order IsNewer defines, for versions of any size.                    *)
(***************************************************************************)
EXTENDS Release, TLAPS

\* A version never precedes itself.
LEMMA PrecedesIrreflexive ==
  ASSUME NEW a \in [1..3 -> Nat] PROVE ~Precedes(a, a)
BY DEF Precedes

\* Precedence of versions is transitive.
LEMMA PrecedesTransitive ==
  ASSUME NEW a \in [1..3 -> Nat], NEW b \in [1..3 -> Nat],
         NEW c \in [1..3 -> Nat], Precedes(a, b), Precedes(b, c)
  PROVE  Precedes(a, c)
<1>1. PICK i \in 1..3 : a[i] < b[i] /\ \A j \in 1..3 : j < i => a[j] = b[j]
  BY DEF Precedes
<1>2. PICK k \in 1..3 : b[k] < c[k] /\ \A j \in 1..3 : j < k => b[j] = c[j]
  BY DEF Precedes
<1>3. CASE i <= k
  <2>1. a[i] < c[i] BY <1>1, <1>2, <1>3
  <2>2. \A j \in 1..3 : j < i => a[j] = c[j] BY <1>1, <1>2, <1>3
  <2> QED BY <2>1, <2>2 DEF Precedes
<1>4. CASE k < i
  <2>1. a[k] < c[k] BY <1>1, <1>2, <1>4
  <2>2. \A j \in 1..3 : j < k => a[j] = c[j] BY <1>1, <1>2, <1>4
  <2> QED BY <2>1, <2>2 DEF Precedes
<1> QED BY <1>3, <1>4

\* Of two different versions one precedes the other.
LEMMA PrecedesTotal ==
  ASSUME NEW a \in [1..3 -> Nat], NEW b \in [1..3 -> Nat], a # b
  PROVE  Precedes(a, b) \/ Precedes(b, a)
<1>1. \/ a[1] # b[1]
      \/ a[1] = b[1] /\ a[2] # b[2]
      \/ a[1] = b[1] /\ a[2] = b[2] /\ a[3] # b[3]
  OBVIOUS
<1>2. CASE a[1] # b[1]
  BY <1>2 DEF Precedes
<1>3. CASE a[1] = b[1] /\ a[2] # b[2]
  BY <1>3 DEF Precedes
<1>4. CASE a[1] = b[1] /\ a[2] = b[2] /\ a[3] # b[3]
  BY <1>4 DEF Precedes
<1> QED BY <1>1, <1>2, <1>3, <1>4

\* An offered release is strictly newer than the version it is offered to, so
\* an update that succeeded is not offered again (release.go:147-162).
THEOREM IsNewerIrreflexive ==
  ASSUME NEW v \in Version PROVE ~IsNewer(v, v)
BY PrecedesIrreflexive DEF IsNewer, Parses, Version

\* Two releases never replace each other in turn.
THEOREM IsNewerAsymmetric ==
  ASSUME NEW v \in Version, NEW w \in Version, IsNewer(v, w)
  PROVE  ~IsNewer(w, v)
<1> SUFFICES ASSUME IsNewer(w, v) PROVE FALSE OBVIOUS
<1>1. v.part \in [1..3 -> Nat] /\ w.part \in [1..3 -> Nat] BY DEF Version
<1>2. Precedes(v.part, w.part) /\ Precedes(w.part, v.part)
  BY DEF IsNewer, Parses
<1> QED BY <1>1, <1>2, PrecedesTransitive, PrecedesIrreflexive

\* Two updates in a row move as one: the order is transitive, development
\* builds included.
THEOREM IsNewerTransitive ==
  ASSUME NEW u \in Version, NEW v \in Version, NEW w \in Version,
         IsNewer(u, v), IsNewer(v, w)
  PROVE  IsNewer(u, w)
<1>1. /\ u.part \in [1..3 -> Nat] /\ v.part \in [1..3 -> Nat]
      /\ w.part \in [1..3 -> Nat]
  BY DEF Version
<1>2. Precedes(v.part, w.part) /\ Parses(w) BY DEF IsNewer, Parses
<1>3. CASE Parses(u)
  <2>1. Precedes(u.part, v.part) BY <1>3 DEF IsNewer, Parses
  <2> QED BY <1>1, <1>2, <1>3, <2>1, PrecedesTransitive DEF IsNewer
<1>4. CASE ~Parses(u)
  BY <1>2, <1>4 DEF IsNewer
<1> QED BY <1>3, <1>4

\* Of two stable versions with different numbers one is newer.
THEOREM IsNewerTotal ==
  ASSUME NEW v \in Version, NEW w \in Version, Parses(v), Parses(w),
         v.part # w.part
  PROVE  IsNewer(v, w) \/ IsNewer(w, v)
BY PrecedesTotal DEF IsNewer, Version
=============================================================================
