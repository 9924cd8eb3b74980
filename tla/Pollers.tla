------------------------------ MODULE Pollers ------------------------------
(***************************************************************************)
(* The two background checkers, UpstreamChecker and selfupdate.Checker:    *)
(* each goroutine fetches the newest release, stores its version and its   *)
(* page behind an RWMutex, and waits for the next poll; the main goroutine *)
(* reads both words.  A word is the number of the release in the feed of   *)
(* the endpoint that it belongs to; 0 is "".                               *)
(***************************************************************************)
EXTENDS Naturals, Sequences

CONSTANTS
  Checker,    \* "upstream", "monitor"
  Feed        \* the versions that each endpoint comes to serve as its newest stable
              \* release, in this order; its length is a bound

ASSUME PollersAssumption == Feed \in [Checker -> Seq(Nat \ {0})]

\* No endpoint goes back to an older version: the checkers take the first stable
\* release of the answer without comparing it with the one they have.
ASSUME NewestFirst ==
  \A k \in Checker : \A i, j \in 1..Len(Feed[k]) : i < j => Feed[k][i] <= Feed[k][j]

VARIABLES
  served,  \* the release that each endpoint serves as its newest
  poll,    \* where the checker's goroutine is
  got,     \* the release it has decoded
  mu,      \* who holds the lock: "free", "writer", "reader"
  latest   \* the cached version and page

pollers == <<served, poll, got, mu, latest>>

Blank == [version |-> 0, page |-> 0]

\* The version of the release with this number.
Ordinal(k, n) == IF n = 0 THEN 0 ELSE Feed[k][n]

PollersInit ==
  /\ served = [k \in Checker |-> 0]
  /\ poll = [k \in Checker |-> "gone"]
  /\ got = [k \in Checker |-> 0]
  /\ mu = [k \in Checker |-> "free"]
  /\ latest = [k \in Checker |-> Blank]

PollAt(k, from, to) == poll[k] = from /\ poll' = [poll EXCEPT ![k] = to]

\* A new process; Start launches the goroutines of the enabled checkers, which
\* fetch at once.
StartPollers(enabled) ==
  /\ poll' = [k \in Checker |-> IF k \in enabled THEN "fetch" ELSE "gone"]
  /\ got' = [k \in Checker |-> 0]
  /\ mu' = [k \in Checker |-> "free"]
  /\ latest' = [k \in Checker |-> Blank]
  /\ UNCHANGED served

\* The process is gone.
StopPollers ==
  /\ poll' = [k \in Checker |-> "gone"]
  /\ got' = [k \in Checker |-> 0]
  /\ mu' = [k \in Checker |-> "free"]
  /\ latest' = [k \in Checker |-> Blank]
  /\ UNCHANGED served

\* The answer holds a stable release.
Fetch(k) ==
  /\ PollAt(k, "fetch", "lock")
  /\ served[k] > 0
  /\ got' = [got EXCEPT ![k] = served[k]]
  /\ UNCHANGED <<served, mu, latest>>

\* Deviation: an error forgets what was cached.
FetchFailsReset(k) ==
  /\ PollAt(k, "fetch", "wait")
  /\ latest' = [latest EXCEPT ![k] = Blank]
  /\ UNCHANGED <<served, got, mu>>

\* An error, a timeout, or no stable release in the answer.
FetchFails(k) ==
  /\ PollAt(k, "fetch", "wait")
  /\ UNCHANGED <<served, got, mu, latest>>

Lock(k) ==
  /\ mu[k] = "free"
  /\ PollAt(k, "lock", "version")
  /\ mu' = [mu EXCEPT ![k] = "writer"]
  /\ UNCHANGED <<served, got, latest>>

WriteVersion(k) ==
  /\ PollAt(k, "version", "page")
  /\ latest' = [latest EXCEPT ![k].version = got[k]]
  /\ UNCHANGED <<served, got, mu>>

WritePage(k) ==
  /\ PollAt(k, "page", "unlock")
  /\ latest' = [latest EXCEPT ![k].page = got[k]]
  /\ UNCHANGED <<served, got, mu>>

\* Deviation: the lock is kept.
UnlockForgotten(k) ==
  /\ PollAt(k, "unlock", "wait")
  /\ got' = [got EXCEPT ![k] = 0]
  /\ UNCHANGED <<served, mu, latest>>

Unlock(k) ==
  /\ PollAt(k, "unlock", "wait")
  /\ mu' = [mu EXCEPT ![k] = "free"]
  /\ got' = [got EXCEPT ![k] = 0]
  /\ UNCHANGED <<served, latest>>

\* Deviation: the lock is held during the request.
PollAgainLocked(k) ==
  /\ PollAt(k, "wait", "fetch")
  /\ mu[k] = "free"
  /\ mu' = [mu EXCEPT ![k] = "writer"]
  /\ UNCHANGED <<served, got, latest>>

\* The ticker of the checker.
PollAgain(k) ==
  /\ PollAt(k, "wait", "fetch")
  /\ UNCHANGED <<served, got, mu, latest>>

Poll(k) ==
  \/ Fetch(k) \/ FetchFails(k) \/ Lock(k) \/ WriteVersion(k) \/ WritePage(k) \/ Unlock(k)
  \/ PollAgain(k)

\* The endpoint serves the next one.
Release(k) ==
  /\ served[k] < Len(Feed[k])
  /\ served' = [served EXCEPT ![k] = @ + 1]
  /\ UNCHANGED <<poll, got, mu, latest>>

-----------------------------------------------------------------------------
\* Deviation: the lock is not taken.
RLockFree(k) == UNCHANGED pollers

\* The lock of Latest, as the main goroutine takes it.
RLock(k) ==
  /\ mu[k] = "free"
  /\ mu' = [mu EXCEPT ![k] = "reader"]
  /\ UNCHANGED <<served, poll, got, latest>>

RUnlock(k) ==
  /\ mu' = [mu EXCEPT ![k] = "free"]
  /\ UNCHANGED <<served, poll, got, latest>>
=============================================================================
