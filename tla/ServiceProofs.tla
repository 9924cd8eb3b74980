--------------------------- MODULE ServiceProofs ---------------------------
(***************************************************************************)
(* Proofs about Service, for any hosts, configurations, releases and       *)
(* crashes: what is read from the checkers and how it is published.        *)
(***************************************************************************)
EXTENDS Service, TLAPS

\* The places at which the main goroutine holds the read lock of checker k, has read
\* the version only, and has a pair that it has not published yet.
Reading == [k \in Checker |-> IF k = "upstream" THEN {"version", "page", "runlock"}
                              ELSE {"mversion", "mpage", "mrunlock"}]
Halfway == [k \in Checker |-> IF k = "upstream" THEN "page" ELSE "mpage"]
Carries == [k \in Checker |-> IF k = "upstream" THEN {"page", "runlock", "state", "update"}
                              ELSE {"mpage", "mrunlock", "mupdate"}]

PollTypes ==
  /\ pc \in Places /\ conf \in Conf
  /\ served \in [Checker -> Nat] /\ got \in [Checker -> Nat]
  /\ poll \in [Checker -> {"gone", "fetch", "lock", "version", "page", "unlock", "wait"}]
  /\ mu \in [Checker -> {"free", "writer", "reader"}]
  /\ latest \in [Checker -> Words] /\ read \in [Checker -> Words] /\ shown \in [Checker -> Words]

\* A lock is held by whoever is at one of its places.
LockInv ==
  \A k \in Checker :
    /\ mu[k] = "writer" <=> poll[k] \in {"version", "page", "unlock"}
    /\ mu[k] = "reader" <=> pc \in Reading[k]

\* The cached pair is whole but between the two writes, and never newer than what the
\* endpoint serves; only an enabled checker has one.
CacheInv ==
  \A k \in Checker :
    /\ poll[k] # "page" => latest[k].version = latest[k].page
    /\ poll[k] = "page" => latest[k].version = got[k]
    /\ latest[k].version <= served[k] /\ served[k] <= Len(Feed[k])
    /\ poll[k] \in {"lock", "version", "page"} => latest[k].version <= got[k] /\ got[k] <= served[k]
    /\ pc = "off" => poll[k] = "gone"
    /\ k \notin conf.checkers => poll[k] = "gone" /\ latest[k].version = 0

\* What has been read is whole but between the two reads; what is shown was read, and
\* what will be shown is not older.
ReadInv ==
  \A k \in Checker :
    /\ pc = Halfway[k] => read[k].version = latest[k].version
    /\ pc # Halfway[k] => read[k].version = read[k].page
    /\ shown[k].version = shown[k].page
    /\ shown[k].version <= latest[k].version
    /\ read[k].version <= latest[k].version
    /\ pc \in Carries[k] /\ k \in conf.checkers => shown[k].version <= read[k].version

PollInv == PollTypes /\ LockInv /\ CacheInv /\ ReadInv

\* The invariant holds before the first process.
LEMMA PollInit == Init => PollInv
<1> SUFFICES ASSUME Init PROVE PollInv OBVIOUS
<1> USE ServiceAssumption DEF Init, PollersInit, Nothing, Blank
<1>1. PollTypes
  <2>1. conf \in Conf BY DEF Conf
  <2> QED BY <2>1 DEF PollTypes, Places, Words
<1>2. LockInv BY DEF LockInv, Reading
<1>3. CacheInv BY DEF CacheInv
<1>4. ReadInv BY DEF ReadInv, Halfway, Carries
<1> QED BY <1>1, <1>2, <1>3, <1>4 DEF PollInv

\* A step of a checker's goroutine keeps the invariant.
LEMMA PollStepKeeps ==
  ASSUME PollInv, PollStep
  PROVE  PollInv'
<1> USE DEF PollInv, PollTypes, world, loop, out, meter, PollAt
<1> PICK k \in Checker : Poll(k) BY DEF PollStep
<1>0. UNCHANGED <<pc, world, ident, loop, read, out, meter>> BY DEF PollStep
<1>1. CASE Fetch(k)
  <2>1. PollTypes' BY <1>0, <1>1 DEF Fetch
  <2>2. LockInv' BY <1>0, <1>1 DEF Fetch, LockInv
  <2>3. CacheInv' BY <1>0, <1>1 DEF Fetch, CacheInv, Words
  <2>4. ReadInv' BY <1>0, <1>1 DEF Fetch, ReadInv
  <2> QED BY <2>1, <2>2, <2>3, <2>4
<1>2. CASE FetchFails(k)
  <2>1. PollTypes' BY <1>0, <1>2 DEF FetchFails
  <2>2. LockInv' BY <1>0, <1>2 DEF FetchFails, LockInv
  <2>3. CacheInv' BY <1>0, <1>2 DEF FetchFails, CacheInv
  <2>4. ReadInv' BY <1>0, <1>2 DEF FetchFails, ReadInv
  <2> QED BY <2>1, <2>2, <2>3, <2>4
<1>3. CASE Lock(k)
  <2>1. PollTypes' BY <1>0, <1>3 DEF Lock
  <2>2. LockInv' BY <1>0, <1>3 DEF Lock, LockInv
  <2>3. CacheInv' BY <1>0, <1>3 DEF Lock, CacheInv
  <2>4. ReadInv' BY <1>0, <1>3 DEF Lock, ReadInv
  <2> QED BY <2>1, <2>2, <2>3, <2>4
<1>4. CASE WriteVersion(k)
  <2>1. PollTypes' BY <1>0, <1>4 DEF WriteVersion, Words
  <2>2. LockInv' BY <1>0, <1>4 DEF WriteVersion, LockInv
  <2>3. CacheInv' BY <1>0, <1>4 DEF WriteVersion, CacheInv, Words
  <2>4. ReadInv' BY <1>0, <1>4 DEF WriteVersion, ReadInv, LockInv, CacheInv, Halfway, Reading, Words
  <2> QED BY <2>1, <2>2, <2>3, <2>4
<1>5. CASE WritePage(k)
  <2>1. PollTypes' BY <1>0, <1>5 DEF WritePage, Words
  <2>2. LockInv' BY <1>0, <1>5 DEF WritePage, LockInv
  <2>3. CacheInv' BY <1>0, <1>5 DEF WritePage, CacheInv, Words
  <2>4. ReadInv' BY <1>0, <1>5 DEF WritePage, ReadInv, Words
  <2> QED BY <2>1, <2>2, <2>3, <2>4
<1>6. CASE Unlock(k)
  <2>1. PollTypes' BY <1>0, <1>6 DEF Unlock
  <2>2. LockInv' BY <1>0, <1>6 DEF Unlock, LockInv
  <2>3. CacheInv' BY <1>0, <1>6 DEF Unlock, CacheInv
  <2>4. ReadInv' BY <1>0, <1>6 DEF Unlock, ReadInv
  <2> QED BY <2>1, <2>2, <2>3, <2>4
<1>7. CASE PollAgain(k)
  <2>1. PollTypes' BY <1>0, <1>7 DEF PollAgain
  <2>2. LockInv' BY <1>0, <1>7 DEF PollAgain, LockInv
  <2>3. CacheInv' BY <1>0, <1>7 DEF PollAgain, CacheInv
  <2>4. ReadInv' BY <1>0, <1>7 DEF PollAgain, ReadInv
  <2> QED BY <2>1, <2>2, <2>3, <2>4
<1> QED BY <1>1, <1>2, <1>3, <1>4, <1>5, <1>6, <1>7 DEF Poll

\* A step of the main goroutine that touches neither the checkers nor what was read.
Moves ==
  /\ UNCHANGED <<conf, pollers, read, shown>>
  /\ pc' \in Places
  /\ pc' = "off" => pc = "off"
  /\ \A k \in Checker :
       /\ pc' \in Reading[k] <=> pc \in Reading[k]
       /\ pc' = Halfway[k] <=> pc = Halfway[k]
       /\ pc' \in Carries[k] /\ k \in conf.checkers => pc \in Carries[k]

\* Such a step keeps the invariant.
LEMMA MovesKeep ==
  ASSUME PollInv, Moves
  PROVE  PollInv'
<1> USE DEF PollInv, Moves, pollers
<1>1. PollTypes' BY DEF PollTypes
<1>2. LockInv' BY DEF LockInv, Reading
<1>3. CacheInv' BY DEF CacheInv
<1>4. ReadInv' BY DEF ReadInv, Halfway, Carries
<1> QED BY <1>1, <1>2, <1>3, <1>4

\* The steps of the main goroutine between start-up and the select, as moves.
LEMMA PlainMoves ==
  ASSUME PollInv,
         \/ Connect \/ CollectPower \/ PublishState \/ Count \/ Notify \/ TakeTick \/ TakeSignal
         \/ Discover("discover", "sample") \/ Discover("rediscover", EndOfCollect)
         \/ Goto("ticker", "notify") /\ UNCHANGED <<world, ident, loop, read, out, pollers, meter>>
         \/ UNCHANGED <<pc, conf, read, shown, pollers>>
  PROVE  Moves
<1> USE ServiceAssumption
        DEF Moves, Places, Reading, Halfway, Carries, Goto, EndOfCollect, world, loop, out
<1>1. CASE Connect BY <1>1 DEF Connect
<1>2. CASE CollectPower BY <1>2 DEF CollectPower
<1>3. CASE PublishState BY <1>3 DEF PublishState
<1>4. CASE Count BY <1>4 DEF Count
<1>5. CASE Notify BY <1>5 DEF Notify
<1>6. CASE TakeTick BY <1>6 DEF TakeTick
<1>7. CASE TakeSignal BY <1>7 DEF TakeSignal
<1>8. CASE Discover("discover", "sample") BY <1>8 DEF Discover
<1>9. CASE Discover("rediscover", EndOfCollect) BY <1>9 DEF Discover
<1>10. CASE Goto("ticker", "notify") /\ UNCHANGED <<world, ident, loop, read, out, pollers, meter>>
  BY <1>10
<1>11. CASE UNCHANGED <<pc, conf, read, shown, pollers>> BY <1>11 DEF PollInv, PollTypes, Places
<1> QED BY <1>1, <1>2, <1>3, <1>4, <1>5, <1>6, <1>7, <1>8, <1>9, <1>10, <1>11

\* The end of a process keeps the invariant: nothing is left of the checkers.
LEMMA EndKeeps ==
  ASSUME PollInv, NEW how, End(how)
  PROVE  PollInv'
<1> USE DEF PollInv, PollTypes, End, StopPollers, Nothing, Blank
<1>1. PollTypes' BY DEF Places, Words
<1>2. LockInv' BY ServiceAssumption DEF LockInv, Reading
<1>3. CacheInv' BY DEF CacheInv
<1>4. ReadInv' BY ServiceAssumption DEF ReadInv, Halfway, Carries
<1> QED BY <1>1, <1>2, <1>3, <1>4

\* The start of a process keeps the invariant.
LEMMA BootKeeps ==
  ASSUME PollInv, Boot
  PROVE  PollInv'
<1> USE ServiceAssumption DEF PollInv, Boot, world, Nothing, Blank
<1>0. UNCHANGED <<conf, served>> BY DEF StartPollers, pollers
<1>1. CASE Loads(conf.client, conf.device, files)
  <2>1. PollTypes' BY <1>0, <1>1 DEF PollTypes, StartPollers, Places, Words
  <2>2. LockInv' BY <1>0, <1>1 DEF LockInv, StartPollers, Reading, PollTypes
  <2>3. CacheInv' BY <1>0, <1>1 DEF CacheInv, StartPollers, PollTypes
  <2>4. ReadInv' BY <1>0, <1>1 DEF ReadInv, StartPollers, Halfway, Carries
  <2> QED BY <2>1, <2>2, <2>3, <2>4
<1>2. CASE ~Loads(conf.client, conf.device, files)
  <2>1. PollTypes' BY <1>0, <1>2 DEF PollTypes, pollers, Words
  <2>2. LockInv' BY <1>0, <1>2 DEF LockInv, pollers
  <2>3. CacheInv' BY <1>0, <1>2 DEF CacheInv, pollers
  <2>4. ReadInv' BY <1>0, <1>2 DEF ReadInv, CacheInv, PollTypes, pollers, Halfway, Carries, Words
  <2> QED BY <2>1, <2>2, <2>3, <2>4
<1> QED BY <1>1, <1>2

\* Taking a read lock keeps the invariant.
LEMMA AcquireKeeps ==
  ASSUME PollInv, Acquire
  PROVE  PollInv'
<1> USE ServiceAssumption DEF PollInv, PollTypes, ReadLock, RLock, Goto, world, loop, out, meter, Places
<1>1. CASE ReadLock("upstream", "rlock", "version")
  <2>1. PollTypes' BY <1>1
  <2>2. LockInv' BY <1>1 DEF LockInv, Reading
  <2>3. CacheInv' BY <1>1 DEF CacheInv
  <2>4. ReadInv' BY <1>1 DEF ReadInv, Halfway, Carries
  <2> QED BY <2>1, <2>2, <2>3, <2>4
<1>2. CASE ReadLock("monitor", "mrlock", "mversion")
  <2>1. PollTypes' BY <1>2
  <2>2. LockInv' BY <1>2 DEF LockInv, Reading
  <2>3. CacheInv' BY <1>2 DEF CacheInv
  <2>4. ReadInv' BY <1>2 DEF ReadInv, Halfway, Carries
  <2> QED BY <2>1, <2>2, <2>3, <2>4
<1> QED BY <1>1, <1>2 DEF Acquire

\* Reading the version keeps the invariant: the lock keeps the writer away, and what
\* is cached is not older than what is shown.
LEMMA ReadVersionKeeps ==
  ASSUME PollInv, ReadWord("upstream", "version", "version", "page")
                    \/ ReadWord("monitor", "version", "mversion", "mpage")
  PROVE  PollInv'
<1> USE ServiceAssumption DEF PollInv, PollTypes, ReadWord, Goto, world, loop, out, meter, pollers, Places
<1>1. CASE ReadWord("upstream", "version", "version", "page")
  <2>1. PollTypes' BY <1>1 DEF Words
  <2>2. LockInv' BY <1>1 DEF LockInv, Reading
  <2>3. CacheInv' BY <1>1 DEF CacheInv
  <2>4. ReadInv' BY <1>1 DEF ReadInv, Halfway, Carries, Words
  <2> QED BY <2>1, <2>2, <2>3, <2>4
<1>2. CASE ReadWord("monitor", "version", "mversion", "mpage")
  <2>1. PollTypes' BY <1>2 DEF Words
  <2>2. LockInv' BY <1>2 DEF LockInv, Reading
  <2>3. CacheInv' BY <1>2 DEF CacheInv
  <2>4. ReadInv' BY <1>2 DEF ReadInv, Halfway, Carries, Words
  <2> QED BY <2>1, <2>2, <2>3, <2>4
<1> QED BY <1>1, <1>2

\* Reading the page keeps the invariant: the version read before is still cached.
LEMMA ReadPageKeeps ==
  ASSUME PollInv, ReadWord("upstream", "page", "page", "runlock")
                    \/ ReadWord("monitor", "page", "mpage", "mrunlock")
  PROVE  PollInv'
<1> USE ServiceAssumption DEF PollInv, PollTypes, ReadWord, Goto, world, loop, out, meter, pollers, Places
<1>1. CASE ReadWord("upstream", "page", "page", "runlock")
  <2>1. PollTypes' BY <1>1 DEF Words
  <2>2. LockInv' BY <1>1 DEF LockInv, Reading
  <2>3. CacheInv' BY <1>1 DEF CacheInv
  <2>4. poll["upstream"] # "page" BY <1>1 DEF LockInv, Reading
  <2>5. latest["upstream"].version = latest["upstream"].page BY <2>4 DEF CacheInv
  <2>6. ReadInv' BY <1>1, <2>5 DEF ReadInv, Halfway, Carries, Words
  <2> QED BY <2>1, <2>2, <2>3, <2>6
<1>2. CASE ReadWord("monitor", "page", "mpage", "mrunlock")
  <2>1. PollTypes' BY <1>2 DEF Words
  <2>2. LockInv' BY <1>2 DEF LockInv, Reading
  <2>3. CacheInv' BY <1>2 DEF CacheInv
  <2>4. poll["monitor"] # "page" BY <1>2 DEF LockInv, Reading
  <2>5. latest["monitor"].version = latest["monitor"].page BY <2>4 DEF CacheInv
  <2>6. ReadInv' BY <1>2, <2>5 DEF ReadInv, Halfway, Carries, Words
  <2> QED BY <2>1, <2>2, <2>3, <2>6
<1> QED BY <1>1, <1>2

\* Giving the lock back keeps the invariant.
LEMMA ReadUnlockKeeps ==
  ASSUME PollInv, ReadUnlock("upstream", "runlock", "state")
                    \/ ReadUnlock("monitor", "mrunlock", "mupdate")
  PROVE  PollInv'
<1> USE ServiceAssumption DEF PollInv, PollTypes, ReadUnlock, RUnlock, Goto, world, loop, out, meter, Places
<1>1. CASE ReadUnlock("upstream", "runlock", "state")
  <2>1. PollTypes' BY <1>1
  <2>2. LockInv' BY <1>1 DEF LockInv, Reading
  <2>3. CacheInv' BY <1>1 DEF CacheInv
  <2>4. ReadInv' BY <1>1 DEF ReadInv, Halfway, Carries
  <2> QED BY <2>1, <2>2, <2>3, <2>4
<1>2. CASE ReadUnlock("monitor", "mrunlock", "mupdate")
  <2>1. PollTypes' BY <1>2
  <2>2. LockInv' BY <1>2 DEF LockInv, Reading
  <2>3. CacheInv' BY <1>2 DEF CacheInv
  <2>4. ReadInv' BY <1>2 DEF ReadInv, Halfway, Carries
  <2> QED BY <2>1, <2>2, <2>3, <2>4
<1> QED BY <1>1, <1>2

\* A publication keeps the invariant and never shows an older release.
LEMMA PublishKeeps ==
  ASSUME PollInv,
         \/ PublishUpdate("upstream", "update", IF "monitor" \in conf.checkers THEN "mrlock" ELSE "count")
         \/ PublishUpdate("monitor", "mupdate", "count")
  PROVE  PollInv' /\ \A k \in Checker : shown'[k].version >= shown[k].version
<1> USE ServiceAssumption
        DEF PollInv, PollTypes, PublishUpdate, Goto, world, loop, out, meter, pollers, Places, Blank
<1>1. CASE PublishUpdate("upstream", "update", IF "monitor" \in conf.checkers THEN "mrlock" ELSE "count")
  <2>1. PollTypes' BY <1>1 DEF Words
  <2>2. LockInv' BY <1>1 DEF LockInv, Reading
  <2>3. CacheInv' BY <1>1 DEF CacheInv
  <2>4. read["upstream"].version >= shown["upstream"].version
    BY <1>1 DEF ReadInv, CacheInv, Carries, Words
  <2>5. ReadInv' BY <1>1 DEF ReadInv, Halfway, Carries, Words
  <2> QED BY <1>1, <2>1, <2>2, <2>3, <2>4, <2>5 DEF Words
<1>2. CASE PublishUpdate("monitor", "mupdate", "count")
  <2>1. PollTypes' BY <1>2 DEF Words
  <2>2. LockInv' BY <1>2 DEF LockInv, Reading
  <2>3. CacheInv' BY <1>2 DEF CacheInv
  <2>4. read["monitor"].version >= shown["monitor"].version
    BY <1>2 DEF ReadInv, CacheInv, Carries, Words
  <2>5. ReadInv' BY <1>2 DEF ReadInv, Halfway, Carries, Words
  <2> QED BY <1>2, <2>1, <2>2, <2>3, <2>4, <2>5 DEF Words
<1> QED BY <1>1, <1>2

\* A new release keeps the invariant.
LEMMA ReleasesKeep ==
  ASSUME PollInv, Releases
  PROVE  PollInv'
<1> PICK k \in Checker : Release(k) BY DEF Releases
<1>0. /\ served' = [served EXCEPT ![k] = @ + 1] /\ served[k] < Len(Feed[k])
      /\ UNCHANGED <<pc, conf, poll, got, mu, latest, read, shown>>
  BY DEF Releases, Release, world, out
<1>1. PollTypes' BY <1>0 DEF PollInv, PollTypes
<1>2. LockInv' BY <1>0 DEF PollInv, LockInv
<1>3. CacheInv'
  <2>1. served \in [Checker -> Nat] /\ got \in [Checker -> Nat] /\ latest \in [Checker -> Words]
    BY DEF PollInv, PollTypes
  <2>2. served'[k] <= Len(Feed[k]) BY <1>0, <2>1, PollersAssumption
  <2>3. \A l \in Checker : served'[l] >= served[l] /\ served'[l] \in Nat
                            /\ (l # k => served'[l] = served[l])
    BY <1>0, <2>1
  <2> QED BY <1>0, <2>1, <2>2, <2>3 DEF PollInv, CacheInv, Words
<1>4. ReadInv' BY <1>0 DEF PollInv, ReadInv
<1> QED BY <1>1, <1>2, <1>3, <1>4 DEF PollInv

NotOlderShown ==
  pc' # "off" /\ pc # "off" => \A k \in Checker : shown'[k].version >= shown[k].version

\* Every step keeps the invariant, and while the process lives nothing older is shown.
LEMMA ServiceStep ==
  ASSUME PollInv, [Next]_vars
  PROVE  PollInv' /\ NotOlderShown
<1>0. \A k \in Checker : shown[k].version \in Nat BY DEF PollInv, PollTypes, Words
<1>1. ASSUME UNCHANGED shown PROVE NotOlderShown BY <1>0, <1>1 DEF NotOlderShown
<1>2. CASE AutoRestart \/ AdminStart
  <2>1. Boot /\ pc = "off" BY <1>2 DEF AutoRestart, AdminStart, Boot
  <2> QED BY <2>1, BootKeeps DEF NotOlderShown
<1>3. CASE \/ Connect \/ CollectPower \/ PublishState \/ Count \/ Notify \/ TakeTick \/ TakeSignal
           \/ Discover("discover", "sample") \/ Discover("rediscover", EndOfCollect)
  <2>1. Moves BY <1>3, PlainMoves
  <2> QED BY <1>1, <2>1, MovesKeep DEF Moves
<1>4. CASE Acquire
  BY <1>1, <1>4, AcquireKeeps DEF Acquire, ReadLock, out
<1>5. CASE \/ ReadWord("upstream", "version", "version", "page")
           \/ ReadWord("monitor", "version", "mversion", "mpage")
  BY <1>1, <1>5, ReadVersionKeeps DEF ReadWord, out
<1>6. CASE \/ ReadWord("upstream", "page", "page", "runlock")
           \/ ReadWord("monitor", "page", "mpage", "mrunlock")
  BY <1>1, <1>6, ReadPageKeeps DEF ReadWord, out
<1>7. CASE \/ ReadUnlock("upstream", "runlock", "state")
           \/ ReadUnlock("monitor", "mrunlock", "mupdate")
  BY <1>1, <1>7, ReadUnlockKeeps DEF ReadUnlock, out
<1>8. CASE \/ PublishUpdate("upstream", "update", IF "monitor" \in conf.checkers THEN "mrlock" ELSE "count")
           \/ PublishUpdate("monitor", "mupdate", "count")
  BY <1>8, PublishKeeps DEF NotOlderShown
<1>9. CASE NewTicker
  <2>1. CASE Goto("ticker", "notify") /\ UNCHANGED <<world, ident, loop, read, out, pollers, meter>>
    <3>1. Moves BY <2>1, PlainMoves
    <3> QED BY <1>1, <3>1, MovesKeep DEF Moves
  <2>2. CASE End("failure") BY <2>2, EndKeeps DEF End, NotOlderShown
  <2> QED BY <1>9, <2>1, <2>2 DEF NewTicker
<1>10. CASE Disconnect \/ Crash
  <2>1. \E how \in {"stopped", "failure"} : End(how) BY <1>10 DEF Disconnect, Crash
  <2> QED BY <2>1, EndKeeps DEF End, NotOlderShown
<1>11. CASE Signal
  <2>1. CASE End("stopped") BY <2>1, EndKeeps DEF End, NotOlderShown
  <2>2. CASE UNCHANGED <<pc, world, read, out, pollers>>
    <3>1. Moves BY <2>2, PlainMoves DEF world, out
    <3> QED BY <1>1, <3>1, MovesKeep DEF Moves
  <2> QED BY <1>11, <2>1, <2>2 DEF Signal
<1>12. CASE Ticks \/ BrokerChanges \/ RepairFiles \/ PowerUsed \/ UNCHANGED vars
  <2>1. UNCHANGED <<pc, conf, read, shown, pollers>>
    BY <1>12 DEF Ticks, BrokerChanges, RepairFiles, PowerUsed, vars, world, out
  <2>2. Moves BY <2>1, PlainMoves
  <2> QED BY <1>1, <2>2, MovesKeep DEF Moves
<1>13. CASE PollStep BY <1>1, <1>13, PollStepKeeps DEF PollStep, out
<1>14. CASE Releases BY <1>1, <1>14, ReleasesKeep DEF Releases, out
<1> QED BY <1>2, <1>3, <1>4, <1>5, <1>6, <1>7, <1>8, <1>9, <1>10, <1>11, <1>12, <1>13, <1>14
        DEF Next, Main, Collect

\* The invariant holds in every reachable state.
LEMMA ServiceAlways == Spec => []PollInv
<1>1. PollInv /\ [Next]_vars => PollInv' BY ServiceStep
<1> QED BY <1>1, PollInit, PTL DEF Spec

\* A published update state is never a mix of two releases.
THEOREM PairIsConsistent == Spec => []PairConsistent
<1>1. PollInv => PairConsistent BY DEF PollInv, ReadInv, PairConsistent
<1> QED BY <1>1, ServiceAlways, PTL

\* The main goroutine never waits for a checker's request.
THEOREM NeverWaitsForNetwork == Spec => []NeverBehindNetwork
<1>1. PollInv => NeverBehindNetwork BY DEF PollInv, LockInv, NeverBehindNetwork
<1> QED BY <1>1, ServiceAlways, PTL

\* A release that comes later in the feed has no older version.
LEMMA OrdinalRises ==
  ASSUME NEW k \in Checker, NEW m \in 0..Len(Feed[k]), NEW n \in 0..Len(Feed[k]), n >= m
  PROVE  Ordinal(k, n) >= Ordinal(k, m)
<1>1. Len(Feed[k]) \in Nat /\ \A i \in 1..Len(Feed[k]) : Feed[k][i] \in Nat BY PollersAssumption
<1>2. CASE m = 0 BY <1>1, <1>2 DEF Ordinal
<1>3. CASE m # 0 /\ m = n BY <1>1, <1>3 DEF Ordinal
<1>4. CASE m # 0 /\ m < n BY <1>1, <1>4, NewestFirst DEF Ordinal
<1> QED BY <1>1, <1>2, <1>3, <1>4

\* What is shown of a release never goes back while the process lives, if no endpoint
\* goes back.
THEOREM UpdatesNeverGoBack == Spec => NeverBackwards
<1>1. PollInv /\ [Next]_vars =>
        [pc' # "off" /\ pc # "off" =>
           \A k \in Checker : Ordinal(k, shown'[k].version) >= Ordinal(k, shown[k].version)]_vars
  <2> SUFFICES ASSUME PollInv, [Next]_vars, pc' # "off", pc # "off", NEW k \in Checker
               PROVE  Ordinal(k, shown'[k].version) >= Ordinal(k, shown[k].version)
    OBVIOUS
  <2>1. PollInv' /\ shown'[k].version >= shown[k].version BY ServiceStep DEF NotOlderShown
  <2>0. Len(Feed[k]) \in Nat BY PollersAssumption
  <2>2. shown[k].version \in 0..Len(Feed[k])
    BY <2>0 DEF PollInv, PollTypes, CacheInv, ReadInv, Words
  <2>3. shown'[k].version \in 0..Len(Feed[k])
    BY <2>0, <2>1 DEF PollInv, PollTypes, CacheInv, ReadInv, Words
  <2> QED BY <2>1, <2>2, <2>3, OrdinalRises
<1> QED BY <1>1, ServiceAlways, PTL DEF Spec, NeverBackwards

-----------------------------------------------------------------------------
\* The counter's reading is the last one and what was used since, less some whole
\* ranges; the time since the last reading is the true one.
MeterInv ==
  /\ energy \in 0..(Range - 1) /\ lastEnergy \in 0..(Range - 1) /\ age \in 0..Never
  /\ since.energy \in Nat /\ since.time \in 0..MaxTime
  /\ age # Never => age = since.time
  /\ age # Never => \E q \in Nat : lastEnergy + since.energy = energy + q * Range
  /\ PowerTrue

\* Division with remainder, and what whole ranges add up to.
LEMMA Wraps ==
  ASSUME NEW R \in Nat \ {0}, NEW a \in Nat
  PROVE  a % R \in 0..(R - 1) /\ \E q \in Nat : a = q * R + (a % R)
<1>1. a = (a \div R) * R + (a % R) /\ a \div R \in Nat /\ a % R \in 0..(R - 1) OBVIOUS
<1> QED BY <1>1

\* Whole ranges add up to whole ranges.
LEMMA WholeRanges ==
  ASSUME NEW R \in Nat \ {0}, NEW q \in Nat, NEW p \in Nat
  PROVE  q * R \in Nat /\ q * R + p * R = (q + p) * R /\ (q = 0 \/ q * R >= R)
OBVIOUS

\* Using energy keeps the invariant.
LEMMA PassesKeeps ==
  ASSUME MeterInv, NEW t \in Nat, NEW e \in Nat, Passes(t, e)
  PROVE  MeterInv'
<1> USE MeterAssumption DEF MeterInv, Passes, Never
<1>1. PICK p \in Nat : energy + e = p * Range + energy' /\ energy' \in 0..(Range - 1)
  <2>1. energy + e \in Nat /\ Range \in Nat \ {0} /\ energy' = (energy + e) % Range OBVIOUS
  <2> HIDE DEF MeterInv, Passes
  <2> DEFINE total == energy + e
  <2>2. total \in Nat /\ energy' = total % Range BY <2>1
  <2> HIDE DEF total
  <2>3. total % Range \in 0..(Range - 1) /\ \E q \in Nat : total = q * Range + (total % Range)
    BY <2>1, <2>2, Wraps
  <2>4. \E q \in Nat : total = q * Range + energy' /\ energy' \in 0..(Range - 1) BY <2>2, <2>3
  <2> QED BY <2>4 DEF total
<1>2. lastEnergy' = lastEnergy /\ since'.energy = since.energy + e /\ since'.time = since.time + t
  OBVIOUS
<1>3. age' # Never' => \E q \in Nat : lastEnergy' + since'.energy = energy' + q * Range
  <2> SUFFICES ASSUME age' # Never
               PROVE  \E q \in Nat : lastEnergy' + since'.energy = energy' + q * Range
    OBVIOUS
  <2>1. PICK q \in Nat : lastEnergy + since.energy = energy + q * Range OBVIOUS
  <2>2. q * Range \in Nat /\ p * Range \in Nat /\ q * Range + p * Range = (q + p) * Range
    BY WholeRanges
  <2> DEFINE a == q * Range
             b == p * Range
  <2>3. a \in Nat /\ b \in Nat /\ a + b = (q + p) * Range BY <2>2
  <2>4. lastEnergy + since.energy = energy + a /\ energy + e = b + energy' BY <1>1, <2>1
  <2>5. energy \in Nat /\ energy' \in Nat /\ lastEnergy \in Nat /\ since.energy \in Nat BY <1>1
  <2>6. lastEnergy' + since'.energy = energy' + (a + b)
    <3> DEFINE u == lastEnergy
               v == since.energy
               w == energy
               x == energy'
    <3>1. u \in Nat /\ v \in Nat /\ w \in Nat /\ x \in Nat /\ a \in Nat /\ b \in Nat BY <2>3, <2>5
    <3>2. u + v = w + a /\ w + e = b + x BY <2>4
    <3>3. lastEnergy' = u /\ since'.energy = v + e BY <1>2
    <3> HIDE DEF a, b, u, v, w, x, MeterInv, Passes
    <3>4. u + (v + e) = x + (a + b) BY <3>1, <3>2
    <3>5. lastEnergy' + since'.energy = u + (v + e) BY <3>3
    <3> QED BY <3>4, <3>5 DEF x
  <2> HIDE DEF a, b, MeterInv, Passes
  <2>7. q + p \in Nat OBVIOUS
  <2> QED BY <2>3, <2>6, <2>7
<1>4. PowerTrue' BY DEF PowerTrue
<1> QED BY <1>1, <1>2, <1>3, <1>4

\* A sample is the true average or 0 W, if the counter wrapped at most once.
LEMMA SampleKeeps ==
  ASSUME MeterInv, Sample
  PROVE  MeterInv'
<1> USE MeterAssumption DEF MeterInv, Never, Fresh, NoSample
<1>1. CASE SampleFails BY <1>1 DEF SampleFails, PowerTrue
<1>2. CASE SampleReads
  <2>1. PICK q \in Nat : lastEnergy + since.energy = energy + q * Range BY <1>2 DEF SampleReads
  <2>2. q * Range \in Nat /\ (q = 0 \/ q * Range >= Range) BY WholeRanges
  <2>3. Delta(energy, lastEnergy, age) <= since.energy
    BY <2>1, <2>2 DEF Delta
  <2>4. since.energy < Range => Delta(energy, lastEnergy, age) \in {0, since.energy}
    BY <2>1, <2>2 DEF Delta
  <2>5. PowerTrue' BY <1>2, <2>3, <2>4 DEF SampleReads, PowerTrue
  <2>6. lastEnergy' + since'.energy = energy' + 0 * Range BY <1>2 DEF SampleReads
  <2> QED BY <1>2, <2>5, <2>6 DEF SampleReads
<1> QED BY <1>1, <1>2 DEF Sample

\* A new collector, a published state and the end of a process start afresh.
LEMMA CollectorKeeps ==
  ASSUME MeterInv,
         \/ NewCPUCollector
         \/ UNCHANGED <<energy, lastEnergy, age, since>> /\ sample' = NoSample
         \/ age' = Never /\ lastEnergy' = 0 /\ since' = Fresh /\ sample' = NoSample /\ UNCHANGED energy
         \/ UNCHANGED meter
  PROVE  MeterInv'
<1> USE MeterAssumption DEF MeterInv, Never, Fresh, NoSample, PowerTrue, meter
<1>1. CASE NewCPUCollector
  <2>1. since'.energy = 0 /\ since'.time = 0 /\ energy' = energy BY <1>1 DEF NewCPUCollector
  <2>2. since' = Fresh /\ sample' = NoSample BY <1>1 DEF NewCPUCollector
  <2>3. PowerTrue' BY <2>2
  <2>4. CASE lastEnergy' = energy /\ age' = 0
    <3>1. lastEnergy' + since'.energy = energy' + 0 * Range BY <2>1, <2>4
    <3> QED BY <2>1, <2>3, <2>4, <3>1
  <2>5. CASE lastEnergy' = 0 /\ age' = Never BY <2>1, <2>3, <2>5
  <2> QED BY <1>1, <2>4, <2>5 DEF NewCPUCollector
<1>2. CASE UNCHANGED <<energy, lastEnergy, age, since>> /\ sample' = NoSample BY <1>2
<1>3. CASE age' = Never /\ lastEnergy' = 0 /\ since' = Fresh /\ sample' = NoSample /\ UNCHANGED energy
  BY <1>3
<1>4. CASE UNCHANGED meter BY <1>4
<1> QED BY <1>1, <1>2, <1>3, <1>4

\* Every step of the service keeps the meter's invariant.
LEMMA MeterStep ==
  ASSUME MeterInv, [Next]_vars
  PROVE  MeterInv'
<1>1. CASE AutoRestart \/ AdminStart
  <2>1. NewCPUCollector \/ UNCHANGED meter BY <1>1 DEF AutoRestart, AdminStart, Boot
  <2> QED BY <2>1, CollectorKeeps
<1>2. CASE CollectPower BY <1>2, SampleKeeps DEF CollectPower
<1>3. CASE PublishState BY <1>3, CollectorKeeps DEF PublishState
<1>4. CASE \E how \in {"stopped", "failure"} : End(how) BY <1>4, CollectorKeeps DEF End
<1>5. CASE PowerUsed
  <2>1. PICK t \in 1..MaxTime, e \in 0..MaxEnergy : Passes(t, e) BY <1>5 DEF PowerUsed
  <2> QED BY <2>1, PassesKeeps, MeterAssumption
<1>6. CASE UNCHANGED meter BY <1>6, CollectorKeeps
<1>7. \/ AutoRestart \/ AdminStart \/ CollectPower \/ PublishState \/ PowerUsed \/ UNCHANGED meter
      \/ \E how \in {"stopped", "failure"} : End(how)
  BY DEF Next, Main, Collect, Connect, Discover, Acquire, ReadLock, ReadWord, ReadUnlock, PublishUpdate,
         Count, NewTicker, Notify, TakeTick, TakeSignal, Disconnect, PollStep, Releases, Signal, Crash,
         Ticks, BrokerChanges, RepairFiles, vars
<1> QED BY <1>1, <1>2, <1>3, <1>4, <1>5, <1>6, <1>7

\* A wrapped counter, a failed reading or a restart never shows as a spike of power.
THEOREM PowerIsTrue == Spec => []PowerTrue
<1>1. Init => MeterInv
  BY MeterAssumption DEF Init, MeterInit, MeterInv, Fresh, NoSample, Never, PowerTrue
<1>2. MeterInv /\ [Next]_vars => MeterInv' BY MeterStep
<1>3. MeterInv => PowerTrue BY DEF MeterInv
<1> QED BY <1>1, <1>2, <1>3, PTL DEF Spec

-----------------------------------------------------------------------------
\* The device id is the configured one, or is derived where none is configured.
DeviceAsConfigured ==
  \/ conf.device = Omitted /\ ident.device.kind = "device"
  \/ conf.device # Omitted /\ ident.device.kind = "explicit" /\ ident.device.name = conf.device

\* A process that is past its start has the ids that its configuration asks for.
IdentInv ==
  /\ conf \in Conf /\ files \in Files
  /\ pc # "off" => ident.client \in Id /\ ident.device \in Id /\ DeviceAsConfigured

\* What Load returns is an id.
LEMMA EffectiveIds ==
  ASSUME NEW kind \in {"client", "device"}, NEW c \in Field, NEW d \in Field, NEW f, Loads(c, d, f)
  PROVE  Effective(kind, c, f) \in Id /\ Effective(kind, d, f) \in Id
<1> USE DEF Loads, Resolvable, Effective, Automatic, Id, Derived, Explicit, Field
<1>1. ASSUME NEW x \in {c, d}, x = Omitted PROVE Effective(kind, x, f) \in Id
  <2>1. CanonicalMachineID(f) \in MachineId BY <1>1
  <2> QED BY <1>1, <2>1
<1>2. ASSUME NEW x \in {c, d}, x # Omitted PROVE Effective(kind, x, f) \in Id
  <2>1. x \in ExplicitId BY <1>2
  <2> QED BY <1>2, <2>1
<1> QED BY <1>1, <1>2

\* Start-up sets the ids; nothing else changes them while the process lives.
LEMMA IdentStep ==
  ASSUME IdentInv, [Next]_vars
  PROVE  IdentInv'
<1> USE DEF IdentInv
<1>1. CASE Boot
  <2>1. conf' = conf /\ files' = files BY <1>1 DEF Boot, world
  <2>2. CASE Loads(conf.client, conf.device, files)
    <3>1. conf.client \in Field /\ conf.device \in Field BY DEF Conf
    <3>2. ident' = [client |-> Effective("client", conf.client, files),
                    device |-> Effective("device", conf.device, files)]
      BY <1>1, <2>2 DEF Boot
    <3>3. ident'.client \in Id /\ ident'.device \in Id BY <2>2, <3>1, <3>2, EffectiveIds
    <3>4. DeviceAsConfigured' BY <2>1, <3>2 DEF DeviceAsConfigured, Effective, Automatic
    <3> QED BY <2>1, <3>3, <3>4
  <2>3. CASE ~Loads(conf.client, conf.device, files) BY <1>1, <2>1, <2>3 DEF Boot
  <2> QED BY <2>2, <2>3
<1>2. CASE \E how \in {"stopped", "failure"} : End(how) BY <1>2 DEF End
<1>3. CASE RepairFiles
  <2>1. files' \in Files BY <1>3 DEF RepairFiles, Files, Content
  <2> QED BY <1>3, <2>1 DEF RepairFiles, DeviceAsConfigured
<1>4. CASE UNCHANGED <<conf, files, ident>> /\ (pc = "off" => pc' = "off")
  BY <1>4 DEF DeviceAsConfigured
<1>5. AutoRestart \/ AdminStart => Boot BY DEF AutoRestart, AdminStart
<1>6. \/ Boot \/ RepairFiles \/ \E how \in {"stopped", "failure"} : End(how)
      \/ UNCHANGED <<conf, files, ident>> /\ (pc = "off" => pc' = "off")
  BY <1>5
     DEF Next, Main, Collect, Connect, Discover, CollectPower, Acquire, ReadLock, ReadWord, ReadUnlock,
         PublishState, PublishUpdate, Count, NewTicker, Notify, TakeTick, TakeSignal, Disconnect,
         PollStep, Releases, Signal, Crash, Ticks, BrokerChanges, PowerUsed, Goto, world, vars
<1> QED BY <1>1, <1>2, <1>3, <1>4, <1>6

\* The ids are sound, and the cleanup is skipped exactly when a warning says so.
THEOREM IdentityIsSound == Spec => []IdentitySound
<1>1. Init => IdentInv BY ServiceAssumption DEF Init, IdentInv
<1>2. IdentInv /\ [Next]_vars => IdentInv' BY IdentStep
<1>3. IdentInv => IdentitySound
  BY IdentityAssumption
     DEF IdentInv, IdentitySound, DeviceAsConfigured, SafeDeviceID, Warnings
<1> QED BY <1>1, <1>2, <1>3, PTL DEF Spec

-----------------------------------------------------------------------------
\* The variables of the main loop, of systemd and of the broker hold values of their
\* kind.
LoopInv ==
  /\ conf \in Conf /\ files \in Files /\ broker \in BOOLEAN /\ crashes \in 0..MaxCrashes
  /\ ident.client \in Id \cup {NoId} /\ ident.device \in Id \cup {NoId}
  /\ notified \in BOOLEAN /\ sig \in BOOLEAN /\ tick \in BOOLEAN /\ counter \in 0..(Every - 1)
  /\ exit \in {"none", "stopped", "failure"}
  /\ announced \subseteq Disk /\ disks \subseteq Disk

\* The end of a process keeps them, in a crash as well.
LEMMA EndKeepsLoop ==
  ASSUME LoopInv, NEW how \in {"stopped", "failure"}, End(how),
         UNCHANGED crashes \/ (crashes < MaxCrashes /\ crashes' = crashes + 1)
  PROVE  LoopInv'
<1>1. /\ UNCHANGED <<conf, files, broker, announced, disks>>
      /\ ident'.client = NoId /\ ident'.device = NoId
      /\ notified' = FALSE /\ sig' = FALSE /\ tick' = FALSE /\ counter' = 0 /\ exit' = how
  BY DEF LoopInv, End, NoIdent
<1>2. crashes' \in 0..MaxCrashes /\ 0 \in 0..(Every - 1) BY ServiceAssumption DEF LoopInv
<1> QED BY <1>1, <1>2 DEF LoopInv

\* Start-up derives the ids and resets the counter.
LEMMA BootKeepsLoop ==
  ASSUME LoopInv, Boot
  PROVE  LoopInv'
<1>1. UNCHANGED <<conf, files, broker, crashes, notified, sig, tick, announced, disks>> /\ counter' = 0
  BY DEF Boot, world
<1>2. CASE Loads(conf.client, conf.device, files)
  <2>1. conf.client \in Field /\ conf.device \in Field BY DEF LoopInv, Conf
  <2>2. ident'.client \in Id /\ ident'.device \in Id BY <1>2, <2>1, EffectiveIds DEF Boot
  <2>3. exit' = "none" BY <1>2 DEF Boot
  <2> QED BY <1>1, <2>2, <2>3, ServiceAssumption DEF LoopInv
<1>3. CASE ~Loads(conf.client, conf.device, files)
  BY <1>1, <1>3, ServiceAssumption DEF LoopInv, Boot
<1> QED BY <1>2, <1>3

\* Every step keeps them.
LEMMA LoopStep ==
  ASSUME LoopInv, [Next]_vars
  PROVE  LoopInv'
<1>1. CASE AutoRestart \/ AdminStart BY <1>1, BootKeepsLoop DEF AutoRestart, AdminStart
<1>2. CASE Discover("discover", "sample") \/ Discover("rediscover", EndOfCollect)
  <2>1. /\ announced' = announced \/ announced' = {Underscored[d] : d \in conf.disks}
        /\ UNCHANGED <<world, ident, loop, disks>>
    BY <1>2 DEF Discover
  <2>2. {Underscored[d] : d \in conf.disks} \subseteq Disk BY ServiceAssumption DEF LoopInv, Conf
  <2> QED BY <1>2, <2>1, <2>2 DEF LoopInv, Discover, world, loop
<1>3. CASE PublishState
  <2>1. disks' \subseteq Disk BY <1>3 DEF PublishState, LoopInv, Conf
  <2> QED BY <1>3, <2>1 DEF LoopInv, PublishState, world, loop
<1>4. CASE Count BY <1>4, ServiceAssumption DEF LoopInv, Count, world, out
<1>5. CASE RepairFiles BY <1>5 DEF LoopInv, RepairFiles, Files, Content, loop, out
<1>6. CASE NewTicker \/ Disconnect \/ Signal \/ Crash
  <2>1. CASE \E how \in {"stopped", "failure"} :
               End(how) /\ (UNCHANGED crashes \/ (crashes < MaxCrashes /\ crashes' = crashes + 1))
    BY <2>1, EndKeepsLoop
  <2>2. CASE conf.interval = "positive" /\ UNCHANGED <<world, ident, loop, out>>
    BY <2>2 DEF LoopInv, world, loop, out
  <2>3. CASE sig' = TRUE /\ UNCHANGED <<world, ident, notified, tick, counter, exit, out>>
    BY <2>3 DEF LoopInv, world, out
  <2> QED BY <1>6, <2>1, <2>2, <2>3 DEF NewTicker, Disconnect, Signal, Crash
<1>7. CASE UNCHANGED <<world, ident, loop, announced, disks>> BY <1>7 DEF LoopInv, world, loop
<1>8. CASE Notify \/ TakeTick \/ Ticks \/ BrokerChanges
  <2>1. UNCHANGED <<conf, files, ident, announced, disks>> /\ crashes' = crashes
        /\ counter' = counter /\ exit' = exit /\ sig' = sig
    BY <1>8 DEF Notify, TakeTick, Ticks, BrokerChanges, world, loop, out
  <2>2. broker' \in BOOLEAN /\ notified' \in BOOLEAN /\ tick' \in BOOLEAN
    BY <1>8 DEF LoopInv, Notify, TakeTick, Ticks, BrokerChanges, world, loop
  <2> QED BY <2>1, <2>2 DEF LoopInv
<1>9. ASSUME NEW k, NEW word, NEW from, NEW to,
              ReadLock(k, from, to) \/ ReadWord(k, word, from, to) \/ ReadUnlock(k, from, to)
                \/ PublishUpdate(k, from, to)
       PROVE  LoopInv'
  <2>1. UNCHANGED <<world, ident, loop, announced, disks>>
    BY <1>9 DEF ReadLock, ReadWord, ReadUnlock, PublishUpdate, out
  <2> QED BY <1>7, <2>1
<1>10. CASE \/ Connect \/ CollectPower \/ TakeSignal \/ PollStep \/ Releases \/ PowerUsed
            \/ UNCHANGED vars
  <2>1. UNCHANGED <<world, ident, loop, announced, disks>>
    BY <1>10 DEF Connect, CollectPower, TakeSignal, PollStep, Releases, PowerUsed, vars, out
  <2> QED BY <1>7, <2>1
<1>11. CASE Collect BY <1>2, <1>3, <1>4, <1>9, <1>10, <1>11 DEF Collect, Acquire
<1>12. CASE Main BY <1>2, <1>6, <1>8, <1>10, <1>11, <1>12 DEF Main
<1> QED BY <1>1, <1>5, <1>6, <1>12, <1>8, <1>10 DEF Next

\* Every variable of the service holds a value of its kind: the main loop's by
\* LoopInv, the checkers' by PollInv and the meter's by MeterInv.
THEOREM ServiceTypeCorrect == Spec => []TypeOK
<1>1. Init => LoopInv
  <2> SUFFICES ASSUME Init PROVE LoopInv OBVIOUS
  <2>1. \E h \in Hosts : conf = h.conf /\ files = h.files BY DEF Init
  <2>2. conf \in Conf /\ files \in Files BY <2>1, ServiceAssumption
  <2>3. 0 \in 0..(Every - 1) /\ 0 \in 0..MaxCrashes BY ServiceAssumption
  <2>4. ident.client = NoId /\ ident.device = NoId BY DEF Init, NoIdent
  <2> QED BY <2>2, <2>3, <2>4 DEF Init, LoopInv
<1>2. LoopInv /\ [Next]_vars => LoopInv' BY LoopStep
<1>3. Init => MeterInv
  BY MeterAssumption DEF Init, MeterInit, MeterInv, Fresh, NoSample, Never, PowerTrue
<1>4. MeterInv /\ [Next]_vars => MeterInv' BY MeterStep
<1>5. LoopInv /\ MeterInv /\ PollInv => TypeOK
  BY DEF LoopInv, MeterInv, PollInv, PollTypes, TypeOK
<1> QED BY <1>1, <1>2, <1>3, <1>4, <1>5, ServiceAlways, PTL DEF Spec
=============================================================================
