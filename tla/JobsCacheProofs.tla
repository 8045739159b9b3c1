---------------------------- MODULE JobsCacheProofs ----------------------------
(***************************************************************************)
(* Proofs about JobsCache, for any number of instances, keys, requests,    *)
(* versions, messages and outages, and about JobList, for any words, rows, *)
(* scores and bounds of a page.                                            *)
(***************************************************************************)
EXTENDS MCJobsCache, FiniteSetTheorems, SequenceTheorems, WellFoundedInduction, TLAPS

\* A request in progress has the key it asked for.
KeyKnown == \A q \in Requests : request[q].pc \in {"get", "query", "set"} => request[q].key \in Keys

\* The inductive invariant.
IInv == TypeOK /\ KeyKnown /\ StaleEntryIsExcused

Locals == [pc : {"free", "get", "query", "set", "lost"}, at : Instances \cup {"none"},
           key : Keys \cup {"none"}, read : 0..MaxVersion]
Sweep == [todo : SUBSET Keys, hit : SUBSET Keys]

\* What a key whose entry is older than the announced version has for excuse.
Excused(k) == k \in late \cup missed \/ \E i \in alive, m \in Messages : k \in Pending(i, m)

-----------------------------------------------------------------------------
\* Only one request's locals change.
LEMMA RequestChanges ==
  ASSUME IInv, NEW q \in Requests, NEW L \in Locals, request' = [request EXCEPT ![q] = L],
         L.pc \in {"get", "query", "set"} => L.key \in Keys,
         UNCHANGED <<version, cache, redisUp, alive, sweep, messages, outages, history>>
  PROVE  IInv'
<1>1. /\ request' \in [Requests -> Locals] /\ request'[q] = L
      /\ \A r \in Requests : r # q => request'[r] = request[r]
  BY DEF IInv, TypeOK, Locals
<1>2. TypeOK'
  BY <1>1 DEF IInv, TypeOK, Locals, Messages, history
<1>3. KeyKnown'
  BY <1>1 DEF IInv, KeyKnown
<1>4. StaleEntryIsExcused'
  BY DEF IInv, StaleEntryIsExcused, Pending, history
<1> QED BY <1>2, <1>3, <1>4 DEF IInv

\* A request of key k goes on to pc with what it has read.
LEMMA MovesOn ==
  ASSUME NEW l \in Locals, NEW pc \in {"query", "set"}, NEW n \in 0..MaxVersion
  PROVE  /\ [l EXCEPT !.pc = pc] \in Locals /\ [l EXCEPT !.pc = pc, !.read = n] \in Locals
         /\ [l EXCEPT !.pc = pc].key = l.key /\ [l EXCEPT !.pc = pc, !.read = n].key = l.key
BY Zenon DEF Locals

\* A request that arrives has a key.
LEMMA Arrives ==
  ASSUME NEW l \in Locals, NEW i \in Instances, NEW k \in Keys
  PROVE  /\ [l EXCEPT !.pc = "get", !.at = i, !.key = k] \in Locals
         /\ [l EXCEPT !.pc = "get", !.at = i, !.key = k].key = k
BY Zenon DEF Locals

\* So do the locals between two requests.
LEMMA FreeIsLocals ==
  /\ Free \in Locals /\ Free.pc = "free"
  /\ [Free EXCEPT !.pc = "lost"] \in Locals /\ [Free EXCEPT !.pc = "lost"].pc = "lost"
BY CacheAssumption DEF Free, Locals

\* Entries that go need no excuse.
LEMMA Dropping ==
  ASSUME IInv, NEW K \in SUBSET Keys, Drop(K), sweep' \in [Instances -> [Messages -> Sweep]],
         UNCHANGED <<version, redisUp, alive, request, messages, outages, announced>>,
         \A i \in Instances, m \in Messages : Pending(i, m) \subseteq Pending(i, m)' \cup K
  PROVE  IInv'
<1>1. TypeOK'
  BY CacheAssumption DEF IInv, TypeOK, Drop, Sweep, Messages
<1>2. KeyKnown'
  BY DEF IInv, KeyKnown
<1>3. StaleEntryIsExcused'
  <2> SUFFICES ASSUME NEW k \in Keys, cache'[k] # 0, cache'[k] < announced
               PROVE  Excused(k)'
    BY DEF StaleEntryIsExcused, Excused
  <2>1. k \notin K /\ cache'[k] = cache[k]
    BY DEF Drop
  <2>2. Excused(k)
    BY <2>1 DEF IInv, StaleEntryIsExcused, Excused
  <2>3. CASE k \in late \cup missed
    BY <2>1, <2>3 DEF Excused, Drop
  <2>4. CASE \E i \in alive, m \in Messages : k \in Pending(i, m)
    <3>1. PICK i \in alive, m \in Messages : k \in Pending(i, m)
      BY <2>4
    <3>2. i \in Instances
      BY DEF IInv, TypeOK
    <3>3. k \in Pending(i, m)' /\ i \in alive'
      BY <2>1, <3>1, <3>2
    <3> QED BY <3>3 DEF Excused, Messages
  <2> QED BY <2>2, <2>3, <2>4 DEF Excused
<1> QED BY <1>1, <1>2, <1>3 DEF IInv

\* One sweep goes on to S.
LEMMA SweepChanges ==
  ASSUME IInv, NEW i \in Instances, NEW m \in Messages, NEW S \in Sweep,
         sweep' = [sweep EXCEPT ![i][m] = S]
  PROVE  /\ sweep' \in [Instances -> [Messages -> Sweep]] /\ sweep'[i][m] = S
         /\ \A j \in Instances, n \in Messages : j # i \/ n # m => sweep'[j][n] = sweep[j][n]
BY DEF IInv, TypeOK, Sweep

\* A SCAN leaves nothing out of what the sweep still has to look at.
LEMMA ScanIsSafe ==
  ASSUME IInv, NEW i \in Instances, NEW m \in Messages, Scan(i, m)
  PROVE  IInv'
<1>1. PICK visited \in SUBSET sweep[i][m].todo :
        sweep' = [sweep EXCEPT ![i][m] = [todo |-> sweep[i][m].todo \ visited,
                                          hit |-> {k \in visited : cache[k] # 0}]]
  BY DEF Scan
<1> DEFINE S == [todo |-> sweep[i][m].todo \ visited, hit |-> {k \in visited : cache[k] # 0}]
<1>2. sweep[i][m] \in Sweep /\ sweep[i][m].todo \subseteq Keys
  BY DEF IInv, TypeOK, Sweep
<1>3. S \in Sweep /\ S.todo = sweep[i][m].todo \ visited /\ S.hit = {k \in visited : cache[k] # 0}
  BY <1>2 DEF Sweep
<1>a. sweep' = [sweep EXCEPT ![i][m] = S]
  BY <1>1
<1> HIDE DEF S
<1>4. /\ sweep' \in [Instances -> [Messages -> Sweep]] /\ sweep'[i][m] = S
      /\ \A j \in Instances, n \in Messages : j # i \/ n # m => sweep'[j][n] = sweep[j][n]
  <2>1. S \in Sweep
    BY <1>3
  <2> QED BY <2>1, <1>a, SweepChanges, ZenonT(60)
<1>5. /\ UNCHANGED <<version, cache, redisUp, alive, request, messages, outages, history>>
      /\ sweep[i][m].hit = {}
  BY DEF Scan
<1>6. TypeOK' /\ KeyKnown'
  BY <1>4, <1>5 DEF IInv, TypeOK, KeyKnown, Sweep, Messages, history
<1>7. StaleEntryIsExcused'
  <2> SUFFICES ASSUME NEW k \in Keys, cache[k] # 0, cache[k] < announced
               PROVE  Excused(k)'
    BY <1>5 DEF StaleEntryIsExcused, Excused, history
  <2>1. Excused(k)
    BY DEF IInv, StaleEntryIsExcused, Excused
  <2>2. CASE k \in late \cup missed
    BY <1>5, <2>2 DEF Excused, history
  <2>3. CASE \E j \in alive, n \in Messages : k \in Pending(j, n)
    <3>1. PICK j \in alive, n \in Messages : k \in Pending(j, n)
      BY <2>3
    <3>2. k \in Pending(j, n)'
      <4>1. j \in Instances
        BY DEF IInv, TypeOK
      <4>2. CASE j = i /\ n = m
        BY <1>3, <1>4, <1>5, <3>1, <4>2 DEF Pending
      <4>3. CASE j # i \/ n # m
        BY <1>4, <3>1, <4>1, <4>3 DEF Pending
      <4> QED BY <4>2, <4>3
    <3> QED BY <1>5, <3>2 DEF Excused, Messages
  <2> QED BY <2>1, <2>2, <2>3 DEF Excused
<1> QED BY <1>6, <1>7 DEF IInv

\* A DEL takes away what it takes from the sweep.
LEMMA DeleteIsSafe ==
  ASSUME IInv, NEW i \in Instances, NEW m \in Messages, Delete(i, m)
  PROVE  IInv'
<1> DEFINE S == [sweep[i][m] EXCEPT !.hit = {}]
<1>1. sweep[i][m] \in Sweep
  BY DEF IInv, TypeOK, Sweep
<1>2. S \in Sweep /\ S.todo = sweep[i][m].todo /\ S.hit = {} /\ sweep[i][m].hit \in SUBSET Keys
  BY <1>1 DEF Sweep
<1>3. sweep' = [sweep EXCEPT ![i][m] = S]
  BY DEF Delete
<1> HIDE DEF S
<1>4. /\ sweep' \in [Instances -> [Messages -> Sweep]] /\ sweep'[i][m] = S
      /\ \A j \in Instances, n \in Messages : j # i \/ n # m => sweep'[j][n] = sweep[j][n]
  <2>1. S \in Sweep
    BY <1>2
  <2> QED BY <1>3, <2>1, SweepChanges, ZenonT(60)
<1>5. \A j \in Instances, n \in Messages : Pending(j, n) \subseteq Pending(j, n)' \cup sweep[i][m].hit
  BY <1>2, <1>4 DEF Pending
<1> QED BY <1>2, <1>4, <1>5, Dropping DEF Delete

\* A message that reaches no one excuses every entry there is; one that reaches
\* somebody leaves every key to a sweep.
LEMMA AnnounceIsSafe ==
  ASSUME IInv, Announce
  PROVE  IInv'
<1> DEFINE S == [todo |-> Keys, hit |-> {}]
<1>a. messages + 1 \in Messages
  BY CacheAssumption DEF Announce, IInv, TypeOK, Messages
<1>b. PICK n \in Messages : n = messages + 1
  BY <1>a
<1>1. PICK receivers \in SUBSET alive :
        /\ sweep' = [i \in Instances |-> IF i \in receivers THEN [sweep[i] EXCEPT ![n] = S] ELSE sweep[i]]
        /\ missed' = IF receivers = {} THEN {k \in Keys : cache[k] # 0} ELSE missed
  BY <1>b DEF Announce
<1>2. /\ messages < MaxMessages /\ messages' = n /\ announced' = version
      /\ UNCHANGED <<version, cache, redisUp, alive, request, outages, late>>
  BY <1>b DEF Announce
<1>3. n \in Messages /\ n \in 0..MaxMessages
  BY CacheAssumption DEF Messages
<1>4. S \in Sweep /\ S.todo = Keys
  BY DEF Sweep
<1> HIDE DEF S
<1>5. sweep' \in [Instances -> [Messages -> Sweep]]
  <2>1. ASSUME NEW i \in Instances PROVE [sweep[i] EXCEPT ![n] = S] \in [Messages -> Sweep]
    BY <1>4 DEF IInv, TypeOK, Sweep
  <2> QED BY <1>1, <2>1 DEF IInv, TypeOK, Sweep
<1>6. TypeOK'
  BY <1>1, <1>2, <1>3, <1>5 DEF IInv, TypeOK, Sweep, Messages
<1>7. KeyKnown'
  BY <1>2 DEF IInv, KeyKnown
<1>8. StaleEntryIsExcused'
  <2>1. CASE receivers = {}
    BY <1>1, <1>2, <2>1 DEF StaleEntryIsExcused
  <2>2. CASE receivers # {}
    <3>1. PICK i \in receivers : i \in alive /\ i \in Instances
      BY <2>2 DEF IInv, TypeOK
    <3>2. sweep'[i][n] = S
      BY <1>1, <1>3, <3>1 DEF IInv, TypeOK
    <3>3. \A k \in Keys : k \in Pending(i, n)'
      BY <1>4, <3>2 DEF Pending
    <3> QED BY <1>2, <1>3, <3>1, <3>3 DEF StaleEntryIsExcused, Messages
  <2> QED BY <2>1, <2>2
<1> QED BY <1>6, <1>7, <1>8 DEF IInv

\* A sweep that dies leaves what it had not reached to the missed ones.
LEMMA SweepFailsIsSafe ==
  ASSUME IInv, NEW i \in Instances, SweepFails(i)
  PROVE  IInv'
<1> DEFINE lost == {k \in UNION {Pending(i, m) : m \in Messages} : cache[k] # 0}
<1>1. /\ alive' = alive \ {i} /\ missed' = missed \cup lost
      /\ sweep' = [sweep EXCEPT ![i] = [m \in Messages |-> NoSweep]]
      /\ request' = [q \in Requests |->
                   IF request[q].at = i THEN [Free EXCEPT !.pc = "lost"] ELSE request[q]]
      /\ UNCHANGED <<version, cache, redisUp, messages, outages, announced, late>>
  BY DEF SweepFails
<1>2. /\ \A k : k \in lost <=> cache[k] # 0 /\ \E m \in Messages : k \in Pending(i, m)
      /\ lost \subseteq Keys
  BY DEF IInv, TypeOK, Pending
<1> HIDE DEF lost
<1>3. /\ sweep' \in [Instances -> [Messages -> Sweep]]
      /\ \A j \in Instances : j # i => sweep'[j] = sweep[j]
  <2>1. [m \in Messages |-> NoSweep] \in [Messages -> Sweep]
    BY DEF NoSweep, Sweep
  <2> QED BY <1>1, <2>1 DEF IInv, TypeOK, Sweep
<1>4. request' \in [Requests -> Locals] /\ KeyKnown'
  BY <1>1, FreeIsLocals DEF IInv, TypeOK, Locals, KeyKnown
<1>5. TypeOK'
  BY <1>1, <1>2, <1>3, <1>4 DEF IInv, TypeOK, Locals, Sweep, Messages
<1>6. StaleEntryIsExcused'
  <2> SUFFICES ASSUME NEW k \in Keys, cache[k] # 0, cache[k] < announced
               PROVE  Excused(k)'
    BY <1>1 DEF StaleEntryIsExcused, Excused
  <2>1. Excused(k)
    BY DEF IInv, StaleEntryIsExcused, Excused
  <2>2. CASE k \in late \cup missed
    BY <1>1, <2>2 DEF Excused
  <2>3. CASE \E j \in alive, n \in Messages : k \in Pending(j, n)
    <3>1. PICK j \in alive, n \in Messages : k \in Pending(j, n)
      BY <2>3
    <3>2. CASE j = i
      BY <1>1, <1>2, <3>1, <3>2 DEF Excused
    <3>3. CASE j # i
      <4>1. j \in Instances
        BY DEF IInv, TypeOK
      <4>2. k \in Pending(j, n)' /\ j \in alive'
        BY <1>1, <1>3, <3>1, <3>3, <4>1 DEF Pending
      <4> QED BY <4>2 DEF Excused, Messages
    <3> QED BY <3>2, <3>3
  <2> QED BY <2>1, <2>2, <2>3 DEF Excused
<1> QED BY <1>4, <1>5, <1>6 DEF IInv

\* An entry that is filled is as new as the announced version, or late.
LEMMA CacheSetIsSafe ==
  ASSUME IInv, NEW q \in Requests, CacheSet(q)
  PROVE  IInv'
<1> DEFINE k == request[q].key
           n == request[q].read
<1>1. k \in Keys /\ n \in 0..MaxVersion
  BY DEF CacheSet, IInv, KeyKnown, TypeOK
<1>2. /\ request' = [request EXCEPT ![q] = Free]
      /\ UNCHANGED <<version, redisUp, alive, sweep, messages, outages, announced>>
  BY DEF CacheSet
<1>3. \/ UNCHANGED <<cache, late, missed>>
      \/ /\ cache' = [cache EXCEPT ![k] = n] /\ missed' = missed \ {k}
         /\ late' = IF n < announced THEN late \cup {k} ELSE late \ {k}
  BY DEF CacheSet
<1> HIDE DEF k, n
<1>4. request' \in [Requests -> Locals] /\ KeyKnown'
  BY <1>2, FreeIsLocals DEF IInv, TypeOK, Locals, KeyKnown
<1>5. TypeOK'
  BY <1>1, <1>2, <1>3, <1>4 DEF IInv, TypeOK, Locals, Messages
<1>6. StaleEntryIsExcused'
  <2> SUFFICES ASSUME NEW j \in Keys, cache'[j] # 0, cache'[j] < announced
               PROVE  Excused(j)'
    BY <1>2 DEF StaleEntryIsExcused, Excused
  <2>1. CASE UNCHANGED <<cache, late, missed>>
    BY <1>2, <2>1 DEF IInv, StaleEntryIsExcused, Excused, Pending, Messages
  <2> DEFINE filled == /\ cache' = [cache EXCEPT ![k] = n] /\ missed' = missed \ {k}
                       /\ late' = IF n < announced THEN late \cup {k} ELSE late \ {k}
  <2>2. CASE filled /\ j = k
    <3>1. cache'[j] = n
      BY <1>1, <2>2 DEF IInv, TypeOK
    <3> QED BY <2>2, <3>1 DEF Excused
  <2>3. CASE filled /\ j # k
    <3>1. cache'[j] = cache[j] /\ (j \in late \cup missed => j \in (late \cup missed)')
      BY <2>3 DEF IInv, TypeOK
    <3> QED BY <1>2, <3>1 DEF IInv, StaleEntryIsExcused, Excused, Pending, Messages
  <2> QED BY <1>3, <2>1, <2>2, <2>3
<1> QED BY <1>4, <1>5, <1>6 DEF IInv

-----------------------------------------------------------------------------
\* The invariant holds at the start.
LEMMA InitIsSafe == Init => IInv
BY CacheAssumption
   DEF Init, IInv, TypeOK, KeyKnown, StaleEntryIsExcused, Free, NoSweep, Messages

\* Every step keeps the invariant.
LEMMA NextIsSafe == IInv /\ [Next]_vars => IInv'
<1> SUFFICES ASSUME IInv, [Next]_vars PROVE IInv'
  OBVIOUS
<1> USE CacheAssumption
<1>1. CASE Write \/ Outage \/ Recover
  <2>1. /\ version' \in {version, version + 1} /\ version' \in 1..MaxVersion
        /\ outages' \in 0..MaxOutages /\ redisUp' \in BOOLEAN
        /\ UNCHANGED <<cache, alive, sweep, request, messages, history>>
    <3>1. CASE Write
      BY <3>1 DEF Write, IInv, TypeOK
    <3>2. CASE Outage
      <4>1. outages' \in 0..MaxOutages
        BY <3>2 DEF Outage, IInv, TypeOK
      <4> QED BY <3>2, <4>1 DEF Outage, IInv, TypeOK
    <3>3. CASE Recover
      BY <3>3 DEF Recover, IInv, TypeOK
    <3> QED BY <1>1, <3>1, <3>2, <3>3
  <2>2. TypeOK' /\ KeyKnown'
    BY <2>1 DEF IInv, TypeOK, KeyKnown, Messages, history
  <2>3. StaleEntryIsExcused'
    BY <2>1 DEF IInv, StaleEntryIsExcused, Pending, Messages, history
  <2> QED BY <2>2, <2>3 DEF IInv
<1>2. CASE Announce
  BY <1>2, AnnounceIsSafe
<1>3. ASSUME NEW i \in Instances, NEW m \in Messages, Scan(i, m) PROVE IInv'
  BY <1>3, ScanIsSafe
<1>4. ASSUME NEW i \in Instances, NEW m \in Messages, Delete(i, m) PROVE IInv'
  BY <1>4, DeleteIsSafe
<1>5. ASSUME NEW i \in Instances, SweepFails(i) PROVE IInv'
  BY <1>5, SweepFailsIsSafe
<1>6. ASSUME NEW i \in Instances, Restart(i) PROVE IInv'
  <2>1. /\ alive' = alive \cup {i}
        /\ UNCHANGED <<version, cache, redisUp, sweep, request, messages, outages, history>>
    BY <1>6 DEF Restart
  <2>2. TypeOK' /\ KeyKnown'
    BY <2>1 DEF IInv, TypeOK, KeyKnown, Messages, history
  <2>3. StaleEntryIsExcused'
    BY <2>1 DEF IInv, StaleEntryIsExcused, Pending, Messages, history
  <2> QED BY <2>2, <2>3 DEF IInv
<1>7. ASSUME NEW q \in Requests, Arrive(q) PROVE IInv'
  <2>1. PICK i \in alive, k \in Keys :
          request' = [request EXCEPT ![q] = [Free EXCEPT !.pc = "get", !.at = i, !.key = k]]
    BY <1>7 DEF Arrive
  <2> DEFINE L == [Free EXCEPT !.pc = "get", !.at = i, !.key = k]
  <2>2. L \in Locals /\ L.key = k
    <3>1. i \in Instances
      BY DEF IInv, TypeOK
    <3>2. Free \in Locals
      BY FreeIsLocals
    <3>3. k \in Keys
      OBVIOUS
    <3> QED BY <3>1, <3>2, <3>3, Arrives, Zenon
  <2>3. UNCHANGED <<version, cache, redisUp, alive, sweep, messages, outages, history>>
    BY <1>7 DEF Arrive
  <2> HIDE DEF L
  <2> QED BY <2>1, <2>2, <2>3, RequestChanges DEF L
<1>8. ASSUME NEW q \in Requests, CacheGet(q) PROVE IInv'
  <2> DEFINE L == [request[q] EXCEPT !.pc = "query"]
  <2>1. request[q] \in Locals /\ request[q].key \in Keys
    BY <1>8 DEF CacheGet, IInv, TypeOK, KeyKnown, Locals
  <2>2. L \in Locals /\ L.key \in Keys
    <3>1. 0 \in 0..MaxVersion
      OBVIOUS
    <3> QED BY <2>1, <3>1, MovesOn
  <2>3. request' = [request EXCEPT ![q] = Free] \/ request' = [request EXCEPT ![q] = L]
    BY <1>8 DEF CacheGet
  <2>4. UNCHANGED <<version, cache, redisUp, alive, sweep, messages, outages, history>>
    BY <1>8 DEF CacheGet
  <2> HIDE DEF L
  <2>5. CASE request' = [request EXCEPT ![q] = Free]
    BY <2>4, <2>5, FreeIsLocals, RequestChanges
  <2>6. CASE request' = [request EXCEPT ![q] = L]
    BY <2>2, <2>4, <2>6, RequestChanges
  <2> QED BY <2>3, <2>5, <2>6
<1>9. ASSUME NEW q \in Requests, Query(q) PROVE IInv'
  <2> DEFINE L == [request[q] EXCEPT !.pc = "set", !.read = version]
  <2>1. request[q] \in Locals /\ request[q].key \in Keys /\ version \in 0..MaxVersion
    BY <1>9 DEF Query, IInv, TypeOK, KeyKnown, Locals
  <2>2. L \in Locals /\ L.key \in Keys
    BY <2>1, MovesOn
  <2>3. request' = [request EXCEPT ![q] = L]
    BY <1>9 DEF Query
  <2>4. UNCHANGED <<version, cache, redisUp, alive, sweep, messages, outages, history>>
    BY <1>9 DEF Query
  <2> HIDE DEF L
  <2> QED BY <2>2, <2>3, <2>4, RequestChanges
<1>10. ASSUME NEW q \in Requests, CacheSet(q) PROVE IInv'
  BY <1>10, CacheSetIsSafe
<1>11. ASSUME NEW k \in Keys, Expire(k) PROVE IInv'
  <2>1. \A i \in Instances, m \in Messages : Pending(i, m) \subseteq Pending(i, m)' \cup {k}
    BY <1>11 DEF Expire, Pending
  <2>2. sweep' \in [Instances -> [Messages -> Sweep]]
    BY <1>11 DEF Expire, IInv, TypeOK, Sweep
  <2> QED BY <1>11, <2>1, <2>2, Dropping DEF Expire
<1>12. CASE UNCHANGED vars
  BY <1>12 DEF vars, history, IInv, TypeOK, KeyKnown, StaleEntryIsExcused, Pending, Messages
<1> QED BY <1>1, <1>2, <1>3, <1>4, <1>5, <1>6, <1>7, <1>8, <1>9, <1>10, <1>11, <1>12
        DEF Next, Serve

\* What excuses a stale entry, and what a request still holds, is kept by every step.
THEOREM Safety == Spec => []IInv
<1> QED BY InitIsSafe, NextIsSafe, PTL DEF Spec

\* The state keeps its type.
THEOREM TypeCorrect == Spec => []TypeOK
BY Safety, PTL DEF IInv

\* Whatever outlives an invalidation is late, missed or about to be swept.
THEOREM StaleEntriesAreExcused == Spec => []StaleEntryIsExcused
BY Safety, PTL DEF IInv

-----------------------------------------------------------------------------
\* A set of numbers has a least one: what a recursive function computes for
\* every number follows from the least number for which it would not.
LEMMA LeastNumber ==
  ASSUME NEW T \in SUBSET Nat, T # {}
  PROVE  \E x \in T : \A y \in T : x <= y
<1>1. PICK x \in T : \A y \in T : <<y, x>> \notin OpToRel(<, Nat)
  BY NatLessThanWellFounded, WFMin
<1>2. \A y \in T : ~(y < x)
  BY <1>1 DEF OpToRel
<1> QED BY <1>2

\* How many come before each, in an order given by its pairs.
RankOf(S, prec) == [x \in S |-> Cardinality({y \in S : <<y, x>> \in prec})]

\* Ranks under a total order number the set from one, in that order.
LEMMA Ranked ==
  ASSUME NEW S, IsFiniteSet(S), NEW prec \in SUBSET (S \X S),
         \A x \in S : <<x, x>> \notin prec,
         \A x, y, z \in S : <<x, y>> \in prec /\ <<y, z>> \in prec => <<x, z>> \in prec,
         \A x, y \in S : x # y => <<x, y>> \in prec \/ <<y, x>> \in prec
  PROVE  /\ Cardinality(S) \in Nat
         /\ ByRank(RankOf(S, prec)) \in [1..Cardinality(S) -> S]
         /\ \A m, n \in 1..Cardinality(S) :
              m < n => <<ByRank(RankOf(S, prec))[m], ByRank(RankOf(S, prec))[n]>> \in prec
         /\ \A x \in S : \E n \in 1..Cardinality(S) : ByRank(RankOf(S, prec))[n] = x
<1> DEFINE N == Cardinality(S)
           rank == RankOf(S, prec)
           Below(x) == {y \in S : <<y, x>> \in prec}
<1>1. N \in Nat
  BY FS_CardinalityType
<1>2. ASSUME NEW x \in S
      PROVE  IsFiniteSet(Below(x)) /\ Cardinality(Below(x)) \in 0..(N - 1) /\ rank[x] = Cardinality(Below(x))
  <2>1. IsFiniteSet(S \ {x}) /\ Cardinality(S \ {x}) = N - 1
    BY FS_RemoveElement
  <2>2. Below(x) \subseteq S \ {x}
    OBVIOUS
  <2>3. IsFiniteSet(Below(x)) /\ Cardinality(Below(x)) <= N - 1
    <3> HIDE DEF Below, N
    <3>1. Below(x) \in SUBSET (S \ {x})
      BY <2>2
    <3> QED BY <2>1, <3>1, FS_Subset
  <2>4. Cardinality(Below(x)) \in Nat
    BY <2>3, FS_CardinalityType
  <2>5. rank[x] = Cardinality(Below(x))
    BY DEF RankOf
  <2> HIDE DEF Below, N
  <2> QED BY <1>1, <2>3, <2>4, <2>5
<1>a. \A x \in S : rank[x] \in Int /\ 0 <= rank[x] /\ rank[x] < N
  <2> HIDE DEF N, Below
  <2>1. ASSUME NEW x \in S PROVE rank[x] \in Int /\ 0 <= rank[x] /\ rank[x] < N
    BY <1>1, <1>2
  <2> QED BY <2>1
<1>3. ASSUME NEW x \in S, NEW y \in S, <<x, y>> \in prec
      PROVE  rank[x] < rank[y]
  <2>1. Below(x) \subseteq Below(y) /\ x \in Below(y) /\ x \notin Below(x)
    BY <1>3
  <2>2. Below(x) # Below(y) /\ Below(x) \in SUBSET Below(y)
    BY <2>1
  <2>3. Cardinality(Below(x)) <= Cardinality(Below(y)) /\ Cardinality(Below(x)) # Cardinality(Below(y))
    <3> HIDE DEF Below
    <3> QED BY <1>2, <2>2, FS_Subset
  <2> HIDE DEF Below
  <2> QED BY <1>2, <2>3
<1>4. rank \in [S -> 0..(N - 1)] /\ DOMAIN rank = S
  <2> HIDE DEF N, Below
  <2>1. rank = [x \in S |-> rank[x]]
    BY DEF RankOf
  <2>2. \A x \in S : rank[x] \in 0..(N - 1)
    BY <1>2
  <2> HIDE DEF rank
  <2> QED BY <2>1, <2>2
<1>5. \A x, y \in S : rank[x] = rank[y] => x = y
  <2> HIDE DEF N, Below
  <2> SUFFICES ASSUME NEW x \in S, NEW y \in S, x # y PROVE rank[x] # rank[y]
    OBVIOUS
  <2>1. rank[x] \in Int /\ rank[y] \in Int
    BY <1>a
  <2>2. <<x, y>> \in prec \/ <<y, x>> \in prec
    OBVIOUS
  <2>3. rank[x] < rank[y] \/ rank[y] < rank[x]
    BY <1>3, <2>2
  <2> QED BY <2>1, <2>3
<1>6. rank \in Surjection(S, 0..(N - 1))
  <2> HIDE DEF N, Below
  <2>1. rank \in Injection(S, 0..(N - 1))
    BY <1>4, <1>5 DEF Injection, IsInjective
  <2>2. IsFiniteSet(0..(N - 1)) /\ Cardinality(0..(N - 1)) = N
    <3>1. 0 \in Int /\ N - 1 \in Int
      BY <1>1
    <3>2. IsFiniteSet(0..(N - 1)) /\ Cardinality(0..(N - 1)) = IF 0 > N - 1 THEN 0 ELSE N - 1 - 0 + 1
      BY <3>1, FS_Interval
    <3> QED BY <1>1, <3>2
  <2> QED BY <2>1, <2>2, FS_Injection DEF N
<1>7. \A n \in 1..N : \E x \in S : rank[x] = n - 1
  BY <1>1, <1>6 DEF Surjection, N
<1> DEFINE B == ByRank(rank)
<1>8. B = [n \in 1..N |-> CHOOSE x \in S : rank[x] = n - 1]
  BY <1>4 DEF ByRank
<1> HIDE DEF B
<1>9. \A n \in 1..N : B[n] \in S /\ rank[B[n]] = n - 1
  <2> HIDE DEF N
  <2> QED BY <1>7, <1>8
<1>10. B \in [1..N -> S]
  <2> HIDE DEF N
  <2> QED BY <1>8, <1>9
<1>11. \A m, n \in 1..N : m < n => <<B[m], B[n]>> \in prec
  <2> HIDE DEF N, Below
  <2> SUFFICES ASSUME NEW m \in 1..N, NEW n \in 1..N, m < n PROVE <<B[m], B[n]>> \in prec
    OBVIOUS
  <2>1. B[m] \in S /\ B[n] \in S /\ rank[B[m]] = m - 1 /\ rank[B[n]] = n - 1
    BY <1>9
  <2>2. ~(rank[B[n]] < rank[B[m]]) /\ rank[B[m]] # rank[B[n]]
    BY <1>1, <2>1
  <2> QED BY <1>3, <2>1, <2>2
<1>12. ASSUME NEW x \in S PROVE \E n \in 1..N : B[n] = x
  <2> HIDE DEF N, Below
  <2>1. rank[x] + 1 \in 1..N /\ (rank[x] + 1) - 1 = rank[x]
    BY <1>1, <1>a
  <2>2. B[rank[x] + 1] \in S /\ rank[B[rank[x] + 1]] = rank[x]
    BY <1>9, <2>1
  <2> QED BY <1>5, <2>1, <2>2
<1> QED BY <1>1, <1>10, <1>11, <1>12 DEF B


\* The rows of a table: numbers to compare, and ids that tell them apart.
LEMMA TableRows ==
  ASSUME NEW table \in Tables
  PROVE  /\ IsFiniteSet(table) /\ Cardinality(table) <= Cardinality(Rows)
         /\ \A a \in table : a.id \in Int /\ a.score \in Int
         /\ \A a, b \in table : a.id = b.id => a = b
<1> DEFINE Row(c, r) == [id |-> r, score |-> c[r].score, status |-> c[r].status, text |-> c[r].text]
<1>1. PICK c \in [Rows -> Columns] : table = {Row(c, r) : r \in Rows}
  BY DEF Tables
<1>2. \A r \in Rows : r \in Int /\ c[r].score \in Int
  <2>1. ASSUME NEW r \in Rows PROVE c[r] \in Columns
    OBVIOUS
  <2>2. ASSUME NEW col \in Columns PROVE col.score \in Scores
    BY DEF Columns
  <2>3. ASSUME NEW r \in Rows PROVE r \in Int /\ c[r].score \in Int
    <3>1. c[r].score \in Scores
      BY <2>1, <2>2
    <3>2. r \in Nat /\ c[r].score \in Int
      BY <3>1, ListAssumption
    <3> QED BY <3>2
  <2> QED BY <2>3
<1>3. \A a \in table : a.id \in Rows /\ a = Row(c, a.id) /\ a.score = c[a.id].score
  BY <1>1
<1>4. \A a, b \in table : a.id = b.id => a = b
  <2> HIDE DEF Row
  <2> QED BY <1>3
<1>5. \A a \in table : a.id \in Int /\ a.score \in Int
  <2> HIDE DEF Row
  <2> QED BY <1>2, <1>3
<1> DEFINE f == [a \in table |-> a.id]
<1>6. f \in Injection(table, Rows)
  BY <1>3, <1>4 DEF Injection, IsInjective
<1> HIDE DEF f
<1> QED BY <1>4, <1>5, <1>6, FS_Injection, ListAssumption

\* The list is what the query selects, each row once, in the order of Before.
LEMMA Listed ==
  ASSUME NEW table \in Tables, NEW keywords
  PROVE  \E N \in Nat :
           /\ N <= Cardinality(Rows)
           /\ Listing(table, keywords) \in [1..N -> {row \in table : Selected(row, keywords)}]
           /\ \A m, n \in 1..N : m < n =>
                Before(Listing(table, keywords)[m], Listing(table, keywords)[n])
           /\ \A row \in table : Selected(row, keywords) =>
                \E n \in 1..N : Listing(table, keywords)[n] = row
<1> DEFINE S == {row \in table : Selected(row, keywords)}
           prec == {p \in S \X S : Before(p[1], p[2])}
           rank == RankOf(S, prec)
<1>1. /\ IsFiniteSet(S) /\ Cardinality(S) <= Cardinality(table)
      /\ S \subseteq table
  <2>1. S \in SUBSET table
    OBVIOUS
  <2> HIDE DEF S
  <2> QED BY <2>1, TableRows, FS_Subset
<1>2. /\ \A a \in S : a.id \in Int /\ a.score \in Int
      /\ \A a, b \in S : a # b => a.id # b.id
  <2> HIDE DEF S
  <2> QED BY <1>1, TableRows
<1>3. \A a, b \in S : <<a, b>> \in prec <=> Before(a, b)
  <2> HIDE DEF S
  <2> QED OBVIOUS
<1>4. Listing(table, keywords) = ByRank(rank)
  <2>1. \A x \in S : {y \in S : <<y, x>> \in prec} = {y \in S : Before(y, x)}
    BY <1>3
  <2>2. rank = [x \in S |-> Cardinality({y \in S : Before(y, x)})]
    <3> HIDE DEF S, prec
    <3> QED BY <2>1 DEF RankOf
  <2> QED BY <2>2 DEF Listing
<1>5. /\ \A x \in S : <<x, x>> \notin prec
      /\ \A x, y, z \in S : <<x, y>> \in prec /\ <<y, z>> \in prec => <<x, z>> \in prec
      /\ \A x, y \in S : x # y => <<x, y>> \in prec \/ <<y, x>> \in prec
  <2> HIDE DEF S, prec
  <2>1. \A x \in S : ~Before(x, x)
    BY <1>2 DEF Before
  <2>2. ASSUME NEW x \in S, NEW y \in S, NEW z \in S, Before(x, y), Before(y, z)
        PROVE  Before(x, z)
    BY <1>2, <2>2 DEF Before
  <2>3. ASSUME NEW x \in S, NEW y \in S, x # y
        PROVE  Before(x, y) \/ Before(y, x)
    BY <1>2, <2>3 DEF Before
  <2> QED BY <1>3, <2>1, <2>2, <2>3
<1>6. prec \in SUBSET (S \X S)
  <2> HIDE DEF S
  <2> QED OBVIOUS
<1> DEFINE list == ByRank(rank)
           N == Cardinality(S)
<1>7. /\ N \in Nat /\ list \in [1..N -> S]
      /\ \A m, n \in 1..N : m < n => <<list[m], list[n]>> \in prec
      /\ \A x \in S : \E n \in 1..N : list[n] = x
  <2> HIDE DEF S, prec
  <2>1. IsFiniteSet(S)
    BY <1>1
  <2> QED BY <2>1, <1>5, <1>6, Ranked
<1> HIDE DEF list, N
<1>8. N <= Cardinality(Rows)
  <2>1. Cardinality(table) \in Nat /\ Cardinality(Rows) \in Nat
    BY TableRows, ListAssumption, FS_CardinalityType
  <2> QED BY <1>1, <1>7, <2>1, TableRows DEF N
<1>9. \A m, n \in 1..N : m < n => Before(list[m], list[n])
  <2> HIDE DEF S
  <2> QED BY <1>3, <1>7
<1>10. \A row \in table : Selected(row, keywords) => \E n \in 1..N : list[n] = row
  BY <1>7
<1>11. Listing(table, keywords) = list
  BY <1>4 DEF list
<1> QED BY <1>7, <1>8, <1>9, <1>10, <1>11


-----------------------------------------------------------------------------
\* g says what the first pieces of s make, put together.
Builds(g, s) ==
  g[1] = s[1] /\ \A i \in 1..Len(s) : i > 1 => g[i] = g[i - 1] \o s[i]

\* FlattenSeq is what it is built up to, piece by piece.
LEMMA Flattened ==
  ASSUME NEW s, NEW n \in Nat \ {0}, Len(s) = n, NEW g, Builds(g, s)
  PROVE  FlattenSeq(s) = g[n]
<1> DEFINE Eq(f) == f = [i \in 1..n |-> IF i = 1 THEN s[i] ELSE f[i - 1] \o s[i]]
           F == CHOOSE f : Eq(f)
<1>0. g[1] = s[1] /\ \A i \in 1..n : i > 1 => g[i] = g[i - 1] \o s[i]
  BY DEF Builds
<1>1. FlattenSeq(s) = F[n]
  BY DEF FlattenSeq
<1>2. \E f : Eq(f)
  <2> DEFINE h == [i \in 1..n |-> g[i]]
  <2>1. ASSUME NEW i \in 1..n
        PROVE  h[i] = IF i = 1 THEN s[i] ELSE h[i - 1] \o s[i]
    <3>1. CASE i = 1
      BY <1>0, <3>1
    <3>2. CASE i # 1
      <4>1. i > 1 /\ i - 1 \in 1..n
        BY <3>2
      <4>2. h[i - 1] = g[i - 1] /\ h[i] = g[i - 1] \o s[i]
        BY <1>0, <4>1
      <4> QED BY <3>2, <4>2
    <3> QED BY <3>1, <3>2
  <2>2. h = [i \in 1..n |-> h[i]]
    OBVIOUS
  <2> HIDE DEF h
  <2>3. h = [i \in 1..n |-> IF i = 1 THEN s[i] ELSE h[i - 1] \o s[i]]
    BY <2>1, <2>2
  <2> QED BY <2>3
<1>3. F = [i \in 1..n |-> IF i = 1 THEN s[i] ELSE F[i - 1] \o s[i]]
  <2>1. Eq(F)
    <3> HIDE DEF Eq
    <3> QED BY <1>2
  <2> HIDE DEF F
  <2> QED BY <2>1
<1> HIDE DEF F
<1> DEFINE wrong == {i \in 1..n : F[i] # g[i]}
<1>4. wrong = {}
  <2> SUFFICES ASSUME wrong # {} PROVE FALSE
    OBVIOUS
  <2>1. PICK i \in wrong : \A j \in wrong : i <= j
    <3>1. wrong \in SUBSET Nat
      OBVIOUS
    <3> HIDE DEF wrong
    <3> QED BY <3>1, LeastNumber
  <2>2. i \in 1..n /\ F[i] # g[i] /\ F[i] = IF i = 1 THEN s[i] ELSE F[i - 1] \o s[i]
    BY <1>3
  <2>3. i # 1
    BY <1>0, <2>2
  <2>4. i - 1 \in 1..n /\ i > 1
    BY <2>2, <2>3
  <2>5. i - 1 \notin wrong
    BY <2>1, <2>4
  <2>6. F[i - 1] = g[i - 1]
    BY <2>4, <2>5
  <2> QED BY <1>0, <2>2, <2>3, <2>4, <2>6
<1>5. n \in 1..n
  OBVIOUS
<1> QED BY <1>1, <1>4, <1>5

\* What is known of a list with one element.
LEMMA OneElement ==
  ASSUME NEW e
  PROVE  /\ Len(<<e>>) = 1 /\ <<e>>[1] = e /\ 1 \in DOMAIN <<e>>
         /\ \A S : \A x \in [1..1 -> S] : x[1] = e => x = <<e>>
OBVIOUS

\* Absent is no list of keywords.
LEMMA AbsentIsNoList ==
  /\ Absent # <<>>
  /\ \A n \in Nat : \A k : DOMAIN k = 1..n /\ (\A i \in 1..n : k[i] = <<k[i][1]>>) => k # Absent
<1>1. Len(Absent) = 1 /\ Absent[1] = <<>> /\ 1 \in DOMAIN Absent
  BY OneElement DEF Absent
<1>2. Len(<<>>) = 0
  OBVIOUS
<1>3. \A e : <<e>> # <<>>
  OBVIOUS
<1> QED BY <1>1, <1>2, <1>3

\* A list of one-word keywords is spelled as the list of their words.
LEMMA SpelledWords ==
  ASSUME NEW n \in Nat \ {0}, NEW E, NEW k \in [1..n -> {<<w>> : w \in E}]
  PROVE  /\ \A i \in 1..n : k[i] = <<k[i][1]>> /\ k[i][1] \in E
         /\ Spelled(k) = [i \in 1..n |-> k[i][1]]
<1>1. \A i \in 1..n : k[i] = <<k[i][1]>> /\ k[i][1] \in E
  OBVIOUS
<1> DEFINE g == [i \in 1..n |-> [j \in 1..i |-> k[j][1]]]
<1>2. g[1] = k[1]
  <2>1. g[1] = [j \in 1..1 |-> k[j][1]]
    OBVIOUS
  <2>2. 1..1 = {1}
    OBVIOUS
  <2> QED BY <1>1, <2>1, <2>2
<1>3. ASSUME NEW i \in 1..n, i > 1 PROVE g[i] = g[i - 1] \o k[i]
  <2> DEFINE a == [j \in 1..(i - 1) |-> k[j][1]]
             b == [j \in 1..i |-> k[j][1]]
             w == k[i][1]
  <2>1. g[i - 1] = a /\ g[i] = b
    BY <1>3
  <2>2. a \in Seq(E) /\ Len(a) = i - 1
    BY <1>1, <1>3
  <2>3. b \in Seq(E) /\ Len(b) = i
    BY <1>1, <1>3
  <2>4. w \in E /\ <<w>> \in Seq(E)
    BY <1>1
  <2>5. /\ a \o <<w>> \in Seq(E) /\ Len(a \o <<w>>) = i
        /\ \A j \in 1..i : (a \o <<w>>)[j] = b[j]
    <3>1. \A j \in 1..(i - 1) : a[j] = b[j]
      BY <1>3
    <3>2. b[i] = w
      BY <1>3
    <3> HIDE DEF a, b, w
    <3> QED BY <1>3, <2>2, <2>4, <3>1, <3>2
  <2>6. a \o <<w>> = b
    <3> HIDE DEF a, b, w
    <3> QED BY <2>2, <2>3, <2>5, SeqEqual
  <2> QED BY <1>1, <2>1, <2>6
<1>4. Len(k) = n
  OBVIOUS
<1> HIDE DEF g
<1>a. \A i \in 1..n : i > 1 => g[i] = g[i - 1] \o k[i]
  BY <1>3
<1>b. Builds(g, k)
  BY <1>2, <1>a, <1>4 DEF Builds
<1>5. FlattenSeq(k) = g[n]
  BY <1>b, <1>4, Flattened
<1>6. k # <<>>
  BY <1>4
<1>7. k # Absent
  BY <1>1, AbsentIsNoList
<1> QED BY <1>1, <1>5, <1>6, <1>7 DEF Spelled, g


-----------------------------------------------------------------------------
\* Lists of one-word keywords of any length: no comma in a word.
KeywordLists ==
  UNION {[1..n -> {<<w>> : w \in Words \cup {Blank}}] : n \in Nat}

\* The word that is spelled like no keywords at all.
Undefined == << <<"undefined">> >>

\* Functions of one domain that agree everywhere are equal.
LEMMA SameEverywhere ==
  ASSUME NEW S, NEW D, NEW k \in [D -> S], NEW l \in [D -> S],
         \A j \in D : k[j] = l[j]
  PROVE  k = l
OBVIOUS

\* A pair is a list of two.
LEMMA TwoElements ==
  ASSUME NEW S, NEW a \in S, NEW b \in S
  PROVE  Len(<<a, b>>) = 2 /\ <<a, b>> \in [1..2 -> S]
<1>1. <<a, b>> \in Seq(S) /\ Len(<<a, b>>) = 2
  OBVIOUS
<1> QED BY <1>1, LenProperties

\* A function into a set is one into any larger set.
LEMMA WiderRange ==
  ASSUME NEW D, NEW S, NEW T, S \subseteq T, NEW f \in [D -> S]
  PROVE  f \in [D -> T]
OBVIOUS

\* What is spelled as one word is the list of that word.
LEMMA OneWordSpelled ==
  ASSUME NEW E, NEW v, NEW i \in Nat \ {0}, NEW x \in [1..i -> {<<w>> : w \in E}], Spelled(x) = <<v>>
  PROVE  x = << <<v>> >>
<1>a. /\ Spelled(x) = [j \in 1..i |-> x[j][1]]
      /\ \A j \in 1..i : x[j] = <<x[j][1]>>
  BY SpelledWords
<1> DEFINE words == [j \in 1..i |-> x[j][1]]
<1>1. words = <<v>>
  BY <1>a
<1>2. i = 1
  <2>1. Len(words) = i
    OBVIOUS
  <2>2. Len(<<v>>) = 1
    OBVIOUS
  <2> HIDE DEF words
  <2> QED BY <1>1, <2>1, <2>2
<1>3. x[1][1] = v
  <2>1. words[1] = x[1][1]
    BY <1>2
  <2> HIDE DEF words
  <2> QED BY <1>1, <2>1
<1>4. x[1] = <<x[1][1]>>
  BY <1>a, <1>2
<1>5. x \in [1..1 -> {<<w>> : w \in E}] /\ x[1] = <<v>>
  BY <1>2, <1>3, <1>4
<1> DEFINE S == {<<w>> : w \in E}
           e == <<v>>
<1> HIDE DEF S, e
<1>6. x \in [1..1 -> S] /\ x[1] = e
  BY <1>5 DEF S, e
<1>7. x = <<e>>
  BY <1>6, OneElement
<1> QED BY <1>7 DEF e

\* Two lists with one spelling are the same, but for the empty list and the
\* list of the empty word.
LEMMA SpellingDecides ==
  ASSUME NEW k \in KeywordLists, NEW l \in KeywordLists, Spelled(k) = Spelled(l)
  PROVE  k = l \/ {k, l} \subseteq {<<>>, << <<Blank>> >>}
<1> DEFINE E == Words \cup {Blank}
<1>1. PICK m \in Nat : k \in [1..m -> {<<w>> : w \in E}]
  BY DEF KeywordLists
<1>2. PICK n \in Nat : l \in [1..n -> {<<w>> : w \in E}]
  BY DEF KeywordLists
<1> HIDE DEF E
<1>3. ASSUME NEW x \in [1..0 -> {<<w>> : w \in E}]
      PROVE  x = <<>> /\ Spelled(x) = <<Blank>>
  <2>1. x = <<>>
    OBVIOUS
  <2> QED BY <2>1, AbsentIsNoList DEF Spelled
<1>a. ASSUME NEW i \in Nat \ {0}, NEW x \in [1..i -> {<<w>> : w \in E}]
      PROVE  /\ Spelled(x) = [j \in 1..i |-> x[j][1]]
             /\ \A j \in 1..i : x[j] = <<x[j][1]>>
  BY SpelledWords
<1>4. ASSUME NEW i \in Nat \ {0}, NEW x \in [1..i -> {<<w>> : w \in E}], Spelled(x) = <<Blank>>
      PROVE  x = << <<Blank>> >>
  BY <1>4, OneWordSpelled
<1>5. CASE m = 0
  <2>1. k = <<>> /\ Spelled(k) = <<Blank>>
    BY <1>1, <1>3, <1>5
  <2>2. CASE n = 0
    BY <1>2, <1>3, <2>1, <2>2
  <2>3. CASE n # 0
    BY <1>2, <1>4, <2>1, <2>3
  <2> QED BY <2>2, <2>3
<1>6. CASE n = 0
  <2>1. l = <<>> /\ Spelled(l) = <<Blank>>
    BY <1>2, <1>3, <1>6
  <2>2. CASE m = 0
    BY <1>1, <1>3, <2>1, <2>2
  <2>3. CASE m # 0
    BY <1>1, <1>4, <2>1, <2>3
  <2> QED BY <2>2, <2>3
<1>7. CASE m # 0 /\ n # 0
  <2>1. [j \in 1..m |-> k[j][1]] = [j \in 1..n |-> l[j][1]]
    BY <1>1, <1>2, <1>a, <1>7
  <2>2. m = n
    <3>1. DOMAIN [j \in 1..m |-> k[j][1]] = 1..m /\ DOMAIN [j \in 1..n |-> l[j][1]] = 1..n
      OBVIOUS
    <3>2. 1..m = 1..n
      BY <2>1, <3>1
    <3> QED BY <3>2
  <2>3. \A j \in 1..m : k[j][1] = l[j][1]
    BY <2>1, <2>2
  <2>4. \A j \in 1..m : k[j] = l[j]
    <3>1. ASSUME NEW j \in 1..m PROVE k[j] = <<k[j][1]>> /\ l[j] = <<l[j][1]>>
      BY <1>1, <1>2, <1>a, <1>7, <2>2
    <3> QED BY <2>3, <3>1
  <2> DEFINE S == {<<w>> : w \in E}
  <2> HIDE DEF S
  <2>5. k \in [1..m -> S] /\ l \in [1..m -> S]
    BY <1>1, <1>2, <2>2 DEF S
  <2>6. k = l
    BY <2>4, <2>5, SameEverywhere
  <2> QED BY <2>6
<1> QED BY <1>5, <1>6, <1>7

\* No keyword and the empty keyword select the same rows.
LEMMA EmptyWordSelectsAll ==
  \A row : Selected(row, <<>>) <=> Selected(row, << <<Blank>> >>)
<1> SUFFICES ASSUME NEW row PROVE Selected(row, <<>>) <=> Selected(row, << <<Blank>> >>)
  OBVIOUS
<1>1. Selected(row, <<>>) <=> row.status = "active"
  BY DEF Selected
<1>2. Like(row, <<Blank>>)
  BY DEF Like
<1>3. \E n \in DOMAIN << <<Blank>> >> : Like(row, << <<Blank>> >>[n])
  <2>1. 1 \in DOMAIN << <<Blank>> >> /\ << <<Blank>> >>[1] = <<Blank>>
    BY OneElement, Zenon
  <2> QED BY <1>2, <2>1
<1>4. Selected(row, << <<Blank>> >>) <=> row.status = "active"
  BY <1>3 DEF Selected
<1> QED BY <1>1, <1>4

\* A word that is not empty.
LEMMA NoBlank == Blank # "undefined"
BY Zenon DEF Blank

\* Nothing but the word "undefined" is spelled like no keywords at all.
LEMMA AbsentSpelling ==
  ASSUME NEW k \in KeywordLists, Spelled(k) = Spelled(Absent)
  PROVE  k = Undefined
<1> DEFINE u == "undefined"
<1>1. Spelled(Absent) = <<u>>
  BY AbsentIsNoList DEF Spelled
<1>2. Blank # u
  BY NoBlank
<1> HIDE DEF u
<1> DEFINE E == Words \cup {Blank}
<1>3. PICK n \in Nat : k \in [1..n -> {<<w>> : w \in E}]
  BY DEF KeywordLists
<1> HIDE DEF E
<1>4. CASE n = 0
  <2>1. k = <<>>
    BY <1>3, <1>4
  <2>2. Spelled(k) = <<Blank>>
    BY <2>1, AbsentIsNoList DEF Spelled
  <2>3. <<Blank>>[1] = Blank /\ <<u>>[1] = u
    BY OneElement
  <2> QED BY <1>1, <1>2, <2>2, <2>3
<1>5. CASE n # 0
  <2>1. k = << <<u>> >>
    BY <1>1, <1>3, <1>5, OneWordSpelled
  <2> QED BY <2>1 DEF Undefined, u
<1> QED BY <1>4, <1>5

\* Plain keywords with one spelling select the same rows.
LEMMA PlainSelection ==
  ASSUME NEW k \in KeywordLists \cup {Absent}, NEW l \in KeywordLists \cup {Absent},
         k # Undefined, l # Undefined, Spelled(k) = Spelled(l), NEW row
  PROVE  Selected(row, k) <=> Selected(row, l)
<1>1. CASE k \in KeywordLists /\ l \in KeywordLists
  BY <1>1, SpellingDecides, EmptyWordSelectsAll
<1>2. CASE k = Absent \/ l = Absent
  <2>1. k = l
    BY <1>2, AbsentSpelling
  <2> QED BY <2>1
<1> QED BY <1>1, <1>2

\* One key, one answer: for plain keywords of any number, any page and any
\* table.
LEMMA KeyDecides ==
  ASSUME NEW p, NEW q, p.keywords \in KeywordLists \cup {Absent},
         q.keywords \in KeywordLists \cup {Absent},
         p.keywords # Undefined, q.keywords # Undefined, CacheKey(p) = CacheKey(q), NEW table
  PROVE  FindAll(table, p) = FindAll(table, q)
<1>1. p.limit = q.limit /\ p.page = q.page /\ Spelled(p.keywords) = Spelled(q.keywords)
  BY DEF CacheKey
<1>2. \A row : Selected(row, p.keywords) <=> Selected(row, q.keywords)
  BY <1>1, PlainSelection
<1>3. {row \in table : Selected(row, p.keywords)} = {row \in table : Selected(row, q.keywords)}
  BY <1>2
<1>4. Listing(table, p.keywords) = Listing(table, q.keywords)
  BY <1>3 DEF Listing
<1> QED BY <1>1, <1>4 DEF FindAll, Page


\* Some of the positions of a list, in their order.
LEMMA PositionsRanked ==
  ASSUME NEW m \in Nat, NEW kept \in SUBSET (1..m)
  PROVE  \E N \in Nat :
           ByRank([n \in kept |-> Cardinality({i \in kept : i < n})]) \in [1..N -> kept]
<1> DEFINE prec == {p \in kept \X kept : p[1] < p[2]}
           rank == [n \in kept |-> Cardinality({i \in kept : i < n})]
<1>1. ASSUME NEW n \in kept PROVE n \in Int
  OBVIOUS
<1>2. \A a, b \in kept : <<a, b>> \in prec <=> a < b
  OBVIOUS
<1>3. rank = RankOf(kept, prec)
  <2>1. \A x \in kept : {y \in kept : <<y, x>> \in prec} = {y \in kept : y < x}
    BY <1>2
  <2> HIDE DEF prec
  <2> QED BY <2>1 DEF RankOf
<1>4. IsFiniteSet(kept)
  <2>1. IsFiniteSet(1..m)
    BY FS_Interval
  <2> QED BY <2>1, FS_Subset
<1>5. prec \in SUBSET (kept \X kept)
  OBVIOUS
<1>6. /\ \A x \in kept : <<x, x>> \notin prec
      /\ \A x, y, z \in kept : <<x, y>> \in prec /\ <<y, z>> \in prec => <<x, z>> \in prec
      /\ \A x, y \in kept : x # y => <<x, y>> \in prec \/ <<y, x>> \in prec
  <2> HIDE DEF prec
  <2>1. ASSUME NEW x \in kept PROVE ~(x < x)
    BY <1>1
  <2>2. ASSUME NEW x \in kept, NEW y \in kept, NEW z \in kept, x < y, y < z PROVE x < z
    BY <1>1, <2>2
  <2>3. ASSUME NEW x \in kept, NEW y \in kept, x # y PROVE x < y \/ y < x
    BY <1>1, <2>3
  <2> QED BY <1>2, <2>1, <2>2, <2>3
<1> HIDE DEF prec, rank
<1>7. Cardinality(kept) \in Nat /\ ByRank(rank) \in [1..Cardinality(kept) -> kept]
  BY <1>3, <1>4, <1>5, <1>6, Ranked
<1> QED BY <1>7 DEF rank

\* What the transform makes of a query's parameters, when it is plain.
LEMMA ParsedLists ==
  ASSUME NEW given \in Given, Plain(Parse(given))
  PROVE  Parse(given) \in KeywordLists \cup {Absent}
<1> DEFINE E == Words \cup {Blank}
           S == {<<w>> : w \in E}
<1>1. ASSUME NEW n \in Nat, NEW k \in [1..n -> S] PROVE k \in KeywordLists
  BY DEF KeywordLists
<1>2. ASSUME NEW w \in E PROVE <<w>> \in S
  OBVIOUS
<1>3. ASSUME NEW s \in Strings PROVE \E m \in Nat \ {0} : s \in [1..m -> E]
  <2>1. s # <<>> /\ \E m \in 0..MaxWords : s \in [1..m -> E]
    BY DEF Strings, BoundedSeq, SeqOf
  <2> HIDE DEF E
  <2>2. PICK m \in 0..MaxWords : s \in [1..m -> E]
    BY <2>1
  <2>3. m # 0
    BY <2>1, <2>2
  <2> QED BY <2>2, <2>3, ListAssumption
<1>4. ASSUME NEW s \in Strings, given = <<s>>
      PROVE  Parse(given) \in KeywordLists
  <2> HIDE DEF E
  <2>1. PICK m \in Nat \ {0} : s \in [1..m -> E]
    BY <1>3
  <2> DEFINE kept == {n \in DOMAIN s : s[n] # Blank}
             place == ByRank([n \in kept |-> Cardinality({i \in kept : i < n})])
  <2>3. kept \in SUBSET (1..m)
    BY <2>1
  <2> HIDE DEF kept
  <2>4. PICK N \in Nat : place \in [1..N -> kept]
    BY <2>1, <2>3, PositionsRanked
  <2>5. \A n \in kept : s[n] \in E
    BY <2>1, <2>3
  <2> HIDE DEF place
  <2>9. Parse(given) = [n \in DOMAIN place |-> <<s[place[n]]>>]
    <3>1. given # <<>> /\ Len(given) = 1 /\ given[1] = s
      BY <1>4
    <3> QED BY <3>1 DEF Parse, place, kept
  <2>10. [n \in DOMAIN place |-> <<s[place[n]]>>] \in [1..N -> S]
    <3>1. \A n \in 1..N : <<s[place[n]]>> \in S
      BY <1>2, <2>4, <2>5
    <3> HIDE DEF S
    <3> QED BY <2>4, <3>1
  <2> HIDE DEF S
  <2> QED BY <1>1, <2>4, <2>9, <2>10
<1>5. ASSUME NEW s \in Strings, NEW t \in Strings, given = <<s, t>>
      PROVE  Parse(given) \in KeywordLists
  <2>1. /\ Len(<<s, t>>) = 2 /\ <<s, t>>[1] = s /\ <<s, t>>[2] = t
        /\ {1, 2} \subseteq DOMAIN <<s, t>>
    OBVIOUS
  <2>2. Parse(given) = given
    <3>1. Len(<<>>) = 0
      OBVIOUS
    <3>2. Len(given) # Len(<<>>) /\ Len(given) # 1
      BY <1>5, <2>1, <3>1
    <3>3. given # <<>> /\ Len(given) # 1
      BY <3>2, Zenon
    <3> QED BY <3>3 DEF Parse
  <2>3. Len(s) <= 1 /\ Len(t) <= 1
    BY <1>5, <2>1, <2>2 DEF Plain
  <2>4. ASSUME NEW x \in Strings, Len(x) <= 1 PROVE x \in S
    <3> HIDE DEF E
    <3>1. PICK m \in Nat \ {0} : x \in [1..m -> E]
      BY <1>3
    <3>2. Len(x) = m
      BY <3>1
    <3>3. m = 1
      BY <2>4, <3>2
    <3>4. x \in [1..1 -> E] /\ x[1] \in E
      BY <3>1, <3>3
    <3>5. x = <<x[1]>>
      BY <3>4, OneElement
    <3> QED BY <3>4, <3>5
  <2>5. s \in S /\ t \in S
    BY <2>3, <2>4
  <2> HIDE DEF S
  <2>6. <<s, t>> \in [1..2 -> S]
    BY <2>5, TwoElements
  <2> QED BY <1>1, <1>5, <2>2, <2>6
<1>6. \/ given = <<>>
      \/ \E s \in Strings : given = <<s>>
      \/ \E s, t \in Strings : given = <<s, t>>
  BY DEF Given
<1>7. CASE given = <<>>
  BY <1>7 DEF Parse
<1> QED BY <1>4, <1>5, <1>6, <1>7

\* No two plain queries with one key have different answers, whatever the table
\* holds.
THEOREM OneKeyOneAnswer == OneAnswerPerKey
<1> SUFFICES ASSUME NEW p \in PlainQueries, NEW q \in PlainQueries, CacheKey(p) = CacheKey(q),
                    NEW table \in Tables
             PROVE  FindAll(table, p) = FindAll(table, q)
  BY DEF OneAnswerPerKey
<1>1. ASSUME NEW r \in PlainQueries
      PROVE  r.keywords \in KeywordLists \cup {Absent} /\ r.keywords # Undefined
  <2>1. r \in Queries /\ Plain(r.keywords)
    BY DEF PlainQueries
  <2>2. PICK given \in Given : r.keywords = Parse(given)
    BY <2>1 DEF Queries
  <2> QED BY <2>1, <2>2, ParsedLists DEF Plain, Undefined
<1> QED BY <1>1, KeyDecides

\* What is not plain is mixed up.  The query for the word "undefined" has the key of
\* the query without keywords, but not its rows: an active row without the word is
\* in the one answer only.
THEOREM UndefinedIsMixedUp ==
  ASSUME NEW row, row.status = "active", <<"undefined">> \notin row.text,
         NEW limit, NEW page
  PROVE  /\ CacheKey([keywords |-> Undefined, limit |-> limit, page |-> page])
               = CacheKey([keywords |-> Absent, limit |-> limit, page |-> page])
         /\ Selected(row, Absent) /\ ~Selected(row, Undefined)
<1> DEFINE u == "undefined"
           e == <<u>>
<1>1. Undefined = <<e>> /\ u # Blank
  BY NoBlank DEF Undefined
<1>2. Spelled(Absent) = e
  BY AbsentIsNoList DEF Spelled
<1> HIDE DEF u
<1>3. Spelled(Undefined) = e
  <2> DEFINE S == {<<w>> : w \in {u}}
  <2>1. e \in S
    OBVIOUS
  <2>a. <<e>>[1] = e /\ e[1] = u
    BY OneElement
  <2> HIDE DEF e, S
  <2>2. <<e>> \in [1..1 -> S]
    BY <2>1
  <2>3. Spelled(<<e>>) = [i \in 1..1 |-> <<e>>[i][1]]
    <3> DEFINE k == <<e>>
               E == {u}
    <3>1. k \in [1..1 -> {<<w>> : w \in E}]
      BY <2>2 DEF S
    <3>2. 1 \in Nat \ {0}
      OBVIOUS
    <3> HIDE DEF k, E
    <3>3. Spelled(k) = [i \in 1..1 |-> k[i][1]]
      BY <3>1, <3>2, SpelledWords
    <3> QED BY <3>3 DEF k
  <2>4. [i \in 1..1 |-> <<e>>[i][1]] = <<u>>
    <3>1. [i \in 1..1 |-> <<e>>[i][1]] \in [1..1 -> {u}]
      BY <2>a
    <3>2. [i \in 1..1 |-> <<e>>[i][1]][1] = u
      BY <2>a
    <3> QED BY <3>1, <3>2, OneElement
  <2> QED BY <1>1, <2>3, <2>4 DEF e
<1>4. Selected(row, Absent)
  BY DEF Selected
<1>5. ~Selected(row, Undefined)
  <2>1. e # <<Blank>>
    <3>1. e[1] = u /\ <<Blank>>[1] = Blank
      BY OneElement
    <3> HIDE DEF e
    <3> QED BY <1>1, <3>1
  <2>2. ~Like(row, e)
    BY <2>1 DEF Like, u
  <2>3. \A n \in DOMAIN <<e>> : <<e>>[n] = e
    OBVIOUS
  <2>4. Undefined # Absent /\ Undefined # <<>>
    <3>1. Len(<<>>) = 0 /\ Len(<<e>>) = 1 /\ <<e>>[1] = e /\ Absent[1] = <<>> /\ Len(e) = 1
      BY OneElement DEF Absent
    <3> HIDE DEF e
    <3> QED BY <1>1, <3>1
  <2> HIDE DEF e
  <2> QED BY <1>1, <2>2, <2>3, <2>4 DEF Selected
<1> QED BY <1>2, <1>3, <1>4, <1>5 DEF CacheKey

-----------------------------------------------------------------------------
\* Where a list is cut: at x, or at its end.
Cut(list, x) == IF x < Len(list) THEN x ELSE Len(list)

\* A list cut at a joins what follows up to b.
LEMMA CutsJoin ==
  ASSUME NEW S, NEW list \in Seq(S), NEW a \in Nat, NEW b \in Nat, a <= b
  PROVE  SubSeq(list, 1, Cut(list, a)) \o SubSeq(list, a + 1, Cut(list, b))
           = SubSeq(list, 1, Cut(list, b))
<1> DEFINE ca == Cut(list, a)
           cb == Cut(list, b)
<1>0. ca = (IF a < Len(list) THEN a ELSE Len(list)) /\ cb = (IF b < Len(list) THEN b ELSE Len(list))
  BY DEF Cut
<1> HIDE DEF ca, cb
<1>1. Len(list) \in Nat /\ ca \in 0..Len(list) /\ cb \in 0..Len(list)
  BY <1>0
<1>2. CASE a <= Len(list)
  <2>1. ca = a /\ cb \in a..Len(list) /\ 1 \in 1..(Len(list) + 1) /\ a \in (1 - 1)..Len(list)
    BY <1>0, <1>1, <1>2
  <2> QED BY <2>1, ConcatAdjacentSubSeq DEF ca, cb
<1>3. CASE a > Len(list)
  <2>1. ca = Len(list) /\ cb = Len(list)
    BY <1>0, <1>1, <1>3
  <2>2. SubSeq(list, a + 1, cb) = <<>>
    BY <1>1, <1>3, <2>1, SubSeqEmpty
  <2>3. SubSeq(list, 1, ca) = list
    BY <2>1, SubSeqFull
  <2>4. list \o <<>> = list
    BY ConcatEmptySeq
  <2> QED BY <2>1, <2>2, <2>3, <2>4 DEF ca, cb
<1>4. a <= Len(list) \/ a > Len(list)
  BY <1>1
<1> QED BY <1>2, <1>3, <1>4

\* Page n ends where page n + 1 begins, and page n does not end before row n.
LEMMA PageBounds ==
  ASSUME NEW limit \in Nat \ {0}, NEW n \in Nat \ {0}
  PROVE  /\ n * limit \in Nat /\ (n - 1) * limit \in Nat
         /\ n * limit = (n - 1) * limit + limit
         /\ n <= n * limit
OBVIOUS


\* The pages of a list, one after the other, are the list.
LEMMA PagesJoin ==
  ASSUME NEW S, NEW list \in Seq(S), NEW limit \in Nat \ {0}, NEW R \in Nat, Len(list) <= R,
         NEW data, DOMAIN data = 1..R, Len(data) = R,
         \A n \in 1..R : data[n] = Page(list, [limit |-> limit, page |-> n])
  PROVE  R # 0 => FlattenSeq(data) = list
<1> SUFFICES ASSUME R # 0 PROVE FlattenSeq(data) = list
  OBVIOUS
<1> DEFINE L == Len(list)
           g == [n \in 1..R |-> SubSeq(list, 1, Cut(list, n * limit))]
<1>1. L \in Nat
  OBVIOUS
<1>2. ASSUME NEW n \in 1..R
      PROVE  /\ (n - 1) * limit \in Nat /\ n * limit \in Nat
             /\ (n - 1) * limit <= n * limit /\ n <= n * limit
             /\ data[n] = SubSeq(list, (n - 1) * limit + 1, Cut(list, n * limit))
  <2> DEFINE a == (n - 1) * limit
             b == n * limit
  <2>1. a \in Nat /\ b \in Nat /\ b = a + limit /\ n <= b
    BY PageBounds
  <2>2. data[n] = Page(list, [limit |-> limit, page |-> n])
    OBVIOUS
  <2>3. data[n] = SubSeq(list, a + 1, IF a + limit < L THEN a + limit ELSE L)
    BY <2>2 DEF Page
  <2> HIDE DEF a, b, L
  <2>4. data[n] = SubSeq(list, a + 1, Cut(list, b))
    BY <2>1, <2>3 DEF Cut, L
  <2>5. a <= b
    BY <2>1
  <2> QED BY <2>1, <2>4, <2>5 DEF a, b
<1>3. g[1] = data[1]
  <2>1. 1 \in 1..R /\ (1 - 1) * limit + 1 = 1
    OBVIOUS
  <2>2. data[1] = SubSeq(list, (1 - 1) * limit + 1, Cut(list, 1 * limit))
    BY <1>2, <2>1
  <2>3. g[1] = SubSeq(list, 1, Cut(list, 1 * limit))
    BY <2>1
  <2> QED BY <2>1, <2>2, <2>3
<1>4. ASSUME NEW n \in 1..R, n > 1 PROVE g[n] = g[n - 1] \o data[n]
  <2> DEFINE a == (n - 1) * limit
             b == n * limit
  <2>1. a \in Nat /\ b \in Nat /\ a <= b /\ data[n] = SubSeq(list, a + 1, Cut(list, b))
    BY <1>2
  <2>2. g[n] = SubSeq(list, 1, Cut(list, b)) /\ g[n - 1] = SubSeq(list, 1, Cut(list, a))
    <3>1. n - 1 \in 1..R
      BY <1>4
    <3> QED BY <3>1
  <2>3. SubSeq(list, 1, Cut(list, a)) \o SubSeq(list, a + 1, Cut(list, b)) = SubSeq(list, 1, Cut(list, b))
    <3> HIDE DEF a, b
    <3> QED BY <2>1, CutsJoin
  <2> HIDE DEF a, b, g
  <2> QED BY <2>1, <2>2, <2>3
<1>5. g[R] = list
  <2>1. R \in 1..R
    OBVIOUS
  <2>2. R * limit \in Nat /\ R <= R * limit
    BY <1>2, <2>1
  <2>3. Cut(list, R * limit) = L
    BY <1>1, <2>2 DEF Cut
  <2>4. g[R] = SubSeq(list, 1, Cut(list, R * limit))
    <3> QED BY <2>1
  <2>5. SubSeq(list, 1, L) = list
    BY SubSeqFull
  <2> HIDE DEF L, g
  <2> QED BY <2>3, <2>4, <2>5
<1> HIDE DEF g
<1>6. Builds(g, data)
  BY <1>3, <1>4 DEF Builds
<1> QED BY <1>5, <1>6, Flattened


\* The pages of one table, put together, are its list: every active job that
\* matches is on one page, once, in order, and `total` counts them.
THEOREM PagesMakeTheList == PagesPartitionList
<1> SUFFICES ASSUME NEW table \in Tables, NEW keywords, NEW limit \in 1..MaxLimit
             PROVE  LET answer(n) == FindAll(table, [keywords |-> keywords, limit |-> limit, page |-> n])
                        pages == FlattenSeq([n \in 1..Cardinality(Rows) |-> answer(n).data])
                    IN  /\ \A n \in 1..Len(pages) : \A m \in 1..(n - 1) : Before(pages[m], pages[n])
                        /\ {pages[n] : n \in DOMAIN pages} = {row \in table : Selected(row, keywords)}
                        /\ answer(1).total = Len(pages)
  BY DEF PagesPartitionList
<1>0. \E N \in Nat :
        /\ N <= Cardinality(Rows)
        /\ Listing(table, keywords) \in [1..N -> {row \in table : Selected(row, keywords)}]
        /\ \A m, n \in 1..N : m < n =>
             Before(Listing(table, keywords)[m], Listing(table, keywords)[n])
        /\ \A row \in table : Selected(row, keywords) =>
             \E n \in 1..N : Listing(table, keywords)[n] = row
  BY Listed, Zenon
<1> DEFINE S == {row \in table : Selected(row, keywords)}
           list == Listing(table, keywords)
           R == Cardinality(Rows)
           answer(n) == FindAll(table, [keywords |-> keywords, limit |-> limit, page |-> n])
           data == [n \in 1..R |-> answer(n).data]
           pages == FlattenSeq(data)
<1>1. PICK N \in Nat :
        /\ N <= R /\ list \in [1..N -> S]
        /\ \A m, n \in 1..N : m < n => Before(list[m], list[n])
        /\ \A row \in table : Selected(row, keywords) => \E n \in 1..N : list[n] = row
  BY <1>0, Zenon
<1>2. R \in Nat /\ limit \in Nat \ {0}
  BY FS_CardinalityType, ListAssumption
<1>3. list \in Seq(S) /\ Len(list) = N
  <2> HIDE DEF S, list, R
  <2> QED BY <1>1
<1>4. \A n : answer(n).data = Page(list, [limit |-> limit, page |-> n]) /\ answer(n).total = N
  <2> HIDE DEF S, R
  <2>1. ASSUME NEW n
        PROVE  answer(n) = [data |-> Page(list, [limit |-> limit, page |-> n]), total |-> Len(list)]
    BY DEF FindAll, Page
  <2> HIDE DEF list, answer
  <2> QED BY <1>3, <2>1
<1> HIDE DEF S, list, R, answer
<1>5. /\ DOMAIN data = 1..R /\ Len(data) = R
      /\ \A n \in 1..R : data[n] = Page(list, [limit |-> limit, page |-> n])
  BY <1>2, <1>4
<1> HIDE DEF data
<1>6. pages = list
  <2>1. CASE R # 0
    BY <1>1, <1>2, <1>3, <1>5, <2>1, PagesJoin
  <2>2. CASE R = 0
    <3>1. N = 0 /\ list = <<>>
      BY <1>1, <2>2
    <3>2. pages = data
      BY <1>5, <2>2 DEF FlattenSeq
    <3>3. data = [n \in 1..0 |-> answer(n).data]
      BY <2>2 DEF data
    <3>4. data = <<>>
      BY <3>3
    <3> QED BY <3>1, <3>2, <3>4
  <2> QED BY <2>1, <2>2
<1> HIDE DEF pages
<1>7. DOMAIN list = 1..N
  BY <1>1
<1>8. \A n \in 1..N : \A m \in 1..(n - 1) : Before(list[m], list[n])
  <2>1. ASSUME NEW n \in 1..N, NEW m \in 1..(n - 1) PROVE m \in 1..N /\ m < n
    OBVIOUS
  <2> QED BY <1>1, <2>1
<1>9. {list[n] : n \in DOMAIN list} = S
  <2>1. \A n \in 1..N : list[n] \in S
    BY <1>1
  <2>2. \A row \in S : \E n \in 1..N : list[n] = row
    BY <1>1 DEF S
  <2> QED BY <1>7, <2>1, <2>2
<1>10. answer(1).total = Len(pages)
  BY <1>3, <1>4, <1>6
<1>11. /\ \A n \in 1..Len(pages) : \A m \in 1..(n - 1) : Before(pages[m], pages[n])
       /\ {pages[n] : n \in DOMAIN pages} = S
  BY <1>3, <1>6, <1>8, <1>9
<1> QED BY <1>10, <1>11 DEF pages, answer, data, S, R

-----------------------------------------------------------------------------
\* Whatever the cache holds, and whoever wrote it, an entry answers every plain
\* query that comes to its key: of what findAll() depends on, CacheKey leaves out
\* nothing that plain queries differ in.
THEOREM KeysDecideAnswers == Spec => []KeyDecidesAnswer
<1>1. KeyDecidesAnswer
  BY OneKeyOneAnswer DEF KeyDecidesAnswer
<1> QED BY <1>1, PTL

\* Whatever version of the table a request reads, the pages of the list repeat
\* and miss no job, in any number of rows and for any limit.
THEOREM PagesCoverTheList == Spec => []PagesCoverList
<1>1. PagesCoverList
  BY PagesMakeTheList DEF PagesCoverList
<1> QED BY <1>1, PTL
=============================================================================
