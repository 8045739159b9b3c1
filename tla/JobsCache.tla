------------------------------ MODULE JobsCache ------------------------------
(***************************************************************************)
(* The list cache of GET /jobs (src/jobs/jobs.service.ts): cache-aside in  *)
(* Redis with a five-minute TTL, swept by every instance that hears        *)
(* INVALIDATE_JOBS_CACHE.  Reading the cache, querying Postgres and        *)
(* writing the cache are three awaited steps; a sweep is a loop of SCAN    *)
(* and DEL; a message reaches an instance at most once.                    *)
(*                                                                         *)
(* The contents of the jobs table are a version number, one up for every   *)
(* write; an entry holds the version its query saw.                        *)
(***************************************************************************)
EXTENDS Integers, FiniteSets

CONSTANTS
  Instances,      \* application instances: HTTP server and subscriber
  Keys,           \* cache keys, one per distinct query
  Requests,       \* bound: requests in progress at a time
  MaxVersion,     \* bound: versions of the table
  MaxMessages,    \* bound: invalidation messages
  MaxOutages      \* bound: Redis outages

ASSUME CacheAssumption ==
  MaxVersion \in Nat \ {0} /\ MaxMessages \in Nat /\ MaxOutages \in Nat

VARIABLES
  version,        \* of the jobs table
  cache,          \* key -> the version cached, 0 when there is no entry
  redisUp,
  alive,          \* instances that are running
  sweep,          \* instance, message -> invalidateCache() in progress
  request,        \* request -> the locals of its findAll()
  messages,       \* messages published so far
  outages,        \* outages still to come
  \* What has happened so far, read by the properties only:
  announced,      \* the version at the last published message
  late,           \* keys filled with a version older than that
  missed          \* keys some message or sweep failed to reach

history == <<announced, late, missed>>
vars == <<version, cache, redisUp, alive, sweep, request, messages, outages, history>>

Messages == 1..MaxMessages

NoSweep == [todo |-> {}, hit |-> {}]
Pending(i, m) == sweep[i][m].todo \cup sweep[i][m].hit

\* A request that has been answered, or has not arrived, is free for the next.
Free == [pc |-> "free", at |-> "none", key |-> "none", read |-> 0]

\* The entries of the keys in K are gone.
Drop(K) ==
  /\ cache' = [k \in Keys |-> IF k \in K THEN 0 ELSE cache[k]]
  /\ late' = late \ K /\ missed' = missed \ K

-----------------------------------------------------------------------------
\* A scrape or the enrichment relay commits a write to the jobs table.
Write ==
  /\ version < MaxVersion
  /\ version' = version + 1
  /\ UNCHANGED <<cache, redisUp, alive, sweep, request, messages, outages, history>>

\* The scraper publishes; the message reaches some of the instances, and the
\* handler of each starts a sweep without waiting for any other.
Announce ==
  /\ redisUp /\ messages < MaxMessages
  /\ messages' = messages + 1
  /\ announced' = version
  /\ \E receivers \in SUBSET alive :
       /\ sweep' = [i \in Instances |->
                      IF i \in receivers
                      THEN [sweep[i] EXCEPT ![messages + 1] = [todo |-> Keys, hit |-> {}]]
                      ELSE sweep[i]]
       /\ missed' = IF receivers = {} THEN {k \in Keys : cache[k] # 0} ELSE missed
  /\ UNCHANGED <<version, cache, redisUp, alive, request, outages, late>>

\* Mutation of Scan: one SCAN is made, whatever cursor it returns.
ScanOnce(i, m) ==
  /\ redisUp /\ sweep[i][m].hit = {} /\ sweep[i][m].todo # {}
  /\ \E visited \in SUBSET sweep[i][m].todo :
       sweep' = [sweep EXCEPT ![i][m] =
                   [todo |-> {}, hit |-> {k \in visited : cache[k] # 0}]]
  /\ UNCHANGED <<version, cache, redisUp, alive, request, messages, outages, history>>

\* One SCAN: it visits some of the slots left and returns the keys it finds.
Scan(i, m) ==
  /\ redisUp /\ sweep[i][m].hit = {}
  /\ \E visited \in SUBSET sweep[i][m].todo \ {{}} :
       sweep' = [sweep EXCEPT ![i][m] =
                   [todo |-> sweep[i][m].todo \ visited,
                    hit |-> {k \in visited : cache[k] # 0}]]
  /\ UNCHANGED <<version, cache, redisUp, alive, request, messages, outages, history>>

\* DEL of the keys the SCAN returned.
Delete(i, m) ==
  /\ redisUp /\ sweep[i][m].hit # {}
  /\ Drop(sweep[i][m].hit)
  /\ sweep' = [sweep EXCEPT ![i][m].hit = {}]
  /\ UNCHANGED <<version, redisUp, alive, request, messages, outages, announced>>

\* SCAN or DEL fails for good.  Nothing awaits invalidateCache(), so the
\* rejection is unhandled and Node ends the process with all its requests.
SweepFails(i) ==
  /\ ~redisUp /\ \E m \in Messages : Pending(i, m) # {}
  /\ alive' = alive \ {i}
  /\ sweep' = [sweep EXCEPT ![i] = [m \in Messages |-> NoSweep]]
  /\ missed' = missed \cup {k \in UNION {Pending(i, m) : m \in Messages} : cache[k] # 0}
  /\ request' = [q \in Requests |->
                   IF request[q].at = i THEN [Free EXCEPT !.pc = "lost"] ELSE request[q]]
  /\ UNCHANGED <<version, cache, redisUp, messages, outages, announced, late>>

Restart(i) ==
  /\ i \notin alive
  /\ alive' = alive \cup {i}
  /\ UNCHANGED <<version, cache, redisUp, sweep, request, messages, outages, history>>

\* GET /jobs arrives at an instance.
Arrive(q) ==
  /\ request[q].pc \in {"free", "lost"}
  /\ \E i \in alive, k \in Keys :
       request' = [request EXCEPT ![q] = [Free EXCEPT !.pc = "get", !.at = i, !.key = k]]
  /\ UNCHANGED <<version, cache, redisUp, alive, sweep, messages, outages, history>>

\* safeCacheGet: a hit is the answer; a miss, or Redis failing, goes on to Postgres.
CacheGet(q) ==
  /\ request[q].pc = "get"
  /\ request' = [request EXCEPT ![q] = IF redisUp /\ cache[request[q].key] # 0 THEN Free
                                       ELSE [request[q] EXCEPT !.pc = "query"]]
  /\ UNCHANGED <<version, cache, redisUp, alive, sweep, messages, outages, history>>

\* getManyAndCount.
Query(q) ==
  /\ request[q].pc = "query"
  /\ request' = [request EXCEPT ![q].pc = "set", ![q].read = version]
  /\ UNCHANGED <<version, cache, redisUp, alive, sweep, messages, outages, history>>

\* Mutation of CacheSet: the answer is read back from the cache.
CacheSetReadsBack(q) ==
  LET k == request[q].key
  IN  /\ request[q].pc = "set"
      /\ IF redisUp
         THEN /\ cache' = [cache EXCEPT ![k] = request[q].read]
              /\ late' = IF request[q].read < announced THEN late \cup {k} ELSE late \ {k}
              /\ missed' = missed \ {k}
         ELSE UNCHANGED <<cache, late, missed>>
      /\ request' = [request EXCEPT ![q].pc = "get"]
      /\ UNCHANGED <<version, redisUp, alive, sweep, messages, outages, announced>>

\* safeCacheSet with its TTL, whatever the entry holds by now; then the answer.
CacheSet(q) ==
  LET k == request[q].key
  IN  /\ request[q].pc = "set"
      /\ IF redisUp
         THEN /\ cache' = [cache EXCEPT ![k] = request[q].read]
              /\ late' = IF request[q].read < announced THEN late \cup {k} ELSE late \ {k}
              /\ missed' = missed \ {k}
         ELSE UNCHANGED <<cache, late, missed>>
      /\ request' = [request EXCEPT ![q] = Free]
      /\ UNCHANGED <<version, redisUp, alive, sweep, messages, outages, announced>>

\* Mutation of Expire: the entry is set without a TTL.
ExpireNever(k) ==
  /\ FALSE
  /\ Drop({k})
  /\ UNCHANGED <<version, redisUp, alive, sweep, request, messages, outages, announced>>

\* The entry's 300 seconds, counted from its last fill, are over.
Expire(k) ==
  /\ cache[k] # 0
  /\ Drop({k})
  /\ UNCHANGED <<version, redisUp, alive, sweep, request, messages, outages, announced>>

Outage ==
  /\ redisUp /\ outages > 0
  /\ redisUp' = FALSE /\ outages' = outages - 1
  /\ UNCHANGED <<version, cache, alive, sweep, request, messages, history>>

Recover ==
  /\ ~redisUp
  /\ redisUp' = TRUE
  /\ UNCHANGED <<version, cache, alive, sweep, request, messages, outages, history>>

-----------------------------------------------------------------------------
Init ==
  /\ version = 1 /\ announced = 1 /\ messages = 0
  /\ cache = [k \in Keys |-> 0] /\ late = {} /\ missed = {}
  /\ redisUp = TRUE /\ outages = MaxOutages
  /\ alive = Instances
  /\ sweep = [i \in Instances |-> [m \in Messages |-> NoSweep]]
  /\ request = [q \in Requests |-> Free]

Serve(q) == CacheGet(q) \/ Query(q) \/ CacheSet(q)

Next ==
  \/ Write \/ Announce \/ Outage \/ Recover
  \/ \E i \in Instances, m \in Messages : Scan(i, m) \/ Delete(i, m)
  \/ \E i \in Instances : SweepFails(i) \/ Restart(i)
  \/ \E q \in Requests : Arrive(q) \/ Serve(q)
  \/ \E k \in Keys : Expire(k)

Spec == Init /\ [][Next]_vars

\* Awaited calls return, entries expire, sweeps go on, instances are restarted;
\* nobody has to send a request, write a job or publish.
Fairness ==
  /\ \A q \in Requests : WF_vars(Serve(q))
  /\ \A k \in Keys : WF_vars(Expire(k))
  /\ \A i \in Instances, m \in Messages : WF_vars(Scan(i, m) \/ Delete(i, m))
  /\ WF_vars(Recover)

FairSpec == Spec /\ Fairness

-----------------------------------------------------------------------------
\* The type of the state.
TypeOK ==
  /\ version \in 1..MaxVersion /\ announced \in 1..MaxVersion
  /\ cache \in [Keys -> 0..MaxVersion]
  /\ redisUp \in BOOLEAN /\ alive \subseteq Instances
  /\ sweep \in [Instances -> [Messages -> [todo : SUBSET Keys, hit : SUBSET Keys]]]
  /\ request \in [Requests -> [pc : {"free", "get", "query", "set", "lost"},
                               at : Instances \cup {"none"}, key : Keys \cup {"none"},
                               read : 0..MaxVersion]]
  /\ messages \in 0..MaxMessages /\ outages \in 0..MaxOutages
  /\ late \subseteq Keys /\ missed \subseteq Keys

\* An entry older than the last announced write is one a sweep still has to
\* visit, one that was filled from a query overtaken by the announcement, or one
\* whose message or sweep was lost.  Nothing else survives an invalidation.
StaleEntryIsExcused ==
  \A k \in Keys : cache[k] # 0 /\ cache[k] < announced =>
    \/ k \in late \cup missed
    \/ \E i \in alive, m \in Messages : k \in Pending(i, m)

\* Once writes stop, what is cached becomes, and stays, what the table holds:
\* late fills, lost messages and unannounced writes last one TTL at most.
EventuallyFresh == <>[](\A k \in Keys : cache[k] \in {0, version})

\* A GET that was accepted is answered, unless its instance went down.
EveryGetAnswered ==
  \A q \in Requests : request[q].pc = "get" ~> request[q].pc \in {"free", "lost"}

\* "A Redis outage (or a corrupt entry) must fall through to Postgres rather
\* than fail GET /jobs": no request is lost to an outage.
OutageNeverFailsGet == \A q \in Requests : request[q].pc # "lost"
=============================================================================
