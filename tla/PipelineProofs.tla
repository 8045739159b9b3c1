---------------------------- MODULE PipelineProofs ----------------------------
(***************************************************************************)
(* Proofs about Pipeline: the scraper of ScraperWorker is an environment   *)
(* the relay of EnrichmentRelay was specified against.  For any number of  *)
(* instances, ticks, boards, listings, failures and crashes.               *)
(***************************************************************************)
EXTENDS Pipeline, TLAPS

\* A worker's locals: a board is at hand while process() runs, and what is
\* about to be stored is a listing that qualifies.
AtHand(r) ==
  /\ r \in Scraper!Locals
  /\ r.pc # "idle" => r.src \in 1..Len(Sources)
  /\ r.todo \subseteq DOMAIN r.feed
  /\ r.pc = "commit" =>
       r.item \in DOMAIN r.feed /\ Scraper!Accepts(r.feed[r.item], r.isRepost)

RunsOK == run \in [Workers -> Scraper!Locals] /\ \A w \in Workers : AtHand(run[w])

\* The rows that both write: every event names a stored job, and every score
\* is in range.
TablesOK ==
  /\ jobs \in [DOMAIN jobs -> Scraper!Rows] /\ DOMAIN jobs \subseteq Urls
  /\ outbox \in Seq(Scraper!OutboxRow)
  /\ \A r \in DOMAIN outbox : outbox[r].job \in DOMAIN jobs
  /\ \A u \in DOMAIN jobs : jobs[u].score \in 60..100

\* A relay holds rows of the outbox, and a score that it has read.
RelayOK(l) ==
  /\ l \in Relay!Locals /\ l.batch \subseteq DOMAIN outbox
  /\ l.pc \in Relay!Holding => l.row \in DOMAIN outbox
  /\ l.pc = "rescore" => l.score \in 60..100

RelaysOK == relay \in [Workers -> Relay!Locals] /\ \A w \in Workers : RelayOK(relay[w])

IInv == RunsOK /\ TablesOK /\ RelaysOK

-----------------------------------------------------------------------------
\* What qualifies has a score the relay expects.
LEMMA AcceptedScore ==
  ASSUME NEW l \in Scraper!Listing, NEW isRepost \in BOOLEAN, Scraper!Accepts(l, isRepost)
  PROVE  Scraper!Score(l, isRepost) \in RelayView!ScrapeScores
<1>1. /\ Scraper!AgeScore(l) \in {0, 10, 20, 30} /\ Scraper!SalaryScore(l) \in {0, 20}
      /\ Scraper!DescriptionScore(l) \in {0, 8, 15} /\ Scraper!RepostScore(isRepost) \in {0, 20}
  BY DEF Scraper!AgeScore, Scraper!SalaryScore, Scraper!DescriptionScore, Scraper!RepostScore
<1>2. Scraper!Score(l, isRepost) \in 0..85
  BY <1>1 DEF Scraper!Score
<1> QED BY <1>2 DEF Scraper!Accepts, Scraper!Threshold, RelayView!ScrapeScores

\* An idle scraper has nothing at hand.
LEMMA IdleAtHand == AtHand(Scraper!Idle)
<1>1. <<>> \in Seq(Scraper!Listing) /\ {} \in SUBSET Nat
  OBVIOUS
<1>2. Scraper!Idle \in Scraper!Locals
  BY <1>1 DEF Scraper!Idle, Scraper!Locals
<1> QED BY <1>2 DEF Scraper!Idle, AtHand

\* A run starts at the first source.
LEMMA StartingAtHand ==
  ASSUME NEW t \in Ticks
  PROVE  AtHand(Scraper!Starting(t))
<1> DEFINE S == Scraper!Starting(t)
<1>1. /\ Scraper!Idle \in Scraper!Locals /\ Scraper!Idle.todo = {} /\ Scraper!Idle.feed = <<>>
  BY IdleAtHand DEF Scraper!Idle, AtHand
<1>2. 1 \in 1..Len(Sources) /\ 1 \in Nat
  BY PipelineAssumption
<1>3. S \in Scraper!Locals
  BY <1>1, <1>2, Zenon DEF Scraper!Starting, Scraper!Locals
<1>4. S.pc = "fetch" /\ S.src = 1 /\ S.todo = Scraper!Idle.todo /\ S.feed = Scraper!Idle.feed
  BY <1>1, Zenon DEF Scraper!Starting, Scraper!Locals
<1> QED BY <1>1, <1>2, <1>3, <1>4 DEF AtHand

\* A run goes on to a source there is, or finishes.
LEMMA NextSourceAtHand ==
  ASSUME NEW r \in Scraper!Locals, r.src \in 1..Len(Sources), NEW failed \in BOOLEAN
  PROVE  AtHand(Scraper!NextSource(r, failed))
<1> DEFINE src == IF r.src < Len(Sources) THEN r.src + 1 ELSE r.src
           pc == IF r.src < Len(Sources) THEN "fetch" ELSE "finish"
           failures == IF failed THEN r.failures + 1 ELSE r.failures
           N == [Scraper!Idle EXCEPT !.pc = pc, !.job = r.job, !.src = src,
                                     !.failures = failures]
<1>1. /\ Scraper!Idle \in Scraper!Locals /\ Scraper!Idle.todo = {} /\ Scraper!Idle.feed = <<>>
  BY IdleAtHand DEF Scraper!Idle, AtHand
<1>2. r.job \in Ticks \cup {"none"} /\ r.failures \in Nat /\ Len(Sources) \in Nat
  BY PipelineAssumption DEF Scraper!Locals
<1>3. src \in 1..Len(Sources) /\ src \in Nat /\ failures \in Nat
  BY <1>2
<1>4. pc \in {"fetch", "finish"}
  OBVIOUS
<1>5. Scraper!NextSource(r, failed) = N
  BY DEF Scraper!NextSource
<1> HIDE DEF src, pc, failures
<1>6. N \in Scraper!Locals
  BY <1>1, <1>2, <1>3, <1>4, Zenon DEF Scraper!Locals
<1>7. N.pc = pc /\ N.src = src /\ N.todo = Scraper!Idle.todo /\ N.feed = Scraper!Idle.feed
  BY <1>1, Zenon DEF Scraper!Locals
<1> HIDE DEF N
<1> QED BY <1>1, <1>3, <1>4, <1>5, <1>6, <1>7 DEF AtHand

\* One worker's locals change.
LEMMA RunChange ==
  ASSUME RunsOK, NEW w \in Workers, NEW L, AtHand(L), run' = [run EXCEPT ![w] = L]
  PROVE  RunsOK'
<1>1. L \in Scraper!Locals
  BY DEF AtHand
<1>2. run' \in [Workers -> Scraper!Locals]
  BY <1>1 DEF RunsOK
<1>3. \A v \in Workers : run'[v] = IF v = w THEN L ELSE run[v]
  BY DEF RunsOK
<1> QED BY <1>2, <1>3 DEF RunsOK, AtHand

\* Every step of the scrapers keeps their locals in order.
LEMMA RunsStay ==
  ASSUME RunsOK, Scraper!Next
  PROVE  RunsOK'
<1>1. ASSUME NEW w \in Workers
      PROVE  /\ AtHand(run[w]) /\ run[w] \in Scraper!Locals
             /\ run[w].feed \in Seq(Scraper!Listing)
             /\ run[w].accepted + 1 \in Nat /\ run[w].rejected + 1 \in Nat
  BY DEF RunsOK, Scraper!Locals
<1>2. ASSUME NEW w \in Workers, NEW t \in Ticks, Scraper!Take(w, t) PROVE RunsOK'
  BY <1>2, StartingAtHand, RunChange DEF Scraper!Take
<1>3. ASSUME NEW w \in Workers, run[w].pc # "idle", NEW failed \in BOOLEAN,
             run' = [run EXCEPT ![w] = Scraper!NextSource(run[w], failed)]
      PROVE  RunsOK'
  <2>1. run[w].src \in 1..Len(Sources)
    BY <1>1, <1>3 DEF AtHand
  <2> QED BY <1>1, <1>3, <2>1, NextSourceAtHand, RunChange
<1>4. ASSUME NEW w \in Workers, run' = [run EXCEPT ![w] = Scraper!Idle] PROVE RunsOK'
  BY <1>4, IdleAtHand, RunChange
<1>5. ASSUME NEW w \in Workers, Scraper!Fetch(w) PROVE RunsOK'
  <2> DEFINE feeds == Feeds[Sources[run[w].src]]
  <2>1. feeds \in SUBSET Seq(Scraper!Listing)
    <3>1. run[w].src \in 1..Len(Sources)
      BY <1>1, <1>5 DEF AtHand, Scraper!Fetch
    <3>2. Sources[run[w].src] \in Scraper!Boards
      BY <3>1, PipelineAssumption
    <3> QED BY <3>2, PipelineAssumption
  <2>2. PICK feed \in feeds :
          run' = [run EXCEPT ![w] = [run[w] EXCEPT !.pc = "loop", !.feed = feed,
                    !.todo = {i \in DOMAIN feed : Scraper!Keeps(feed[i])}]]
    BY <1>5 DEF Scraper!Fetch
  <2> DEFINE todo == {i \in DOMAIN feed : Scraper!Keeps(feed[i])}
             L == [run[w] EXCEPT !.pc = "loop", !.feed = feed, !.todo = todo]
  <2>3. feed \in Seq(Scraper!Listing) /\ todo \subseteq DOMAIN feed /\ todo \in SUBSET Nat
    BY <2>1
  <2>4. run[w].pc = "fetch"
    BY <1>5 DEF Scraper!Fetch
  <2>5. run' = [run EXCEPT ![w] = L]
    BY <2>2
  <2> HIDE DEF todo, feeds
  <2>6. L \in Scraper!Locals
    BY <1>1, <2>3, Zenon DEF Scraper!Locals
  <2>7. L.pc = "loop" /\ L.feed = feed /\ L.todo = todo /\ L.src = run[w].src
    BY <1>1, Zenon DEF Scraper!Locals
  <2> HIDE DEF L
  <2>8. AtHand(L)
    BY <1>1, <2>3, <2>4, <2>6, <2>7 DEF AtHand
  <2> QED BY <2>5, <2>8, RunChange
<1>6. ASSUME NEW w \in Workers, Scraper!CheckRepost(w) PROVE RunsOK'
  <2>1. PICK i \in run[w].todo, error \in BOOLEAN :
          LET isRepost == ~error /\ run[w].feed[i].posting \in repost
          IN  run' = [run EXCEPT ![w] = [run[w] EXCEPT
                !.pc = IF Scraper!Accepts(run[w].feed[i], isRepost) THEN "commit" ELSE "reject",
                !.item = i, !.todo = run[w].todo \ {i}, !.isRepost = isRepost]]
    BY <1>6 DEF Scraper!CheckRepost
  <2> DEFINE isRepost == ~error /\ run[w].feed[i].posting \in repost
             pc == IF Scraper!Accepts(run[w].feed[i], isRepost) THEN "commit" ELSE "reject"
             rest == run[w].todo \ {i}
             L == [run[w] EXCEPT !.pc = pc, !.item = i, !.todo = rest, !.isRepost = isRepost]
  <2>2. run' = [run EXCEPT ![w] = L]
    BY <2>1
  <2>3. /\ i \in DOMAIN run[w].feed /\ i \in Nat /\ rest \in SUBSET Nat
        /\ rest \subseteq DOMAIN run[w].feed /\ isRepost \in BOOLEAN
        /\ pc \in {"commit", "reject"}
        /\ pc = "commit" => Scraper!Accepts(run[w].feed[i], isRepost)
    BY <1>1 DEF AtHand
  <2>4. run[w].pc = "loop"
    BY <1>6 DEF Scraper!CheckRepost
  <2> HIDE DEF isRepost, pc, rest
  <2>5. L \in Scraper!Locals
    BY <1>1, <2>3, Zenon DEF Scraper!Locals
  <2>6. /\ L.pc = pc /\ L.feed = run[w].feed /\ L.todo = rest /\ L.src = run[w].src
        /\ L.item = i /\ L.isRepost = isRepost
    BY <1>1, Zenon DEF Scraper!Locals
  <2> HIDE DEF L
  <2>7. AtHand(L)
    BY <1>1, <2>3, <2>4, <2>5, <2>6 DEF AtHand
  <2> QED BY <2>2, <2>7, RunChange
<1>7. ASSUME NEW w \in Workers, run[w].pc # "idle", NEW pc \in {"loop", "remember"},
             NEW accepted \in Nat,
             run' = [run EXCEPT ![w] = [run[w] EXCEPT !.pc = pc, !.accepted = accepted]]
      PROVE  RunsOK'
  <2> DEFINE L == [run[w] EXCEPT !.pc = pc, !.accepted = accepted]
  <2>1. L \in Scraper!Locals
    BY <1>1, <1>7, Zenon DEF Scraper!Locals
  <2>2. L.pc = pc /\ L.feed = run[w].feed /\ L.todo = run[w].todo /\ L.src = run[w].src
    BY <1>1, Zenon DEF Scraper!Locals
  <2>3. run' = [run EXCEPT ![w] = L]
    BY <1>7
  <2> HIDE DEF L
  <2>4. AtHand(L)
    BY <1>1, <1>7, <2>1, <2>2 DEF AtHand
  <2> QED BY <2>3, <2>4, RunChange
<1>8. ASSUME NEW w \in Workers, Scraper!Reject(w) PROVE RunsOK'
  <2> DEFINE rejected == run[w].rejected + 1
             L == [run[w] EXCEPT !.pc = "loop", !.rejected = rejected]
  <2>1. run[w].pc = "reject" /\ run' = [run EXCEPT ![w] = L] /\ rejected \in Nat
    BY <1>1, <1>8 DEF Scraper!Reject
  <2> HIDE DEF rejected
  <2>2. L \in Scraper!Locals
    BY <1>1, <2>1, Zenon DEF Scraper!Locals
  <2>3. L.pc = "loop" /\ L.feed = run[w].feed /\ L.todo = run[w].todo /\ L.src = run[w].src
    BY <1>1, Zenon DEF Scraper!Locals
  <2> HIDE DEF L
  <2>4. AtHand(L)
    BY <1>1, <2>1, <2>2, <2>3 DEF AtHand
  <2> QED BY <2>1, <2>4, RunChange
<1>9. ASSUME NEW w \in Workers, Scraper!Commit(w) \/ Scraper!Remember(w) PROVE RunsOK'
  <2>1. run[w].accepted \in Nat
    BY <1>1 DEF Scraper!Locals
  <2>2. CASE Scraper!Commit(w)
    <3> DEFINE pc == IF run[w].isRepost THEN "loop" ELSE "remember"
               accepted == IF run[w].isRepost THEN run[w].accepted + 1 ELSE run[w].accepted
    <3>1. run[w].pc = "commit" /\ pc \in {"loop", "remember"} /\ accepted \in Nat
      BY <1>1, <2>1, <2>2 DEF Scraper!Commit
    <3>2. run' = [run EXCEPT ![w] = [run[w] EXCEPT !.pc = pc, !.accepted = accepted]]
      BY <2>2 DEF Scraper!Commit
    <3> HIDE DEF pc, accepted
    <3> QED BY <1>7, <3>1, <3>2
  <2>3. CASE Scraper!Remember(w)
    <3> DEFINE accepted == run[w].accepted + 1
    <3>1. run[w].pc = "remember" /\ accepted \in Nat
          /\ run' = [run EXCEPT ![w] = [run[w] EXCEPT !.pc = "loop", !.accepted = accepted]]
      BY <1>1, <2>3 DEF Scraper!Remember
    <3> HIDE DEF accepted
    <3> QED BY <1>7, <3>1
  <2> QED BY <1>9, <2>2, <2>3
<1>10. ASSUME NEW w \in Workers, Scraper!Step(w)
       PROVE  \/ Scraper!Fetch(w) \/ Scraper!CheckRepost(w) \/ Scraper!Reject(w)
              \/ Scraper!Commit(w) \/ Scraper!Remember(w)
              \/ run' = [run EXCEPT ![w] = Scraper!Idle]
              \/ run[w].pc # "idle" /\ \E failed \in BOOLEAN :
                   run' = [run EXCEPT ![w] = Scraper!NextSource(run[w], failed)]
  BY <1>10
     DEF Scraper!Step, Scraper!FetchFails, Scraper!RejectFails, Scraper!CommitFails,
         Scraper!RememberFails, Scraper!Publish, Scraper!PublishFails, Scraper!NothingStored,
         Scraper!Finish, Scraper!SourceFails
<1>11. ASSUME NEW w \in Workers, Scraper!Step(w) \/ Scraper!Crash(w) PROVE RunsOK'
  BY <1>3, <1>4, <1>5, <1>6, <1>8, <1>9, <1>10, <1>11 DEF Scraper!Crash
<1>12. CASE UNCHANGED run
  BY <1>12 DEF RunsOK
<1> QED
  BY <1>2, <1>11, <1>12
     DEF Scraper!Next, Scraper!Tick, Scraper!StallDetected, Scraper!FalseStall,
         Scraper!KeyExpires

-----------------------------------------------------------------------------
\* A scraper's step leaves the two shared tables alone, or stores a listing
\* that qualifies, with its event.
Stores(u, c, s) ==
  /\ u \in Urls /\ c \in Companies /\ s \in RelayView!ScrapeScores
  /\ \E k \in Postings, b \in Scraper!Boards :
       jobs' = [v \in DOMAIN jobs \cup {u} |->
                  IF v = u THEN [score |-> s, company |-> c, posting |-> k, source |-> b]
                  ELSE jobs[v]]
  /\ outbox' = Append(outbox, [job |-> u, company |-> c, processed |-> FALSE])

\* A transaction that commits stores one job with its outbox row.
LEMMA PersistStores ==
  ASSUME RunsOK, TablesOK, NEW w \in Workers, run[w].pc = "commit", Scraper!Persist(w)
  PROVE  \E u, c, s : Stores(u, c, s)
<1> DEFINE l == Scraper!Item(w)
           s == Scraper!Score(l, run[w].isRepost)
           b == Sources[run[w].src]
           source == IF l.url \in DOMAIN jobs THEN jobs[l.url].source ELSE b
<1>1. /\ AtHand(run[w]) /\ run[w] \in Scraper!Locals
  BY DEF RunsOK
<1>2. l \in Scraper!Listing /\ Scraper!Accepts(l, run[w].isRepost) /\ run[w].isRepost \in BOOLEAN
  BY <1>1 DEF AtHand, Scraper!Locals, Scraper!Item
<1>3. s \in RelayView!ScrapeScores
  BY <1>2, AcceptedScore
<1>4. l.url \in Urls /\ l.company \in Companies /\ l.posting \in Postings
  BY <1>2 DEF Scraper!Listing
<1>5. source \in Scraper!Boards
  <2>1. b \in Scraper!Boards
    <3>1. run[w].src \in 1..Len(Sources)
      BY <1>1 DEF AtHand
    <3> QED BY <3>1, PipelineAssumption
  <2>2. l.url \in DOMAIN jobs => jobs[l.url].source \in Scraper!Boards
    BY DEF TablesOK, Scraper!Rows
  <2> QED BY <2>1, <2>2
<1>6. /\ outbox' = Append(outbox, [job |-> l.url, company |-> l.company, processed |-> FALSE])
      /\ jobs' = [u \in DOMAIN jobs \cup {l.url} |->
                    IF u # l.url THEN jobs[u]
                    ELSE [score |-> s, company |-> l.company, posting |-> l.posting,
                          source |-> IF u \in DOMAIN jobs THEN jobs[u].source ELSE b]]
  BY DEF Scraper!Persist, Scraper!Upsert
<1>7. jobs' = [v \in DOMAIN jobs \cup {l.url} |->
                 IF v = l.url THEN [score |-> s, company |-> l.company,
                                    posting |-> l.posting, source |-> source]
                 ELSE jobs[v]]
  BY <1>6
<1> HIDE DEF l, s, source
<1>8. Stores(l.url, l.company, s)
  BY <1>3, <1>4, <1>5, <1>6, <1>7 DEF Stores
<1> QED BY <1>8

\* The scraper writes to the tables in no other way.
LEMMA ScraperWrites ==
  ASSUME RunsOK, TablesOK, Scraper!Next
  PROVE  UNCHANGED <<jobs, outbox>> \/ \E u, c, s : Stores(u, c, s)
<1>1. ASSUME NEW w \in Workers, Scraper!Commit(w) \/ Scraper!CommitFails(w)
      PROVE  UNCHANGED <<jobs, outbox>> \/ \E u, c, s : Stores(u, c, s)
  <2>1. run[w].pc = "commit" /\ (Scraper!Persist(w) \/ UNCHANGED <<jobs, outbox>>)
    BY <1>1 DEF Scraper!Commit, Scraper!CommitFails, Scraper!tables
  <2> QED BY <2>1, PersistStores
<1>2. ASSUME NEW w \in Workers, Scraper!Step(w), ~Scraper!Commit(w), ~Scraper!CommitFails(w)
      PROVE  UNCHANGED <<jobs, outbox>>
  BY <1>2
     DEF Scraper!Step, Scraper!Fetch, Scraper!FetchFails, Scraper!CheckRepost, Scraper!Reject,
         Scraper!RejectFails, Scraper!Remember, Scraper!RememberFails, Scraper!Publish,
         Scraper!PublishFails, Scraper!NothingStored, Scraper!Finish, Scraper!tables
<1> QED
  BY <1>1, <1>2
     DEF Scraper!Next, Scraper!Tick, Scraper!StallDetected, Scraper!FalseStall, Scraper!Take,
         Scraper!Crash, Scraper!KeyExpires, Scraper!tables

\* What is stored keeps the tables in order, and takes no row from a relay.
LEMMA StoringKeepsTables ==
  ASSUME TablesOK, NEW u, NEW c, NEW s, Stores(u, c, s)
  PROVE  TablesOK' /\ DOMAIN outbox \subseteq DOMAIN outbox'
<1> DEFINE event == [job |-> u, company |-> c, processed |-> FALSE]
<1>1. u \in Urls /\ c \in Companies /\ s \in RelayView!ScrapeScores
  BY DEF Stores
<1>2. PICK k \in Postings, b \in Scraper!Boards :
        jobs' = [v \in DOMAIN jobs \cup {u} |->
                   IF v = u THEN [score |-> s, company |-> c, posting |-> k, source |-> b]
                   ELSE jobs[v]]
  BY DEF Stores
<1> DEFINE row == [score |-> s, company |-> c, posting |-> k, source |-> b]
<1>3. row \in Scraper!Rows /\ row.score \in 60..100
  BY <1>1 DEF Scraper!Rows, RelayView!ScrapeScores
<1>4. jobs \in [DOMAIN jobs -> Scraper!Rows] /\ outbox \in Seq(Scraper!OutboxRow)
  BY DEF TablesOK
<1>5. event \in Scraper!OutboxRow /\ event.job = u /\ outbox' = Append(outbox, event)
  BY <1>1 DEF Scraper!OutboxRow, Stores
<1>6. DOMAIN jobs' = DOMAIN jobs \cup {u} /\ jobs'[u] = row
      /\ \A v \in DOMAIN jobs : v # u => jobs'[v] = jobs[v]
  BY <1>2
<1> HIDE DEF row, event
<1>7. \A v \in DOMAIN jobs' : jobs'[v] \in Scraper!Rows /\ jobs'[v].score \in 60..100
  BY <1>3, <1>4, <1>6 DEF TablesOK
<1>8. jobs' \in [DOMAIN jobs' -> Scraper!Rows]
  <2>1. jobs' = [v \in DOMAIN jobs' |-> jobs'[v]]
    BY <1>2
  <2> QED BY <1>7, <2>1
<1>9. /\ outbox' \in Seq(Scraper!OutboxRow) /\ DOMAIN outbox \subseteq DOMAIN outbox'
      /\ \A r \in DOMAIN outbox' : outbox'[r] = IF r \in DOMAIN outbox THEN outbox[r] ELSE event
  BY <1>4, <1>5
<1>10. \A r \in DOMAIN outbox' : outbox'[r].job \in DOMAIN jobs'
  BY <1>5, <1>6, <1>9 DEF TablesOK
<1> QED BY <1>1, <1>6, <1>7, <1>8, <1>9, <1>10 DEF TablesOK


-----------------------------------------------------------------------------
\* The relay's locals.
LEMMA RelayTyped ==
  ASSUME RelaysOK, TablesOK, NEW w \in Workers
  PROVE  /\ RelayOK(relay[w]) /\ relay[w] \in Relay!Locals /\ relay[w].batch \in SUBSET Nat
         /\ relay[w].row \in Nat /\ DOMAIN outbox \subseteq Nat
BY DEF RelaysOK, RelayOK, TablesOK, Relay!Locals

\* The row that a relay holds is an event of the outbox about a stored job.
LEMMA RowAtHand ==
  ASSUME RelaysOK, TablesOK, NEW w \in Workers, relay[w].pc \in Relay!Holding
  PROVE  /\ relay[w].row \in DOMAIN outbox
         /\ outbox[relay[w].row] \in Scraper!OutboxRow
         /\ outbox[relay[w].row].job \in DOMAIN jobs
BY RelayTyped DEF TablesOK, RelayOK

\* An idle relay holds no row.
LEMMA RelayIdle == Relay!Idle \in Relay!Locals /\ RelayOK(Relay!Idle)
<1>1. 0 \in Nat /\ 0 \in Int /\ {} \in SUBSET Nat
  OBVIOUS
<1>2. Relay!Idle \in Relay!Locals
  BY <1>1, Zenon DEF Relay!Idle, Relay!Locals
<1> QED BY <1>2 DEF Relay!Idle, Relay!Holding, RelayOK

\* One relay's locals change while the outbox keeps its rows.
LEMMA RelayChange ==
  ASSUME RelaysOK, NEW w \in Workers, NEW L \in Relay!Locals, RelayOK(L),
         relay' = [relay EXCEPT ![w] = L], DOMAIN outbox \subseteq DOMAIN outbox'
  PROVE  RelaysOK'
<1>1. relay' \in [Workers -> Relay!Locals]
  BY DEF RelaysOK
<1>2. \A v \in Workers : relay'[v] = IF v = w THEN L ELSE relay[v]
  BY DEF RelaysOK
<1> QED BY <1>1, <1>2 DEF RelaysOK, RelayOK

\* Rows that are added leave the relays where they are.
LEMMA RelaysKept ==
  ASSUME RelaysOK, UNCHANGED relay, DOMAIN outbox \subseteq DOMAIN outbox'
  PROVE  RelaysOK'
BY DEF RelaysOK, RelayOK

\* A claim takes rows there are.
LEMMA ClaimStep ==
  ASSUME IInv, NEW w \in Workers, Relay!Claim(w)
  PROVE  RelaysOK' /\ UNCHANGED <<jobs, outbox>>
<1>1. PICK batch \in SUBSET Relay!Unprocessed : Relay!Takes(w, batch)
  BY DEF Relay!Claim
<1>2. /\ relay[w] \in Relay!Locals /\ batch \subseteq DOMAIN outbox /\ batch \in SUBSET Nat
  BY RelayTyped DEF IInv, Relay!Unprocessed
<1> DEFINE L == [relay[w] EXCEPT !.pc = "lookup", !.batch = batch]
<1>3. L \in Relay!Locals /\ L.batch = batch /\ L.pc = "lookup"
  BY <1>2, Zenon DEF Relay!Locals
<1>4. relay' = [relay EXCEPT ![w] = L] /\ UNCHANGED <<jobs, outbox>>
  BY <1>1 DEF Relay!Claim, Relay!Takes
<1> HIDE DEF L
<1>5. RelayOK(L)
  BY <1>2, <1>3 DEF RelayOK, Relay!Holding
<1> QED BY <1>3, <1>4, <1>5, RelayChange DEF IInv

\* A run of process() that starts, or whose claim is refused, has no row in hand.
LEMMA StartStep ==
  ASSUME IInv, NEW w \in Workers, Relay!Start(w) \/ Relay!ClaimRefused(w)
  PROVE  RelaysOK' /\ UNCHANGED <<jobs, outbox>>
<1>1. relay[w] \in Relay!Locals /\ RelayOK(relay[w])
  BY RelayTyped DEF IInv
<1> DEFINE L == [relay[w] EXCEPT !.pc = "claim"]
<1>2. L \in Relay!Locals /\ L.batch = relay[w].batch /\ L.pc = "claim"
  BY <1>1, Zenon DEF Relay!Locals
<1>3. /\ UNCHANGED <<jobs, outbox>>
      /\ relay' = [relay EXCEPT ![w] = L] \/ relay' = [relay EXCEPT ![w] = Relay!Idle]
  BY DEF Relay!Start, Relay!ClaimRefused
<1> HIDE DEF L
<1>4. RelayOK(L)
  BY <1>1, <1>2 DEF RelayOK, Relay!Holding
<1> QED BY <1>2, <1>3, <1>4, RelayIdle, RelayChange DEF IInv

\* A lookup goes on with a row of the batch.
LEMMA LookupStep ==
  ASSUME IInv, NEW w \in Workers, Relay!Lookup(w)
  PROVE  RelaysOK' /\ UNCHANGED <<jobs, outbox>>
<1>1. PICK r \in relay[w].batch, pc \in {"company", "ack"} :
        relay' = [relay EXCEPT ![w] =
                    [relay[w] EXCEPT !.pc = pc, !.row = r, !.batch = relay[w].batch \ {r}]]
  BY DEF Relay!Lookup
<1> DEFINE batch == relay[w].batch \ {r}
<1>2. /\ relay[w] \in Relay!Locals /\ r \in DOMAIN outbox /\ r \in Nat
      /\ batch \subseteq DOMAIN outbox /\ batch \in SUBSET Nat
  BY RelayTyped DEF IInv, RelayOK
<1> HIDE DEF batch
<1> DEFINE L == [relay[w] EXCEPT !.pc = pc, !.row = r, !.batch = batch]
<1>3. L \in Relay!Locals /\ L.batch = batch /\ L.pc = pc /\ L.row = r
  BY <1>2, Zenon DEF Relay!Locals
<1>4. relay' = [relay EXCEPT ![w] = L] /\ UNCHANGED <<jobs, outbox>>
  BY <1>1 DEF Relay!Lookup, batch
<1> HIDE DEF L
<1>5. RelayOK(L)
  BY <1>2, <1>3 DEF RelayOK
<1> QED BY <1>3, <1>4, <1>5, RelayChange DEF IInv

\* Writing the company leaves jobs and outbox alone.
LEMMA UpdateCompanyStep ==
  ASSUME IInv, NEW w \in Workers, Relay!UpdateCompany(w)
  PROVE  RelaysOK' /\ UNCHANGED <<jobs, outbox>>
<1>1. relay[w].pc = "company"
  BY DEF Relay!UpdateCompany
<1>2. /\ relay[w] \in Relay!Locals /\ RelayOK(relay[w]) /\ relay[w].row \in DOMAIN outbox
  BY <1>1, RelayTyped, RowAtHand DEF IInv, Relay!Holding
<1> DEFINE L == [relay[w] EXCEPT !.pc = "read"]
<1>3. L \in Relay!Locals /\ L.batch = relay[w].batch /\ L.pc = "read" /\ L.row = relay[w].row
  BY <1>2, Zenon DEF Relay!Locals
<1>4. relay' = [relay EXCEPT ![w] = L] /\ UNCHANGED <<jobs, outbox>>
  BY DEF Relay!UpdateCompany
<1> HIDE DEF L
<1>5. RelayOK(L)
  BY <1>2, <1>3 DEF RelayOK
<1> QED BY <1>3, <1>4, <1>5, RelayChange DEF IInv

\* The job of a row that is held exists, so that its score can be read.
LEMMA ReadJobStep ==
  ASSUME IInv, NEW w \in Workers, Relay!ReadJob(w)
  PROVE  RelaysOK' /\ UNCHANGED <<jobs, outbox>>
<1> DEFINE score == jobs[outbox[relay[w].row].job].score
<1>1. relay[w].pc = "read"
  BY DEF Relay!ReadJob
<1>2. /\ relay[w] \in Relay!Locals /\ RelayOK(relay[w]) /\ relay[w].row \in DOMAIN outbox
      /\ outbox[relay[w].row].job \in DOMAIN jobs
  BY <1>1, RelayTyped, RowAtHand DEF IInv, Relay!Holding
<1>b. score \in 60..100 /\ score \in Int
  <2>1. \A u \in DOMAIN jobs : jobs[u].score \in 60..100
    BY DEF IInv, TablesOK
  <2>2. score \in 60..100
    BY <1>2, <2>1
  <2> HIDE DEF score
  <2> QED BY <2>2
<1>a. relay' = [relay EXCEPT ![w] = [relay[w] EXCEPT !.pc = "rescore", !.score = score]]
  BY DEF Relay!ReadJob
<1> HIDE DEF score
<1> DEFINE L == [relay[w] EXCEPT !.pc = "rescore", !.score = score]
<1>3. /\ L \in Relay!Locals /\ L.batch = relay[w].batch /\ L.pc = "rescore"
      /\ L.row = relay[w].row /\ L.score = score
  BY <1>2, <1>b, Zenon DEF Relay!Locals
<1>4. relay' = [relay EXCEPT ![w] = L] /\ UNCHANGED <<jobs, outbox>>
  BY <1>a DEF Relay!ReadJob
<1> HIDE DEF L
<1>5. RelayOK(L)
  BY <1>2, <1>b, <1>3 DEF RelayOK
<1> QED BY <1>3, <1>4, <1>5, RelayChange DEF IInv


\* The relay writes a score it has read, with the bonus: 75 at least, 100 at most.
LEMMA RescoreStep ==
  ASSUME IInv, NEW w \in Workers, Relay!Rescore(w)
  PROVE  /\ RelaysOK' /\ TablesOK' /\ UNCHANGED outbox
         /\ \A u \in DOMAIN jobs : jobs[u] \in Scraper!Rows
<1> DEFINE u == outbox[relay[w].row].job
           s == Relay!Capped(relay[w].score + Relay!Bonus)
<1>1. relay[w].pc = "rescore"
  BY DEF Relay!Rescore
<1>2. /\ relay[w] \in Relay!Locals /\ RelayOK(relay[w]) /\ relay[w].row \in DOMAIN outbox
      /\ u \in DOMAIN jobs /\ relay[w].score \in 60..100
  BY <1>1, RelayTyped, RowAtHand DEF IInv, RelayOK, Relay!Holding
<1>3. s \in 60..100 /\ s \in Int
  BY <1>2 DEF Relay!Capped, Relay!Bonus, Relay!Cap
<1>4. jobs' = [jobs EXCEPT ![u].score = s] /\ UNCHANGED outbox
  BY DEF Relay!Rescore
<1>5. jobs \in [DOMAIN jobs -> Scraper!Rows]
  BY DEF IInv, TablesOK
<1> DEFINE row == [jobs[u] EXCEPT !.score = s]
<1>6. row \in Scraper!Rows /\ row.score = s
  <2>1. jobs[u] \in Scraper!Rows
    BY <1>2, <1>5
  <2> HIDE DEF u, s
  <2> QED BY <1>3, <2>1, Zenon DEF Scraper!Rows
<1>7. jobs' = [jobs EXCEPT ![u] = row]
  BY <1>4
<1> HIDE DEF row, u, s
<1>8. /\ DOMAIN jobs' = DOMAIN jobs /\ jobs' \in [DOMAIN jobs -> Scraper!Rows]
      /\ \A v \in DOMAIN jobs : jobs'[v] = IF v = u THEN row ELSE jobs[v]
  BY <1>2, <1>5, <1>6, <1>7
<1>9. TablesOK'
  BY <1>3, <1>4, <1>6, <1>8 DEF IInv, TablesOK
<1> DEFINE L == [relay[w] EXCEPT !.pc = "ack", !.score = 0]
<1>10. /\ L \in Relay!Locals /\ L.batch = relay[w].batch /\ L.pc = "ack"
       /\ L.row = relay[w].row
  <2>1. 0 \in Int
    OBVIOUS
  <2> QED BY <1>2, <2>1, Zenon DEF Relay!Locals
<1>11. relay' = [relay EXCEPT ![w] = L]
  BY DEF Relay!Rescore
<1> HIDE DEF L
<1>12. RelayOK(L)
  BY <1>2, <1>10 DEF RelayOK
<1>13. RelaysOK'
  BY <1>4, <1>10, <1>11, <1>12, RelayChange DEF IInv
<1> QED BY <1>4, <1>5, <1>9, <1>13

\* An acknowledgement marks the row and leaves the jobs alone.
LEMMA AckStep ==
  ASSUME IInv, NEW w \in Workers, Relay!Ack(w)
  PROVE  RelaysOK' /\ TablesOK' /\ UNCHANGED jobs
<1>1. relay[w].pc = "ack"
  BY DEF Relay!Ack
<1>2. /\ relay[w] \in Relay!Locals /\ RelayOK(relay[w]) /\ relay[w].row \in DOMAIN outbox
      /\ outbox[relay[w].row] \in Scraper!OutboxRow /\ relay[w].batch \in SUBSET Nat
  BY <1>1, RelayTyped, RowAtHand DEF IInv, Relay!Holding
<1> DEFINE event == [outbox[relay[w].row] EXCEPT !.processed = TRUE]
<1>3. event \in Scraper!OutboxRow /\ event.job = outbox[relay[w].row].job
  BY <1>2, Zenon DEF Scraper!OutboxRow
<1>4. outbox' = [outbox EXCEPT ![relay[w].row] = event] /\ UNCHANGED jobs
  BY DEF Relay!Ack
<1> HIDE DEF event
<1>5. outbox \in Seq(Scraper!OutboxRow)
  BY DEF IInv, TablesOK
<1>6. /\ outbox' \in Seq(Scraper!OutboxRow) /\ DOMAIN outbox' = DOMAIN outbox
      /\ \A r \in DOMAIN outbox : outbox'[r] = IF r = relay[w].row THEN event ELSE outbox[r]
  BY <1>2, <1>3, <1>4, <1>5
<1>7. TablesOK'
  BY <1>3, <1>4, <1>6 DEF IInv, TablesOK
<1> DEFINE L == [Relay!Idle EXCEPT !.pc = "lookup", !.batch = relay[w].batch]
<1>8. L \in Relay!Locals /\ L.batch = relay[w].batch /\ L.pc = "lookup"
  BY <1>2, RelayIdle, Zenon DEF Relay!Locals
<1>9. \/ relay' = [relay EXCEPT ![w] = Relay!Idle]
      \/ relay' = [relay EXCEPT ![w] = L]
  BY DEF Relay!Ack
<1> HIDE DEF L
<1>10. RelayOK(L)
  BY <1>2, <1>8 DEF RelayOK, Relay!Holding
<1>11. RelaysOK'
  BY <1>6, <1>8, <1>9, <1>10, RelayIdle, RelayChange DEF IInv
<1> QED BY <1>4, <1>7, <1>11

\* A relay that is interrupted holds nothing.
LEMMA InterruptStep ==
  ASSUME RelaysOK, NEW w \in Workers, Relay!Interrupt(w), DOMAIN outbox \subseteq DOMAIN outbox'
  PROVE  RelaysOK'
BY RelayIdle, RelayChange DEF Relay!Interrupt

-----------------------------------------------------------------------------
\* The inductive invariant holds at first, ...
LEMMA InitIInv == Init => IInv
<1> SUFFICES ASSUME Init PROVE IInv
  OBVIOUS
<1>1. RunsOK
  BY IdleAtHand DEF Init, Scraper!Init, RunsOK, AtHand
<1>2. jobs = [u \in {} |-> 0] /\ outbox = <<>>
  BY DEF Init, Scraper!Init
<1>3. TablesOK
  BY <1>2 DEF TablesOK
<1>4. RelaysOK
  BY RelayIdle DEF Init, Relay!RelayInit, RelaysOK
<1> QED BY <1>1, <1>3, <1>4 DEF IInv

\* ... and the scraper, ...
LEMMA ScrapeIInv ==
  ASSUME IInv, Scrape
  PROVE  IInv'
<1>1. RunsOK'
  BY RunsStay DEF IInv, Scrape
<1>2. TablesOK' /\ DOMAIN outbox \subseteq DOMAIN outbox'
  BY ScraperWrites, StoringKeepsTables DEF IInv, Scrape, TablesOK
<1>3. RelaysOK'
  BY <1>2, RelaysKept DEF IInv, Scrape, relayVars
<1> QED BY <1>1, <1>2, <1>3 DEF IInv

\* ... the relay ...
LEMMA EnrichIInv ==
  ASSUME IInv, Enrich
  PROVE  IInv'
<1>1. RunsOK'
  BY DEF IInv, Enrich, scraperVars, RunsOK
<1>2. PICK w \in Workers : Relay!RelayStep(w) \/ Relay!Interrupt(w)
  BY DEF Enrich
<1>3. CASE UNCHANGED <<jobs, outbox>> /\ RelaysOK'
  BY <1>1, <1>3 DEF IInv, TablesOK
<1>4. CASE Relay!Interrupt(w)
  <2>1. UNCHANGED <<jobs, outbox>>
    BY <1>4 DEF Relay!Interrupt
  <2> QED BY <1>3, <1>4, <2>1, InterruptStep DEF IInv
<1> QED
  BY <1>1, <1>2, <1>3, <1>4, StartStep, ClaimStep, LookupStep, UpdateCompanyStep, ReadJobStep,
     RescoreStep, AckStep
     DEF IInv, Relay!RelayStep

\* ... and the crash of an instance keep it.
LEMMA CrashIInv ==
  ASSUME IInv, InstanceCrash
  PROVE  IInv' /\ UNCHANGED <<jobs, outbox>>
<1>1. PICK w \in Workers : Scraper!Crash(w) /\ Relay!Interrupt(w)
  BY DEF InstanceCrash
<1>2. RunsOK' /\ UNCHANGED <<jobs, outbox>>
  BY <1>1, RunsStay DEF IInv, Scraper!Next, Relay!Interrupt
<1> QED BY <1>1, <1>2, InterruptStep DEF IInv, TablesOK

\* Scrapers and relays on the same tables: every event names a stored job, a
\* relay holds rows that are there, and every score it reads is in range.
THEOREM Safety == Spec => []IInv
<1>1. IInv /\ UNCHANGED vars => IInv'
  BY DEF IInv, vars, scraperVars, relayVars, RunsOK, TablesOK, RelaysOK, RelayOK
<1>2. IInv /\ [Next]_vars => IInv'
  BY <1>1, ScrapeIInv, EnrichIInv, CrashIInv DEF Next
<1> QED BY InitIInv, <1>2, PTL DEF Spec

\* Whatever the scraper and the relay overwrite of each other's scores, a
\* stored score qualifies and never passes 100.
THEOREM ScoresStayInRange == Spec => []ScoreInRange
<1>1. IInv => ScoreInRange
  BY DEF IInv, TablesOK, ScoreInRange, Relay!ScoreInRange, Relay!Cap
<1> QED BY Safety, <1>1, PTL


-----------------------------------------------------------------------------
\* The jobs as the relay's specification has them.
View == [u \in DOMAIN jobs |-> [score |-> jobs[u].score, company |-> jobs[u].company]]

\* A stored listing is a scrape of the abstract environment.
LEMMA StoringIsScrape ==
  ASSUME TablesOK, NEW u, NEW c, NEW s, Stores(u, c, s), UNCHANGED relayVars
  PROVE  \E v \in Urls, d \in Companies, e \in RelayView!ScrapeScores : RelayView!Scrape(v, d, e)
<1>1. /\ u \in Urls /\ c \in Companies /\ s \in RelayView!ScrapeScores
      /\ outbox' = Append(outbox, [job |-> u, company |-> c, processed |-> FALSE])
  BY DEF Stores
<1>3. PICK k \in Postings, b \in Scraper!Boards :
        jobs' = [v \in DOMAIN jobs \cup {u} |->
                   IF v = u THEN [score |-> s, company |-> c, posting |-> k, source |-> b]
                   ELSE jobs[v]]
  BY DEF Stores
<1>4. View' = [v \in DOMAIN View \cup {u} |->
                 IF v = u THEN [score |-> s, company |-> c] ELSE View[v]]
  <2>1. DOMAIN View = DOMAIN jobs /\ DOMAIN jobs' = DOMAIN jobs \cup {u}
    BY <1>3 DEF View
  <2>2. jobs'[u].score = s /\ jobs'[u].company = c
    BY <1>3
  <2>3. \A v \in DOMAIN jobs : v # u => jobs'[v] = jobs[v]
    BY <1>3
  <2>4. View' = [v \in DOMAIN jobs' |-> [score |-> jobs'[v].score, company |-> jobs'[v].company]]
    BY DEF View
  <2>5. \A v \in DOMAIN jobs : View[v] = [score |-> jobs[v].score, company |-> jobs[v].company]
    BY DEF View
  <2>6. \A v \in DOMAIN jobs' :
          [score |-> jobs'[v].score, company |-> jobs'[v].company]
            = IF v = u THEN [score |-> s, company |-> c] ELSE View[v]
    BY <2>1, <2>2, <2>3, <2>5
  <2> QED BY <2>1, <2>4, <2>6
<1>5. RelayView!Scrape(u, c, s)
  BY <1>1, <1>4 DEF RelayView!Scrape, RelayView!history, relayVars, View
<1> QED BY <1>1, <1>5

\* A step that neither the tables nor the relays take part in stutters.
LEMMA OtherStutters ==
  ASSUME UNCHANGED <<jobs, outbox>>, UNCHANGED relayVars
  PROVE  UNCHANGED RelayView!vars
BY DEF RelayView!vars, RelayView!history, relayVars

\* The score that is read from the table is the one of the relay's view.
LEMMA ReadJobRefines ==
  ASSUME IInv, NEW w \in Workers, Relay!ReadJob(w)
  PROVE  RelayView!ReadJob(w)
<1> DEFINE u == outbox[relay[w].row].job
<1>1. u \in DOMAIN jobs
  BY RowAtHand DEF IInv, Relay!ReadJob, Relay!Holding
<1>2. View[u].score = jobs[u].score
  BY <1>1 DEF View
<1>3. UNCHANGED View
  BY DEF Relay!ReadJob, View
<1> QED BY <1>2, <1>3 DEF Relay!ReadJob, RelayView!ReadJob, Relay!history, RelayView!history, View

\* The score that is written to the table is the one written to the view.
LEMMA RescoreRefines ==
  ASSUME IInv, NEW w \in Workers, Relay!Rescore(w)
  PROVE  RelayView!Rescore(w)
<1> DEFINE u == outbox[relay[w].row].job
           s == Relay!Capped(relay[w].score + Relay!Bonus)
<1>1. u \in DOMAIN jobs
  BY RowAtHand DEF IInv, Relay!Rescore, Relay!Holding
<1>2. jobs' = [jobs EXCEPT ![u].score = s]
  BY DEF Relay!Rescore
<1>3. jobs[u] \in Scraper!Rows
  BY <1>1 DEF IInv, TablesOK
<1>a. RelayView!Capped(relay[w].score + RelayView!Bonus) = s
  BY DEF RelayView!Capped, RelayView!Bonus, RelayView!Cap, Relay!Capped, Relay!Bonus, Relay!Cap
<1> HIDE DEF s
<1>4. View' = [View EXCEPT ![u].score = s]
  <2> HIDE DEF u
  <2>1. DOMAIN jobs' = DOMAIN jobs /\ DOMAIN View = DOMAIN jobs /\ DOMAIN View' = DOMAIN jobs'
    BY <1>2 DEF View
  <2>2. jobs'[u].score = s /\ jobs'[u].company = jobs[u].company
    <3>1. jobs'[u] = [jobs[u] EXCEPT !.score = s]
      BY <1>1, <1>2
    <3> QED BY <1>3, <3>1 DEF Scraper!Rows
  <2>3. \A v \in DOMAIN jobs : v # u => jobs'[v] = jobs[v]
    BY <1>2
  <2>4. [View[u] EXCEPT !.score = s] = [score |-> s, company |-> jobs[u].company]
    BY <1>1 DEF View
  <2>5. View' = [v \in DOMAIN jobs |-> [score |-> jobs'[v].score, company |-> jobs'[v].company]]
    BY <2>1 DEF View
  <2>6. [View EXCEPT ![u].score = s]
          = [v \in DOMAIN jobs |-> IF v = u THEN [View[u] EXCEPT !.score = s] ELSE View[v]]
    BY <2>1
  <2>7. \A v \in DOMAIN jobs :
          [score |-> jobs'[v].score, company |-> jobs'[v].company]
            = IF v = u THEN [View[u] EXCEPT !.score = s] ELSE View[v]
    BY <2>2, <2>3, <2>4 DEF View
  <2> QED BY <2>5, <2>6, <2>7
<1> QED BY <1>a, <1>4 DEF Relay!Rescore, RelayView!Rescore, View

\* A step of the relay is the same step of the specification of the relay.
LEMMA EnrichRefines ==
  ASSUME IInv, Enrich
  PROVE  \E w \in Workers : RelayView!RelayStep(w) \/ RelayView!Interrupt(w)
<1>1. ASSUME NEW w \in Workers, Relay!Claim(w) PROVE RelayView!Claim(w)
  <2>1. RelayView!Unprocessed = Relay!Unprocessed
    BY DEF Relay!Unprocessed, RelayView!Unprocessed
  <2>2. PICK batch \in SUBSET Relay!Unprocessed :
          /\ batch # {} /\ Relay!Cardinality(batch) <= Limit
          /\ Relay!Cardinality(batch) < Limit => batch = Relay!Unprocessed
          /\ Relay!Takes(w, batch)
    BY <1>1 DEF Relay!Claim
  <2>3. RelayView!Cardinality(batch) = Relay!Cardinality(batch)
    BY DEF Relay!Cardinality, RelayView!Cardinality
  <2>4. relay[w].pc = "claim"
        /\ UNCHANGED <<jobs, outbox, priced, interrupts, attempted, unknown, relayCredit>>
    BY <1>1 DEF Relay!Claim
  <2>5. \A v \in Workers : Relay!Held(v) = RelayView!Held(v)
    BY DEF Relay!Held, RelayView!Held, Relay!Holding, RelayView!Holding
  <2>6. RelayView!Takes(w, batch)
    BY <2>2, <2>5 DEF Relay!Takes, RelayView!Takes
  <2> QED BY <2>1, <2>2, <2>3, <2>4, <2>6 DEF RelayView!Claim
<1>a. ASSUME NEW w \in Workers, Relay!Start(w) PROVE RelayView!Start(w)
  BY <1>a DEF Relay!Start, RelayView!Start, Relay!history, RelayView!history
<1>b. ASSUME NEW w \in Workers, Relay!ClaimRefused(w) PROVE RelayView!ClaimRefused(w)
  BY <1>b DEF Relay!ClaimRefused, RelayView!ClaimRefused, Relay!Idle, RelayView!Idle,
              Relay!history, RelayView!history
<1>2. ASSUME NEW w \in Workers, Relay!Lookup(w) PROVE RelayView!Lookup(w)
  BY <1>2 DEF Relay!Lookup, RelayView!Lookup
<1>3. ASSUME NEW w \in Workers, Relay!UpdateCompany(w) PROVE RelayView!UpdateCompany(w)
  BY <1>3 DEF Relay!UpdateCompany, RelayView!UpdateCompany, Relay!history, RelayView!history
<1>4. ASSUME NEW w \in Workers, Relay!Ack(w) PROVE RelayView!Ack(w)
  BY <1>4 DEF Relay!Ack, RelayView!Ack, Relay!Idle, RelayView!Idle, Relay!history, RelayView!history
<1>5. ASSUME NEW w \in Workers, Relay!Interrupt(w), UNCHANGED jobs PROVE RelayView!Interrupt(w)
  BY <1>5 DEF Relay!Interrupt, RelayView!Interrupt, Relay!Idle, RelayView!Idle
<1>6. ASSUME NEW w \in Workers, Relay!RelayStep(w) PROVE RelayView!RelayStep(w)
  BY <1>1, <1>a, <1>b, <1>2, <1>3, <1>4, <1>6, ReadJobRefines, RescoreRefines
     DEF Relay!RelayStep, RelayView!RelayStep
<1>7. ASSUME NEW w \in Workers, Relay!Interrupt(w) PROVE RelayView!Interrupt(w)
  BY <1>5, <1>7 DEF Relay!Interrupt
<1> QED BY <1>6, <1>7 DEF Enrich

\* The whole pipeline, with the real scraper and with instances that die,
\* implements the relay's own specification: what was checked and proved of
\* EnrichmentRelay against its abstract environment holds in the pipeline.
THEOREM RefinesRelay == Spec => ImplementsRelay
<1>1. Init => RelayView!Init
  <2> SUFFICES ASSUME Init PROVE RelayView!Init
    OBVIOUS
  <2>1. jobs = [u \in {} |-> 0] /\ outbox = <<>>
    BY DEF Init, Scraper!Init
  <2>2. View = [u \in {} |-> 0]
    BY <2>1 DEF View
  <2> QED BY <2>1, <2>2
          DEF Init, Relay!RelayInit, RelayView!Init, RelayView!RelayInit, Relay!Idle,
              RelayView!Idle, View
<1>2. IInv /\ [Next]_vars => [RelayView!Next]_(RelayView!vars)
  <2> SUFFICES ASSUME IInv, [Next]_vars
               PROVE  RelayView!Next \/ UNCHANGED RelayView!vars
    OBVIOUS
  <2>1. CASE Scrape
    <3>1. UNCHANGED relayVars /\ Scraper!Next
      BY <2>1 DEF Scrape
    <3>2. CASE UNCHANGED <<jobs, outbox>>
      BY <3>1, <3>2, OtherStutters
    <3>3. CASE \E u, c, s : Stores(u, c, s)
      BY <3>1, <3>3, StoringIsScrape DEF IInv, RelayView!Next
    <3> QED BY <3>1, <3>2, <3>3, ScraperWrites DEF IInv
  <2>2. CASE Enrich
    BY <2>2, EnrichRefines DEF RelayView!Next
  <2>3. CASE InstanceCrash
    <3>1. PICK w \in Workers : Relay!Interrupt(w)
      BY <2>3 DEF InstanceCrash
    <3>2. RelayView!Interrupt(w)
      BY <3>1 DEF Relay!Interrupt, RelayView!Interrupt, Relay!Idle, RelayView!Idle
    <3> QED BY <3>2 DEF RelayView!Next
  <2>4. CASE UNCHANGED vars
    BY <2>4, OtherStutters DEF vars
  <2> QED BY <2>1, <2>2, <2>3, <2>4 DEF Next
<1>3. Spec => []IInv
  BY Safety
<1> QED BY <1>1, <1>2, <1>3, PTL DEF Spec, RelayView!Spec, ImplementsRelay

-----------------------------------------------------------------------------
\* What EnrichmentRelayProofs proves of any environment, of this one.
Seen == INSTANCE EnrichmentRelayProofs WITH
  credit <- relayCredit, MaxRows <- 0, jobs <- View

\* The module of the proofs and RelayView are two instances of one specification.
LEMMA SeenIsRelayView == RelayView!Spec => Seen!Spec
<1>1. RelayView!Init => Seen!Init
  BY DEF View, RelayView!Init, Seen!Init, RelayView!RelayInit, Seen!RelayInit,
         RelayView!Idle, Seen!Idle
<1>2. ASSUME NEW w \in Workers PROVE RelayView!Claim(w) => Seen!Claim(w)
  BY DEF View, RelayView!Claim, Seen!Claim, RelayView!Unprocessed, Seen!Unprocessed,
         RelayView!Cardinality, Seen!Cardinality, RelayView!Takes, Seen!Takes,
         RelayView!Held, Seen!Held, RelayView!Holding, Seen!Holding
<1>a. ASSUME NEW w \in Workers PROVE RelayView!Start(w) => Seen!Start(w)
  BY DEF View, RelayView!Start, Seen!Start, RelayView!history, Seen!history
<1>b. ASSUME NEW w \in Workers PROVE RelayView!ClaimRefused(w) => Seen!ClaimRefused(w)
  BY DEF View, RelayView!ClaimRefused, Seen!ClaimRefused, RelayView!Idle, Seen!Idle,
         RelayView!history, Seen!history
<1>3. ASSUME NEW w \in Workers PROVE RelayView!Lookup(w) => Seen!Lookup(w)
  BY DEF View, RelayView!Lookup, Seen!Lookup
<1>4. ASSUME NEW w \in Workers PROVE RelayView!UpdateCompany(w) => Seen!UpdateCompany(w)
  BY DEF View, RelayView!UpdateCompany, Seen!UpdateCompany, RelayView!history, Seen!history
<1>5. ASSUME NEW w \in Workers PROVE RelayView!ReadJob(w) => Seen!ReadJob(w)
  BY DEF View, RelayView!ReadJob, Seen!ReadJob, RelayView!history, Seen!history
<1>6. ASSUME NEW w \in Workers PROVE RelayView!Rescore(w) => Seen!Rescore(w)
  BY DEF View, RelayView!Rescore, Seen!Rescore, RelayView!Capped, Seen!Capped,
         RelayView!Cap, Seen!Cap, RelayView!Bonus, Seen!Bonus
<1>7. ASSUME NEW w \in Workers PROVE RelayView!Ack(w) => Seen!Ack(w)
  BY DEF View, RelayView!Ack, Seen!Ack, RelayView!Idle, Seen!Idle,
         RelayView!history, Seen!history
<1>8. ASSUME NEW w \in Workers PROVE RelayView!Interrupt(w) => Seen!Interrupt(w)
  BY DEF View, RelayView!Interrupt, Seen!Interrupt, RelayView!Idle, Seen!Idle
<1>9. ASSUME NEW u \in Urls, NEW c \in Companies, NEW s \in RelayView!ScrapeScores
      PROVE  RelayView!Scrape(u, c, s) => Seen!Scrape(u, c, s)
  BY DEF View, RelayView!Scrape, Seen!Scrape, RelayView!history, Seen!history
<1>10. [RelayView!Next]_(RelayView!vars) => [Seen!Next]_(Seen!vars)
  <2>1. RelayView!Next => Seen!Next
    BY <1>2, <1>a, <1>b, <1>3, <1>4, <1>5, <1>6, <1>7, <1>8, <1>9
       DEF RelayView!Next, Seen!Next, RelayView!RelayStep, Seen!RelayStep,
           RelayView!ScrapeScores, Seen!ScrapeScores
  <2>2. UNCHANGED RelayView!vars => UNCHANGED Seen!vars
    BY DEF View, RelayView!vars, Seen!vars, RelayView!history, Seen!history
  <2> QED BY <2>1, <2>2
<1> QED BY <1>1, <1>10, PTL DEF RelayView!Spec, Seen!Spec

\* In the whole pipeline no crash loses an enrichment: a row is marked only
\* after its lookup, and with its company priced when a salary was found.
THEOREM LosesNoEnrichment == Spec => []NoEnrichmentLost
<1>1. Seen!Spec => []Seen!NoEnrichmentLost
  BY Seen!EnrichmentIsNotLost
<1>2. Seen!NoEnrichmentLost => NoEnrichmentLost
  BY DEF Seen!NoEnrichmentLost, NoEnrichmentLost, Relay!NoEnrichmentLost
<1> QED BY <1>1, <1>2, RefinesRelay, SeenIsRelayView, PTL DEF ImplementsRelay

\* Whatever is scraped in between, the bonus of one event is added a second time
\* only by another worker that held the row at the same time, or after the first
\* was cut off between writing the score and marking the row.
THEOREM SecondBonusMeansSharedRow == Spec => []BonusOncePerHolder
<1>1. Seen!Spec => []Seen!BonusOncePerHolder
  BY Seen!SecondBonusMeansSharedRow
<1>2. Seen!BonusOncePerHolder => BonusOncePerHolder
  BY DEF Seen!BonusOncePerHolder, BonusOncePerHolder, Relay!BonusOncePerHolder
<1> QED BY <1>1, <1>2, RefinesRelay, SeenIsRelayView, PTL DEF ImplementsRelay

\* And every event the real scraper commits is delivered at least once: what
\* leaves the outbox has been handled.
THEOREM DeliversAtLeastOnce == Spec => AtLeastOnce
<1>1. Seen!Spec => Seen!AtLeastOnce
  BY Seen!DeliversAtLeastOnce
<1>2. Seen!Delivery!Init => RelayView!Delivery!Init
  BY DEF Seen!Delivery!Init, RelayView!Delivery!Init
<1>3. [Seen!Delivery!Next]_(Seen!Delivery!vars)
        => [RelayView!Delivery!Next]_(RelayView!Delivery!vars)
  BY DEF Seen!Delivery!Next, RelayView!Delivery!Next, Seen!Delivery!vars,
         RelayView!Delivery!vars, Seen!Delivery!Publish, RelayView!Delivery!Publish,
         Seen!Delivery!Handle, RelayView!Delivery!Handle, Seen!Delivery!Ack,
         RelayView!Delivery!Ack
<1>4. Seen!AtLeastOnce => AtLeastOnce
  BY <1>2, <1>3, PTL
     DEF Seen!AtLeastOnce, AtLeastOnce, RelayView!AtLeastOnce, Seen!Delivery!Spec,
         RelayView!Delivery!Spec
<1> QED BY <1>1, <1>4, RefinesRelay, SeenIsRelayView, PTL DEF ImplementsRelay
=============================================================================
