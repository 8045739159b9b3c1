--------------------------- MODULE EnrichmentRelay ---------------------------
(***************************************************************************)
(* The outbox relay (src/enrichment/enrichment.relay.ts).  Every 30        *)
(* seconds an `enrich` job makes one instance claim up to 50 unprocessed   *)
(* outbox rows and take them one by one: look the company up at            *)
(* levels.fyi, store its median salary, add 15 to the job's score, mark    *)
(* the row.  The claim asks for its row locks outside a transaction.       *)
(* Whether that call is accepted is the library's choice (external): the   *)
(* installed TypeORM 0.3.30 refuses it every time, and then no row is ever *)
(* taken; where it is accepted the locks are gone when it returns, and two *)
(* instances may hold the same row.                                        *)
(*                                                                         *)
(* The scraper's transaction (ScraperWorker!Upsert) appears here as the    *)
(* environment; Pipeline puts the real one in its place.                   *)
(***************************************************************************)
EXTENDS Integers, Sequences, FiniteSets

CONSTANTS
  Workers,        \* application instances, each with one `enrich` worker
  Urls, Companies,
  Limit,          \* rows per claim (`limit(50)`)
  MaxRows,        \* bound of BoundedNext: outbox rows the environment writes
  MaxInterrupts   \* bound: crashes and failed calls of the relays

VARIABLES
  jobs,           \* url -> row
  outbox,         \* job_outbox rows, in the order of their commits
  priced,         \* companies whose salary_p50 is set
  relay,          \* worker -> the locals of its process() call
  interrupts,     \* crashes and failures still to come
  \* What has happened so far, read by the properties only:
  attempted,      \* rows whose lookup has come back
  unknown,        \* rows for which some lookup came back empty
  credit,         \* worker -> rows it gave the bonus for, and was not cut off at
  shared          \* rows that two workers have held at once

history == <<attempted, unknown, credit, shared>>
vars == <<jobs, outbox, priced, relay, interrupts, history>>

\* The scores the scraper stores: it skips a job below 60, and none has more than 85.
ScrapeScores == 60..85

Bonus == 15
Cap == 100
\* Mutation of Capped: no Math.min.
CappedNever(score) == score

Capped(score) == IF score > Cap THEN Cap ELSE score

Unprocessed == {r \in DOMAIN outbox : ~outbox[r].processed}

Idle == [pc |-> "idle", batch |-> {}, row |-> 0, score |-> 0]

-----------------------------------------------------------------------------
\* The steps at which a worker has a row in hand.
Holding == {"company", "read", "rescore", "ack"}

\* The rows worker w has claimed and not marked yet.
Held(w) == relay[w].batch \cup (IF relay[w].pc \in Holding THEN {relay[w].row} ELSE {})

\* The `enrich` job calls process(), which sends its SELECT.
Start(w) ==
  /\ relay[w].pc = "idle"
  /\ relay' = [relay EXCEPT ![w] = [@ EXCEPT !.pc = "claim"]]
  /\ UNCHANGED <<jobs, outbox, priced, interrupts, history>>

\* Worker w has claimed `batch`, of which others may hold some already.
Takes(w, batch) ==
  /\ relay' = [relay EXCEPT ![w] = [@ EXCEPT !.pc = "lookup", !.batch = batch]]
  /\ shared' = shared \cup {r \in batch : \E v \in Workers \ {w} : r \in Held(v)}

\* Mutation of Claim: no WHERE processed_at IS NULL.
ClaimAny(w) ==
  /\ relay[w].pc = "claim"
  /\ \E batch \in SUBSET DOMAIN outbox :
       /\ batch # {} /\ Cardinality(batch) <= Limit
       /\ Takes(w, batch)
  /\ UNCHANGED <<jobs, outbox, priced, interrupts, attempted, unknown, credit>>

\* SELECT ... WHERE processed_at IS NULL LIMIT 50 FOR UPDATE SKIP LOCKED, with
\* no ORDER BY, where it is accepted: any rows, as many as there are up to the
\* limit.
Claim(w) ==
  /\ relay[w].pc = "claim"
  /\ \E batch \in SUBSET Unprocessed :
       /\ batch # {} /\ Cardinality(batch) <= Limit
       /\ Cardinality(batch) < Limit => batch = Unprocessed
       /\ Takes(w, batch)
  /\ UNCHANGED <<jobs, outbox, priced, interrupts, attempted, unknown, credit>>

\* The call throws: TypeORM refuses a pessimistic lock while no transaction is
\* active.  Or there is no row, and process() returns.
ClaimRefused(w) ==
  /\ relay[w].pc = "claim"
  /\ relay' = [relay EXCEPT ![w] = Idle]
  /\ UNCHANGED <<jobs, outbox, priced, interrupts, history>>

\* getSalaryP50 of the next row: a salary, or null when levels.fyi does not
\* know the company, fails, takes too long, or the breaker is open.
Lookup(w) ==
  /\ relay[w].pc = "lookup"
  /\ \E r \in relay[w].batch, pc \in {"company", "ack"} :
       /\ relay' = [relay EXCEPT ![w] = [@ EXCEPT !.pc = pc, !.row = r, !.batch = relay[w].batch \ {r}]]
       /\ attempted' = attempted \cup {r}
       /\ unknown' = IF pc = "ack" THEN unknown \cup {r} ELSE unknown
  /\ UNCHANGED <<jobs, outbox, priced, interrupts, credit, shared>>

UpdateCompany(w) ==
  /\ relay[w].pc = "company"
  /\ priced' = priced \cup {outbox[relay[w].row].company}
  /\ relay' = [relay EXCEPT ![w] = [@ EXCEPT !.pc = "read"]]
  /\ UNCHANGED <<jobs, outbox, interrupts, history>>

\* jobRepo.findOne.  The job is there: nothing deletes one.
ReadJob(w) ==
  /\ relay[w].pc = "read"
  /\ relay' = [relay EXCEPT ![w] =
                 [@ EXCEPT !.pc = "rescore",
                           !.score = jobs[outbox[relay[w].row].job].score]]
  /\ UNCHANGED <<jobs, outbox, priced, interrupts, history>>

\* jobRepo.update with the score read before plus the bonus.
Rescore(w) ==
  LET r == relay[w].row
  IN  /\ relay[w].pc = "rescore"
      /\ jobs' = [jobs EXCEPT ![outbox[r].job].score = Capped(relay[w].score + Bonus)]
      /\ relay' = [relay EXCEPT ![w] = [@ EXCEPT !.pc = "ack", !.score = 0]]
      /\ credit' = [credit EXCEPT ![w] = @ \cup {r}]
      /\ UNCHANGED <<outbox, priced, interrupts, attempted, unknown, shared>>

\* Mutation of Ack: the whole batch is marked with its first row.
AckBatch(w) ==
  /\ relay[w].pc = "ack"
  /\ outbox' = [r \in DOMAIN outbox |->
                  IF r \in relay[w].batch \cup {relay[w].row}
                  THEN [outbox[r] EXCEPT !.processed = TRUE] ELSE outbox[r]]
  /\ relay' = [relay EXCEPT ![w] =
                 IF relay[w].batch = {} THEN Idle
                 ELSE [Idle EXCEPT !.pc = "lookup", !.batch = relay[w].batch]]
  /\ UNCHANGED <<jobs, priced, interrupts, history>>

\* The row is marked, and the loop goes on with the rest of the batch.
Ack(w) ==
  /\ relay[w].pc = "ack"
  /\ outbox' = [outbox EXCEPT ![relay[w].row].processed = TRUE]
  /\ relay' = [relay EXCEPT ![w] =
                 IF relay[w].batch = {} THEN Idle
                 ELSE [Idle EXCEPT !.pc = "lookup", !.batch = relay[w].batch]]
  /\ UNCHANGED <<jobs, priced, interrupts, history>>

\* A call to Postgres throws, or the instance dies: process() ends where it is.
\* The next tick claims what is left.
Interrupt(w) ==
  /\ relay[w].pc # "idle" /\ interrupts > 0
  /\ interrupts' = interrupts - 1
  /\ relay' = [relay EXCEPT ![w] = Idle]
  /\ credit' = IF relay[w].pc = "ack" THEN [credit EXCEPT ![w] = @ \ {relay[w].row}] ELSE credit
  /\ UNCHANGED <<jobs, outbox, priced, attempted, unknown, shared>>

RelayStep(w) ==
  \/ Start(w) \/ Claim(w) \/ ClaimRefused(w)
  \/ Lookup(w) \/ UpdateCompany(w) \/ ReadJob(w) \/ Rescore(w) \/ Ack(w)

-----------------------------------------------------------------------------
\* The environment: a scrape stores a job, new or known, and its outbox row.
Scrape(u, c, s) ==
  /\ outbox' = Append(outbox, [job |-> u, company |-> c, processed |-> FALSE])
  /\ jobs' = [v \in DOMAIN jobs \cup {u} |->
                IF v = u THEN [score |-> s, company |-> c] ELSE jobs[v]]
  /\ UNCHANGED <<priced, relay, interrupts, history>>

RelayInit ==
  /\ priced = {} /\ relay = [w \in Workers |-> Idle] /\ interrupts = MaxInterrupts
  /\ attempted = {} /\ unknown = {}
  /\ credit = [w \in Workers |-> {}] /\ shared = {}

Init == jobs = [u \in {} |-> 0] /\ outbox = <<>> /\ RelayInit

Next ==
  \/ \E w \in Workers : RelayStep(w) \/ Interrupt(w)
  \/ \E u \in Urls, c \in Companies, s \in ScrapeScores : Scrape(u, c, s)

Spec == Init /\ [][Next]_vars

\* The `enrich` job repeats every 30 seconds and its calls return or throw: a
\* claim is answered, but nobody is obliged to accept it.
Fairness == \A w \in Workers : WF_vars(RelayStep(w))

\* Next with no more than MaxRows rows.
BoundedNext ==
  \/ \E w \in Workers : RelayStep(w) \/ Interrupt(w)
  \/ /\ Len(outbox) < MaxRows
     /\ \E u \in Urls, c \in Companies, s \in ScrapeScores : Scrape(u, c, s)

FairSpec == Init /\ [][BoundedNext]_vars /\ Fairness

-----------------------------------------------------------------------------
JobRow == [score : Int, company : Companies]
OutboxRow == [job : Urls, company : Companies, processed : BOOLEAN]
Locals == [pc : {"idle", "claim", "lookup", "company", "read", "rescore", "ack"},
           batch : SUBSET Nat, row : Nat, score : Int]

TablesOK ==
  /\ DOMAIN jobs \subseteq Urls /\ jobs \in [DOMAIN jobs -> JobRow]
  /\ outbox \in Seq(OutboxRow)
  /\ \A r \in DOMAIN outbox : outbox[r].job \in DOMAIN jobs
  /\ priced \subseteq Companies

RelaysOK ==
  /\ relay \in [Workers -> Locals]
  /\ \A w \in Workers :
       /\ relay[w].batch \subseteq DOMAIN outbox
       /\ relay[w].pc \in Holding => relay[w].row \in DOMAIN outbox

HistoryOK ==
  /\ attempted \subseteq DOMAIN outbox /\ unknown \subseteq DOMAIN outbox
  /\ credit \in [Workers -> SUBSET DOMAIN outbox]
  /\ shared \subseteq DOMAIN outbox

\* The type of the state; every row of the outbox names a stored job, and a
\* worker that holds a row holds one of the outbox.  (`interrupts` is a bound.)
TypeOK == TablesOK /\ RelaysOK /\ HistoryOK

\* However scrapes and relays overwrite each other's scores, a stored score
\* qualifies (60 at least) and never passes 100.
ScoreInRange ==
  \A u \in DOMAIN jobs : jobs[u].score \in 60..Cap

\* A row is marked only after its lookup, and a row whose lookups all found a
\* salary has its company priced when it is marked: a crash anywhere in the
\* loop loses no enrichment.
NoEnrichmentLost ==
  \A r \in DOMAIN outbox : outbox[r].processed =>
    r \in attempted /\ (r \in unknown \/ outbox[r].company \in priced)

\* "SELECT FOR UPDATE SKIP LOCKED prevents double-processing" only as far as this:
\* whoever is about to write a row's score has not written it before, and another
\* has only if the two have held the row at once (a worker that was cut off
\* between writing the score and marking the row is not counted).
BonusOncePerHolder ==
  \A w \in Workers : relay[w].pc = "rescore" =>
    \A v \in Workers : relay[w].row \in credit[v] => v # w /\ relay[w].row \in shared

\* The relay delivers the outbox at least once.
Delivery == INSTANCE OutboxDelivery WITH
  published <- Len(outbox),
  handled <- attempted,
  acked <- {r \in DOMAIN outbox : outbox[r].processed}

AtLeastOnce == Delivery!Spec

\* What the relay is there for: a row of the outbox is processed in the end.
EveryRowProcessed ==
  \A r \in 1..MaxRows : r \in DOMAIN outbox ~> r \notin Unprocessed
=============================================================================
