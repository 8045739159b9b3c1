---------------------------- MODULE ScraperWorker ----------------------------
(***************************************************************************)
(* The hourly scrape: ScrapingService schedules it, BullMQ hands it to the *)
(* `scrape` worker of one of the application's instances, and              *)
(* ScraperWorker.process walks the job boards one after the other          *)
(* (src/scraping/scraper.worker.ts).  Every awaited call is an action of   *)
(* its own, so that two instances interleave between calls, and every call *)
(* can fail, with or without having had its effect.                        *)
(*                                                                         *)
(* Shared state: the tables jobs, companies and job_outbox (Postgres), the *)
(* repost keys (Redis), the scrape-dlq queue, the scrape queue.            *)
(***************************************************************************)
EXTENDS JobSources, Sequences, FiniteSets

CONSTANTS
  Workers,          \* application instances, each with one `scrape` worker
  Ticks,            \* the hourly jobs
  Sources,          \* JOB_SOURCES: a sequence of boards
  Feeds,            \* board -> the set of answers its API can give
  MaxAttempts,      \* `attempts: 3` of the scheduled job
  MaxStalls,        \* BullMQ's maxStalledCount (1 unless configured)
  CallFailures,     \* bound: how many calls to Postgres, Redis, BullMQ or a board fail
  Crashes,          \* bound: how many crashes, and how many wrong stall verdicts
  Lapses            \* bound: how many repost keys reach their 60 days

ASSUME ScraperAssumption ==
  /\ "none" \notin Ticks
  /\ Sources \in Seq(Boards) /\ Sources # <<>>
  /\ Feeds \in [Boards -> SUBSET Seq(Listing)]
  /\ MaxAttempts \in Nat \ {0} /\ MaxStalls \in Nat
  /\ CallFailures \in Nat /\ Crashes \in Nat /\ Lapses \in Nat

VARIABLES
  jobs,             \* url -> row, for the urls stored
  companies,        \* names in the companies table
  outbox,           \* job_outbox rows, in the order of their commits
  repost,           \* the postings whose repost key is set
  dlq,              \* entries in the scrape-dlq queue, which nothing consumes
  bull,             \* tick -> its BullMQ job
  run,              \* worker -> the locals of its process() call
  counter,          \* worker -> its jobs_scraped_total, summed over sources
  budget,           \* failures, crashes and key expiries still to come
  \* What has happened so far, read by the properties only:
  committed,        \* postings a transaction has stored
  credit,           \* worker, posting -> first-seen commits since a pardon
  announced,        \* Len(outbox) at the last INVALIDATE_JOBS_CACHE
  excused           \* Len(outbox) at the last source failure or crash

tables == <<jobs, companies, outbox>>
history == <<committed, credit, announced, excused>>
vars == <<tables, repost, dlq, bull, run, counter, budget, history>>

-----------------------------------------------------------------------------
Idle == [pc |-> "idle", job |-> "none", src |-> 0, failures |-> 0, feed |-> <<>>,
         todo |-> {}, item |-> 0, isRepost |-> FALSE, accepted |-> 0, rejected |-> 0]

Starting(t) == [Idle EXCEPT !.pc = "fetch", !.job = t, !.src = 1]

Item(w) == run[w].feed[run[w].item]

\* Mutation of NextSource: the counts of a board are carried over to the next.
NextSourceKeeps(r, failed) ==
  [Idle EXCEPT !.pc = IF r.src < Len(Sources) THEN "fetch" ELSE "finish",
               !.job = r.job, !.accepted = r.accepted, !.rejected = r.rejected,
               !.src = IF r.src < Len(Sources) THEN r.src + 1 ELSE r.src,
               !.failures = IF failed THEN r.failures + 1 ELSE r.failures]

\* The locals of process() once scrapeSource has returned, or thrown.
NextSource(r, failed) ==
  [Idle EXCEPT !.pc = IF r.src < Len(Sources) THEN "fetch" ELSE "finish",
               !.job = r.job,
               !.src = IF r.src < Len(Sources) THEN r.src + 1 ELSE r.src,
               !.failures = IF failed THEN r.failures + 1 ELSE r.failures]

\* One failure of the named kind happens.
Spend(kind) == budget[kind] > 0 /\ budget' = [budget EXCEPT ![kind] = @ - 1]

\* The current source of w fails: process() catches, counts and goes on.
SourceFails(w) ==
  /\ Spend("call")
  /\ run' = [run EXCEPT ![w] = NextSource(run[w], TRUE)]
  /\ excused' = Len(outbox')
  /\ UNCHANGED <<bull, counter, announced>>

\* The repost bookkeeping of w for posting k was cut short.
Pardon(w, k) == credit' = [credit EXCEPT ![w][k] = 0]

-----------------------------------------------------------------------------
\* Mutation of Upsert: only a job that is new gets an outbox row.
UpsertNewOnly(l, source, score) ==
  /\ companies' = companies \cup {l.company}
  /\ jobs' = [u \in DOMAIN jobs \cup {l.url} |->
                IF u # l.url THEN jobs[u]
                ELSE [score |-> score, company |-> l.company, posting |-> l.posting,
                      source |-> IF u \in DOMAIN jobs THEN jobs[u].source ELSE source]]
  /\ outbox' = IF l.url \in DOMAIN jobs THEN outbox
               ELSE Append(outbox, [job |-> l.url, company |-> l.company, processed |-> FALSE])

\* The transaction: company, job row and outbox row are written together.
Upsert(l, source, score) ==
  /\ companies' = companies \cup {l.company}
  /\ jobs' = [u \in DOMAIN jobs \cup {l.url} |->
                IF u # l.url THEN jobs[u]
                ELSE [score |-> score, company |-> l.company, posting |-> l.posting,
                      source |-> IF u \in DOMAIN jobs THEN jobs[u].source ELSE source]]
  /\ outbox' = Append(outbox, [job |-> l.url, company |-> l.company, processed |-> FALSE])

\* Mutation of Persist: the score is taken again, from the key as it is now.
PersistRescored(w) ==
  LET l == Item(w)
  IN  /\ Upsert(l, Sources[run[w].src], Score(l, l.posting \in repost))
      /\ committed' = committed \cup {l.posting}

Persist(w) ==
  LET l == Item(w)
  IN  /\ Upsert(l, Sources[run[w].src], Score(l, run[w].isRepost))
      /\ committed' = committed \cup {l.posting}

\* ScrapingService's repeatable job comes due.
Tick(t) ==
  /\ bull[t].state = "scheduled"
  /\ bull' = [bull EXCEPT ![t].state = "waiting"]
  /\ UNCHANGED <<tables, repost, dlq, run, counter, budget, history>>

\* BullMQ hands a waiting job to an idle worker, which calls process().
Take(w, t) ==
  /\ run[w].pc = "idle" /\ bull[t].state = "waiting"
  /\ bull' = [bull EXCEPT ![t] = [@ EXCEPT !.state = "active", !.holder = w]]
  /\ run' = [run EXCEPT ![w] = Starting(t)]
  /\ UNCHANGED <<tables, repost, dlq, counter, budget, history>>

\* source.fetchListings() returns; the loop runs over the listings kept.
Fetch(w) ==
  /\ run[w].pc = "fetch"
  /\ \E feed \in Feeds[Sources[run[w].src]] :
       run' = [run EXCEPT ![w] =
                 [@ EXCEPT !.pc = "loop", !.feed = feed,
                           !.todo = {i \in DOMAIN feed : Keeps(feed[i])}]]
  /\ UNCHANGED <<tables, repost, dlq, bull, counter, budget, history>>

FetchFails(w) ==
  /\ run[w].pc = "fetch"
  /\ UNCHANGED <<tables, repost, dlq, committed, credit>>
  /\ SourceFails(w)

\* The next listing is looked up in Redis and scored; without Redis it counts
\* as first seen.
CheckRepost(w) ==
  /\ run[w].pc = "loop"
  /\ \E i \in run[w].todo, error \in BOOLEAN :
       LET l == run[w].feed[i]
           isRepost == ~error /\ l.posting \in repost
       IN  /\ \A j \in run[w].todo : i <= j
           /\ run' = [run EXCEPT ![w] =
                        [@ EXCEPT !.pc = IF Accepts(l, isRepost) THEN "commit" ELSE "reject",
                                  !.item = i, !.todo = run[w].todo \ {i}, !.isRepost = isRepost]]
           /\ IF error THEN Spend("call") /\ Pardon(w, l.posting)
                       ELSE UNCHANGED <<budget, credit>>
  /\ UNCHANGED <<tables, repost, dlq, bull, counter, committed, announced, excused>>

\* Mutation of Reject: a rejected listing is remembered as seen.
RejectRemembered(w) ==
  /\ run[w].pc = "reject"
  /\ dlq' = dlq + 1
  /\ repost' = repost \cup {Item(w).posting}
  /\ run' = [run EXCEPT ![w] = [@ EXCEPT !.pc = "loop", !.rejected = run[w].rejected + 1]]
  /\ UNCHANGED <<tables, bull, counter, budget, history>>

\* dlqQueue.add of a listing below the threshold.
Reject(w) ==
  /\ run[w].pc = "reject"
  /\ dlq' = dlq + 1
  /\ run' = [run EXCEPT ![w] = [@ EXCEPT !.pc = "loop", !.rejected = run[w].rejected + 1]]
  /\ UNCHANGED <<tables, repost, bull, counter, budget, history>>

RejectFails(w) ==
  /\ run[w].pc = "reject"
  /\ dlq' \in {dlq, dlq + 1}
  /\ UNCHANGED <<tables, repost, committed, credit>>
  /\ SourceFails(w)

\* Mutation of Commit: a refreshed row is not counted as accepted.
CommitCountsNew(w) ==
  /\ run[w].pc = "commit"
  /\ Persist(w)
  /\ run' = [run EXCEPT ![w] =
               [@ EXCEPT !.pc = IF run[w].isRepost THEN "loop" ELSE "remember"]]
  /\ credit' = IF run[w].isRepost THEN credit
               ELSE [credit EXCEPT ![w][Item(w).posting] = @ + 1]
  /\ UNCHANGED <<repost, dlq, bull, counter, budget, announced, excused>>

\* The transaction commits; a repost is done with, a first sighting still has
\* to be remembered.
Commit(w) ==
  /\ run[w].pc = "commit"
  /\ Persist(w)
  /\ run' = [run EXCEPT ![w] =
               [@ EXCEPT !.pc = IF run[w].isRepost THEN "loop" ELSE "remember",
                         !.accepted = IF run[w].isRepost THEN run[w].accepted + 1
                                       ELSE run[w].accepted]]
  /\ credit' = IF run[w].isRepost THEN credit
               ELSE [credit EXCEPT ![w][Item(w).posting] = @ + 1]
  /\ UNCHANGED <<repost, dlq, bull, counter, budget, announced, excused>>

\* The transaction throws: rolled back, or committed with its answer lost.
CommitFails(w) ==
  /\ run[w].pc = "commit"
  /\ \/ UNCHANGED <<tables, committed>>
     \/ Persist(w)
  /\ SourceFails(w)
  /\ UNCHANGED <<repost, dlq, credit>>

\* Mutation of Remember: the key is not written.
RememberNothing(w) ==
  /\ run[w].pc = "remember"
  /\ run' = [run EXCEPT ![w] = [@ EXCEPT !.pc = "loop", !.accepted = run[w].accepted + 1]]
  /\ UNCHANGED <<tables, repost, dlq, bull, counter, budget, history>>

\* SET repostKey EX 60 days NX.
Remember(w) ==
  /\ run[w].pc = "remember"
  /\ repost' = repost \cup {Item(w).posting}
  /\ run' = [run EXCEPT ![w] = [@ EXCEPT !.pc = "loop", !.accepted = run[w].accepted + 1]]
  /\ UNCHANGED <<tables, dlq, bull, counter, budget, history>>

\* The SET throws: the listing is stored, its source is given up.
RememberFails(w) ==
  /\ run[w].pc = "remember"
  /\ \/ UNCHANGED repost /\ Pardon(w, Item(w).posting)
     \/ repost' = repost \cup {Item(w).posting} /\ UNCHANGED credit
  /\ UNCHANGED <<tables, dlq, committed>>
  /\ SourceFails(w)

\* The source is through: PUBLISH if anything was stored, then the counters.
Publish(w) ==
  /\ run[w].pc = "loop" /\ run[w].todo = {} /\ run[w].accepted > 0
  /\ announced' = Len(outbox)
  /\ counter' = [counter EXCEPT ![w] = [accepted |-> @.accepted + run[w].accepted,
                                        rejected |-> @.rejected + run[w].rejected]]
  /\ run' = [run EXCEPT ![w] = NextSource(run[w], FALSE)]
  /\ UNCHANGED <<tables, repost, dlq, bull, budget, committed, credit, excused>>

PublishFails(w) ==
  /\ run[w].pc = "loop" /\ run[w].todo = {} /\ run[w].accepted > 0
  /\ UNCHANGED <<tables, repost, dlq, committed, credit>>
  /\ SourceFails(w)

NothingStored(w) ==
  /\ run[w].pc = "loop" /\ run[w].todo = {} /\ run[w].accepted = 0
  /\ counter' = [counter EXCEPT ![w].rejected = @ + run[w].rejected]
  /\ run' = [run EXCEPT ![w] = NextSource(run[w], FALSE)]
  /\ UNCHANGED <<tables, repost, dlq, bull, budget, history>>

\* Mutation of Finish: one failed board fails the job.
FinishStrict(w) ==
  LET t == run[w].job
      outcome == IF run[w].failures = 0 THEN "completed"
                 ELSE IF bull[t].made + 1 < MaxAttempts THEN "waiting" ELSE "failed"
  IN  /\ run[w].pc = "finish"
      /\ bull' = IF bull[t].state = "active" /\ bull[t].holder = w
                 THEN [bull EXCEPT ![t] = [@ EXCEPT !.state = outcome, !.made = bull[t].made + 1]]
                 ELSE bull
      /\ run' = [run EXCEPT ![w] = Idle]
      /\ UNCHANGED <<tables, repost, dlq, counter, budget, history>>

\* process() returns, or throws because every source failed; BullMQ completes,
\* retries or fails the job, unless it has given the job to someone else since.
Finish(w) ==
  LET t == run[w].job
      wipeout == run[w].failures = Len(Sources)
      outcome == IF ~wipeout THEN "completed"
                 ELSE IF bull[t].made + 1 < MaxAttempts THEN "waiting" ELSE "failed"
  IN  /\ run[w].pc = "finish"
      /\ bull' = IF bull[t].state = "active" /\ bull[t].holder = w
                 THEN [bull EXCEPT ![t] = [@ EXCEPT !.state = outcome, !.made = bull[t].made + 1]]
                 ELSE bull
      /\ run' = [run EXCEPT ![w] = Idle]
      /\ UNCHANGED <<tables, repost, dlq, counter, budget, history>>

\* The instance dies and starts again: its locals and its counters are gone.
Crash(w) ==
  /\ run[w].pc # "idle"
  /\ Spend("crash")
  /\ run' = [run EXCEPT ![w] = Idle]
  /\ counter' = [counter EXCEPT ![w] = [accepted |-> 0, rejected |-> 0]]
  /\ IF run[w].pc = "remember" THEN Pardon(w, Item(w).posting) ELSE UNCHANGED credit
  /\ excused' = Len(outbox)
  /\ UNCHANGED <<tables, repost, dlq, bull, committed, announced>>

\* Mutation of Abandoned: a job that has stalled too often is left as it is.
AbandonedOnce(t) ==
  /\ bull[t].state = "active" /\ run[bull[t].holder].job # t
  /\ bull[t].stalls < MaxStalls

Abandoned(t) ==
  bull[t].state = "active" /\ run[bull[t].holder].job # t

Requeued(t) ==
  [bull EXCEPT ![t] = [@ EXCEPT
     !.state = IF bull[t].stalls < MaxStalls THEN "waiting" ELSE "failed",
     !.stalls = bull[t].stalls + 1]]

\* The lock of a dead worker's job expires; the stalled check puts the job back
\* once, and fails it the next time.
StallDetected(t) ==
  /\ Abandoned(t)
  /\ bull' = Requeued(t)
  /\ UNCHANGED <<tables, repost, dlq, run, counter, budget, history>>

\* The same verdict on a worker that is alive but could not renew its lock.
FalseStall(t) ==
  /\ bull[t].state = "active" /\ ~Abandoned(t)
  /\ Spend("crash")
  /\ bull' = Requeued(t)
  /\ UNCHANGED <<tables, repost, dlq, run, counter, history>>

\* A repost key reaches its sixty days.
KeyExpires(k) ==
  /\ k \in repost
  /\ Spend("lapse")
  /\ repost' = repost \ {k}
  /\ credit' = [w \in Workers |-> [credit[w] EXCEPT ![k] = 0]]
  /\ UNCHANGED <<tables, dlq, bull, run, counter, committed, announced, excused>>

-----------------------------------------------------------------------------
Init ==
  /\ jobs = [u \in {} |-> 0] /\ companies = {} /\ outbox = <<>>
  /\ repost = {} /\ dlq = 0
  /\ bull = [t \in Ticks |-> [state |-> "scheduled", holder |-> "none",
                              made |-> 0, stalls |-> 0]]
  /\ run = [w \in Workers |-> Idle]
  /\ counter = [w \in Workers |-> [accepted |-> 0, rejected |-> 0]]
  /\ budget = [call |-> CallFailures, crash |-> Crashes, lapse |-> Lapses]
  /\ committed = {} /\ announced = 0 /\ excused = 0
  /\ credit = [w \in Workers |-> [k \in Postings |-> 0]]

\* One awaited call of w's process(), answered or failed.
Step(w) ==
  \/ Fetch(w) \/ FetchFails(w)
  \/ CheckRepost(w)
  \/ Reject(w) \/ RejectFails(w)
  \/ Commit(w) \/ CommitFails(w)
  \/ Remember(w) \/ RememberFails(w)
  \/ Publish(w) \/ PublishFails(w) \/ NothingStored(w)
  \/ Finish(w)

Next ==
  \/ \E t \in Ticks : Tick(t) \/ StallDetected(t) \/ FalseStall(t)
  \/ \E w \in Workers : Step(w) \/ Crash(w)
  \/ \E w \in Workers, t \in Ticks : Take(w, t)
  \/ \E k \in Postings : KeyExpires(k)

Spec == Init /\ [][Next]_vars

\* Calls return, or fail, in the end; an idle worker polls its queue; the
\* stalled check runs every 30 seconds; the cron scheduler fires.
Fairness ==
  /\ \A w \in Workers : WF_vars(Step(w))
  /\ \A t \in Ticks : /\ WF_vars(Tick(t)) /\ WF_vars(StallDetected(t))
                      /\ WF_vars(\E w \in Workers : Take(w, t))

FairSpec == Spec /\ Fairness

-----------------------------------------------------------------------------
Rows == [score : Int, company : Companies, posting : Postings, source : Boards]
OutboxRow == [job : Urls, company : Companies, processed : BOOLEAN]
BullJob == [state : {"scheduled", "waiting", "active", "completed", "failed"},
            holder : Workers \cup {"none"}, made : Nat, stalls : Nat]
Locals == [pc : {"idle", "fetch", "loop", "reject", "commit", "remember", "finish"},
           job : Ticks \cup {"none"}, src : Nat, failures : Nat,
           feed : Seq(Listing), todo : SUBSET Nat, item : Nat, isRepost : BOOLEAN,
           accepted : Nat, rejected : Nat]

\* Locals that agree with one another: a board is at hand while process() runs,
\* and a listing of its feed while one is handled.
Coherent(r) ==
  /\ r.todo \subseteq DOMAIN r.feed
  /\ r.pc # "idle" => r.src \in 1..Len(Sources)
  /\ r.pc \in {"reject", "commit", "remember"} => r.item \in DOMAIN r.feed

TablesOK ==
  /\ DOMAIN jobs \subseteq Urls /\ jobs \in [DOMAIN jobs -> Rows]
  /\ companies \subseteq Companies
  /\ outbox \in Seq(OutboxRow)

RunsOK ==
  /\ run \in [Workers -> Locals] /\ \A w \in Workers : Coherent(run[w])
  /\ bull \in [Ticks -> BullJob]

RestOK ==
  /\ repost \subseteq Postings /\ dlq \in Nat
  /\ counter \in [Workers -> [accepted : Nat, rejected : Nat]]
  /\ budget \in [call : Nat, crash : Nat, lapse : Nat]
  /\ committed \subseteq Postings /\ credit \in [Workers -> [Postings -> Nat]]
  /\ announced \in Nat /\ excused \in Nat

\* The type of the state; a worker that holds a listing holds one of its feed.
TypeOK == TablesOK /\ RunsOK /\ RestOK

\* The outbox is transactional: a job is stored exactly when an event was
\* written for it, and the last event of a job names the company its row names.
OutboxMatchesJobs ==
  /\ DOMAIN jobs = {outbox[i].job : i \in DOMAIN outbox}
  /\ \A i \in DOMAIN outbox :
       (\A j \in DOMAIN outbox : j > i => outbox[j].job # outbox[i].job)
         => outbox[i].company = jobs[outbox[i].job].company

\* Nothing below the threshold is stored, whatever a worker read of the repost
\* keys and however long ago; every stored row's company exists.
StoredRowsQualify ==
  \A u \in DOMAIN jobs : jobs[u].score \in Threshold..85 /\ jobs[u].company \in companies

\* "Write repost key only after successful transaction": a key in Redis stands
\* for a posting that some transaction has stored, so that no failure makes a
\* listing its own repost before it was ever accepted.
RepostKeyJustified == repost \subseteq committed

\* The twenty points of a first sighting go to a posting at most once per
\* worker, until its key lapses or a failure of that very bookkeeping (Redis
\* down at the check, the SET lost, a crash between commit and SET).
FirstSeenOncePerWorker ==
  \A w \in Workers, k \in Postings : credit[w][k] <= 1

\* When no scrape is running, every stored listing has been announced to the
\* list caches, or its source or its worker failed after it was stored.
NoSilentCommit ==
  (\A w \in Workers : run[w].pc = "idle") => Len(outbox) \in {announced, excused}

\* One flaky board costs nothing: a tick is given up only after every board
\* failed in every attempt, or after more crashes than BullMQ forgives.
GivenUpOnlyAfterWipeouts ==
  \A t \in Ticks : bull[t].state = "failed" =>
    \/ CallFailures - budget.call >= MaxAttempts * Len(Sources)
    \/ Crashes - budget.crash > MaxStalls

\* Every hourly job that comes due is completed or given up, whatever fails.
EveryTickSettles ==
  \A t \in Ticks : bull[t].state = "waiting" ~> bull[t].state \in {"completed", "failed"}

\* The accepted counter never counts a listing that was not stored, nor one twice,
\* over failed sources, retried ticks and boards that follow one another
\* (metrics.module.ts: "passed (score >= 60 and written to Postgres)").
CountedWereStored ==
  \A w \in Workers : counter[w].accepted + run[w].accepted <= Len(outbox)
=============================================================================
