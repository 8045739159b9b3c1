# Job Signal: a TLA+ model

Job Signal (`src/`) scrapes job boards every hour, scores each listing, stores
the good ones in Postgres, enriches them with salaries through a transactional
outbox, serves them from a Redis-cached list, exports them to S3 and sends
Telegram alerts for saved searches. It is a NestJS application that is run in
several instances on one Postgres, one Redis (BullMQ queues, cache, pub/sub,
repost keys) and one bucket. Each instance is an HTTP server and, at the same
time, one worker of each queue. What is hard about it is therefore not any one
function but what happens between two awaited calls.

This directory holds TLA+ modules for it, TLC configurations that check them on
small instances, and TLAPS proofs for every value of the constants.
`PROJECT.json` maps each definition to the source lines it stands for.

## 1. Inventory

| component | state | operations | interacts with |
|---|---|---|---|
| Freshness scorer (`scraping/freshness-scorer.ts`) | none | `score(listing, isRepost)`: age, salary, description, first-seen terms | called by the scraper |
| Job sources (`scraping/sources/`) | none | `fetchListings()` of RemoteOK, Remotive, WeWorkRemotely | called by the scraper; external HTTP |
| Scraper (`scraping/scraper.worker.ts`, `scraping.service.ts`) | tables `jobs`, `companies`, `job_outbox`; repost keys in Redis; queue `scrape`, queue `scrape-dlq`; a counter per instance | schedule, process, per source: fetch, repost check, score, reject or commit, remember, publish | writes what relay, cache, notifier and exports read; publishes `INVALIDATE_JOBS_CACHE` |
| Enrichment relay (`enrichment/enrichment.relay.ts`, `enrichment.service.ts`) | `job_outbox.processed_at`, `companies.salary_p50`, `jobs.freshness_score` | claim, look up, update company, read and rescore job, mark row | shares `jobs` and `job_outbox` with the scraper |
| levels.fyi source (`enrichment/levels-fyi.source.ts`) | a circuit breaker | `getSalaryP50` | called by the relay |
| Job list and cache (`jobs/jobs.service.ts`) | cache entries in Redis | `findAll`, sweep on a message | hears the scraper; reads Postgres |
| Exports (`jobs/export.service.ts`, `export.worker.ts`) | queue `export`, result keys in Redis, objects in the bucket | enqueue, process, poll | reads Postgres, writes S3 |
| Notifications (`notifications/`) | queue `notify`; nothing of its own | schedule, process, match, send | reads what the scraper stored |
| Shutdown and health (`main.ts`, `health/`) | `shuttingDown` | signal handlers, `beginDrain`, `/health/ready` and its pings | load balancer, orchestrator, all modules' destroy hooks |
| Accounts (`auth/`) | table `users`; tokens, which no table holds | register, login, the guard | its tokens guard searches and exports |
| Saved searches (`saved-searches/`) | table `saved_searches` | create, list, remove | read by the notifier |
| Queue metrics (`metrics/`) | gauges | collect | reads BullMQ |
| Schema, modules, configuration, clients, observability | - | wiring, DDL, logging | - |

What makes each correct, and what makes it hard:

- **Scorer and sources.** Sums of tiers against the threshold 60. The
  properties are about whole lives of a posting (what a repost still needs,
  what ageing does), over every combination a board can produce.
- **Scraper.** Two instances can scrape the same board at once (BullMQ's
  stalled check may take a live worker for dead, and a tick may overlap the
  next). The listing is checked, stored, remembered and announced in separate
  awaited calls, each of which may fail with or without its effect, or be cut
  off by a crash. Correct means: the outbox matches the jobs, only qualifying
  rows are stored, a repost key never precedes its commit, first-seen points are
  given once, nothing is committed silently, one flaky board never fails a tick.
- **Relay.** At-least-once delivery; a claim that the library refuses, and whose
  locks would end with its statement if it did not; a score that is read and
  written back in two statements, on a row the scraper overwrites. Correct means:
  no row is marked without its lookup, no salary that was found is lost, a bonus
  is repeated only for a reason, and every row is processed - which it is not.
- **Cache.** Cache-aside reads racing with sweeps, at-most-once messages, Redis
  outages. Correct means: what survives an invalidation is explained, and
  expires; a GET is always answered.
- **Exports.** An upload that runs beside the query, a timeout racing both, a
  result in Redis, one attempt but stalls besides. Correct means: a URL names a
  complete file, success and failure are told apart, polling ends.
- **Notifications.** No memory but a time window. Correct means: how often one
  pair can be alerted, and what may be missed, are bounded by what went wrong.
- **Shutdown.** Two handlers sharing one flag, a load balancer that learns late,
  a probe that reads the flag before a signal and answers after it.
- **Accounts.** A look-up and an INSERT that two registrations may both pass.
  Correct means: to its clients `users` is one atomic registry.
- **Saved searches.** A look-up and a DELETE, on tokens that expire in between.
  Correct means: only owners act, and a removal is final, for the notifier too.
- **Job list.** A query is parsed, spelled as a cache key, filtered and cut into
  pages. Correct means: what shares a key shares its answer, and the pages make
  up the list.

The full list of hazards, each at its line with the properties that watch it, is
in `PROJECT.json`.

## 2. Modules and the code

Conventions. An action is one awaited call of a handler, with the synchronous
code up to the next `await`; so the interleavings of the model are those of the
event loops. `...Fails` actions are the same call rejecting, before or after its
effect where the call is a write. `Crash` ends a `process()` call anywhere.
BullMQ, Redis, S3, Node and Postgres are modelled from how the code uses them
and marked external in the map. Variables under "what has happened so far" are
history: no action's guard reads them (but for counters of bounds), only
properties do. A definition under "Mutation of X" is a plausible bug in X; it is
used by no specification, and each property is shown to fail with one of them in
the place of X.

### FreshnessScorer, JobSources, PostingLife
`Score` is `FreshnessScorer.score`, term by term; an unparsable date has an age
that is below no limit (NaN). `JobSources` says what each board's class makes of
a raw posting: RemoteOK's currency follows the lower bound, Remotive needs two
figures, WeWorkRemotely has no salary and takes the company out of the title.
`PostingLife` is a driver: a posting grows older, its repost key is written and
lapses.

### ScraperWorker
`Tick` is the cron schedule, `Take` BullMQ's hand-over, then per source `Fetch`,
per listing `CheckRepost` (EXISTS and score), `Reject` (DLQ) or `Commit` (the
transaction: company, job by url, outbox row) and `Remember` (SET ... EX 60
days), and `Publish` or `NothingStored` (the counters and the message). A call
that throws ends the source (`SourceFails`); `Finish` throws only when all
sources failed, and BullMQ retries, completes or fails the job.
`StallDetected`, `FalseStall` and `Crash` are the ways a job gets a second
worker. The listings of a feed are taken in the feed's order; what order a board
sends is the choice of the feed in `Fetch`. The transaction is one step: that it
is rolled back as a whole is Postgres's promise, not a result.

What the histories excuse: `excused` is the length of the outbox at the last
failure of any source, so that in `NoSilentCommit` a failure of one board excuses
what another has committed before it; `GivenUpOnlyAfterWipeouts` counts the calls
that failed over all ticks; and a commit whose answer is lost gives no credit in
`FirstSeenOncePerWorker`.

### EnrichmentRelay, OutboxDelivery, Pipeline
A run of `process()` begins with `Start`, and its SELECT is answered by
`ClaimRefused` (the call throws, or there is no row) or by `Claim` (any
unprocessed rows: there is no ORDER BY). Then each row goes through `Lookup`,
`UpdateCompany`, `ReadJob`, `Rescore` and `Ack`. The claim asks for a pessimistic
lock (`pessimistic_partial_write`) while no transaction is active, which the
installed TypeORM, 0.3.30, refuses with `PessimisticLockTransactionRequiredError`
every time. So the code as it stands processes no row at all; that is the finding
of run `relay_refused`. `Claim` is what the call does where a version lets it
through: its locks are gone when it returns, so two workers may hold one row,
and `shared` remembers the rows of which that is true. The safety properties
allow both answers; what they say of batches in progress is about the code once
its claim is accepted. `Spec` lets the environment write any number of rows;
`FairSpec` stops it at `MaxRows`.
`OutboxDelivery` is the abstract specification: publish, handle any number of
times, acknowledge only what has been handled. `Pipeline` puts the real
`ScraperWorker` in the place of the relay's environment, on the same `jobs` and
`outbox`, with instances that run both.

### JobsCache
The table is a version number; an entry holds the version its query saw.
`CacheGet`, `Query`, `CacheSet` are the three steps of `findAll`; `Scan` and
`Delete` those of a sweep. `Announce` delivers to any subset of the instances.
`SweepFails` is a rejection nobody handles: Node 20 (the Dockerfile's image)
ends the process.

### JobList
Constant operators, for what happens inside the steps of `JobsCache`: `Parse` is
the transform of `ListJobsDto`, `CacheKey` the spelling of a query, `FindAll`
the SQL, with `ByRank` for its ORDER BY: each row in the place that is left when
those before it are counted, which a proof can take up where a library sort
gives it nothing. A string is the sequence of the words between its commas,
which is as much of it as the code looks at. `JobsCache`'s `Keys` are the values of
`CacheKey`, its versions the tables; `MCJobsCache` states of the run's entries
and queries what `OneAnswerPerKey` and `PagesPartitionList` compute over every
table. `Queries` are all of them: no `keywords` parameter, one, or two, with any
words and commas in each. Of these the code mixes some up. `?keywords=undefined`
has the key of no keywords at all (the field is declared, so `Object.entries`
lists it, and `String` spells it), and whoever comes second is served the
other's list: theorem `UndefinedIsMixedUp`. Repeated parameters with commas
inside have the key of the same words split. Neither is what
`list-jobs.dto.ts:25-26` says of a search term. `OneAnswerPerKey` is therefore
stated of `PlainQueries`: every keyword is one word, and `undefined` does not
stand alone.
`%` and `_` in a keyword are LIKE's wildcards, which `Like` does not have. Two
rows never have the same `scraped_at` here (`NOW()` of different transactions);
were it to happen, pages could repeat a job, and so could `getManyAndCount`,
which is two statements.

### Exports
`bull` is the queue, `run` the locals of `process()`, `objects` the complete
files, `result` the key `export:{jobId}`. From `Connect` on an upload is in
progress; while rows are streamed nothing awaits `uploadDone`, so that a
rejection of it (`PartFails`, or the abort after a database error or the five
minutes, `StreamFails`) ends the process; from `upload` on it is awaited and a
failure is caught (`UploadFails`, in time or too late to keep the file from
being complete). `ReadResult` and `ReadState` are the two steps of a poll. `Forget` is
BullMQ's `removeOnComplete` and `removeOnFail`: a failed export that has been
forgotten is "pending" to whoever polls it then, for ever, so the liveness
property ends where a job is forgotten.

### Notifier
`scraped_at` is fixed when the scraper's transaction begins and is not touched
by an upsert; `Start` lays the window, `ReadJobs` and `ReadSearches` query, and
`Send` sends one message per matching pair, delivered or not (the service
swallows errors). Time is a counter of which `Period` units are an hour; a start
of a run moves it, so that what begins later has a later stamp. A job's score
and salary are constants: what changes between runs is which jobs and which
searches there are. `Edit` is the effect of `SavedSearches!Insert` and `!Delete`;
a message that is to be sent in `todo` is already decided, whatever is removed.

### Shutdown
One handler per signal, each: `BeginDrain`, the window (`GraceOver`), `Close`
(the destroy hooks, which quit Redis while the server still listens), `Dispose`
(the server stops listening), `Exit`. Any `quit()` may reject (`CloseRejects`):
the first because Redis is down, a second because the client has quit. Sweeps of
the list cache come and go on the same client (`SweepStart`, `SweepEnds`), and a
SCAN that finds Redis down, or quit, rejects with nobody to handle it
(`SweepRejects`). Either rejection ends the process with the requests it has
(`rejected`), after one signal as after two: `main.ts:13-17` promises that
"DB/Redis close cleanly" and in-flight work finishes, and a sweep under way when
`app.close()` quits Redis is enough to break it. The cause is the unhandled
promise of `jobs.service.ts:41`, the finding of `cache_outage`. What the safety
properties say is that nothing else does: `Cut` is who got another signal or
rejected. A repeated signal meets no handler
(`SignalAgain`). The load balancer probes and routes: `ProbeStart` reads the
flag, as the first of the checks does, and `Settle` answers when the pings have
(`PingAnswers`) or their two seconds are over (`PingTimesOut`). So a probe may
say "ready" up to two seconds after a signal; an instance in `Graceful` is one
whose window outlasts that answer and the next probe, and a shorter window
drains nobody (no property speaks of it). `Exit` waits for probes as for any
request.

### Registry, Accounts, SavedSearches
`Registry` is what accounts promise: a request takes effect at one moment between
its arrival and its answer. `Accounts` is `auth.service.ts`, a step per awaited
call: `Find`, `Save` (the unique key decides; its error is no HttpException and
becomes a 500), `Sign`, `Login`. A password is compared through `Digest`, what
bcrypt keeps of it (72 bytes), which need not be injective. A token is the answer
a client holds until `Expire`. The refinement mapping reads the effect off the
program counter: granted from the INSERT on, pending before, none when answered;
a 409 is allowed by the registry because the row was there when it was looked up,
and a 500 is a failure, which costs the answer and not the account.
`SavedSearches` extends it with the guard (`Admit`), `Insert`, and `LookUp` and
`Delete`, which the expiry of the token does not stop once they are let in. It
frees a client only after its answer, and the same client makes one request at a
time.

## 3. Runs

| run | instance | shows |
|---|---|---|
| `posting_life` | every raw posting with ages from 5, 12, 28 days to 31 | what a repost needs, dates |
| `scraper_race` | 2 instances, 2 ticks, 1 board with a cross-posting, an edited and a stale listing; 1 failed call, 1 crash, 1 lapse | tables, outbox, repost keys, credits and announcements stay consistent |
| `scraper_retry` | 1 instance, 2 boards, 2 attempts, 4 failed calls, 2 crashes | ticks settle, and fail only after a wipeout; what is counted was stored |
| `pipeline` | 2 instances, 1 tick that may run again (so 2 outbox rows of one job), batches of 2, 1 crash or wrong stall verdict, 1 interruption | scores in range, no enrichment lost, a second bonus only for a row two workers held; implements `EnrichmentRelay` and `OutboxDelivery` |
| `cache` | 2 instances, 1 key, 2 requests, 2 versions, 2 messages, 1 outage; every table of 3 rows and 2 words, one of them `undefined`, every query of up to 2 parameters of up to 2 words, 2 pages and 2 limits | what a stale entry can come from; the cache converges, GETs are answered; keys decide answers of plain queries, pages cover the list |
| `notifier` | 2 instances, 1 job, 2 searches, 3 hours of 2 units, 1 late unit, 1 fault, 1 search saved or removed | how often a pair is alerted, what a window leaves behind, how long a removed search speaks |
| `exports` | 2 exports, 2 instances, 1 failure, 1 wrong stall verdict, finished jobs removed at any time | URLs, states and runs agree; polling ends |
| `shutdown` | 2 instances, one of them with a window, 2 signals in all, 1 request, 1 probe and 1 sweep at a time each | drained and answered unless another signal or a rejection cuts it short; a signal ends the process; a probe is answered |
| `accounts` | 2 clients, 2 addresses, 3 passwords of which bcrypt takes 2 for one, 1 search, 1 fault | implements `Registry`; only owners act; a removal is final; who knows the password gets in |

Each property of these has a mutant of the code that breaks it.

Three runs state what comments of the code say, and find it violated; each is
a finding of `PROJECT.json`:

- `relay_refused` (2 relays, 2 rows): the claim "prevents double-processing by
  concurrent workers", and the bonus is "now active", but the claim is refused
  outside a transaction and no row is processed.
- `cache_outage`: "a Redis outage must fall through", but a sweep's rejection is
  unhandled.
- `export_outage`: "an S3 outage must not pull the node out of rotation", but the
  upload's promise has no handler while rows are read.

Two more things the models show without a run of their own. The relay adds 15
once per outbox row, not once per job: two scrapes of a job before the relay
comes by leave it with the bonus twice (within the cap, `ScoreInRange`). A
second, different signal passes `beginDrain()` at once, so the instance closes
in the middle of the first signal's window: that is why `DrainedUnlessCut`
excuses the instances in `hurried`. A probe that read the flag before the signal
may answer "ready" after it, for as long as its pings take: the grace window
must outlast that answer and one more probe, or it drains nobody.

### Bounds, and why they are enough
Two instances are enough for every race in the code: what a third could do is
one more of the same kind, since instances meet only in tables, keys and queues.
Two postings on one URL and two URLs for one posting cover both ways the unique
key of `jobs` and the repost key can disagree. Two attempts and two sources make
"all sources failed" differ from "one failed" and a last attempt from an
earlier one. Failures, crashes, outages, signals and lapses are spent from a
budget; the budgets are such that a failure can hit the recovery from another
one where recovery is the question (`scraper_retry`: four calls and two crashes;
`exports`: a failure and a wrong verdict, which together use up the stalls).
In `pipeline` a tick that is run again after a crash or a wrong verdict writes a
second outbox row for its job, which gives full and partial batches, two rows of
one job, and two workers on one row. In `notifier` the horizon holds
three runs, and so two pairs of consecutive windows; two searches on one job tell
sending a message from ending a run. Two clients and two addresses in `accounts`
make a race for one address, a shared account and somebody else's; the third
password is one that bcrypt cannot tell from the second, and the one search can
be removed by two clients at once. Two signals in `shutdown` are one for each
instance, two different ones for one, or the same twice. Three rows, two words
and pages of one and two rows in `cache` give full, short and empty pages, ties
in the score, and keywords that are split, repeated or empty. Where the proofs
apply (section 4) bounds and set sizes do not matter.

`CHECK_DEADLOCK FALSE` is said only where the model really stops: once the
bounded ticks, rows or days are over and everything is settled (`PostingLife`
when a posting is followed no more, the scraper when its ticks are used up, the
notifier at its horizon). The pipeline (its relays tick on), the cache, the
exports, the shutdown and the accounts never stop, and deadlock is checked there.

### Fairness
Weak fairness, of what the runtime guarantees: an awaited call returns or
throws (`Step`, `RelayStep`, `Serve`), an idle BullMQ worker takes a waiting
job, the stalled check and the cron schedule run, keys expire, Redis comes back,
the load balancer probes, and the time limit of a ping runs out (`PingTimesOut`;
no ping has to be answered, and no sweep). A claim of the relay is answered, but
nobody is obliged to accept it. Nobody is obliged to write, publish, enqueue or
send a request or a signal; failures and crashes are never fair. In `Exports` the
client is assumed to poll, and in `accounts` a client to try to log in again and
again (strongly, since its other requests come in between), as the properties
are about clients that do. `Lookup` of the relay is fair because levels.fyi has
eight seconds to answer. A call that never returns is outside the model, as
`queryRunner.connect()` of an export would be if the pool were exhausted.

## 4. Proofs

Checked by `tlapm`, for every value of the constants that satisfies the named
assumptions of the modules (`ScraperAssumption`, `RawsAssumption`,
`UnknownAssumption`, `AccountsAssumption`, `ExportsAssumption`,
`CacheAssumption`, `ListAssumption`, `ShutdownAssumption`, `NotifierAssumption`,
`PipelineAssumption`), each of which TLC evaluates in a run of its module. They
say that bounds are natural numbers, that feeds hold listings and there is a
board, that the "none" of a free worker is not a tick, that no password's digest
is the mark of a missing row, that the notifier's hour and horizon have some
length, and that the rows of the list are finitely many and are numbered. The
relay's theorems assume nothing: its environment stores scores of 60..85
(`RowsQualify` proves that the real scraper does), whatever the claim's limit is.

The type invariants of the scraper, the relay, the cache, the exports, the
shutdown, the notifier and the accounts are proved (each `TypeCorrect`), and all
runs but the notifier's leave them to the proofs; neither do they repeat
`ScoresAreBounded` and `ScoreOnlyFalls`.

- **ScraperWorkerProofs** begins with the scorer and the posting's life:
  `ScoreIsBounded`, `RepostIsComplete`, `UndatedIsRejected` about the operators,
  for every listing, by case analysis over the tiers (lemma `Terms`); then the
  four properties of `PostingLife`, whose invariant is `Shape` (the posting stays
  a raw posting of a board); with `SourcesMakeListings` the rest follows from the
  scorer's theorems. `ScoreOnlyFalls` is an action property. Of the scraper
  itself: `TypeCorrect` (with `Coherent`: a worker's item is
  one of its feed), then six safety theorems, five by a strengthening that says
  what a worker in the middle of a listing owes:
  - `KeysAreJustified` by `StoredFirst`: a worker about to SET a repost key holds
    a posting that is committed;
  - `RowsQualify` by `AcceptedFirst`: a worker about to commit holds a listing
    whose score, as it was computed before the EXISTS answer could grow stale,
    reaches the threshold - that is what makes the race on the key harmless;
  - `FirstSeenIsCreditedOnce` by `CreditIsKeyed`: a posting that a worker has
    credited has its key set, or that worker is between the commit and the SET;
  - `CommitsAreAnnounced` by `AnnouncedOrOwed`: what is committed is announced,
    excused by a failure, or owed by a worker that has accepted something and
    not yet published;
  - `CountsAreCovered` by `CountsCovered`: the counter, the current board's
    listings and the one stored but not yet remembered fit the outbox together;
  - `OutboxIsTransactional` needs none: every step keeps the tables or appends
    the row's event in the same transaction (`PersistEffect`);
  - `GivingUpIsEarned` by `AttemptsArePaidFor`: calls that failed pay for every
    attempt counted against a tick and for the one under way, crashes and wrong
    verdicts for every stall, detected or not yet; a stale worker, whose job was
    given to another, is counted against nobody.
- **EnrichmentRelayProofs**: `TypeCorrect`; `ScoresStayInRange` and
  `EnrichmentIsNotLost` from `IInv`, which adds `HeldScore` (a score read and not
  yet written back is in range) and `RowProgress` (a held row has been looked up,
  and priced when its salary was found); `SecondBonusMeansSharedRow` from
  `CreditPlace` (a row that was credited is held for its mark, or marked, and is in
  no batch of its worker) and `SharedPlace` (of a row in a worker's hands another
  holds it, or has given its bonus, only if `shared` has it: a claimed row is
  unmarked, so whoever has its bonus still holds it); and
  `DeliversAtLeastOnce`, the refinement of `OutboxDelivery`: every step maps to
  `Publish`, `Handle`, `Ack` or a stutter.
- **SavedSearchesProofs**: `IInv` is the type with `Tokens` (a token is held, or
  about to be signed, only by who gave the password of the row) and `RequestOf`
  (a request about a search stands on such a token though it may have expired; a
  row it is about to delete is its owner's; one that is deleted does not come
  back, because ids are not given twice). From it `RemovalsAreFinal`, the action
  property `OnlyOwnersAct`, and `AccountsAreAtomic`, the refinement of `Registry`
  (`StepImplements`: the INSERT is `Register`, a refused INSERT is `Fail`, the
  look-up that finds nothing is a stutter).
- **ExportsProofs**: `Counts` (runs are paid for by stalls, with one more to come
  where the job is still waiting), `Order` (a run that is about to store a URL has
  its file, one about to return has its URL) and `Held` (before the first wrong
  verdict, who runs an export holds its job) with the two invariants on files
  and URLs. `Held` is what `FailuresAreFinal` needs: without it a run whose job
  was given to another worker could finish a failed export.
- **JobsCacheProofs**: `StaleEntriesAreExcused`, which is inductive with
  `KeyKnown` (a request in progress has its key): the case that matters is a fill
  after a sweep, which makes its own excuse `late`. Then the list, for any words,
  any number of rows and any limit:
  - `KeysDecideAnswers`, of plain queries, by `SpellingDecides`: lists of one-word
    keywords with one spelling are the same, but for the empty list and the list
    of the empty word, and those two select the same rows (`EmptyWordSelectsAll`).
    `UndefinedIsMixedUp` is why it is of plain queries only: it exhibits two
    queries with one key on every page and a row that tells their answers apart;
  - `PagesCoverTheList` by `Listed` (what `ByRank` makes of the selected rows is
    all of them, once, in order; `Ranked` says so of any total order) and
    `PagesJoin` (n pages joined are the first n times `limit` rows).
  Joining is a recursive function of the community modules (`FlattenSeq`). What it
  computes is found without an induction theorem: `Flattened` takes the least
  index at which it would not be the expected prefix (`LeastNumber`, from the
  well-foundedness of <).
- **NotifierProofs**: the invariant is an account. For a stored job and a search,
  the alerts sent, the runs that may still send one (`Holders`) and the jobs put
  back after a stall are never more than the windows that the schedule has opened
  over the job (`Windows`, at most one and the moments of lateness), the runs
  that read it though it was stamped after their start (`squeezed`) and the
  faults (`PaidFor`). `Schedule` ties the clock to the next full hour, `Unstored`
  says that nothing is sent before a commit, and a finite number of workers is at
  work, so that they can be counted. With `NobodyMissed` (while nothing was late
  or failed, what the next window leaves behind is held by a run that will read
  it, or has been read with its searches) it gives `AlertsStayBounded`,
  `NobodyIsLeftBehind` and `RemovedSearchesFallSilent`.
- **PipelineProofs**: `Safety` (what the scraper has at hand qualifies, every
  event of the outbox names a stored job, a relay holds rows that are there),
  `ScoresStayInRange`, and `RefinesRelay`: the refinement of `EnrichmentRelay`. A
  commit of the real scraper is `Scrape` of the relay's environment, each step of
  the relay is itself on the view of the table it has, an instance that dies is
  an interruption, and whatever else the scraper does stutters. With
  it the theorems of `EnrichmentRelayProofs`, an instance of which the module
  takes, carry over from the abstract environment to the real scraper:
  `LosesNoEnrichment`, `SecondBonusMeansSharedRow`, and `DeliversAtLeastOnce`, the
  refinement of `OutboxDelivery` by way of the relay's. They are the properties of
  run `pipeline`.
- **ShutdownProofs**: `ShutdownOf` (two handlers run only after another signal; a
  process is gone only after it was cut short or from its last step; with a window
  and not cut short, once app.close() has begun the balancer has let go and no
  probe under way will answer that the instance is ready), from which
  `DrainComesFirst` and `AcceptedAreAnswered`.

Only model-checked is all liveness, which is out of the prover's reach with
fairness: `EveryTickSettles`, `EventuallyFresh`, `EveryGetAnswered`, `EveryExportIsAnswered`,
`SignalEndsProcess`, `ProbesAreAnswered`, `HolderGetsIn`; and the three statements
that the code refutes, which are TLC's counterexamples. Every safety and action
property and every refinement that the passing runs check are theorems. The
recursion-free style of the modules (functions, no `RECURSIVE`) makes that
possible.

## 5. Not modelled

- LIKE's wildcards; validation of DTOs, log lines and error bodies. A malformed
  uuid in `DELETE /searches/:id` is an error of Postgres and so a 500, without
  effect.
- HTTP and XML parsing of the boards: an answer is a feed or a failure.
- levels.fyi's circuit breaker: what its counters decide is which of `Lookup`'s
  two answers comes, and how fast. A batch that is claimed while it is open is
  marked without salaries and never looked up again, which `Lookup` allows.
- The DLQ, which nothing consumes, is a count.
- The lists of saved searches, `/health/live` and `/health`, which change
  nothing and decide nothing; the HEAD of the bucket, which is only in the last.
- Queue metrics: gauges that copy BullMQ's counts, which nothing in the program
  reads. Bull Board, dashboards, module wiring, configuration, client factories
  and migrations have no behaviour of their own; correlation ids and the error
  filter are logging and wording, except that an error that is no HttpException
  becomes a 500 (`Accounts!Save`).
- The order in which `@nestjs/bullmq` closes workers at shutdown, which is not in
  the repository.
- A call that never returns: `queryRunner.connect()` of an export waits for the
  pool without a limit.

## 6. Plan

Done: every component with state of its own (section 1), the abstract
specifications `OutboxDelivery` and `Registry`, the composition `Pipeline`;
proofs of every safety property, action property and refinement of section 3.

Left:
1. The scraper's own theorems in the pipeline, where the relay writes to its
   tables: what is announced, which repost keys are justified, which postings
   are credited, with the scores and marks of the relay out of view.
2. `Notifier!Edit` against `SavedSearches`: a search that the notifier sees come
   and go is one that an owner saved and removed.
