------------------------------- MODULE Pipeline -------------------------------
(***************************************************************************)
(* The ingestion pipeline: ScraperWorker and EnrichmentRelay on the same   *)
(* tables.  Each application instance runs both, so a crash of an instance *)
(* ends whatever the two were doing.                                       *)
(***************************************************************************)
EXTENDS Integers, Sequences, FiniteSets

CONSTANTS
  Workers, Urls, Companies,                            \* of both
  Postings, Unknown, Ticks, Sources, Feeds, MaxAttempts, MaxStalls,
  CallFailures, Crashes, Lapses,                       \* of ScraperWorker
  Limit, MaxInterrupts                                 \* of EnrichmentRelay

VARIABLES
  jobs, outbox,                                        \* shared
  companies, repost, dlq, bull, run, counter, budget,
  committed, announced, excused,                       \* the scraper's
  priced, relay, interrupts, attempted, unknown, shared,  \* the relay's
  scrapeCredit, relayCredit

scraperVars == <<companies, repost, dlq, bull, run, counter, budget,
                 committed, announced, excused, scrapeCredit>>
relayVars == <<priced, relay, interrupts, attempted, unknown, shared, relayCredit>>
vars == <<jobs, outbox, scraperVars, relayVars>>

\* The relay's own bound on rows is not used: they are the scraper's.
Scraper == INSTANCE ScraperWorker WITH credit <- scrapeCredit
Relay == INSTANCE EnrichmentRelay WITH credit <- relayCredit, MaxRows <- 0

\* There is a board (SOURCES), and a board answers with lists of listings.
ASSUME PipelineAssumption ==
  /\ Sources \in Seq(Scraper!Boards) /\ Sources # <<>>
  /\ Feeds \in [Scraper!Boards -> SUBSET Seq(Scraper!Listing)]

\* The relay sees only the score and the company of a row.
RelayView == INSTANCE EnrichmentRelay WITH
  credit <- relayCredit, MaxRows <- 0,
  jobs <- [u \in DOMAIN jobs |-> [score |-> jobs[u].score, company |-> jobs[u].company]]

Init == Scraper!Init /\ Relay!RelayInit

Scrape == Scraper!Next /\ UNCHANGED relayVars

Enrich ==
  /\ \E w \in Workers : Relay!RelayStep(w) \/ Relay!Interrupt(w)
  /\ UNCHANGED scraperVars

\* The instance dies in the middle of a scrape and of a relay run.
InstanceCrash == \E w \in Workers : Scraper!Crash(w) /\ Relay!Interrupt(w)

Next == Scrape \/ Enrich \/ InstanceCrash

Spec == Init /\ [][Next]_vars

-----------------------------------------------------------------------------
\* Whatever the real scraper and the relay overwrite of each other's scores, a
\* stored score qualifies and never passes 100.
ScoreInRange == Relay!ScoreInRange

\* The scraper is an environment the relay was checked against: the whole
\* pipeline implements EnrichmentRelay with its abstract scrapes.
ImplementsRelay == RelayView!Spec

\* With the real scraper, and instances that die with both their jobs: a row is
\* marked only after its lookup, and no salary that was found is lost.
NoEnrichmentLost == Relay!NoEnrichmentLost

\* Two workers add the bonus for one row of the real outbox only if they have
\* held it at once.
BonusOncePerHolder == Relay!BonusOncePerHolder

\* The pipeline delivers the events of the real scraper at least once.
AtLeastOnce == RelayView!AtLeastOnce
=============================================================================
