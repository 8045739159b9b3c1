--------------------------- MODULE FreshnessScorer ---------------------------
(***************************************************************************)
(* The score of a listing: src/scraping/freshness-scorer.ts.  A listing is *)
(* reduced to what the score and the scraper look at:                      *)
(*   url, posting   the URL and the pair (title, company) that the repost  *)
(*                  key hashes;                                            *)
(*   company        the company name;                                      *)
(*   postedAt       whether there is a date and whether it parses;         *)
(*   age            whole days since that date (the thresholds are whole   *)
(*                  days, so the fraction never matters);                  *)
(*   salaryMin/Max  whether the bound is present;                          *)
(*   currency       "USD", another currency, or none at all;               *)
(*   desc           the length of the description, 0 when there is none.   *)
(***************************************************************************)
EXTENDS Integers

CONSTANTS Urls, Postings, Companies

Dates == {"none", "unparsable", "valid"}
Currencies == {"none", "USD", "other"}

Listing == [url : Urls, posting : Postings, company : Companies,
            postedAt : Dates, age : Int,
            salaryMin : BOOLEAN, salaryMax : BOOLEAN,
            currency : Currencies, desc : Nat]

\* The score below which the scraper routes a listing to the dead-letter queue.
Threshold == 60

\* Mutations of AgeScore: the tiers reach one day too far; an unparsable date
\* is taken for a date.
AgeScoreInclusive(l) ==
  IF l.postedAt # "valid" THEN 0
  ELSE IF l.age <= 7 THEN 30
  ELSE IF l.age <= 14 THEN 20
  ELSE IF l.age <= 30 THEN 10
  ELSE 0

AgeScoreAnyDate(l) ==
  IF l.postedAt = "none" THEN 0
  ELSE IF l.age < 7 THEN 30
  ELSE IF l.age < 14 THEN 20
  ELSE IF l.age < 30 THEN 10
  ELSE 0

\* An unparsable date makes ageDays NaN, which is below no threshold.
AgeScore(l) ==
  IF l.postedAt # "valid" THEN 0
  ELSE IF l.age < 7 THEN 30
  ELSE IF l.age < 14 THEN 20
  ELSE IF l.age < 30 THEN 10
  ELSE 0

SalaryScore(l) ==
  IF l.currency = "USD" /\ l.salaryMin /\ l.salaryMax THEN 20 ELSE 0

DescriptionScore(l) ==
  IF l.desc > 500 THEN 15 ELSE IF l.desc > 200 THEN 8 ELSE 0

RepostScore(isRepost) == IF isRepost THEN 0 ELSE 20

Score(l, isRepost) ==
  AgeScore(l) + SalaryScore(l) + DescriptionScore(l) + RepostScore(isRepost)

\* What the scraper stores: the listings whose score reaches the threshold.
Accepts(l, isRepost) == ~(Score(l, isRepost) < Threshold)

\* A listing that says everything the scorer asks for and is less than a week old.
Complete(l) ==
  /\ l.postedAt = "valid" /\ l.age < 7
  /\ l.currency = "USD" /\ l.salaryMin /\ l.salaryMax
  /\ l.desc > 500
=============================================================================
