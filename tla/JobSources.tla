----------------------------- MODULE JobSources -----------------------------
(***************************************************************************)
(* The three job boards and what each source class makes of one of their   *)
(* postings (src/scraping/sources/*.ts).  A raw posting carries what the   *)
(* boards publish between them:                                            *)
(*   named        WeWorkRemotely: the title reads "Company: Title";        *)
(*   salaryMin/Max  RemoteOK: the numeric fields are present;              *)
(*   figures      Remotive: how many numbers the salary text holds;        *)
(*   text, markup the characters of the description outside and inside     *)
(*                HTML tags.                                               *)
(***************************************************************************)
EXTENDS FreshnessScorer

CONSTANT Unknown      \* the company name 'Unknown' of an untagged WWR title

ASSUME UnknownAssumption == Unknown \in Companies

Boards == {"remoteok", "remotive", "weworkremotely"}

RawPosting == [url : Urls, posting : Postings, company : Companies,
               named : BOOLEAN, date : Dates, age : Int,
               salaryMin : BOOLEAN, salaryMax : BOOLEAN, figures : Nat,
               text : Nat, markup : Nat]

Quoted(r, min, max, currency, desc) ==
  [url |-> r.url, posting |-> r.posting, company |-> r.company,
   postedAt |-> r.date, age |-> r.age,
   salaryMin |-> min, salaryMax |-> max, currency |-> currency, desc |-> desc]

\* RemoteOK: the description keeps its tags; the currency follows the minimum.
RemoteOk(r) ==
  Quoted(r, r.salaryMin, r.salaryMax,
         IF r.salaryMin THEN "USD" ELSE "none", r.text + r.markup)

\* Remotive: a salary needs two numbers, and then it is taken to be in dollars.
Remotive(r) ==
  LET range == r.figures >= 2
  IN  Quoted(r, range, range, IF range THEN "USD" ELSE "none", r.text)

\* WeWorkRemotely: no salary at all; the company comes out of the title.
WeWorkRemotely(r) ==
  [Quoted(r, FALSE, FALSE, "none", r.text)
     EXCEPT !.company = IF r.named THEN r.company ELSE Unknown]

FromBoard(board, r) ==
  CASE board = "remoteok" -> RemoteOk(r)
    [] board = "remotive" -> Remotive(r)
    [] board = "weworkremotely" -> WeWorkRemotely(r)

\* The listings the scraper keeps: dollars, or no currency.
Keeps(l) == l.currency \in {"none", "USD"}
=============================================================================
