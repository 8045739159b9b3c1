--------------------------- MODULE MCScraperWorker ---------------------------
(* Feeds for ScraperWorker: a complete listing, one that is stored only when *)
(* first seen, and a stale one.                                              *)
EXTENDS ScraperWorker, TLC

CONSTANTS u1, u2, k1, k2, c1, c2

Complete1 ==
  [url |-> u1, posting |-> k1, company |-> c1, postedAt |-> "valid", age |-> 1,
   salaryMin |-> TRUE, salaryMax |-> TRUE, currency |-> "USD", desc |-> 600]
\* The same posting under another URL, without its salary.
Crosspost == [Complete1 EXCEPT !.url = u2, !.salaryMin = FALSE, !.currency = "none"]
\* The first URL once its title and company have been edited.
Edited == [Complete1 EXCEPT !.posting = k2, !.company = c2]
Stale == [Complete1 EXCEPT !.age = 40]

OneBoard == <<"remoteok">>
TwoBoards == <<"remoteok", "remotive">>

RaceFeeds == [b \in Boards |-> {<<Complete1, Crosspost>>, <<Edited, Stale>>}]

\* Instances and ticks are interchangeable.
Symmetry == Permutations(Workers) \cup Permutations(Ticks)

RetryFeeds ==
  [b \in Boards |-> IF b = "remoteok" THEN {<<Complete1>>, <<>>}
                                      ELSE {<<Stale, Edited>>}]
=============================================================================
