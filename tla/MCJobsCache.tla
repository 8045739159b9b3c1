----------------------------- MODULE MCJobsCache -----------------------------
(* Instances, keys and requests of JobsCache; words and rows of JobList.   *)
EXTENDS JobsCache, JobList

\* An entry answers every plain query that comes to its key, and not only the one
\* that left it: whatever the table held at the entry's version, findAll() would
\* give them all the same answer.  Other queries can be answered from an entry
\* that is not theirs, or leave one that answers a plain query (see Plain).
KeyDecidesAnswer == \A k \in Keys : cache[k] # 0 => OneAnswerPerKey

\* What findAll() reads from one version of the table is a page of one list: the
\* pages repeat and miss no job, and `total` counts what is on them.
PagesCoverList == \A q \in Requests : request[q].pc = "set" => PagesPartitionList
=============================================================================
