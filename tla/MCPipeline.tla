------------------------------ MODULE MCPipeline ------------------------------
(* One board that answers with a complete listing, again and again.        *)
EXTENDS Pipeline, TLC

CONSTANTS u1, k1, c1

Listing1 ==
  [url |-> u1, posting |-> k1, company |-> c1, postedAt |-> "valid", age |-> 1,
   salaryMin |-> TRUE, salaryMax |-> TRUE, currency |-> "USD", desc |-> 600]

OneBoard == <<"remoteok">>
PipelineFeeds == [b \in {"remoteok", "remotive", "weworkremotely"} |-> {<<Listing1>>}]

\* Instances are interchangeable.
Symmetry == Permutations(Workers)
=============================================================================
