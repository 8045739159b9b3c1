\* A Redis outage in the middle of a sweep.
CONSTANTS
  Instances = {i1}
  Keys = {k1, k2}
  Requests = {r1, r2}
  MaxVersion = 2
  MaxMessages = 1
  MaxOutages = 1
  Words = {"backend", "undefined"}
  Rows = {1, 2}
  Scores = {40, 90}
  MaxWords = 2
  MaxPage = 2
  MaxLimit = 2
SPECIFICATION Spec
INVARIANT OutageNeverFailsGet
