\* Two instances, two requests that overtake two invalidations, one outage.
CONSTANTS
  Instances = {i1, i2}
  Keys = {k1}
  Requests = {r1, r2}
  MaxVersion = 2
  MaxMessages = 2
  MaxOutages = 1
  Words = {"backend", "undefined"}
  Rows = {1, 2, 3}
  Scores = {40, 90}
  MaxWords = 2
  MaxPage = 2
  MaxLimit = 2
SPECIFICATION FairSpec
PROPERTIES EventuallyFresh EveryGetAnswered
INVARIANTS StaleEntryIsExcused KeyDecidesAnswer PagesCoverList
