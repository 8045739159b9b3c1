\* One instance, two boards, retries, crashes and stall verdicts.
CONSTANTS
  u1 = u1
  u2 = u2
  k1 = k1
  k2 = k2
  c1 = c1
  c2 = c2
  Urls = {u1, u2}
  Postings = {k1, k2}
  Companies = {c1, c2, unknown}
  Unknown = unknown
  Workers = {w1}
  Ticks = {t1}
  Sources <- TwoBoards
  Feeds <- RetryFeeds
  MaxAttempts = 2
  MaxStalls = 1
  CallFailures = 4
  Crashes = 2
  Lapses = 0
SPECIFICATION FairSpec
INVARIANTS GivenUpOnlyAfterWipeouts CountedWereStored
PROPERTY EveryTickSettles
CHECK_DEADLOCK FALSE
