\* Two instances scrape the same board in overlapping ticks.
CONSTANTS
  u1 = u1
  u2 = u2
  k1 = k1
  k2 = k2
  c1 = c1
  c2 = c2
  Urls = {u1, u2}
  Postings = {k1, k2}
  Companies = {c1, c2, unknown}
  Unknown = unknown
  Workers = {w1, w2}
  Ticks = {t1, t2}
  Sources <- OneBoard
  Feeds <- RaceFeeds
  MaxAttempts = 1
  MaxStalls = 1
  CallFailures = 1
  Crashes = 1
  Lapses = 1
SYMMETRY Symmetry
SPECIFICATION Spec
INVARIANTS OutboxMatchesJobs StoredRowsQualify RepostKeyJustified
  FirstSeenOncePerWorker NoSilentCommit
CHECK_DEADLOCK FALSE
