\* Two instances scrape and relay, with a crash and a failed call of a relay.
CONSTANTS
  u1 = u1
  k1 = k1
  c1 = c1
  Urls = {u1}
  Postings = {k1}
  Companies = {c1}
  Unknown = c1
  Workers = {w1, w2}
  Ticks = {t1}
  Sources <- OneBoard
  Feeds <- PipelineFeeds
  MaxAttempts = 1
  MaxStalls = 1
  CallFailures = 0
  Crashes = 1
  Lapses = 0
  Limit = 2
  MaxInterrupts = 1
SYMMETRY Symmetry
SPECIFICATION Spec
INVARIANTS ScoreInRange NoEnrichmentLost BonusOncePerHolder
PROPERTIES ImplementsRelay AtLeastOnce
