\* Scoring functions over every board and every side of every threshold.
CONSTANTS
  Urls = {u1}
  Postings = {k1}
  Companies = {c1, unknown}
  Unknown = unknown
  Raws <- MCRaws
  MaxAge = 31
SPECIFICATION LifeSpec
INVARIANTS RepostNeedsAll StoredListingsAreDated
CHECK_DEADLOCK FALSE
