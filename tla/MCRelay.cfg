\* Two relays over two rows of one job: the claim may be refused.
CONSTANTS
  Workers = {w1, w2}
  Urls = {u1}
  Companies = {c1}
  Limit = 2
  MaxRows = 2
  MaxInterrupts = 0
SPECIFICATION FairSpec
PROPERTY EveryRowProcessed
