\* Two clients, two addresses and one search, whose id is not given again; a fault.
SPECIFICATION FairSpec
CONSTANTS
  Clients = {"a", "b"}
  Emails = {"e1", "e2"}
  Passwords = {"p1", "p2", "p3"}
  Tries <- MCTries
  Digest <- MCDigest
  NoUser = "nobody"
  MaxFaults = 1
  Ids = {"s1"}
INVARIANTS RemovalIsFinal
PROPERTIES ImplementsRegistry OwnersOnly HolderGetsIn
