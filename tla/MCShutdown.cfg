\* Two instances, one of them with a grace window; two signals.
SPECIFICATION FairSpec
CONSTANTS
  Instances = {"i1", "i2"}
  Signals = {"SIGTERM", "SIGINT"}
  Graceful = {"i1"}
  MaxSignals = 2
  MaxRequests = 1
INVARIANTS DrainedUnlessCut 
PROPERTIES SignalEndsProcess ProbesAreAnswered
