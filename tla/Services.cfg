\* Two threads and three tokens; two contracts and an answer that lives for two
\* of five ticks; Friday with the scripts that two jobs run, and one by hand; a
\* ticker on the system pages that also has a chart, one with pages of its own
\* for some widgets and one with pages for all, and two requests.
SPECIFICATION Spec
CONSTANTS
  Threads = {w1, w2}
  MaxTokens = 3
  Conids = {k1, k2}
  Ttl = 2
  MaxTime = 5
  Unknown = Unknown
  Scripts = {"gex_oi", "qd_refresh"}
  FirstSlot = 1152
  LastSlot = 1439
  MaxByHand = 1
  ByHand = ByHand
  InGroup = InGroup
  Requests = {w1, w2}
  System = {"AMZN"}
  Partial = {"MSFT"}
  Dedicated = {"SPY"}
  Charts = {"AMZN"}
  MaxAsked = 2
  None = None
  Cold = Cold
CHECK_DEADLOCK FALSE
INVARIANTS
  EstablishedMeansUsable
  LiveBackendIsRecent
  LockedReadsOwn
PROPERTIES
  SecondProbeTells
  StatusOfNewestRun
  BrowserCatchesUp
  LeakedFetchWarms
