\* The auto-sync and one other job over an option and a stock: one trade, and
\* one of: a change of the gateway or the setting, a confirmed screenshot, a
\* fault or a crash.
SPECIFICATION Spec
CONSTANTS
  call = call
  stock = stock
  auto = auto
  user = user
  Legs = {call, stock}
  Options = {call}
  FirstBook = {call}
  Annotated = {call}
  TaskJob = auto
  Manual = {user}
  MaxTrades = 1
  MaxEvents = 1
INVARIANTS
  RecordTellsSaved
  NothingOpenIsHidden
PROPERTIES
  NotesSurviveSyncs
  BookCatchesUp
