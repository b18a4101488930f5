SPECIFICATION ContextSpec
CONSTANTS
  Lengths = {10, 400}
  KeepHead = 1
  KeepTail = 1
  HistoryBudget = 600
  ActiveBudget = 300
  KeepRecent = 1
  Limit = 250
  Note = 20
  Overhead = 40
  Short = 200
  MaxIds = 2
  MaxMessages = 6
INVARIANTS SentIsUsable SentFitsInOrder
CHECK_DEADLOCK FALSE
