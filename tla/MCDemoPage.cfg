\* Two runs whose events may reach the page in any mixture (the channels hold a
\* whole run), one slot, a tool call at most; two clicks on an attack button, at
\* once or before and after a new submission.
SPECIFICATION PageSpec
CONSTANTS
  Requests = {r1, r2}
  MaxRuns = 1
  MaxToolCalls = 1
  ChanCap = 9
  AttackRows = {hash_input}
  NoRun = NoRun
  MaxClicks = 2
SYMMETRY Interchangeable
INVARIANTS
  PageTypeOK
  OnlyOverlapsMix
  RestsWhenAllIsTold
  ResultStandsByItsHashes
  RowsAdvanceInOrder
  MarksLastTheirTime
\* All the requests may have been served.
CHECK_DEADLOCK FALSE
