\* Two requests for one slot, up to two tool calls; the channel has just the room
\* that ServerAssumption asks for.
SPECIFICATION Spec
CONSTANTS
  Requests = {r1, r2}
  MaxRuns = 1
  MaxToolCalls = 2
  ChanCap = 10
INVARIANTS
  TypeOK
  PermitsConserved
  NeverBlocksOnClient
  EventOrder
  ErrorNamesItsStage
  EndedStreamIsConclusive
PROPERTIES
  OrphanStartsNoWork
  ImplementsRunSlots
  SlotsComeBack
  ReadStreamEnds
\* All the requests may have been served.
CHECK_DEADLOCK FALSE
