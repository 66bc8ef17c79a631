\* Bytes of 16 values; a usize wider than the longest length field; a u32 that
\* the longest hosts do not fit.
CONSTANTS
  Half <- MCHalf
  Word <- MCWord
  SeqTag = 12
  DnsTag = 13
  Dot = 4
  Star = 5
  Lower <- MCLower
  Roots <- MCRoots
  U32 = 4
  Inputs <- MCInputs
SPECIFICATION Spec
INVARIANTS
  TypeOK
  OnlyTheGenuineAttest
  HashIsOfGenuineKeys
  DistinctRecordsEncodeApart
  NeverPanics
PROPERTY Answers
CHECK_DEADLOCK FALSE
