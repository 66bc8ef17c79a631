\* The usize of the zkVM guest: as many octets as the longest length field.
CONSTANTS
  Half <- MCHalf
  Word <- MCGuestWord
  SeqTag = 12
  DnsTag = 13
  Dot = 4
  Star = 5
  Lower <- MCLower
  Roots <- MCRoots
  U32 = 4
  Inputs <- DamagedInputs
SPECIFICATION Spec
INVARIANT NeverPanics
CHECK_DEADLOCK FALSE
