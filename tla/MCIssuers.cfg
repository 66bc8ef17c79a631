\* Chains of two certificates of every kind of key.
CONSTANTS
  Half <- MCHalf
  Word <- MCWord
  SeqTag = 12
  DnsTag = 13
  Dot = 4
  Star = 5
  Lower <- MCLower
  Roots <- MCRoots
  U32 = 4
  Inputs <- IssuerInputs
SPECIFICATION Spec
INVARIANT IssuersAreP256
CHECK_DEADLOCK FALSE
