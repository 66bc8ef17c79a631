\* --json, a program that does not parse and one retry.
SPECIFICATION Spec
CONSTANTS
  MaxRetries = 1
  MaxRepeat = 1
  MaxToolCalls = 1
  Keys = {k1}
  Values = {v1}
  Missing = Missing
INVARIANT JsonIsAllThatIsPrinted
\* The process exits.
CHECK_DEADLOCK FALSE
