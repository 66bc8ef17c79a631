\* One OpenVM run; the policy file is edited once.
SPECIFICATION Spec
CONSTANTS
  Runs = {r1}
  Dirs = {d1}
  Backends = {"app"}
  MaxEdits = 1
INVARIANT EnforcedPolicyIsCommitted
\* All the runs end.
CHECK_DEADLOCK FALSE
