\* Two OpenVM runs in the default directory.
SPECIFICATION Spec
CONSTANTS
  Runs = {r1, r2}
  Dirs = {d1}
  Backends = {"app"}
  MaxEdits = 0
INVARIANT ProofFileMatchesSource
\* All the runs end.
CHECK_DEADLOCK FALSE
