\* Two runs in the default directory, one after the other or at once, and
\* one edit of the policy file at any time.
SPECIFICATION Spec
CONSTANTS
  Runs = {r1, r2}
  Dirs = {d1}
  Backends = {"noir", "app", "stark"}
  MaxEdits = 1
INVARIANTS
  TypeOK
  UndisturbedReportIsTrue
PROPERTY ReportedFilesAreOfTheRun
\* All the runs end.
CHECK_DEADLOCK FALSE
