\* Up to two retries, up to three tool calls in an execution, batches of up to three
\* runs, every command line.
SPECIFICATION Spec
CONSTANTS
  MaxRetries = 2
  MaxRepeat = 3
  MaxToolCalls = 3
  Keys = {k1}
  Values = {v1, v2}
  Missing = Missing
INVARIANTS
  TypeOK
  ConversationMatchesAttempts
  TranscriptReplays
  ReportIsOfOneAttempt
  GivesUpOnlyWhenExhausted
  PostsAreOnRecord
  BatchRunsAreIndependent
  HistogramAddsUp
PROPERTIES
  SuccessIsFinal
  Terminates
\* The process exits.
CHECK_DEADLOCK FALSE
