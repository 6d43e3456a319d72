\* Any five calls, and a template of up to two writes.
SPECIFICATION Spec
CONSTANTS
  MaxCalls = 5
  MaxChunks = 2
INVARIANTS AnswerKept OneAuthor FailureShown
CHECK_DEADLOCK FALSE
