\* Empty fields are left out, so answer text can pass through unparsed.
CONSTANTS
  Choice = {0}
  Context = 1
  Chunk <- PlainChunks
  MaxContent = 9
  MaxRetries = 0
  Display = {TRUE}
  InOrder = TRUE
  MaxLines = 3
SPECIFICATION Spec
INVARIANT AnswerIsFound
