\* Two interleaved choices in two contexts; empty fields are left out, and
\* text beyond two pieces is not accumulated.
CONSTANTS
  Choice = {0, 1}
  Context = 2
  Chunk <- PlainPairs
  MaxContent = 2
  MaxRetries = 0
  Display = {TRUE, FALSE}
  InOrder = FALSE
  MaxLines = 3
SPECIFICATION Spec
INVARIANTS TypeOK EndedStreamKept ThinkingIsBracketed NoticeOnce ToolCallsFound
