\* One choice whose deltas always carry reasoning_content, two contexts, retries.
CONSTANTS
  Choice = {0}
  Context = 2
  Chunk <- KeyedChunks
  MaxContent = 9
  MaxRetries = 2
  Display = {TRUE}
  InOrder = FALSE
  MaxLines = 4
SPECIFICATION FairSpec
INVARIANT ReceivedIsFound
PROPERTY StreamEnds
