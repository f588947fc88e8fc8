SPECIFICATION Spec
CONSTANTS
  Conversation = {"a", "b"}
  Namespace <- Switching
  Disabled = {"off"}
  Prompt = {"p", "q"}
  Strategy = {"recover"}
  Restless = FALSE
  MaxAnswers = 7
  MaxLosses = 0
  MaxLength = 10
CONSTRAINT OnCourse
CHECK_DEADLOCK FALSE
INVARIANT RecoveredCallsGetOwn
