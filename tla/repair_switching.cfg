SPECIFICATION Spec
CONSTANTS
  Conversation = {"a", "b"}
  Namespace <- Switching
  Disabled = {"off"}
  Prompt = {"p"}
  Strategy = {"recover", "reject"}
  Restless = FALSE
  MaxAnswers = 3
  MaxLosses = 1
  MaxLength = 6
CHECK_DEADLOCK FALSE
INVARIANT ContractHonoured
INVARIANT CallsGetOwnReasoning
INVARIANT RestoredIsOfThisTurn
PROPERTY RecoveryConverges
