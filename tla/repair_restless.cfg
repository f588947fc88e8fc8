SPECIFICATION Spec
CONSTANTS
  Conversation = {"a"}
  Namespace <- OneClient
  Disabled = {"off"}
  Prompt = {"p"}
  Strategy = {"recover"}
  Restless = TRUE
  MaxAnswers = 3
  MaxLosses = 1
  MaxLength = 6
CHECK_DEADLOCK FALSE
INVARIANT ContractHonoured
INVARIANT RequestsWellFormed
INVARIANT RecoveryIsOneRound
INVARIANT NothingMissingBeforeLoss
