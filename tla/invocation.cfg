SPECIFICATION Spec
CONSTANTS
  Apps = {"twisted", "demo"}
  Methods <- MCMethods
  Arguments <- MCArguments
  Ids = {1, 9}
  MaxDepth = 75
  Stale = {2, 255}
CHECK_DEADLOCK FALSE
INVARIANTS ArgumentsArrive OnlyKnownAborts AnsweredAsInRpc RightAnswers
