CONSTANTS
  Lines <- MCLines
  Drafts <- MCDrafts
  Channels = {"slack"}
  MaxCalls = 2
  MaxEdits = 1
SPECIFICATION Spec
INVARIANT PresetsBreachOnTheirLines
CHECK_DEADLOCK FALSE
