CONSTANTS
  Streams = {s1}
  Suggestions = {s1}
  ClientActions = {"ACCEPTED"}
  MaxErrorsBeforeBreaking = 2
  MaxItems = 3
SPECIFICATION Spec
PROPERTIES DoneIsLast
CHECK_DEADLOCK FALSE
