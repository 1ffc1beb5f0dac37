SPECIFICATION Spec
CONSTANTS
  c1 = c1
  c2 = c2
  Calls = {c1, c2}
  Settings <- MCSettings
  TaskIds = {1, 2, 3, 4, 5}
  ExportIds = {1, 2}
  MaxTries = 2
INVARIANTS ReturnedIsRecorded AnswersAreUnderstood CreationsAreAnswered
PROPERTIES Implements CallsEnd
CHECK_DEADLOCK FALSE
