\* Five edits, so that a text can be left, cleared and typed again.
SPECIFICATION Spec
CONSTANTS
  Texts <- MCTexts
  Blank = ""
  Trim <- MCTrim
  TooLong = {"long"}
  MaxEdits = 5
  MaxFailures = 1
INVARIANT ShowsTheQuery
CHECK_DEADLOCK FALSE
