SPECIFICATION Spec
CONSTANTS
  MaxContent = 2
  MaxEdits = 1
  Based = FALSE
  EditInCapture = TRUE
CHECK_DEADLOCK FALSE
INVARIANTS CurrentTrue
