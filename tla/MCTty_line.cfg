SPECIFICATION LiveSpec
CONSTANTS
  QBUFSIZ = 3
  Keys <- Typed
  Cnt <- Lengths
  Texts <- Out
 
PROPERTIES   LineRead
CHECK_DEADLOCK FALSE
