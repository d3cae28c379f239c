SPECIFICATION RoundTripSpec
CONSTANTS
  a = a
  b = b
  Blank = Blank
  Null = Null
  Sources <- MCSources
  EditedTexts <- MCEditedTexts
  Limits = {0, 1, 3}
  ContextLimit = 1
  MaxParagraphs = 2
  MaxSentences = 2
  MaxEdits = 2
INVARIANTS
  AcceptedInv
  ReadsInv
PROPERTIES
  RechunkKeepsCoveredText
CHECK_DEADLOCK FALSE
