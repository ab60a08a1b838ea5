SPECIFICATION Spec
CONSTANTS
  Pages = 2
  Rows = 3
  Low = 10
  High = 24
  Narrow = 2
  Wide = 4
  Digits = 2
  Weight <- MCWeight
  Stick <- MCStick
  StickBytes = 4
  Word = 2
  Byte = 8
  JumpLog = 1
  LogStart = 12
  BackPages = 1
  searchResultMax = 3
  Leap = 2
  MaxNo = 4
  Found <- MCFound
  Garbage <- MCGarbage
  Together <- MCTogether
  Onward = FALSE
INVARIANTS TypeOK PagesFit DecoderOnPage ReturnsInOrder MarksOrdered DigitMovesCursor
CHECK_DEADLOCK FALSE
