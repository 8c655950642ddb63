SPECIFICATION serversSpec
CHECK_DEADLOCK FALSE
CONSTANTS
  Flags = {recent}
  Recent = recent
  Raws = {r1, r2}
  MaxUid = 4
  MaxModSeq = 9
  dot = dot
  x = x
  quitWord = quitWord
  max_size = 6
  Lines <- BodyLines
  Dot = dot
  Quit = quitWord
  Recipients = {r1}
  None = none
  MaxTxn = 2
  MaxRcpt = 2
  MaxLines = 4
  Commands <- MCCommands
  MAX_LITERAL = 2
  MAX_LINE = 11
  MaxCommands = 2
  Letters <- MCLetters
  PatternChars = {"a", "*", "%", "/"}
  NameChars = {"a", "/"}
  DayLength = 2
  MaxLetters = 3
  MaxChars = 3
  MaxNumber = 6
INVARIANTS
  MaildropFixed
  OneTransaction
  BodyExact
  FramesAsSent
  AnswersExact
PROPERTIES
  ExactlyAsked
  SizeVerdict
  EveryCommandServed
