SPECIFICATION storeSpec
CONSTANTS
  inbox = inbox
  a = a
  b = b
  Names <- MCNames
  INBOX = inbox
  Drafts = a
  Flags = {recent}
  Recent = recent
  Raws = {r1}
  CallIds = {c1}
  MaxCalls = 2
  MaxEntries = 2
  MaxUid = 3
  MaxModSeq = 5
  MaxGen = 3
INVARIANTS
  StoreWellFormed
  DeltaExact
  ChangesSound
  AnswerTruthful
PROPERTIES
  ImplementsLives
