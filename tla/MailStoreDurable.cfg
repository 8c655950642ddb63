SPECIFICATION storeSpec
CONSTANTS
  inbox = inbox
  a = a
  b = b
  Names <- MCNames
  INBOX = inbox
  Drafts = a
  Flags = {recent}
  Recent = recent
  Raws = {r1}
  CallIds = {c1}
  MaxCalls = 1
  MaxEntries = 1
  MaxUid = 2
  MaxModSeq = 5
  MaxGen = 3
INVARIANTS
  DeltaDurable
