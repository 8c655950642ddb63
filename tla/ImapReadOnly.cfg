SPECIFICATION imSpec
CONSTANTS
  inbox = inbox
  spare = spare
  r1 = r1
  deleted = deleted
  recent = recent
  INBOX = inbox
  Deliveries <- MCDeliveries
  NoName = none
  Flags = {seen, deleted, recent}
  Seen = seen
  Deleted = deleted
  Recent = recent
  Raws = {r1}
  SequenceSets <- MCSets
  Names = {inbox, a}
  ModSeqs = {3}
  FlagSets = {{}, {deleted}}
  SearchKeys = {"DELETED"}
  Exchanges = {}
  MaxUid = 6
  MaxChanges = 2
  MaxGen = 2
PROPERTIES
  ReadOnlyKept
