SPECIFICATION imSpec
CONSTANTS
  inbox = inbox
  spare = spare
  r1 = r1
  deleted = deleted
  recent = recent
  INBOX = inbox
  Deliveries <- MCDeliveries
  NoName = none
  Flags = {seen, deleted, recent}
  Seen = seen
  Deleted = deleted
  Recent = recent
  Raws = {r1}
  SequenceSets <- MCSets
  Names = {inbox, a, spare}
  ModSeqs = {3}
  FlagSets = {{deleted}}
  SearchKeys = {"ALL", "DELETED", "SAVED"}
  Exchanges = {"Idle", "Plain", "LoginUser", "LoginPass"}
  MaxUid = 5
  MaxChanges = 2
  MaxGen = 3
INVARIANTS
  SeqAligned
  SelectedLife
PROPERTIES
  NothingLost
