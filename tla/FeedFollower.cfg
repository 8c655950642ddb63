SPECIFICATION Spec
CONSTANTS
  pub = pub
  other = other
  unknown = unknown
  None = None
  Followers = {alice, bob}
  publisher <- MCpublisher
  Entries <- MCEntries
  entry_id <- MCentry_id
  Heads <- MCHeads
  Ranges <- MCRanges
  MaxSeq = 3
  MaxLen = 2
  Topics = {default}
INVARIANTS
  OneHistory
  ForksStayApart
  NoFalseAlarm
PROPERTIES
  NeverRewritten
