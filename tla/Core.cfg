SPECIFICATION coreSpec
CHECK_DEADLOCK FALSE
CONSTANTS
  Records <- AllRecords
  Tokens <- AllTokens
  U32_MAX = 65535
  MAX_NESTING_DEPTH = 2
  Pieces <- MCPieces
  MaxLen = 6
  MaxLeaves = 7
  Issuers = {"i", "j"}
  MaxSeq = 2
  MaxTime = 3
  Ttl = 2
  Skew = 1
  MaxAccepted = 4
  Principals = {"root", "a", "b"}
  Root = "root"
  Terms <- MCTerms
  MaxTokens = 3
  MaxActive = 2
  MaxPerWindow = 1
  Window = 2
  Horizon = 3
  MaxHints = 3
  People = {"a", "m"}
  Honest = {"a"}
  Us = "r"
  MoteKinds = {1, 2}
  Bodies = {"x"}
  Tolerance = 0
  MaxHour = 1
  MaxPosted = 2
  MaxInbox = 2
  Senders = {"s"}
  Attachments <- MCAttachments
  U64_MAX = 7
  INLINE_TIER_MAX = 2
  ATTACHED_TIER_MAX = 5
  cap = 6
  Objects <- MCObjects
  declined = {"p"}
  max_object_size = {6}
  per_publisher_quota = {5}
  ChunkIds <- MCChunkIds
  MaxChunks = 3
  MaxPushes = 3
  MaxClock = 1
  PARTIES = 2
  Floor <- MCFloor
  Declared = {1, 7}
  KILO = 2
  MAX_COUNT = 7
  MAX_RATE = 11
  capacity <- MCCapacity
  Resources <- MCResources
  TRACKS_PER_CORE = 2
  MaxSections = 2
INVARIANTS
  Canonical
  SignatureCovers
  OneEncoding
  ProofsSound
  NoRollback
  NotLockedOut
  NoAmplification
  SubscriberDecides
  HintBound
  SentAsShown
  NotPoisoned
  StorageBounded
  RootNamesList
  CallWithinCapacity
  CeilingExact
PROPERTIES
  AppendOnlyView
