CONSTANTS
  Entry <- EntriesInQuestion
  MaxEntries = 3
  Frame <- FramesInQuestion
  Clock = {1, 2}
  RefundAfter = 2
  MaxFrames = 5
  Room = {deal, other}
  Declared = deal
  MaxSeq = 4
  MaxRecords = 3
  Request = {r1, r2}
  Import = {1}
  MaxImports = 1
  RateLimit = 3
  ImportTTL = 1
  PairingTTL = 2
  MaxNow = 1
  MaxBoots = 2
SPECIFICATION Spec
SYMMETRY Requests
INVARIANTS
  TranscriptIsJudged
  ReplayIsHistory
  PagesAreTrue
PROPERTY NothingGoesBack
CHECK_DEADLOCK FALSE
