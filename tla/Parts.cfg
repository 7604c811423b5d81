SPECIFICATION PartsSpec
CONSTANTS
  Rollers = {r1, r2}
  MaxAnswers = 3
  Others = {roll}
  Modulus = 4
  Unit = 2
  Initial = 2
  MaxAlarms = 4
  Givers = {g1, g2}
  Tokens = {t1, t2, t3, t4}
  NoToken = NoToken
  Torn = Torn
  MAX_IOS_DEV = 3
  MsgRoom = 2
  Requesters = {q1, q2}
  RespSize = 3
  MaxBody = 3
  MaxPast = 1
  MaxLeaks = 2
  Amounts = {1, 3}
  Missing = Missing
  IntRange = 4
  MAX_ACC_HIS = 2
  MaxRecords = 3
  Block = 64
  LenBytes = 8
  MaxText = 200
  Alphabet <- GBLetters
  __twobyte_to_ucs <- TwoBytes
  MaxChars = 4
SYMMETRY RollerSymmetry
CHECK_DEADLOCK FALSE
INVARIANTS
  TypeOK SavedIsLive OpenedShowsStart PeakIsTheSessions TaskIsMine SavedIsOneWrite
  ReportIsExact HandlesAreOwn
  RegistryIsExact PushNamesTheLast
  BlocksAreTheMessage TextReadsBack LengthFits
  LibraryIsUp ReplyIsWhole 
PROPERTY
  StateSpec
