SPECIFICATION ServicesSpec

CONSTANTS
  \* EventStream
  Pages = {u1, u2}
  Connections = {n1, n2}
  MaxEvents = 2
  \* McpClient
  ServerCount = 2
  MaxRequests = 5
  \* Jobs
  Commands = {j1, j2}
  \* LlmCall
  MaxAttempts = 3
  MaxChunks = 2
  \* Delegation
  Agents = {p1, p2}
  SubagentTurns = 2
  MaxQuestions = 3
  \* Conversation
  Skills = {k1}
  MicroAt = 5
  CompressAt = 6
  KeepRecent = 3
  KeepToolResults = 1
  BigSize = 3
  MaxCalls = 2
  MaxMessages = 7
  \* Overlay
  Plain = {f1, f2}
  Secret = {s}
  Texts = {t1, t2, big}
  Huge = {big}
  Gone = gone
  MaxFiles = 2
  MaxEdits = 1
  NewText = t2
  \* MicroVm
  Shells = {c1, c2, c3}
  NoVm = novm
  \* Chat
  Terminals = {cli}
  SessionNames = {main, fork}
  Default = main
  NoSession = nosession
  MaxRuns = 2
  MaxShelf = 8
  MaxResave = 3
  \* Network
  Boxed = {b1, b2}
  Links = {l1}

INVARIANTS
  NothingMissed
  OwnReply
  ClosedIsQuiet
  NothingLeftRunning
  AnswerIsOfOneRequest
  StopEndsRequests
  YesIsForTheShownQuestion
  SentIsWellFormed
  SkillOnce
  WorkspaceIsTheUsers
  RollbackIsExact
  NoVmIsLeft
  ChatGoesOn
  EgressIsControlled

PROPERTIES
  RetryGoesOn

CHECK_DEADLOCK FALSE
