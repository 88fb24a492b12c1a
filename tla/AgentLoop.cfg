\* Two conversations at once, then two more, on two servers; a cache of two.
CONSTANTS
  Servers = {s1, s2}
  NoServer = none
  BatchSize = 2
  NumBatches = 2
  CacheSize = 2
  PromptLength = 2
  ResponseLength = 3
  MaxPrompt = 3
  MaxObservation = 2
  MaxFound = 3
  MaxParallelCalls = 2
  AssistantTurnCaps = {0, 1}
  UserTurnCaps = {0}
  InteractionModes = {TRUE, FALSE}
  LogProbModes = {TRUE}
SPECIFICATION Spec
INVARIANTS
  TypeOK
  OutputsAligned
  RoomLeft
  Released
PROPERTIES
  Sticky
  Ends
