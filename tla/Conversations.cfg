SPECIFICATION Spec
CONSTANTS
  a = a
  b = b
  c1 = c1
  Loops = {a, b}
  Channels = {c1}
  ChannelOf <- MCChannelOf
  Modes <- MCModes
  Answers <- MCAnswers
  MaxRounds = 2
  Views = {v1}
  MaxClicks = 2
  MaxSaves = 2
INVARIANTS TypeOK CallsAnswered ToolMessagesFollow WholeRound RunOnceInOrder ClearedNeverRuns
PROPERTIES KeepsConsent
