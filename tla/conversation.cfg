CONSTANTS
  Messages <- MCMessages
  Styles <- MCStyles
  Objects <- MCObjects
  Results <- MCResults
  FixedSize = 2
  MaxContext = 8
  MaxTools = 1
  MaxTurns = 4
  StreamedTurns = 2
  MaxAttempts = 2
SPECIFICATION TalkSpec
CHECK_DEADLOCK FALSE
INVARIANTS
  CallsAnswered
  TurnEchoed
  TraceRetells
PROPERTIES
  KeepsItsPromise
  TranscriptGrows
