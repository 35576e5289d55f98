SPECIFICATION FairSpec
CONSTANTS
  ReplyBufSize = 3
  MaxCommands = 4
INVARIANTS
  NoReplyWithheld
  ExecutedIsAnswered
PROPERTIES
  SilentAfterFailure
  CommandIsAnswered
CHECK_DEADLOCK FALSE
