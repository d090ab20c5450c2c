SPECIFICATION Spec
CONSTANTS
  Tokens <- MCTokens
  MaxTokens = 5
  MaxChar = 65535
  Mails <- MCMails
  NoName = NoName
  Messages <- MCMessages
  Characters <- MCCharacters
  Missing <- MCMissing
  Damaged <- MCDamaged
INVARIANTS
  RtfConverted
  EmlConverted
  MsgFresh
  MsgConverted
CHECK_DEADLOCK FALSE
