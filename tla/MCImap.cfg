SPECIFICATION Spec
CONSTANTS
  Configs <- MCConfigs
  Certs <- MCCerts
  Chatty <- MCChatty
  a1 = a1
  a2 = a2
  NoToken = NoToken
  MaxClients = 2
  MaxCalls = 3
  MaxUpdates = 2
  MaxTimeouts = 1
INVARIANTS
  SecretsProtected
  NoStrayConnection
  OwnAnswer
  FetchFresh
  IdleOnce
  LiteralInvited
  CapsAfterLogin
CHECK_DEADLOCK FALSE
