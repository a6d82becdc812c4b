SPECIFICATION FairSpec
CONSTANTS
  Clients = {1, 2, 3}
  EchoCount = 2
  Sessions = {s1, s2}
  NoSession = NoSession
  Limits = {1, 2}
  Scripts <- MCScripts
  MaxConnects = 2
  MaxRestarts = 1
INVARIANTS
  ConnectionListIsCurrent
  AuthorOrder
  BotGoesHome
PROPERTIES
  BotComesBack
  ChatReachesRegistered
CHECK_DEADLOCK FALSE
