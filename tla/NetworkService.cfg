SPECIFICATION FairSpec
CONSTANTS
  MaxConnects = 2
  MaxSends = 2
  MaxMessages = 3
  ServerSendsImages = TRUE
\* The bounds run out, and disconnect may wait for ever once a UDP session exists.
CHECK_DEADLOCK FALSE
INVARIANTS
  TypeOK
  StatusIsCurrent
  NoSendBeforeHandshake
PROPERTY
  DisconnectReturns
