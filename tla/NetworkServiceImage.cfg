SPECIFICATION FairSpec
CONSTANTS
  MaxConnects = 2
  MaxSends = 1
  MaxMessages = 2
  ServerSendsImages = TRUE
\* The bounds on the calls run out.
CHECK_DEADLOCK FALSE
PROPERTY
  DisconnectEndsImages
