SPECIFICATION Spec
CONSTANTS
  Ips = {"a", "b"}
  Streams = {0, 1}
  Extended <- MCExtended
  Packets <- MCPackets
  NoStream = NoStream
  NoUrl = NoUrl
  Threads = 2
  MaxPackets = 3
  MaxLogouts = 1
  MAX_HISTORY = 1
  MAX_STATUS_HISTORY = 1
  MAX_SERVER_HISTORY = 1
  MAX_EVENTS_PER_CAMERA = 1
  kMaxAlarms = 1
INVARIANTS TypeOK RowsHaveUrl ReadingsKept DeviceModelShowsStore LonePacketIsShown
