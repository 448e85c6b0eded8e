CONSTANTS
  SizeMod = 24
  RequestStreams <- RequestStreams_
  ResponseStreams <- ResponseStreams_
  HeadStreams <- HeadStreams_
  SessionSettings <- SessionSettings_
  ProxySettings <- ProxySettings_
SPECIFICATION Spec
INVARIANT TypeOK RequestsAsSent DeadlineFitsPhase ResponseAsSent RoomToRead
CHECK_DEADLOCK FALSE
