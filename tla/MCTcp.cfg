SPECIFICATION Spec
CONSTANTS
  Client = client
  Server = server
  Ports = {1, 2}
  ServerPort = 80
  NConns <- MCNConns
  RecvBuf = 1
  AcceptBacklog = 1
  MaxSockets = 2
  MaxChunk = 2
  SeqSpace = 16
  FirstIsn <- MCFirstIsn
  Cookie <- MCCookie
  KeepaliveIdle = 1
  KeepaliveInterval = 1
  KeepaliveProbeMax = 1
  TimeWaitTicks = 1
  MaxSent <- MCMaxSent
  MaxFlight = 2
  MaxTicks = 2
  MaxLoss = 1
INVARIANTS
  TypeOK
  StreamIntact
  
  AcksAgree
