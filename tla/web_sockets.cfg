SPECIFICATION FairSpec
CONSTANTS
  Fds = {f1, f2}
  Buffers = {b1}
  MaxClients = 1
  MaxQueue = 2
  MaxPending = 1
  NoFd = nofd
  NoBuffer = nobuffer
INVARIANTS EveryBufferHasOneOwner OpenSocketIsWatched TypeOK
PROPERTIES BuffersReturn
