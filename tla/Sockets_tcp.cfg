SPECIFICATION Spec
CONSTANTS
  MaxConnections = 2
  MaxListeners = 1
  SegmentSize = 2
  BufferSize = 2
  SeqBits = 3
  r1 = r1
  r2 = r2
  Remotes <- MCRemotes
  NoRemote = NoRemote
  MaxSockets = 2
  Ports = {1}
  Isns <- MCIsns
  PeerIsn = 6
  Writes = {4}
  Reads = {1, 4}
  MaxSent = 3
  MaxWritten = 4
  InFlight = 2
  MaxEvents = 8
INVARIANTS TypeOK StreamsAreFaithful AcknowledgedIsKept PeerIsHeard  
CHECK_DEADLOCK FALSE
SYMMETRY Symmetry
