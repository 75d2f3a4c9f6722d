CONSTANTS
  Cap = 7
  Packet = 4
  Wrap = 5
  Info = 1
  Connect = 2
  Exec = 3
  Queue = 4
  Error = 255
  Clients = {"c1", "c2"}
  Nobody = "nobody"
  Packets <- MCPackets
  MaxSends = 3
SPECIFICATION Spec
INVARIANTS TypeOK PortIsMine Reply
PROPERTIES UsbSessionEnds TcpSessionEnds
