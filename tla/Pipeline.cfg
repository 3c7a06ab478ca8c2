CONSTANTS
  Streams = {1, 2}
  Setups <- Responses
  Body = 8
  Sizes = {4}
  PacketSize = 3
  Max = 3
  Low = 2
  Allow = 2
  ChunkSize = 3
  SockMax = 3
  InitNet = 3
  InitWindow = 3
  Settings = {1, 3}
  SettingsMax = 1
  None = None
SPECIFICATION FairSpec
INVARIANTS
  CountExact
  WindowExact
  BufferBound
PROPERTIES
  NeverOverdrawn
  BytesSpec
  AllSent
