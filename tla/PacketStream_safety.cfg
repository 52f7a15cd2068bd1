SPECIFICATION Spec
CONSTANTS
  DataBits = 3
  VarBits = 7
  HorizontalBits = 3
  VerticalBits = 2
  BytesOf <- MCBytesOf
  Layout <- MCLayout
  Packets <- MCPackets
  Decoders <- MCDecoders
  MaxPackets = 2
INVARIANTS
  TypeOK
  Aligned
  Delivered
  NeverThrows
  BytesAccounted
  NeverWaits
PROPERTIES
  ChannelSpec
CHECK_DEADLOCK FALSE
