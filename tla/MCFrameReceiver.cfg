CONSTANTS
  Bytes <- MCBytes
  MaxDataLen <- MCMaxDataLen
  CRC16 <- CrcTable
SPECIFICATION FairSpec
INVARIANTS TypeOK DataInBounds FieldsReady
PROPERTIES ImplementsFrameStream AlwaysResyncs
