CONSTANTS
  Image <- MCImage
  MaxDataLen <- MCMaxDataLen
  CRC16 <- MCCrc
  MaxLost = 2
SPECIFICATION Spec
INVARIANTS ShowsOnlyTheImage OnlyImagePackets
PROPERTIES EventuallyDisplayed
