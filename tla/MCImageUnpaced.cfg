CONSTANTS
  Image <- MCImage
  MaxDataLen <- MCMaxDataLen
  CRC16 <- MCCrc
  MaxLost = 0
SPECIFICATION Spec
INVARIANT ImageDisplayed
