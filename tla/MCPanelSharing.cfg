CONSTANTS
  ImageSize = 2
  WifiImage <- MCWifiImage
SPECIFICATION Spec
INVARIANTS SleepsAtRest
PROPERTIES WholePicture FiresOncePerPress PressShown WifiShown
