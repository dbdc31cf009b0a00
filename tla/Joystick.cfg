SPECIFICATION Spec
CONSTANTS
  Wrap = 4
  MinPressed = 0
  LongPress = 1
  MaxPressed = 2
  Buttons = {0}
  Axes = {}
  Devices <- OneDevice
  Sections <- MCSections
  Default <- MCDefault
  MaxQueue = 2
CHECK_DEADLOCK FALSE
PROPERTIES
  PressesMeanWhatTheyLast
  NoPressNoEvent
