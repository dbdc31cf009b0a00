SPECIFICATION Spec
CONSTANTS
  Wrap = 1
  MinPressed = 0
  LongPress = 0
  MaxPressed = 0
  Buttons = {}
  Axes = {1}
  Devices <- MCDevices
  Sections <- MCSections
  Default <- MCDefault
  MaxQueue = 1
CHECK_DEADLOCK FALSE
INVARIANTS
  HandlerSeesItsEvent
  MapIsOfDevice
PROPERTIES
  DiesOnlyOfUnmapped
  ReplugEnds
