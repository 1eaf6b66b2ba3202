CONSTANTS
  KbReloadDelay = 4
  Codes = {30, 158}
  PortBValues = {0, 64, 128, 192}
  Strokes = {1, 3}
  Switches = 48
  MaxQueue = 3
SPECIFICATION Spec
PROPERTIES
  NoCodeWhileDisabled
