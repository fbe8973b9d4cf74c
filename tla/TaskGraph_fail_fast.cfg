SPECIFICATION Spec
CONSTANTS
  MaxNodes = 2
  MaxEdges = 2
  Caps = {0}
PROPERTIES
  FailFastStops
