SPECIFICATION Spec
CONSTANTS
  SegMax = 4
  BlockLen = 5
  LengthLen = 2
  CountMax = 3
  Domain <- MCDomain
  Hardware <- MCHardware
  Pins <- MCPins
  Ifaces <- MCIfaces
  MaxChanges = 1
  Foreign = Foreign
INVARIANTS
  HashesItsSegments
  UnitsApart
PROPERTIES
  SteadyIdentity
  CallAnswers
  AllowsIsTruthful
  ComesBack
