SPECIFICATION HandshakeSpec
CONSTANTS
  MaxPad = 3
INVARIANTS
  EndsAgree
  NothingLeaks
PROPERTIES
  CompatibleConnect
CHECK_DEADLOCK FALSE
