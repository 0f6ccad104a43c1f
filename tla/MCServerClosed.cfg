CONSTANTS
  Clients    = {c1}
  Channels   = {h1, h2, h3}
  MaxSockets = 1
  MaxListens = 1
SPECIFICATION Spec
PROPERTY ClosedServerEnds
CHECK_DEADLOCK FALSE
