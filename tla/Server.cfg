CONSTANTS
  Clients    = {c1, c2, c3}
  Channels   = {h1, h2, h3, h4, h5, h6}
  MaxSockets = 1
  MaxListens = 2
SPECIFICATION Spec
INVARIANT TypeOK
INVARIANT RefsAreHolders
PROPERTY EveryClientServed
CHECK_DEADLOCK FALSE
