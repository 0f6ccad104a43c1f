SPECIFICATION Spec
CONSTANTS
  MaxData = 3
  MaxWrites = 2
INVARIANTS
  DataAsReceived
