SPECIFICATION FairSpec
CONSTANTS
  MaxData = 3
  MaxWrites = 2
INVARIANTS
  TypeOK
  RefsAreHolders
  OpenIsWatched
  TxPendingIsWrites
PROPERTIES
  EveryChannelEnds
