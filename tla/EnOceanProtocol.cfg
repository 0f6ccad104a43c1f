CONSTANTS
  Requests = {idBase, other}
  MaxLine = 2
SPECIFICATION Spec
CHECK_DEADLOCK FALSE
INVARIANT TypeOK
INVARIANT HeadIsGuarded
INVARIANT AnswersAreOwn
PROPERTY ImplementsQueue
PROPERTY EveryRequestEnds
