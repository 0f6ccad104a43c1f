CONSTANTS
  Tracked <- MCTracked
  Posts   <- MCPosts
  Junk    <- MCJunk
  Max     <- MCMax
SPECIFICATION Spec
CHECK_DEADLOCK FALSE
INVARIANT TypeOK
INVARIANT ParsedAsMeant
INVARIANT NumberAsWritten
INVARIANT ReportedIsReadBack
