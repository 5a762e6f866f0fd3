SPECIFICATION FairSpec
CONSTANTS
  NSinks = 2
  MaxLines = 3
  MaxConns = 1
INVARIANTS
  ExitComesLast
  ServedLinesArePromised
PROPERTIES
  SinksKeepTheirPromise
  ShutdownEnds
CHECK_DEADLOCK FALSE
