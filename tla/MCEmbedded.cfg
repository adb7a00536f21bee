CONSTANTS
  c1 = c1
  c2 = c2
  NoValue = NoValue
  Conns <- TwoConns
  Payloads <- MCUtf8
  Utf8 <- MCUtf8
  GetNames <- MCGetNames
  SetNames <- MCSetNames
  Inputs <- MCInputs
  MaxInputs = 2
  SendWindow = 1
  MaxConnections = 2
  MaxAcceptErrors = 1
SPECIFICATION FairSpec
CONSTRAINT FewInputs
INVARIANTS TypeOK CompletionIsFinal PermitsConserved
PROPERTY ImplementsPool ShutdownCompletes
CHECK_DEADLOCK FALSE
