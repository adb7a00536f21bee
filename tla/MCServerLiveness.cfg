CONSTANTS
  c1 = c1
  c2 = c2
  c3 = c3
  NoValue = NoValue
  Conns <- TwoConns
  Payloads <- MCUtf8
  Utf8 <- MCUtf8
  GetNames <- MCGetNames
  SetNames <- MCSetNames
  Inputs <- OneInput
  MaxInputs = 2
  SendWindow = 1
  MaxConnections = 1
  MaxAcceptErrors = 1
SPECIFICATION FairSpec
PROPERTY ShutdownCompletes WaitingIsOver
