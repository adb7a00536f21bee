CONSTANTS
  c1 = c1
  c2 = c2
  NoValue = NoValue
  Conns <- MCConns
  Payloads <- MCPayloads
  Utf8 <- MCUtf8
  GetNames <- MCGetNames
  SetNames <- MCSetNames
  Inputs <- MCInputs
  MaxInputs = 2
  SendWindow = 1
SPECIFICATION TasksSpec
CONSTRAINT FewInputs
SYMMETRY MCSymmetry
INVARIANTS HandlerTypeOK ActiveGauge MetricsMatchTraffic
PROPERTY ImplementsService
CHECK_DEADLOCK FALSE
