CONSTANTS
  c1 = c1
  c2 = c2
  c3 = c3
  NoValue = NoValue
  Conns <- ThreeConns
  Payloads <- MCUtf8
  Utf8 <- MCUtf8
  GetNames <- MCGetNames
  SetNames <- MCSetNames
  Inputs <- OneInput
  MaxInputs = 1
  SendWindow = 1
  MaxConnections = 2
  MaxAcceptErrors = 1
SPECIFICATION Spec
SYMMETRY MCSymmetry
INVARIANTS TypeOK HandlersHearShutdown SendersTrackTasks FinalReportQuiescent PermitsConserved
PROPERTY FinalReportStable ImplementsPool
