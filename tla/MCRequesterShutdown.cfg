CONSTANTS
  u1 = u1
  u2 = u2
  c1 = c1
  c2 = c2
  c3 = c3
  NoValue = NoValue
  NoConn = NoConn
  Unanswered = Unanswered
  Pending = Pending
  Failed = Failed
  Users <- TwoUsers
  Conns <- TwoConns
  Payloads <- MCPayloads
  Utf8 <- MCUtf8
  GetNames <- MCGetNames
  SetNames <- MCSetNames
  Inputs <- MCInputs
  Calls <- MixedCalls
  Huge <- MCHuge
  MaxCalls = 1
  MaxInputs = 1
  SendWindow = 1
  MaxConnections = 1
  MaxAcceptErrors = 0
SPECIFICATION CallSpec
SYMMETRY MCSymmetry
INVARIANTS CallTypeOK ReportCountsCalls
