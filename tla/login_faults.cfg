SPECIFICATION Spec
CONSTANTS
  s1 = s1
  s2 = s2
  c1 = c1
  c2 = c2
  c3 = c3
  a1 = a1
  a2 = a2
  Servers = {s1}
  Clients = {c1, c2, c3}
  Accounts = {a1, a2}
  Privileged = {a2}
  NoServer = NoServer
  Faults = {"crash","dmcrash","downtime"}
  Impatient = FALSE
  MaxLogin = 2
  MaxConn = 2
  NoAcct = NoAcct
  NoClient = NoClient
  Off = Off
SYMMETRY SymmetryClients
CHECK_DEADLOCK FALSE
INVARIANTS IInv SessionHasLock QueueDiscipline ContextHasPlayer TreeIsSessions
PROPERTY ImplementsAccountUse
