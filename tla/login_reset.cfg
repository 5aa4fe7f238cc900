SPECIFICATION Spec
CONSTANTS
  s1 = s1
  s2 = s2
  c1 = c1
  c2 = c2
  c3 = c3
  a1 = a1
  a2 = a2
  Servers = {s1}
  Clients = {c1, c2}
  Accounts = {a1}
  Privileged = {}
  NoServer = NoServer
  Faults = {"reset"}
  Impatient = FALSE
  MaxLogin = 2
  MaxConn = 2
  NoAcct = NoAcct
  NoClient = NoClient
  Off = Off

CHECK_DEADLOCK FALSE
INVARIANT OneSession
