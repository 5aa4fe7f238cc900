CONSTANTS
    c1 = c1
    c2 = c2
    m1 = m1
    Clients = {c1, c2}
    Fds = {1, 2, 4}
    gMaxConnectCount = 3
    Msgs = {m1}
    bad = bad
    Bads = {bad}
    MaxIn = 1
    MaxOut = 1
    HasOwn = TRUE
    Own = own
    NoClient = nobody
SPECIFICATION Spec
SYMMETRY Symmetry
INVARIANTS ClientsListed HandlesExact
PROPERTIES HungUpHasCause ImplementsClientSessions
