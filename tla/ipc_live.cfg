CONSTANTS
    c1 = c1
    c2 = c2
    m1 = m1
    Clients = {c1, c2}
    Fds = {1, 2}
    gMaxConnectCount = 3
    Msgs = {m1}
    bad = bad
    Bads = {}
    MaxIn = 1
    MaxOut = 1
    HasOwn = FALSE
    Own = own
    NoClient = nobody
SPECIFICATION FairSpec
PROPERTIES HangUpNoticedWhenQuiet ForcedIsClosed
