\* alice registers over TCP and over UDP.
CONSTANTS
    w1 = w1
    w2 = w2
    w3 = w3
    alice = alice
    bob = bob
    c1 = c1
    c2 = c2
    c3 = c3
    u1 = u1
    m1 = m1
    m2 = m2
    srvid = srvid
    Worker = {w1, w2}
    Client = {alice, bob}
    Server = srvid
    Conn = {c1}
    UdpAddr = {u1}
    Owner <- MCOwner
    Data = {}
    Via <- MCVia
    Dest <- MCDest
    Fd = {5, 6}
    Lines <- NoLines
    MaxActs = 7
    Spaced = FALSE
    Listener = Listener
    UdpSock = UdpSock
    Stdin = Stdin
    None = None
SPECIFICATION FairSpec
PROPERTY RegistrationTakesEffect
CHECK_DEADLOCK FALSE
