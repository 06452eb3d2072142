\* Three pool threads; alice with two connections and an address, bob with a
\* connection, two descriptors for the three connections, a message from bob to
\* alice and one from alice to the server, and a line to broadcast:
\* any five of these, in every order and with every merge of edges.
CONSTANTS
    w1 = w1
    w2 = w2
    w3 = w3
    alice = alice
    bob = bob
    c1 = c1
    c2 = c2
    c3 = c3
    u1 = u1
    m1 = m1
    m2 = m2
    srvid = srvid
    Worker = {w1, w2, w3}
    Client = {alice, bob}
    Server = srvid
    Conn = {c1, c2, c3}
    UdpAddr = {u1}
    Owner <- MCOwner
    Data = {m1, m2}
    Via <- MCVia
    Dest <- MCDest
    Fd = {5, 6}
    Lines <- OneLine
    MaxActs = 5
    Spaced = FALSE
    Listener = Listener
    UdpSock = UdpSock
    Stdin = Stdin
    None = None
SPECIFICATION Spec
SYMMETRY Symmetry
INVARIANTS
    NoBlockedWorker
    LiveConnServed
    RegistrationKept
    NoMisroute
CHECK_DEADLOCK FALSE
