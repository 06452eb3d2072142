\* Three connections for two descriptors, three messages, a line.
SPECIFICATION FairSpec
CONSTANTS
    c1 = c1
    c2 = c2
    c3 = c3
    m1 = m1
    m2 = m2
    m3 = m3
    Conn = {c1, c2, c3}
    Value = {m1, m2, m3}
    Via <- MCVia
    Dest <- MCDest
    Fd = {5, 6}
    MaxLine = 1
    MaxActs = 6
    Server = Server
    Listener = Listener
    Stdin = Stdin
    None = None
    Junk = Junk
INVARIANTS
    RegistryExact
    EventsBacked
    DeliveredInOrder
    StaysUp
PROPERTIES
    MessagesSettled
    FinishedReclaimed
\* clients may stop, and the server may fail
CHECK_DEADLOCK FALSE
