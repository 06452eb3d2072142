\* A client that moves, a message to it and one to the server, two pool threads.
SPECIFICATION FairSpec
CONSTANTS
    w1 = w1
    w2 = w2
    alice = alice
    a1 = a1
    a2 = a2
    m1 = m1
    m2 = m2
    None = None
    Server = Server
    Worker = {w1, w2}
    Client = {alice}
    Addr = {a1, a2}
    Data = {m1, m2}
    Owner <- MCOwner
    Dest <- MCDest
    Tries <- MCTries
INVARIANTS
    NoBlockedWorker
    KnownClientsServed
    CopiesExact
PROPERTIES
    MessagesSettled
\* the clients may stop, and the server may crash
CHECK_DEADLOCK FALSE
