\* Two tries, two lines to either end, a message from another client.
SPECIFICATION FairSpec
CONSTANTS
    w1 = w1
    w2 = w2
    l1 = l1
    l2 = l2
    n1 = n1
    server = server
    bob = bob
    None = None
    Worker = {w1, w2}
    Tries = 2
    Line = {l1, l2}
    Note = {n1}
    End = {server, bob}
INVARIANTS
    BuffersOwned
    LinesAsTyped
    MenuMeansRegistered
PROPERTIES
    AckInTimeOpens
\* the user may stop, and the error loop has no end
CHECK_DEADLOCK FALSE
