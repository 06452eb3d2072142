\* A switch and a message of the server, which may end links.
SPECIFICATION FairSpec
CONSTANTS
    w1 = w1
    w2 = w2
    None = None
    Worker = {w1}
    Fd = {3}
    MaxSwitch = 1
    MaxData = 0
    MaxMsg = 1
    MaxActs = 2
PROPERTIES
    SwitchReturns
    AckHeard
    EndedLinkClosed
CHECK_DEADLOCK FALSE
