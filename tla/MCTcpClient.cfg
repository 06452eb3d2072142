\* Two messages from the server; a line of the user, who leaves the dialogue once.
SPECIFICATION FairSpec
CONSTANTS
    bob = bob
    Other = {bob}
    Server = Server
    MaxNote = 2
    MaxLine = 1
    MaxQuit = 1
    Null = Null
    Junk = Junk
    Value <- Message
INVARIANTS
    ShownAsReceived
    LinesAsTyped
PROPERTIES
    ImplementsLinkFifo
    MessagesShown
\* a client that was refused loops, the user may stop
CHECK_DEADLOCK FALSE
