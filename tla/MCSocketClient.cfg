\* Two switches (UDP, TCP, UDP), or one and a message of the user; two pool threads.
SPECIFICATION Spec
CONSTANTS
    w1 = w1
    w2 = w2
    None = None
    Worker = {w1, w2}
    Fd = {3, 4}
    MaxSwitch = 2
    MaxData = 1
    MaxMsg = 0
    MaxActs = 2
SYMMETRY Symmetry
INVARIANTS
    OneLink
    FlagTruthful
\* the user may stop, and the client may be killed
CHECK_DEADLOCK FALSE
