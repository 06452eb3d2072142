\* A ring of four elements, so that the indices wrap at every fill level; two
\* pool threads and the message thread at the first use; arrays of up to six.
SPECIFICATION PartSpec
CONSTANTS
    queueLen = 4
    Value = {0, 1, 2}
    Zero = 0
    MaxCnt = 6
    Elem = {0, 1, 2}
    p1 = p1
    p2 = p2
    m1 = m1
    m2 = m2
    m3 = m3
    NoMsg = NoMsg
    Consumer = Consumer
    Producer = {p1, p2}
    Msg = {m1, m2, m3}
INVARIANT
    Sorts
PROPERTIES
    ImplementsFifo
    SettledForGood
