CONSTANTS
    Clients = {c1, c2, c3}
    Listener = Listener
    NoFd = NoFd
    Failed = Failed
    Requests = {"GET", "POST"}
    PollSize = 5
    Window = 1
SPECIFICATION Spec
SYMMETRY ClientSymmetry
\* a server that ended, or that waits for ever in send, stops
CHECK_DEADLOCK FALSE
INVARIANTS TypeOK SlotsExact NeverBlocks OverrunsWhenFull DiesOfClosedPeers
