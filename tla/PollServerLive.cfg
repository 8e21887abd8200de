CONSTANTS
    Clients = {c1, c2}
    Listener = Listener
    NoFd = NoFd
    Failed = Failed
    Requests = {"GET"}
    PollSize = 4
    Window = 1
SPECIFICATION Spec
\* a server that ended, or that waits for ever in send, stops
CHECK_DEADLOCK FALSE
PROPERTIES RequestsServed SlotsReclaimed
