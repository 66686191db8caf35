CONSTANTS
    Aircraft = {1, 2, 3, 4, 5}
    Craft <- Fleet
    Threads = {0, 1}
    Interval = 4
    MinGap = 2
    Slack = 1
    Late = 1
    Movers = {1, 4}
    Queries <- Requests
SPECIFICATION Spec
INVARIANTS
    FreshRequestsReadStableBuffer
    RepliesComplete
