\* a ring of four buffers, so that half of it is two; full and oversized blocks, files of up to five buffers
CONSTANTS
    Sources = {"rtlsdr", "hackrf", "ifile"}
    N = 4
    Full = 2
    Trailing = 1
    BlockLengths = {2, 3}
    MaxBlocks = 5
    WatchdogStart = 3
    WatchdogReset = 2
SPECIFICATION FairSpec
\* both threads end when the program exits
CHECK_DEADLOCK FALSE
INVARIANTS
    SeparateBuffers
    SamplesCounted
    StreamExact
PROPERTIES
    RingServed
