SPECIFICATION Spec
CONSTANTS
    r1 = r1
    r2 = r2
    r3 = r3
    r4 = r4
    r5 = r5
    Requests <- MCRequests2
    NoRequest = NoRequest
    Vocab <- MCVocab
    StopIds <- MCStopIds
    Cap = 4
    Likely <- MCLikely
    Empty = Empty
    Lost = Lost
    Links = {"up"}
    Asks <- MCOneAsk
    NoAsk = NoAsk
    Unparsed = {}
    Streaming = {}
CHECK_DEADLOCK FALSE
INVARIANTS
    PosValid
