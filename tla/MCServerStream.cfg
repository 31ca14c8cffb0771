SPECIFICATION Spec
CONSTANTS
    r1 = r1
    r2 = r2
    r3 = r3
    r4 = r4
    r5 = r5
    Requests <- MCRequests5
    NoRequest = NoRequest
    Vocab <- MCVocab
    StopIds <- MCStopIds
    Cap = 4
    Likely <- MCLikelyOne
    Empty = Empty
    Lost = Lost
    Links = {"none"}
    Asks <- MCOneAsk
    NoAsk = NoAsk
    Unparsed = {}
    Streaming = {r1}
CHECK_DEADLOCK FALSE
INVARIANTS
    OwnAnswer
