SPECIFICATION Spec
CONSTANTS
    r1 = r1
    r2 = r2
    r3 = r3
    r4 = r4
    r5 = r5
    Requests <- MCRequests
    NoRequest = NoRequest
    Vocab <- MCVocab
    StopIds <- MCStopIds
    Cap = 4
    Likely <- MCLikely
    Empty = Empty
    Lost = Lost
    Links = {"none"}
    Asks <- MCAsks
    NoAsk = NoAsk
    Unparsed <- MCVocab
    Streaming = {}
SYMMETRY MCSymmetry
CHECK_DEADLOCK FALSE
INVARIANTS
    TypeOK
    QuietOwnAnswer
    PosValid
    QuietCommitted
    QuietPrompt
    QuietFailure
PROPERTIES
    QuietCompletion
