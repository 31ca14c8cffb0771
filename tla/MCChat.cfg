SPECIFICATION FairSpec
CONSTANTS
    Requests <- MCTurns
    NoRequest = NoRequest
    Vocab <- MCVocab
    StopIds <- MCStopIds
    Cap = 4
    Likely <- MCLikely
    Empty = Empty
    Lost = Lost
    Links = {"none"}
    Asks <- MCAsks
    NoAsk = NoAsk
    Unparsed <- MCVocab
    Prefills <- MCPrefills
INVARIANTS
    ChatCommitted
PROPERTIES
    ImplementsCompletion
    ChatEnds
