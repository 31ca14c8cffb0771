SPECIFICATION Spec
CONSTANTS
    a = a
    b = b
    z = z
    Zero = Zero
    Tokens <- MCTokens
    Stops <- MCStops
    PlainStops <- MCPlainStops
    Texts <- MCTexts
    NPrompt = 1
    MaxTokens = 5
    K = 2
    CtxLen = 9
    MaxPos = 4
    DraftModel = TRUE
    Prefetches = TRUE
INVARIANTS
    TypeOK
    OutputIsGreedy
    RollsByOverwrite
PROPERTIES
    ImplementsGreedy
