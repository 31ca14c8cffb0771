SPECIFICATION Spec
CONSTANTS
    a = a
    b = b
    z = z
    Zero = Zero
    Tokens <- MCTokens
    Stops <- MCStops
    PlainStops <- MCStops
    Texts <- MCTexts
    NPrompt = 1
    MaxTokens = 5
    K = 2
    CtxLen = 8
    MaxPos = 4
    DraftModel = TRUE
    Prefetches = TRUE
INVARIANT
    AlwaysGreedy
