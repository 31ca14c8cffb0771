SPECIFICATION Spec
CONSTANTS
    e1 = e1
    e2 = e2
    e3 = e3
    s1 = s1
    s2 = s2
    q = q
    o = o
    Experts <- MCExperts
    Slots <- MCSlots
    Matrices <- MCMatrices
    Setups <- MCSetups
    Topk = 2
    NoExpert = NoExpert
    Noise = Noise
    None = None
SYMMETRY Symmetric
INVARIANTS
    TypeOK
    WholeParts
    NoBlockLost
    DescriptorsBounded
    VramWithinBudget
    ReleasedIsResident
    AnswerWhole
PROPERTIES
    ResidentsKept
