SPECIFICATION Spec
CONSTANTS
    e1 = e1
    e2 = e2
    e3 = e3
    s1 = s1
    s2 = s2
    Experts <- MCExperts3
    NLayers = 2
    Slots <- MCSlots2
    Topk = 1
    Switches <- MCSwitches
    NoExpert = NoExpert
    NoSlot = NoSlot
    Dropped = Dropped
SYMMETRY Symmetric
INVARIANTS
    TypeOK
    BatchIntact
    OwnWeights
    SingleWriter
    LoadingIsOwed
    NoDuplicate
    AlwaysAVictim
PROPERTIES
    NoEvictionUnderRead
    ImplementsMoELayer
