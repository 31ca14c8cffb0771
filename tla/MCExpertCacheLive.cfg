SPECIFICATION FairSpec
CONSTANTS
    e1 = e1
    e2 = e2
    e3 = e3
    s1 = s1
    s2 = s2
    Experts <- MCExperts3
    NLayers = 1
    Slots <- MCSlots2
    Topk = 1
    Switches <- MCThreads
    NoExpert = NoExpert
    NoSlot = NoSlot
    Dropped = Dropped
PROPERTIES
    ForwardEnds
    ShutdownEnds
    JobsEnd
