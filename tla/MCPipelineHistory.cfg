CONSTANTS
    c1 = c1
    c2 = c2
    Coordinators = {c1, c2}
    TurnsOf <- MCTurnsOf
    Runs = {c1}
    Vocab = {0, 1, 2}
    Stops = {0}
    FirstStop = 0
    L = 3
    Cuts <- MCCuts
    Owns = {1, 2}
    Cap = 5
    WorkerCap = 5
    Batch = 2
    Best <- MCBest
    Penalised <- MCPenalised
    Rep = TRUE
    MaxDrops = 0
    MaxCrashes = 0
    None = None
    Empty = Empty
    Garbage = Garbage
SPECIFICATION Spec
PROPERTIES
    ImplementsOneNode
