SPECIFICATION Spec
CONSTANTS
    c1 = c1
    c2 = c2
    w1 = w1
    w2 = w2
    Con = {c1, c2}
    Worker = {w1, w2}
    WorkerOf <- TwoWorkers
    App = {a1}
    Group = {"", "default"}
    Default = ""
    Calls <- OwnMoves
    MaxCloses = 1
SYMMETRY Symmetry
INVARIANTS
    NoStaleMember
PROPERTIES
    ImplementsMembership
    GroupStableWhileIterated
CHECK_DEADLOCK FALSE
