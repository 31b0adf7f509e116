SPECIFICATION Spec
CONSTANTS
    Blocks = {0, 1, 2, 3, 4, 5, 6}
    Genesis = 0
    Parent <- MCParent
    Height <- MCHeight
    Branch <- MCBranch
    nChainWork <- MCWork
    BadContext = {3}
    BadScripts = {5}
    Invalidatable = {1, 2}
    Reconsiderable = {1, 2, 5}
    Preciousable = {4, 5}
    CarefulOperator = FALSE
    MaxRpcs = 2
    None = None
INVARIANTS
    TipIsBest
CHECK_DEADLOCK FALSE
