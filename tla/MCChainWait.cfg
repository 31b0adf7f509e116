SPECIFICATION Spec
CONSTANTS
    Blocks = {0, 1, 2, 3, 4, 5, 6}
    Genesis = 0
    Parent <- MCParent
    Height <- MCHeight
    Branch <- MCBranch
    nChainWork <- MCWork
    BadContext = {}
    BadScripts = {5}
    Invalidatable = {1}
    Reconsiderable = {1}
    Preciousable = {}
    CarefulOperator = FALSE
    MaxRpcs = 2
    None = None
INVARIANT CheckBlockIndex
CHECK_DEADLOCK FALSE
