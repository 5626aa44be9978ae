CONSTANTS
    n1 = n1
    n2 = n2
    t1 = t1
    t2 = t2
    None = None
    BadSum = BadSum
    Names <- MCNames
    Ids <- MCIds
    Types <- MCTwoTypes
    BadMd5 <- MCBadT1
SPECIFICATION Spec
INVARIANT InstallBinds
