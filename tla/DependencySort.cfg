SPECIFICATION FairSpec
CONSTANTS
    a = a
    b = b
    n = n
    x = x
    Ids = {a, b, n, x}
    Vertices = {a, b, n}
    Implicits <- MCImplicits
INVARIANTS
    TypeOK
    LayersRespectEdges
    NothingLost
    AgreesWithSortLayers
PROPERTIES
    SortEnds
CHECK_DEADLOCK FALSE
