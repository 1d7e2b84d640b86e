SPECIFICATION FairSpec
CONSTANTS
    Object = {o1, o2}
    NoObj = NoObj
    MaxPosts = 3
    MaxReloads = 2
    HandlerMoves = FALSE
INVARIANTS
    TypeOK
    RefsOwned
    AddedWaitForNextDrain
    NoStaleRefs
    OrderKept
PROPERTIES
    DeliverySpec
    EveryPostSettles
CHECK_DEADLOCK FALSE
