INIT IdleInit
NEXT IdleNext
CONSTANTS
    Name = {n1, n2}
    Inhibitor = {i1}
    Slots = 2
    NoName = NoName
    RemovesAny = TRUE
INVARIANTS
    TimersCallTheirOwn
CHECK_DEADLOCK FALSE
