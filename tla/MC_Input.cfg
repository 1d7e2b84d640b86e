SPECIFICATION Spec
CONSTANTS
    c1 = c1
    c2 = c2
    d1 = d1
    d2 = d2
    b1 = b1
    b2 = b2
    n1 = n1
    n2 = n2
    n3 = n3
    i1 = i1
    i2 = i2
    Client = {c1, c2}
    Drawin = {d1, d2}
    LockSurface = d1
    Pane = {p1}
    None = None
    Button = {b1, b2}
    MapsUnderPress = FALSE
    Step = 4
    Way = 14
    Gesture = {"swipe", "pinch"}
    Name = {n1, n2, n3}
    Inhibitor = {i1, i2}
    Slots = 3
    NoName = NoName
    RemovesAny = TRUE
SYMMETRY Symmetry
INVARIANTS
    InputTypes
    HoverSound
    StreamsAddUp
    IdleSound
PROPERTIES
    PointerSteps
CHECK_DEADLOCK FALSE
