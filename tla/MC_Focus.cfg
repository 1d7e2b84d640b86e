SPECIFICATION Spec
CONSTANTS
    t1 = t1
    x1 = x1
    o1 = o1
    l1 = l1
    Toplevel = {t1}
    XWindow = {x1}
    Override = {o1}
    LayerOrder <- OneLayer
    None = None
    LuaFocusesAny = TRUE
INVARIANTS
    TypeOK
    FocusIsListed
    ExclusiveIsMapped
PROPERTIES
    OnlyOverlaysDisturb
