SPECIFICATION Spec
CONSTANTS
    NoClient = NoClient
    Toplevel = {t1, t2, t3}
    XWindow = {x1, x2, x3}
    OverrideRedirect = {x3}
    MaxClients = 4
    Overlays = FALSE
SYMMETRY Symmetry
INVARIANTS
    StackSound
    TransientsSitOnTheirParents
CHECK_DEADLOCK FALSE
