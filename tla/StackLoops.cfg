SPECIFICATION Spec
CONSTANTS
    NoClient = NoClient
    Toplevel = {}
    XWindow = {x1, x2}
    OverrideRedirect = {}
    MaxClients = 2
    Overlays = FALSE
INVARIANTS
    NoTransientLoops
CHECK_DEADLOCK FALSE
