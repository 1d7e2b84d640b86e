SPECIFICATION Spec
CONSTANTS
    Toplevel = {t1}
    XWindow = {x1}
    NoSurface = NoSurface
    MaxClients = 3
    MaxReloads = 1
    LuaUnmanages = FALSE
INVARIANTS
    ListenersLive
CHECK_DEADLOCK FALSE
