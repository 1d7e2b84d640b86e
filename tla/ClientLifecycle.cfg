SPECIFICATION Spec
CONSTANTS
    Toplevel = {t1}
    XWindow = {x1, x2}
    NoSurface = NoSurface
    MaxClients = 4
    MaxReloads = 2
    LuaUnmanages = TRUE
INVARIANTS
    SoundListenersLive
    RefsBalanced
    ClientsAgree
    AnnouncedIsShown
    WaitingIsHeard
CHECK_DEADLOCK FALSE
