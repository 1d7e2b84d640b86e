SPECIFICATION Spec
CONSTANTS
    Monitor = {1, 2}
    Window = {v1}
    Fakes = TRUE
    MaxScreens = 3
    Toplevel = {w1, w2}
    Floats = {w2}
    Size = {1, 2}
    MaxWire = 1
    ConfigureRetries = 1
INVARIANTS
    DisplayTypes
    ScreensSound
    
CHECK_DEADLOCK FALSE
