SPECIFICATION FramesSpec
CONSTANTS
    Toplevel = {w1}
    Floats = {w1}
    Size = {1, 2, 3}
    MaxWire = 2
    ConfigureRetries = 1
INVARIANTS
    FloatsAreTold
CHECK_DEADLOCK FALSE
