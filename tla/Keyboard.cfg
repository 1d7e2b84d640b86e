SPECIFICATION KeyboardSpec
CONSTANTS
    Client = {c1, c2}
    Drawin = {d1, d2}
    Output = {m1, m2}
    MaxCovers = 2
    None = None
    FocusesLocked = FALSE
    Key = {k1, k2}
SYMMETRY Symmetry
INVARIANTS
    TypeOK
    LockPointersSound
    OneLockAtATime
    KeysSound
PROPERTIES
    UnlockIsProved
    KeyboardComesBack
