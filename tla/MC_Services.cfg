SPECIFICATION Spec
CONSTANTS
    Instance = {s1, s2, s3}
    NoFile = NoFile
    Retries = 2
    Overlap = FALSE
    Conn = {k1, k2, k3, k4}
    NoConn = NoConn
    MaxClients = 2
    MaxLines = 2
    Pid = {1, 2}
    Token = {t1, t2}
    MaxSpawns = 3
    MaxWipes = 1
    Acquire = {a1, a2, a3}
    Watcher = {w1}
    Getter = {g1, g2}
    NoOwner = NoOwner
    Foreign = Foreign
    Reacquires = FALSE
    MaxReloads = 1
    MaxStates = 4
    Candidates = 2
    Drawin = {d1, d2}
    Styled = {d1}
    Output = {1, 2}
    MaxPlugs = 2
    Wild = {}
    Owner = {o1, o2}
    Fading = {o1}
    MaxHandles = 2
    Payload = {1, 2, 3, 4}
    MaxRetired = 1
    Extent = {0, 4, 7}
    Bar = {0, 2}
    Hint <- MCHint
    Ratio <- MCRatio
    Clamps = FALSE
    Box = {1, 2}
    Asks = {}
    m1 = m1
    m2 = m2
    paint = paint
    e1 = e1
    Monitor = {m1, m2}
    Element <- MCElement
    Backdrop = {paint}
    Surface = {c1}
    NoMonitor = NoMonitor
    Returns = FALSE
    X = {0, 1}
    W = {2, 3}
    Look = {p, q}
    Path = {0, 1}
    NoPath = NoPath
    Scale = {2, 3}
    Shadow = {h1, h2}
    Style = {y1, y2}
    NoRaster = NoRaster
    RootBox <- MCRootBox
    Boxes <- MCBoxes
    Floats = {{}, {2}, {4}, {3, 4}}
    RootStyles = {"plain", "round", "path"}
    HostStyles = {"plain", "round", "clip", "path", "pathclip"}
    LeafStyles = {"plain", "round"}
    Hole = {3}
    RoundedClips = 2
    Overflows = FALSE
    touchpad = touchpad
    stylus = stylus
    mouse = mouse
    InputDevice = {touchpad, stylus, mouse}
    KindOf <- MCKindOf
    Rules <- MCRules
    RuleLists <- MCRuleLists
    Display = {1, 2}
    Width = 4
    Unset = Unset
    u1 = u1
    u2 = u2
    Window = {u1, u2}
    Aware = {u1}
    Origin <- MCOrigin
    Length = 2
    Rim = 0
    Finger = {1, 2}
    NoWindow = NoWindow
    t1 = t1
    t2 = t2
    p1 = p1
    p2 = p2
    f1 = f1
    f2 = f2
    Tablet = {t1, t2}
    Pad = {p1, p2}
    Pen = {k1}
    Group <- MCGroup
    Face = {f1, f2}
    Takes = {f1}
    Spot <- MCSpot
    Nought = Nought
    Port = {1, 2}
    Handler = {h3}
    MaxMade = 4
    Hasty = FALSE
    Meddles = FALSE
    x1 = x1
    Thing = {x1, K, G}
    Class = K
    Note = G
    Slot = {l1, l2}
    MaxSlots <- MCSlots
    MaxDepth = 2
    MaxNested = 1
    NoFunc = NoFunc
    rc = rc
    ma = ma
    mb = mb
    mc = mc
    ConfigFile = {rc, ma, mb, mc}
    Rc = rc
    Nowhere = Nowhere
    Library = Library
    Requires <- MCRequires
    Matches <- MCMatches
    Broken = {mc}
    Skipped = {}
    MaxChain = 3
    MaxFiles = 4
    MaxIssues = 6
    v1 = v1
    v2 = v2
    Interface = {i1, i2}
    Func = {l1, l2}
    Body <- MCBody
    Result <- MCResult
    Nil = Nil
    MaxDeep = 4
    Cmd = {c1, c2}
    Proc = {q1, q2, q3}
    MaxGiven = 3
    Beside = FALSE
    NoProc = NoProc
    Client = {n1, n2}
    Tag = {1, 2}
    Volatile = {1}
    Panel = {n1, n2}
    LayerOutput = {1, 2}
    MaxObjects = 4
    NoPanel = NoPanel
    Item = {i1, i2}
    TrayName = {n1}
    NoName = NoName
    Size = {s1}
    Hurried = FALSE
    OwnNames = {g1}
    Starved = FALSE
    MaxFetches = 2
    MaxTrayReloads = 1
INVARIANTS
    ServiceTypes
    
    ConfigSound
    
    ReloadIsClean
    TagsSound
    PassesSound
    
CHECK_DEADLOCK FALSE
