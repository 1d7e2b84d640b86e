---------------------------- MODULE MC_Services ----------------------------
(* Instances for TLC of the modules that share no state with the others:    *)
(* what the compositor offers beside windows, what Lua draws and configures,*)
(* input devices, one window's sizes and states, and the scene.  Each       *)
(* behaviour plays one of them.  The properties here are about several of   *)
(* them; the variables of the others are as they began, so a property of    *)
(* one module (ReloadIsClean, TagsSound, PassesSound, StatesSound) is       *)
(* checked as it is.                                                        *)
EXTENDS Ipc, Spawn, Selections, Reload, Drawins, Passes,
        Geometry, WindowStates, Reconcile, Rasters, Hits, DeviceSettings,
        Touch, Tablets, Outputs, Signals, Prescan, Dbus, TestInstances,
        Tags, LayerSurfaces, Systray, TLC

VARIABLE part   \* the module this behaviour plays

CONSTANTS m1, m2, paint, e1, touchpad, stylus, mouse, u1, u2, t1, t2, p1, p2, f1, f2,
          x1, rc, ma, mb, mc, v1, v2

MCHint ==
    [base : {<<0, 0>>, <<2, 1>>}, min : {<<0, 0>>, <<3, 2>>},
     max : {<<0, 0>>, <<5, 5>>, <<3, 2>>}, inc : {<<0, 0>>, <<3, 2>>},
     aspect : {<<None, None>>, <<<<1, 2>>, <<1, 1>>>>}]
MCRatio == {<<3, 2>>}

MCRootBox == <<0, 5>>
MCBoxes ==
    {<<<<0, 3>>, <<1, 3>>, <<1, 5>>>>, <<<<1, 5>>, <<0, 4>>, <<2, 5>>>>}

MCElement == (m1 :> {paint, e1}) @@ (m2 :> {paint})

MCKindOf == (touchpad :> "touchpad") @@ (stylus :> "tablet") @@ (mouse :> "pointer")
Rule == [type |-> "any", name |-> "any", tap |-> NotSet, dwtp |-> NotSet, click |-> Unset,
         mode |-> Unset, to |-> <<>>, from |-> <<>>, region |-> <<>>, bad |-> "no"]
All    == [Rule EXCEPT !.tap = 1]
Pads   == [Rule EXCEPT !.type = "touchpad", !.tap = 0, !.click = "finger"]
Stylus == [Rule EXCEPT !.name = stylus, !.dwtp = 1, !.to = <<9, 1>>, !.from = <<1, 2>>]
Tools  == [Rule EXCEPT !.type = "tablet-tool", !.to = <<2, Everywhere>>]
Pens   == [Rule EXCEPT !.type = "tablet-tool-pen", !.region = <<3, 1>>, !.from = <<1, 0>>]
Refused == [Rule EXCEPT !.tap = 1, !.to = <<1>>, !.bad = "from"]
MCRules == {All, Pads, Stylus, Tools, Pens, Refused}
MCRuleLists == {<<>>, <<All, Pads>>, <<Pads, All>>, <<Stylus, Tools>>, <<Tools, Pens>>, <<Pads, Refused, Stylus>>}

MCOrigin == (u1 :> 0) @@ (u2 :> 2)

MCGroup == (t1 :> 1) @@ (p1 :> 1) @@ (t2 :> 2) @@ (p2 :> 2)
MCSpot  == (f1 :> [x |-> 0, y |-> 0]) @@ (f2 :> [x |-> 1, y |-> 0])

MCSlots == (x1 :> 2) @@ (Class :> 1) @@ (Note :> 1)

MCRequires ==
    {(rc :> r) @@ (ma :> a) @@ (mb :> b) @@ (mc :> c) :
        r \in {<<ma, mb>>, <<mb, ma>>, <<Nowhere, ma, Library>>},
        a \in {<<>>, <<mb>>, <<mc, mb>>, <<rc, Nowhere>>},
        b \in {<<>>, <<mc>>, <<Library, mc, ma>>},
        c \in {<<>>, <<rc, mb>>}}
MatchOf(l, w, s, x) == [line |-> l, what |-> w, severity |-> s, muted |-> x]
MCMatches ==
    (rc :> <<MatchOf(1, "xclip", 1, TRUE)>>)
    @@ (ma :> <<MatchOf(1, "xclip", 1, FALSE), MatchOf(1, "xclip", 1, FALSE), MatchOf(2, "picom", 0, FALSE)>>)
    @@ (mb :> <<MatchOf(1, "maim", 2, FALSE), MatchOf(1, "xrdb", 2, TRUE)>>)
    @@ (mc :> <<MatchOf(1, "trayer", 0, FALSE)>>)

b1 == <<"basic", v1>>
b2 == <<"basic", v2>>
MCBody ==
    {<<>>, <<b1, <<"path">>>>, <<<<"struct", <<b1, <<"variant", b2>>, <<"path">>>>>>, b1>>,
     <<<<"array", <<<<"struct", <<b1, b2>>>>, <<"struct", <<>>>>>>>>>>,
     <<b2, <<"dict", <<b1, <<"array", <<b2, b1>>>>, b2, <<"variant", <<"dict", <<b1, b2>>>>>>>>>>, b1>>}
MCResult ==
    {<<>>, <<"string", v1>>, <<"string", v2, "number">>, <<"number", v1, "string", Nil>>, <<Nil, v1>>,
     <<"array", <<"string", v1, "number", v2>>, "string", v2>>,
     <<"string", v1, "array", <<"array", <<"string", v2>>, "number", v1>>, "number", v2>>,
     <<"array", <<"string">>>>}

Init ==
    /\ SocketInit /\ IpcInit /\ SpawnInit /\ SelectionInit
    /\ ReloadInit /\ DrawinInit /\ PassInit /\ SizeInit
    /\ WindowInit /\ ReconcileInit /\ RasterInit /\ HitInit
    /\ DeviceInit /\ TouchInit /\ TabletInit /\ OutputInit
    /\ SignalInit /\ PrescanInit /\ DbusInit /\ TestInit
    /\ TagInit /\ LayerInit /\ SystrayInit
    /\ part \in {
         "socket", "ipc", "spawn", "selections", "reload", "drawins",
         "passes", "sizes", "states", "nodes", "pixels", "hits", "devices",
         "touch", "tablets", "outputs", "signals", "prescan", "dbus",
         "tests", "tags", "layers", "tray"}

(* The parts that are not played stay as they are. *)
Only(p) ==
    /\ UNCHANGED part
    /\ IF p = "socket" THEN TRUE ELSE UNCHANGED socketVars
    /\ IF p = "ipc" THEN TRUE ELSE UNCHANGED ipcVars
    /\ IF p = "spawn" THEN TRUE ELSE UNCHANGED spawnVars
    /\ IF p = "selections" THEN TRUE ELSE UNCHANGED selectionVars
    /\ IF p = "reload" THEN TRUE ELSE UNCHANGED reloadVars
    /\ IF p = "drawins" THEN TRUE ELSE UNCHANGED drawinVars
    /\ IF p = "passes" THEN TRUE ELSE UNCHANGED passVars
    /\ IF p = "sizes" THEN TRUE ELSE UNCHANGED sizeVars
    /\ IF p = "states" THEN TRUE ELSE UNCHANGED windowVars
    /\ IF p = "nodes" THEN TRUE ELSE UNCHANGED reconcileVars
    /\ IF p = "pixels" THEN TRUE ELSE UNCHANGED rasterVars
    /\ IF p = "hits" THEN TRUE ELSE UNCHANGED hitVars
    /\ IF p = "devices" THEN TRUE ELSE UNCHANGED deviceVars
    /\ IF p = "touch" THEN TRUE ELSE UNCHANGED touchVars
    /\ IF p = "tablets" THEN TRUE ELSE UNCHANGED tabletVars
    /\ IF p = "outputs" THEN TRUE ELSE UNCHANGED outputVars
    /\ IF p = "signals" THEN TRUE ELSE UNCHANGED signalVars
    /\ IF p = "prescan" THEN TRUE ELSE UNCHANGED prescanVars
    /\ IF p = "dbus" THEN TRUE ELSE UNCHANGED dbusVars
    /\ IF p = "tests" THEN TRUE ELSE UNCHANGED testVars
    /\ IF p = "tags" THEN TRUE ELSE UNCHANGED tagVars
    /\ IF p = "layers" THEN TRUE ELSE UNCHANGED layerVars
    /\ IF p = "tray" THEN TRUE ELSE UNCHANGED systrayVars

Next ==
    \/ part = "socket" /\ SocketNext /\ Only("socket")
    \/ part = "ipc" /\ IpcNext /\ Only("ipc")
    \/ part = "spawn" /\ SpawnNext /\ Only("spawn")
    \/ part = "selections" /\ SelectionNext /\ Only("selections")
    \/ part = "reload" /\ ReloadNext /\ Only("reload")
    \/ part = "drawins" /\ DrawinNext /\ Only("drawins")
    \/ part = "passes" /\ PassNext /\ Only("passes")
    \/ part = "sizes" /\ SizeNext /\ Only("sizes")
    \/ part = "states" /\ WindowNext /\ Only("states")
    \/ part = "nodes" /\ ReconcileNext /\ Only("nodes")
    \/ part = "pixels" /\ RasterNext /\ Only("pixels")
    \/ part = "hits" /\ HitNext /\ Only("hits")
    \/ part = "devices" /\ DeviceNext /\ Only("devices")
    \/ part = "touch" /\ TouchNext /\ Only("touch")
    \/ part = "tablets" /\ TabletNext /\ Only("tablets")
    \/ part = "outputs" /\ OutputNext /\ Only("outputs")
    \/ part = "signals" /\ SignalNext /\ Only("signals")
    \/ part = "prescan" /\ PrescanNext /\ Only("prescan")
    \/ part = "dbus" /\ DbusNext /\ Only("dbus")
    \/ part = "tests" /\ TestNext /\ Only("tests")
    \/ part = "tags" /\ TagNext /\ Only("tags")
    \/ part = "layers" /\ LayerNext /\ Only("layers")
    \/ part = "tray" /\ SystrayNext /\ Only("tray")

serviceVars ==
    <<part,
      socketVars, ipcVars, spawnVars, selectionVars, reloadVars, drawinVars,
      passVars, sizeVars, windowVars, reconcileVars, rasterVars, hitVars,
      deviceVars, touchVars, tabletVars, outputVars, signalVars,
      prescanVars, dbusVars, testVars, tagVars, layerVars, systrayVars>>
Spec == Init /\ [][Next]_serviceVars

(* The variables of every part stay in their sets. *)
ServiceTypes ==
    /\ part = "socket" => SocketTypeOK
    /\ part = "ipc" => IpcTypeOK
    /\ part = "spawn" => SpawnTypeOK
    /\ part = "selections" => SelectionTypeOK
    /\ part = "reload" => ReloadTypeOK
    /\ part = "drawins" => DrawinTypeOK
    /\ part = "passes" => PassTypeOK
    /\ part = "sizes" => SizeTypeOK
    /\ part = "states" => WindowTypeOK
    /\ part = "nodes" => ReconcileTypeOK
    /\ part = "pixels" => RasterTypeOK
    /\ part = "hits" => HitTypeOK
    /\ part = "devices" => DeviceTypeOK
    /\ part = "touch" => TouchTypeOK
    /\ part = "tablets" => TabletTypeOK
    /\ part = "outputs" => OutputTypeOK
    /\ part = "signals" => SignalTypeOK
    /\ part = "prescan" => PrescanTypeOK
    /\ part = "dbus" => DbusTypeOK
    /\ part = "tests" => TestTypeOK
    /\ part = "tags" => TagTypeOK
    /\ part = "layers" => LayerTypeOK
    /\ part = "tray" => SystrayTypeOK

(* Who is served is heard: a running instance keeps its socket, its clients *)
(* are counted and told apart, an exit is told, a start-up ends, a          *)
(* selection calls no Lua object that is gone, the bus holds each handler   *)
(* as often as it may call it, and a function is held as long as it is      *)
(* connected and called with what was emitted.  The tray has one icon for   *)
(* each service that has one, as it is, across a reload.  A compositor that *)
(* was started for tests is found again, and none is left behind.           *)
ServersSound ==
    /\ part = "socket" => RunningKeepsPath
    /\ part = "ipc" => SubscribersCounted
    /\ part = "spawn" => ExitsWillBeTold /\ StartupsEnd
    /\ part = "selections" => SelectionCallsTheLiving
    /\ part = "dbus" => HandlersHeld
    /\ part = "signals" => SlotsAreHeld /\ CalledAsConnected
    /\ part = "outputs" => HeardOnce /\ LoopsMissNone /\ OneObjectEach
    /\ part = "tray" => /\ TrayListsTheLiving /\ OneIconPerName
                       /\ TrayIsDrawn /\ TrayOutlivesReload
    /\ part = "tests" => NoneIsLeftBehind /\ StartedStays /\ FailureKeepsLog

(* The configuration is read and told: all that it requires is looked at    *)
(* before it runs, what crosses the bus means on the other side what was    *)
(* said on this one, each listener hears of each output once, each panel    *)
(* has the object it should.  Input devices come and go and are set in any  *)
(* order: each has the settings that are meant for it, and its points land  *)
(* where they are mapped to.                                                *)
ConfigSound ==
    /\ part = "prescan" => WholeConfigIsRead /\ BothReadTheSame /\ AllIsReported
    /\ part = "dbus" => ToldAsMeant /\ SentAsGiven
    /\ part = "layers" => PanelsHaveObjects /\ PanelsAreTold /\ OrderIsRestored
    /\ part = "devices" => DevicesFollow /\ PointsStayOnTarget

(* What is shown is what would be shown if all were made anew: no output    *)
(* without a mark shows another drawin than it would declare, the scene has *)
(* the order of the commands, a borrowed tree is where it is declared,      *)
(* pixels that are kept are those that would be drawn, and a window's       *)
(* frame, bars and content are as large as its hints say.  Who is told of   *)
(* input is whom one sees there: clips that hide a widget reject the input  *)
(* on it, what is gone or behind the lock hears nothing, points are told    *)
(* from where their window is, and nothing points at a pen, a tablet or a   *)
(* surface that is gone.                                                    *)
SceneIsCurrent ==
    /\ part = "drawins" => ShownIsDeclared /\ ListedAreHosted /\ AttachedFollow
    /\ part = "nodes" => InPaintOrder /\ OnlyCommandsShow /\ ShownAtHome
    /\ part = "pixels" => PixelsAreCurrent /\ TilesAreCounted
    /\ part = "sizes" => BarsFit /\ FittedIsHinted /\ AskingAgainSettles
    /\ part = "hits" => HitsAreLive /\ ClippedByHosts /\ HitsShow /\ WidgetsShow
    /\ part = "touch" => PointsAreFingers /\ SameFingerSamePlace
    /\ part = "tablets" => NoneDangles /\ CursorIsAtTool
=============================================================================
