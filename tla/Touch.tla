--------------------------------- MODULE Touch ---------------------------------
(* Fingers (input.c).  A finger that comes down on a window whose client knows   *)
(* touch is a point of the seat until it is lifted, cancelled, or its client is  *)
(* gone; on other windows it may be a click.  Where the finger moves to, the     *)
(* point stays with the window it came down on.                                  *)
(*                                                                               *)
(* Windows stand side by side on a line, each from Origin on, Length cells long. *)
EXTENDS Integers, FiniteSets

CONSTANTS Window, Aware,   \* windows; those whose client has bound wl_touch
          Origin, Length,
          Rim,           \* the width of a window's border and title bar
          Finger, NoWindow

VARIABLES
    mapped,    \* windows that are there
    finger,    \* where each finger is, or Lifted
    point,     \* the seat's touch points: [window, client, told]
    focused,   \* what Lua focused last
    pointed      \* the window with the seat's pointer focus
touchVars == <<mapped, finger, point, focused, pointed>>

ASSUME WindowAssumption ==
    Origin \in [Window -> Int] /\ Rim \in Nat /\ NoWindow \notin Window

Line   == 0..(Cardinality(Window) * Length)
Lifted == -1
NoPoint == [window |-> NoWindow, client |-> NoWindow, told |-> Lifted]

(* What is on top at a place, and where it is within that window.                *)
WindowsAt(x) ==
    {w \in mapped : x \in (Origin[w] + Rim)..(Origin[w] + Length - 1)}
Inside(w, x) == x - Origin[w] - Rim

(* Whether a finger is down on another window.                                   *)
touch_point_active_elsewhere(w) ==
    \E f \in Finger : point[f].window \notin {NoWindow, w}

(* Lua's button bindings focus the window, or do not.                            *)
Checked(w) == focused' \in {focused, w}

(* The press reaches the window, and so does the release: no pointed stays behind. *)
touch_emulate_click(w) ==
    /\ IF w = NoWindow THEN UNCHANGED focused ELSE Checked(w)
    /\ pointed' = NoWindow

(* A finger on one window does not take the focus from the one another draws on. *)
Focusing(w) == IF touch_point_active_elsewhere(w) THEN UNCHANGED focused ELSE Checked(w)

touchnotifydown(f, x) ==
    /\ finger[f] = Lifted
    /\ finger' = [finger EXCEPT ![f] = x]
    /\ \/ \E w \in WindowsAt(x) \cap Aware :
            /\ Focusing(w)
            /\ point' = [point EXCEPT ![f] = [window |-> w, client |-> w, told |-> Inside(w, x)]]
            /\ UNCHANGED pointed
       \/ /\ WindowsAt(x) \cap Aware = {}
          /\ UNCHANGED point
          /\ \/ UNCHANGED <<focused, pointed>>     \* emulate_pointer is off
             \/ touch_emulate_click(IF WindowsAt(x) = {} THEN NoWindow
                                    ELSE CHOOSE w \in WindowsAt(x) : TRUE)
    /\ UNCHANGED mapped

Projected(f, x) == x - Origin[point[f].window]
touchnotifymotion(f, x) ==
    /\ finger[f] # Lifted
    /\ finger' = [finger EXCEPT ![f] = x]
    /\ IF point[f].window = NoWindow THEN UNCHANGED point
       ELSE point' = [point EXCEPT ![f].told = Projected(f, x)]
    /\ UNCHANGED <<mapped, focused, pointed>>

Up(f) == NoPoint
touchnotifyup(f) ==
    /\ finger[f] # Lifted
    /\ finger' = [finger EXCEPT ![f] = Lifted]
    /\ point' = [point EXCEPT ![f] = Up(f)]
    /\ UNCHANGED <<mapped, focused, pointed>>

(* With one finger all those of its client are cancelled.                        *)
touchnotifycancel(f) ==
    /\ finger[f] # Lifted
    /\ finger' = [finger EXCEPT ![f] = Lifted]
    /\ point' = [g \in Finger |-> IF point[g].client = point[f].client THEN NoPoint ELSE point[g]]
    /\ UNCHANGED <<mapped, focused, pointed>>

(* A window goes while fingers are on it: its points stay, without a window.     *)
Map(w) ==
    /\ w \notin mapped
    /\ mapped' = mapped \cup {w}
    /\ UNCHANGED <<finger, point, focused, pointed>>
Destroy(w) ==
    /\ w \in mapped
    /\ mapped' = mapped \ {w}
    /\ point' = [f \in Finger |-> IF point[f].window = w THEN [point[f] EXCEPT !.window = NoWindow]
                                  ELSE point[f]]
    /\ focused' = IF focused = w THEN NoWindow ELSE focused
    /\ pointed' = IF pointed = w THEN NoWindow ELSE pointed
    /\ UNCHANGED finger

(* The mouse is moved over a window.                                             *)
PointAt(w) ==
    /\ w \in mapped /\ pointed' = w
    /\ UNCHANGED <<mapped, finger, point, focused>>

TouchInit ==
    /\ mapped = {} /\ focused = NoWindow /\ pointed = NoWindow
    /\ finger = [f \in Finger |-> Lifted]
    /\ point = [f \in Finger |-> NoPoint]

TouchNext ==
    \/ \E f \in Finger : touchnotifyup(f) \/ touchnotifycancel(f)
    \/ \E f \in Finger, x \in Line : touchnotifydown(f, x) \/ touchnotifymotion(f, x)
    \/ \E w \in Window : Map(w) \/ Destroy(w) \/ PointAt(w)

TouchSpec == TouchInit /\ [][TouchNext]_touchVars

TouchTypeOK ==
    /\ mapped \subseteq Window /\ {focused, pointed} \subseteq mapped \cup {NoWindow}
    /\ finger \in [Finger -> Line \cup {Lifted}]
    /\ \A f \in Finger : point[f].window \in mapped \cup {NoWindow} /\ point[f].client \in Aware \cup {NoWindow}

-----------------------------------------------------------------------------
(* A finger that is lifted leaves nothing of it in the seat, whatever became of   *)
(* the window it was on.                                                         *)
PointsAreFingers == \A f \in Finger : point[f] # NoPoint => finger[f] # Lifted

(* Wherever a finger goes, its window is told where that is, seen from it.        *)
SameFingerSamePlace ==
    \A f \in Finger : point[f].window # NoWindow =>
        point[f].told = Inside(point[f].window, finger[f])
=================================================================================
