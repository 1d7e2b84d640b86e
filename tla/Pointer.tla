------------------------------- MODULE Pointer -------------------------------
(***************************************************************************)
(* The pointer: buttons and motion (input.c), the mousegrabber             *)
(* (mousegrabber.c, event.c), silent warps (mouse.c, somewm_api.c) and the *)
(* hover that Lua is told of.                                              *)
(*                                                                         *)
(* Coordinates are left out: the cursor is over a node of the scene, which *)
(* changes when it moves or when the scene does.  No drag-and-drop is      *)
(* under way and no pointer constraint or tablet is active.  Whether a     *)
(* binding or the inspector takes a button is a choice.                    *)
(***************************************************************************)
EXTENDS Integers

CONSTANTS
    Client,         \* clients; each stands for its surface and its titlebar
    Drawin,         \* drawins; each stands for its drawable too
    LockSurface,    \* the drawin that is the Lua lock's surface
    Pane,           \* surfaces that are no client's: layer and lock surfaces
    None,           \* no surface, no object, the empty desktop
    Button,         \* the buttons
    MapsUnderPress  \* whether a client maps under the cursor while a button is held

ASSUME KindsDiffer ==
    /\ Client \cap Drawin = {} /\ Client \cap Pane = {} /\ Drawin \cap Pane = {}
    /\ None \notin Client \cup Drawin \cup Pane
ASSUME PairsAssumption == \A o, p \in Client \cup Drawin \cup {None} : o # <<p>>
ASSUME MapsUnderPressAssumption == MapsUnderPress \in BOOLEAN

VARIABLES
    under,      \* the node that xytonode() finds at the cursor
    listed,     \* globalconf.clients
    alive,      \* the drawins that are not collected
    mouse,      \* globalconf.mouse_under
    hovered,    \* globalconf.drawable_under_mouse, by its owner
    pins,       \* the references that the hover holds on each drawable
    ignore,     \* ignore_next_enter_leave
    grab,       \* whether a mousegrabber runs
    locked,     \* the session lock: "no", "lua" or "ext"
    pf,         \* the surface with the pointer's focus (seat)
    count,      \* the buttons the seat believes pressed
    held,       \* the buttons that are held
    entered,    \* history: what Lua was told the mouse entered and not left
    warped,     \* history: a silent warp was made and the mouse has not moved since
    noisy       \* history: the last motion after a silent warp was announced

hover == <<mouse, hovered, pins, entered>>
buttons == <<count, held>>
warp == <<ignore, warped, noisy>>
pointerVars == <<under, listed, alive, hover, warp, grab, locked, pf, buttons>>

Content(c) == [kind |-> "content", of |-> c]
Title(c) == [kind |-> "title", of |-> c]
Wibox(d) == [kind |-> "drawin", of |-> d]
Surface(p) == [kind |-> "pane", of |-> p]
Empty == [kind |-> "empty", of |-> None]

Nodes(clients, drawins) ==
    (UNION {{Content(c), Title(c)} : c \in clients}) \cup {Wibox(d) : d \in drawins}
    \cup {Surface(p) : p \in Pane} \cup {Empty}

SurfaceAt(n) == IF n.kind \in {"content", "pane"} THEN n.of ELSE None
ObjectAt(n) == IF n.kind = "pane" THEN None ELSE n.of
DrawableAt(n) == IF n.kind \in {"title", "drawin"} THEN n.of ELSE None

\* What the declare pass puts below the cursor; it may still have to run.
Declared(n) ==
    CASE locked = "no"  -> TRUE
      [] locked = "lua" -> n \in {Wibox(LockSurface), Empty}
      [] locked = "ext" -> n.kind \in {"pane", "empty"}

PointerInit ==
    /\ under = Empty /\ listed = {} /\ alive = Drawin
    /\ mouse = None /\ hovered = None /\ pins = [o \in Client \cup Drawin |-> 0]
    /\ ignore = FALSE /\ grab = FALSE /\ locked = "no"
    /\ pf = None /\ count = {} /\ held = {}
    /\ entered = {}
    /\ warped = FALSE /\ noisy = FALSE

-----------------------------------------------------------------------------
(* Hover.                                                                  *)

Unpinned(p, o) == IF o = None THEN p ELSE [p EXCEPT ![o] = @ - 1]

\* Mutant: the drawable is dropped without a leave.
mouse_emit_leave_silent(told, h, p) == [told |-> told \ {mouse}, hovered |-> None, pins |-> Unpinned(p, h)]

(* mouse_emit_leave() leaves the drawable with the object.  A client or    *)
(* drawin and its drawable are told apart in `told'.                       *)
mouse_emit_leave(told, h, p) ==
    [told |-> told \ {mouse, <<h>>}, hovered |-> None, pins |-> Unpinned(p, h)]

event_drawable_under_mouse(s, d) ==
    IF d = s.hovered THEN s
    ELSE [told |-> (s.told \ {<<s.hovered>>}) \cup ({<<d>>} \ {<<None>>}), hovered |-> d,
          pins |-> IF d = None THEN Unpinned(s.pins, s.hovered)
                   ELSE [Unpinned(s.pins, s.hovered) EXCEPT ![d] = @ + 1]]

(* motionnotify() tells Lua what the cursor is over now.                   *)
Hover(n) ==
    LET o == ObjectAt(n)
        here == [told |-> entered, hovered |-> hovered, pins |-> pins]
        left == IF o = mouse THEN here
                ELSE [mouse_emit_leave(entered, hovered, pins) EXCEPT !.told = @ \cup ({o} \ {None})]
        new == IF o = None THEN left ELSE event_drawable_under_mouse(left, DrawableAt(n))
    IN  /\ mouse' = o
        /\ hovered' = new.hovered /\ pins' = new.pins /\ entered' = new.told

-----------------------------------------------------------------------------
(* Pointer focus.                                                          *)

\* Mutant: the lock does not keep the pointer from the clients.
pointerfocus_unlocked(s, l) == s

pointerfocus(s, l) == IF l # "no" /\ s \notin Pane THEN None ELSE s

\* The surface that motionnotify() works with: a held button keeps its own.
Pinned(n) == IF count # {} /\ pf # None THEN pf ELSE SurfaceAt(n)

(* motionnotify(0, ...) with no mousegrabber: it restores the focus, tells *)
(* Lua nothing and ends the wait for the motion to ignore.                 *)
Rebased(l) == pf' = pointerfocus(Pinned(under'), l) /\ ignore' = FALSE

(* The callback takes the event and goes on, or the grab stops: by its     *)
(* answer, or by an error.                                                 *)
event_handle_mousegrabber(l) ==
    /\ grab
    /\ \/ grab' = TRUE /\ UNCHANGED <<pf, ignore>>
       \/ grab' = FALSE /\ Rebased(l)

motionnotify(n) ==
    /\ under' = n
    /\ \/ event_handle_mousegrabber(locked) /\ UNCHANGED hover
       \/ /\ ~grab
          /\ IF ignore THEN UNCHANGED hover ELSE Hover(n)
          /\ pf' = pointerfocus(Pinned(n), locked)
          /\ ignore' = FALSE
          /\ UNCHANGED grab

Motion(n) ==
    /\ Declared(n)
    /\ motionnotify(n)
    /\ warped' = (warped /\ grab)
    /\ noisy' = (warped /\ ~grab /\ mouse' # mouse)
    /\ UNCHANGED <<listed, alive, locked, buttons>>

(* The scene changes below a cursor that rests, and arrange(), a frame or  *)
(* the refresh restores the focus.                                         *)
SceneChanges(n) ==
    /\ n # under /\ Declared(n)
    /\ under' = n /\ noisy' = FALSE
    /\ UNCHANGED <<listed, alive, hover, ignore, warped, grab, locked, pf, buttons>>

Rebase ==
    /\ under' = under
    /\ event_handle_mousegrabber(locked) \/ (~grab /\ Rebased(locked) /\ UNCHANGED grab)
    /\ noisy' = FALSE
    /\ UNCHANGED <<listed, alive, hover, warped, locked, buttons>>

(* mouse.coords(pos, true), some_set_cursor_position(x, y, true).          *)
SilentWarp(n) ==
    /\ Declared(n)
    /\ under' = n
    /\ ignore' = TRUE /\ warped' = TRUE /\ noisy' = FALSE
    /\ UNCHANGED <<listed, alive, hover, grab, locked, pf, buttons>>

-----------------------------------------------------------------------------
(* Buttons.                                                                *)

\* The seat's default grab (wlr_seat_pointer_notify_button).
notify_button(b, pressed) == count' = IF pressed THEN count \cup {b} ELSE count \ {b}

(* A press, no grab running: it is taken by the lock, the inspector or the *)
(* binding of a drawin or of the root, or by the grab any binding starts.  *)
TakesPress(b) ==
    \/ locked # "ext" /\ UNCHANGED <<grab, count>>
    \/ /\ locked = "no" \/ (locked = "lua" /\ under = Wibox(LockSurface))
       /\ grab' = TRUE /\ UNCHANGED count
    \/ /\ locked = "lua" => under = Wibox(LockSurface)
       /\ UNCHANGED grab /\ notify_button(b, TRUE)

TakesRelease(b) ==
    \/ UNCHANGED <<grab, count>>
    \/ locked = "no" /\ grab' = TRUE /\ UNCHANGED count
    \/ UNCHANGED grab /\ notify_button(b, FALSE)

buttonpress(b, pressed) ==
    /\ held' = IF pressed THEN held \cup {b} ELSE held \ {b}
    /\ \/ event_handle_mousegrabber(locked) /\ UNCHANGED count
       \/ /\ ~grab /\ UNCHANGED <<pf, ignore>>
          /\ IF pressed THEN TakesPress(b) ELSE TakesRelease(b)

Press(b) ==
    /\ b \notin held
    /\ under' = under
    /\ buttonpress(b, TRUE)
    /\ noisy' = FALSE
    /\ UNCHANGED <<listed, alive, hover, warped, locked>>

Release(b) ==
    /\ b \in held
    /\ under' = under
    /\ buttonpress(b, FALSE)
    /\ noisy' = FALSE
    /\ UNCHANGED <<listed, alive, hover, warped, locked>>

-----------------------------------------------------------------------------
(* Grabs, locks, and what comes and goes under the cursor.                 *)

MousegrabberRun ==
    /\ ~grab
    /\ grab' = TRUE /\ noisy' = FALSE
    /\ UNCHANGED <<under, listed, alive, hover, ignore, warped, locked, pf, buttons>>

\* mousegrabber.stop()
MousegrabberStop ==
    /\ grab' = FALSE
    /\ under' = under /\ Rebased(locked) /\ noisy' = FALSE
    /\ UNCHANGED <<listed, alive, hover, warped, locked, buttons>>

(* The Lua lock stops a grab, the other one does not; unlocking restores   *)
(* the focus.                                                              *)
LockChanges(l) ==
    /\ (l = "no") # (locked = "no")
    /\ locked' = l /\ under' = under /\ noisy' = FALSE
    /\ IF l = "lua" /\ grab THEN grab' = FALSE /\ Rebased(l)
       ELSE IF l = "no" /\ ~grab THEN Rebased(l) /\ UNCHANGED grab
       ELSE IF l = "no" THEN event_handle_mousegrabber(l)
       ELSE UNCHANGED <<grab, pf, ignore>>
    /\ UNCHANGED <<listed, alive, hover, warped, buttons>>

(* mapnotify() gives a client that maps below the cursor the pointer.      *)
MapNotify(c, below) ==
    /\ c \notin listed
    /\ listed' = listed \cup {c}
    /\ below /\ count # {} => MapsUnderPress
    /\ IF below /\ locked = "no" THEN under' = Content(c) /\ pf' = pointerfocus(c, locked)
       ELSE UNCHANGED <<under, pf>>
    /\ noisy' = FALSE
    /\ UNCHANGED <<alive, hover, ignore, warped, grab, locked, buttons>>

\* Mutant: only the titlebar is forgotten.
Unmanaged_titlebar(c) ==
    /\ mouse' = mouse
    /\ IF hovered = c
       THEN hovered' = None /\ pins' = Unpinned(pins, c) /\ entered' = entered \ {c, <<c>>}
       ELSE UNCHANGED <<hovered, pins>> /\ entered' = entered \ {c}

(* client_unmanage(): the client's part of the hover, then its titlebars'. *)
Unmanaged(c) ==
    /\ mouse' = (IF mouse = c THEN None ELSE mouse)
    /\ IF hovered = c
       THEN hovered' = None /\ pins' = Unpinned(pins, c) /\ entered' = entered \ {c, <<c>>}
       ELSE UNCHANGED <<hovered, pins>> /\ entered' = entered \ {c}

(* unmapnotify(); the surface is not destroyed yet.                        *)
UnmapNotify(c, n) ==
    /\ c \in listed
    /\ listed' = listed \ {c}
    /\ IF under.of = c THEN n.of # c /\ Declared(n) ELSE n = under
    /\ under' = n
    /\ Unmanaged(c)
    /\ event_handle_mousegrabber(locked) \/ (~grab /\ Rebased(locked) /\ UNCHANGED grab)
    /\ noisy' = FALSE
    /\ UNCHANGED <<alive, warped, locked, buttons>>

SurfaceDestroyed(c) ==
    /\ c \notin listed /\ pf = c
    /\ pf' = None /\ noisy' = FALSE
    /\ UNCHANGED <<under, listed, alive, hover, ignore, warped, grab, locked, buttons>>

(* A drawin that Lua dropped is collected; drawin.c looks at no hover.     *)
DrawinCollected(d, n) ==
    /\ d \in alive \ {LockSurface}
    /\ alive' = alive \ {d}
    /\ IF under.of = d THEN n.of # d /\ Declared(n) ELSE n = under
    /\ under' = n
    /\ entered' = entered \ {d} /\ noisy' = FALSE
    /\ UNCHANGED <<listed, mouse, hovered, pins, ignore, warped, grab, locked, pf, buttons>>

(* A hot reload: the old state's references are dropped as they are.       *)
StateTeardown(n) ==
    /\ alive' = Drawin
    /\ mouse' = None /\ hovered' = None
    /\ pins' = [o \in DOMAIN pins |-> 0] /\ entered' = {}
    /\ grab' = FALSE
    /\ locked' = (IF locked = "lua" THEN "no" ELSE locked)
    /\ IF under.kind = "drawin" THEN n.kind # "drawin" ELSE n = under
    /\ under' = n /\ noisy' = FALSE
    /\ IF locked = "lua" THEN Rebased(locked') ELSE UNCHANGED <<pf, ignore>>
    /\ UNCHANGED <<listed, warped, buttons>>

PointerNext ==
    \/ \E n \in Nodes(listed, alive) : Motion(n) \/ SceneChanges(n) \/ SilentWarp(n)
    \/ Rebase
    \/ \E b \in Button : Press(b) \/ Release(b)
    \/ MousegrabberRun \/ MousegrabberStop
    \/ \E l \in {"no", "lua", "ext"} : LockChanges(l)
    \/ \E c \in Client, below \in BOOLEAN : MapNotify(c, below)
    \/ \E n \in Nodes(listed, alive) :
          \/ \E c \in Client : UnmapNotify(c, n)
          \/ \E d \in Drawin : DrawinCollected(d, n)
          \/ StateTeardown(n)
    \/ \E c \in Client : SurfaceDestroyed(c)

PointerSpec == PointerInit /\ [][PointerNext]_pointerVars

-----------------------------------------------------------------------------
(* Properties.                                                             *)

PointerTypeOK ==
    /\ under \in Nodes(listed, alive)
    /\ listed \subseteq Client /\ alive \subseteq Drawin
    /\ mouse \in listed \cup Drawin \cup {None}
    /\ hovered \in listed \cup Drawin \cup {None}
    /\ pins \in [Client \cup Drawin -> 0..1]
    /\ locked \in {"no", "lua", "ext"}
    /\ pf \in Client \cup Pane \cup {None}
    /\ count \subseteq Button /\ held \subseteq Button
    /\ {ignore, grab, warped, noisy} \subseteq BOOLEAN

(* What Lua was told the mouse entered and has not left is what C believes *)
(* it is over, and the hovered drawable alone is kept alive, whatever is   *)
(* unmanaged, collected or swallowed by a grab in between.                 *)
HoverIsTold ==
    /\ entered = (({mouse} \cap (listed \cup alive)) \cup {<<hovered>>}) \ {<<None>>}
    /\ \A o \in DOMAIN pins : pins[o] = IF o = hovered THEN 1 ELSE 0

(* The hovered drawable belongs to the object the mouse is over: a widget  *)
(* never stays hovered in a window that the mouse has left.                *)
HoverNests == hovered \in {None, mouse}

(* "the callback ... BEFORE enter/leave signals to filter them during      *)
(* grabs": while a mousegrabber runs nothing new is entered.               *)
GrabHidesHover == [][grab => entered' \subseteq entered]_pointerVars

(* "Don't give pointer focus to a desktop client while the session is      *)
(* locked", not even to one that maps below the cursor or holds a button.  *)
LockKeepsPointer ==
    [][locked' # "no" /\ pf' # pf => pf' \notin Client]_pointerVars

(* "a held mouse button pinned to its focused surface while the cursor     *)
(* roams elsewhere": it loses the pointer to the lock or by its death.     *)
ButtonPinsSurface ==
    [][count # {} /\ pf # None /\ pf' # pf => pf' = None /\ (locked' # "no" \/ pf \notin listed)]_pointerVars

(* "use flag to ignore next enter/leave": the motion after a silent warp   *)
(* announces no change of what the mouse is over.                          *)
SilentWarpIsSilent == ~noisy
=============================================================================
