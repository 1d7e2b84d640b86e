----------------------------- MODULE WindowStates -----------------------------
(* The states of one window (objects/client.c, window.c, protocols.c): its     *)
(* special layer, fullscreen, maximized, minimized.  Three parties set them,   *)
(* by different ways: Lua through its properties, the window's client through  *)
(* its protocol, a taskbar through a foreign-toplevel handle.  What each of    *)
(* them believes must stay what is.                                            *)
(*                                                                             *)
(* The geometry is one of a few boxes.  A Lua handler answers request::geometry*)
(* with any of them before the setter goes on; handlers set no state.          *)
EXTENDS Integers, FiniteSets

CONSTANTS Box,   \* boxes of a window that is not fullscreen, numbers from 1
          Asks   \* when else fullscreen is asked for: a subset of {"early", "layered"}

NoBox  == 0
WholeOutput == Cardinality(Box) + 1
Layers == {"above", "below", "ontop", "fullscreen"}
Ways   == {"horizontal", "vertical", "both"}

ASSUME BoxAssumption == Box \subseteq Nat \ {NoBox} /\ IsFiniteSet(Box)

VARIABLES
    phase,   \* "new", "mapped", "unmapped"
    on,      \* the layers c is in
    max,     \* how c is maximized: a subset of Ways
    min,     \* c->minimized
    box,     \* c->geometry
    prev,    \* c->prev
    restore, \* the box it had when it last became fullscreen
    handle,  \* c->toplevel_handle as taskbars see it, {} without one
    heard,   \* on, max and min at the last property signals
    cleared, \* the ways setfullscreen() took from max without telling Lua
    loop     \* globalconf.loop: the compositor has started
windowVars == <<phase, on, max, min, box, prev, restore, handle, heard, cleared, loop>>

Told(full) == IF handle = {} THEN {} ELSE {[h EXCEPT !.full = full] : h \in handle}

WindowTypeOK ==
    /\ phase \in {"new", "mapped", "unmapped"}
    /\ on \subseteq Layers /\ max \subseteq Ways /\ min \in BOOLEAN /\ loop \in BOOLEAN
    /\ cleared \subseteq Ways
    /\ box \in Box \cup {NoBox, WholeOutput} /\ prev \in Box \cup {NoBox, WholeOutput}
    /\ restore \in Box \cup {NoBox, WholeOutput}
    /\ handle \subseteq [full : BOOLEAN, max : BOOLEAN, min : BOOLEAN]
    /\ heard \in [on : SUBSET Layers, max : SUBSET Ways, min : BOOLEAN]

-----------------------------------------------------------------------------
(* Lua's setters.                                                              *)

(* A layer that is entered takes the window out of the others, with a signal   *)
(* for each; leaving fullscreen asks for a geometry as entering does.          *)
SetLayer(l, v) ==
    /\ v # (l \in on)
    /\ on' = IF v THEN {l} ELSE on \ {l}
    /\ heard' = [heard EXCEPT !.on = on']
    /\ IF "fullscreen" \in on \cup on'
       THEN /\ box' \in Box \cup {WholeOutput, box}
            /\ handle' = Told("fullscreen" \in on')
       ELSE UNCHANGED <<box, handle>>
    /\ IF "fullscreen" \in on' \ on THEN prev' = box /\ restore' = box
       ELSE UNCHANGED <<prev, restore>>
    /\ UNCHANGED <<phase, max, min, cleared, loop>>

client_set_above(v)      == SetLayer("above", v)
client_set_below(v)      == SetLayer("below", v)
client_set_ontop(v)      == SetLayer("ontop", v)
client_set_fullscreen(v) == (phase = "mapped" \/ "early" \in Asks) /\ SetLayer("fullscreen", v)

(* Before the loop runs, horizontally and vertically means both.               *)
Maximized(ways) == IF ways = {"horizontal", "vertical"} /\ ~loop THEN {"both"} ELSE ways
client_set_maximized_common(way, v) ==
    LET next == Maximized(IF v THEN max \cup {way} ELSE max \ {way})
    IN /\ next # max /\ max' = next
       /\ box' \in Box \cup {box}
       /\ LET told == (max \ next) \cup (next \ max)
          IN /\ heard' = [heard EXCEPT !.max = (@ \ told) \cup (next \cap told)]
             /\ cleared' = cleared \ told
             /\ handle' = IF "both" \in told THEN {[h EXCEPT !.max = "both" \in next] : h \in handle}
                          ELSE handle
       /\ UNCHANGED <<phase, on, min, prev, restore, loop>>

client_set_minimized(v) ==
    /\ v # min /\ min' = v
    /\ handle' = {[h EXCEPT !.min = v] : h \in handle}
    /\ heard' = [heard EXCEPT !.min = v]
    /\ UNCHANGED <<phase, on, max, box, prev, restore, cleared, loop>>

(* c:geometry() *)
LuaMoves(b) ==
    /\ phase = "mapped" /\ b # box /\ box' = b
    /\ UNCHANGED <<phase, on, max, min, prev, restore, handle, heard, cleared, loop>>

-----------------------------------------------------------------------------
(* The client's and the taskbar's ways.                                        *)

\* Mutant: asked again, it takes the box of the output.
Kept_again(full) == IF full THEN box ELSE prev

(* c->prev: taken when the window becomes fullscreen, used when it ceases.     *)
Kept(full) == IF full /\ "fullscreen" \notin on THEN box ELSE prev

(* setfullscreen(): a window that is not mapped takes the flag alone.  No      *)
(* other layer is left, no handle is told.                                     *)
setfullscreen(full) ==
    LET was == "fullscreen" \in on
    IN /\ on' = IF full THEN on \cup {"fullscreen"} ELSE on \ {"fullscreen"}
       /\ IF phase # "mapped" THEN UNCHANGED <<max, box, prev, restore, heard, cleared>>
          ELSE /\ max' = IF full THEN {} ELSE max
               /\ cleared' = cleared \cup (max \ max')
               /\ prev' = Kept(full)
               /\ box' = IF full THEN WholeOutput ELSE IF was THEN prev ELSE box
               /\ restore' = IF full /\ ~was THEN box ELSE restore
               /\ heard' = [heard EXCEPT !.on = IF full THEN @ \cup {"fullscreen"}
                                                ELSE @ \ {"fullscreen"}]

Tame(full) ==
    full => /\ phase = "mapped" \/ "early" \in Asks
            /\ on \subseteq {"fullscreen"} \/ "layered" \in Asks

(* request_fullscreen of the surface, and of the handle while there is one     *)
fullscreennotify(full) ==
    /\ Tame(full) /\ setfullscreen(full) /\ UNCHANGED <<phase, min, handle, loop>>
foreign_toplevel_request_fullscreen(full) == handle # {} /\ fullscreennotify(full)

(* While fullscreen, a client's request to be maximized has no effect.         *)
maximizenotify(v) == "fullscreen" \notin on /\ client_set_maximized_common("both", v)
minimizenotify == phase # "new" /\ client_set_minimized(TRUE)
foreign_toplevel_request_maximize(v) == handle # {} /\ client_set_maximized_common("both", v)
foreign_toplevel_request_minimize(v) == handle # {} /\ client_set_minimized(v)

-----------------------------------------------------------------------------
(* Mapping.                                                                    *)

(* mapnotify(): the size the surface has and a handle that says what is.  A    *)
(* monitor that is new to the window sees to fullscreen once more; a window    *)
(* that comes again keeps its monitor.                                         *)
mapnotify(b) ==
    /\ phase # "mapped" /\ phase' = "mapped"
    /\ \E moves \in {TRUE, phase = "new"} :
         IF "fullscreen" \in on /\ moves
         THEN max' = {} /\ box' = WholeOutput ELSE max' = max /\ box' = b
    /\ heard' = [heard EXCEPT !.on = on]
    /\ cleared' = cleared \cup (max \ max')
    /\ handle' = {[full |-> "fullscreen" \in on, max |-> "both" \in max, min |-> min]}
    /\ UNCHANGED <<on, min, prev, restore, loop>>

(* A window of Xwayland that is unmapped may come again, as it was.            *)
unmapnotify ==
    /\ phase = "mapped" /\ phase' = "unmapped" /\ handle' = {}
    /\ UNCHANGED <<on, max, min, box, prev, restore, heard, cleared, loop>>

(* Another window maps beside it: it loses fullscreen.                         *)
unset_fullscreen ==
    /\ phase = "mapped" /\ "fullscreen" \in on
    /\ setfullscreen(FALSE) /\ UNCHANGED <<phase, min, handle, loop>>

Started == ~loop /\ loop' = TRUE
           /\ UNCHANGED <<phase, on, max, min, box, prev, restore, handle, heard, cleared>>

WindowInit ==
    /\ phase = "new" /\ on = {} /\ max = {} /\ min = FALSE /\ loop = FALSE
    /\ box = NoBox /\ prev = NoBox /\ restore = NoBox /\ handle = {}
    /\ heard = [on |-> {}, max |-> {}, min |-> FALSE] /\ cleared = {}

WindowNext ==
    \/ \E v \in BOOLEAN :
          \/ client_set_above(v) \/ client_set_below(v) \/ client_set_ontop(v)
          \/ client_set_fullscreen(v)
          \/ \E way \in Ways : client_set_maximized_common(way, v)
          \/ client_set_minimized(v)
          \/ fullscreennotify(v) \/ foreign_toplevel_request_fullscreen(v)
          \/ maximizenotify(v)
          \/ foreign_toplevel_request_maximize(v) \/ foreign_toplevel_request_minimize(v)
    \/ \E b \in Box : LuaMoves(b) \/ mapnotify(b)
    \/ minimizenotify \/ unmapnotify \/ unset_fullscreen \/ Started

WindowSpec == WindowInit /\ [][WindowNext]_windowVars

-----------------------------------------------------------------------------
(* A window is in one special layer at most.                                   *)
OneSpecialLayer == Cardinality(on) <= 1

(* What Lua heard last is so, but for the maximized states that were taken     *)
(* without a word, and so is what the handle says.                             *)
LuaHasHeard ==
    phase = "mapped" => heard = [on |-> on, min |-> min, max |-> max \cup cleared]
TaskbarsKnow ==
    \A h \in handle : /\ h.min = min
                      /\ "both" \in max => h.max
                      /\ h.max => "both" \in max \cup cleared

(* A mapped fullscreen window goes back to where it was before.                *)
GoesBack == phase = "mapped" /\ "fullscreen" \in on => prev = restore /\ prev # NoBox

(* Whoever sets the states of a window, by whichever way, the others know, and *)
(* it is in one special layer and goes back to where it was.                   *)
StatesSound == OneSpecialLayer /\ LuaHasHeard /\ TaskbarsKnow /\ GoesBack
=============================================================================
