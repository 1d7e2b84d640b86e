-------------------------------- MODULE Tablets --------------------------------
(* Tablets, their tools and their pads (input.c): each comes and goes by itself, *)
(* and keeps pointers to the others that wlroots does not clear.                 *)
(*                                                                               *)
(* The cursor moves on a square of places; a surface covers one of them.         *)
EXTENDS Integers, FiniteSets

CONSTANTS Tablet, Pad, Pen,
          Group,        \* of what hardware a tablet or a pad is a part
          Face, Takes,  \* surfaces, and those whose client knows tablets
          Spot,         \* the place each covers
          Nought

VARIABLES
    tablets,   \* tracked_tablets
    pads,      \* tracked_tablet_pads: [there, attached_tablet, current_surface]
    tools,     \* tracked_tablet_tools: [there, tablet, last, has, on, near, down]
    at,        \* where each pen is, as the hardware has it
    cursor,
    faces      \* surfaces that are there
tabletVars == <<tablets, pads, tools, at, cursor, faces>>

ASSUME NoughtAssumption == Nought \notin Tablet \cup Face

Axis  == {"x", "y"}
Place == [Axis -> 0..1]
NoPad == [there |-> FALSE, attached_tablet |-> Nought, current_surface |-> Nought]
NoPen == [there |-> FALSE, tablet |-> Nought, last |-> [a \in Axis |-> 0], has |-> {},
          on |-> Nought, near |-> Nought, down |-> FALSE]

FaceAt(place) ==
    LET here == {s \in faces : Spot[s] = place}
    IN IF here = {} THEN Nought ELSE CHOOSE s \in here : TRUE

-----------------------------------------------------------------------------
(* Pads.                                                                         *)
tabletpad_clear_focus(p) == [p EXCEPT !.current_surface = Nought]
tabletpad_attach_tablet(p, t) ==
    IF p.attached_tablet = t THEN p
    ELSE [tabletpad_clear_focus(p) EXCEPT !.attached_tablet = t]

tabletpad_set_focus_for_cursor(p) ==
    LET s == FaceAt(cursor)
    IN IF p.attached_tablet \notin tablets \/ s = p.current_surface THEN p
       ELSE [p EXCEPT !.current_surface = IF s \in Takes THEN s ELSE Nought]

(* A button, a ring or a strip goes to what is under the cursor.                 *)
tabletpadnotify(p) ==
    /\ pads[p].there
    /\ pads' = [pads EXCEPT ![p] = tabletpad_set_focus_for_cursor(@)]
    /\ UNCHANGED <<tablets, tools, at, cursor, faces>>

(* The backend tells, by a tool or by a tablet, what the pad belongs to.         *)
find_tracked_tablet_by_tool(k) ==
    IF tools[k].there /\ tools[k].tablet \in tablets THEN tools[k].tablet ELSE Nought
tabletpadnotifyattach(p, t) ==
    /\ pads[p].there
    /\ pads' = [pads EXCEPT ![p] = tabletpad_attach_tablet(@, t)]
    /\ UNCHANGED <<tablets, tools, at, cursor, faces>>

SharesGroup(p, t) == Group[p] = Group[t]   \* tablet_pad_shares_libinput_group()
createtabletpad(p) ==
    /\ ~pads[p].there
    /\ LET kin == {t \in tablets : SharesGroup(p, t)}
       IN \E t \in IF kin = {} THEN {Nought} ELSE kin :
            pads' = [pads EXCEPT ![p] = [NoPad EXCEPT !.there = TRUE, !.attached_tablet = t]]
    /\ UNCHANGED <<tablets, tools, at, cursor, faces>>
destroytrackedtabletpad(p) ==
    /\ pads[p].there
    /\ pads' = [pads EXCEPT ![p] = NoPad]
    /\ UNCHANGED <<tablets, tools, at, cursor, faces>>

-----------------------------------------------------------------------------
(* Tablets.                                                                      *)
createtablet(t) ==
    /\ t \notin tablets
    /\ tablets' = tablets \cup {t}
    /\ pads' = [p \in Pad |-> IF pads[p].there /\ SharesGroup(p, t)
                              THEN tabletpad_attach_tablet(pads[p], t) ELSE pads[p]]
    /\ UNCHANGED <<tools, at, cursor, faces>>

Detached(t) ==
    [p \in Pad |-> IF pads[p].attached_tablet = t
                   THEN [tabletpad_clear_focus(pads[p]) EXCEPT !.attached_tablet = Nought]
                   ELSE pads[p]]
(* Nobody may go on pointing at it; its tools are out of proximity by then.      *)
destroytrackedtablet(t) ==
    /\ t \in tablets
    /\ \A k \in Pen : tools[k].tablet = t => tools[k].on = Nought
    /\ tablets' = tablets \ {t}
    /\ pads' = Detached(t)
    /\ tools' = [k \in Pen |-> IF tools[k].tablet = t THEN [tools[k] EXCEPT !.tablet = Nought] ELSE tools[k]]
    /\ UNCHANGED <<at, cursor, faces>>

-----------------------------------------------------------------------------
(* Tools.                                                                        *)
find_or_create_tracked_tablet_tool(k, t) ==
    [tools[k] EXCEPT !.there = TRUE, !.tablet = t]

(* Only the axes that changed are in an event; the others are where they were.   *)
Position(tool, moved, place) == [a \in Axis |-> IF a \in moved THEN place[a] ELSE tool.last[a]]

(* The tool is near what is under the cursor, if that knows tablets; else it     *)
(* stays where it was.                                                           *)
proximity_in_for_cursor(tool, place) ==
    IF FaceAt(place) \in Takes THEN [tool EXCEPT !.near = FaceAt(place)] ELSE tool

tablet_apply_absolute_motion(to) == cursor' = to
Axes(k, t, moved, place) ==
    LET tool == find_or_create_tracked_tablet_tool(k, t)
        full == moved \cup tool.has = Axis
        to   == Position(tool, moved, place)
        kept == [tool EXCEPT !.on = t, !.has = @ \cup moved,
                             !.last = [a \in Axis |-> IF a \in moved THEN place[a] ELSE @[a]]]
    IN /\ at' = [at EXCEPT ![k] = place]
       /\ IF full THEN tablet_apply_absolute_motion(to) ELSE UNCHANGED cursor
       /\ tools' = [tools EXCEPT ![k] = IF full THEN proximity_in_for_cursor(kept, to) ELSE kept]
       /\ UNCHANGED <<tablets, pads, faces>>
tabletnotifyaxis(k, moved, place) ==
    /\ tools[k].on # Nought
    /\ \A a \in Axis \ moved : place[a] = at[k][a]
    /\ Axes(k, tools[k].on, moved, place)

(* A tool comes near a tablet, and all its axes are told at once; or it goes.    *)
ProximityIn(k, t, place) ==
    /\ t \in tablets /\ tools[k].on = Nought
    /\ Axes(k, t, Axis, place)
ProximityOut(k) ==
    /\ tools[k].on # Nought /\ ~tools[k].down
    /\ tools' = [tools EXCEPT ![k].on = Nought, ![k].near = Nought]
    /\ UNCHANGED <<tablets, pads, at, cursor, faces>>

(* The tip touches where the tool is, or leaves.                                 *)
tabletnotifytip(k) ==
    /\ tools[k].on # Nought
    /\ tablet_apply_absolute_motion(at[k])
    /\ LET near == proximity_in_for_cursor(tools[k], at[k])
       IN tools' = [tools EXCEPT ![k] = [near EXCEPT !.down = ~tools[k].down]]
    /\ UNCHANGED <<tablets, pads, at, faces>>

destroytrackedtablettool(k) ==
    /\ tools[k].there /\ tools[k].on = Nought
    /\ tools' = [tools EXCEPT ![k] = NoPen]
    /\ UNCHANGED <<tablets, pads, at, cursor, faces>>

-----------------------------------------------------------------------------
Appear(s) ==
    /\ s \notin faces
    /\ faces' = faces \cup {s}
    /\ UNCHANGED <<tablets, pads, tools, at, cursor>>
(* tabletpadnotifysurfacedestroy(); wlroots does the same for the tools.         *)
Vanish(s) ==
    /\ s \in faces
    /\ faces' = faces \ {s}
    /\ pads' = [p \in Pad |-> IF pads[p].current_surface = s THEN tabletpad_clear_focus(pads[p]) ELSE pads[p]]
    /\ tools' = [k \in Pen |-> IF tools[k].near = s THEN [tools[k] EXCEPT !.near = Nought] ELSE tools[k]]
    /\ UNCHANGED <<tablets, at, cursor>>

TabletInit ==
    /\ tablets = {} /\ faces = {}
    /\ pads = [p \in Pad |-> NoPad] /\ tools = [k \in Pen |-> NoPen]
    /\ cursor = [a \in Axis |-> 0] /\ at = [k \in Pen |-> cursor]

TabletNext ==
    \/ \E p \in Pad : \/ createtabletpad(p) \/ destroytrackedtabletpad(p) \/ tabletpadnotify(p)
                      \/ \E t \in tablets \cup {Nought} : tabletpadnotifyattach(p, t)
                      \/ \E k \in Pen : tabletpadnotifyattach(p, find_tracked_tablet_by_tool(k))
    \/ \E t \in Tablet : createtablet(t) \/ destroytrackedtablet(t)
    \/ \E k \in Pen : \/ ProximityOut(k) \/ tabletnotifytip(k) \/ destroytrackedtablettool(k)
                      \/ \E place \in Place : \/ \E t \in Tablet : ProximityIn(k, t, place)
                                              \/ \E moved \in {{"x"}, {"y"}, Axis} :
                                                   tabletnotifyaxis(k, moved, place)
    \/ \E s \in Face : Appear(s) \/ Vanish(s)

TabletSpec == TabletInit /\ [][TabletNext]_tabletVars

TabletTypeOK ==
    /\ tablets \subseteq Tablet /\ cursor \in Place
    /\ \A k \in Pen : tools[k].near \in faces \cup {Nought} /\ tools[k].last \in Place

-----------------------------------------------------------------------------
(* No pad and no tool points at a tablet that is unplugged, and no pad at a       *)
(* surface that is gone, that knows no tablets, or that only a lost tablet led to.*)
NoneDangles ==
    /\ \A k \in Pen : tools[k].tablet \in tablets \cup {Nought}
    /\ \A p \in Pad : /\ pads[p].attached_tablet \in tablets \cup {Nought}
                      /\ pads[p].current_surface # Nought =>
                            /\ pads[p].current_surface \in faces \cap Takes
                            /\ pads[p].attached_tablet # Nought

(* The cursor is where the tool is, though its axes are told one by one.         *)
CursorIsAtTool == \A k \in Pen : tools[k].on # Nought => cursor = at[k]
=================================================================================
