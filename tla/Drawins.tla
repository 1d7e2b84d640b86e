-------------------------------- MODULE Drawins --------------------------------
(* The windows Lua draws: objects/drawin.c (bars, popups, wallpapers), which  *)
(* keep no picture of their own, and the part of declare.c that declares them *)
(* when an output's frame runs.  A setter must mark every output whose        *)
(* declaration it changes; an output without a mark draws no frame.           *)
(*                                                                            *)
(* Points are outputs: a drawin stands on output 1, 2, ...  Each output has   *)
(* one screen, a new one each time it is plugged.  Every drawin has a widget  *)
(* tree, the session is unlocked, at least one output stays plugged.          *)
EXTENDS Integers, FiniteSets, Sequences, SequencesExt, Functions

CONSTANTS Drawin,    \* drawin objects
          Styled,    \* those whose look, type and stacking change
          Output,    \* outputs, numbers from 1
          MaxPlugs,  \* how often outputs are plugged in all, the first time included
          Wild       \* what else configurations do: a subset of
                     \* {"retype", "revive", "spill"}

ASSUME OutputAssumption == 1 \in Output /\ Output \subseteq Nat \ {0}

Unhosted == <<0, 0>>
Screen   == Output \X (1..MaxPlugs)
Nothing  == 0   \* no attachment
Root     == 1   \* attached to the screen's root element
Gone     == 2   \* attached to a tree that was collected

VARIABLES
    dw,        \* the drawins: fields of drawin_t, and the registry's references
    shown,     \* globalconf.drawins
    plugs,     \* how often each output was plugged
    live,      \* the screens in screen_refs
    dirty,     \* dout->dirty
    drawn,     \* what an output without a mark shows; {} where one is set
    restack    \* need_stack_refresh
drawinVars == <<dw, shown, plugs, live, dirty, drawn, restack>>

Fresh == [alive |-> TRUE, refs |-> 0, visible |-> FALSE, scr |-> Unhosted,
          at |-> 1, bar |-> FALSE, att |-> Nothing, look |-> 0, desktop |-> FALSE, ontop |-> FALSE]
Absent == [Fresh EXCEPT !.alive = FALSE]

DrawinTypeOK ==
    /\ \A d \in Drawin : dw[d] \in
         [alive : BOOLEAN, refs : 0..1, visible : BOOLEAN,
          scr : Screen \cup {Unhosted}, at : Output, bar : BOOLEAN,
          att : {Nothing, Root, Gone} \cup Drawin, look : 0..1, desktop : BOOLEAN, ontop : BOOLEAN]
    /\ shown \in Seq(Drawin) /\ IsInjective(shown)
    /\ plugs \in [Output -> 1..MaxPlugs] /\ live \subseteq Screen
    /\ dirty \subseteq Output /\ restack \in BOOLEAN

Plugged == {s[1] : s \in live}
On(o)   == CHOOSE s \in live : s[1] = o

-----------------------------------------------------------------------------
(* The frame's declaration of the drawins.                                    *)

(* declarable_drawin() on output o *)
Declarable(d, o) == dw[d].visible /\ dw[d].scr \in live /\ dw[d].scr[1] = o

(* drawin_z() *)
Band(d) == IF dw[d].desktop THEN 1 ELSE IF dw[d].ontop THEN 3 ELSE 2

(* Bars are the output's own, declared before everything else. *)
BarsOn(o) == {d \in Drawin : Declarable(d, o) /\ dw[d].bar}

(* A sole plain desktop drawin becomes the output's fill: output_wallpaper_fill() *)
FillOf(o) ==
    LET desktops == {d \in Drawin : Declarable(d, o) /\ dw[d].desktop}
    IN {d \in desktops : Cardinality(desktops) = 1 /\ ~dw[d].bar /\ dw[d].att = Nothing
                         /\ ~dw[d].ontop /\ dw[d].look = 0}

PlacedOn(o) == {d \in Drawin : Declarable(d, o) /\ ~dw[d].bar /\ dw[d].att = Nothing}

(* attachment_target(): an element of the targeted tree declared so far       *)
Reaches(d, done) == dw[d].att = Root \/ dw[d].att \in done

(* One walk over the drawins declares those whose target is there; the walks  *)
(* go on while they make progress.                                            *)
Walk(o, done) ==
    FoldLeft(LAMBDA on, d : IF Declarable(d, o) /\ dw[d].att # Nothing /\ Reaches(d, on)
                            THEN on \cup {d} ELSE on, done, shown)
declare_drawins(o) ==
    LET walked[n \in 0..Cardinality(Drawin)] ==
            IF n = 0 THEN BarsOn(o) \cup PlacedOn(o) ELSE Walk(o, walked[n - 1])
    IN walked[Cardinality(Drawin)]

Picture(o) == {[of |-> d, band |-> Band(d), look |-> dw[d].look, at |-> dw[d].at,
                fill |-> d \in FillOf(o)] : d \in declare_drawins(o)}

-----------------------------------------------------------------------------
(* Marks.                                                                     *)

Mark(os) ==
    /\ dirty' = dirty \cup (os \cap {s[1] : s \in live'})
    /\ drawn' = [o \in Output |-> IF o \in os THEN {} ELSE drawn[o]]
MarkAll == Mark(Output)

(* drawin_mark_dirty(): the output of the drawin's screen, if it has one.     *)
OwnOutput(d) == {dw[d].scr[1]} \ {0}
(* The border's setters mark every output when there is none.                 *)
OwnOrAll(d)  == IF OwnOutput(d) = {} THEN Output ELSE OwnOutput(d)

(* A setter that changes d and marks os *)
Sets(d, rec, os) ==
    /\ dw[d].alive /\ dw' = [dw EXCEPT ![d] = rec]
    /\ UNCHANGED <<shown, plugs, live, restack>>
    /\ Mark(os)

-----------------------------------------------------------------------------
(* Where a drawin is: drawin_assign_screen() looks for the screen at its      *)
(* place, then for the focused monitor's.                                     *)
assign_screen(at) == IF at \in Plugged THEN On(at)
                     ELSE IF live = {} THEN Unhosted ELSE On(CHOOSE o \in Plugged : TRUE)

Create(d) ==
    /\ ~dw[d].alive
    /\ dw' = [dw EXCEPT ![d] = [Fresh EXCEPT !.scr = assign_screen(1)]]
    /\ UNCHANGED <<shown, plugs, live, dirty, drawn, restack>>

moveresize(d, p) ==
    /\ p # dw[d].at
    /\ Sets(d, [dw[d] EXCEPT !.at = p, !.scr = assign_screen(p)], Output)

(* drawin_set_visible(): the array and the registry reference, together.  A   *)
(* drawin hidden while its screen went is not shown again as it is, unless    *)
(* the configuration is wild.                                                 *)
Show(d) ==
    /\ dw[d].alive /\ ~dw[d].visible /\ (dw[d].scr \in live \/ "revive" \in Wild)
    /\ dw' = [dw EXCEPT ![d].visible = TRUE, ![d].refs = @ + 1]
    /\ shown' = Append(shown, d) /\ restack' = TRUE
    /\ UNCHANGED <<plugs, live>>
    /\ MarkAll

(* Mutant: a hidden drawin stays in the array. *)
Hide_listed(d) ==
    /\ dw[d].visible
    /\ dw' = [dw EXCEPT ![d].visible = FALSE, ![d].refs = @ - 1]
    /\ UNCHANGED <<shown, plugs, live, restack>>
    /\ MarkAll

Hide(d) ==
    /\ dw[d].visible
    /\ dw' = [dw EXCEPT ![d].visible = FALSE, ![d].refs = @ - 1]
    /\ shown' = RemoveFirst(shown, d)
    /\ UNCHANGED <<plugs, live, restack>>
    /\ MarkAll

(* The collector takes a drawin that only Lua variables held until now.       *)
gc(d) ==
    /\ dw[d].alive /\ dw[d].refs = 0
    /\ dw' = [e \in Drawin |-> IF e = d THEN Absent
                               ELSE IF dw[e].att = d THEN [dw[e] EXCEPT !.att = Gone] ELSE dw[e]]
    /\ UNCHANGED <<shown, plugs, live, restack>>
    /\ MarkAll

-----------------------------------------------------------------------------
(* The other setters.                                                         *)

Restyled(d) == [dw[d] EXCEPT !.look = 1 - @]
set_opacity(d)      == d \in Styled /\ Sets(d, Restyled(d), Output)
set_shadow(d)       == d \in Styled /\ Sets(d, Restyled(d), Output)
set_animation(d)    == d \in Styled /\ Sets(d, Restyled(d), Output)
set_border_width(d) == d \in Styled /\ Sets(d, Restyled(d), OwnOrAll(d))
set_border_color(d) == d \in Styled /\ Sets(d, Restyled(d), OwnOrAll(d))
set_shape(d)        == d \in Styled /\ Sets(d, Restyled(d), OwnOutput(d))

set_bar(d) == d \in Styled /\ Sets(d, [dw[d] EXCEPT !.bar = ~@], Output)
set_attachment(d, t) ==
    /\ t \notin {d, dw[d].att}
    /\ t \in Drawin => dw[t].alive
    /\ Sets(d, [dw[d] EXCEPT !.att = t], OwnOutput(d))

(* ontop is part of the stacking: the refresh marks the outputs.  The type    *)
(* chooses the band and the fill as well and marks nothing.                   *)
set_ontop(d) ==
    /\ d \in Styled /\ dw[d].alive
    /\ dw' = [dw EXCEPT ![d].ontop = ~@] /\ restack' = TRUE
    /\ UNCHANGED <<shown, plugs, live, dirty, drawn>>
set_type(d) ==
    /\ d \in Styled /\ (dw[d].visible => "retype" \in Wild)
    /\ Sets(d, [dw[d] EXCEPT !.desktop = ~@], {})

(* stack_refresh(), of the main loop's refresh *)
Refresh ==
    /\ restack /\ restack' = FALSE
    /\ UNCHANGED <<dw, shown, plugs, live>> /\ MarkAll

-----------------------------------------------------------------------------
(* declare_output_frame(), and the solved boxes it publishes: a bar's or an   *)
(* attached drawin's place follows from the frame, and its screen from the    *)
(* place, without a mark.  A box begins on its own output, unless "spill".    *)
Settled(o, d, p) ==
    IF d \in declare_drawins(o) /\ (dw[d].bar \/ dw[d].att # Nothing)
    THEN [dw[d] EXCEPT !.at = p, !.scr = IF p = dw[d].at THEN @ ELSE assign_screen(p)]
    ELSE dw[d]
Frame(o) ==
    /\ o \in dirty
    /\ \E p \in {o} \cup (IF "spill" \in Wild THEN Plugged ELSE {}) :
          /\ dw' = [d \in Drawin |-> Settled(o, d, p)]
          /\ drawn' = [drawn EXCEPT ![o] = {[e EXCEPT !.at = dw'[e.of].at] : e \in Picture(o)}]
    /\ dirty' = dirty \ {o}
    /\ UNCHANGED <<shown, plugs, live, restack>>

(* An output comes with a screen of its own; as it goes screen_removed()      *)
(* looks for another screen for the drawins that are shown.                   *)
Plug(o) ==
    /\ o \notin Plugged /\ SumFunction(plugs) < MaxPlugs
    /\ plugs' = [plugs EXCEPT ![o] = @ + 1] /\ live' = live \cup {<<o, plugs[o] + 1>>}
    /\ Mark({o}) /\ UNCHANGED <<dw, shown, restack>>
Unplug(o) ==
    /\ o \in Plugged /\ live # {On(o)}
    /\ live' = live \ {On(o)}
    /\ LET left(p) == IF p \in {s[1] : s \in live'} THEN p ELSE CHOOSE q \in {s[1] : s \in live'} : TRUE
           moved == {d \in ToSet(shown) : dw[d].scr = On(o)}
       IN /\ dw' = [d \in Drawin |-> IF d \in moved THEN [dw[d] EXCEPT !.scr = On(left(dw[d].at))]
                                     ELSE dw[d]]
          /\ dirty' = (IF moved = {} THEN dirty ELSE Output) \cap {s[1] : s \in live'}
          /\ drawn' = [p \in Output |-> IF p = o \/ moved # {} THEN {} ELSE drawn[p]]
    /\ UNCHANGED <<shown, plugs, restack>>

DrawinInit ==
    /\ dw = [d \in Drawin |-> Absent] /\ shown = <<>>
    /\ plugs = [o \in Output |-> 1] /\ live = Output \X {1}
    /\ dirty = Output /\ drawn = [o \in Output |-> {}] /\ restack = FALSE

DrawinNext ==
    \/ \E d \in Drawin :
          \/ Create(d) \/ Show(d) \/ Hide(d) \/ gc(d)
          \/ set_opacity(d) \/ set_shadow(d) \/ set_animation(d) \/ set_shape(d)
          \/ set_border_width(d) \/ set_border_color(d)
          \/ set_bar(d) \/ set_ontop(d) \/ set_type(d)
          \/ \E t \in {Nothing, Root} \cup Drawin : set_attachment(d, t)
          \/ \E p \in Output : moveresize(d, p)
    \/ \E o \in Output : Frame(o) \/ Plug(o) \/ Unplug(o)
    \/ Refresh

DrawinSpec == DrawinInit /\ [][DrawinNext]_drawinVars

-----------------------------------------------------------------------------
(* No change is left undrawn: an output without a mark, and with no refresh   *)
(* owed, shows what a frame would declare now.                                *)
ShownIsDeclared == ~restack => \A o \in Plugged \ dirty : drawn[o] = Picture(o)

(* A drawin is in the array exactly while it is visible, with the one         *)
(* reference that keeps it from the collector, and on a screen that is there. *)
ListedAreHosted ==
    \A d \in Drawin :
       /\ (d \in ToSet(shown)) = dw[d].visible /\ dw[d].visible = (dw[d].refs = 1)
       /\ dw[d].visible => dw[d].alive /\ dw[d].scr \in live

(* Whatever the order of the array, a shown attached drawin is declared       *)
(* exactly when its target is.                                                *)
AttachedFollow ==
    \A o \in Plugged : LET on == declare_drawins(o) IN
       \A d \in Drawin : Declarable(d, o) /\ ~dw[d].bar /\ dw[d].att \in Drawin
                         => (d \in on) = (dw[d].att \in on)
=============================================================================
