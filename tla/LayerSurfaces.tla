---------------------------- MODULE LayerSurfaces ----------------------------
(* Panels, launchers and wallpapers of the layer shell (protocols.c) and their    *)
(* Lua objects (objects/layer_surface.c): each points at the other, and either    *)
(* may go first.  An object is made when its surface maps and let go when it      *)
(* unmaps; a hot reload lets go of all of them and makes those of the new state.  *)
EXTENDS Naturals, Sequences, SequencesExt, FiniteSetsExt

CONSTANTS Panel,       \* layer surfaces
          LayerOutput, \* outputs: a range from 1
          MaxObjects,  \* how many Lua objects are made
          NoPanel

VARIABLES
    layers,      \* m->layers: the surfaces of each place, newest first
    shownPanels, \* the surfaces that are, as their last commit said
    objectOf,    \* LayerSurface.lua_object: 0 is none
    panelOf,     \* layer_surface_t.ls, of each object that was made
    listed,      \* globalconf.layer_surfaces
    panelTold,   \* what Lua has heard of each object
    isRestored   \* is all as the last reload left it?
layerVars == <<layers, shownPanels, objectOf, panelOf, listed, panelTold, isRestored>>

Bands         == {0, 1}                              \* of the four layers
LayerPlace    == 1..(2 * Cardinality(LayerOutput))   \* an output's layer
PlaceOf(h, b) == 2 * (h - 1) + b + 1
OnOutput(h)   == {p \in Panel : \E b \in Bands : p \in ToSet(layers[PlaceOf(h, b)])}
PanelLives(p) == \E h \in LayerOutput : p \in OnOutput(h)
PanelObjects  == DOMAIN panelOf

LayerInit ==
    /\ layers = [i \in LayerPlace |-> <<>>] /\ shownPanels = {} /\ objectOf = [p \in Panel |-> 0]
    /\ panelOf = <<>> /\ listed = <<>> /\ panelTold = <<>> /\ isRestored = FALSE

-----------------------------------------------------------------------------
createlayersurface(p, h, b) ==
    /\ ~PanelLives(p) /\ isRestored' = FALSE
    /\ layers' = [layers EXCEPT ![PlaceOf(h, b)] = <<p>> \o @]
    /\ UNCHANGED <<shownPanels, objectOf, panelOf, listed, panelTold>>

(* An object for p, which Lua is told of.                                         *)
layer_surface_manage(p, context) ==
    LET o == Len(panelOf) + 1
    IN /\ o <= MaxObjects
       /\ panelOf' = Append(panelOf, p) /\ objectOf' = [objectOf EXCEPT ![p] = o]
       /\ listed' = <<o>> \o listed /\ panelTold' = Append(panelTold, <<context>>)

(* commitlayersurfacenotify(): it maps, or moves to another layer.                *)
MapPanel(p) ==
    /\ PanelLives(p) /\ p \notin shownPanels /\ isRestored' = FALSE
    /\ shownPanels' = shownPanels \cup {p}
    /\ IF objectOf[p] = 0 THEN layer_surface_manage(p, "new")
       ELSE UNCHANGED <<objectOf, panelOf, listed, panelTold>>
    /\ UNCHANGED layers
MovePanel(p, h, b) ==
    /\ p \in ToSet(layers[PlaceOf(h, 1 - b)]) /\ isRestored' = FALSE
    /\ layers' = [layers EXCEPT ![PlaceOf(h, 1 - b)] = Remove(@, p), ![PlaceOf(h, b)] = <<p>> \o @]
    /\ UNCHANGED <<shownPanels, objectOf, panelOf, listed, panelTold>>

(* layer_surface_emit_unmanage() of all these: Lua is told, then neither of the   *)
(* two points at the other.                                                       *)
layer_surface_emit_unmanage(ps) ==
    LET os == {objectOf[p] : p \in ps} \ {0}
    IN /\ panelTold' = [o \in PanelObjects |->
                           IF o \in os THEN Append(panelTold[o], "unmanage") ELSE panelTold[o]]
       /\ panelOf' = [o \in PanelObjects |-> IF o \in os THEN NoPanel ELSE panelOf[o]]
       /\ objectOf' = [p \in Panel |-> IF p \in ps THEN 0 ELSE objectOf[p]]
       /\ listed' = SelectSeq(listed, LAMBDA o : o \notin os)

unmaplayersurfacenotify(p) ==
    /\ p \in shownPanels /\ shownPanels' = shownPanels \ {p} /\ isRestored' = FALSE
    /\ layer_surface_emit_unmanage({p})
    /\ UNCHANGED layers

(* A surface is unmapped before it is destroyed.                                  *)
destroylayersurfacenotify(p) ==
    /\ PanelLives(p) /\ p \notin shownPanels /\ isRestored' = FALSE
    /\ layers' = [i \in LayerPlace |-> Remove(layers[i], p)]
    /\ UNCHANGED <<shownPanels, objectOf, panelOf, listed, panelTold>>

(* The surfaces of an output that is unplugged are unmapped and destroyed.        *)
cleanupmon_layers(h) ==
    /\ OnOutput(h) # {} /\ shownPanels' = shownPanels \ OnOutput(h) /\ isRestored' = FALSE
    /\ layer_surface_emit_unmanage(shownPanels \cap OnOutput(h))
    /\ layers' = [layers EXCEPT ![PlaceOf(h, 0)] = <<>>, ![PlaceOf(h, 1)] = <<>>]

-----------------------------------------------------------------------------
(* The old state is closed: its objects are unlinked, and no longer listed.       *)
Unlinked == [p \in Panel |-> IF objectOf[p] \in ToSet(listed) THEN 0 ELSE objectOf[p]]

(* What is shown and has no object gets one: place after place, and in each the   *)
(* oldest first, since each goes to the head of the list.                         *)
Restarted ==
    SelectSeq(FlattenSeq([i \in LayerPlace |-> Reverse(layers[i])]),
              LAMBDA p : p \in shownPanels /\ Unlinked[p] = 0)
layer_surface_hot_reload ==
    /\ LET back == Restarted
           n    == Len(panelOf)
       IN /\ n + Len(back) <= MaxObjects
          /\ panelOf' = [o \in PanelObjects |-> NoPanel] \o back
          /\ panelTold' = [o \in PanelObjects |-> <<"closed">>]
                           \o [i \in DOMAIN back |-> <<"restart">>]
          /\ objectOf' = [p \in Panel |-> IF p \in ToSet(back)
                                          THEN n + (CHOOSE i \in DOMAIN back : back[i] = p)
                                          ELSE Unlinked[p]]
          /\ listed' = Reverse([i \in DOMAIN back |-> n + i])
    /\ isRestored' = TRUE
    /\ UNCHANGED <<layers, shownPanels>>

LayerNext ==
    \/ \E p \in Panel, h \in LayerOutput, b \in Bands :
           createlayersurface(p, h, b) \/ MovePanel(p, h, b)
    \/ \E p \in Panel : MapPanel(p) \/ unmaplayersurfacenotify(p) \/ destroylayersurfacenotify(p)
    \/ \E h \in LayerOutput : cleanupmon_layers(h)
    \/ layer_surface_hot_reload

-----------------------------------------------------------------------------
LayerTypeOK ==
    /\ layers \in [LayerPlace -> Seq(Panel)] /\ shownPanels \subseteq Panel
    /\ objectOf \in [Panel -> {0} \cup PanelObjects] /\ panelOf \in Seq(Panel \cup {NoPanel})
    /\ listed \in Seq(PanelObjects) /\ DOMAIN panelTold = PanelObjects /\ isRestored \in BOOLEAN

(* "Whichever side goes away first, neither is left pointing at the other": what  *)
(* is shown has an object that is listed, they point at each other, and no other  *)
(* object points at anything.                                                     *)
PanelsHaveObjects ==
    /\ \A p \in Panel : p \in shownPanels <=> objectOf[p] # 0
    /\ \A p \in shownPanels : PanelLives(p) /\ panelOf[objectOf[p]] = p
    /\ IsInjective(listed) /\ ToSet(listed) = {objectOf[p] : p \in shownPanels}
    /\ \A o \in PanelObjects \ ToSet(listed) : panelOf[o] = NoPanel

(* A state of Lua hears of each once, and of its end when it lives to see it.     *)
PanelsAreTold ==
    \A o \in PanelObjects :
        IF o \in ToSet(listed) THEN panelTold[o] \in {<<"new">>, <<"restart">>}
        ELSE panelTold[o] \in {<<"closed">>, <<"new", "unmanage">>, <<"restart", "unmanage">>}

(* "both the layer list and the array that layer_surface.get() reads are          *)
(* newest-first": a reload gives Lua the order of each layer.                     *)
OrderIsRestored ==
    isRestored =>
        \A i \in LayerPlace :
            LET here == SelectSeq(layers[i], LAMBDA p : p \in shownPanels)
            IN here = SelectSeq([k \in DOMAIN listed |-> panelOf[listed[k]]],
                                LAMBDA p : p \in ToSet(here))
=============================================================================
