------------------------------ MODULE Reconcile ------------------------------
(* The renderer (render.c): each output keeps a tree of scene nodes and makes *)
(* it agree with the commands its layout was solved to, changing only what    *)
(* differs.  Nodes are kept by key; one whose command is gone while its       *)
(* element is still in the tree goes dark instead of away.  Surfaces have one *)
(* tree each, which an output borrows (window.c's hooks) and gives back.      *)
(*                                                                            *)
(* What a node draws is left to module Rasters.                              *)
EXTENDS Sequences, SequencesExt, FiniteSets, FiniteSetsExt

CONSTANTS Monitor,   \* outputs, each with a render_state
          Element,   \* [Monitor -> what the renderer makes nodes for there]
          Backdrop,  \* those of them that are an output's own paint
          Surface,   \* clients, layer surfaces, popups: what is borrowed
          NoMonitor,
          Returns    \* whether a surface may come back to an output that has
                     \* not drawn since it left

VARIABLES
    node,        \* [Monitor -> [keys of rs->nodes -> what is kept of each]]
    order,       \* [Monitor -> rs->order]
    kids,        \* [Monitor -> the children of rs->tree, lowest first]
    borrower,    \* [Surface -> render_owner]
    lit,         \* the surfaces whose tree is enabled
    resolves,    \* the surfaces whose handle resolves
    declaredBy,  \* [Surface -> the output whose layout declares it]
    due          \* the outputs that are marked for a frame
reconcileVars == <<node, order, kids, borrower, lit, resolves, declaredBy, due>>

(* cut: a raster, for a path cuts it; on: enabled; dark: retained             *)
Record == [cut : BOOLEAN, on : BOOLEAN, dark : BOOLEAN]
NoRecord == [x \in {} |-> x]

ReconcileTypeOK ==
    /\ \A o \in Monitor :
         /\ \E keys \in SUBSET (Element[o] \cup Surface) : node[o] \in [keys -> Record]
         /\ ToSet(kids[o]) \subseteq Element[o] \cup resolves /\ IsInjective(kids[o])
         /\ ToSet(order[o]) \subseteq DOMAIN node[o] /\ IsInjective(order[o])
    /\ borrower \in [Surface -> Monitor \cup {NoMonitor}]
    /\ declaredBy \in [Surface -> Monitor \cup {NoMonitor}]
    /\ lit \subseteq Surface /\ resolves \subseteq Surface /\ due \subseteq Monitor

-----------------------------------------------------------------------------
(* One pass.                                                                  *)

(* The commands: all surfaces that live here, one that died since among them, *)
(* and any elements, in any order.  A clip or a path may reach any of them    *)
(* but the output's own paint.                                                *)
Here(o) == {s \in Surface : declaredBy[s] = o}
Commands(o) ==
    UNION {SetToSeqs(Here(o) \cup some) : some \in SUBSET Element[o]}

(* An output's own paint comes first.                                         *)
Built(cmds) ==
    SelectSeq(cmds, LAMBDA k : k \in Backdrop) \o SelectSeq(cmds, LAMBDA k : k \notin Backdrop)

(* A rectangle a path cuts is a raster: the node is made anew as it changes.   *)
Swapped(o, cut) ==
    {k \in Element[o] \cap DOMAIN node[o] : node[o][k].cut # (k \in cut)}

(* reconcile_surface() reparents a tree it has no pointer to yet.             *)
Borrowed(o, cmds) == {s \in resolves \cap ToSet(cmds) : s \notin DOMAIN node[o]}

(* The nodes a pass puts on top of the tree, as it meets their commands.      *)
Made(o, cmds, cut) ==
    ((ToSet(cmds) \ DOMAIN node[o]) \cap Element[o])
      \cup (Swapped(o, cut) \cap ToSet(cmds)) \cup Borrowed(o, cmds)

(* What the sweep leaves: a node of the renderer whose element is in the tree.*)
Retained(o, cmds, tree) == (Element[o] \cap DOMAIN node[o] \cap tree) \ ToSet(cmds)
SweptAway(o, cmds, tree) == DOMAIN node[o] \ (ToSet(cmds) \cup Retained(o, cmds, tree))

(* hook_release(): whoever borrowed a tree later keeps it.                    *)
Released(o, gone) == {s \in gone \cap resolves : borrower[s] = o}

(* The records after the walk and the sweep.  Nodes that are clipped away are *)
(* off; a surface that is gone has a record without a node.                   *)
Records(o, cmds, cut, away, tree) ==
    [k \in ToSet(cmds) \cup Retained(o, cmds, tree) |->
       IF k \in ToSet(cmds)
       THEN [cut |-> k \in cut, on |-> k \notin away, dark |-> FALSE]
       ELSE [node[o][k] EXCEPT !.on = FALSE, !.dark = TRUE]]

(* The restack: each node that does not sit right above the one before it, not *)
(* counting dark ones, is moved there.                                        *)
Restacked(children, sorted, dark) ==
    LET below(ks, k) == LET at == CHOOSE i \in DOMAIN ks : ks[i] = k
                        IN SelectSeq(SubSeq(ks, 1, at - 1), LAMBDA j : j \notin dark)
        step(st, k) ==
          LET lower == below(st.ks, k)
              rest  == SelectSeq(st.ks, LAMBDA j : j # k)
              at    == IF st.prev = <<>> THEN 0
                       ELSE CHOOSE i \in DOMAIN rest : rest[i] = st.prev[1]
              right == (IF lower = <<>> THEN <<>> ELSE <<Last(lower)>>) = st.prev
          IN [ks |-> IF right THEN st.ks
                     ELSE SubSeq(rest, 1, at) \o <<k>> \o SubSeq(rest, at + 1, Len(rest)),
              prev |-> <<k>>]
    IN FoldLeft(step, [ks |-> children, prev |-> <<>>],
                SelectSeq(sorted, LAMBDA k : k \in ToSet(children))).ks

(* Mutant: the order is compared alone, though a node may be new in it. *)
MustRestack_order(o, built, made) == built # order[o]
MustRestack(o, built, made) == built # order[o] \/ made \cap Element[o] # {}

render_reconcile(o) ==
    \E cmds \in Commands(o), tree \in SUBSET Element[o], cut \in SUBSET (Element[o] \ Backdrop),
       away \in SUBSET (Element[o] \ Backdrop) :
      /\ cut \cup away \subseteq ToSet(cmds) /\ ToSet(cmds) \cap Element[o] \subseteq tree
      /\ LET made  == Made(o, cmds, cut)
             gone  == SweptAway(o, cmds, tree)
             given == Released(o, gone)
             built == Built(cmds)
             walked == SelectSeq(kids[o], LAMBDA k : k \notin made \cup (gone \cap Element[o]) \cup given)
                         \o SelectSeq(cmds, LAMBDA k : k \in made)
             dark  == Retained(o, cmds, tree)
         IN /\ node' = [node EXCEPT ![o] = Records(o, cmds, cut, away, tree)]
            /\ order' = [order EXCEPT ![o] = built]
            /\ kids' = [p \in Monitor |->
                 IF p # o THEN SelectSeq(kids[p], LAMBDA k : k \notin Borrowed(o, cmds))
                 ELSE IF MustRestack(o, built, made) THEN Restacked(walked, built, dark)
                 ELSE walked]
            /\ borrower' = [s \in Surface |-> IF s \in Borrowed(o, cmds) THEN o
                                           ELSE IF s \in given THEN NoMonitor ELSE borrower[s]]
            /\ lit' = (lit \cup (ToSet(cmds) \cap resolves)) \ given
            /\ due' = due \ {o}
            /\ UNCHANGED <<resolves, declaredBy>>

-----------------------------------------------------------------------------
(* An output goes: the borrowed trees leave before the output's tree does.    *)
render_destroy(o) ==
    LET given == Released(o, DOMAIN node[o])
    IN /\ node' = [node EXCEPT ![o] = NoRecord]
       /\ order' = [order EXCEPT ![o] = <<>>] /\ kids' = [kids EXCEPT ![o] = <<>>]
       /\ borrower' = [s \in Surface |-> IF s \in given THEN NoMonitor ELSE borrower[s]]
       /\ lit' = lit \ given
       /\ due' = due \cup {o}
       /\ UNCHANGED <<resolves, declaredBy>>

(* A surface is declared by another output from now on, or by none.           *)
Move(s, o) ==
    /\ s \in resolves /\ declaredBy[s] # o
    /\ ~Returns /\ o \in Monitor => s \notin DOMAIN node[o] \/ borrower[s] = o
    /\ declaredBy' = [declaredBy EXCEPT ![s] = o]
    /\ due' = (due \cup {o, declaredBy[s]}) \ {NoMonitor}
    /\ UNCHANGED <<node, order, kids, borrower, lit, resolves>>

(* Its client is gone, and its tree with it; records are not told.            *)
Die(s) ==
    /\ s \in resolves /\ resolves' = resolves \ {s}
    /\ kids' = [o \in Monitor |-> SelectSeq(kids[o], LAMBDA k : k # s)]
    /\ borrower' = [borrower EXCEPT ![s] = NoMonitor] /\ lit' = lit \ {s}
    /\ due' = (due \cup {declaredBy[s]}) \ {NoMonitor}
    /\ UNCHANGED <<node, order, declaredBy>>

(* The declaration that follows knows no handle of it.                        *)
Forget(s) ==
    /\ s \notin resolves /\ declaredBy[s] # NoMonitor
    /\ declaredBy' = [declaredBy EXCEPT ![s] = NoMonitor]
    /\ UNCHANGED <<node, order, kids, borrower, lit, resolves, due>>

ReconcileInit ==
    /\ node = [o \in Monitor |-> NoRecord]
    /\ order = [o \in Monitor |-> <<>>] /\ kids = [o \in Monitor |-> <<>>]
    /\ borrower = [s \in Surface |-> NoMonitor] /\ declaredBy = [s \in Surface |-> NoMonitor]
    /\ lit = {} /\ resolves = Surface /\ due = {}

ReconcileNext ==
    \/ \E o \in Monitor : render_reconcile(o) \/ render_destroy(o)
    \/ \E s \in Surface : (\E o \in Monitor \cup {NoMonitor} : Move(s, o)) \/ Die(s) \/ Forget(s)

-----------------------------------------------------------------------------
Dark(o) == {k \in DOMAIN node[o] : node[o][k].dark}

(* The scene's order is the commands' order, whatever was added, removed, made *)
(* anew, darkened or taken between: what verify_order() aborts on.            *)
InPaintOrder ==
    \A o \in Monitor :
        SelectSeq(kids[o], LAMBDA k : k \notin Dark(o))
          = SelectSeq(order[o], LAMBDA k : k \in Element[o] \/ k \in ToSet(kids[o]))

(* The renderer's nodes are shown only for a command of the last pass.        *)
OnlyCommandsShow ==
    \A o \in Monitor : \A k \in Element[o] \cap DOMAIN node[o] :
        /\ k \in ToSet(kids[o])
        /\ node[o][k].on => k \in ToSet(order[o])

(* A surface is shown by the output that declares it, once that has drawn,    *)
(* and by no other; one that nobody borrows is parked.                        *)
ShownAtHome ==
    \A s \in resolves :
        /\ \A o \in Monitor : s \in ToSet(kids[o]) <=> borrower[s] = o
        /\ declaredBy[s] \in Monitor \ due => borrower[s] = declaredBy[s] /\ s \in lit
        /\ declaredBy[s] = NoMonitor /\ due = {} => borrower[s] = NoMonitor
        /\ borrower[s] = NoMonitor => s \notin lit
=============================================================================
