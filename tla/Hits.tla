---------------------------------- MODULE Hits ----------------------------------
(* Where input goes (declare.c, render.c, widget.c): a drawin's widgets clip    *)
(* what they hold through scopes, numbered when the tree is compiled and looked *)
(* up by number as a frame is drawn; the same scopes decide which object and    *)
(* which widgets are under a point.                                             *)
(*                                                                              *)
(* One output, in one dimension: a box is its first cell and the cell after its *)
(* last; a radius takes the first and the last cell of a box, a path the first. *)
(* A client lies below a drawin, the lock above both.                           *)
EXTENDS Integers, Sequences, SequencesExt, FiniteSets, FiniteSetsExt, Folds

CONSTANTS RootBox,       \* the drawin's box
          Boxes,         \* those of its widgets, as sequences
          Floats,        \* which widgets float, as sets
          RootStyles, HostStyles, LeafStyles,  \* how each of them may look
          Hole,          \* cells that are not in the client's input region
          RoundedClips,  \* WLR_SCENE_ROUNDED_CLIPS
          Overflows      \* whether a widget may be larger than a host that
                         \* clips it by its box alone

VARIABLES
    tree,    \* the compiled tree, in preorder: [up, style, float, box]
    now,     \* what is: the drawin is visible, the client mapped, the session locked
    nodes    \* what the last frame drew, lowest first
hitVars == <<tree, now, nodes>>

State == [shown : BOOLEAN, mapped : BOOLEAN, locked : BOOLEAN]

-----------------------------------------------------------------------------
(* Compiling: read_tree().                                                      *)
Above(i) ==
    LET up == tree[i].up  over == IF up = 0 THEN 0 ELSE tree[up].up
    IN {up, over, IF over = 0 THEN 0 ELSE tree[over].up} \ {0}
Children(i) == {j \in DOMAIN tree : tree[j].up = i}

(* The root opens a scope, and so does a rounded or clipping node with children.*)
OpensScope(i) ==
    i = 1 \/ (tree[i].style \in {"round", "clip", "pathclip"} /\ Children(i) # {})
clip_opens(i) == IF OpensScope(i) THEN Cardinality({j \in 1..i : OpensScope(j)}) ELSE 0

(* Mutant: the scope that was opened last, whoever holds the node. *)
clip_by_last(i) == clip_opens(Max({0} \cup {j \in 1..i - 1 : OpensScope(j)}))
(* The scope a node sits in: the innermost that was opened above it.            *)
clip_by(i) ==
    LET hosts == {j \in Above(i) : OpensScope(j)}
    IN IF hosts = {} THEN 0 ELSE clip_opens(Max(hosts))

(* A float is drawn after what does not float; each with what it holds.         *)
RootOf(i) == Max({1} \cup {j \in Above(i) \cup {i} : tree[j].float})
Painted ==
    LET before(i, j) == RootOf(i) < RootOf(j) \/ (RootOf(i) = RootOf(j) /\ i < j)
    IN SetToSortSeq(DOMAIN tree, before)

-----------------------------------------------------------------------------
(* Drawing: render_reconcile() with its scopes.                                 *)
Cells(b)   == b[1]..(b[2] - 1)
Cut(b, c)  == <<Max({b[1], c[1]}), Min({b[2], c[2]})>>
point_in_rounded_rect(x, b) == x \in Cells(b) \ {b[1], b[2] - 1}
InPath(x, b) == x \in Cells(b) \ {b[1]}
InMask(x, m) == IF m.path THEN InPath(x, m.box) ELSE point_in_rounded_rect(x, m.box)
point_in_masks(x, masks) == \A m \in ToSet(masks) : InMask(x, m)

HasPath(i) == tree[i].style \in {"path", "pathclip"}
Own(i) ==
    IF tree[i].style = "round" \/ HasPath(i)
    THEN <<[box |-> tree[i].box, path |-> HasPath(i)]>> ELSE <<>>

(* The newest scope of that number; without one nothing clips.                  *)
scope_named(scopes, number) ==
    LET found == {k \in DOMAIN scopes : scopes[k].number = number}
    IN IF found = {} THEN [number |-> 0, box |-> RootBox, masks |-> <<>>] ELSE scopes[Max(found)]

(* The nodes of the drawin, and the scopes as they are opened.                  *)
Drawing ==
    LET step(i, st) ==
          LET over == scope_named(st.scopes, clip_by(i))
              rbox == Cut(tree[i].box, over.box)
          IN [nodes |-> Append(st.nodes, [who |-> "drawin", at |-> i, box |-> tree[i].box,
                                          rbox |-> rbox, masks |-> over.masks]),
              scopes |-> IF OpensScope(i)
                         THEN Append(st.scopes, [number |-> clip_opens(i), box |-> rbox,
                                                 masks |-> over.masks \o Own(i)])
                         ELSE st.scopes]
    IN FoldLeft(LAMBDA st, i : step(i, st), [nodes |-> <<>>, scopes |-> <<>>], Painted)

Plain(who) == [who |-> who, at |-> 0, box |-> RootBox, rbox |-> RootBox, masks |-> <<>>]

declare_output ==
    (IF now.mapped THEN <<Plain("client")>> ELSE <<>>)
      \o (IF now.shown THEN Drawing.nodes ELSE <<>>)
      \o (IF now.locked THEN <<Plain("block"), Plain("lock")>> ELSE <<>>)

(* The rounded clips a node carries: its own where it is cropped, then those of *)
(* its hosts whose corners reach it, the innermost first, as many as fit.       *)
node_rounded_clips(n) ==
    LET own  == IF n.at # 0 /\ tree[n.at].style = "round" THEN Own(n.at) ELSE <<>>
        hits(m) == ~m.path /\ {m.box[1], m.box[2] - 1} \cap Cells(n.rbox) # {}
        all  == own \o SelectSeq(Reverse(n.masks), hits)
        room == IF own # <<>> /\ n.box = n.rbox THEN RoundedClips + 1 ELSE RoundedClips
    IN SubSeq(all, 1, Min({Len(all), room}))
Overfull(n) ==
    Cardinality({m \in ToSet(n.masks) : ~m.path}) + 1 > RoundedClips

(* What is seen of a node.                                                      *)
Seen(n) ==
    {x \in Cells(n.rbox) :
        /\ point_in_masks(x, node_rounded_clips(n))
        /\ \A m \in ToSet(n.masks) : m.path => InPath(x, m.box)
        /\ n.at # 0 /\ HasPath(n.at) => InPath(x, n.box)}

-----------------------------------------------------------------------------
(* Input.                                                                       *)
rnode_point_in_arcs(n, x) ==
    /\ point_in_masks(x, n.masks)
    /\ n.at # 0 /\ tree[n.at].style = "round" => point_in_rounded_rect(x, n.box)

(* A node outlives what it shows by a frame; an input hole lets through.        *)
hit_accept(n, x) ==
    CASE n.who = "client" -> now.mapped /\ x \notin Hole
      [] n.who = "drawin" -> now.shown
      [] OTHER -> TRUE

render_hit(x) ==
    {k \in DOMAIN nodes :
        /\ x \in Cells(nodes[k].rbox)
        /\ rnode_point_in_arcs(nodes[k], x)
        /\ nodes[k].at # 0 /\ HasPath(nodes[k].at) => InPath(x, nodes[k].box)
        /\ hit_accept(nodes[k], x)}

(* The object under a point: the backdrop of the lock answers with none.        *)
declare_hit_at(x) ==
    LET k == Max({0} \cup render_hit(x))
    IN IF k = 0 THEN "none" ELSE IF nodes[k].who = "block" THEN "none" ELSE nodes[k].who

(* The widgets under a point: those Clay finds there, but for any that a mask   *)
(* rejects, with all they hold.  A shape that opens no scope rejects by itself. *)
NodeOf(i) == CHOOSE n \in ToSet(nodes) : n.at = i
render_point_in_masks(i, x) ==
    LET n == NodeOf(i)
    IN /\ point_in_masks(x, n.masks)
       /\ (OpensScope(i) \/ HasPath(i) \/ tree[i].style = "round") => point_in_masks(x, Own(i))
declare_widget_hits(x) ==
    {i \in DOMAIN tree : /\ x \in Cells(tree[i].box)
                         /\ \A j \in Above(i) \cup {i} : render_point_in_masks(j, x)}

-----------------------------------------------------------------------------
Within(b, c) == Cells(b) \subseteq Cells(c)
Fitting ==
    \A i \in DOMAIN tree : \A j \in Above(i) :
        tree[j].style \in {"clip", "pathclip"} /\ ~Overflows => Within(tree[i].box, tree[j].box)

HitInit ==
    /\ tree = <<>> /\ nodes = <<>>
    /\ now = [shown |-> TRUE, mapped |-> TRUE, locked |-> FALSE]

(* What Lua says of one widget.                                                 *)
read_node(i, above, style, floats, boxes) ==
    [up |-> above, style |-> style, float |-> i \in floats,
     box |-> IF i = 1 THEN RootBox ELSE boxes[i - 1]]

(* The drawin's tree is compiled, once.                                         *)
Compile ==
    /\ tree = <<>>
    /\ \E root \in RootStyles, host \in HostStyles, leaf \in [3..4 -> LeafStyles],
          up \in 1..3, floats \in Floats, boxes \in Boxes :
         LET node(i, above, style) == read_node(i, above, style, floats, boxes)
         IN tree' = <<node(1, 0, root), node(2, 1, host), node(3, 2, leaf[3]), node(4, up, leaf[4])>>
    /\ Fitting' /\ UNCHANGED <<now, nodes>>
DrawFrame == nodes' = declare_output /\ UNCHANGED <<tree, now>>
Change(k) == now' = [now EXCEPT ![k] = ~@] /\ UNCHANGED <<tree, nodes>>
HitNext == Compile \/ DrawFrame \/ \E k \in DOMAIN now : Change(k)

HitTypeOK ==
    /\ now \in State /\ Len(tree) \in {0, 4}
    /\ \A n \in ToSet(nodes) : n.who \in {"client", "drawin", "block", "lock"} /\ n.at \in 0..4

-----------------------------------------------------------------------------
Points == Cells(RootBox)

(* Input goes to what is there now, and past the lock to nothing.               *)
HitsAreLive ==
    \A x \in Points :
        LET hit == declare_hit_at(x)
        IN /\ hit = "client" => now.mapped
           /\ hit = "drawin" => now.shown
           /\ (\E n \in ToSet(nodes) : n.who = "block") => hit \in {"lock", "none"}

(* A widget is seen where all that clip it let it be seen; beyond the clips a   *)
(* node can carry, the outer ones give way.                                     *)
ClippedByHosts ==
    \A n \in ToSet(nodes) : n.at # 0 =>
        LET seen == {x \in Cells(n.box) :
                        /\ point_in_masks(x, Own(n.at))
                        /\ \A j \in Above(n.at) :
                             j = 1 \/ tree[j].style \in {"round", "clip", "pathclip"}
                               => x \in Cells(tree[j].box) /\ point_in_masks(x, Own(j))}
        IN seen \subseteq Seen(n) /\ (Overfull(n) \/ seen = Seen(n))

(* What is hit is the topmost that is seen and takes input.                     *)
HitsShow ==
    \A x \in Points :
        LET k == Max({0} \cup render_hit(x))
        IN /\ k # 0 => x \in Seen(nodes[k])
           /\ \A j \in DOMAIN nodes :
                 j > k /\ x \in Seen(nodes[j]) /\ ~Overfull(nodes[j]) => ~hit_accept(nodes[j], x)

(* A widget that is told of a point is seen there.                              *)
WidgetsShow ==
    (\A i \in DOMAIN tree : \E n \in ToSet(nodes) : n.at = i) =>
        \A x \in Points : \A i \in declare_widget_hits(x) : x \in Seen(NodeOf(i))
=================================================================================
