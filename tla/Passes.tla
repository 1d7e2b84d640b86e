-------------------------------- MODULE Passes --------------------------------
(* One output's declare pass (declare.c) and what it keeps between frames:    *)
(* the handles that name objects in the scene, the widget trees (widget.c)    *)
(* whose memory the layout engine's commands point into, and the owners of    *)
(* elements that fade out after they are gone.  A pass either commits all of  *)
(* it or leaves what was there.  Lua runs twice inside a pass: before the     *)
(* declaration to compile trees, and after the solve, before the commands     *)
(* are drawn.                                                                 *)
(*                                                                            *)
(* An owner is a place in memory: a drawin allocated where another one was    *)
(* freed has the same address.  Payloads are the shared storages of widget    *)
(* trees; a private tree counts as a storage with one reference.              *)
EXTENDS Integers, FiniteSets, FiniteSetsExt

CONSTANTS Owner,       \* addresses of drawins
          Fading,      \* those with an exit transition
          MaxHandles,  \* how many handles are given out
          Payload,     \* storages, numbers from 1
          MaxRetired   \* how many retired storages fit in the 8 MiB

NoTree == 0

ASSUME PayloadAssumption == NoTree \notin Payload

VARIABLES
    owners,    \* what is at each address: alive, visible, its tree
    handles,   \* the table: [id, at], and whether what it was made for is still there
    nextId,    \* handle_next
    holds,      \* references of each storage
    band,      \* hosts, retired, exits, commands, context_valid
    solving,   \* in_pass, and where it runs Lua
    marked     \* dout->dirty
passVars == <<owners, handles, nextId, holds, band, solving, marked>>

Nobody == [alive |-> FALSE, visible |-> FALSE, tree |-> NoTree]
Empty  == [hosts |-> {}, retired |-> {}, exits |-> {}, commands |-> {}, valid |-> FALSE]

PassTypeOK ==
    /\ owners \in [Owner -> [alive : BOOLEAN, visible : BOOLEAN, tree : Payload \cup {NoTree}]]
    /\ handles \subseteq [id : 1..MaxHandles, at : Owner, there : BOOLEAN]
    /\ nextId \in 1..MaxHandles + 1 /\ holds \in [Payload -> Nat]
    /\ band.hosts \subseteq Owner \X Payload /\ band.retired \subseteq Payload
    /\ band.exits \subseteq Owner /\ band.valid \in BOOLEAN
    /\ \A c \in band.commands : c.at \in Owner /\ c.tree \in Payload /\ c.id \in 1..MaxHandles
    /\ solving \in {"no", "compile", "settle"} /\ marked \in BOOLEAN

-----------------------------------------------------------------------------
(* Storages.                                                                  *)

Free(r) == {p \in Payload : r[p] = 0}
Release(r, ps) == [p \in Payload |-> IF p \in ps THEN r[p] - 1 ELSE r[p]]
OwnTree(a) == {owners[a].tree} \ {NoTree}

(* widget_nodes_set(): a tree that a view shares is copied before it changes. *)
Writable(a) == owners[a].tree # NoTree /\ holds[owners[a].tree] = 1
widget_nodes_set(a) ==
    /\ owners[a].alive /\ ~Writable(a) /\ Free(holds) # {}
    /\ LET p == CHOOSE q \in Free(holds) : TRUE
       IN /\ holds' = [Release(holds, OwnTree(a)) EXCEPT ![p] = 1]
          /\ owners' = [owners EXCEPT ![a].tree = p]
    /\ UNCHANGED <<handles, nextId, band, solving, marked>>
widget_nodes_clear(a) ==
    /\ owners[a].tree # NoTree
    /\ holds' = Release(holds, OwnTree(a)) /\ owners' = [owners EXCEPT ![a].tree = NoTree]
    /\ UNCHANGED <<handles, nextId, band, solving, marked>>

-----------------------------------------------------------------------------
(* Owners.  Visible ones and those held for their exit are referenced from    *)
(* the registry; the collector may take any other.                            *)

AllocateOwner(a) ==
    /\ ~owners[a].alive
    /\ owners' = [owners EXCEPT ![a].alive = TRUE]
    /\ UNCHANGED <<handles, nextId, holds, band, solving, marked>>
SetVisible(a, v) ==
    /\ owners[a].alive /\ owners[a].visible # v
    /\ owners' = [owners EXCEPT ![a].visible = v] /\ marked' = TRUE
    /\ UNCHANGED <<handles, nextId, holds, band, solving>>

\* Mutant: the handle stays in the table.
HandleDrop_keeps(a) == handles

(* declare_handle_drop() *)
HandleDrop(a) == {h \in handles : h.at # a}

drawin_wipe(a) ==
    /\ owners[a].alive /\ ~owners[a].visible /\ a \notin band.exits
    /\ handles' = {IF h.at = a THEN [h EXCEPT !.there = FALSE] ELSE h : h \in HandleDrop(a)}
    /\ holds' = Release(holds, OwnTree(a)) /\ owners' = [owners EXCEPT ![a] = Nobody]
    /\ marked' = TRUE
    /\ UNCHANGED <<nextId, band, solving>>

-----------------------------------------------------------------------------
(* The pass.                                                                  *)

(* The mark is cleared before clay::declare: what handlers mark waits.        *)
Begin ==
    /\ marked /\ solving = "no" /\ solving' = "compile" /\ marked' = FALSE
    /\ UNCHANGED <<owners, handles, nextId, holds, band>>

DeclaredOwners == {a \in Owner : owners[a].visible /\ owners[a].tree # NoTree}
Unnamed  == {a \in DeclaredOwners : \A h \in handles : h.at # a}

(* declare_handle_for(): each object without a handle gets the next one.      *)
IdOf(hs, a) == (CHOOSE h \in hs : h.at = a).id
Named ==
    LET order == CHOOSE f \in [Unnamed -> 1..Cardinality(Unnamed)] :
                     \A a, b \in Unnamed : f[a] = f[b] => a = b
    IN handles \cup {[id |-> nextId + order[a] - 1, at |-> a, there |-> TRUE] : a \in Unnamed}

(* Elements that were drawn, are no longer declared, and still fade; the      *)
(* layout engine keeps their commands, and the memory those point to.         *)
Fadeable == {c \in band.commands : c.at \in Fading /\ c.at \notin DeclaredOwners}

(* A pass that fits commits: the new views are held first; an old one is      *)
(* retired while commands still point into a storage that no new view shares, *)
(* and released otherwise; owners are let go whose commands are all gone.     *)
CommitPass(fading, hs) ==
    LET hosts == {<<a, owners[a].tree>> : a \in DeclaredOwners}
        now   == {h[2] : h \in hosts}
        old   == {h[2] : h \in band.hosts}
        kept  == {p \in (old \cup band.retired) \ now : \E c \in fading : c.tree = p}
        commands == {[id |-> IdOf(hs, h[1]), at |-> h[1], tree |-> h[2]] : h \in hosts} \cup fading
        released == [p \in Payload |-> (IF p \in old THEN 1 ELSE 0) + (IF p \in band.retired THEN 1 ELSE 0)
                                       - (IF p \in kept THEN 1 ELSE 0)]
    IN /\ Cardinality(kept) <= MaxRetired
       /\ band' = [hosts |-> hosts, retired |-> kept, valid |-> TRUE, commands |-> commands,
                   exits |-> {a \in band.exits \cup (DeclaredOwners \cap Fading) :
                                 \E c \in commands : c.at = a}]
       /\ holds' = [p \in Payload |-> holds[p] + (IF p \in now THEN 1 ELSE 0) - released[p]]
       /\ solving' = "settle"

(* Any allocation, the capacity of the layout or the bound on retired         *)
(* storages may fail: the views of this pass are dropped again, the context   *)
(* starts anew, and marks raised meanwhile are forgotten.                     *)
FailPass ==
    /\ band' = [band EXCEPT !.commands = {}, !.valid = FALSE, !.exits = @ \cup (DeclaredOwners \cap Fading)]
    /\ marked' = FALSE /\ solving' = "no" /\ UNCHANGED holds

Solve ==
    /\ solving = "compile"
    /\ nextId + Cardinality(Unnamed) <= MaxHandles + 1
    /\ handles' = Named /\ nextId' = nextId + Cardinality(Unnamed)
    /\ \/ \E fading \in SUBSET Fadeable : CommitPass(fading, Named) /\ UNCHANGED marked
       \/ FailPass
    /\ UNCHANGED owners

(* Handlers of the solved boxes ran; the commands are drawn.                  *)
Reconcile ==
    /\ solving = "settle" /\ solving' = "no"
    /\ marked' \in {marked, TRUE}   \* a transition runs on
    /\ UNCHANGED <<owners, handles, nextId, holds, band>>

(* declare_state_clear(), as the Lua state goes, and its drawins after it.    *)
Reload ==
    /\ solving = "no"
    /\ handles' = {} /\ marked' = TRUE
    /\ owners' = [a \in Owner |-> Nobody]
    /\ band' = Empty
    /\ holds' = [p \in Payload |-> holds[p] - Cardinality({h \in band.hosts : h[2] = p})
                    - (IF p \in band.retired THEN 1 ELSE 0)
                    - Cardinality({a \in Owner : owners[a].tree = p})]
    /\ UNCHANGED <<nextId, solving>>

PassInit ==
    /\ owners = [a \in Owner |-> Nobody] /\ handles = {} /\ nextId = 1
    /\ holds = [p \in Payload |-> 0] /\ band = Empty /\ solving = "no" /\ marked = TRUE

PassNext ==
    \/ \E a \in Owner : \/ AllocateOwner(a) \/ drawin_wipe(a) \/ widget_nodes_set(a) \/ widget_nodes_clear(a)
                        \/ \E v \in BOOLEAN : SetVisible(a, v)
    \/ Begin \/ Solve \/ Reconcile \/ Reload

PassSpec == PassInit /\ [][PassNext]_passVars

-----------------------------------------------------------------------------
(* Every reference of a storage is that of an owner's tree, of a view or of   *)
(* the retired list, so none is freed under its users and none leaks.         *)
StoragesBalance ==
    \A p \in Payload : holds[p] = Cardinality({a \in Owner : owners[a].tree = p})
                                 + Cardinality({h \in band.hosts : h[2] = p})
                                 + (IF p \in band.retired THEN 1 ELSE 0)

(* What a command points into is there while the command may be drawn again,  *)
(* whatever Lua does with the tree or its owner meanwhile.                    *)
CommandsPointToMemory ==
    \A c \in band.commands : \/ \E h \in band.hosts : h[2] = c.tree
                             \/ c.tree \in band.retired

(* The owner of an element that may fade out stays until it has.              *)
FadingOwnersStay == \A c \in band.commands : c.at \in Fading => owners[c.at].alive

(* A handle answers the object it was made for or nothing, though addresses   *)
(* are used again.                                                            *)
HandlesNameTheirOwn ==
    \A h \in handles : h.there /\ owners[h.at].alive

(* A pass points only into memory that is held, whatever Lua does in it, and   *)
(* names only what it was made for.                                           *)
PassesSound ==
    /\ StoragesBalance /\ CommandsPointToMemory
    /\ FadingOwnersStay /\ HandlesNameTheirOwn

(* Where shadows are drawn from the owner's own memory, an owner without an   *)
(* exit must outlive the pass as well.                                        *)
OwnersOutliveThePass == solving = "settle" => \A c \in band.commands : owners[c.at].alive
=============================================================================
