----------------------------- MODULE Selections -----------------------------
(***************************************************************************)
(* One selection of the seat, the clipboard or the primary one, and the    *)
(* Lua objects that own, watch and read it (objects/selection_acquire.c,   *)
(* selection_watcher.c, selection_getter.c; the two selections run copies  *)
(* of the same code).                                                      *)
(*                                                                         *)
(* An object collected by Lua or closed with its state is dead.  Setting   *)
(* the selection runs the watchers' Lua handlers before the caller goes    *)
(* on: a frame is a call of wlr_seat_set_selection() they run in.          *)
(***************************************************************************)
EXTENDS Naturals, Sequences

CONSTANTS
    Acquire, Watcher, Getter,   \* Lua objects of each class
    NoOwner, Foreign,           \* no source, and one of a Wayland client
    Reacquires,                 \* whether a handler of "selection_changed" may acquire
    MaxReloads                  \* bound on the hot reloads

ASSUME PartiesDiffer ==
    /\ {NoOwner, Foreign} \cap Acquire = {}
    /\ Acquire \cap Watcher = {} /\ Acquire \cap Getter = {}

VARIABLES
    owner,      \* seat->selection_source
    alive,      \* the objects that exist
    used,       \* those that ever did
    active,     \* acquires with active set
    source,     \* acquires whose source pointer is set
    linked,     \* objects with a listener, or an event source, in the compositor
    tracked,    \* objects referenced by their class's registry table
    frames,     \* what the pending calls of wlr_seat_set_selection() are for
    reloads

selectionVars == <<owner, alive, used, active, source, linked, tracked, frames, reloads>>

SelectionInit ==
    /\ owner = NoOwner /\ frames = <<>> /\ reloads = 0
    /\ alive = {} /\ used = {} /\ active = {} /\ source = {} /\ linked = {} /\ tracked = {}

(* Lua runs: from the main loop, or in a handler of a watcher.             *)
LuaRuns == frames = <<>> \/ linked \cap Watcher # {}

Allocate(o) ==
    /\ o \notin used
    /\ used' = used \cup {o}

-----------------------------------------------------------------------------
(* The seat.                                                               *)

(* What destroying the source of old does to its acquire: only an active   *)
(* one hears that it lost the selection.                                   *)
handle_source_destroy(old) == IF old \in active THEN {old} ELSE {}

(* wlr_seat_set_selection(): the source of the last owner is destroyed.    *)
SetSelection(new) ==
    LET lost == handle_source_destroy(owner) IN
    /\ owner' = new
    /\ frames' = Append(frames, new)
    /\ active' = active \ lost
    /\ source' = (source \ lost) \cup ({new} \cap Acquire)
    /\ linked' = (linked \ lost) \cup ({new} \cap Acquire)
    /\ tracked' = tracked \ lost

(* A client takes or clears the selection: setsel(), setpsel().            *)
setsel(new) ==
    /\ frames = <<>> /\ new \in {NoOwner, Foreign}
    /\ SetSelection(new)
    /\ UNCHANGED <<alive, used, reloads>>

(* The handlers are done.  Only then is a new acquire active.              *)
SelectionIsSet ==
    /\ frames # <<>>
    /\ frames' = SubSeq(frames, 1, Len(frames) - 1)
    /\ LET mine == {frames[Len(frames)]} \cap Acquire IN
           active' = active \cup mine /\ tracked' = tracked \cup mine
    /\ UNCHANGED <<owner, alive, used, source, linked, reloads>>

-----------------------------------------------------------------------------
(* Acquires.                                                               *)

luaA_selection_acquire_new(a) ==
    /\ frames = <<>> \/ (Reacquires /\ LuaRuns)
    /\ Allocate(a) /\ alive' = alive \cup {a}
    /\ SetSelection(a)
    /\ UNCHANGED reloads

luaA_selection_acquire_release(a) ==
    /\ LuaRuns /\ Len(frames) < 2
    /\ a \in active /\ a \in source /\ owner = a
    /\ SetSelection(NoOwner)
    /\ UNCHANGED <<alive, used, reloads>>

-----------------------------------------------------------------------------
(* Watchers and getters.                                                   *)

luaA_selection_watcher_new(w) ==
    /\ LuaRuns
    /\ Allocate(w) /\ alive' = alive \cup {w}
    /\ UNCHANGED <<owner, active, source, linked, tracked, frames, reloads>>

luaA_selection_watcher_set_active(w) ==
    /\ LuaRuns /\ w \in alive
    /\ IF w \in tracked THEN tracked' = tracked \ {w} /\ linked' = linked \ {w}
       ELSE tracked' = tracked \cup {w} /\ linked' = linked \cup {w}
    /\ UNCHANGED <<owner, alive, used, active, source, frames, reloads>>

(* With nothing to read, data_end is all there is, and at once.            *)
luaA_selection_getter_new(g) ==
    /\ LuaRuns
    /\ Allocate(g) /\ alive' = alive \cup {g}
    /\ IF owner = NoOwner THEN UNCHANGED <<linked, tracked>>
       ELSE linked' = linked \cup {g} /\ tracked' = tracked \cup {g}
    /\ UNCHANGED <<owner, active, source, frames, reloads>>

selection_getter_cleanup(g) == linked' = linked \ {g} /\ tracked' = tracked \ {g}

(* The pipe is at its end: data, data_end, then the cleanup.               *)
selection_getter_read_handler(g) ==
    /\ frames = <<>> /\ g \in linked
    /\ selection_getter_cleanup(g)
    /\ UNCHANGED <<owner, alive, used, active, source, frames, reloads>>

-----------------------------------------------------------------------------
(* Collection and hot reload.                                              *)

(* The finalizers: acquires and watchers unlink, getters clean up.         *)
Collect(o) ==
    /\ o \in alive \ tracked
    /\ \A i \in DOMAIN frames : frames[i] # o
    /\ alive' = alive \ {o} /\ linked' = linked \ {o}
    /\ UNCHANGED <<owner, used, active, source, tracked, frames, reloads>>

(* Of the acquires only those the table tracks are reached.                *)
selection_acquire_hot_reload ==
    owner' = IF owner \in tracked \cap source THEN NoOwner ELSE owner

WipeSelections ==
    /\ frames = <<>> /\ reloads < MaxReloads
    /\ reloads' = reloads + 1
    /\ selection_acquire_hot_reload
    /\ active' = active \ tracked /\ source' = source \ tracked
    /\ alive' = {} /\ linked' = {} /\ tracked' = {}
    /\ UNCHANGED <<used, frames>>

SelectionNext ==
    \/ setsel(Foreign) \/ setsel(NoOwner) \/ SelectionIsSet \/ WipeSelections
    \/ \E a \in Acquire : luaA_selection_acquire_new(a) \/ luaA_selection_acquire_release(a)
    \/ \E w \in Watcher : luaA_selection_watcher_new(w) \/ luaA_selection_watcher_set_active(w)
    \/ \E g \in Getter : luaA_selection_getter_new(g) \/ selection_getter_read_handler(g)
    \/ \E o \in Acquire \cup Watcher \cup Getter : Collect(o)

SelectionSpec == SelectionInit /\ [][SelectionNext]_selectionVars

-----------------------------------------------------------------------------
(* Properties.                                                             *)

SelectionTypeOK ==
    /\ owner \in Acquire \cup {NoOwner, Foreign}
    /\ alive \subseteq used /\ used \subseteq Acquire \cup Watcher \cup Getter
    /\ active \subseteq Acquire /\ source \subseteq Acquire
    /\ linked \subseteq used /\ tracked \subseteq used
    /\ \A i \in DOMAIN frames : frames[i] \in Acquire \cup {NoOwner, Foreign}
    /\ reloads \in 0..MaxReloads

(* What the compositor calls back lives and is kept alive by its table: an *)
(* acquire that owns the selection, a watcher that listens, a getter that  *)
(* reads; and after every change the owner can answer a paste.             *)
SelectionCallsTheLiving ==
    frames = <<>> =>
        /\ (linked \cap alive) \ tracked = {} /\ linked \subseteq alive
        /\ owner \in Acquire => owner \in active \cap linked \cap tracked

(* "Whether we still own the selection": outside a change, an acquire that *)
(* says it is active is the owner.                                         *)
ActiveOwns == frames = <<>> => \A a \in active : owner = a
=============================================================================
