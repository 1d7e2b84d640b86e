----------------------------- MODULE SessionLock -----------------------------
(***************************************************************************)
(* The two session locks: the lock that Lua draws (awesome.lock(), luaa.c  *)
(* and somewm.c) and ext-session-lock-v1 (protocols.c), with the part of   *)
(* the focus they save, block and give back.                               *)
(*                                                                         *)
(* A client stands for its surface, which is mapped while the client is    *)
(* shown; an output stands for its lock surface.  No layer surface is      *)
(* mapped: who keeps the keyboard from whom is module Focus.               *)
(***************************************************************************)
EXTENDS Sequences, FiniteSets, Functions, SequencesExt

CONSTANTS
    Client,         \* clients
    Drawin,         \* drawins that Lua registers as lock surface or cover
    Output,         \* outputs, each with room for one lock surface
    MaxCovers,      \* MAX_LOCK_COVERS
    None,           \* no client, no drawin, no surface
    FocusesLocked   \* whether Lua sets client.focus while the session is locked

ASSUME NoneAssumption == None \notin Client \cup Drawin \cup Output
ASSUME KindsDiffer == Client \cap Output = {}
ASSUME MaxCoversAssumption == MaxCovers \in Nat
ASSUME FocusesLockedAssumption == FocusesLocked \in BOOLEAN

VARIABLES
    lua,        \* lua_locked and lua_authenticated
    surface,    \* lua_lock_surface
    pinned,     \* the drawin that lua_lock_surface_ref keeps alive
    covers,     \* lua_lock_covers
    coverRefs,  \* lua_lock_cover_refs: the drawin each of them keeps alive
    pre,        \* pre_lock_focused_client
    ext,        \* `locked' and whether cur_lock is set
    panes,      \* the outputs with m->lock_surface
    selmon,     \* the selected output
    listed,     \* globalconf.clients
    shown,      \* the listed clients with a scene node and a mapped surface
    focus,      \* globalconf.focus.client
    seat,       \* the surface the seat's keyboard is on
    proved      \* history: authenticate() succeeded since the session locked

lockVars == <<lua, surface, pinned, covers, coverRefs, pre>>
focusVars == <<listed, shown, focus, seat>>
vars == <<lockVars, ext, panes, selmon, focusVars, proved>>

session_is_locked(l, e) == l.locked \/ e.locked

Init ==
    /\ lua = [locked |-> FALSE, auth |-> FALSE]
    /\ surface = None /\ pinned = None
    /\ covers = <<>> /\ coverRefs = <<>>
    /\ pre = None
    /\ ext = [locked |-> FALSE, lock |-> FALSE]
    /\ panes = {} /\ selmon \in Output
    /\ listed = {} /\ shown = {} /\ focus = None /\ seat = None
    /\ proved = FALSE

-----------------------------------------------------------------------------
(* The functions that move the focus, under the locks l and e.             *)

focusclient(c, l, e) ==
    IF session_is_locked(l, e) THEN UNCHANGED <<focus, seat>>
    ELSE focus' = c /\ seat' = (IF c \in shown THEN c ELSE seat)

(* Lua answers request::focus_restore with client.focus = c or leaves the  *)
(* focus as it is; with none the top client gets it, whichever it is.      *)
focus_restore(l, e) ==
    IF session_is_locked(l, e) THEN UNCHANGED <<focus, seat>>
    ELSE \/ focus # None /\ UNCHANGED <<focus, seat>>
         \/ \E c \in shown : focus' = c /\ seat' = c
         \/ focus = None /\ shown = {} /\ UNCHANGED <<focus, seat>>

(* client.focus = c asks no lock.                                          *)
LuaFocuses(c) ==
    /\ c \in shown
    /\ session_is_locked(lua, ext) => FocusesLocked
    /\ focus' = c /\ seat' = c
    /\ UNCHANGED <<lockVars, ext, panes, selmon, listed, shown, proved>>

client_focus_refresh ==
    /\ focus = None /\ seat # None
    /\ seat' = None
    /\ UNCHANGED <<lockVars, ext, panes, selmon, listed, shown, focus, proved>>

MapNotify(c) ==
    /\ c \notin shown
    /\ listed' = listed \cup {c} /\ shown' = shown \cup {c}
    /\ UNCHANGED <<lockVars, ext, panes, selmon, focus, seat, proved>>

\* Mutant: only the seat is cleared.
UnmapNotify_focused(c) ==
    /\ c \in shown
    /\ shown' = shown \ {c}
    /\ seat' = (IF seat = c THEN None ELSE seat)
    /\ UNCHANGED <<lockVars, ext, panes, selmon, listed, focus, proved>>

(* unmapnotify() of a toplevel: the client stays, its scene goes.          *)
UnmapNotify(c) ==
    /\ c \in shown
    /\ shown' = shown \ {c}
    /\ focus' = (IF focus = c THEN None ELSE focus)
    /\ seat' = (IF seat = c THEN None ELSE seat)
    /\ UNCHANGED <<lockVars, ext, panes, selmon, listed, proved>>

\* Mutant: the pointer to the client focused before the lock is kept.
client_unmanage_saved(c) ==
    /\ c \in listed \ shown
    /\ listed' = listed \ {c}
    /\ focus' = (IF focus = c THEN None ELSE focus)
    /\ UNCHANGED <<lockVars, ext, panes, selmon, shown, seat, proved>>

client_unmanage(c) ==
    /\ c \in listed \ shown
    /\ listed' = listed \ {c}
    /\ focus' = (IF focus = c THEN None ELSE focus)
    /\ pre' = (IF pre = c THEN None ELSE pre)
    /\ UNCHANGED <<lua, surface, pinned, covers, coverRefs, ext, panes, selmon, shown, seat, proved>>

-----------------------------------------------------------------------------
(* The Lua lock.                                                           *)

\* Mutant: an earlier authentication is still good.
LockKeepsAuth ==
    /\ ~lua.locked /\ surface # None /\ ~ext.locked
    /\ lua' = [lua EXCEPT !.locked = TRUE]
    /\ pre' = focus /\ seat' = None
    /\ proved' = FALSE
    /\ UNCHANGED <<surface, pinned, covers, coverRefs, ext, panes, selmon, listed, shown, focus>>

(* lock() and some_activate_lua_lock(): globalconf.focus.client stays.     *)
Lock ==
    /\ ~lua.locked /\ surface # None /\ ~ext.locked
    /\ lua' = [locked |-> TRUE, auth |-> FALSE]
    /\ pre' = focus /\ seat' = None
    /\ proved' = FALSE
    /\ UNCHANGED <<surface, pinned, covers, coverRefs, ext, panes, selmon, listed, shown, focus>>

\* Mutant: the deactivation runs before the flag is cleared.
Deactivated_locked(l) ==
    /\ pre' = None
    /\ IF pre \in shown THEN focusclient(pre, lua, ext) ELSE focus_restore(lua, ext)

(* some_deactivate_lua_lock(), once the lock is l.                         *)
Deactivated(l) ==
    /\ pre' = None
    /\ IF pre \in shown THEN focusclient(pre, l, ext) ELSE focus_restore(l, ext)

Unlocked == [locked |-> FALSE, auth |-> FALSE]

Unlock ==
    /\ lua.locked /\ lua.auth
    /\ lua' = Unlocked
    /\ Deactivated(Unlocked)
    /\ UNCHANGED <<surface, pinned, covers, coverRefs, ext, panes, selmon, listed, shown, proved>>

authenticate(success) ==
    /\ lua' = [lua EXCEPT !.auth = @ \/ success]
    /\ proved' = (proved \/ success)
    /\ UNCHANGED <<surface, pinned, covers, coverRefs, pre, ext, panes, selmon, focusVars>>

set_lock_surface(d) ==
    /\ surface' = d /\ pinned' = d
    /\ UNCHANGED <<lua, covers, coverRefs, pre, ext, panes, selmon, focusVars, proved>>

clear_lock_surface ==
    /\ surface # None
    /\ surface' = None /\ pinned' = None
    /\ UNCHANGED <<lua, covers, coverRefs, pre, ext, panes, selmon, focusVars, proved>>

add_lock_cover(d) ==
    /\ d \notin Range(covers) /\ Len(covers) < MaxCovers
    /\ covers' = Append(covers, d)
    /\ coverRefs' = Append(coverRefs, d)
    /\ UNCHANGED <<lua, surface, pinned, pre, ext, panes, selmon, focusVars, proved>>

remove_lock_cover_at(i) ==
    /\ covers' = RemoveAt(covers, i)
    /\ coverRefs' = RemoveAt(coverRefs, i)

RemoveLockCover(d) ==
    /\ \E i \in DOMAIN covers : covers[i] = d /\ remove_lock_cover_at(i)
    /\ UNCHANGED <<lua, surface, pinned, pre, ext, panes, selmon, focusVars, proved>>

clear_lock_covers ==
    /\ covers # <<>>
    /\ covers' = <<>> /\ coverRefs' = <<>>
    /\ UNCHANGED <<lua, surface, pinned, pre, ext, panes, selmon, focusVars, proved>>

(* some_notify_drawin_destroyed(): a reference to the wibox table does not *)
(* keep its drawin if Lua gives the wibox another.                         *)
DrawinDestroyed(d) ==
    /\ d = surface \/ d \in Range(covers)
    /\ surface' = (IF surface = d THEN None ELSE surface)
    /\ pinned' = (IF surface = d THEN None ELSE pinned)
    /\ IF lua.locked /\ d = surface
       THEN lua' = Unlocked /\ Deactivated(Unlocked)
       ELSE UNCHANGED <<lua, pre, focus, seat>>
    /\ IF d \in Range(covers)
       THEN \E i \in DOMAIN covers : covers[i] = d /\ remove_lock_cover_at(i)
       ELSE UNCHANGED <<covers, coverRefs>>
    /\ UNCHANGED <<ext, panes, selmon, listed, shown, proved>>

(* lock_hot_reload(): on the way of a reload the old state still runs Lua, *)
(* after a configuration that timed out it does not.                       *)
lock_hot_reload(safe) ==
    /\ lua' = Unlocked
    /\ IF lua.locked /\ safe THEN Deactivated(Unlocked)
       ELSE UNCHANGED <<focus, seat>> /\ pre' = (IF lua.locked THEN None ELSE pre)
    /\ surface' = None /\ pinned' = None /\ covers' = <<>> /\ coverRefs' = <<>>
    /\ UNCHANGED <<ext, panes, selmon, listed, shown, proved>>

-----------------------------------------------------------------------------
(* ext-session-lock-v1.                                                    *)

\* Mutant: the lock that Lua holds is not looked at.
locksession_beside ==
    /\ ~ext.lock
    /\ focusclient(None, lua, ext)
    /\ ext' = [locked |-> TRUE, lock |-> TRUE]
    /\ UNCHANGED <<lockVars, panes, selmon, listed, shown, proved>>

(* It takes over from a locker that died, which leaves the session locked. *)
locksession ==
    /\ ~ext.lock /\ ~lua.locked
    /\ focusclient(None, lua, ext)
    /\ ext' = [locked |-> TRUE, lock |-> TRUE]
    /\ UNCHANGED <<lockVars, panes, selmon, listed, shown, proved>>

createlocksurface(m) ==
    /\ ext.lock /\ m \notin panes
    /\ panes' = panes \cup {m}
    /\ seat' = (IF m = selmon THEN m ELSE seat)
    /\ UNCHANGED <<lockVars, ext, selmon, listed, shown, focus, proved>>

(* The protocol's list may still hold the surface that is being destroyed. *)
destroylocksurface(m) ==
    /\ m \in panes
    /\ panes' = panes \ {m}
    /\ IF seat # m THEN UNCHANGED <<focus, seat>>
       ELSE IF ext.locked
            THEN /\ seat' \in (IF ext.lock /\ panes' # {} THEN panes' ELSE {None})
                 /\ UNCHANGED focus
            ELSE focus_restore(lua, ext)
    /\ UNCHANGED <<lockVars, ext, selmon, listed, shown, proved>>

(* destroylock(): the locker unlocks and its surfaces go, or it is gone and *)
(* the session stays locked.                                               *)
destroylock(unlock) ==
    /\ ext.lock
    /\ unlock \/ panes = {}
    /\ ext' = [locked |-> ~unlock, lock |-> FALSE]
    /\ panes' = {}
    /\ \/ unlock /\ \E c \in shown : focus' = c /\ seat' = c
       \/ /\ unlock => focus # None \/ shown = {}
          /\ focus' = focus /\ seat' = None
    /\ UNCHANGED <<lockVars, selmon, listed, shown, proved>>

(* The selected output changes under the pointer or by hotplug.            *)
SelectOutput(m) ==
    /\ m # selmon
    /\ selmon' = m
    /\ UNCHANGED <<lockVars, ext, panes, focusVars, proved>>

LockNext ==
    \/ \E c \in Client : LuaFocuses(c) \/ MapNotify(c) \/ UnmapNotify(c) \/ client_unmanage(c)
    \/ client_focus_refresh
    \/ Lock \/ Unlock
    \/ \E success \in BOOLEAN : authenticate(success)
    \/ \E d \in Drawin : set_lock_surface(d) \/ add_lock_cover(d) \/ RemoveLockCover(d) \/ DrawinDestroyed(d)
    \/ clear_lock_surface \/ clear_lock_covers
    \/ locksession
    \/ \E m \in Output : createlocksurface(m) \/ destroylocksurface(m) \/ SelectOutput(m)
    \/ \E unlock \in BOOLEAN : destroylock(unlock)

-----------------------------------------------------------------------------
(* Properties.                                                             *)

LockTypeOK ==
    /\ lua \in [locked : BOOLEAN, auth : BOOLEAN]
    /\ {surface, pinned} \subseteq Drawin \cup {None}
    /\ covers \in Seq(Drawin) /\ coverRefs \in Seq(Drawin)
    /\ Len(covers) \leq MaxCovers
    /\ ext \in [locked : BOOLEAN, lock : BOOLEAN]
    /\ panes \subseteq Output /\ selmon \in Output
    /\ shown \subseteq listed /\ listed \subseteq Client
    /\ pre \in Client \cup {None} /\ focus \in shown \cup {None}
    /\ seat \in shown \cup panes \cup {None}
    /\ proved \in BOOLEAN

(* Nothing the lock remembers dangles: each registered drawin is kept      *)
(* alive by the reference stored beside it, none is a cover twice, and the *)
(* client to give the focus back to is still managed.                      *)
LockPointersSound ==
    /\ pinned = surface
    /\ coverRefs = covers /\ IsInjective(covers)
    /\ pre \in listed \cup {None}

(* "Two independent lock mechanisms competing causes undefined behavior":  *)
(* at most one lock is on, however they are asked for.                     *)
OneLockAtATime == ~(lua.locked /\ ext.locked)

(* The Lua lock ends because the password was proved since it began, its   *)
(* surface is destroyed, or Lua's state is replaced; never by an           *)
(* authentication that came before the lock.                               *)
UnlockIsProved ==
    [][lua.locked /\ ~lua'.locked => proved \/ (surface' = None /\ ~lua.auth)]_vars

(* When the session is unlocked and some client is shown, a client has the *)
(* keyboard; the one that had it before the Lua lock if it is still shown. *)
(* Only a state that can run no more Lua is swapped without a word to it.  *)
KeyboardComesBack ==
    [][session_is_locked(lua, ext) /\ ~session_is_locked(lua', ext') /\ shown' # {} =>
          \/ lua.locked /\ seat' = (IF pre \in shown THEN pre ELSE focus')
          \/ ext.locked /\ seat' = focus' /\ seat' \in shown
          \/ lua.locked /\ surface' = None /\ UNCHANGED focusVars]_vars
=============================================================================
