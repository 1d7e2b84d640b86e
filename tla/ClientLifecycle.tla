---------------------------- MODULE ClientLifecycle ----------------------------
(***************************************************************************)
(* window.c, xwayland.c, client_unmanage() and the client part of a hot    *)
(* reload: how a client object follows the surface it shows.               *)
(*                                                                         *)
(* A client_t is Lua userdata with wlroots listeners embedded in it.  C    *)
(* holds one registry reference to it for as long as a listener points     *)
(* into it.  An xdg toplevel that unmaps passes to a new client object; an *)
(* X11 window that unmaps keeps its object, which is managed again when    *)
(* the window maps again.  A hot reload moves every listed client into     *)
(* userdata of the new Lua state and leaves the others where they are.     *)
(*                                                                         *)
(* A client is named by its id, which a reload copies.  After an event     *)
(* that reaches freed userdata the program is undefined: no more events of *)
(* a surface are followed once it is in strayed.                           *)
(***************************************************************************)
EXTENDS Integers

CONSTANTS
    Toplevel,       \* xdg toplevels
    XWindow,        \* XWayland windows
    NoSurface,      \* the surface of a client not made yet
    MaxClients,     \* bound on the client objects of one behaviour
    MaxReloads,     \* bound on the hot reloads of one behaviour
    LuaUnmanages    \* whether Lua may call c:unmanage()

ASSUME SurfacesDiffer == Toplevel \cap XWindow = {}
ASSUME NoSurfaceAssumption == NoSurface \notin Toplevel \cup XWindow
ASSUME MaxClientsAssumption == MaxClients \in Nat
ASSUME MaxReloadsAssumption == MaxReloads \in Nat
ASSUME LuaUnmanagesAssumption == LuaUnmanages \in BOOLEAN

Surface == Toplevel \cup XWindow
Client == 1..MaxClients

VARIABLES
    phase,      \* what wlroots knows of each surface
    override,   \* the X11 windows that are override-redirect
    made,       \* the number of client objects made
    obj,        \* the client objects
    listed,     \* how many entries of globalconf.clients each client has
    stack,      \* the clients in globalconf.stack
    announced,  \* the clients Lua was asked to manage, and not yet to unmanage
    gen,        \* how many times the Lua state was replaced
    strayed     \* history: surfaces left with listeners in freed userdata

protocol == <<phase, override>>
objects == <<made, obj, listed, stack, announced>>
vars == <<phase, override, made, obj, listed, stack, announced, gen, strayed>>

-----------------------------------------------------------------------------
(* Client objects.  The listeners: "core" is destroy and all those that    *)
(* come and go with it, "map" is map and unmap.  linked is what            *)
(* client_checker() reads: surface.xdg, or window for X11.                 *)

Listener == {"core", "initial_commit", "commit", "map"}

Object == [surface : Surface \cup {NoSurface}, refs : 0..1, linked : BOOLEAN,
           scene : BOOLEAN, wired : SUBSET Listener, gen : Nat]

Unmade == [surface |-> NoSurface, refs |-> 0, linked |-> FALSE,
           scene |-> FALSE, wired |-> {}, gen |-> 0]

NewClient(s) ==
    [surface |-> s, refs |-> 1, linked |-> TRUE, scene |-> FALSE, gen |-> gen,
     wired |-> IF s \in Toplevel THEN {"core", "initial_commit", "map"} ELSE {"core"}]

IsX11(c) == obj[c].surface \in XWindow
IsUnmanaged(c) == obj[c].surface \in override

(* The clients a signal of s reaches.                                      *)
Hears(s, listener) == {c \in Client : obj[c].surface = s /\ listener \in obj[c].wired}

Init ==
    /\ phase = [s \in Surface |-> "none"]
    /\ override = {}
    /\ made = 0
    /\ obj = [c \in Client |-> Unmade]
    /\ listed = [c \in Client |-> 0]
    /\ stack = {}
    /\ announced = {}
    /\ gen = 0
    /\ strayed = {}

SetPhase(s, p) == phase' = [phase EXCEPT ![s] = p]

-----------------------------------------------------------------------------
(* A new toplevel or X11 window.                                           *)

Create(s) ==
    /\ phase[s] = "none"
    /\ made < MaxClients
    /\ SetPhase(s, IF s \in Toplevel THEN "unconfigured" ELSE "unpaired")
    /\ made' = made + 1
    /\ obj' = [obj EXCEPT ![made + 1] = NewClient(s)]
    /\ listed' = [listed EXCEPT ![made + 1] = 1]
    /\ \/ override' = override
       \/ s \in XWindow /\ override' = override \cup {s}
    /\ UNCHANGED <<stack, announced, gen, strayed>>

InitialCommit(s) ==
    /\ phase[s] = "unconfigured"
    /\ \E c \in Hears(s, "initial_commit") : obj[c].linked
    /\ SetPhase(s, "configured")
    /\ UNCHANGED <<override, objects, gen, strayed>>

-----------------------------------------------------------------------------
(* mapnotify().  Its scene surface may fail to be made: the client then    *)
(* stays as it was.  An X11 window whose client was unmanaged by an unmap  *)
(* is linked and listed again.                                             *)

\* Mutant: an X11 client is pushed to globalconf.clients at every map.
RemapsAlways(c) == IsX11(c)

Remaps(c) == IsX11(c) /\ ~obj[c].linked

\* Mutant: override-redirect windows do not skip the manage machinery.
MapNotifyManagesAll(c, o) ==
    /\ obj' = [obj EXCEPT ![c] =
                  [o EXCEPT !.scene = TRUE,
                            !.linked = IF Remaps(c) THEN TRUE ELSE @,
                            !.wired = IF IsX11(c) THEN @ ELSE @ \cup {"commit"}]]
    /\ listed' = IF Remaps(c) THEN [listed EXCEPT ![c] = @ + 1] ELSE listed
    /\ stack' = stack \cup {c}
    /\ announced' = announced \cup {c}

MapNotify(c, o) ==
    /\ obj' = [obj EXCEPT ![c] =
                  [o EXCEPT !.scene = TRUE,
                            !.linked = IF Remaps(c) THEN TRUE ELSE @,
                            !.wired = IF IsX11(c) THEN @ ELSE @ \cup {"commit"}]]
    /\ listed' = IF Remaps(c) THEN [listed EXCEPT ![c] = @ + 1] ELSE listed
    /\ stack' = stack \cup {c}
    /\ announced' = IF IsUnmanaged(c) THEN announced ELSE announced \cup {c}

SceneFails(c, o) ==
    /\ obj' = [obj EXCEPT ![c] = o]
    /\ UNCHANGED <<listed, stack, announced>>

Map(s) ==
    /\ s \notin strayed
    /\ phase[s] = IF s \in Toplevel THEN "configured" ELSE "paired"
    /\ SetPhase(s, "mapped")
    /\ \E c \in Hears(s, "map") : MapNotify(c, obj[c]) \/ SceneFails(c, obj[c])
    /\ UNCHANGED <<override, made, gen, strayed>>

(* A wl_surface is paired with the X11 window.  One that holds a buffer it *)
(* committed too early for wlroots to map is mapped on the spot.           *)
Associate(s) ==
    /\ s \notin strayed
    /\ phase[s] = "unpaired"
    /\ \E c \in Hears(s, "core") :
          LET o == [obj[c] EXCEPT !.wired = @ \cup {"map"}]
          IN  \/ SetPhase(s, "paired") /\ SceneFails(c, o)
              \/ SetPhase(s, "mapped") /\ (MapNotify(c, o) \/ SceneFails(c, o))
    /\ UNCHANGED <<override, made, gen, strayed>>

-----------------------------------------------------------------------------
(* unmapnotify(), which client_unmanage() is a part of.                    *)

Unmanages(c) == obj[c].scene /\ ~IsUnmanaged(c)

\* Mutant: client_unmanage() releases the reference on an unmap too.
UnmappedReleases(c) ==
    IF Unmanages(c)
    THEN [obj[c] EXCEPT !.scene = FALSE, !.linked = FALSE, !.refs = 0,
                        !.wired = @ \ {"commit"}]
    ELSE [obj[c] EXCEPT !.scene = FALSE]

Unmapped(c) ==
    IF Unmanages(c)
    THEN [obj[c] EXCEPT !.scene = FALSE, !.linked = FALSE, !.wired = @ \ {"commit"}]
    ELSE [obj[c] EXCEPT !.scene = FALSE]

Delist(c) == [listed EXCEPT ![c] = IF @ = 0 THEN 0 ELSE @ - 1]

ForgetIf(unmanages, c) ==
    /\ listed' = IF unmanages THEN Delist(c) ELSE listed
    /\ stack' = IF unmanages THEN stack \ {c} ELSE stack
    /\ announced' = IF unmanages THEN announced \ {c} ELSE announced

(* An X11 window is unmapped: its surface unmaps, then is dissociated.     *)
Dissociate(s) ==
    /\ s \notin strayed
    /\ s \in XWindow /\ phase[s] \in {"paired", "mapped"}
    /\ SetPhase(s, "unpaired")
    /\ \E c \in Hears(s, "core") :
          /\ obj' = [obj EXCEPT ![c] = [Unmapped(c) EXCEPT !.wired = @ \ {"map"}]]
          /\ ForgetIf(Unmanages(c), c)
    /\ UNCHANGED <<override, made, gen, strayed>>

(* A toplevel commits a null buffer: it unmaps, then the same commit       *)
(* reaches initialcommitnotify(), where a new client takes the toplevel    *)
(* from the one the unmap left without it.                                 *)

HandsOver(c) == "initial_commit" \in obj[c].wired /\ ~Unmapped(c).linked

\* Mutant: the client the toplevel is taken from keeps its reference.
HandOverKeepsRef(c, s) ==
    /\ made < MaxClients
    /\ made' = made + 1
    /\ obj' = [obj EXCEPT ![c] = [Unmapped(c) EXCEPT !.wired = {}],
                          ![made + 1] = NewClient(s)]
    /\ listed' = [Delist(c) EXCEPT ![made + 1] = 1]
    /\ stack' = stack \ {c}
    /\ announced' = announced \ {c}

HandOver(c, s) ==
    /\ made < MaxClients
    /\ made' = made + 1
    /\ obj' = [obj EXCEPT ![c] = [Unmapped(c) EXCEPT !.wired = {}, !.refs = @ - 1],
                          ![made + 1] = NewClient(s)]
    /\ listed' = [Delist(c) EXCEPT ![made + 1] = 1]
    /\ stack' = stack \ {c}
    /\ announced' = announced \ {c}

KeepClient(c) ==
    /\ obj' = [obj EXCEPT ![c] = Unmapped(c)]
    /\ ForgetIf(Unmanages(c), c)
    /\ made' = made

NullCommit(s) ==
    /\ s \notin strayed
    /\ s \in Toplevel /\ phase[s] = "mapped"
    /\ SetPhase(s, "unconfigured")
    /\ \E c \in Hears(s, "core") : IF HandsOver(c) THEN HandOver(c, s) ELSE KeepClient(c)
    /\ UNCHANGED <<override, gen, strayed>>

-----------------------------------------------------------------------------
(* The toplevel or window is destroyed, after it was unmapped if it was    *)
(* mapped: a client still listed is unmanaged, and the reference is        *)
(* released in either case.                                                *)

Destroyed(c) == [Unmapped(c) EXCEPT !.linked = FALSE, !.refs = @ - 1, !.wired = {}]

Destroy(s) ==
    /\ s \notin strayed
    /\ phase[s] \notin {"none", "gone"}
    /\ SetPhase(s, "gone")
    /\ \E c \in Hears(s, "core") :
          /\ obj' = [obj EXCEPT ![c] = Destroyed(c)]
          /\ ForgetIf(TRUE, c)
    /\ UNCHANGED <<override, made, gen, strayed>>

(* c:unmanage(): the reference is released but the listeners stay, with    *)
(* nothing to keep the userdata they are in.                               *)
LuaUnmanage(c) ==
    /\ LuaUnmanages
    /\ obj[c].linked /\ obj[c].gen = gen
    /\ obj' = [obj EXCEPT ![c].linked = FALSE, ![c].refs = @ - 1]
    /\ ForgetIf(TRUE, c)
    /\ strayed' = strayed \cup {obj[c].surface}
    /\ UNCHANGED <<protocol, made, gen>>

-----------------------------------------------------------------------------
(* The hot reload: clients_detach() and clients_restore() go through       *)
(* globalconf.clients, and request::manage is emitted for each client that *)
(* was mapped.                                                             *)

\* Mutant: the map and unmap listeners of an X11 window are not put back.
RewiredDeaf(c) ==
    IF IsX11(c)
    THEN {"core"}
    ELSE {"core", "map", IF obj[c].scene THEN "commit" ELSE "initial_commit"}

Rewired(c) ==
    IF IsX11(c)
    THEN IF obj[c].scene THEN {"core", "map"} ELSE {"core"}
    ELSE {"core", "map", IF obj[c].scene THEN "commit" ELSE "initial_commit"}

Restored(c) == [obj[c] EXCEPT !.wired = Rewired(c), !.gen = gen + 1]

(* A client unmanaged by an unmap is in no array; an X11 window associated *)
(* but without a scene is not given its map and unmap listeners back, and  *)
(* dissociatex11() removes them all the same.                              *)
StraysOnReload(c) ==
    /\ obj[c].wired # {}
    /\ \/ listed[c] = 0
       \/ IsX11(c) /\ "map" \in obj[c].wired /\ ~obj[c].scene

HotReload ==
    /\ gen < MaxReloads
    /\ gen' = gen + 1
    /\ obj' = [c \in Client |-> IF listed[c] > 0 THEN Restored(c) ELSE obj[c]]
    /\ stack' = {c \in Client : listed[c] > 0}
    /\ announced' = {c \in Client : listed[c] > 0 /\ obj[c].scene}
    /\ strayed' = strayed \cup {obj[c].surface : c \in {d \in Client : StraysOnReload(d)}}
    /\ UNCHANGED <<protocol, made, listed>>

Next ==
    \/ \E s \in Surface : Create(s)
    \/ \E s \in Toplevel : InitialCommit(s)
    \/ \E s \in Surface : Map(s)
    \/ \E s \in XWindow : Associate(s)
    \/ \E s \in XWindow : Dissociate(s)
    \/ \E s \in Toplevel : NullCommit(s)
    \/ \E s \in Surface : Destroy(s)
    \/ \E c \in Client : LuaUnmanage(c)
    \/ HotReload

Spec == Init /\ [][Next]_vars

-----------------------------------------------------------------------------
(* Properties.                                                             *)

TypeOK ==
    /\ phase \in [Surface -> {"none", "unconfigured", "configured",
                              "unpaired", "paired", "mapped", "gone"}]
    /\ override \subseteq XWindow
    /\ made \in 0..MaxClients
    /\ obj \in [Client -> Object]
    /\ listed \in [Client -> 0..1]
    /\ stack \subseteq Client
    /\ announced \subseteq Client
    /\ gen \in Nat
    /\ strayed \subseteq Surface

Live(c) == obj[c].refs > 0 /\ obj[c].gen = gen

(* "client_t is Lua userdata with embedded wl_listener fields.  If         *)
(* lua_close() frees the userdata, the listener links dangle": userdata    *)
(* with a listener in it is of the running state, and C holds a reference. *)
ListenersLive == \A c \in Client : obj[c].wired # {} => Live(c)

(* ... of all surfaces but those counted as strayed.                       *)
SoundListenersLive ==
    \A c \in Client : obj[c].wired # {} /\ obj[c].surface \notin strayed => Live(c)

(* The reference taken when a client is made is released exactly when its  *)
(* listeners are removed: by its destruction, or by the handover.          *)
RefsBalanced ==
    \A c \in Client :
        obj[c].surface \notin strayed => (obj[c].refs = 1 <=> obj[c].wired # {})

(* From its creation to its destruction a surface has exactly one client   *)
(* that hears of its destruction, and a gone one has none.                 *)
OneClientPerSurface ==
    \A s \in Surface \ strayed :
        IF phase[s] \in {"none", "gone"}
        THEN \A c \in Client : obj[c].surface = s => obj[c].wired = {}
        ELSE \E c \in Client : Hears(s, "core") = {c} /\
                \A d \in Client \ {c} : obj[d].surface = s => obj[d].wired = {}

(* client.valid is TRUE of the clients of globalconf.clients and no other, *)
(* and no client is there twice.                                           *)
ValidIffListed == \A c \in Client : listed[c] = IF obj[c].linked THEN 1 ELSE 0

(* Lua has been asked to manage exactly the managed clients that are on    *)
(* the screen.  An override-redirect one is never announced before a       *)
(* reload: "they skip the manage machinery".                               *)
AnnouncedIsShown ==
    /\ \A c \in Client :
          ~IsUnmanaged(c) => (c \in announced <=> obj[c].linked /\ obj[c].scene)
    /\ gen = 0 => \A c \in announced : ~IsUnmanaged(c)

(* Every client of the stack is one of globalconf.clients, and every       *)
(* client with a scene is in the stack.                                    *)
StackIsListed ==
    /\ \A c \in stack : listed[c] > 0
    /\ \A c \in Client : obj[c].linked /\ obj[c].scene => c \in stack

(* "a new client takes the toplevel as createnotify() does, so its next    *)
(* initial commit is configured": whoever waits to be configured is heard. *)
InitialCommitHeard ==
    \A s \in Toplevel :
        phase[s] = "unconfigured" /\ s \notin strayed =>
            \E c \in Hears(s, "initial_commit") : obj[c].linked

(* ... as long as there is no reload.                                      *)
InitialCommitHeardBeforeReload == gen = 0 => InitialCommitHeard

(* An X11 window that shows a surface is mapped and unmapped under a       *)
(* client that hears of it.                                                *)
PairedIsHeard ==
    \A s \in XWindow \ strayed :
        phase[s] \in {"paired", "mapped"} <=> Hears(s, "map") # {}

(* Each surface has its one client, and the clients that are valid are     *)
(* those of globalconf.clients, each there once, and those of the stack.   *)
ClientsAgree == OneClientPerSurface /\ ValidIffListed /\ StackIsListed

(* A window that waits is heard: a toplevel to be configured, as long as   *)
(* no reload came between, and an X11 window to be mapped.                 *)
WaitingIsHeard == InitialCommitHeardBeforeReload /\ PairedIsHeard
=============================================================================
