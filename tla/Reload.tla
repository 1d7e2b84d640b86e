------------------------------- MODULE Reload -------------------------------
(***************************************************************************)
(* The Lua states of one process: the hot reload, the timeout that aborts  *)
(* a configuration that hangs and loads the next one (luaa.c), the sweep   *)
(* of the GLib sources of a dead state, and the generations of the lgi     *)
(* closure guard (lgi_closure_guard.c).                                    *)
(*                                                                         *)
(* States are numbered.  An object population is at home in the state that *)
(* owns its userdata, or nowhere while only snapshots of it exist.  A lgi  *)
(* closure is of the guard's generation at the time it was made.           *)
(***************************************************************************)
EXTENDS Integers

CONSTANTS
    MaxStates,  \* bound on the Lua states of one behaviour
    Candidates  \* configurations that loadrc tries, the last one included

ASSUME StatesAssumption == MaxStates \in Nat \ {0} /\ Candidates \in Nat

VARIABLES
    stage,         \* where the main thread is
    cur,        \* globalconf.L, 0 when there is none
    states,     \* how many states there were
    busy,       \* hot_reload_in_progress
    armed,      \* the GLib sources attached
    below,      \* those at or under glib_source_baseline
    gen, ready, \* lgi_guard_generation and lgi_guard_ready_gen
    closures,   \* the lgi closures GLib still holds, with state and generation
    home,       \* the state each population lives in, 0 for none
    refs,       \* the states whose registry C still holds references into
    tried,      \* candidates of this loadrc that failed
    loaded, timedOut, quitting

reloadVars == <<stage, cur, states, busy, armed, below, gen, ready, closures, home, refs, tried, loaded, timedOut, quitting>>

Population == {"clients", "screens", "outputs", "layers", "tags", "drawins"}

C(kind) == [kind |-> kind, of |-> 0]
Timer(n) == [kind |-> "timer", of |-> n]

Running == C("reload")          \* the idle the reload runs from
Queued == C("restart")          \* one more awesome.restart()
Owned == {C("sigchld")}         \* attached in setup(), under the baseline
Protected == {C("refresh"), C("wayland")}
Cancelled == {C("token"), C("xkb")}

(* The start: run() recorded the baseline and loads the configuration.     *)
ReloadInit ==
    /\ stage = "load" /\ cur = 1 /\ states = 1 /\ busy = FALSE
    /\ armed = Owned /\ below = Owned
    /\ gen = 0 /\ ready = 0 /\ closures = {}
    /\ home = [p \in Population |-> IF p \in {"screens", "outputs"} THEN 1 ELSE 0]
    /\ refs = {} /\ tried = 0
    /\ loaded = FALSE /\ timedOut = FALSE /\ quitting = FALSE

glibVars == <<armed, below, gen, ready, closures>>
loadVars == <<tried, loaded, timedOut>>

-----------------------------------------------------------------------------
(* The main loop.                                                          *)

(* Lua code of the current state leaves timers, closures and references    *)
(* behind; clients, layer surfaces and tags come; C arms its own sources.  *)
LuaArms ==
    /\ armed' = armed \cup {Timer(cur)}
    /\ closures' = closures \cup {[of |-> cur, gen |-> gen]}
    /\ refs' = refs \cup {cur}

Lives ==
    /\ stage = "loop"
    /\ LuaArms
    /\ home' = [p \in Population |-> cur]
    /\ UNCHANGED <<stage, cur, states, busy, below, gen, ready, loadVars, quitting>>

(* activation_token_create(), the xkb idle, and awesome.restart().         *)
CArms ==
    /\ stage = "loop"
    /\ \E s \in Cancelled \cup {Queued} : armed' = armed \cup {s}
    /\ UNCHANGED <<stage, cur, states, busy, below, gen, ready, closures, home, refs, loadVars, quitting>>

(* hot_reload_idle_callback(), from the main loop.                         *)
hot_reload_idle_callback ==
    /\ stage = "loop" /\ Queued \in armed /\ ~busy /\ ~quitting /\ states < MaxStates
    /\ busy' = TRUE
    /\ armed' = (armed \ {Queued}) \cup {Running}
    /\ stage' = "exit"
    /\ UNCHANGED <<cur, states, below, gen, ready, closures, home, refs, loadVars, quitting>>

(* "exit": each module gives up what it registered, or fails to.           *)
EmitExit ==
    /\ stage = "exit"
    /\ \/ armed' = armed \ {Timer(cur)} /\ UNCHANGED closures
       \/ closures' = {c \in closures : c.of # cur} /\ UNCHANGED armed
       \/ UNCHANGED <<armed, closures>>
    /\ stage' = "spin"
    /\ UNCHANGED <<cur, states, busy, below, gen, ready, home, refs, loadVars, quitting>>

(* Turning the loop: handlers still run, and a second restart is ignored.  *)
Spin ==
    /\ stage = "spin"
    /\ \/ \E s \in Cancelled \cup {Queued} : armed' = armed \cup {s}
       \/ armed' = armed \ {Queued}
    /\ UNCHANGED <<stage, cur, states, busy, below, gen, ready, closures, home, refs, loadVars, quitting>>

-----------------------------------------------------------------------------
(* The teardown.                                                           *)

(* What luaA_cleanup_stale_glib_sources() passes over.                     *)
Swept == below \cup Protected \cup {Running}

lgi_guard_bump_generation == gen' = gen + 1 /\ ready' = -1

luaA_cleanup_stale_glib_sources ==
    /\ armed' = (armed \ Cancelled) \cap Swept
    /\ below' = (armed \ Cancelled) \cap Swept
    /\ lgi_guard_bump_generation

lgi_guard_mark_ready == ready' = gen

(* luaA_state_teardown_lua(): every reference C holds into the state.      *)
luaA_state_teardown_lua(from, to) ==
    /\ stage = from
    /\ refs' = refs \ {cur}
    /\ stage' = to
    /\ UNCHANGED <<cur, states, busy, glibVars, home, loadVars, quitting>>

(* The snapshots could not be allocated.                                   *)
Fail ==
    /\ stage = "detach"
    /\ busy' = FALSE /\ quitting' = TRUE /\ lgi_guard_mark_ready
    /\ armed' = armed \ {Running}
    /\ stage' = "loop"
    /\ UNCHANGED <<cur, states, below, gen, closures, home, refs, loadVars>>

clients_detach == {"clients"}

(* luaA_state_drop_object_pointers(), with the two detach calls of         *)
(* luaA_state_teardown_c().                                                *)
Dropped == {"screens", "tags", "drawins", "layers", "outputs"}

(* From the snapshots to luaA_state_teardown_c() and lua_close().          *)
CloseState(from, to) ==
    /\ stage = from
    /\ home' = [p \in Population |-> IF p \in clients_detach \cup Dropped THEN 0 ELSE home[p]]
    /\ luaA_cleanup_stale_glib_sources
    /\ cur' = 0
    /\ stage' = to
    /\ UNCHANGED <<states, busy, closures, refs, loadVars, quitting>>

(* luaA_create_fresh_state(), then clients, screens and outputs in it.     *)
luaA_create_fresh_state(from) ==
    /\ stage = from
    /\ states' = states + 1 /\ cur' = states + 1
    /\ home' = [p \in Population |-> IF p \in {"clients", "screens", "outputs"} THEN states + 1 ELSE home[p]]
    /\ stage' = "load"
    /\ UNCHANGED <<busy, glibVars, refs, quitting>>

-----------------------------------------------------------------------------
(* luaA_loadrc().                                                          *)

(* The candidate runs to its end.                                          *)
ConfigLoads ==
    /\ stage = "load" /\ tried < Candidates
    /\ LuaArms
    /\ loaded' = TRUE
    /\ home' = [home EXCEPT !["tags"] = cur, !["drawins"] = cur]
    /\ stage' = "loaded"
    /\ UNCHANGED <<cur, states, busy, below, gen, ready, tried, timedOut, quitting>>

(* It fails: the next one goes on in the same state.                       *)
ConfigFails ==
    /\ stage = "load" /\ tried < Candidates
    /\ LuaArms
    /\ tried' = tried + 1
    /\ UNCHANGED <<stage, cur, states, busy, below, gen, ready, home, loaded, timedOut, quitting>>

(* It hangs: config_timeout_handler() jumps out of it.                     *)
ConfigHangs ==
    /\ stage = "load" /\ tried < Candidates /\ states < MaxStates
    /\ LuaArms
    /\ tried' = tried + 1 /\ timedOut' = TRUE
    /\ home' = [home EXCEPT !["tags"] = cur, !["drawins"] = cur]
    /\ stage' = "abort"
    /\ UNCHANGED <<cur, states, busy, below, gen, ready, loaded, quitting>>

(* No memory for the snapshots: the loop is left, and the reload goes on   *)
(* with the state the abort tore down.                                     *)
AbortFails ==
    /\ stage = "abort_detach" /\ home["clients"] # 0
    /\ quitting' = TRUE
    /\ stage' = "loaded"
    /\ UNCHANGED <<cur, states, busy, glibVars, home, refs, loadVars>>

NoneLoads ==
    /\ stage = "load" /\ tried = Candidates
    /\ stage' = "loaded"
    /\ UNCHANGED <<cur, states, busy, glibVars, home, refs, loadVars, quitting>>

\* Mutant: only a reload opens the guard.
Opens_reload == busy

(* After a timeout loadrc opens the guard itself.                          *)
Opens == busy \/ (loaded /\ timedOut)

(* The clients are announced, the layer surfaces come back, and the main   *)
(* loop runs (again); run() attaches its own sources after the first load. *)
Finish ==
    /\ stage = "loaded"
    /\ ready' = IF Opens THEN gen ELSE ready
    /\ home' = [home EXCEPT !["layers"] = IF busy THEN cur ELSE @]
    /\ armed' = (armed \ {Running}) \cup (IF busy THEN {} ELSE Protected)
    /\ busy' = FALSE
    /\ stage' = "loop"
    /\ UNCHANGED <<cur, states, below, gen, closures, refs, loadVars, quitting>>

ReloadNext ==
    \/ Lives \/ CArms \/ hot_reload_idle_callback \/ EmitExit \/ Spin
    \/ luaA_state_teardown_lua("spin", "detach") \/ luaA_state_teardown_lua("abort", "abort_detach")
    \/ Fail \/ AbortFails
    \/ CloseState("detach", "fresh") \/ CloseState("abort_detach", "abort_fresh")
    \/ luaA_create_fresh_state("fresh") /\ tried' = 0 /\ loaded' = FALSE /\ timedOut' = FALSE
    \/ luaA_create_fresh_state("abort_fresh") /\ UNCHANGED loadVars
    \/ ConfigLoads \/ ConfigFails \/ ConfigHangs \/ NoneLoads \/ Finish

ReloadSpec == ReloadInit /\ [][ReloadNext]_reloadVars

-----------------------------------------------------------------------------
(* Properties.                                                             *)

Sources == Owned \cup Protected \cup Cancelled \cup {Running, Queued} \cup {Timer(n) : n \in 1..MaxStates}

ReloadTypeOK ==
    /\ stage \in {"load", "loaded", "loop", "exit", "spin", "detach", "fresh", "abort", "abort_detach", "abort_fresh"}
    /\ cur \in 0..MaxStates /\ states \in 1..MaxStates
    /\ busy \in BOOLEAN /\ loaded \in BOOLEAN /\ timedOut \in BOOLEAN /\ quitting \in BOOLEAN
    /\ armed \subseteq Sources /\ below \subseteq Sources
    /\ gen \in 0..MaxStates /\ ready \in -1..MaxStates
    /\ closures \subseteq [of : 1..MaxStates, gen : 0..MaxStates]
    /\ home \in [Population -> 0..MaxStates]
    /\ refs \subseteq 1..MaxStates /\ tried \in 0..Candidates

Closed == (1..states) \ {cur}

(* Nothing reaches into a state that is closed: no object is at home in    *)
(* it, C holds no reference into it, no source of it is attached, and the  *)
(* guard dispatches none of its closures.                                  *)
ClosedIsForgotten ==
    /\ \A p \in Population : home[p] \notin Closed
    /\ refs \cap Closed = {}
    /\ \A n \in Closed : Timer(n) \notin armed
    /\ \A c \in closures : c.of \in Closed => c.gen # ready

(* When the main loop runs, a reload or an aborted load has left nothing   *)
(* undone: another restart is accepted, the compositor has its sources,    *)
(* the population is that of the current state, and its closures dispatch. *)
LoopIsWhole ==
    stage = "loop" /\ ~quitting =>
        /\ ~busy /\ cur # 0
        /\ Owned \cup Protected \subseteq armed
        /\ \A p \in Population : home[p] \in {0, cur}
        /\ loaded => ready = gen

(* A reload, or a load that is aborted, leaves nothing behind and nothing  *)
(* undone.                                                                 *)
ReloadIsClean == ClosedIsForgotten /\ LoopIsWhole
=============================================================================
