--------------------------- MODULE Services_proofs ---------------------------
(***************************************************************************)
(* Proofs about the parts that MC_Services plays one at a time, for any    *)
(* sets of objects and any bounds.  The parts share no variable; each has  *)
(* an inductive invariant of its own.                                      *)
(***************************************************************************)
EXTENDS MC_Services, SequencesExt,
        SequenceTheorems, FiniteSetTheorems, WellFoundedInduction,
        TLAPS

-----------------------------------------------------------------------------
(* The hot reload.  Between the close of a state and the next there is no  *)
(* Lua at all (Closing); otherwise the newest state is the only one that   *)
(* anything names (OfTheNewest).                                           *)

Stage == {"load", "loaded", "loop", "exit", "spin", "detach", "fresh",
          "abort", "abort_detach", "abort_fresh"}
Leaving == {"exit", "spin", "detach", "fresh"}
Aborting == {"abort", "abort_detach", "abort_fresh"}
Down == stage \in {"fresh", "abort_fresh"}

OfTheNewest ==
    /\ IF Down THEN cur = 0 /\ gen = states /\ ready = -1
               ELSE cur = states /\ gen = states - 1 /\ ready \in {-1, gen}
    /\ \A p \in Population : home[p] \in {0, cur}
    /\ refs \subseteq {cur}
    /\ stage \in {"detach", "abort_detach", "fresh", "abort_fresh"} => refs = {}
    /\ \A n \in Int : Timer(n) \in armed => n = cur /\ ~Down
    /\ \A n \in Int : Timer(n) \notin below
    /\ \A c \in closures : c.of <= states /\ c.gen = c.of - 1

Stages ==
    /\ stage \in Leaving \cup Aborting => states < MaxStates
    /\ stage \in Leaving => busy
    /\ stage \in Aborting => timedOut
    /\ stage = "loop" => ~busy /\ (loaded => ready = gen)
    /\ stage \in {"load", "loaded"} /\ ~busy /\ ~timedOut => ready = gen

Attached ==
    /\ Owned \subseteq armed /\ Owned \subseteq below
    /\ busy \/ stage = "loop" => Protected \subseteq armed

ReloadInv == ReloadTypeOK /\ OfTheNewest /\ Stages /\ Attached

\* The kinds of GLib sources differ, and timers by their state.
LEMMA SourceKinds ==
    /\ Owned \cup Protected \cup Cancelled \cup {Running, Queued} \subseteq Sources
    /\ \A n \in 1..MaxStates : Timer(n) \in Sources
    /\ \A m, n : Timer(m) = Timer(n) => m = n
    /\ \A n : Timer(n) \notin Owned \cup Protected \cup Cancelled \cup {Running, Queued}
    /\ (Owned \cup Protected) \cap (Cancelled \cup {Running, Queued}) = {}
  <1>1. Owned \cup Protected \cup Cancelled \cup {Running, Queued} \subseteq Sources
    BY DEF Sources
  <1>2. \A n \in 1..MaxStates : Timer(n) \in Sources
    BY DEF Sources
  <1>3. \A m, n : Timer(m) = Timer(n) => m = n
    BY DEF Timer
  <1>4. \A n : Timer(n) \notin Owned \cup Protected \cup Cancelled \cup {Running, Queued}
    <2> SUFFICES ASSUME NEW n, NEW k, k \in {"sigchld", "refresh", "wayland", "token", "xkb", "reload", "restart"}
                 PROVE  Timer(n) # C(k)
      BY DEF Owned, Protected, Cancelled, Running, Queued
    <2>1. Timer(n).kind = "timer" /\ C(k).kind = k
      BY DEF Timer, C
    <2> QED
      BY <2>1
  <1>5. (Owned \cup Protected) \cap (Cancelled \cup {Running, Queued}) = {}
    <2>1. ASSUME NEW j, NEW k, C(j) = C(k) PROVE j = k
      <3>1. C(j).kind = j /\ C(k).kind = k
        BY DEF C
      <3> QED
        BY <2>1, <3>1
    <2> QED
      BY <2>1 DEF Owned, Protected, Cancelled, Running, Queued
  <1> QED
    BY <1>1, <1>2, <1>3, <1>4, <1>5

LEMMA InitReload == ReloadInit => ReloadInv
  <1> SUFFICES ASSUME ReloadInit PROVE ReloadInv
    OBVIOUS
  <1>0. 1 \in 1..MaxStates /\ 0 \in 0..MaxStates /\ 1 \in 0..MaxStates /\ 0 \in -1..MaxStates /\ 0 \in 0..Candidates
    BY StatesAssumption
  <1>1. ReloadTypeOK
    BY <1>0, SourceKinds DEF ReloadInit, ReloadTypeOK
  <1>2. OfTheNewest
    BY SourceKinds DEF ReloadInit, OfTheNewest, Down, Population
  <1>3. Stages
    BY DEF ReloadInit, Stages, Leaving, Aborting
  <1>4. Attached
    BY DEF ReloadInit, Attached
  <1> QED
    BY <1>1, <1>2, <1>3, <1>4 DEF ReloadInv

LEMMA ReloadImplies == ReloadInv => ReloadIsClean
  BY DEF ReloadInv, ReloadTypeOK, OfTheNewest, Stages, Attached, Leaving, Aborting, Down,
         ReloadIsClean, ClosedIsForgotten, LoopIsWhole, Closed

\* What Lua code of the current state leaves behind is of that state.
LEMMA Arming ==
    ASSUME ReloadInv, ~Down, LuaArms
    PROVE  /\ armed' \subseteq Sources /\ armed \subseteq armed'
           /\ closures' \subseteq [of : 1..MaxStates, gen : 0..MaxStates]
           /\ refs' \subseteq 1..MaxStates /\ refs' \subseteq {cur}
           /\ \A n \in Int : Timer(n) \in armed' => n = cur
           /\ \A c \in closures' : c.of <= states /\ c.gen = c.of - 1
  <1>1. cur \in 1..MaxStates /\ gen \in 0..MaxStates /\ cur = states /\ gen = cur - 1
    BY StatesAssumption DEF ReloadInv, ReloadTypeOK, OfTheNewest
  <1>2. armed' \subseteq Sources /\ armed \subseteq armed' /\ \A n \in Int : Timer(n) \in armed' => n = cur
    BY <1>1, SourceKinds DEF LuaArms, ReloadInv, ReloadTypeOK, OfTheNewest
  <1>3. /\ closures' \subseteq [of : 1..MaxStates, gen : 0..MaxStates]
        /\ \A c \in closures' : c.of <= states /\ c.gen = c.of - 1
    BY <1>1 DEF LuaArms, ReloadInv, ReloadTypeOK, OfTheNewest
  <1>4. refs' \subseteq 1..MaxStates /\ refs' \subseteq {cur}
    BY <1>1 DEF LuaArms, ReloadInv, ReloadTypeOK, OfTheNewest
  <1> QED
    BY <1>2, <1>3, <1>4

LEMMA LivesReload ==
    ASSUME ReloadInv, Lives
    PROVE  ReloadInv'
  <1>0. /\ armed' \subseteq Sources /\ armed \subseteq armed'
        /\ closures' \subseteq [of : 1..MaxStates, gen : 0..MaxStates]
        /\ refs' \subseteq 1..MaxStates /\ refs' \subseteq {cur}
        /\ \A n \in Int : Timer(n) \in armed' => n = cur
        /\ \A c \in closures' : c.of <= states /\ c.gen = c.of - 1
    BY Arming DEF Down, Lives
  <1>1. ReloadTypeOK'
    BY <1>0, SourceKinds DEF Lives, loadVars, ReloadInv, ReloadTypeOK, OfTheNewest, Stages, Leaving, Aborting, Down
  <1>2. OfTheNewest'
    BY <1>0, SourceKinds DEF Lives, loadVars, ReloadInv, ReloadTypeOK, OfTheNewest, Down
  <1>3. Stages'
    BY <1>0, SourceKinds DEF Lives, loadVars, ReloadInv, OfTheNewest, Stages, Leaving, Aborting, Down
  <1>4. Attached'
    BY <1>0, SourceKinds DEF Lives, loadVars, ReloadInv, Stages, Attached, Leaving
  <1> QED
    BY <1>1, <1>2, <1>3, <1>4 DEF ReloadInv

LEMMA CArmsReload ==
    ASSUME ReloadInv, CArms
    PROVE  ReloadInv'
  <1>1. ReloadTypeOK'
    BY SourceKinds DEF CArms, loadVars, ReloadInv, ReloadTypeOK, OfTheNewest, Stages, Leaving, Aborting, Down
  <1>2. OfTheNewest'
    BY SourceKinds DEF CArms, loadVars, ReloadInv, ReloadTypeOK, OfTheNewest, Down
  <1>3. Stages'
    BY SourceKinds DEF CArms, loadVars, ReloadInv, OfTheNewest, Stages, Leaving, Aborting, Down
  <1>4. Attached'
    BY SourceKinds DEF CArms, loadVars, ReloadInv, Stages, Attached, Leaving
  <1> QED
    BY <1>1, <1>2, <1>3, <1>4 DEF ReloadInv

LEMMA BeginReload ==
    ASSUME ReloadInv, hot_reload_idle_callback
    PROVE  ReloadInv'
  <1>1. ReloadTypeOK'
    BY SourceKinds DEF hot_reload_idle_callback, loadVars, ReloadInv, ReloadTypeOK, OfTheNewest, Stages, Leaving, Aborting, Down
  <1>2. OfTheNewest'
    BY SourceKinds DEF hot_reload_idle_callback, loadVars, ReloadInv, ReloadTypeOK, OfTheNewest, Down
  <1>3. Stages'
    BY SourceKinds DEF hot_reload_idle_callback, loadVars, ReloadInv, OfTheNewest, Stages, Leaving, Aborting, Down
  <1>4. Attached'
    BY SourceKinds DEF hot_reload_idle_callback, loadVars, ReloadInv, Stages, Attached, Leaving
  <1> QED
    BY <1>1, <1>2, <1>3, <1>4 DEF ReloadInv

LEMMA EmitExitReload ==
    ASSUME ReloadInv, EmitExit
    PROVE  ReloadInv'
  <1>1. ReloadTypeOK'
    BY SourceKinds DEF EmitExit, loadVars, ReloadInv, ReloadTypeOK, OfTheNewest, Stages, Leaving, Aborting, Down
  <1>2. OfTheNewest'
    BY SourceKinds DEF EmitExit, loadVars, ReloadInv, ReloadTypeOK, OfTheNewest, Down
  <1>3. Stages'
    BY SourceKinds DEF EmitExit, loadVars, ReloadInv, OfTheNewest, Stages, Leaving, Aborting, Down
  <1>4. Attached'
    BY SourceKinds DEF EmitExit, loadVars, ReloadInv, Stages, Attached, Leaving
  <1> QED
    BY <1>1, <1>2, <1>3, <1>4 DEF ReloadInv

LEMMA SpinReload ==
    ASSUME ReloadInv, Spin
    PROVE  ReloadInv'
  <1>1. ReloadTypeOK'
    BY SourceKinds DEF Spin, loadVars, ReloadInv, ReloadTypeOK, OfTheNewest, Stages, Leaving, Aborting, Down
  <1>2. OfTheNewest'
    BY SourceKinds DEF Spin, loadVars, ReloadInv, ReloadTypeOK, OfTheNewest, Down
  <1>3. Stages'
    BY SourceKinds DEF Spin, loadVars, ReloadInv, OfTheNewest, Stages, Leaving, Aborting, Down
  <1>4. Attached'
    BY SourceKinds DEF Spin, loadVars, ReloadInv, Stages, Attached, Leaving
  <1> QED
    BY <1>1, <1>2, <1>3, <1>4 DEF ReloadInv

LEMMA TeardownLuaReload ==
    ASSUME ReloadInv, NEW from, NEW to, luaA_state_teardown_lua(from, to),
           \/ from = "spin" /\ to = "detach"
           \/ from = "abort" /\ to = "abort_detach"
    PROVE  ReloadInv'
  <1>0. /\ stage = from /\ stage' = to /\ refs' = {} /\ ~Down /\ ~Down'
        /\ UNCHANGED <<cur, states, busy, armed, below, gen, ready, closures, home, tried, loaded,
                       timedOut, quitting>>
    BY DEF luaA_state_teardown_lua, glibVars, loadVars, ReloadInv, OfTheNewest, Down
  <1>1. ReloadTypeOK'
    BY <1>0 DEF ReloadInv, ReloadTypeOK
  <1>2. OfTheNewest'
    BY <1>0 DEF ReloadInv, OfTheNewest
  <1>3. Stages'
    BY <1>0 DEF ReloadInv, Stages, Leaving, Aborting
  <1>4. Attached'
    BY <1>0 DEF ReloadInv, Attached
  <1> QED
    BY <1>1, <1>2, <1>3, <1>4 DEF ReloadInv

LEMMA FailReload ==
    ASSUME ReloadInv, Fail
    PROVE  ReloadInv'
  <1>1. ReloadTypeOK'
    <2>1. stage' \in Stage /\ cur' \in 0..MaxStates /\ states' \in 1..MaxStates
      BY SourceKinds DEF Fail, lgi_guard_mark_ready, loadVars, ReloadInv, ReloadTypeOK, OfTheNewest, Stages, Leaving, Aborting, Down, Stage
    <2>2. busy' \in BOOLEAN /\ loaded' \in BOOLEAN /\ timedOut' \in BOOLEAN /\ quitting' \in BOOLEAN
      BY SourceKinds DEF Fail, lgi_guard_mark_ready, loadVars, ReloadInv, ReloadTypeOK, OfTheNewest, Stages, Leaving, Aborting, Down
    <2>3. armed' \subseteq Sources /\ below' \subseteq Sources
      BY SourceKinds DEF Fail, lgi_guard_mark_ready, loadVars, ReloadInv, ReloadTypeOK, OfTheNewest, Stages, Leaving, Aborting, Down
    <2>4. gen' \in 0..MaxStates /\ ready' \in -1..MaxStates /\ tried' \in 0..Candidates
      BY SourceKinds DEF Fail, lgi_guard_mark_ready, loadVars, ReloadInv, ReloadTypeOK, OfTheNewest, Stages, Leaving, Aborting, Down
    <2>5. home' \in [Population -> 0..MaxStates]
      BY SourceKinds DEF Fail, lgi_guard_mark_ready, loadVars, ReloadInv, ReloadTypeOK, OfTheNewest, Stages, Leaving, Aborting, Down
    <2>6. closures' \subseteq [of : 1..MaxStates, gen : 0..MaxStates] /\ refs' \subseteq 1..MaxStates
      BY SourceKinds DEF Fail, lgi_guard_mark_ready, loadVars, ReloadInv, ReloadTypeOK, OfTheNewest, Stages, Leaving, Aborting, Down
    <2> QED
      BY <2>1, <2>2, <2>3, <2>4, <2>5, <2>6 DEF ReloadTypeOK, Stage
  <1>2. OfTheNewest'
    BY SourceKinds DEF Fail, lgi_guard_mark_ready, loadVars, ReloadInv, ReloadTypeOK, OfTheNewest, Down
  <1>3. Stages'
    BY SourceKinds DEF Fail, lgi_guard_mark_ready, loadVars, ReloadInv, OfTheNewest, Stages, Leaving, Aborting, Down
  <1>4. Attached'
    BY SourceKinds DEF Fail, lgi_guard_mark_ready, loadVars, ReloadInv, Stages, Attached, Leaving
  <1> QED
    BY <1>1, <1>2, <1>3, <1>4 DEF ReloadInv

LEMMA AbortFailsReload ==
    ASSUME ReloadInv, AbortFails
    PROVE  ReloadInv'
  <1>1. ReloadTypeOK'
    BY SourceKinds DEF AbortFails, glibVars, loadVars, ReloadInv, ReloadTypeOK, OfTheNewest, Stages, Leaving, Aborting, Down
  <1>2. OfTheNewest'
    BY SourceKinds DEF AbortFails, glibVars, loadVars, ReloadInv, ReloadTypeOK, OfTheNewest, Down
  <1>3. Stages'
    BY SourceKinds DEF AbortFails, glibVars, loadVars, ReloadInv, OfTheNewest, Stages, Leaving, Aborting, Down
  <1>4. Attached'
    BY SourceKinds DEF AbortFails, glibVars, loadVars, ReloadInv, Stages, Attached, Leaving
  <1> QED
    BY <1>1, <1>2, <1>3, <1>4 DEF ReloadInv

\* What the sweep leaves are the sources under the baseline and C's own.
LEMMA CloseStateReload ==
    ASSUME ReloadInv, NEW from, NEW to, CloseState(from, to),
           \/ from = "detach" /\ to = "fresh"
           \/ from = "abort_detach" /\ to = "abort_fresh"
    PROVE  ReloadInv'
  <1>0. /\ stage = from /\ stage' = to /\ Down' /\ ~Down /\ states < MaxStates
        /\ cur' = 0 /\ gen' = gen + 1 /\ ready' = -1
        /\ armed' = (armed \ Cancelled) \cap Swept /\ below' = (armed \ Cancelled) \cap Swept
        /\ UNCHANGED <<states, busy, closures, refs, tried, loaded, timedOut, quitting>>
    BY DEF CloseState, luaA_cleanup_stale_glib_sources, lgi_guard_bump_generation, loadVars, ReloadInv,
           Stages, Leaving, Aborting, Down
  <1>1. states \in 1..MaxStates /\ gen = states - 1 /\ gen' = states /\ refs = {} /\ MaxStates \in Nat
    BY <1>0, StatesAssumption DEF ReloadInv, ReloadTypeOK, OfTheNewest
  <1>2. home' = [p \in Population |-> 0]
    BY DEF CloseState, clients_detach, Dropped, Population
  <1>3. armed' \subseteq armed /\ below' \subseteq armed /\ \A n \in Int : Timer(n) \notin armed' \cup below'
    BY <1>0, SourceKinds DEF Swept, ReloadInv, OfTheNewest
  <1>4. ReloadTypeOK'
    BY <1>0, <1>1, <1>2, <1>3 DEF ReloadInv, ReloadTypeOK
  <1>5. OfTheNewest'
    BY <1>0, <1>1, <1>2, <1>3 DEF ReloadInv, OfTheNewest
  <1>6. Stages'
    BY <1>0 DEF ReloadInv, Stages, Leaving, Aborting
  <1>7. Attached'
    BY <1>0, SourceKinds DEF ReloadInv, Attached, Swept
  <1> QED
    BY <1>4, <1>5, <1>6, <1>7 DEF ReloadInv

LEMMA FreshStateReload ==
    ASSUME ReloadInv,
           \/ luaA_create_fresh_state("fresh") /\ tried' = 0 /\ loaded' = FALSE /\ timedOut' = FALSE
           \/ luaA_create_fresh_state("abort_fresh") /\ UNCHANGED loadVars
    PROVE  ReloadInv'
  <1>0. /\ Down /\ stage' = "load" /\ ~Down' /\ states < MaxStates
        /\ states' = states + 1 /\ cur' = states + 1
        /\ home' = [p \in Population |-> IF p \in {"clients", "screens", "outputs"} THEN states + 1 ELSE home[p]]
        /\ UNCHANGED <<busy, armed, below, gen, ready, closures, refs, quitting>>
        /\ (busy \/ timedOut')
        /\ tried' \in {0, tried} /\ loaded' \in BOOLEAN /\ timedOut' \in BOOLEAN
    BY DEF luaA_create_fresh_state, glibVars, loadVars, ReloadInv, ReloadTypeOK, Stages, Leaving, Aborting, Down
  <1>1. /\ states \in 1..MaxStates /\ cur = 0 /\ gen = states /\ gen' = states' - 1 /\ ready = -1
        /\ refs = {} /\ MaxStates \in Nat /\ states' \in 1..MaxStates /\ Candidates \in Nat
    BY <1>0, StatesAssumption DEF ReloadInv, ReloadTypeOK, OfTheNewest, Down
  <1>2. home' \in [Population -> {0, cur'}]
    BY <1>0, <1>1 DEF ReloadInv, OfTheNewest
  <1>3. ReloadTypeOK'
    BY <1>0, <1>1, <1>2 DEF ReloadInv, ReloadTypeOK
  <1>4. OfTheNewest'
    BY <1>0, <1>1, <1>2 DEF ReloadInv, ReloadTypeOK, OfTheNewest
  <1>5. Stages'
    BY <1>0 DEF ReloadInv, Stages, Leaving, Aborting
  <1>6. Attached'
    BY <1>0 DEF ReloadInv, Attached, Down
  <1> QED
    BY <1>3, <1>4, <1>5, <1>6 DEF ReloadInv

LEMMA ConfigLoadsReload ==
    ASSUME ReloadInv, ConfigLoads
    PROVE  ReloadInv'
  <1>0. /\ armed' \subseteq Sources /\ armed \subseteq armed'
        /\ closures' \subseteq [of : 1..MaxStates, gen : 0..MaxStates]
        /\ refs' \subseteq 1..MaxStates /\ refs' \subseteq {cur}
        /\ \A n \in Int : Timer(n) \in armed' => n = cur
        /\ \A c \in closures' : c.of <= states /\ c.gen = c.of - 1
    BY Arming DEF Down, ConfigLoads
  <1>1. ReloadTypeOK'
    BY <1>0, SourceKinds, StatesAssumption DEF ConfigLoads, ReloadInv, ReloadTypeOK, OfTheNewest, Stages, Leaving, Aborting, Down
  <1>2. OfTheNewest'
    BY <1>0, SourceKinds, StatesAssumption DEF ConfigLoads, ReloadInv, ReloadTypeOK, OfTheNewest, Down
  <1>3. Stages'
    BY <1>0, SourceKinds, StatesAssumption DEF ConfigLoads, ReloadInv, OfTheNewest, Stages, Leaving, Aborting, Down
  <1>4. Attached'
    BY <1>0, SourceKinds, StatesAssumption DEF ConfigLoads, ReloadInv, Stages, Attached, Leaving
  <1> QED
    BY <1>1, <1>2, <1>3, <1>4 DEF ReloadInv

LEMMA ConfigFailsReload ==
    ASSUME ReloadInv, ConfigFails
    PROVE  ReloadInv'
  <1>0. /\ armed' \subseteq Sources /\ armed \subseteq armed'
        /\ closures' \subseteq [of : 1..MaxStates, gen : 0..MaxStates]
        /\ refs' \subseteq 1..MaxStates /\ refs' \subseteq {cur}
        /\ \A n \in Int : Timer(n) \in armed' => n = cur
        /\ \A c \in closures' : c.of <= states /\ c.gen = c.of - 1
    BY Arming DEF Down, ConfigFails
  <1>1. ReloadTypeOK'
    BY <1>0, SourceKinds, StatesAssumption DEF ConfigFails, ReloadInv, ReloadTypeOK, OfTheNewest, Stages, Leaving, Aborting, Down
  <1>2. OfTheNewest'
    BY <1>0, SourceKinds, StatesAssumption DEF ConfigFails, ReloadInv, ReloadTypeOK, OfTheNewest, Down
  <1>3. Stages'
    BY <1>0, SourceKinds, StatesAssumption DEF ConfigFails, ReloadInv, OfTheNewest, Stages, Leaving, Aborting, Down
  <1>4. Attached'
    BY <1>0, SourceKinds, StatesAssumption DEF ConfigFails, ReloadInv, Stages, Attached, Leaving
  <1> QED
    BY <1>1, <1>2, <1>3, <1>4 DEF ReloadInv

LEMMA ConfigHangsReload ==
    ASSUME ReloadInv, ConfigHangs
    PROVE  ReloadInv'
  <1>0. /\ armed' \subseteq Sources /\ armed \subseteq armed'
        /\ closures' \subseteq [of : 1..MaxStates, gen : 0..MaxStates]
        /\ refs' \subseteq 1..MaxStates /\ refs' \subseteq {cur}
        /\ \A n \in Int : Timer(n) \in armed' => n = cur
        /\ \A c \in closures' : c.of <= states /\ c.gen = c.of - 1
    BY Arming DEF Down, ConfigHangs
  <1>1. ReloadTypeOK'
    <2>1. stage' \in Stage /\ cur' \in 0..MaxStates /\ states' \in 1..MaxStates
      BY <1>0, SourceKinds, StatesAssumption DEF ConfigHangs, ReloadInv, ReloadTypeOK, OfTheNewest, Stages, Leaving, Aborting, Down, Stage
    <2>2. busy' \in BOOLEAN /\ loaded' \in BOOLEAN /\ timedOut' \in BOOLEAN /\ quitting' \in BOOLEAN
      BY <1>0, SourceKinds, StatesAssumption DEF ConfigHangs, ReloadInv, ReloadTypeOK, OfTheNewest, Stages, Leaving, Aborting, Down
    <2>3. armed' \subseteq Sources /\ below' \subseteq Sources
      BY <1>0, SourceKinds, StatesAssumption DEF ConfigHangs, ReloadInv, ReloadTypeOK, OfTheNewest, Stages, Leaving, Aborting, Down
    <2>4. gen' \in 0..MaxStates /\ ready' \in -1..MaxStates /\ tried' \in 0..Candidates
      BY <1>0, SourceKinds, StatesAssumption DEF ConfigHangs, ReloadInv, ReloadTypeOK, OfTheNewest, Stages, Leaving, Aborting, Down
    <2>5. home' \in [Population -> 0..MaxStates]
      BY <1>0, SourceKinds, StatesAssumption DEF ConfigHangs, ReloadInv, ReloadTypeOK, OfTheNewest, Stages, Leaving, Aborting, Down
    <2>6. closures' \subseteq [of : 1..MaxStates, gen : 0..MaxStates] /\ refs' \subseteq 1..MaxStates
      BY <1>0, SourceKinds, StatesAssumption DEF ConfigHangs, ReloadInv, ReloadTypeOK, OfTheNewest, Stages, Leaving, Aborting, Down
    <2> QED
      BY <2>1, <2>2, <2>3, <2>4, <2>5, <2>6 DEF ReloadTypeOK, Stage
  <1>2. OfTheNewest'
    BY <1>0, SourceKinds, StatesAssumption DEF ConfigHangs, ReloadInv, ReloadTypeOK, OfTheNewest, Down
  <1>3. Stages'
    BY <1>0, SourceKinds, StatesAssumption DEF ConfigHangs, ReloadInv, OfTheNewest, Stages, Leaving, Aborting, Down
  <1>4. Attached'
    BY <1>0, SourceKinds, StatesAssumption DEF ConfigHangs, ReloadInv, Stages, Attached, Leaving
  <1> QED
    BY <1>1, <1>2, <1>3, <1>4 DEF ReloadInv

LEMMA NoneLoadsReload ==
    ASSUME ReloadInv, NoneLoads
    PROVE  ReloadInv'
  <1>1. ReloadTypeOK'
    BY SourceKinds DEF NoneLoads, glibVars, loadVars, ReloadInv, ReloadTypeOK, OfTheNewest, Stages, Leaving, Aborting, Down
  <1>2. OfTheNewest'
    BY SourceKinds DEF NoneLoads, glibVars, loadVars, ReloadInv, ReloadTypeOK, OfTheNewest, Down
  <1>3. Stages'
    BY SourceKinds DEF NoneLoads, glibVars, loadVars, ReloadInv, OfTheNewest, Stages, Leaving, Aborting, Down
  <1>4. Attached'
    BY SourceKinds DEF NoneLoads, glibVars, loadVars, ReloadInv, Stages, Attached, Leaving
  <1> QED
    BY <1>1, <1>2, <1>3, <1>4 DEF ReloadInv

LEMMA FinishReload ==
    ASSUME ReloadInv, Finish
    PROVE  ReloadInv'
  <1>1. ReloadTypeOK'
    <2>1. stage' \in Stage /\ cur' \in 0..MaxStates /\ states' \in 1..MaxStates
      BY SourceKinds DEF Finish, Opens, loadVars, ReloadInv, ReloadTypeOK, OfTheNewest, Stages, Leaving, Aborting, Down, Stage
    <2>2. busy' \in BOOLEAN /\ loaded' \in BOOLEAN /\ timedOut' \in BOOLEAN /\ quitting' \in BOOLEAN
      BY SourceKinds DEF Finish, Opens, loadVars, ReloadInv, ReloadTypeOK, OfTheNewest, Stages, Leaving, Aborting, Down
    <2>3. armed' \subseteq Sources /\ below' \subseteq Sources
      BY SourceKinds DEF Finish, Opens, loadVars, ReloadInv, ReloadTypeOK, OfTheNewest, Stages, Leaving, Aborting, Down
    <2>4. gen' \in 0..MaxStates /\ ready' \in -1..MaxStates /\ tried' \in 0..Candidates
      BY SourceKinds DEF Finish, Opens, loadVars, ReloadInv, ReloadTypeOK, OfTheNewest, Stages, Leaving, Aborting, Down
    <2>5. home' \in [Population -> 0..MaxStates]
      BY SourceKinds DEF Finish, Opens, loadVars, ReloadInv, ReloadTypeOK, OfTheNewest, Stages, Leaving, Aborting, Down
    <2>6. closures' \subseteq [of : 1..MaxStates, gen : 0..MaxStates] /\ refs' \subseteq 1..MaxStates
      BY SourceKinds DEF Finish, Opens, loadVars, ReloadInv, ReloadTypeOK, OfTheNewest, Stages, Leaving, Aborting, Down
    <2> QED
      BY <2>1, <2>2, <2>3, <2>4, <2>5, <2>6 DEF ReloadTypeOK, Stage
  <1>2. OfTheNewest'
    BY SourceKinds DEF Finish, Opens, loadVars, ReloadInv, ReloadTypeOK, OfTheNewest, Down
  <1>3. Stages'
    BY SourceKinds DEF Finish, Opens, loadVars, ReloadInv, OfTheNewest, Stages, Leaving, Aborting, Down
  <1>4. Attached'
    BY SourceKinds DEF Finish, Opens, loadVars, ReloadInv, Stages, Attached, Leaving
  <1> QED
    BY <1>1, <1>2, <1>3, <1>4 DEF ReloadInv

LEMMA NextReload == ReloadInv /\ [ReloadNext]_reloadVars => ReloadInv'
  <1> SUFFICES ASSUME ReloadInv, [ReloadNext]_reloadVars PROVE ReloadInv'
    OBVIOUS
  <1>1. CASE UNCHANGED reloadVars
    BY <1>1 DEF reloadVars, ReloadInv, ReloadTypeOK, OfTheNewest, Stages, Attached, Down
  <1>2. CASE Lives
    BY <1>2, LivesReload
  <1>3. CASE CArms
    BY <1>3, CArmsReload
  <1>4. CASE hot_reload_idle_callback
    BY <1>4, BeginReload
  <1>5. CASE EmitExit
    BY <1>5, EmitExitReload
  <1>6. CASE Spin
    BY <1>6, SpinReload
  <1>7. CASE luaA_state_teardown_lua("spin", "detach")
    BY <1>7, TeardownLuaReload
  <1>8. CASE luaA_state_teardown_lua("abort", "abort_detach")
    BY <1>8, TeardownLuaReload
  <1>9. CASE Fail
    BY <1>9, FailReload
  <1>10. CASE AbortFails
    BY <1>10, AbortFailsReload
  <1>11. CASE CloseState("detach", "fresh")
    BY <1>11, CloseStateReload
  <1>12. CASE CloseState("abort_detach", "abort_fresh")
    BY <1>12, CloseStateReload
  <1>13. CASE luaA_create_fresh_state("fresh") /\ tried' = 0 /\ loaded' = FALSE /\ timedOut' = FALSE
    BY <1>13, FreshStateReload
  <1>14. CASE luaA_create_fresh_state("abort_fresh") /\ UNCHANGED loadVars
    BY <1>14, FreshStateReload
  <1>15. CASE ConfigLoads
    BY <1>15, ConfigLoadsReload
  <1>16. CASE ConfigFails
    BY <1>16, ConfigFailsReload
  <1>17. CASE ConfigHangs
    BY <1>17, ConfigHangsReload
  <1>18. CASE NoneLoads
    BY <1>18, NoneLoadsReload
  <1>19. CASE Finish
    BY <1>19, FinishReload
  <1> QED
    BY <1>1, <1>2, <1>3, <1>4, <1>5, <1>6, <1>7, <1>8, <1>9, <1>10, <1>11, <1>12, <1>13, <1>14, <1>15, <1>16, <1>17, <1>18, <1>19 DEF ReloadNext

\* A reload and an aborted load leave nothing of a closed state that is still
\* reached, and when the main loop runs again nothing is left undone
\* (hot_reload_idle_callback(), luaA_loadrc(), lgi_closure_guard.c).
THEOREM ReloadLeavesNothing == ReloadSpec => []ReloadIsClean
  BY InitReload, NextReload, ReloadImplies, PTL DEF ReloadSpec

-----------------------------------------------------------------------------
(* The socket.  Where no two instances start at once, one that has seen     *)
(* that nobody listens is alone until it listens itself.                    *)

Taking(i) == pc[i] \in {"unlink", "bind", "stat", "listen"}

SocketInv ==
    /\ pc \in [Instance -> {"off", "probe", "unlink", "bind", "stat", "listen", "run",
                           "leave", "close", "noipc", "gone"}]
    /\ \A i, j \in Instance : i \in Starting /\ j \in Starting => i = j
    /\ \A i, j \in Instance : Taking(i) => pc[j] \notin {"run", "leave"}
    /\ \A i \in Instance : pc[i] \in {"stat", "listen"} => file = i
    /\ RunningKeepsPath

LEMMA NextSocket == ~Overlap /\ SocketInv /\ [SocketNext]_socketVars => SocketInv'
  <1> SUFFICES ASSUME ~Overlap, SocketInv, [SocketNext]_socketVars PROVE SocketInv'
    OBVIOUS
  <1> USE DEF SocketInv, Starting, Listening, Taking, RunningKeepsPath, Goes
  <1>1. ASSUME NEW i \in Instance, Start(i) PROVE SocketInv'
    BY <1>1 DEF Start
  <1>2. ASSUME NEW i \in Instance, Probe(i) PROVE SocketInv'
    BY <1>2 DEF Probe
  <1>3. ASSUME NEW i \in Instance, Unlink(i) PROVE SocketInv'
    BY <1>3 DEF Unlink
  <1>4. ASSUME NEW i \in Instance, Bind(i) PROVE SocketInv'
    BY <1>4 DEF Bind
  <1>5. ASSUME NEW i \in Instance, Stat(i) \/ Listen(i) PROVE SocketInv'
    BY <1>5 DEF Stat, Listen
  <1>6. ASSUME NEW i \in Instance, Compare(i) PROVE SocketInv'
    BY <1>6 DEF Compare
  <1>7. ASSUME NEW i \in Instance, Leave(i) PROVE SocketInv'
    BY <1>7 DEF Leave
  <1>8. ASSUME NEW i \in Instance, Close(i) PROVE SocketInv'
    BY <1>8 DEF Close
  <1>9. CASE UNCHANGED socketVars
    BY <1>9 DEF socketVars
  <1> QED
    BY <1>1, <1>2, <1>3, <1>4, <1>5, <1>6, <1>7, <1>8, <1>9 DEF SocketNext

(* If instances start one after the other, each keeps its own file at the     *)
(* path as long as it serves, however others exit or crash (ipc.c).           *)
THEOREM PathsAreKept == ~Overlap => (SocketSpec => []RunningKeepsPath)
  <1> SUFFICES ASSUME ~Overlap PROVE SocketSpec => []RunningKeepsPath
    OBVIOUS
  <1>1. SocketInit => SocketInv
    BY DEF SocketInit, SocketInv, Starting, Taking, RunningKeepsPath
  <1>2. SocketInv /\ [SocketNext]_socketVars => SocketInv'
    BY NextSocket
  <1>3. SocketInv => RunningKeepsPath
    BY DEF SocketInv
  <1> QED
    BY <1>1, <1>2, <1>3, PTL DEF SocketSpec

-----------------------------------------------------------------------------
(* The clients of the socket.                                               *)

IpcInv ==
    /\ clients \in [DOMAIN clients -> Nat] /\ DOMAIN clients \subseteq Conn
    /\ subscribed \subseteq DOMAIN clients
    /\ SubscribersCounted

\* There is a lowest free descriptor, so it is free.
LEMMA LowestIsFree == IpcInv => LowestFree \in Nat \ Fds
  <1> SUFFICES ASSUME IpcInv PROVE LowestFree \in Nat \ Fds
    OBVIOUS
  <1>1. IsFiniteSet(DOMAIN clients) /\ Cardinality(DOMAIN clients) <= Cardinality(Conn) /\ Cardinality(Conn) \in Nat
        /\ Cardinality(DOMAIN clients) \in Nat
    BY ConnAssumption, FS_Subset, FS_CardinalityType DEF IpcInv
  <1>2. IsFiniteSet(Fds) /\ Cardinality(Fds) <= Cardinality(DOMAIN clients) /\ Cardinality(Fds) \in Nat
    <2>1. clients \in Surjection(DOMAIN clients, Fds)
      BY DEF Surjection, Fds, IpcInv
    <2> QED
      BY <1>1, <2>1, FS_Surjection, FS_CardinalityType
  <1>3. PICK k \in Nat : k = Cardinality(Conn) + 1
    BY <1>1
  <1>4. {n \in 1..k : n \notin Fds} # {}
    <2>1. SUFFICES ASSUME 1..k \subseteq Fds PROVE FALSE
      OBVIOUS
    <2>2. Cardinality(1..k) = k
      BY <1>3, FS_Interval, <1>1
    <2>3. Cardinality(1..k) <= Cardinality(Fds)
      BY <1>2, <2>1, FS_Subset
    <2> QED
      BY <1>1, <1>2, <1>3, <2>2, <2>3
  <1>5. PICK n \in 1..k : n \notin Fds
    BY <1>4
  <1>6. PICK free : free = {m \in 1..k : m \notin Fds}
    OBVIOUS
  <1>7. free \subseteq Nat /\ n \in free
    BY <1>5, <1>6
  <1>8. \E m \in free : \A x \in free : m <= x
    <2>1. PICK R : R = OpToRel(<, Nat)
      BY ZenonT(30)
    <2>2. IsWellFoundedOn(R, Nat)
      BY ZenonT(30), <2>1, NatLessThanWellFounded
    <2>3. \A x, y \in Nat : x < y => <<x, y>> \in R
      BY <2>1 DEF OpToRel
    <2>4. PICK m \in free : \A x \in free : <<x, m>> \notin R
      BY <1>7, <2>2, WFMin
    <2>5. \A x \in free : x \in Nat /\ m \in Nat /\ ~(x < m)
      BY <1>7, <2>3, <2>4
    <2>6. \A x \in free : m <= x
      BY <2>5
    <2> QED
      BY <2>6
  <1>9. Min(free) \in free
    BY <1>8 DEF Min
  <1> QED
    BY <1>3, <1>6, <1>7, <1>9 DEF LowestFree

\* Clients that go take their subscriptions with them, each counted once.
LEMMA DestroyedIpc ==
    ASSUME IpcInv, NEW dead, Destroyed(dead)
    PROVE  IpcInv'
  <1>1. /\ clients' = [c \in DOMAIN clients \ dead |-> clients[c]]
        /\ subscribed' = subscribed \ dead /\ total' = total - Cardinality(dead \cap subscribed)
    BY DEF Destroyed
  <1>2. IsFiniteSet(subscribed)
    BY ConnAssumption, FS_Subset DEF IpcInv
  <1>3. Cardinality(subscribed \ dead) = Cardinality(subscribed) - Cardinality(subscribed \cap dead)
    BY <1>2, FS_Difference
  <1>4. dead \cap subscribed = subscribed \cap dead
    OBVIOUS
  <1>5. total' = Cardinality(subscribed')
    BY <1>1, <1>3, <1>4 DEF IpcInv, SubscribersCounted
  <1>6. DOMAIN clients' = DOMAIN clients \ dead /\ \A c \in DOMAIN clients' : clients'[c] = clients[c]
    BY <1>1
  <1>7. clients' \in [DOMAIN clients' -> Nat]
    BY <1>1, <1>6 DEF IpcInv
  <1> QED
    BY <1>1, <1>5, <1>6, <1>7 DEF IpcInv, SubscribersCounted

LEMMA ConnectIpc ==
    ASSUME IpcInv, NEW c \in Conn, Connect(c)
    PROVE  IpcInv'
  <1>1. subscribed' = subscribed /\ total' = total
    BY DEF Connect
  <1>2. CASE clients' = clients
    BY <1>1, <1>2 DEF IpcInv, SubscribersCounted
  <1>3. CASE clients' = [x \in DOMAIN clients \cup {c} |-> IF x = c THEN LowestFree ELSE clients[x]]
    <2>1. DOMAIN clients' = DOMAIN clients \cup {c}
      BY <1>3
    <2>2. \A x \in DOMAIN clients' : clients'[x] = IF x = c THEN LowestFree ELSE clients[x]
      BY <1>3
    <2>3. LowestFree \in Nat /\ \A x \in DOMAIN clients : clients[x] # LowestFree
      BY LowestIsFree DEF Fds
    <2>4. clients' \in [DOMAIN clients' -> Nat]
      BY <1>3, <2>1, <2>2, <2>3 DEF IpcInv
    <2>5. \A x, y \in DOMAIN clients' : x # y => clients'[x] # clients'[y]
      BY <2>1, <2>2, <2>3 DEF IpcInv, SubscribersCounted
    <2> QED
      BY <1>1, <2>1, <2>4, <2>5 DEF IpcInv, SubscribersCounted
  <1> QED
    BY <1>2, <1>3 DEF Connect

LEMMA SubscribeIpc ==
    ASSUME IpcInv, Subscribe
    PROVE  IpcInv'
  <1>1. PICK c \in DOMAIN clients : /\ subscribed' = subscribed \cup {c}
                                  /\ total' = IF c \in subscribed THEN total ELSE total + 1
    BY DEF Subscribe, ipc_subscribe_client
  <1>2. IsFiniteSet(subscribed)
    BY ConnAssumption, FS_Subset DEF IpcInv
  <1>3. total' = Cardinality(subscribed')
    BY <1>1, <1>2, FS_AddElement DEF IpcInv, SubscribersCounted
  <1>4. clients' = clients
    BY DEF Subscribe
  <1> QED
    BY <1>1, <1>3, <1>4 DEF IpcInv, SubscribersCounted

(* However clients subscribe, hang up or are dropped, C counts the connected  *)
(* subscribers, each once, and no two clients have one descriptor (ipc.c).    *)
THEOREM SubscribersAreCounted == IpcSpec => []SubscribersCounted
  <1>1. IpcInit => IpcInv
    BY FS_EmptySet DEF IpcInit, IpcInv, SubscribersCounted
  <1>2. IpcInv /\ [IpcNext]_ipcVars => IpcInv'
    <2> SUFFICES ASSUME IpcInv, [IpcNext]_ipcVars PROVE IpcInv'
      OBVIOUS
    <2>1. CASE UNCHANGED <<clients, subscribed, total>>
      BY <2>1 DEF IpcInv, SubscribersCounted
    <2>2. ASSUME NEW c \in Conn, Connect(c) \/ HangUp(c) \/ Read(c) PROVE IpcInv'
      BY <2>1, <2>2, ConnectIpc, DestroyedIpc DEF HangUp, Read
    <2> QED
      BY <2>1, <2>2, SubscribeIpc, DestroyedIpc DEF IpcNext, ipcVars, Command, Broadcast
  <1>3. IpcInv => SubscribersCounted
    BY DEF IpcInv
  <1> QED
    BY <1>1, <1>2, <1>3, PTL DEF IpcSpec

-----------------------------------------------------------------------------
(* A selection.  Where no handler acquires, a change is not within another  *)
(* (Depth), for a release needs an active owner: while a change is under    *)
(* way none is, and the new owner is linked and not yet tracked (Changing). *)

SelectionShape ==
    /\ active \subseteq Acquire /\ source \subseteq Acquire
    /\ linked \subseteq alive /\ alive \subseteq used
    /\ tracked \subseteq used

Depth == frames = <<>> \/ \E x : frames = <<x>>

SelectionsSettled ==
    frames = <<>> =>
        /\ linked \subseteq tracked
        /\ active \subseteq {owner}
        /\ owner \in Acquire => owner \in active \cap linked \cap source

Changing ==
    \A x : frames = <<x>> =>
        /\ owner = x /\ active = {} /\ linked \subseteq tracked \cup ({x} \cap Acquire)
        /\ x \in Acquire => x \in linked \cap source

SelectionInv == SelectionShape /\ Depth /\ SelectionsSettled /\ Changing

LEMMA SetSelectionStep ==
    ASSUME SelectionInv, frames = <<>>, NEW new, SetSelection(new),
           new \in Acquire => new \in alive' /\ new \notin used, alive \subseteq alive', alive' \subseteq used',
           used \subseteq used'
    PROVE  SelectionInv'
  <1>1. PICK lost : lost = handle_source_destroy(owner)
    OBVIOUS
  <1>2. /\ owner' = new /\ frames' = <<new>> /\ active' = active \ lost
        /\ source' = (source \ lost) \cup ({new} \cap Acquire)
        /\ linked' = (linked \ lost) \cup ({new} \cap Acquire) /\ tracked' = tracked \ lost
    BY <1>1 DEF SetSelection
  <1>3. active' = {}
    BY <1>1, <1>2 DEF SelectionInv, SelectionsSettled, handle_source_destroy
  <1>4. SelectionShape'
    BY <1>2, <1>3 DEF SelectionInv, SelectionShape
  <1>5. linked \subseteq tracked
    BY DEF SelectionInv, SelectionsSettled
  <1>6. Changing'
    <2>1. \A x : frames' = <<x>> => x = new
      BY <1>2
    <2>2. linked' \subseteq tracked' \cup ({new} \cap Acquire)
      BY <1>2, <1>5
    <2> QED
      BY <1>2, <1>3, <2>1, <2>2 DEF Changing
  <1>7. Depth' /\ SelectionsSettled'
    BY <1>2 DEF Depth, SelectionsSettled
  <1> QED
    BY <1>4, <1>6, <1>7 DEF SelectionInv

\* Steps that change neither who owns the selection nor who is active.
LEMMA ObjectStep ==
    ASSUME SelectionInv, UNCHANGED <<owner, active, source, frames>>, SelectionShape',
           owner \in Acquire => owner \in linked', linked' \ tracked' \subseteq linked \ tracked
    PROVE  SelectionInv'
  <1>1. Depth'
    BY DEF SelectionInv, Depth
  <1>2. SelectionsSettled'
    BY DEF SelectionInv, SelectionsSettled
  <1>3. Changing'
    BY DEF SelectionInv, Changing
  <1> QED
    BY <1>1, <1>2, <1>3 DEF SelectionInv

LEMMA OwnerIsLinked == SelectionInv => (owner \in Acquire => owner \in linked)
  BY DEF SelectionInv, Depth, SelectionsSettled, Changing

LEMMA SettleSelection ==
    ASSUME SelectionInv, SelectionIsSet
    PROVE  SelectionInv'
  <1>1. PICK x : frames = <<x>>
    BY DEF SelectionIsSet, SelectionInv, Depth
  <1>2. /\ frames' = SubSeq(frames, 1, Len(frames) - 1) /\ UNCHANGED <<owner, alive, used, source, linked>>
        /\ active' = active \cup ({frames[Len(frames)]} \cap Acquire)
        /\ tracked' = tracked \cup ({frames[Len(frames)]} \cap Acquire)
    BY DEF SelectionIsSet
  <1>3. Len(frames) = 1 /\ frames[1] = x /\ SubSeq(frames, 1, 0) = <<>>
    BY <1>1
  <1>4. /\ frames' = <<>> /\ active' = active \cup ({x} \cap Acquire)
        /\ tracked' = tracked \cup ({x} \cap Acquire)
    BY <1>2, <1>3
  <1>5. /\ owner = x /\ active = {} /\ linked \subseteq tracked \cup ({x} \cap Acquire)
        /\ x \in Acquire => x \in linked \cap source
    BY <1>1 DEF SelectionInv, Changing
  <1>6. SelectionShape'
    BY <1>2, <1>4, <1>5 DEF SelectionInv, SelectionShape
  <1>7. Depth' /\ SelectionsSettled' /\ Changing'
    BY <1>2, <1>4, <1>5 DEF Depth, SelectionsSettled, Changing
  <1> QED
    BY <1>6, <1>7 DEF SelectionInv

LEMMA AcquireSelection ==
    ASSUME ~Reacquires, SelectionInv, NEW a \in Acquire,
           luaA_selection_acquire_new(a) \/ luaA_selection_acquire_release(a)
    PROVE  SelectionInv'
  <1>1. CASE luaA_selection_acquire_new(a)
    <2>1. /\ frames = <<>> /\ a \notin used /\ used' = used \cup {a} /\ alive' = alive \cup {a}
          /\ SetSelection(a)
      BY <1>1 DEF luaA_selection_acquire_new, Allocate
    <2>2. alive' \subseteq used'
      BY <2>1 DEF SelectionInv, SelectionShape
    <2> QED
      BY <2>1, <2>2, SetSelectionStep
  <1>2. CASE luaA_selection_acquire_release(a)
    <2>1. frames = <<>>
      BY <1>2 DEF luaA_selection_acquire_release, SelectionInv, Depth, Changing
    <2>2. SetSelection(NoOwner) /\ alive' = alive /\ used' = used /\ alive \subseteq used
      BY <1>2 DEF luaA_selection_acquire_release, SelectionInv, SelectionShape
    <2> QED
      BY <2>1, <2>2, SetSelectionStep, PartiesDiffer
  <1> QED
    BY <1>1, <1>2

LEMMA WatcherSelection ==
    ASSUME SelectionInv, NEW w \in Watcher,
           luaA_selection_watcher_new(w) \/ luaA_selection_watcher_set_active(w)
    PROVE  SelectionInv'
  <1>1. w \notin Acquire
    BY PartiesDiffer
  <1>2. CASE luaA_selection_watcher_new(w)
    <2>1. SelectionShape'
      BY <1>2 DEF luaA_selection_watcher_new, Allocate, SelectionInv, SelectionShape
    <2> QED
      BY <1>2, <2>1, OwnerIsLinked, ObjectStep DEF luaA_selection_watcher_new
  <1>3. CASE luaA_selection_watcher_set_active(w)
    <2>1. /\ w \in alive /\ UNCHANGED <<owner, alive, used, active, source, frames>>
          /\ \/ tracked' = tracked \ {w} /\ linked' = linked \ {w}
             \/ tracked' = tracked \cup {w} /\ linked' = linked \cup {w}
      BY <1>3 DEF luaA_selection_watcher_set_active
    <2>2. SelectionShape'
      BY <2>1 DEF SelectionInv, SelectionShape
    <2>3. linked' \ tracked' \subseteq linked \ tracked /\ (owner \in Acquire => owner \in linked')
      BY <1>1, <2>1, OwnerIsLinked
    <2> QED
      BY <2>1, <2>2, <2>3, ObjectStep
  <1> QED
    BY <1>2, <1>3

LEMMA GetterSelection ==
    ASSUME SelectionInv, NEW g \in Getter,
           luaA_selection_getter_new(g) \/ selection_getter_read_handler(g)
    PROVE  SelectionInv'
  <1>1. g \notin Acquire
    BY PartiesDiffer
  <1>2. CASE luaA_selection_getter_new(g)
    <2>1. /\ used' = used \cup {g} /\ alive' = alive \cup {g} /\ UNCHANGED <<owner, active, source, frames>>
          /\ \/ tracked' = tracked /\ linked' = linked
             \/ tracked' = tracked \cup {g} /\ linked' = linked \cup {g}
      BY <1>2 DEF luaA_selection_getter_new, Allocate
    <2>2. SelectionShape'
      BY <2>1 DEF SelectionInv, SelectionShape
    <2>3. linked' \ tracked' \subseteq linked \ tracked /\ (owner \in Acquire => owner \in linked')
      BY <2>1, OwnerIsLinked
    <2> QED
      BY <2>1, <2>2, <2>3, ObjectStep
  <1>3. CASE selection_getter_read_handler(g)
    <2>1. /\ UNCHANGED <<owner, alive, used, active, source, frames>>
          /\ tracked' = tracked \ {g} /\ linked' = linked \ {g}
      BY <1>3 DEF selection_getter_read_handler, selection_getter_cleanup
    <2>2. SelectionShape'
      BY <2>1 DEF SelectionInv, SelectionShape
    <2>3. linked' \ tracked' \subseteq linked \ tracked /\ (owner \in Acquire => owner \in linked')
      BY <1>1, <2>1, OwnerIsLinked
    <2> QED
      BY <2>1, <2>2, <2>3, ObjectStep
  <1> QED
    BY <1>2, <1>3

\* What is collected is neither the owner nor about to be.
LEMMA CollectSelection ==
    ASSUME SelectionInv, NEW o, Collect(o)
    PROVE  SelectionInv'
  <1>1. /\ o \in alive \ tracked /\ \A i \in DOMAIN frames : frames[i] # o
        /\ alive' = alive \ {o} /\ linked' = linked \ {o}
        /\ UNCHANGED <<owner, used, active, source, tracked, frames>>
    BY DEF Collect
  <1>2. SelectionShape'
    BY <1>1 DEF SelectionInv, SelectionShape
  <1>3. owner \in Acquire => owner # o
    <2>1. CASE frames = <<>>
      BY <1>1, <2>1 DEF SelectionInv, SelectionsSettled
    <2>2. ASSUME NEW x, frames = <<x>> PROVE owner # o
      <3>1. 1 \in DOMAIN frames /\ frames[1] = x /\ owner = x
        BY <2>2 DEF SelectionInv, Changing
      <3> QED
        BY <1>1, <3>1
    <2> QED
      BY <2>1, <2>2 DEF SelectionInv, Depth
  <1>4. linked' \ tracked' \subseteq linked \ tracked /\ (owner \in Acquire => owner \in linked')
    BY <1>1, <1>3, OwnerIsLinked
  <1> QED
    BY <1>1, <1>2, <1>4, ObjectStep

\* Whoever owns the selection is tracked, so the reload finds it.
LEMMA WipeSelection ==
    ASSUME SelectionInv, WipeSelections
    PROVE  SelectionInv'
  <1>1. /\ frames = <<>> /\ frames' = <<>> /\ owner' = IF owner \in tracked \cap source THEN NoOwner ELSE owner
        /\ active' = active \ tracked /\ source' = source \ tracked /\ used' = used
        /\ alive' = {} /\ linked' = {} /\ tracked' = {}
    BY DEF WipeSelections, selection_acquire_hot_reload
  <1>2. owner' \notin Acquire /\ active' = {}
    BY <1>1, PartiesDiffer DEF SelectionInv, SelectionShape, SelectionsSettled
  <1> QED
    BY <1>1, <1>2 DEF SelectionInv, SelectionShape, Depth, SelectionsSettled, Changing

LEMMA ClientSelection ==
    ASSUME SelectionInv, NEW new, setsel(new)
    PROVE  SelectionInv'
  <1>1. frames = <<>> /\ new \notin Acquire /\ SetSelection(new) /\ alive' = alive /\ used' = used
    BY PartiesDiffer DEF setsel
  <1>2. alive \subseteq used
    BY DEF SelectionInv, SelectionShape
  <1> QED
    BY <1>1, <1>2, SetSelectionStep

(* As long as no handler of "selection_changed" acquires, whom the compositor *)
(* calls back lives and is held, and who says it is active owns the selection,*)
(* through changes, collections and reloads (objects/selection_*.c).          *)
THEOREM SelectionsAreHeld ==
    ~Reacquires => (SelectionSpec => [](SelectionCallsTheLiving /\ ActiveOwns))
  <1> SUFFICES ASSUME ~Reacquires
               PROVE  SelectionSpec => [](SelectionCallsTheLiving /\ ActiveOwns)
    OBVIOUS
  <1>1. SelectionInit => SelectionInv
    BY PartiesDiffer DEF SelectionInit, SelectionInv, SelectionShape, Depth, SelectionsSettled, Changing
  <1>2. SelectionInv /\ [SelectionNext]_selectionVars => SelectionInv'
    <2> SUFFICES ASSUME SelectionInv, [SelectionNext]_selectionVars PROVE SelectionInv'
      OBVIOUS
    <2>1. CASE UNCHANGED selectionVars
      BY <2>1 DEF selectionVars, SelectionInv, SelectionShape, Depth, SelectionsSettled, Changing
    <2> QED
      BY <2>1, ClientSelection, SettleSelection, WipeSelection, AcquireSelection, WatcherSelection, GetterSelection,
         CollectSelection
      DEF SelectionNext
  <1>3. SelectionInv => SelectionCallsTheLiving /\ ActiveOwns
    BY DEF SelectionInv, SelectionShape, SelectionsSettled, SelectionCallsTheLiving, ActiveOwns
  <1> QED
    BY <1>1, <1>2, <1>3, PTL DEF SelectionSpec

-----------------------------------------------------------------------------
(* Children and tokens.  Children are known by number, so what makes an exit  *)
(* told is that no entry outlives its process.                                *)

LEMMA RemovedAt ==
    ASSUME NEW S, NEW s \in Seq(S), NEW i \in 1..Len(s)
    PROVE  /\ RemoveAt(s, i) \in Seq(S)
           /\ Len(RemoveAt(s, i)) = Len(s) - 1
           /\ \A j \in 1..(Len(s) - 1) :
                 RemoveAt(s, i)[j] = IF j < i THEN s[j] ELSE s[j + 1]
  <1> DEFINE a == SubSeq(s, 1, i - 1)
             b == SubSeq(s, i + 1, Len(s))
  <1>1. a \in Seq(S) /\ Len(a) = i - 1 /\ \A j \in 1..(i - 1) : a[j] = s[j]
    OBVIOUS
  <1>2. b \in Seq(S) /\ Len(b) = Len(s) - i /\ \A j \in 1..(Len(s) - i) : b[j] = s[j + i]
    OBVIOUS
  <1>3. RemoveAt(s, i) = a \o b
    BY DEF RemoveAt
  <1> HIDE DEF a, b
  <1>4. /\ a \o b \in Seq(S) /\ Len(a \o b) = Len(a) + Len(b)
        /\ \A j \in 1..(Len(a) + Len(b)) :
              (a \o b)[j] = IF j <= Len(a) THEN a[j] ELSE b[j - Len(a)]
    BY <1>1, <1>2, ConcatProperties
  <1>5. ASSUME NEW j \in 1..(Len(s) - 1)
        PROVE  (a \o b)[j] = IF j < i THEN s[j] ELSE s[j + 1]
    <2>1. CASE j < i
      BY <1>1, <1>2, <1>4, <2>1
    <2>2. CASE ~(j < i)
      <3>1. (a \o b)[j] = b[j - (i - 1)] /\ j - (i - 1) \in 1..(Len(s) - i)
        BY <1>1, <1>2, <1>4, <2>2
      <3>2. b[j - (i - 1)] = s[(j - (i - 1)) + i] /\ (j - (i - 1)) + i = j + 1
        BY <1>2, <3>1
      <3> QED
        BY <2>2, <3>1, <3>2
    <2> QED
      BY <2>1, <2>2
  <1> QED
    BY <1>1, <1>2, <1>3, <1>4, <1>5

EntriesOf(cs, p) == {i \in DOMAIN cs : cs[i][1] = p}

\* Who is owed an exit has a live entry, and entries are of other processes.
ExitTold(o, cs, ow) ==
    /\ \A p \in ow : o[p] # "free" /\ \E i \in EntriesOf(cs, p) : cs[i][2] = "live"
    /\ \A i \in DOMAIN cs : o[cs[i][1]] # "free" /\ EntriesOf(cs, cs[i][1]) = {i}

ChildInv ==
    /\ os \in [Pid -> {"free", "runs", "zombie"}] /\ children \in Seq(Pid \X {"live", "NOREF"})
    /\ owed \subseteq Pid /\ ExitTold(os, children, owed)
    /\ \A p \in Pid : os[p] = "zombie" => sigpipe \/ reaper # "idle"

TokenInv ==
    /\ said \in [Token -> {"none", "initiated", "timeout", "completed"}] /\ pending \subseteq Token
    /\ wipes \in Nat
    /\ StartupsEnd

LEMMA ChildrenAre ==
    ASSUME ChildInv
    PROVE  /\ Len(children) \in Nat /\ DOMAIN children = 1..Len(children)
           /\ \A i \in 1..Len(children) :
                 /\ children[i] \in Pid \X {"live", "NOREF"}
                 /\ children[i][1] \in Pid /\ children[i][2] \in {"live", "NOREF"}
  <1>1. Len(children) \in Nat /\ DOMAIN children = 1..Len(children)
    BY LenProperties DEF ChildInv
  <1>2. ASSUME NEW i \in 1..Len(children)
        PROVE  children[i] \in Pid \X {"live", "NOREF"}
    BY <1>1, <1>2, ElementOfSeq DEF ChildInv
  <1> QED
    BY <1>1, <1>2

\* A process that starts has a number that no entry names.
LEMMA ChildStarts ==
    ASSUME ChildInv, NEW p \in Pid, os[p] = "free", os' = [os EXCEPT ![p] = "runs"],
           children' = Append(children, <<p, "live">>), owed' = owed \cup {p},
           UNCHANGED <<sigpipe, reaper>>
    PROVE  ChildInv'
  <1>1. /\ children' \in Seq(Pid \X {"live", "NOREF"}) /\ Len(children') = Len(children) + 1
        /\ \A i \in 1..Len(children) : children'[i] = children[i]
        /\ children'[Len(children) + 1] = <<p, "live">>
    BY AppendProperties DEF ChildInv
  <1>2. DOMAIN children' = 1..(Len(children) + 1)
    BY <1>1, LenProperties
  <1>3. \A i \in 1..Len(children) : children[i][1] # p /\ os[children[i][1]] # "free"
    BY ChildrenAre DEF ChildInv, ExitTold
  <1>4. \A q \in Pid : EntriesOf(children', q) = IF q = p THEN {Len(children) + 1} ELSE EntriesOf(children, q)
    <2> TAKE q \in Pid
    <2> SUFFICES ASSUME NEW i
                 PROVE  i \in EntriesOf(children', q) <=> i \in (IF q = p THEN {Len(children) + 1} ELSE EntriesOf(children, q))
      OBVIOUS
    <2>1. i \in EntriesOf(children', q) <=> i \in 1..(Len(children) + 1) /\ children'[i][1] = q
      BY <1>2 DEF EntriesOf
    <2>2. i \in EntriesOf(children, q) <=> i \in 1..Len(children) /\ children[i][1] = q
      BY ChildrenAre DEF EntriesOf
    <2> QED
      BY <1>1, <1>3, <2>1, <2>2, ChildrenAre
  <1>5. os' \in [Pid -> {"free", "runs", "zombie"}] /\ owed' \subseteq Pid
        /\ \A q \in Pid : os'[q] = IF q = p THEN "runs" ELSE os[q]
    BY DEF ChildInv
  <1>6. \A q \in Pid : os'[q] = "zombie" => sigpipe' \/ reaper' # "idle"
    BY <1>5 DEF ChildInv, ExitTold
  <1>7. ASSUME NEW q \in owed' PROVE os'[q] # "free" /\ \E i \in EntriesOf(children', q) : children'[i][2] = "live"
    <2>1. CASE q = p
      BY <1>1, <1>4, <1>5, <2>1
    <2>2. CASE q # p
      <3>1. q \in owed /\ q \in Pid /\ os[q] # "free"
        BY <2>2 DEF ChildInv, ExitTold
      <3>2. PICK i \in EntriesOf(children, q) : children[i][2] = "live"
        BY <3>1 DEF ChildInv, ExitTold
      <3>3. i \in 1..Len(children)
        BY ChildrenAre DEF EntriesOf
      <3> QED
        BY <1>1, <1>4, <1>5, <2>2, <3>1, <3>2, <3>3
    <2> QED
      BY <2>1, <2>2
  <1>8. ASSUME NEW i \in DOMAIN children'
        PROVE  os'[children'[i][1]] # "free" /\ EntriesOf(children', children'[i][1]) = {i}
    <2>1. CASE i = Len(children) + 1
      BY <1>1, <1>4, <1>5, <2>1
    <2>2. CASE i \in 1..Len(children)
      <3>1. children'[i] = children[i] /\ children[i][1] \in Pid /\ children[i][1] # p
        BY <1>1, <1>3, <2>2, ChildrenAre
      <3>2. os[children[i][1]] # "free" /\ EntriesOf(children, children[i][1]) = {i}
        BY <2>2, ChildrenAre DEF ChildInv, ExitTold
      <3> QED
        BY <1>4, <1>5, <3>1, <3>2
    <2> QED
      <3>1. Len(children) \in Nat
        BY ChildrenAre
      <3>2. i = Len(children) + 1 \/ i \in 1..Len(children)
        BY <1>2, <3>1
      <3> QED
        BY <2>1, <2>2, <3>2
  <1> QED
    BY <1>1, <1>5, <1>6, <1>7, <1>8 DEF ChildInv, ExitTold

\* A number is reaped: its entry, if it has one, goes.
LEMMA ChildReaped ==
    ASSUME ChildInv, NEW p \in Pid, waitpid(p)
    PROVE  ChildInv'
  <1>1. /\ os' \in [Pid -> {"free", "runs", "zombie"}]
        /\ \A q \in Pid : os'[q] = IF q = p THEN "free" ELSE os[q]
    BY DEF ChildInv, waitpid
  <1>2. reaper' # "idle"
    BY DEF waitpid, spawn_child_exited, Entries, EntriesOf
  <1>3. CASE EntriesOf(children, p) = {}
    <2>1. children' = children /\ owed' = owed
      BY <1>3 DEF waitpid, spawn_child_exited, Entries, EntriesOf
    <2>2. p \notin owed /\ \A i \in DOMAIN children : children[i][1] # p
      BY <1>3 DEF ChildInv, ExitTold, EntriesOf
    <2>3. \A q : EntriesOf(children', q) = EntriesOf(children, q)
      BY <2>1 DEF EntriesOf
    <2>4. \A q \in owed : os'[q] # "free" /\ \E i \in EntriesOf(children', q) : children'[i][2] = "live"
      BY <1>1, <2>1, <2>2, <2>3 DEF ChildInv, ExitTold
    <2>5. \A i \in DOMAIN children' : os'[children'[i][1]] # "free" /\ EntriesOf(children', children'[i][1]) = {i}
      BY <1>1, <2>1, <2>2, <2>3, ChildrenAre DEF ChildInv, ExitTold
    <2> QED
      BY <1>1, <1>2, <2>1, <2>4, <2>5 DEF ChildInv, ExitTold
  <1>4. CASE EntriesOf(children, p) # {}
    <2>1. PICK k \in EntriesOf(children, p) : TRUE
      BY <1>4
    <2>2. k \in 1..Len(children) /\ children[k][1] = p
      BY <2>1, ChildrenAre DEF EntriesOf
    <2>3. EntriesOf(children, p) = {k}
      BY <2>2, ChildrenAre DEF ChildInv, ExitTold
    <2>4. find_child(p) = k
      <3>1. \A i \in {k} : (\A j \in {k} : i <= j) <=> i = k
        BY <2>2, ChildrenAre
      <3> QED
        BY <2>3, <3>1 DEF find_child, Entries, EntriesOf
    <2>5. children' = RemoveAt(children, k)
      BY <1>4, <2>4 DEF waitpid, spawn_child_exited, Entries, EntriesOf, Without, RemoveAt
    <2>6. /\ children' \in Seq(Pid \X {"live", "NOREF"}) /\ Len(children') = Len(children) - 1
          /\ \A j \in 1..(Len(children) - 1) :
                children'[j] = IF j < k THEN children[j] ELSE children[j + 1]
      BY <2>2, <2>5, RemovedAt DEF ChildInv
    <2>7. DOMAIN children' = 1..(Len(children) - 1)
      BY <2>6, LenProperties
    <2>8. owed' \subseteq owed /\ p \notin owed'
      <3>1. CASE children[k][2] = "NOREF"
        <4>1. p \notin owed
          BY <2>3, <3>1 DEF ChildInv, ExitTold
        <4> QED
          BY <1>4, <2>4, <3>1, <4>1 DEF waitpid, spawn_child_exited, Entries, EntriesOf
      <3>2. CASE children[k][2] # "NOREF"
        BY <1>4, <2>4, <3>2 DEF waitpid, spawn_child_exited, Entries, EntriesOf
      <3> QED
        BY <3>1, <3>2
    <2>9. ASSUME NEW q \in owed'
          PROVE  os'[q] # "free" /\ \E i \in EntriesOf(children', q) : children'[i][2] = "live"
      <3>1. q \in owed /\ q # p /\ q \in Pid /\ os[q] # "free"
        BY <2>8 DEF ChildInv, ExitTold
      <3>2. PICK i \in EntriesOf(children, q) : children[i][2] = "live"
        BY <3>1 DEF ChildInv, ExitTold
      <3>3. i \in 1..Len(children) /\ children[i][1] = q /\ i # k
        BY <2>2, <3>1, ChildrenAre DEF EntriesOf
      <3>4. PICK j : j = (IF i < k THEN i ELSE i - 1)
        OBVIOUS
      <3>5. j \in 1..(Len(children) - 1) /\ children'[j] = children[i]
        <4>1. Len(children) \in Nat
          BY ChildrenAre
        <4>2. i < k \/ i > k
          BY <2>2, <3>3, <4>1
        <4>3. CASE i < k
          BY <2>2, <2>6, <3>3, <3>4, <4>1, <4>3
        <4>4. CASE i > k
          <5>1. j = i - 1 /\ j \in 1..(Len(children) - 1) /\ ~(j < k) /\ j + 1 = i
            BY <2>2, <3>3, <3>4, <4>1, <4>4
          <5> QED
            BY <2>6, <5>1
        <4> QED
          BY <4>2, <4>3, <4>4
      <3>6. j \in EntriesOf(children', q)
        BY <2>7, <3>3, <3>5 DEF EntriesOf
      <3> QED
        BY <1>1, <3>1, <3>2, <3>5, <3>6
    <2>10. ASSUME NEW j \in DOMAIN children'
           PROVE  os'[children'[j][1]] # "free" /\ EntriesOf(children', children'[j][1]) = {j}
      <3>1. PICK i : i = (IF j < k THEN j ELSE j + 1)
        OBVIOUS
      <3>2. i \in 1..Len(children) /\ i # k /\ children'[j] = children[i]
        BY <2>2, <2>6, <2>7, <3>1, ChildrenAre
      <3>3. children[i][1] # p /\ children[i][1] \in Pid
        BY <2>3, <3>2, ChildrenAre DEF EntriesOf
      <3>4. os[children[i][1]] # "free" /\ EntriesOf(children, children[i][1]) = {i}
        BY <3>2, ChildrenAre DEF ChildInv, ExitTold
      <3>5. ASSUME NEW l \in DOMAIN children', children'[l][1] = children[i][1]
            PROVE  l = j
        <4>1. PICK m : m = (IF l < k THEN l ELSE l + 1)
          OBVIOUS
        <4>2. m \in 1..Len(children) /\ children'[l] = children[m]
          BY <2>2, <2>6, <2>7, <4>1, ChildrenAre
        <4>3. m = i
          BY <3>4, <3>5, <4>2, ChildrenAre DEF EntriesOf
        <4> QED
          BY <2>2, <2>7, <3>1, <4>1, <4>3, ChildrenAre
      <3>6. EntriesOf(children', children'[j][1]) = {j}
        BY <3>2, <3>5 DEF EntriesOf
      <3> QED
        BY <1>1, <3>2, <3>3, <3>4, <3>6
    <2> QED
      BY <1>1, <1>2, <2>6, <2>8, <2>9, <2>10 DEF ChildInv, ExitTold
  <1> QED
    BY <1>3, <1>4

\* The callbacks go with their Lua state; the entries stay, and none is owed.
LEMMA ChildrenWiped ==
    ASSUME ChildInv, WipeSpawn
    PROVE  ChildInv'
  <1>1. /\ os' = os /\ owed' = {} /\ UNCHANGED <<sigpipe, reaper>>
        /\ children' = [i \in DOMAIN children |-> <<children[i][1], "NOREF">>]
    BY DEF WipeSpawn, spawn_invalidate_callbacks
  <1>2. children' \in [1..Len(children) -> Pid \X {"live", "NOREF"}]
    BY <1>1, ChildrenAre
  <1>3. children' \in Seq(Pid \X {"live", "NOREF"}) /\ DOMAIN children' = DOMAIN children
    BY <1>1, <1>2, ChildrenAre, SeqDef
  <1>4. \A i \in DOMAIN children : children'[i][1] = children[i][1]
    BY <1>1
  <1>5. \A q : EntriesOf(children', q) = EntriesOf(children, q)
    BY <1>3, <1>4 DEF EntriesOf
  <1> QED
    BY <1>1, <1>3, <1>4, <1>5 DEF ChildInv, ExitTold

LEMMA NextChild ==
    ASSUME ChildInv, [SpawnNext]_spawnVars
    PROVE  ChildInv'
  <1>0. ASSUME UNCHANGED <<os, children, owed>>,
               \A p \in Pid : os[p] = "zombie" => sigpipe' \/ reaper' # "idle"
        PROVE  ChildInv'
    <2>1. \A q : EntriesOf(children', q) = EntriesOf(children, q)
      BY <1>0 DEF EntriesOf
    <2> QED
      BY <1>0, <2>1 DEF ChildInv, ExitTold
  <1>1. ASSUME NEW p \in Pid, luaA_spawn(p) PROVE ChildInv'
    <2>1. CASE UNCHANGED <<os, children, owed>>
      BY <1>0, <1>1, <2>1 DEF luaA_spawn, ChildInv, ExitTold
    <2> QED
      BY <1>1, <2>1, ChildStarts DEF luaA_spawn
  <1>2. ASSUME NEW p \in Pid, Exit(p) PROVE ChildInv'
    <2>1. \A q : EntriesOf(children', q) = EntriesOf(children, q)
      BY <1>2 DEF Exit, EntriesOf
    <2>2. /\ os' \in [Pid -> {"free", "runs", "zombie"}]
          /\ \A q \in Pid : os'[q] = IF q = p THEN "zombie" ELSE os[q]
      BY <1>2 DEF Exit, ChildInv
    <2>3. \A i \in DOMAIN children : os'[children[i][1]] # "free"
      BY <2>2, ChildrenAre DEF ChildInv, ExitTold
    <2>4. \A q \in owed : os'[q] # "free"
      BY <2>2 DEF ChildInv, ExitTold
    <2> QED
      BY <1>2, <2>1, <2>2, <2>3, <2>4 DEF Exit, ChildInv, ExitTold
  <1>3. ASSUME NEW t \in Token, activation_token_timeout(t) \/ urgent(t) PROVE ChildInv'
    <2>1. UNCHANGED childVars
      BY <1>3 DEF activation_token_timeout, urgent
    <2> QED
      BY <1>0, <2>1 DEF childVars, ChildInv
  <1>4. CASE reap_children
    BY <1>0, <1>4 DEF reap_children, Drained
  <1>5. CASE CallbackReturns
    BY <1>0, <1>5 DEF CallbackReturns
  <1>6. CASE ReapedAll
    BY <1>0, <1>6 DEF ReapedAll
  <1>7. CASE UNCHANGED spawnVars
    BY <1>0, <1>7 DEF spawnVars, ChildInv, ExitTold
  <1> QED
    BY <1>1, <1>2, <1>3, <1>4, <1>5, <1>6, <1>7, ChildReaped, ChildrenWiped DEF SpawnNext

LEMMA NextToken ==
    ASSUME TokenInv, [SpawnNext]_spawnVars
    PROVE  TokenInv'
  <1>0. ASSUME UNCHANGED <<tokenVars, wipes>> PROVE TokenInv'
    BY <1>0 DEF tokenVars, TokenInv, StartupsEnd
  <1>1. ASSUME NEW t \in Token, activation_token_create(t), UNCHANGED wipes PROVE TokenInv'
    BY <1>1 DEF activation_token_create, TokenInv, StartupsEnd
  <1>2. ASSUME NEW t \in Token, activation_token_timeout(t) PROVE TokenInv'
    BY <1>2 DEF activation_token_timeout, TokenInv, StartupsEnd
  <1>3. ASSUME NEW t \in Token, urgent(t) PROVE TokenInv'
    BY <1>3 DEF urgent, activation_token_cleanup, TokenInv, StartupsEnd
  <1>4. CASE WipeSpawn
    BY <1>4 DEF WipeSpawn, activation_tokens_cancel_all, TokenInv, StartupsEnd
  <1>5. ASSUME NEW p \in Pid, luaA_spawn(p) \/ Exit(p) \/ waitpid(p) PROVE TokenInv'
    BY <1>0, <1>1, <1>5 DEF luaA_spawn, Exit, waitpid
  <1> QED
    BY <1>0, <1>2, <1>3, <1>4, <1>5
    DEF SpawnNext, spawnVars, reap_children, CallbackReturns, ReapedAll, tokenVars

(* However processes exit, are reaped and their callbacks start others, each  *)
(* exit that must be told will be, and each start-up that was announced ends, *)
(* through reloads (spawn.c, protocols.c).                                    *)
THEOREM ExitsAreTold == SpawnSpec => [](ExitsWillBeTold /\ StartupsEnd)
  <1>1. SpawnInit => ChildInv /\ TokenInv
    <2> SUFFICES ASSUME SpawnInit PROVE ChildInv /\ TokenInv
      OBVIOUS
    <2>1. children = <<>> /\ DOMAIN children = {}
      BY DEF SpawnInit
    <2> QED
      BY <2>1 DEF SpawnInit, ChildInv, TokenInv, ExitTold, EntriesOf, StartupsEnd
  <1>2. ChildInv /\ TokenInv /\ [SpawnNext]_spawnVars => ChildInv' /\ TokenInv'
    BY NextChild, NextToken
  <1>3. ChildInv /\ TokenInv => ExitsWillBeTold /\ StartupsEnd
    BY DEF ChildInv, ExitTold, TokenInv, ExitsWillBeTold, Entries, EntriesOf
  <1> QED
    BY <1>1, <1>2, <1>3, PTL DEF SpawnSpec

-----------------------------------------------------------------------------
(* Test instances.  With one command at a time, its stage says what may run:  *)
(* nothing (Silent), the one of the pid file (NamedOnly), or the one it started   *)
(* (SoleProc), which has the directory to itself.                                 *)

Silent == \A p \in Proc : ~Works(p)
NamedOnly  == \A p \in Proc : Works(p) => dir.pid = p /\ dir.sock \in {p, NoProc}
SoleProc(p) ==
    /\ p \in Proc /\ dir.there /\ dir.log = p /\ dir.sock \in {p, NoProc} /\ started = NoProc
    /\ \A q \in Proc : Works(q) => q = p

CmdKills(r)  == r.at \in {"kill", "term"}
CmdWaits(r) == r.at \in {"waiting", "failed"} \/ (CmdKills(r) /\ r.then = "failed")
TestStage(r) ==
    /\ r.at \in {"start", "stop"} => NamedOnly
    /\ r.at \in {"clear", "remove", "made", "failed"} => Silent
    /\ r.at = "made" => dir = MadeDir /\ started = NoProc
    /\ r.at = "forked" => SoleProc(r.pid) /\ dir.pid = NoProc
    /\ CmdWaits(r) => SoleProc(r.pid) /\ dir.pid = r.pid
    /\ CmdKills(r) => r.then \in {"clear", "remove", "failed"}
    /\ CmdKills(r) /\ r.then # "failed" => NamedOnly /\ r.pid = dir.pid
    /\ r.at = "term" => r.pid \in Proc

CmdType ==
    [at : {"idle", "start", "stop", "clear", "made", "forked", "waiting", "kill", "term", "failed", "remove"},
     then : {"none", "clear", "remove", "failed"}, force : BOOLEAN,
     pid : Proc \cup {NoProc}, exit : {0, 2, 3, 5, 6}]

TestShape ==
    /\ dir \in [there : BOOLEAN, pid : Proc \cup {NoProc}, sock : Proc \cup {NoProc}, log : Proc \cup {NoProc}]
    /\ proc \in [Proc -> {"none", "starting", "up", "fatal", "leaving", "zombie", "dead"}]
    /\ child \in [Proc -> Cmd \cup {NoProc}] /\ started \in Proc \cup {NoProc}
    /\ cmd \in [Cmd -> CmdType]
    /\ dir.there \/ dir = NoDir

TestInv ==
    /\ TestShape /\ StartedStays
    /\ \A c, d \in Cmd : cmd[c].at # "idle" /\ cmd[d].at # "idle" => c = d
    /\ \A c \in Cmd : TestStage(cmd[c])
    /\ Quiet => NamedOnly
    /\ \A c \in Cmd : cmd[c].exit = 5 => Quiet /\ dir.log = cmd[c].pid /\ ~Works(cmd[c].pid)

\* The command that runs goes on.
LEMMA CmdGoesOn ==
    ASSUME TestInv, NEW c \in Cmd, cmd[c].at # "idle", TestShape', StartedStays',
           \A d \in Cmd \ {c} : cmd'[d] = cmd[d], cmd'[c].at # "idle", cmd'[c].exit = cmd[c].exit,
           TestStage(cmd[c])'
    PROVE  TestInv'
  <1>1. \A d \in Cmd \ {c} : cmd'[d].at = "idle"
    BY DEF TestInv
  <1>2. \A d \in Cmd : cmd'[d].exit # 5
    BY DEF TestInv, Quiet, CmdAt
  <1>3. \A d \in Cmd : TestStage(cmd[d])'
    BY <1>1 DEF TestStage, CmdWaits, CmdKills
  <1> QED
    BY <1>1, <1>2, <1>3 DEF TestInv, Quiet, CmdAt

\* The command that runs ends.
LEMMA CmdEnds ==
    ASSUME TestInv, NEW c \in Cmd, cmd[c].at # "idle", NEW code \in {0, 2, 3, 5, 6}, ExitWith(c, code),
           dir' \in [there : BOOLEAN, pid : Proc \cup {NoProc}, sock : Proc \cup {NoProc}, log : Proc \cup {NoProc}],
           dir'.there \/ dir' = NoDir, started' \in Proc \cup {NoProc}, StartedStays', NamedOnly',
           code = 5 => dir'.log = cmd[c].pid /\ Silent
    PROVE  TestInv'
  <1>1. /\ \A p \in Proc : Works(p)' = Works(p)
        /\ proc' \in [Proc -> {"none", "starting", "up", "fatal", "leaving", "zombie", "dead"}]
        /\ child' \in [Proc -> Cmd \cup {NoProc}]
    BY DEF ExitWith, Works, TestInv, TestShape
  <1>2. /\ cmd' \in [Cmd -> CmdType] /\ cmd'[c].at = "idle" /\ cmd'[c].exit = code /\ cmd'[c].pid = cmd[c].pid
        /\ \A d \in Cmd \ {c} : cmd'[d] = cmd[d]
    BY DEF ExitWith, TestInv, TestShape, CmdType, Asleep
  <1>3. \A d \in Cmd : cmd'[d].at = "idle"
    BY <1>2 DEF TestInv
  <1>4. \A d \in Cmd : TestStage(cmd[d])'
    BY <1>3 DEF TestStage, CmdWaits, CmdKills
  <1>5. \A d \in Cmd \ {c} : cmd'[d].exit # 5
    BY <1>2 DEF TestInv, Quiet, CmdAt
  <1>6. cmd'[c].pid \in Proc \cup {NoProc}
    BY <1>2 DEF CmdType
  <1>7. \A d \in Cmd : cmd'[d].exit = 5 => Quiet' /\ dir'.log = cmd'[d].pid /\ ~Works(cmd[d].pid)'
    BY <1>1, <1>2, <1>3, <1>5, <1>6, ProcAssumption DEF Quiet, CmdAt, Silent, Works
  <1> QED
    BY <1>1, <1>2, <1>3, <1>4, <1>7 DEF TestInv, TestShape

\* A command goes to another stage, or begins to kill.
LEMMA CmdIs ==
    ASSUME TestShape, NEW c \in Cmd,
           NEW what \in {"idle", "start", "stop", "clear", "made", "forked", "waiting", "kill", "term", "failed", "remove"},
           CmdGoes(c, what)
    PROVE  /\ cmd' \in [Cmd -> CmdType] /\ \A d \in Cmd \ {c} : cmd'[d] = cmd[d]
           /\ cmd'[c].at = what /\ cmd'[c].exit = cmd[c].exit /\ cmd'[c].pid = cmd[c].pid
           /\ cmd'[c].then = cmd[c].then /\ cmd'[c].force = cmd[c].force
  BY DEF TestShape, CmdType, CmdGoes

LEMMA KillIs ==
    ASSUME TestShape, NEW c \in Cmd, NEW p \in Proc \cup {NoProc}, NEW then \in {"clear", "remove", "failed"},
           KillBegins(c, p, then)
    PROVE  /\ cmd' \in [Cmd -> CmdType] /\ \A d \in Cmd \ {c} : cmd'[d] = cmd[d]
           /\ cmd'[c].at = "kill" /\ cmd'[c].exit = cmd[c].exit /\ cmd'[c].pid = p
           /\ cmd'[c].then = then
  <1>1. /\ cmd[c] \in CmdType /\ DOMAIN cmd = Cmd
        /\ cmd[c] = [at |-> cmd[c].at, then |-> cmd[c].then, force |-> cmd[c].force,
                     pid |-> cmd[c].pid, exit |-> cmd[c].exit]
    BY DEF TestShape, CmdType
  <1>2. PICK r : r = [at |-> "kill", then |-> then, force |-> cmd[c].force, pid |-> p, exit |-> cmd[c].exit]
    OBVIOUS
  <1>3. r \in CmdType /\ r.at = "kill" /\ r.exit = cmd[c].exit /\ r.pid = p /\ r.then = then
    BY <1>1, <1>2 DEF CmdType
  <1>4. cmd' = [d \in Cmd |-> IF d = c THEN r ELSE cmd[d]]
    <2>1. DOMAIN cmd' = Cmd /\ \A d \in Cmd \ {c} : cmd'[d] = cmd[d]
      BY <1>1 DEF KillBegins
    <2>2. cmd'[c] = [[[cmd[c] EXCEPT !.at = "kill"] EXCEPT !.pid = p] EXCEPT !.then = then]
      BY <1>1 DEF KillBegins
    <2>3. cmd'[c] = r
      BY <1>1, <1>2, <2>2
    <2>4. cmd' = [d \in Cmd |-> cmd'[d]]
      BY <1>1 DEF KillBegins
    <2> QED
      BY <2>1, <2>3, <2>4
  <1> QED
    BY <1>3, <1>4 DEF TestShape

LEMMA StatesOfProc == TestShape => \A p \in Proc : Works(p) <=> proc[p] \in {"starting", "up", "fatal", "leaving"}
  BY ProcAssumption DEF Works

LEMMA BeginTest ==
    ASSUME TestInv, ~Beside, NEW c \in Cmd, NEW force \in BOOLEAN, NEW what \in {"start", "stop"},
           BeginCmd(c, force, what)
    PROVE  TestInv'
  <1>1. \A d \in Cmd : cmd[d].at = "idle"
    BY DEF BeginCmd, Quiet, CmdAt
  <1>2. /\ cmd' \in [Cmd -> CmdType] /\ cmd'[c].at = what
        /\ \A d \in Cmd : cmd'[d].exit = 0 /\ (d # c => cmd'[d].at = "idle")
    <2>1. PICK r : r = [Asleep EXCEPT !.at = what, !.force = force]
      OBVIOUS
    <2>2. r \in CmdType /\ r.at = what /\ r.exit = 0
      BY <2>1 DEF CmdType, Asleep
    <2>3. [Asleep EXCEPT !.at = what, !.force = force] = r
      BY <2>1
    <2>4. cmd' = [d \in Cmd |-> IF d = c THEN r ELSE [cmd[d] EXCEPT !.exit = 0]]
      BY <2>3 DEF BeginCmd
    <2>5. ASSUME NEW d \in Cmd
          PROVE  /\ [cmd[d] EXCEPT !.exit = 0] \in CmdType /\ [cmd[d] EXCEPT !.exit = 0].exit = 0
                 /\ [cmd[d] EXCEPT !.exit = 0].at = "idle"
      BY <1>1 DEF TestInv, TestShape, CmdType
    <2> QED
      BY <2>2, <2>4, <2>5
  <1>3. NamedOnly
    BY <1>1 DEF TestInv, Quiet, CmdAt
  <1>4. NamedOnly' /\ TestShape' /\ StartedStays'
    BY <1>2, <1>3 DEF BeginCmd, NamedOnly, Works, TestInv, TestShape, StartedStays
  <1>5. \A d \in Cmd : TestStage(cmd[d])'
    BY <1>2, <1>4 DEF TestStage, CmdWaits, CmdKills
  <1> QED
    BY <1>2, <1>4, <1>5 DEF TestInv, Quiet, CmdAt

LEMMA KillTest ==
    ASSUME TestInv, NEW c \in Cmd, Terminate(c) \/ Killed(c)
    PROVE  TestInv'
  <1>1. /\ cmd[c].at \in {"kill", "term"} /\ cmd[c] \in CmdType /\ TestStage(cmd[c]) /\ TestShape /\ StartedStays
        /\ CmdKills(cmd[c]) /\ cmd[c].then \in {"clear", "remove", "failed"}
    BY DEF Terminate, Killed, CmdAt, TestInv, TestShape, TestStage, CmdKills
  <1>2. cmd[c].at = "term" => cmd[c].pid \in Proc
    BY <1>1 DEF TestStage
  <1>3. cmd[c].pid \in Proc \cup {NoProc}
    BY <1>1 DEF CmdType
  <1>4. /\ UNCHANGED <<dir, child, started>>
        /\ proc' \in [Proc -> {"none", "starting", "up", "fatal", "leaving", "zombie", "dead"}]
        /\ \A q \in Proc : (Works(q)' => Works(q)) /\ (proc'[q] = "up" => proc[q] = "up")
    <2>1. CASE Terminate(c)
      BY <1>1, <1>3, <2>1, ProcAssumption DEF Terminate, TestShape, Works, pid_alive
    <2>2. CASE Killed(c)
      BY <1>1, <1>2, <2>2, ProcAssumption DEF Killed, CmdAt, SIGKILL, Ends, TestShape, Works
    <2> QED
      BY <2>1, <2>2
  <1>5. StartedStays'
    BY <1>1, <1>4, ProcAssumption DEF StartedStays, TestShape
  <1>6. CASE cmd'[c].at = "term" /\ CmdGoes(c, "term") /\ pid_alive(cmd[c].pid)
    <2>1. /\ cmd' \in [Cmd -> CmdType] /\ \A d \in Cmd \ {c} : cmd'[d] = cmd[d]
          /\ cmd'[c].at = "term" /\ cmd'[c].exit = cmd[c].exit /\ cmd'[c].pid = cmd[c].pid
          /\ cmd'[c].then = cmd[c].then
      BY <1>1, <1>6, CmdIs
    <2>2. TestShape'
      BY <1>1, <1>4, <2>1 DEF TestShape, NoDir
    <2>3. cmd[c].pid \in Proc
      BY <1>3, <1>6 DEF pid_alive
    <2>4. TestStage(cmd[c])'
      <3>1. CASE cmd[c].then = "failed"
        BY <1>1, <1>4, <2>1, <2>3, <3>1 DEF TestStage, CmdWaits, CmdKills, SoleProc
      <3>2. CASE cmd[c].then # "failed"
        BY <1>1, <1>4, <2>1, <2>3, <3>2 DEF TestStage, CmdWaits, CmdKills, NamedOnly
      <3> QED
        BY <3>1, <3>2
    <2> QED
      BY <1>1, <1>5, <2>1, <2>2, <2>4, CmdGoesOn
  <1>7. CASE CmdGoes(c, cmd[c].then) /\ \A q \in Proc : q = cmd[c].pid => ~Works(q)'
    <2>1. PICK what : what = cmd[c].then
      OBVIOUS
    <2>2. what \in {"clear", "remove", "failed"} /\ CmdGoes(c, what)
      BY <1>1, <1>7, <2>1
    <2>3. /\ cmd' \in [Cmd -> CmdType] /\ \A d \in Cmd \ {c} : cmd'[d] = cmd[d]
          /\ cmd'[c].at = what /\ cmd'[c].exit = cmd[c].exit /\ cmd'[c].pid = cmd[c].pid
          /\ cmd'[c].then = what
      BY <1>1, <2>1, <2>2, CmdIs
    <2>4. TestShape'
      BY <1>1, <1>4, <2>3 DEF TestShape, NoDir
    <2>5. TestStage(cmd[c])'
      <3>1. CASE what = "failed"
        <4>1. SoleProc(cmd[c].pid) /\ dir.pid = cmd[c].pid
          BY <1>1, <2>1, <3>1 DEF TestStage, CmdWaits
        <4>2. SoleProc(cmd[c].pid)' /\ Silent'
          BY <1>4, <1>7, <2>3, <4>1 DEF SoleProc, Silent
        <4> QED
          BY <1>4, <2>3, <3>1, <4>1, <4>2 DEF TestStage, CmdWaits, CmdKills
      <3>2. CASE what # "failed"
        <4>1. NamedOnly /\ cmd[c].pid = dir.pid
          BY <1>1, <2>1, <3>2 DEF TestStage
        <4>2. Silent'
          BY <1>4, <1>7, <4>1 DEF NamedOnly, Silent
        <4> QED
          BY <2>2, <2>3, <3>2, <4>2 DEF TestStage, CmdWaits, CmdKills
      <3> QED
        BY <3>1, <3>2
    <2> QED
      BY <1>1, <1>5, <2>2, <2>3, <2>4, <2>5, CmdGoesOn
  <1>8. CASE Killed(c)
    <2>1. PICK p : p = cmd[c].pid
      OBVIOUS
    <2>2. p \in Proc /\ ~Works(p)'
      BY <1>1, <1>2, <1>8, <2>1, ProcAssumption DEF Killed, CmdAt, SIGKILL, Ends, TestShape, Works
    <2> QED
      <3>1. \A q \in Proc : q = cmd[c].pid => ~Works(q)'
        BY <2>1, <2>2
      <3> QED
        BY <1>7, <1>8, <3>1 DEF Killed
  <1>9. CASE Terminate(c)
    <2>1. CASE ~pid_alive(cmd[c].pid) /\ CmdGoes(c, cmd[c].then) /\ UNCHANGED proc
      BY <1>7, <2>1 DEF pid_alive, Works
    <2>2. CASE pid_alive(cmd[c].pid) /\ CmdGoes(c, "term")
      <3>1. cmd'[c].at = "term"
        BY <1>1, <2>2, CmdIs
      <3> QED
        BY <1>6, <2>2, <3>1
    <2> QED
      BY <1>9, <2>1, <2>2 DEF Terminate
  <1> QED
    BY <1>8, <1>9

\* What the lemmas on the stages start from.
LEMMA TestStageIs ==
    ASSUME TestInv, NEW c \in Cmd
    PROVE  /\ TestShape /\ StartedStays /\ TestStage(cmd[c]) /\ cmd[c] \in CmdType
           /\ cmd[c].pid \in Proc \cup {NoProc}
           /\ dir.pid \in Proc \cup {NoProc}
  BY DEF TestInv, TestShape, CmdType

LEMMA StatTest ==
    ASSUME TestInv, NEW c \in Cmd, StatStart(c) \/ StatStop(c)
    PROVE  TestInv'
  <1>1. cmd[c].at \in {"start", "stop"} /\ NamedOnly /\ UNCHANGED <<dir, started>>
    BY TestStageIs DEF StatStart, StatStop, CmdAt, TestStage
  <1>2. ASSUME NEW code \in {2, 3}, ExitWith(c, code) PROVE TestInv'
    <2>1. NamedOnly' /\ StartedStays'
      BY <1>1, <1>2, TestStageIs DEF ExitWith, NamedOnly, Works, StartedStays, TestShape
    <2> QED
      BY <1>1, <1>2, <2>1, TestStageIs, CmdEnds DEF TestShape
  <1>3. ASSUME NEW then \in {"clear", "remove"}, KillBegins(c, dir.pid, then), UNCHANGED <<proc, child>>
        PROVE  TestInv'
    <2>1. PICK p : p = dir.pid
      OBVIOUS
    <2>2. /\ cmd' \in [Cmd -> CmdType] /\ \A d \in Cmd \ {c} : cmd'[d] = cmd[d]
          /\ cmd'[c].at = "kill" /\ cmd'[c].exit = cmd[c].exit /\ cmd'[c].pid = p
          /\ cmd'[c].then = then
      BY <1>3, <2>1, TestStageIs, KillIs
    <2>3. TestShape' /\ StartedStays' /\ NamedOnly'
      BY <1>1, <1>3, <2>2, TestStageIs DEF TestShape, StartedStays, NamedOnly, Works, NoDir
    <2>4. TestStage(cmd[c])'
      BY <1>1, <1>3, <2>1, <2>2, <2>3 DEF TestStage, CmdWaits, CmdKills
    <2> QED
      BY <1>1, <2>2, <2>3, <2>4, CmdGoesOn
  <1>4. ASSUME ~(dir.there /\ pid_alive(dir.pid)), CmdGoes(c, "clear"), UNCHANGED <<proc, child>>
        PROVE  TestInv'
    <2>1. /\ cmd' \in [Cmd -> CmdType] /\ \A d \in Cmd \ {c} : cmd'[d] = cmd[d]
          /\ cmd'[c].at = "clear" /\ cmd'[c].exit = cmd[c].exit
      BY <1>4, TestStageIs, CmdIs
    <2>2. ~dir.there => dir.pid = NoProc
      BY TestStageIs DEF TestShape, NoDir
    <2>3. Silent
      BY <1>1, <1>4, <2>2, ProcAssumption DEF Silent, NamedOnly, Works, pid_alive
    <2>4. TestShape' /\ StartedStays' /\ Silent'
      BY <1>1, <1>4, <2>1, <2>3, TestStageIs DEF TestShape, StartedStays, Silent, Works, NoDir
    <2>5. TestStage(cmd[c])'
      BY <2>1, <2>4 DEF TestStage, CmdWaits, CmdKills
    <2> QED
      BY <1>1, <2>1, <2>4, <2>5, CmdGoesOn
  <1>5. CASE StatStart(c)
    BY <1>2, <1>3, <1>4, <1>5 DEF StatStart
  <1>6. CASE StatStop(c)
    BY <1>2, <1>3, <1>6 DEF StatStop
  <1> QED
    BY <1>5, <1>6

LEMMA ClearTest ==
    ASSUME TestInv, NEW c \in Cmd, Clear(c)
    PROVE  TestInv'
  <1>1. Silent /\ cmd[c].at = "clear"
    BY TestStageIs DEF Clear, CmdAt, TestStage
  <1>2. /\ cmd' \in [Cmd -> CmdType] /\ \A d \in Cmd \ {c} : cmd'[d] = cmd[d]
        /\ cmd'[c].at = "made" /\ cmd'[c].exit = cmd[c].exit
    BY TestStageIs, CmdIs DEF Clear
  <1>3. started' = NoProc
    BY <1>1, TestStageIs, ProcAssumption DEF Clear, Silent, Works, TestShape
  <1>4. TestShape' /\ StartedStays' /\ Silent'
    BY <1>1, <1>2, <1>3, TestStageIs DEF Clear, TestShape, StartedStays, Silent, Works, MadeDir, NoDir
  <1>5. TestStage(cmd[c])'
    BY <1>2, <1>3, <1>4 DEF Clear, TestStage, CmdWaits, CmdKills, MadeDir, NoDir
  <1> QED
    BY <1>1, <1>2, <1>4, <1>5, CmdGoesOn

LEMMA ForkTest ==
    ASSUME TestInv, NEW c \in Cmd, Fork(c)
    PROVE  TestInv'
  <1>1. Silent /\ cmd[c].at = "made" /\ dir = MadeDir /\ started = NoProc /\ started' = NoProc
    BY TestStageIs DEF Fork, CmdAt, TestStage
  <1>2. PICK p \in Proc :
           /\ proc[p] = "none" /\ proc' = [proc EXCEPT ![p] = "starting"]
           /\ child' = [child EXCEPT ![p] = c]
           /\ cmd' = [cmd EXCEPT ![c].at = "forked", ![c].pid = p]
           /\ dir' = IF dir.there THEN [dir EXCEPT !.log = p] ELSE dir
    BY DEF Fork
  <1>3. dir' = [there |-> TRUE, pid |-> NoProc, sock |-> NoProc, log |-> p]
    BY <1>1, <1>2 DEF MadeDir, NoDir
  <1>4. /\ cmd' \in [Cmd -> CmdType] /\ \A d \in Cmd \ {c} : cmd'[d] = cmd[d]
        /\ cmd'[c].at = "forked" /\ cmd'[c].exit = cmd[c].exit /\ cmd'[c].pid = p
    BY <1>2, TestStageIs DEF TestShape, CmdType
  <1>5. \A q \in Proc : Works(q)' => q = p
    BY <1>1, <1>2, TestStageIs DEF Silent, Works, TestShape
  <1>6. TestShape' /\ StartedStays'
    BY <1>1, <1>2, <1>3, <1>4, TestStageIs DEF TestShape, StartedStays
  <1>7. TestStage(cmd[c])'
    BY <1>1, <1>3, <1>4, <1>5 DEF TestStage, CmdWaits, CmdKills, SoleProc
  <1> QED
    BY <1>1, <1>4, <1>6, <1>7, CmdGoesOn

LEMMA PidFileTest ==
    ASSUME TestInv, NEW c \in Cmd, PidFile(c)
    PROVE  TestInv'
  <1>1. PICK p : p = cmd[c].pid
    OBVIOUS
  <1>2. SoleProc(p) /\ cmd[c].at = "forked" /\ dir.pid = NoProc
    BY <1>1, TestStageIs DEF PidFile, CmdAt, TestStage
  <1>3. /\ dir' = [dir EXCEPT !.pid = p] /\ CmdGoes(c, "waiting") /\ UNCHANGED <<proc, child, started>>
    BY <1>1, <1>2 DEF PidFile, SoleProc
  <1>4. /\ cmd' \in [Cmd -> CmdType] /\ \A d \in Cmd \ {c} : cmd'[d] = cmd[d]
        /\ cmd'[c].at = "waiting" /\ cmd'[c].exit = cmd[c].exit /\ cmd'[c].pid = p
    BY <1>1, <1>3, TestStageIs, CmdIs
  <1>5. dir'.pid = p /\ SoleProc(p)'
    BY <1>2, <1>3, TestStageIs DEF SoleProc, Works, TestShape
  <1>6. TestShape' /\ StartedStays'
    BY <1>2, <1>3, <1>4, <1>5, TestStageIs DEF TestShape, StartedStays, SoleProc
  <1>7. TestStage(cmd[c])'
    BY <1>4, <1>5 DEF TestStage, CmdWaits, CmdKills
  <1> QED
    BY <1>2, <1>4, <1>6, <1>7, CmdGoesOn

LEMMA WaitTest ==
    ASSUME TestInv, NEW c \in Cmd, Answered(c) \/ Exited(c) \/ TimedOut(c)
    PROVE  TestInv'
  <1>1. PICK p : p = cmd[c].pid
    OBVIOUS
  <1>2. cmd[c].at = "waiting" /\ SoleProc(p) /\ dir.pid = p /\ UNCHANGED dir
    BY <1>1, TestStageIs DEF Answered, Exited, TimedOut, CmdAt, TestStage, CmdWaits
  <1>3. ASSUME KillBegins(c, cmd[c].pid, "failed"), UNCHANGED started,
               proc' \in [Proc -> {"none", "starting", "up", "fatal", "leaving", "zombie", "dead"}],
               child' = child, \A q \in Proc : Works(q)' => Works(q)
        PROVE  TestInv'
    <2>1. /\ cmd' \in [Cmd -> CmdType] /\ \A d \in Cmd \ {c} : cmd'[d] = cmd[d]
          /\ cmd'[c].at = "kill" /\ cmd'[c].exit = cmd[c].exit /\ cmd'[c].pid = p
          /\ cmd'[c].then = "failed"
      BY <1>1, <1>3, TestStageIs, KillIs
    <2>2. TestShape' /\ StartedStays'
      BY <1>2, <1>3, <2>1, TestStageIs DEF TestShape, StartedStays, SoleProc, NoDir
    <2>3. SoleProc(p)' /\ dir'.pid = p
      BY <1>2, <1>3 DEF SoleProc
    <2>4. TestStage(cmd[c])'
      BY <2>1, <2>3 DEF TestStage, CmdWaits, CmdKills
    <2> QED
      BY <1>2, <2>1, <2>2, <2>4, CmdGoesOn
  <1>4. CASE Exited(c)
    <2>1. /\ proc' \in [Proc -> {"none", "starting", "up", "fatal", "leaving", "zombie", "dead"}]
          /\ \A q \in Proc : Works(q)' => Works(q)
      BY <1>1, <1>2, <1>4, TestStageIs DEF Exited, Works, TestShape, SoleProc
    <2> QED
      BY <1>3, <1>4, <2>1 DEF Exited
  <1>5. CASE TimedOut(c)
    BY <1>3, <1>5, TestStageIs DEF TimedOut, Works, TestShape
  <1>6. CASE Answered(c) /\ ExitWith(c, 0) /\ started' = cmd[c].pid
    <2>1. dir.sock = p /\ p \in Proc /\ started' = p
      BY <1>1, <1>2, <1>6 DEF Answered, SoleProc
    <2>2. \A q \in Proc : Works(q)' = Works(q)
      BY <1>6, TestStageIs DEF ExitWith, Works, TestShape
    <2>3. NamedOnly'
      BY <1>2, <2>1, <2>2 DEF NamedOnly, SoleProc
    <2>4. StartedStays'
      BY <1>2, <2>1 DEF StartedStays
    <2> QED
      BY <1>2, <1>6, <2>1, <2>3, <2>4, TestStageIs, CmdEnds DEF TestShape
  <1>7. CASE Answered(c) /\ KillBegins(c, cmd[c].pid, "failed") /\ UNCHANGED <<proc, child, started>>
    BY <1>3, <1>7, TestStageIs DEF Works, TestShape
  <1> QED
    BY <1>4, <1>5, <1>6, <1>7 DEF Answered

LEMMA EndTest ==
    ASSUME TestInv, NEW c \in Cmd, Refuse(c) \/ Failed(c) \/ RemoveTree(c)
    PROVE  TestInv'
  <1>1. cmd[c].at \in {"made", "failed", "remove"} /\ Silent
    BY TestStageIs DEF Refuse, Failed, RemoveTree, CmdAt, TestStage
  <1>2. PICK code \in {0, 5, 6} : ExitWith(c, code) /\ (code = 5 => Failed(c)) /\ (Failed(c) => code = 5)
    <2>1. Failed(c) => ~Refuse(c) /\ ~RemoveTree(c)
      BY DEF Failed, Refuse, RemoveTree, CmdAt
    <2> QED
      BY <2>1 DEF Refuse, Failed, RemoveTree
  <1>3. Silent'
    BY <1>1, <1>2, TestStageIs DEF ExitWith, Silent, Works, TestShape
  <1>4. started' = NoProc
    <2>1. CASE Failed(c)
      BY <2>1, TestStageIs DEF Failed, CmdAt, TestStage, CmdWaits, SoleProc
    <2>2. CASE Refuse(c)
      BY <2>2, TestStageIs DEF Refuse, CmdAt, TestStage
    <2> QED
      BY <2>1, <2>2 DEF RemoveTree
  <1>5. NamedOnly' /\ StartedStays'
    BY <1>3, <1>4 DEF NamedOnly, Silent, StartedStays
  <1>6. /\ dir' \in [there : BOOLEAN, pid : Proc \cup {NoProc}, sock : Proc \cup {NoProc}, log : Proc \cup {NoProc}]
        /\ dir'.there \/ dir' = NoDir
    <2>1. dir' = NoDir \/ dir' = dir
      BY DEF Refuse, Failed, RemoveTree
    <2>2. NoDir \in [there : BOOLEAN, pid : Proc \cup {NoProc}, sock : Proc \cup {NoProc}, log : Proc \cup {NoProc}]
      BY DEF NoDir
    <2>3. CASE dir' = NoDir
      BY <2>2, <2>3
    <2>4. CASE dir' = dir
      BY <2>4, TestStageIs DEF TestShape
    <2> QED
      BY <2>1, <2>3, <2>4
  <1>7. code = 5 => dir'.log = cmd[c].pid
    BY <1>2, TestStageIs DEF Failed, CmdAt, TestStage, CmdWaits, SoleProc
  <1> QED
    BY <1>1, <1>2, <1>4, <1>5, <1>6, <1>7, CmdEnds

\* A compositor comes up, leaves or dies by itself: no other begins to work.
LEMMA ProcTest ==
    ASSUME TestInv, NEW p \in Proc, InstanceUp(p) \/ Unbind(p) \/ Crash(p)
    PROVE  TestInv'
  <1>1. UNCHANGED <<cmd, started>>
    BY DEF InstanceUp, Unbind, Crash
  <1>2. Works(p) /\ \A q \in Proc : Works(q)' => Works(q)
    BY TestStageIs, ProcAssumption DEF InstanceUp, Unbind, Crash, Ends, Works, TestShape, TestInv
  <1>3. /\ dir' \in [there : BOOLEAN, pid : Proc \cup {NoProc}, sock : Proc \cup {NoProc}, log : Proc \cup {NoProc}]
        /\ dir'.there = dir.there /\ dir'.pid = dir.pid /\ dir'.log = dir.log
        /\ dir'.sock \in {dir.sock, p, NoProc} /\ (dir'.sock # dir.sock => dir.sock = p \/ dir.there)
    BY DEF InstanceUp, Unbind, Crash, TestInv, TestShape
  <1>4. dir.there \/ dir' = NoDir
    <2> SUFFICES ASSUME ~dir.there PROVE dir' = NoDir
      OBVIOUS
    <2>1. dir = NoDir
      BY DEF TestInv, TestShape
    <2>2. dir.sock # p
      BY <2>1, ProcAssumption DEF NoDir
    <2> QED
      BY <2>1, <2>2 DEF InstanceUp, Unbind, Crash
  <1>5. TestShape'
    BY <1>1, <1>3, <1>4 DEF InstanceUp, Unbind, Crash, Ends, TestInv, TestShape
  <1>6. NamedOnly => NamedOnly'
    BY <1>2, <1>3 DEF NamedOnly
  <1>7. \A q : SoleProc(q) => SoleProc(q)'
    BY <1>1, <1>2, <1>3 DEF SoleProc
  <1>8. ~Silent
    BY <1>2 DEF Silent
  <1>9. ASSUME NEW c \in Cmd PROVE TestStage(cmd[c])'
    <2>1. PICK r : r = cmd[c]
      OBVIOUS
    <2>2. TestStage(r)
      BY <2>1 DEF TestInv
    <2>3. TestStage(r)'
      BY <1>3, <1>6, <1>7, <1>8, <2>2 DEF TestStage
    <2> QED
      BY <1>1, <2>1, <2>3
  <1>10. Quiet => NamedOnly'
    BY <1>6 DEF TestInv
  <1>11. \A c \in Cmd : cmd'[c].exit = 5 => Quiet' /\ dir'.log = cmd'[c].pid /\ ~Works(cmd[c].pid)'
    <2> SUFFICES ASSUME NEW c \in Cmd, cmd[c].exit = 5
                 PROVE  Quiet' /\ dir'.log = cmd[c].pid /\ ~Works(cmd[c].pid)'
      BY <1>1
    <2>1. Quiet /\ dir.log = cmd[c].pid /\ ~Works(cmd[c].pid)
      BY DEF TestInv
    <2>2. PICK k : k = cmd[c].pid
      OBVIOUS
    <2>3. k \in Proc \cup {NoProc}
      BY <2>2, TestStageIs
    <2>4. ~Works(k)'
      BY <1>2, <2>1, <2>2, <2>3, ProcAssumption DEF Works
    <2> QED
      BY <1>1, <1>3, <2>1, <2>2, <2>4 DEF Quiet, CmdAt
  <1>12. StartedStays'
    <2> SUFFICES ASSUME started # NoProc
                 PROVE  dir'.pid = started /\ (proc'[started] = "up" => dir'.sock = started)
      BY <1>1 DEF StartedStays
    <2>1. dir.pid = started /\ (proc[started] = "up" => dir.sock = started) /\ started \in Proc
      BY DEF TestInv, StartedStays, TestShape
    <2>2. dir.there
      <3>1. dir = NoDir => dir.pid = NoProc
        BY DEF NoDir
      <3> QED
        BY <2>1, <3>1 DEF TestInv, TestShape
    <2>3. NamedOnly
      <3>1. CASE Quiet
        BY <3>1 DEF TestInv
      <3>2. ASSUME NEW c \in Cmd, cmd[c].at # "idle" PROVE NamedOnly
        <4>1. TestStage(cmd[c]) /\ cmd[c] \in CmdType
          BY DEF TestInv, TestShape
        <4> QED
          BY <1>8, <3>2, <4>1 DEF TestStage, CmdWaits, CmdKills, SoleProc, CmdType
      <3> QED
        BY <3>1, <3>2 DEF Quiet, CmdAt
    <2>4. p = started /\ dir.sock \in {p, NoProc}
      BY <1>2, <2>1, <2>3 DEF NamedOnly
    <2>5. ASSUME InstanceUp(p) PROVE dir'.sock = p
      <3>1. ~Works(dir.sock) => dir'.sock = p
        BY <2>2, <2>5 DEF InstanceUp, TestInv, TestShape
      <3>2. Works(dir.sock) => dir.sock = p
        BY <2>4 DEF Works
      <3>3. dir'.sock \in {dir.sock, p}
        BY <2>2, <2>5 DEF InstanceUp, TestInv, TestShape
      <3> QED
        BY <3>1, <3>2, <3>3
    <2>6. Unbind(p) \/ Crash(p) => proc'[p] # "up"
      BY ProcAssumption DEF Unbind, Crash, Ends, TestInv, TestShape
    <2> QED
      BY <1>3, <2>1, <2>4, <2>5, <2>6
  <1> QED
    BY <1>1, <1>5, <1>9, <1>10, <1>11, <1>12 DEF TestInv, Quiet, CmdAt

LEMMA InitTest == TestInit => TestInv
  <1> SUFFICES ASSUME TestInit PROVE TestInv
    OBVIOUS
  <1>1. Asleep \in CmdType /\ Asleep.at = "idle" /\ Asleep.exit = 0
    BY DEF Asleep, CmdType
  <1>2. TestShape
    BY <1>1 DEF TestInit, TestShape, NoDir
  <1>3. \A c \in Cmd : cmd[c].at = "idle" /\ cmd[c].exit = 0
    BY <1>1 DEF TestInit
  <1>4. \A p \in Proc : ~Works(p)
    BY DEF TestInit, Works
  <1> QED
    BY <1>2, <1>3, <1>4 DEF TestInit, TestInv, StartedStays, TestStage, CmdWaits, CmdKills, NamedOnly

(* If the commands for one name come one after the other, then whatever fails *)
(* or dies between two steps of them: no compositor runs but the one of the   *)
(* pid file, one that was started stays until it is stopped or replaced, and  *)
(* the log of one that failed is kept (test_orchestrator.c).                  *)
THEOREM NoTestIsLost ==
    ~Beside => (TestSpec => [](NoneIsLeftBehind /\ StartedStays /\ FailureKeepsLog))
  <1> SUFFICES ASSUME ~Beside
               PROVE  TestSpec => [](NoneIsLeftBehind /\ StartedStays /\ FailureKeepsLog)
    OBVIOUS
  <1>1. TestInv /\ [TestNext]_testVars => TestInv'
    <2> SUFFICES ASSUME TestInv, [TestNext]_testVars PROVE TestInv'
      OBVIOUS
    <2>1. CASE UNCHANGED testVars
      BY <2>1 DEF testVars, TestInv, TestShape, StartedStays, TestStage, CmdWaits, CmdKills, NamedOnly, Silent, SoleProc,
                  Works, Quiet, CmdAt
    <2> QED
      BY <2>1, BeginTest, KillTest, StatTest, ClearTest, ForkTest, PidFileTest, WaitTest, EndTest, ProcTest
      DEF TestNext
  <1>2. TestInv => NoneIsLeftBehind /\ StartedStays /\ FailureKeepsLog
    BY DEF TestInv, NamedOnly, NoneIsLeftBehind, FailureKeepsLog
  <1> QED
    BY <1>1, <1>2, InitTest, PTL DEF TestSpec

-----------------------------------------------------------------------------
(* Lists without repetition.                                                  *)

LEMMA LeastOf ==
    ASSUME NEW T, T \subseteq Nat, T # {}
    PROVE  \E n \in T : \A m \in T : n <= m
  <1>1. PICK R : R = OpToRel(<, Nat)
    BY ZenonT(30)
  <1>2. IsWellFoundedOn(R, Nat)
    BY ZenonT(30), <1>1, NatLessThanWellFounded
  <1>3. \A m, n \in Nat : <<m, n>> \in R <=> m < n
    BY <1>1 DEF OpToRel
  <1>4. PICK n \in T : \A m \in T : ~(<<m, n>> \in R)
    BY <1>2, WFMin
  <1>5. ASSUME NEW m \in T PROVE n <= m
    <2>1. m \in Nat /\ n \in Nat /\ ~(m < n)
      BY <1>3, <1>4
    <2> QED
      BY <2>1
  <1> QED
    BY <1>5

LEMMA FirstRemoved ==
    ASSUME NEW S, NEW s \in Seq(S), NEW e, \E i \in 1..Len(s) : s[i] = e
    PROVE  \E i \in 1..Len(s) : s[i] = e /\ RemoveFirst(s, e) = RemoveAt(s, i)
  <1>1. PICK T : T = {i \in 1..Len(s) : s[i] = e}
    OBVIOUS
  <1>2. T # {} /\ T \subseteq Nat
    BY <1>1
  <1>3. Min(T) \in T
    BY <1>2, LeastOf DEF Min
  <1>4. SelectInSeq(s, LAMBDA v : v = e) = Min(T)
    BY <1>1, <1>2 DEF SelectInSeq
  <1> QED
    BY <1>1, <1>2, <1>3, <1>4 DEF RemoveFirst

LEMMA ToSetIs ==
    ASSUME NEW S, NEW s \in Seq(S)
    PROVE  /\ ToSet(s) = {s[i] : i \in 1..Len(s)} /\ ToSet(s) \subseteq S
           /\ IsInjective(s) <=> \A i, j \in 1..Len(s) : s[i] = s[j] => i = j
  <1>1. DOMAIN s = 1..Len(s) /\ \A i \in 1..Len(s) : s[i] \in S
    BY LenProperties, ElementOfSeq
  <1> QED
    BY <1>1 DEF ToSet, IsInjective

LEMMA WithoutOne ==
    ASSUME NEW S, NEW s \in Seq(S), IsInjective(s), NEW e, NEW r, r = RemoveFirst(s, e)
    PROVE  r \in Seq(S) /\ IsInjective(r) /\ ToSet(r) = ToSet(s) \ {e}
  <1>1. CASE ~\E i \in 1..Len(s) : s[i] = e
    <2>1. r = s /\ e \notin ToSet(s)
      BY <1>1, ToSetIs DEF RemoveFirst
    <2> QED
      BY <2>1
  <1>2. CASE \E i \in 1..Len(s) : s[i] = e
    <2>1. PICK k \in 1..Len(s) : s[k] = e /\ r = RemoveAt(s, k)
      BY <1>2, FirstRemoved
    <2>2. /\ r \in Seq(S) /\ Len(r) = Len(s) - 1 /\ Len(s) \in Nat
          /\ \A j \in 1..(Len(s) - 1) : r[j] = IF j < k THEN s[j] ELSE s[j + 1]
      <3>1. /\ RemoveAt(s, k) \in Seq(S) /\ Len(RemoveAt(s, k)) = Len(s) - 1
            /\ \A j \in 1..(Len(s) - 1) : RemoveAt(s, k)[j] = IF j < k THEN s[j] ELSE s[j + 1]
        BY RemovedAt
      <3>2. Len(s) \in Nat
        BY LenProperties
      <3> QED
        BY <2>1, <3>1, <3>2
    <2>3. \A i, j \in 1..Len(s) : s[i] = s[j] => i = j
      BY ToSetIs
    <2>4. \A i, j \in 1..Len(r) : r[i] = r[j] => i = j
      <3>1. ASSUME NEW i \in 1..Len(r), NEW j \in 1..Len(r), r[i] = r[j] PROVE i = j
        <4>1. PICK g \in 1..Len(s) : r[i] = s[g] /\ g = IF i < k THEN i ELSE i + 1
          BY <2>2
        <4>2. PICK h \in 1..Len(s) : r[j] = s[h] /\ h = IF j < k THEN j ELSE j + 1
          BY <2>2
        <4>3. g = h
          BY <2>3, <3>1, <4>1, <4>2
        <4> QED
          BY <4>1, <4>2, <4>3
      <3> QED
        BY <3>1
    <2>5. ASSUME NEW x \in ToSet(r) PROVE x \in ToSet(s) \ {e}
      <3>1. PICK j \in 1..Len(r) : r[j] = x
        BY <2>2, <2>5, ToSetIs
      <3>2. PICK i \in 1..Len(s) : s[i] = x /\ i # k
        BY <2>2, <3>1
      <3> QED
        BY <2>1, <2>3, <3>2, ToSetIs
    <2>6. ASSUME NEW x \in ToSet(s) \ {e} PROVE x \in ToSet(r)
      <3>1. PICK i \in 1..Len(s) : s[i] = x
        BY <2>6, ToSetIs
      <3>2. i # k
        BY <2>1, <2>6, <3>1
      <3>3. PICK j \in 1..Len(r) : j = IF i < k THEN i ELSE i - 1
        BY <2>2, <3>2
      <3>4. r[j] = x
        BY <2>2, <3>1, <3>2, <3>3
      <3> QED
        BY <2>2, <3>4, ToSetIs
    <2> QED
      BY <2>2, <2>4, <2>5, <2>6, ToSetIs
  <1> QED
    BY <1>1, <1>2

\* A list of the members of T, each once.
Lists(r, S, T) == r \in Seq(S) /\ IsInjective(r) /\ ToSet(r) = T

LEMMA WithOne ==
    ASSUME NEW S, NEW s \in Seq(S), IsInjective(s), NEW e \in S, e \notin ToSet(s)
    PROVE  Lists(Append(s, e), S, ToSet(s) \cup {e})
  <1>0. PICK r : r = Append(s, e)
    OBVIOUS
  <1>1. /\ r \in Seq(S) /\ Len(r) = Len(s) + 1 /\ Len(s) \in Nat
        /\ r[Len(s) + 1] = e /\ \A i \in 1..Len(s) : r[i] = s[i]
    BY <1>0, AppendProperties, LenProperties
  <1>2. \A i, j \in 1..Len(s) : s[i] = s[j] => i = j
    BY ToSetIs
  <1>3. \A i \in 1..Len(s) : s[i] # e
    BY ToSetIs
  <1>4. \A i \in 1..Len(r) : i \in 1..Len(s) \/ i = Len(s) + 1
    BY <1>1
  <1>5. \A i, j \in 1..Len(r) : r[i] = r[j] => i = j
    BY <1>1, <1>2, <1>3, <1>4
  <1>6. ToSet(r) = ToSet(s) \cup {e}
    <2>1. 1..Len(r) = 1..Len(s) \cup {Len(s) + 1}
      BY <1>1
    <2>2. ToSet(r) = {r[i] : i \in 1..Len(r)} /\ ToSet(s) = {s[i] : i \in 1..Len(s)}
      <3>1. r \in Seq(S)
        BY <1>1
      <3>2. ToSet(r) = {r[i] : i \in 1..Len(r)}
        BY <3>1, ToSetIs
      <3>3. ToSet(s) = {s[i] : i \in 1..Len(s)}
        BY ToSetIs
      <3> QED
        BY <3>2, <3>3
    <2> QED
      BY <1>1, <2>1, <2>2
  <1>7. IsInjective(r)
    BY <1>1, <1>5, ToSetIs
  <1> QED
    BY <1>0, <1>1, <1>6, <1>7 DEF Lists

-----------------------------------------------------------------------------
(* Drawins.  Each output has one screen at most (OneEach), so that a drawin's *)
(* next screen is not the one that goes.                                      *)

DrawinType ==
    [alive : BOOLEAN, refs : {0, 1}, visible : BOOLEAN, scr : (Output \X Nat) \cup {Unhosted},
     at : Output, bar : BOOLEAN, att : {Nothing, Root, Gone} \cup Drawin, look : 0..1,
     desktop : BOOLEAN, ontop : BOOLEAN]
OneEach == \A s, t \in live : s[1] = t[1] => s = t

DrawinInv ==
    /\ dw \in [Drawin -> DrawinType]
    /\ shown \in Seq(Drawin) /\ IsInjective(shown)
    /\ plugs \in [Output -> Nat] /\ live \subseteq Output \X Nat /\ OneEach
    /\ ListedAreHosted

LEMMA ScreenOn ==
    ASSUME DrawinInv, NEW o \in Plugged
    PROVE  On(o) \in live /\ On(o)[1] = o
  <1>1. \E s \in live : s[1] = o
    BY DEF Plugged
  <1> QED
    BY <1>1 DEF On

LEMMA Assigned ==
    ASSUME DrawinInv, NEW p
    PROVE  /\ assign_screen(p) \in (Output \X Nat) \cup {Unhosted}
           /\ live # {} => assign_screen(p) \in live
  <1>1. CASE p \in Plugged
    BY <1>1, ScreenOn DEF assign_screen, DrawinInv
  <1>2. CASE p \notin Plugged /\ live = {}
    BY <1>2 DEF assign_screen
  <1>3. CASE p \notin Plugged /\ live # {}
    <2>1. \E o \in Plugged : TRUE
      BY <1>3 DEF Plugged
    <2>2. (CHOOSE o \in Plugged : TRUE) \in Plugged
      BY <2>1
    <2>3. PICK q \in Plugged : q = CHOOSE o \in Plugged : TRUE
      BY <2>2
    <2>4. assign_screen(p) = On(q)
      BY <1>3, <2>3 DEF assign_screen
    <2> QED
      BY <2>4, ScreenOn DEF DrawinInv
  <1> QED
    BY <1>1, <1>2, <1>3

\* What leaves the list alone, and whom it shows on screens that are there.
LEMMA StillHosted ==
    ASSUME DrawinInv, dw' \in [Drawin -> DrawinType], shown' = shown,
           plugs' \in [Output -> Nat], live' \subseteq Output \X Nat, OneEach',
           \A d \in Drawin : /\ dw'[d].visible = dw[d].visible /\ dw'[d].refs = dw[d].refs
                             /\ dw[d].visible => dw'[d].alive /\ dw'[d].scr \in live'
    PROVE  DrawinInv'
  BY DEF DrawinInv, ListedAreHosted

LEMMA OtherField ==
    ASSUME DrawinInv, NEW d \in Drawin, NEW rec \in DrawinType, NEW lists, Sets(d, rec, lists),
           rec.alive = dw[d].alive, rec.refs = dw[d].refs, rec.visible = dw[d].visible,
           rec.scr = dw[d].scr \/ (live # {} => rec.scr \in live)
    PROVE  DrawinInv'
  <1>1. /\ dw' = [dw EXCEPT ![d] = rec] /\ shown' = shown /\ plugs' = plugs /\ live' = live
    BY DEF Sets
  <1>2. dw' \in [Drawin -> DrawinType] /\ \A e \in Drawin : dw'[e] = IF e = d THEN rec ELSE dw[e]
    BY <1>1 DEF DrawinInv
  <1>3. plugs' \in [Output -> Nat] /\ live' \subseteq Output \X Nat /\ OneEach'
    BY <1>1 DEF DrawinInv, OneEach
  <1>4. ASSUME NEW e \in Drawin
        PROVE  /\ dw'[e].visible = dw[e].visible /\ dw'[e].refs = dw[e].refs
               /\ dw[e].visible => dw'[e].alive /\ dw'[e].scr \in live'
    <2>1. dw[e].visible => dw[e].alive /\ dw[e].scr \in live
      BY DEF DrawinInv, ListedAreHosted
    <2> QED
      BY <1>1, <1>2, <2>1
  <1> QED
    BY <1>1, <1>2, <1>3, <1>4, StillHosted

LEMMA LookSet ==
    ASSUME DrawinInv, NEW d \in Drawin,
           \/ set_opacity(d) \/ set_shadow(d) \/ set_animation(d) \/ set_shape(d)
           \/ set_border_width(d) \/ set_border_color(d)
           \/ set_bar(d) \/ set_ontop(d) \/ set_type(d)
           \/ \E t \in {Nothing, Root} \cup Drawin : set_attachment(d, t)
    PROVE  DrawinInv'
  <1>1. dw[d] \in DrawinType
    BY DEF DrawinInv
  <1>2. CASE \/ set_opacity(d) \/ set_shadow(d) \/ set_animation(d) \/ set_shape(d)
             \/ set_border_width(d) \/ set_border_color(d)
    <2>1. PICK rec : rec = Restyled(d)
      OBVIOUS
    <2>2. /\ rec \in DrawinType /\ rec.alive = dw[d].alive /\ rec.refs = dw[d].refs
          /\ rec.visible = dw[d].visible /\ rec.scr = dw[d].scr
      BY <1>1, <2>1 DEF Restyled, DrawinType
    <2>3. \E lists : Sets(d, rec, lists)
      BY <1>2, <2>1 DEF set_opacity, set_shadow, set_animation, set_shape, set_border_width, set_border_color
    <2> QED
      BY <2>2, <2>3, OtherField
  <1>3. CASE set_bar(d)
    <2>1. PICK rec : rec = [dw[d] EXCEPT !.bar = ~@]
      OBVIOUS
    <2>2. /\ rec \in DrawinType /\ rec.alive = dw[d].alive /\ rec.refs = dw[d].refs
          /\ rec.visible = dw[d].visible /\ rec.scr = dw[d].scr
      BY <1>1, <2>1 DEF DrawinType
    <2>3. \E lists : Sets(d, rec, lists)
      BY <1>3, <2>1 DEF set_bar
    <2> QED
      BY <2>2, <2>3, OtherField
  <1>4. CASE set_type(d)
    <2>1. PICK rec : rec = [dw[d] EXCEPT !.desktop = ~@]
      OBVIOUS
    <2>2. /\ rec \in DrawinType /\ rec.alive = dw[d].alive /\ rec.refs = dw[d].refs
          /\ rec.visible = dw[d].visible /\ rec.scr = dw[d].scr
      BY <1>1, <2>1 DEF DrawinType
    <2>3. \E lists : Sets(d, rec, lists)
      BY <1>4, <2>1 DEF set_type
    <2> QED
      BY <2>2, <2>3, OtherField
  <1>5. CASE set_ontop(d)
    <2>1. PICK rec : rec = [dw[d] EXCEPT !.ontop = ~@]
      OBVIOUS
    <2>2. /\ rec \in DrawinType /\ rec.alive = dw[d].alive /\ rec.refs = dw[d].refs
          /\ rec.visible = dw[d].visible /\ rec.scr = dw[d].scr
      BY <1>1, <2>1 DEF DrawinType
    <2>3. /\ dw' = [dw EXCEPT ![d] = rec] /\ shown' = shown /\ plugs' = plugs /\ live' = live
      BY <1>5, <2>1 DEF set_ontop
    <2>4. dw' \in [Drawin -> DrawinType] /\ \A e \in Drawin : dw'[e] = IF e = d THEN rec ELSE dw[e]
      BY <2>2, <2>3 DEF DrawinInv
    <2>5. \A e \in Drawin : /\ dw'[e].visible = dw[e].visible /\ dw'[e].refs = dw[e].refs
                            /\ dw[e].visible => dw'[e].alive /\ dw'[e].scr \in live'
      BY <2>2, <2>3, <2>4 DEF DrawinInv, ListedAreHosted
    <2>6. plugs' \in [Output -> Nat] /\ live' \subseteq Output \X Nat /\ OneEach'
      BY <2>3 DEF DrawinInv, OneEach
    <2> QED
      BY <2>3, <2>4, <2>5, <2>6, StillHosted
  <1>6. ASSUME NEW t \in {Nothing, Root} \cup Drawin, set_attachment(d, t) PROVE DrawinInv'
    <2>1. PICK rec : rec = [dw[d] EXCEPT !.att = t]
      OBVIOUS
    <2>2. /\ rec \in DrawinType /\ rec.alive = dw[d].alive /\ rec.refs = dw[d].refs
          /\ rec.visible = dw[d].visible /\ rec.scr = dw[d].scr
      BY <1>1, <2>1 DEF DrawinType
    <2>3. \E lists : Sets(d, rec, lists)
      BY <1>6, <2>1 DEF set_attachment
    <2> QED
      BY <2>2, <2>3, OtherField
  <1> QED
    BY <1>2, <1>3, <1>4, <1>5, <1>6

LEMMA PlaceSet ==
    ASSUME DrawinInv, NEW d \in Drawin, NEW p \in Output, moveresize(d, p)
    PROVE  DrawinInv'
  <1>1. dw[d] \in DrawinType
    BY DEF DrawinInv
  <1>2. PICK s : s = assign_screen(p)
    OBVIOUS
  <1>3. s \in (Output \X Nat) \cup {Unhosted} /\ (live # {} => s \in live)
    BY <1>2, Assigned
  <1>4. PICK rec : rec = [dw[d] EXCEPT !.at = p, !.scr = s]
    OBVIOUS
  <1>5. /\ rec \in DrawinType /\ rec.alive = dw[d].alive /\ rec.refs = dw[d].refs
        /\ rec.visible = dw[d].visible /\ rec.scr = s
    BY <1>1, <1>3, <1>4 DEF DrawinType
  <1>6. \E lists : Sets(d, rec, lists)
    BY <1>2, <1>4 DEF moveresize
  <1> QED
    BY <1>3, <1>5, <1>6, OtherField

LEMMA AbsentIs == Absent \in DrawinType /\ Absent.refs = 0 /\ Absent.visible = FALSE
  <1>1. PICK f : f = Fresh
    OBVIOUS
  <1>2. f \in DrawinType /\ f.refs = 0 /\ f.visible = FALSE
    BY <1>1, OutputAssumption DEF Fresh, DrawinType
  <1>3. Absent = [f EXCEPT !.alive = FALSE]
    BY <1>1 DEF Absent
  <1> QED
    BY <1>2, <1>3 DEF DrawinType

LEMMA CreateKeeps ==
    ASSUME DrawinInv, NEW d \in Drawin, Create(d)
    PROVE  DrawinInv'
  <1>1. PICK s : s = assign_screen(1)
    OBVIOUS
  <1>2. s \in (Output \X Nat) \cup {Unhosted}
    BY <1>1, Assigned
  <1>3. PICK rec : rec = [Fresh EXCEPT !.scr = s]
    OBVIOUS
  <1>4. rec \in DrawinType /\ rec.refs = 0 /\ rec.visible = FALSE
    <2>1. rec = [alive |-> TRUE, refs |-> 0, visible |-> FALSE, scr |-> s, at |-> 1,
                 bar |-> FALSE, att |-> Nothing, look |-> 0, desktop |-> FALSE, ontop |-> FALSE]
      BY <1>3 DEF Fresh
    <2> QED
      BY <1>2, <2>1, OutputAssumption DEF DrawinType
  <1>5. /\ ~dw[d].alive /\ dw' = [dw EXCEPT ![d] = rec]
        /\ shown' = shown /\ plugs' = plugs /\ live' = live
    BY <1>1, <1>3 DEF Create
  <1>6. dw' \in [Drawin -> DrawinType] /\ \A e \in Drawin : dw'[e] = IF e = d THEN rec ELSE dw[e]
    BY <1>4, <1>5 DEF DrawinInv
  <1>7. ~dw[d].visible /\ dw[d].refs = 0
    BY <1>5 DEF DrawinInv, ListedAreHosted, DrawinType
  <1>8. \A e \in Drawin : /\ dw'[e].visible = dw[e].visible /\ dw'[e].refs = dw[e].refs
                          /\ dw[e].visible => dw'[e].alive /\ dw'[e].scr \in live'
    BY <1>4, <1>5, <1>6, <1>7 DEF DrawinInv, ListedAreHosted
  <1>9. plugs' \in [Output -> Nat] /\ live' \subseteq Output \X Nat /\ OneEach'
    BY <1>5 DEF DrawinInv, OneEach
  <1> QED
    BY <1>5, <1>6, <1>8, <1>9, StillHosted

\* Shown, a drawin is listed and referenced; it was neither.
LEMMA ShowKeeps ==
    ASSUME DrawinInv, "revive" \notin Wild, NEW d \in Drawin, Show(d)
    PROVE  DrawinInv'
  <1>1. PICK rec : rec = [dw[d] EXCEPT !.visible = TRUE, !.refs = @ + 1]
    OBVIOUS
  <1>2. /\ dw[d].alive /\ ~dw[d].visible /\ dw[d].scr \in live
        /\ dw' = [dw EXCEPT ![d] = rec]
        /\ shown' = Append(shown, d) /\ plugs' = plugs /\ live' = live
    BY <1>1 DEF Show
  <1>3. dw[d] \in DrawinType /\ dw[d].refs = 0 /\ d \notin ToSet(shown)
    BY <1>2 DEF DrawinInv, ListedAreHosted, DrawinType
  <1>4. /\ rec \in DrawinType /\ rec.refs = 1 /\ rec.visible = TRUE
        /\ rec.alive = dw[d].alive /\ rec.scr = dw[d].scr
    <2>1. rec = [dw[d] EXCEPT !.visible = TRUE, !.refs = 1]
      BY <1>1, <1>3
    <2> QED
      BY <1>3, <2>1 DEF DrawinType
  <1>5. dw' \in [Drawin -> DrawinType] /\ \A e \in Drawin : dw'[e] = IF e = d THEN rec ELSE dw[e]
    BY <1>2, <1>4 DEF DrawinInv
  <1>6. shown' \in Seq(Drawin) /\ IsInjective(shown') /\ ToSet(shown') = ToSet(shown) \cup {d}
    <2>1. shown \in Seq(Drawin) /\ IsInjective(shown)
      BY DEF DrawinInv
    <2>2. PICK r : r = Append(shown, d)
      OBVIOUS
    <2>3. d \notin ToSet(shown)
      BY <1>3
    <2>4. Lists(r, Drawin, ToSet(shown) \cup {d})
      BY <2>1, <2>2, <2>3, WithOne
    <2> QED
      BY <1>2, <2>2, <2>4 DEF Lists
  <1>7. plugs' \in [Output -> Nat] /\ live' \subseteq Output \X Nat /\ OneEach'
    BY <1>2 DEF DrawinInv, OneEach
  <1>8. ListedAreHosted'
    <2> SUFFICES ASSUME NEW e \in Drawin
                 PROVE  /\ (e \in ToSet(shown')) = dw'[e].visible
                        /\ dw'[e].visible = (dw'[e].refs = 1)
                        /\ dw'[e].visible => dw'[e].alive /\ dw'[e].scr \in live'
      BY DEF ListedAreHosted
    <2>1. CASE e = d
      BY <1>2, <1>4, <1>5, <1>6, <2>1
    <2>2. CASE e # d
      BY <1>2, <1>5, <1>6, <2>2 DEF DrawinInv, ListedAreHosted
    <2> QED
      BY <2>1, <2>2
  <1> QED
    BY <1>5, <1>6, <1>7, <1>8 DEF DrawinInv

LEMMA HideKeeps ==
    ASSUME DrawinInv, NEW d \in Drawin, Hide(d)
    PROVE  DrawinInv'
  <1>1. PICK rec : rec = [dw[d] EXCEPT !.visible = FALSE, !.refs = @ - 1]
    OBVIOUS
  <1>2. /\ dw[d].visible /\ dw' = [dw EXCEPT ![d] = rec]
        /\ shown' = RemoveFirst(shown, d) /\ plugs' = plugs /\ live' = live
    BY <1>1 DEF Hide
  <1>3. dw[d] \in DrawinType /\ dw[d].refs = 1
    BY <1>2 DEF DrawinInv, ListedAreHosted
  <1>4. rec \in DrawinType /\ rec.refs = 0 /\ rec.visible = FALSE
    <2>1. rec = [dw[d] EXCEPT !.visible = FALSE, !.refs = 0]
      BY <1>1, <1>3
    <2> QED
      BY <1>3, <2>1 DEF DrawinType
  <1>5. dw' \in [Drawin -> DrawinType] /\ \A e \in Drawin : dw'[e] = IF e = d THEN rec ELSE dw[e]
    BY <1>2, <1>4 DEF DrawinInv
  <1>6. shown' \in Seq(Drawin) /\ IsInjective(shown') /\ ToSet(shown') = ToSet(shown) \ {d}
    <2>1. PICK r : r = RemoveFirst(shown, d)
      OBVIOUS
    <2>2. r \in Seq(Drawin) /\ IsInjective(r) /\ ToSet(r) = ToSet(shown) \ {d}
      BY <2>1, WithoutOne DEF DrawinInv
    <2> QED
      BY <1>2, <2>1, <2>2
  <1>7. plugs' \in [Output -> Nat] /\ live' \subseteq Output \X Nat /\ OneEach'
    BY <1>2 DEF DrawinInv, OneEach
  <1>8. ListedAreHosted'
    <2> SUFFICES ASSUME NEW e \in Drawin
                 PROVE  /\ (e \in ToSet(shown')) = dw'[e].visible
                        /\ dw'[e].visible = (dw'[e].refs = 1)
                        /\ dw'[e].visible => dw'[e].alive /\ dw'[e].scr \in live'
      BY DEF ListedAreHosted
    <2>1. CASE e = d
      <3>1. dw'[e] = rec /\ e \notin ToSet(shown')
        BY <1>5, <1>6, <2>1
      <3>2. rec.refs # 1 /\ rec.visible = FALSE
        BY <1>4
      <3>3. (rec.refs = 1) = FALSE /\ (e \in ToSet(shown')) = FALSE
        BY <3>1, <3>2
      <3> QED
        BY <3>1, <3>2, <3>3
    <2>2. CASE e # d
      BY <1>2, <1>5, <1>6, <2>2 DEF DrawinInv, ListedAreHosted
    <2> QED
      BY <2>1, <2>2
  <1> QED
    BY <1>5, <1>6, <1>7, <1>8 DEF DrawinInv

\* The collector takes none that is listed.
LEMMA GcKeeps ==
    ASSUME DrawinInv, NEW d \in Drawin, gc(d)
    PROVE  DrawinInv'
  <1>1. /\ dw[d].refs = 0 /\ shown' = shown /\ plugs' = plugs /\ live' = live
        /\ dw' = [e \in Drawin |-> IF e = d THEN Absent
                                   ELSE IF dw[e].att = d THEN [dw[e] EXCEPT !.att = Gone] ELSE dw[e]]
    BY DEF gc
  <1>2. ~dw[d].visible
    <2>1. dw[d].visible = (dw[d].refs = 1)
      BY DEF DrawinInv, ListedAreHosted
    <2>2. dw[d].refs # 1
      BY <1>1
    <2> QED
      BY <2>1, <2>2
  <1>3. Absent \in DrawinType /\ Absent.refs = 0 /\ Absent.visible = FALSE
    BY AbsentIs
  <1>4. ASSUME NEW e \in Drawin
        PROVE  /\ dw'[e] \in DrawinType
               /\ dw'[e].visible = dw[e].visible /\ dw'[e].refs = dw[e].refs
               /\ dw[e].visible => dw'[e].alive /\ dw'[e].scr \in live'
    <2>0. dw[e] \in DrawinType /\ (dw[e].visible => dw[e].alive /\ dw[e].scr \in live)
      BY DEF DrawinInv, ListedAreHosted
    <2>00. dw[d] \in DrawinType
      BY DEF DrawinInv
    <2>1. CASE e = d
      <3>1. dw'[e] = Absent
        BY <1>1, <2>1
      <3>2. dw[e].visible = FALSE /\ dw[e].refs = 0
        BY <1>1, <1>2, <2>00, <2>1 DEF DrawinType
      <3> QED
        BY <1>3, <3>1, <3>2
    <2>2. CASE e # d /\ dw[e].att = d
      <3>1. PICK rec : rec = [dw[e] EXCEPT !.att = Gone]
        OBVIOUS
      <3>2. /\ rec \in DrawinType /\ rec.alive = dw[e].alive /\ rec.refs = dw[e].refs
            /\ rec.visible = dw[e].visible /\ rec.scr = dw[e].scr
        BY <2>0, <3>1 DEF DrawinType
      <3>3. dw'[e] = rec
        BY <1>1, <2>2, <3>1
      <3> QED
        BY <1>1, <2>0, <3>2, <3>3
    <2>3. CASE e # d /\ dw[e].att # d
      BY <1>1, <2>0, <2>3
    <2> QED
      BY <2>1, <2>2, <2>3
  <1>5. dw' \in [Drawin -> DrawinType]
    BY <1>1, <1>4
  <1>6. plugs' \in [Output -> Nat] /\ live' \subseteq Output \X Nat /\ OneEach'
    BY <1>1 DEF DrawinInv, OneEach
  <1> QED
    BY <1>1, <1>4, <1>5, <1>6, StillHosted

\* A frame may move a shown drawin to another output, and so to its screen.
LEMMA FrameKeeps ==
    ASSUME DrawinInv, NEW o \in Output, Frame(o)
    PROVE  DrawinInv'
  <1>1. PICK p \in Output : dw' = [d \in Drawin |-> Settled(o, d, p)]
    <2>1. Plugged \subseteq Output
      BY DEF Plugged, DrawinInv
    <2> QED
      BY <2>1 DEF Frame
  <1>2. shown' = shown /\ plugs' = plugs /\ live' = live
    BY DEF Frame
  <1>3. PICK s : s = assign_screen(p)
    OBVIOUS
  <1>4. s \in (Output \X Nat) \cup {Unhosted} /\ (live # {} => s \in live)
    BY <1>3, Assigned
  <1>5. ASSUME NEW d \in Drawin
        PROVE  /\ dw'[d] \in DrawinType
               /\ dw'[d].visible = dw[d].visible /\ dw'[d].refs = dw[d].refs
               /\ dw[d].visible => dw'[d].alive /\ dw'[d].scr \in live'
    <2>1. dw[d] \in DrawinType /\ (dw[d].visible => dw[d].alive /\ dw[d].scr \in live)
      BY DEF DrawinInv, ListedAreHosted
    <2>2. CASE dw'[d] = dw[d]
      BY <1>2, <2>1, <2>2
    <2>3. CASE dw'[d] # dw[d]
      <3>1. PICK t : t = IF p = dw[d].at THEN dw[d].scr ELSE s
        OBVIOUS
      <3>2. PICK rec : rec = [dw[d] EXCEPT !.at = p, !.scr = t]
        OBVIOUS
      <3>3. dw'[d] = rec
        BY ZenonT(30), <1>1, <1>3, <2>3, <3>1, <3>2 DEF Settled
      <3>4. t \in (Output \X Nat) \cup {Unhosted} /\ (dw[d].visible => t \in live)
        BY <1>4, <2>1, <3>1 DEF DrawinType
      <3>5. /\ rec \in DrawinType /\ rec.alive = dw[d].alive /\ rec.refs = dw[d].refs
            /\ rec.visible = dw[d].visible /\ rec.scr = t
        BY <2>1, <3>2, <3>4 DEF DrawinType
      <3> QED
        BY <1>2, <2>1, <3>3, <3>4, <3>5
    <2> QED
      BY <2>2, <2>3
  <1>6. dw' \in [Drawin -> DrawinType]
    BY <1>1, <1>5
  <1>7. plugs' \in [Output -> Nat] /\ live' \subseteq Output \X Nat /\ OneEach'
    BY <1>2 DEF DrawinInv, OneEach
  <1> QED
    BY <1>2, <1>5, <1>6, <1>7, StillHosted

LEMMA PlugKeeps ==
    ASSUME DrawinInv, NEW o \in Output, Plug(o)
    PROVE  DrawinInv'
  <1>1. /\ o \notin Plugged /\ plugs' = [plugs EXCEPT ![o] = @ + 1]
        /\ live' = live \cup {<<o, plugs[o] + 1>>} /\ dw' = dw /\ shown' = shown
    BY DEF Plug
  <1>2. plugs' \in [Output -> Nat] /\ live' \subseteq Output \X Nat
    BY <1>1 DEF DrawinInv
  <1>3. OneEach'
    <2>1. \A s \in live : s[1] # o
      BY <1>1 DEF Plugged
    <2>2. \A s \in live' : s \in live \/ (s = <<o, plugs[o] + 1>> /\ s[1] = o)
      BY <1>1
    <2>3. \A s, t \in live' : s[1] = t[1] => s = t
      BY <2>1, <2>2 DEF DrawinInv, OneEach
    <2> QED
      BY <2>3 DEF OneEach
  <1>4. \A d \in Drawin : /\ dw'[d].visible = dw[d].visible /\ dw'[d].refs = dw[d].refs
                          /\ dw[d].visible => dw'[d].alive /\ dw'[d].scr \in live'
    BY <1>1 DEF DrawinInv, ListedAreHosted
  <1>5. dw' \in [Drawin -> DrawinType]
    BY <1>1 DEF DrawinInv
  <1> QED
    BY <1>1, <1>2, <1>3, <1>4, <1>5, StillHosted

\* An output goes: who was shown on its screen is shown on another one.
LEMMA UnplugKeeps ==
    ASSUME DrawinInv, NEW o \in Output, Unplug(o)
    PROVE  DrawinInv'
  <1>1. PICK others : others = {s[1] : s \in live'}
    OBVIOUS
  <1>2. PICK goesTo : goesTo = [p \in Output |-> IF p \in others THEN p ELSE CHOOSE q \in others : TRUE]
    OBVIOUS
  <1>3. PICK moved : moved = {d \in ToSet(shown) : dw[d].scr = On(o)}
    OBVIOUS
  <1>4. /\ o \in Plugged /\ live # {On(o)} /\ live' = live \ {On(o)}
        /\ shown' = shown /\ plugs' = plugs
        /\ dw' = [d \in Drawin |-> IF d \in moved THEN [dw[d] EXCEPT !.scr = On(goesTo[dw[d].at])]
                                   ELSE dw[d]]
    <2>1. /\ o \in Plugged /\ live # {On(o)} /\ live' = live \ {On(o)}
          /\ shown' = shown /\ plugs' = plugs
      BY DEF Unplug
    <2>2. \A d \in Drawin : dw[d].at \in Output
      BY DEF DrawinInv, DrawinType
    <2>3. dw' = [d \in Drawin |->
                   IF d \in moved
                   THEN [dw[d] EXCEPT !.scr = On(IF dw[d].at \in others THEN dw[d].at
                                                 ELSE CHOOSE q \in others : TRUE)]
                   ELSE dw[d]]
      BY <1>1, <1>3 DEF Unplug
    <2> QED
      BY <1>2, <2>1, <2>2, <2>3
  <1>5. On(o) \in live /\ On(o)[1] = o
    BY <1>4, ScreenOn
  <1>6. \E q \in others : TRUE
    BY <1>1, <1>4, <1>5
  <1>7. \A q \in others : q \in Plugged /\ q # o
    BY <1>1, <1>4, <1>5 DEF DrawinInv, OneEach, Plugged
  <1>8. \A p \in Output : goesTo[p] \in others
    <2>1. (CHOOSE q \in others : TRUE) \in others
      BY <1>6
    <2> QED
      BY <1>2, <2>1
  <1>9. \A q \in others : On(q) \in live' /\ On(q) \in Output \X Nat
    <2> SUFFICES ASSUME NEW q \in others PROVE On(q) \in live' /\ On(q) \in Output \X Nat
      OBVIOUS
    <2>1. On(q) \in live /\ On(q)[1] = q
      BY <1>7, ScreenOn
    <2> QED
      BY <1>4, <1>5, <1>7, <2>1 DEF DrawinInv
  <1>10. ASSUME NEW d \in Drawin
         PROVE  /\ dw'[d] \in DrawinType
                /\ dw'[d].visible = dw[d].visible /\ dw'[d].refs = dw[d].refs
                /\ dw[d].visible => dw'[d].alive /\ dw'[d].scr \in live'
    <2>1. dw[d] \in DrawinType /\ (dw[d].visible => dw[d].alive /\ dw[d].scr \in live)
          /\ (d \in ToSet(shown)) = dw[d].visible
      BY DEF DrawinInv, ListedAreHosted
    <2>2. CASE d \in moved
      <3>1. PICK t : t = On(goesTo[dw[d].at])
        OBVIOUS
      <3>2. t \in live' /\ t \in Output \X Nat
        BY <1>8, <1>9, <2>1, <3>1 DEF DrawinType
      <3>3. PICK rec : rec = [dw[d] EXCEPT !.scr = t]
        OBVIOUS
      <3>4. /\ rec \in DrawinType /\ rec.alive = dw[d].alive /\ rec.refs = dw[d].refs
            /\ rec.visible = dw[d].visible /\ rec.scr = t
        BY <2>1, <3>2, <3>3 DEF DrawinType
      <3>5. dw'[d] = rec
        BY <1>4, <2>2, <3>1, <3>3
      <3> QED
        BY <2>1, <3>2, <3>4, <3>5
    <2>3. CASE d \notin moved
      BY <1>3, <1>4, <2>1, <2>3
    <2> QED
      BY <2>2, <2>3
  <1>11. dw' \in [Drawin -> DrawinType]
    BY <1>4, <1>10
  <1>12. plugs' \in [Output -> Nat] /\ live' \subseteq Output \X Nat /\ OneEach'
    BY <1>4 DEF DrawinInv, OneEach
  <1> QED
    BY <1>4, <1>10, <1>11, <1>12, StillHosted

(* If a drawin whose screen went while it was hidden is not shown again as it *)
(* is: however drawins are shown, hidden and collected and outputs come and   *)
(* go, those that are listed are the visible ones, each once, held by the     *)
(* registry, and on a screen that is there (drawin.c, screen.c).              *)
THEOREM ListedStayHosted ==
    "revive" \notin Wild => (DrawinSpec => []ListedAreHosted)
  <1>1. DrawinInit => DrawinInv
    <2> SUFFICES ASSUME DrawinInit PROVE DrawinInv
      OBVIOUS
    <2>1. /\ dw = [d \in Drawin |-> Absent] /\ shown = <<>>
          /\ plugs = [o \in Output |-> 1] /\ live = Output \X {1}
      BY DEF DrawinInit
    <2>2. Absent \in DrawinType /\ Absent.refs = 0 /\ Absent.visible = FALSE
      BY AbsentIs
    <2>3. shown \in Seq(Drawin) /\ IsInjective(shown) /\ ToSet(shown) = {}
      BY <2>1 DEF IsInjective, ToSet
    <2>4. plugs \in [Output -> Nat] /\ live \subseteq Output \X Nat /\ OneEach
      BY <2>1 DEF OneEach
    <2>5. dw \in [Drawin -> DrawinType] /\ \A d \in Drawin : dw[d] = Absent
      BY <2>1, <2>2
    <2>6. ListedAreHosted
      <3>1. ASSUME NEW d \in Drawin
            PROVE  dw[d].visible = FALSE /\ dw[d].refs # 1 /\ d \notin ToSet(shown)
        BY <2>2, <2>3, <2>5
      <3>2. ASSUME NEW d \in Drawin
            PROVE  /\ (d \in ToSet(shown)) = dw[d].visible /\ dw[d].visible = (dw[d].refs = 1)
                   /\ ~dw[d].visible
        <4>1. (d \in ToSet(shown)) = FALSE
          <5>1. ToSet(shown) = {}
            BY <2>3
          <5> QED
            BY <5>1
        <4>2. (dw[d].refs = 1) = FALSE
          <5>1. dw[d].refs = 0
            BY <2>2, <2>5
          <5> QED
            BY <5>1
        <4>3. dw[d].visible = FALSE
          BY <3>1
        <4> QED
          BY <4>1, <4>2, <4>3
      <3> QED
        BY <3>2 DEF ListedAreHosted
    <2> QED
      BY <2>3, <2>4, <2>5, <2>6 DEF DrawinInv
  <1>2. DrawinInv /\ "revive" \notin Wild /\ [DrawinNext]_drawinVars => DrawinInv'
    <2> SUFFICES ASSUME DrawinInv, "revive" \notin Wild, [DrawinNext]_drawinVars PROVE DrawinInv'
      OBVIOUS
    <2>1. CASE UNCHANGED drawinVars
      BY <2>1 DEF drawinVars, DrawinInv, ListedAreHosted, OneEach
    <2>2. CASE Refresh
      BY <2>2 DEF Refresh, DrawinInv, ListedAreHosted, OneEach
    <2> QED
      BY <2>1, <2>2, CreateKeeps, ShowKeeps, HideKeeps, GcKeeps, LookSet, PlaceSet, FrameKeeps,
         PlugKeeps, UnplugKeeps
      DEF DrawinNext
  <1>3. DrawinInv => ListedAreHosted
    BY DEF DrawinInv
  <1> QED
    <2>1. ASSUME "revive" \notin Wild PROVE DrawinSpec => []ListedAreHosted
      <3>1. DrawinInv /\ [DrawinNext]_drawinVars => DrawinInv'
        BY <1>2, <2>1
      <3> QED
        BY <1>1, <1>3, <3>1, PTL DEF DrawinSpec
    <2> QED
      BY <2>1

-----------------------------------------------------------------------------
(* The tray.  Who is listed is held and alive; the item of a name is the one  *)
(* that is listed with it (Named), and a name is claimed or has an item, not  *)
(* both (OfNames).                                                            *)

TrayOwned(n) == {i \in Trayed : bus_name[i] = n}

TrayShape ==
    /\ items \in Seq(Item) /\ IsInjective(items) /\ Trayed \subseteq made /\ made \subseteq Item
    /\ tray_refs \in [Item -> Nat] /\ bus_name \in [Item -> TrayName \cup OwnNames \cup {NoName}]
    /\ \A i \in Trayed : tray_refs[i] > 0 /\ i \in living /\ bus_name[i] \in TrayName \cup OwnNames
TrayPictures ==
    /\ icon \in [Item -> TrayPicture] /\ overlay \in [Item -> TrayPicture]
    /\ painted \in [Item -> TrayPicture \X TrayPicture]
TrayPainted == \A i \in Item : painted[i] = <<icon[i], overlay[i]>>
TrayBooks ==
    /\ lastClaim \in Nat /\ claimed \in [TrayName -> Nat] /\ known \in [TrayName -> SUBSET Item]
    /\ fetches \subseteq TrayName \X (Nat \ {0}) /\ present \subseteq TrayName
    /\ snapshot \in Seq(TrayName \cup OwnNames \cup {NoName})
OfNames ==
    \A n \in TrayName :
        /\ known[n] = TrayOwned(n) /\ \A i, j \in known[n] : i = j
        /\ claimed[n] # 0 => known[n] = {}
        /\ n \notin present => known[n] = {} /\ claimed[n] = 0
TrayInv == TrayShape /\ TrayBooks

\* A new object is listed with its name.
LEMMA TrayRegisters ==
    ASSUME TrayShape, NEW i, NEW n \in TrayName \cup OwnNames, luaA_systray_item_register(i, n)
    PROVE  /\ TrayShape' /\ i \in Item /\ i \notin Trayed
           /\ Trayed' = Trayed \cup {i}
           /\ \A j \in Item : bus_name'[j] = IF j = i THEN n ELSE bus_name[j]
  <1>1. /\ i \in Item \ made /\ made' = made \cup {i} /\ living' = living \cup {i}
        /\ tray_refs' = [tray_refs EXCEPT ![i] = @ + 1]
        /\ items' = Append(items, i) /\ bus_name' = [bus_name EXCEPT ![i] = n]
    BY DEF luaA_systray_item_register, NextItem
  <1>2. i \notin ToSet(items)
    BY <1>1 DEF TrayShape, Trayed
  <1>3. items \in Seq(Item) /\ IsInjective(items) /\ i \in Item
    BY <1>1 DEF TrayShape
  <1>4. Lists(items', Item, ToSet(items) \cup {i})
    BY <1>1, <1>2, <1>3, WithOne
  <1>5. items' \in Seq(Item) /\ IsInjective(items') /\ Trayed' = Trayed \cup {i}
    BY <1>4 DEF Lists, Trayed
  <1>6. tray_refs' \in [Item -> Nat] /\ \A j \in Item : tray_refs'[j] = IF j = i THEN tray_refs[j] + 1 ELSE tray_refs[j]
    BY <1>1 DEF TrayShape
  <1>7. /\ bus_name' \in [Item -> TrayName \cup OwnNames \cup {NoName}]
        /\ \A j \in Item : bus_name'[j] = IF j = i THEN n ELSE bus_name[j]
    BY <1>1 DEF TrayShape
  <1>8. made' \subseteq Item /\ Trayed' \subseteq made'
    BY <1>1, <1>5 DEF TrayShape
  <1>9. ASSUME NEW j \in Trayed'
        PROVE  tray_refs'[j] > 0 /\ j \in living' /\ bus_name'[j] \in TrayName \cup OwnNames
    <2>1. CASE j = i
      <3>1. tray_refs[j] \in Nat /\ tray_refs'[j] = tray_refs[j] + 1
        BY <1>3, <1>6, <2>1 DEF TrayShape
      <3> QED
        BY <1>1, <1>3, <1>7, <2>1, <3>1
    <2>2. CASE j # i
      <3>1. j \in Trayed /\ j \in Item
        BY <1>5, <2>2 DEF TrayShape
      <3> QED
        BY <1>1, <1>6, <1>7, <2>2, <3>1 DEF TrayShape
    <2> QED
      BY <2>1, <2>2
  <1> QED
    BY <1>2, <1>3, <1>5, <1>6, <1>7, <1>8, <1>9 DEF TrayShape, Trayed

\* One that goes is taken from the list, and the others stay as they were.
LEMMA TrayDestroys ==
    ASSUME TrayShape, NEW i \in Item, systray_item_destroy(i)
    PROVE  TrayShape' /\ Trayed' = Trayed \ {i} /\ bus_name' = bus_name
  <1>1. /\ living' = living \ {i} /\ items' = RemoveFirst(items, i)
        /\ tray_refs' = [tray_refs EXCEPT ![i] = IF @ > 0 THEN @ - 1 ELSE 0]
        /\ made' = made /\ bus_name' = bus_name
    BY DEF systray_item_destroy
  <1>2. items' \in Seq(Item) /\ IsInjective(items') /\ Trayed' = Trayed \ {i}
    <2>1. PICK r : r = RemoveFirst(items, i)
      OBVIOUS
    <2>2. r \in Seq(Item) /\ IsInjective(r) /\ ToSet(r) = ToSet(items) \ {i}
      BY <2>1, WithoutOne DEF TrayShape
    <2> QED
      BY <1>1, <2>1, <2>2 DEF Trayed
  <1>3. tray_refs' \in [Item -> Nat] /\ \A j \in Item : j # i => tray_refs'[j] = tray_refs[j]
    BY <1>1 DEF TrayShape
  <1> QED
    BY <1>1, <1>2, <1>3 DEF TrayShape

\* Names that are there and have neither a claim nor an item are claimed.
LEMMA ClaimsAre ==
    ASSUME TrayBooks, NEW ns, Claims(ns, fetches), known' = known, items' = items, bus_name' = bus_name,
           present \subseteq present', present' \subseteq TrayName, snapshot' \in {snapshot, <<>>}
    PROVE  /\ TrayBooks' /\ (OfNames => OfNames')
           /\ \A n \in TrayName : /\ claimed[n] # 0 => claimed'[n] # 0
                                  /\ n \in ToSet(ns) /\ n \in present' => known'[n] # {} \/ claimed'[n] # 0
  <1> DEFINE new == {n \in ToSet(ns) : n \in present' /\ known[n] = {} /\ claimed[n] = 0}
  <1>1. /\ lastClaim' = IF new = {} THEN lastClaim ELSE lastClaim + 1
        /\ claimed' = [n \in TrayName |-> IF n \in new THEN lastClaim' ELSE claimed[n]]
        /\ fetches' = fetches \cup {<<n, lastClaim'>> : n \in new}
    BY DEF Claims
  <1>2. /\ lastClaim \in Nat /\ claimed \in [TrayName -> Nat] /\ known \in [TrayName -> SUBSET Item]
        /\ fetches \subseteq TrayName \X (Nat \ {0}) /\ present \subseteq TrayName
    BY DEF TrayBooks
  <1>12. snapshot' \in Seq(TrayName \cup OwnNames \cup {NoName})
    <2>1. PICK A : A = TrayName \cup OwnNames \cup {NoName}
      OBVIOUS
    <2>2. snapshot \in Seq(A) /\ <<>> \in Seq(A)
      BY <2>1, EmptySeq DEF TrayBooks
    <2> QED
      BY <2>1, <2>2
  <1>3. new \subseteq TrayName
    OBVIOUS
  <1>4. lastClaim' \in Nat /\ (new # {} => lastClaim' # 0)
    BY <1>1, <1>2
  <1>5. \A n \in TrayName : n \in new <=> n \in ToSet(ns) /\ n \in present' /\ known[n] = {} /\ claimed[n] = 0
    OBVIOUS
  <1> HIDE DEF new
  <1>6. claimed' \in [TrayName -> Nat]
    BY <1>1, <1>2, <1>4
  <1>7. \A n \in TrayName : claimed'[n] = IF n \in new THEN lastClaim' ELSE claimed[n]
    BY <1>1
  <1>8. \A n \in TrayName : /\ claimed[n] # 0 => claimed'[n] # 0
                            /\ n \in ToSet(ns) /\ n \in present' => known'[n] # {} \/ claimed'[n] # 0
    BY <1>4, <1>5, <1>7
  <1>9. fetches' \subseteq TrayName \X (Nat \ {0})
    BY <1>1, <1>2, <1>3, <1>4
  <1>10. ASSUME OfNames, NEW n \in TrayName
         PROVE  /\ known'[n] = TrayOwned(n)' /\ \A i, j \in known'[n] : i = j
                /\ claimed'[n] # 0 => known'[n] = {}
                /\ n \notin present' => known'[n] = {} /\ claimed'[n] = 0
    <2>1. TrayOwned(n)' = TrayOwned(n)
      BY DEF TrayOwned, Trayed
    <2>2. /\ known[n] = TrayOwned(n) /\ \A i, j \in known[n] : i = j
          /\ claimed[n] # 0 => known[n] = {}
          /\ n \notin present => known[n] = {} /\ claimed[n] = 0
      BY <1>10 DEF OfNames
    <2> QED
      BY <1>5, <1>7, <2>1, <2>2
  <1>11. OfNames => OfNames'
    BY <1>10 DEF OfNames
  <1> QED
    BY <1>2, <1>4, <1>6, <1>8, <1>9, <1>11, <1>12 DEF TrayBooks

\* Every step keeps the list, the objects and the books.
LEMMA TrayKept ==
    ASSUME TrayInv, [SystrayNext]_systrayVars
    PROVE  TrayInv'
  <1>1. CASE UNCHANGED <<objectVars, bookVars>>
    BY <1>1 DEF TrayInv, TrayShape, TrayBooks, Trayed, objectVars, bookVars
  <1>2. ASSUME NEW i \in Item, systray_item_allocator(i) PROVE TrayInv'
    <2>1. /\ made' = made \cup {i} /\ living' = living \cup {i}
          /\ UNCHANGED <<items, tray_refs, bus_name, bookVars>>
      BY <1>2 DEF systray_item_allocator
    <2> QED
      BY <2>1 DEF TrayInv, TrayShape, TrayBooks, Trayed, bookVars
  <1>3. ASSUME NEW i \in Item, UnregisterAny(i) PROVE TrayInv'
    BY <1>3, TrayDestroys DEF UnregisterAny, TrayInv, TrayBooks, bookVars
  <1>4. ASSUME NEW i \in Item, NEW n \in OwnNames, RegisterOwn(i, n) PROVE TrayInv'
    BY <1>4, TrayRegisters DEF RegisterOwn, TrayInv, TrayBooks, bookVars
  <1>5. ASSUME NEW f \in fetches, NEW i \in Item, TrayAnswer(f, i) PROVE TrayInv'
    <2>1. f[1] \in TrayName /\ UNCHANGED <<lastClaim, present, snapshot>> /\ fetches' \subseteq fetches
      BY <1>5 DEF TrayAnswer, TrayInv, TrayBooks
    <2>2. CASE claimed[f[1]] = f[2]
      <3>1. luaA_systray_item_register(i, f[1]) /\ claimed' = [claimed EXCEPT ![f[1]] = 0]
            /\ known' = [known EXCEPT ![f[1]] = {i}]
        BY <1>5, <2>2 DEF TrayAnswer
      <3>2. TrayShape'
        BY <2>1, <3>1, TrayRegisters DEF TrayInv
      <3> QED
        BY <2>1, <3>1, <3>2 DEF TrayInv, TrayBooks
    <2>3. CASE claimed[f[1]] # f[2]
      <3>1. UNCHANGED <<claimed, known, objectVars>>
        BY <1>5, <2>3 DEF TrayAnswer
      <3> QED
        BY <2>1, <3>1 DEF TrayInv, TrayShape, TrayBooks, Trayed, objectVars
    <2> QED
      BY <2>2, <2>3
  <1>6. ASSUME NEW n \in TrayName, register_item(n) PROVE TrayInv'
    <2>1. Claims(<<n>>, fetches) /\ present' = present \cup {n}
          /\ UNCHANGED <<known, snapshot, objectVars>>
      BY <1>6 DEF register_item
    <2>2. present' \subseteq TrayName /\ TrayBooks
      BY <2>1 DEF TrayInv, TrayBooks
    <2>3. TrayBooks'
      BY <2>1, <2>2, ClaimsAre DEF objectVars
    <2> QED
      BY <2>1, <2>3 DEF TrayInv, TrayShape, Trayed, objectVars
  <1>7. ASSUME NEW n \in TrayName, unregister_item(n) PROVE TrayInv'
    <2>1. /\ present' = present \ {n} /\ claimed' = [claimed EXCEPT ![n] = 0]
          /\ known' = [known EXCEPT ![n] = {}]
          /\ UNCHANGED <<fetches, lastClaim, snapshot>>
          /\ UNCHANGED objectVars \/ \E i \in known[n] : systray_item_destroy(i)
      BY <1>7 DEF unregister_item
    <2>2. TrayBooks'
      BY <2>1 DEF TrayInv, TrayBooks
    <2>3. known[n] \subseteq Item
      BY DEF TrayInv, TrayBooks
    <2> QED
      BY <2>1, <2>2, <2>3, TrayDestroys DEF TrayInv, TrayShape, Trayed, objectVars
  <1>8. CASE systray_hot_reload
    <2>1. /\ snapshot' = Names /\ items' = <<>> /\ made' = {}
          /\ tray_refs' = [i \in Item |-> 0] /\ bus_name' = [i \in Item |-> NoName]
          /\ claimed' = [n \in TrayName |-> 0] /\ known' = [n \in TrayName |-> {}] /\ fetches' = {}
          /\ UNCHANGED <<present, lastClaim>>
      BY <1>8 DEF systray_hot_reload
    <2>2. Trayed' = {} /\ IsInjective(items')
      BY <2>1 DEF Trayed, ToSet, IsInjective
    <2>3. TrayShape'
      BY <2>1, <2>2 DEF TrayShape
    <2>4. Names \in Seq(TrayName \cup OwnNames \cup {NoName})
      <3>1. DOMAIN items = 1..Len(items) /\ Len(items) \in Nat /\ \A k \in 1..Len(items) : items[k] \in Item
        BY LenProperties, ElementOfSeq DEF TrayInv, TrayShape
      <3>2. \A k \in 1..Len(items) : bus_name[items[k]] \in TrayName \cup OwnNames \cup {NoName}
        BY <3>1 DEF TrayInv, TrayShape
      <3> QED
        BY <3>1, <3>2 DEF Names
    <2> QED
      BY <2>1, <2>3, <2>4 DEF TrayInv, TrayBooks
  <1>9. CASE Reprobe
    <2>1. Claims(UpTo(snapshot), fetches) /\ snapshot' = <<>> /\ UNCHANGED <<known, present, objectVars>>
      BY <1>9 DEF Reprobe
    <2>2. present \subseteq TrayName /\ TrayBooks
      BY DEF TrayInv, TrayBooks
    <2>3. TrayBooks'
      BY <2>1, <2>2, ClaimsAre DEF objectVars
    <2> QED
      BY <2>1, <2>3 DEF TrayInv, TrayShape, Trayed, objectVars
  <1>10. ASSUME NEW i \in Item, NoPicture(i) \/ \E k \in Kind, starved \in BOOLEAN : NewPicture(i, k, starved)
         PROVE  UNCHANGED <<objectVars, bookVars>>
    BY <1>10 DEF NoPicture, NewPicture
  <1> QED
    BY <1>1, <1>2, <1>3, <1>4, <1>5, <1>6, <1>7, <1>8, <1>9, <1>10 DEF SystrayNext, systrayVars, objectVars, bookVars

\* Names of the configuration's own never stand for a name of the bus.
LEMMA NamesKeepTheirItems ==
    ASSUME OwnNames \cap TrayName = {}, TrayInv, OfNames, [SystrayNext]_systrayVars
    PROVE  OfNames'
  <1> DEFINE Right(n) == /\ known'[n] = TrayOwned(n)' /\ \A i, j \in known'[n] : i = j
                         /\ claimed'[n] # 0 => known'[n] = {}
                         /\ n \notin present' => known'[n] = {} /\ claimed'[n] = 0
  <1>0. \A n \in TrayName : /\ known[n] = TrayOwned(n) /\ \A i, j \in known[n] : i = j
                            /\ claimed[n] # 0 => known[n] = {}
                            /\ n \notin present => known[n] = {} /\ claimed[n] = 0
    BY DEF OfNames
  <1>1. ASSUME UNCHANGED <<items, bus_name, known, claimed, present>> PROVE OfNames'
    BY <1>1 DEF OfNames, TrayOwned, Trayed
  <1>2. ASSUME NEW i \in Item, UnregisterAny(i) PROVE OfNames'
    <2>1. Trayed' = Trayed \ {i} /\ bus_name' = bus_name
      BY <1>2, TrayDestroys DEF UnregisterAny, TrayInv
    <2>2. \A n \in TrayName : i \notin known[n]
      BY <1>2 DEF UnregisterAny
    <2>3. UNCHANGED <<known, claimed, present>>
      BY <1>2 DEF UnregisterAny, bookVars
    <2>4. ASSUME NEW n \in TrayName PROVE Right(n)
      <3>1. TrayOwned(n)' = TrayOwned(n) \ {i}
        BY <2>1 DEF TrayOwned
      <3> QED
        BY <1>0, <2>2, <2>3, <3>1
    <2> QED
      BY <2>4 DEF OfNames
  <1>3. ASSUME NEW i \in Item, NEW n \in OwnNames, RegisterOwn(i, n) PROVE OfNames'
    <2>1. luaA_systray_item_register(i, n) /\ UNCHANGED <<known, claimed, present>>
      BY <1>3 DEF RegisterOwn, bookVars
    <2>2. i \in Item /\ Trayed' = Trayed \cup {i} /\ \A j \in Item : bus_name'[j] = IF j = i THEN n ELSE bus_name[j]
      BY <2>1, TrayRegisters DEF TrayInv
    <2>3. Trayed \subseteq Item /\ i \notin Trayed
      BY <2>1, TrayRegisters DEF TrayInv, TrayShape
    <2>4. ASSUME NEW m \in TrayName PROVE Right(m)
      <3>1. TrayOwned(m)' = TrayOwned(m)
        BY <2>2, <2>3 DEF TrayOwned
      <3> QED
        BY <1>0, <2>1, <3>1
    <2> QED
      BY <2>4 DEF OfNames
  <1>4. ASSUME NEW f \in fetches, NEW i \in Item, TrayAnswer(f, i) PROVE OfNames'
    <2>1. PICK n : n = f[1]
      OBVIOUS
    <2>2. n \in TrayName /\ f[2] # 0 /\ present' = present
      BY <1>4, <2>1 DEF TrayAnswer, TrayInv, TrayBooks
    <2>3. CASE claimed[n] = f[2]
      <3>1. luaA_systray_item_register(i, n) /\ claimed' = [claimed EXCEPT ![n] = 0]
            /\ known' = [known EXCEPT ![n] = {i}]
        BY <1>4, <2>1, <2>3 DEF TrayAnswer
      <3>2. Trayed' = Trayed \cup {i} /\ \A j \in Item : bus_name'[j] = IF j = i THEN n ELSE bus_name[j]
        BY <2>2, <3>1, TrayRegisters DEF TrayInv
      <3>3. Trayed \subseteq Item /\ i \notin Trayed
        BY <2>2, <3>1, TrayRegisters DEF TrayInv, TrayShape
      <3>4. known[n] = {} /\ n \in present
        BY <1>0, <2>2, <2>3
      <3>5. TrayOwned(n)' = {i}
        <4>1. TrayOwned(n) = {}
          BY <1>0, <2>2, <3>4
        <4> QED
          BY <3>2, <3>3, <4>1 DEF TrayOwned
      <3>6. /\ \A m \in TrayName : m # n => known'[m] = known[m] /\ claimed'[m] = claimed[m]
            /\ known'[n] = {i} /\ claimed'[n] = 0
        BY <2>2, <3>1 DEF TrayInv, TrayBooks
      <3>7. ASSUME NEW m \in TrayName, m # n PROVE Right(m)
        <4>1. TrayOwned(m)' = TrayOwned(m)
          BY <3>2, <3>3, <3>7 DEF TrayOwned
        <4> QED
          BY <1>0, <2>2, <3>6, <3>7, <4>1
      <3>8. Right(n)
        BY <2>2, <3>4, <3>5, <3>6
      <3> QED
        BY <3>7, <3>8 DEF OfNames
    <2>4. CASE claimed[n] # f[2]
      BY <1>1, <1>4, <2>1, <2>2, <2>4 DEF TrayAnswer, objectVars
    <2> QED
      BY <2>3, <2>4
  <1>5. ASSUME NEW n \in TrayName, unregister_item(n) PROVE OfNames'
    <2>1. /\ present' = present \ {n} /\ claimed' = [claimed EXCEPT ![n] = 0]
          /\ known' = [known EXCEPT ![n] = {}]
          /\ (known[n] = {} /\ UNCHANGED objectVars) \/ \E i \in known[n] : systray_item_destroy(i)
      BY <1>5 DEF unregister_item
    <2>2. Trayed' = Trayed \ known[n] /\ bus_name' = bus_name
      <3>1. CASE known[n] = {} /\ UNCHANGED objectVars
        BY <3>1 DEF objectVars, Trayed
      <3>2. ASSUME NEW i \in known[n], systray_item_destroy(i)
            PROVE  Trayed' = Trayed \ known[n] /\ bus_name' = bus_name
        <4>1. i \in Item /\ known[n] = {i}
          BY <1>0 DEF TrayInv, TrayBooks
        <4> QED
          BY <3>2, <4>1, TrayDestroys DEF TrayInv
      <3> QED
        BY <2>1, <3>1, <3>2
    <2>3. /\ \A m \in TrayName : m # n => known'[m] = known[m] /\ claimed'[m] = claimed[m]
          /\ known'[n] = {} /\ claimed'[n] = 0
      BY <2>1 DEF TrayInv, TrayBooks
    <2>4. ASSUME NEW m \in TrayName, m # n PROVE Right(m)
      <3>1. TrayOwned(m)' = TrayOwned(m)
        BY <1>0, <2>2, <2>4 DEF TrayOwned
      <3> QED
        BY <1>0, <2>1, <2>3, <2>4, <3>1
    <2>5. Right(n)
      <3>1. TrayOwned(n)' = {}
        BY <1>0, <2>2 DEF TrayOwned
      <3> QED
        BY <2>1, <2>3, <3>1
    <2> QED
      BY <2>4, <2>5 DEF OfNames
  <1>6. CASE systray_hot_reload
    <2>1. /\ items' = <<>> /\ claimed' = [n \in TrayName |-> 0] /\ known' = [n \in TrayName |-> {}]
      BY <1>6 DEF systray_hot_reload
    <2>2. Trayed' = {}
      BY <2>1 DEF Trayed, ToSet
    <2> QED
      BY <2>1, <2>2 DEF OfNames, TrayOwned
  <1>7. ASSUME NEW n \in TrayName, register_item(n) PROVE OfNames'
    <2>1. Claims(<<n>>, fetches) /\ present' = present \cup {n}
          /\ UNCHANGED <<known, snapshot, objectVars>>
      BY <1>7 DEF register_item
    <2>2. present' \subseteq TrayName /\ TrayBooks
      BY <2>1 DEF TrayInv, TrayBooks
    <2> QED
      BY <2>1, <2>2, ClaimsAre DEF objectVars
  <1>8. CASE Reprobe
    <2>1. Claims(UpTo(snapshot), fetches) /\ snapshot' = <<>> /\ UNCHANGED <<known, present, objectVars>>
      BY <1>8 DEF Reprobe
    <2>2. present \subseteq TrayName /\ TrayBooks
      BY DEF TrayInv, TrayBooks
    <2> QED
      BY <2>1, <2>2, ClaimsAre DEF objectVars
  <1>9. ASSUME NEW i \in Item, \/ systray_item_allocator(i) \/ NoPicture(i)
                               \/ \E k \in Kind, starved \in BOOLEAN : NewPicture(i, k, starved)
        PROVE  OfNames'
    BY <1>1, <1>9 DEF systray_item_allocator, NoPicture, NewPicture, bookVars, objectVars
  <1>10. CASE UNCHANGED systrayVars
    BY <1>1, <1>10 DEF systrayVars
  <1> QED
    BY <1>2, <1>3, <1>4, <1>5, <1>6, <1>7, <1>8, <1>9, <1>10 DEF SystrayNext

\* A change that is drawn is drawn as it is then, if the memory is there.
LEMMA IconsAreDrawn ==
    ASSUME ~Starved, TrayInv, TrayPictures, TrayPainted, [SystrayNext]_systrayVars
    PROVE  TrayPictures' /\ TrayPainted'
  <1>1. ASSUME UNCHANGED <<icon, overlay, painted>> PROVE TrayPictures' /\ TrayPainted'
    BY <1>1 DEF TrayPictures, TrayPainted
  <1>2. ASSUME NEW i \in Item, NEW p \in TrayPicture,
               icon' = [icon EXCEPT ![i] = p], overlay' = overlay,
               painted' = [painted EXCEPT ![i][1] = icon'[i]]
        PROVE  TrayPictures' /\ TrayPainted'
    <2>1. painted' = [painted EXCEPT ![i] = <<p, overlay[i]>>]
      <3>1. painted[i] = <<icon[i], overlay[i]>> /\ icon'[i] = p
        BY <1>2 DEF TrayPictures, TrayPainted
      <3>2. [painted[i] EXCEPT ![1] = p] = <<p, overlay[i]>>
        BY <3>1
      <3> QED
        BY <1>2, <3>1, <3>2
    <2> QED
      BY <1>2, <2>1 DEF TrayPictures, TrayPainted
  <1>3. ASSUME NEW i \in Item, NEW p \in TrayPicture,
               overlay' = [overlay EXCEPT ![i] = p], icon' = icon,
               painted' = [painted EXCEPT ![i][2] = overlay'[i]]
        PROVE  TrayPictures' /\ TrayPainted'
    <2>1. painted' = [painted EXCEPT ![i] = <<icon[i], p>>]
      <3>1. painted[i] = <<icon[i], overlay[i]>> /\ overlay'[i] = p
        BY <1>3 DEF TrayPictures, TrayPainted
      <3>2. [painted[i] EXCEPT ![2] = p] = <<icon[i], p>>
        BY <3>1
      <3> QED
        BY <1>3, <3>1, <3>2
    <2> QED
      BY <1>3, <2>1 DEF TrayPictures, TrayPainted
  <1>4. ASSUME NEW i \in Item, NoPicture(i) PROVE TrayPictures' /\ TrayPainted'
    <2>1. Heard(i) /\ "none" \in TrayPicture
      BY <1>4 DEF NoPicture, Heard, TrayInv, TrayShape, TrayPicture
    <2> QED
      BY <1>3, <1>4, <2>1 DEF NoPicture, clear_overlay, draw_overlay
  <1>5. ASSUME NEW i \in Item, NEW k \in Kind, NEW starved \in BOOLEAN, NewPicture(i, k, starved)
        PROVE  TrayPictures' /\ TrayPainted'
    <2>1. Heard(i) /\ starved = FALSE
      BY <1>5 DEF NewPicture, Heard, TrayInv, TrayShape
    <2>2. CASE k \notin Size
      <3>1. /\ NewSurface(icon[i], k, starved)[1] = icon[i] /\ NewSurface(icon[i], k, starved)[2] = FALSE
            /\ NewSurface(overlay[i], k, starved)[1] = overlay[i] /\ NewSurface(overlay[i], k, starved)[2] = FALSE
        BY <2>2 DEF NewSurface
      <3>2. UNCHANGED <<icon, overlay, painted>>
        BY <1>5, <3>1 DEF NewPicture, set_icon_from_pixmap, set_overlay_from_pixmap, TrayPictures
      <3> QED
        BY <1>1, <3>2
    <2>3. CASE k \in Size
      <3>1. /\ NewSurface(icon[i], k, starved)[1] = k /\ NewSurface(icon[i], k, starved)[2] = TRUE
            /\ NewSurface(overlay[i], k, starved)[1] = k /\ NewSurface(overlay[i], k, starved)[2] = TRUE
            /\ k \in TrayPicture
        BY <2>1, <2>3 DEF NewSurface, TrayPicture
      <3>2. CASE set_icon_from_pixmap(i, k, starved)
        BY <1>2, <2>1, <3>1, <3>2 DEF set_icon_from_pixmap, draw_icon
      <3>3. CASE set_overlay_from_pixmap(i, k, starved)
        BY <1>3, <2>1, <3>1, <3>3 DEF set_overlay_from_pixmap, draw_overlay
      <3>4. CASE UNCHANGED <<icon, overlay, painted>>
        BY <1>1, <3>4
      <3> QED
        BY <1>5, <3>2, <3>3, <3>4 DEF NewPicture
    <2> QED
      BY <2>2, <2>3
  <1>6. CASE systray_hot_reload
    <2>1. /\ icon' = [i \in Item |-> "none"] /\ overlay' = icon'
          /\ painted' = [i \in Item |-> <<"none", "none">>]
      BY <1>6 DEF systray_hot_reload
    <2> QED
      BY <2>1 DEF TrayPictures, TrayPainted, TrayPicture
  <1>7. CASE UNCHANGED pictureVars
    BY <1>1, <1>7 DEF pictureVars
  <1> QED
    BY <1>1, <1>4, <1>5, <1>6, <1>7
    DEF SystrayNext, systray_item_allocator, UnregisterAny, RegisterOwn, TrayAnswer, register_item,
        unregister_item, Reprobe, systrayVars, pictureVars

\* What ipairs() reads is the beginning of the list, and all of it if every entry has a name.
LEMMA NamesRead ==
    ASSUME NEW A, NEW ns \in Seq(A), NEW r, r = UpTo(ns)
    PROVE  /\ \A n : Contains(r, n) => n \in ToSet(r)
           /\ (\A k \in 1..Len(ns) : ns[k] # NoName) => r = ns
           /\ ns = <<>> => r = <<>>
  <1>1. DOMAIN ns = 1..Len(ns) /\ Len(ns) \in Nat
    BY LenProperties
  <1>2. PICK holes : holes = {k \in 1..Len(ns) : ns[k] = NoName}
    OBVIOUS
  <1> DEFINE t == IF holes = {} THEN Len(ns) ELSE (CHOOSE k \in holes : \A j \in holes : k <= j) - 1
  <1>4. r = SubSeq(ns, 1, t)
    BY <1>1, <1>2 DEF UpTo
  <1>5. t \in Nat /\ t <= Len(ns) /\ (holes = {} => t = Len(ns))
    <2>1. CASE holes = {}
      BY <1>1, <2>1
    <2>2. CASE holes # {}
      <3>1. holes \subseteq Nat
        BY <1>2
      <3>2. \E k \in holes : \A j \in holes : k <= j
        BY <2>2, <3>1, LeastOf
      <3>3. PICK k \in holes : t = k - 1
        BY <2>2, <3>2
      <3>4. k \in 1..Len(ns) /\ k \in Nat
        BY <1>1, <1>2, <3>3
      <3> HIDE DEF t
      <3> QED
        BY <1>1, <2>2, <3>3, <3>4
    <2> QED
      BY <2>1, <2>2
  <1> HIDE DEF t
  <1>10. PICK u \in Nat : u <= Len(ns) /\ r = SubSeq(ns, 1, u) /\ (holes = {} => u = Len(ns))
    BY <1>4, <1>5
  <1>6. r \in Seq(A) /\ Len(r) = u /\ DOMAIN r = 1..u /\ \A k \in 1..u : r[k] = ns[k]
    <2>1. u = IF 1 <= u THEN u - 1 + 1 ELSE 0
      OBVIOUS
    <2>2. ASSUME NEW k \in 1..u PROVE ns[k] \in A
      <3>1. k \in 1..Len(ns)
        <4>1. u <= Len(ns)
          BY <1>10
        <4> QED
          BY <1>1, <4>1
      <3> QED
        BY <3>1, ElementOfSeq
    <2>3. r \in Seq(A) /\ Len(r) = u
      BY <1>10, <2>1, <2>2, SubSeqProperties
    <2>4. DOMAIN r = 1..u
      BY <2>3, LenProperties
    <2> QED
      BY <1>10, <2>3, <2>4
  <1>7. \A n : Contains(r, n) => n \in ToSet(r)
    BY <1>6 DEF Contains, ToSet
  <1>8. ASSUME \A k \in 1..Len(ns) : ns[k] # NoName PROVE r = ns
    <2>1. u = Len(ns)
      BY <1>2, <1>8, <1>10
    <2>2. r \in Seq(A)
      BY <1>6
    <2> QED
      BY <1>6, <2>1, <2>2, SeqEqual
  <1>9. ns = <<>> => r = <<>>
    BY <1>8
  <1> QED
    BY <1>7, <1>8, <1>9

Carried == \A n \in present : known[n] # {} \/ claimed[n] # 0 \/ Contains(UpTo(snapshot), n)

\* A reload that comes when nothing is fetched finds every name in the list of items.
LEMMA NamesAreCarried ==
    ASSUME ~Hurried, NoName \notin OwnNames \cup TrayName, TrayInv, OfNames, Carried,
           [SystrayNext]_systrayVars
    PROVE  Carried'
  <1>1. ASSUME UNCHANGED <<present, known, claimed, snapshot>> PROVE Carried'
    BY <1>1 DEF Carried, UpTo
  <1>2. present \subseteq TrayName
    BY DEF TrayInv, TrayBooks
  <1>3. ASSUME NEW f \in fetches, NEW i \in Item, TrayAnswer(f, i) PROVE Carried'
    <2>1. UNCHANGED <<present, snapshot>> /\ UpTo(snapshot)' = UpTo(snapshot)
      BY <1>3 DEF TrayAnswer, UpTo
    <2>2. CASE claimed[f[1]] = f[2]
      <3>1. claimed' = [claimed EXCEPT ![f[1]] = 0] /\ known' = [known EXCEPT ![f[1]] = {i}]
        BY <1>3, <2>2 DEF TrayAnswer
      <3> QED
        BY <1>2, <2>1, <3>1 DEF Carried, TrayInv, TrayBooks
    <2>3. CASE claimed[f[1]] # f[2]
      BY <1>1, <1>3, <2>1, <2>3 DEF TrayAnswer
    <2> QED
      BY <2>2, <2>3
  <1>4. ASSUME NEW n \in TrayName, register_item(n) PROVE Carried'
    <2>1. Claims(<<n>>, fetches) /\ present' = present \cup {n}
          /\ UNCHANGED <<known, snapshot, objectVars>>
      BY <1>4 DEF register_item
    <2>2. present' \subseteq TrayName /\ TrayBooks
      BY <2>1 DEF TrayInv, TrayBooks
    <2>3. \A m \in TrayName : /\ claimed[m] # 0 => claimed'[m] # 0
                              /\ m \in ToSet(<<n>>) /\ m \in present' => known'[m] # {} \/ claimed'[m] # 0
      BY <2>1, <2>2, ClaimsAre DEF objectVars
    <2>4. n \in ToSet(<<n>>) /\ UpTo(snapshot)' = UpTo(snapshot)
      BY <2>1 DEF ToSet, UpTo
    <2> QED
      BY <1>2, <2>1, <2>3, <2>4 DEF Carried
  <1>5. ASSUME NEW n \in TrayName, unregister_item(n) PROVE Carried'
    <2>1. /\ present' = present \ {n} /\ claimed' = [claimed EXCEPT ![n] = 0]
          /\ known' = [known EXCEPT ![n] = {}] /\ UpTo(snapshot)' = UpTo(snapshot)
      BY <1>5 DEF unregister_item, UpTo
    <2> QED
      BY <1>2, <2>1 DEF Carried, TrayInv, TrayBooks
  <1>6. CASE systray_hot_reload
    <2>1. /\ snapshot = <<>> /\ \A n \in TrayName : claimed[n] = 0
          /\ snapshot' = Names /\ present' = present
      BY <1>6 DEF systray_hot_reload
    <2>2. DOMAIN items = 1..Len(items) /\ Len(items) \in Nat /\ \A k \in 1..Len(items) : items[k] \in Trayed
      <3>1. DOMAIN items = 1..Len(items) /\ Len(items) \in Nat
        BY LenProperties DEF TrayInv, TrayShape
      <3> QED
        BY <3>1 DEF Trayed, ToSet
    <2>3. /\ Names \in Seq(TrayName \cup OwnNames) /\ Len(Names) = Len(items)
          /\ \A k \in 1..Len(items) : Names[k] = bus_name[items[k]] /\ Names[k] # NoName
      <3>1. \A k \in 1..Len(items) : bus_name[items[k]] \in TrayName \cup OwnNames
        BY <2>2 DEF TrayInv, TrayShape
      <3> QED
        BY <2>2, <3>1 DEF Names
    <2>4. UpTo(Names) = Names
      BY <2>3, NamesRead
    <2>5. ASSUME NEW n \in present PROVE Contains(Names, n)
      <3>1. UpTo(snapshot) = <<>> /\ ~Contains(<<>>, n)
        <4>1. snapshot \in Seq(TrayName \cup OwnNames \cup {NoName}) /\ Len(<<>>) = 0
          BY DEF TrayInv, TrayBooks
        <4>2. UpTo(snapshot) = <<>>
          BY <2>1, <4>1, NamesRead
        <4> QED
          BY <4>1, <4>2 DEF Contains
      <3>2. known[n] # {} /\ n \in TrayName
        BY <1>2, <2>1, <3>1 DEF Carried
      <3>3. PICK i \in Trayed : bus_name[i] = n
        BY <3>2 DEF OfNames, TrayOwned
      <3>4. PICK k \in 1..Len(items) : items[k] = i
        BY <2>2, <3>3 DEF Trayed, ToSet
      <3> QED
        BY <2>3, <3>3, <3>4 DEF Contains
    <2>6. UpTo(snapshot)' = Names
      <3>1. UpTo(snapshot)' = UpTo(snapshot')
        BY DEF UpTo
      <3> QED
        BY <2>1, <2>4, <3>1
    <2> QED
      BY <2>1, <2>5, <2>6 DEF Carried
  <1>7. CASE Reprobe
    <2>1. Claims(UpTo(snapshot), fetches) /\ snapshot' = <<>> /\ UNCHANGED <<known, present, objectVars>>
      BY <1>7 DEF Reprobe
    <2>2. TrayBooks
      BY DEF TrayInv
    <2>3. \A m \in TrayName : /\ claimed[m] # 0 => claimed'[m] # 0
                              /\ m \in ToSet(UpTo(snapshot)) /\ m \in present' => known'[m] # {} \/ claimed'[m] # 0
      BY <1>2, <2>1, <2>2, ClaimsAre DEF objectVars
    <2>4. \A m \in TrayName : Contains(UpTo(snapshot), m) => m \in ToSet(UpTo(snapshot))
      BY <2>2, NamesRead DEF TrayBooks
    <2> QED
      BY <1>2, <2>1, <2>3, <2>4 DEF Carried
  <1> QED
    BY <1>1, <1>3, <1>4, <1>5, <1>6, <1>7
    DEF SystrayNext, systray_item_allocator, UnregisterAny, RegisterOwn, NoPicture, NewPicture,
        systrayVars, bookVars

(* The tray of icons: who is listed is held and valid; a name of the bus has  *)
(* one icon at most and none once it has left, whatever order its             *)
(* announcements, withdrawals and late answers come in, if the configuration  *)
(* gives none of them to an item of its own (lua/awful/systray.lua:345); the  *)
(* widgets show the pictures as they are if memory is not refused; and a      *)
(* reload that comes when nothing is fetched loses no name (luaa.c:5732).     *)
THEOREM TrayIsKept ==
    SystraySpec => /\ []TrayListsTheLiving
                   /\ ~Starved => []TrayIsDrawn
                   /\ OwnNames \cap TrayName = {} => []OneIconPerName
                   /\ /\ OwnNames \cap TrayName = {} /\ NoName \notin OwnNames \cup TrayName
                      /\ ~Hurried
                      => []TrayOutlivesReload
  <1> DEFINE Apart == OwnNames \cap TrayName = {}
             Calm == Apart /\ NoName \notin OwnNames \cup TrayName /\ ~Hurried
             Whole == /\ TrayInv
                      /\ ~Starved => TrayPictures /\ TrayPainted
                      /\ Apart => OfNames
                      /\ Calm => Carried
  <1>1. SystrayInit => Whole
    <2> SUFFICES ASSUME SystrayInit PROVE Whole
      OBVIOUS
    <2>1. Trayed = {} /\ IsInjective(items)
      BY DEF SystrayInit, Trayed, ToSet, IsInjective
    <2>2. TrayShape /\ TrayBooks
      BY <2>1 DEF SystrayInit, TrayShape, TrayBooks
    <2>3. TrayPictures /\ TrayPainted
      BY DEF SystrayInit, TrayPictures, TrayPainted, TrayPicture
    <2>4. OfNames /\ Carried
      BY <2>1 DEF SystrayInit, OfNames, TrayOwned, Carried
    <2> QED
      BY <2>2, <2>3, <2>4 DEF TrayInv
  <1>2. Whole /\ [SystrayNext]_systrayVars => Whole'
    BY TrayKept, NamesKeepTheirItems, IconsAreDrawn, NamesAreCarried
  <1>3. Whole => /\ TrayListsTheLiving
                 /\ ~Starved => TrayIsDrawn
                 /\ Apart => OneIconPerName
                 /\ Calm => TrayOutlivesReload
    <2> SUFFICES ASSUME Whole
                 PROVE  /\ TrayListsTheLiving
                        /\ ~Starved => TrayIsDrawn
                        /\ Apart => OneIconPerName
                        /\ Calm => TrayOutlivesReload
      OBVIOUS
    <2>1. TrayListsTheLiving
      BY DEF TrayInv, TrayShape, TrayListsTheLiving, Heard
    <2>2. ~Starved => TrayIsDrawn
      BY DEF TrayInv, TrayShape, TrayPainted, TrayIsDrawn
    <2>3. ASSUME Apart, NEW n \in TrayName
          PROVE  /\ Cardinality({i \in Trayed : bus_name[i] = n}) <= 1
                 /\ n \notin present => \A i \in Trayed : bus_name[i] # n
      <3>1. /\ known[n] = TrayOwned(n) /\ \A i, j \in TrayOwned(n) : i = j
            /\ n \notin present => TrayOwned(n) = {}
        BY <2>3 DEF OfNames
      <3>2. TrayOwned(n) = {} \/ \E i : TrayOwned(n) = {i}
        BY <3>1
      <3>3. Cardinality(TrayOwned(n)) <= 1
        <4>1. CASE TrayOwned(n) = {}
          BY <4>1, FS_EmptySet
        <4>2. ASSUME NEW i, TrayOwned(n) = {i} PROVE Cardinality(TrayOwned(n)) <= 1
          <5>1. Cardinality({i}) = 1
            BY FS_Singleton
          <5> QED
            BY <4>2, <5>1
        <4> QED
          BY <3>2, <4>1, <4>2
      <3> QED
        BY <3>1, <3>3 DEF TrayOwned
    <2>4. Calm => TrayOutlivesReload
      BY DEF Carried, TrayOutlivesReload
    <2> QED
      BY <2>1, <2>2, <2>3, <2>4 DEF OneIconPerName
  <1>4. SystraySpec => []Whole
    BY <1>1, <1>2, PTL DEF SystraySpec
  <1>5. SystraySpec => []TrayListsTheLiving
    BY <1>3, <1>4, PTL
  <1>6. ~Starved => (SystraySpec => []TrayIsDrawn)
    <2> SUFFICES ASSUME ~Starved PROVE SystraySpec => []TrayIsDrawn
      OBVIOUS
    <2>1. Whole => TrayIsDrawn
      BY <1>3
    <2> QED
      BY <1>4, <2>1, PTL
  <1>7. Apart => (SystraySpec => []OneIconPerName)
    <2> SUFFICES ASSUME OwnNames \cap TrayName = {} PROVE SystraySpec => []OneIconPerName
      OBVIOUS
    <2>1. Whole => OneIconPerName
      BY <1>3
    <2> QED
      BY <1>4, <2>1, PTL
  <1>8. Calm => (SystraySpec => []TrayOutlivesReload)
    <2> SUFFICES ASSUME OwnNames \cap TrayName = {} /\ NoName \notin OwnNames \cup TrayName /\ ~Hurried
                 PROVE  SystraySpec => []TrayOutlivesReload
      OBVIOUS
    <2>1. Whole => TrayOutlivesReload
      BY <1>3
    <2> QED
      BY <1>4, <2>1, PTL
  <1> QED
    BY <1>5, <1>6, <1>7, <1>8

-----------------------------------------------------------------------------
(* The bus.  Who handles an interface is one function or none.              *)

Holders(f) == {i \in Interface : handler[i] = <<f>>}
DbusInv ==
    /\ DOMAIN handler = Interface
    /\ \A i \in Interface : handler[i] = <<>> \/ \E f \in Func : handler[i] = <<f>>
    /\ held = [f \in Func |-> Cardinality(Holders(f))]
    /\ \A f \in Func : IsFiniteSet(Holders(f))

LEMMA Connects ==
    ASSUME DbusInv, NEW i \in Interface, NEW g \in Func, handler[i] = <<>>,
           handler' = [handler EXCEPT ![i] = <<g>>], held' = [held EXCEPT ![g] = @ + 1]
    PROVE  DbusInv'
  <1>1. /\ DOMAIN handler' = Interface /\ handler'[i] = <<g>>
        /\ \A j \in Interface : j # i => handler'[j] = handler[j]
    BY DEF DbusInv
  <1>2. i \notin Holders(g) /\ Holders(g)' = Holders(g) \cup {i}
    BY <1>1 DEF Holders
  <1>3. \A f \in Func : f # g => Holders(f)' = Holders(f)
    BY <1>1 DEF Holders
  <1>4. /\ IsFiniteSet(Holders(g)') /\ Cardinality(Holders(g)') = Cardinality(Holders(g)) + 1
    <2>1. IsFiniteSet(Holders(g))
      BY DEF DbusInv
    <2>2. PICK S : S = Holders(g)
      OBVIOUS
    <2>3. IsFiniteSet(S \cup {i}) /\ Cardinality(S \cup {i}) = Cardinality(S) + 1
      BY <1>2, <2>1, <2>2, FS_AddElement
    <2> QED
      BY <1>2, <2>2, <2>3
  <1>5. \A f \in Func : held'[f] = Cardinality(Holders(f)') /\ IsFiniteSet(Holders(f)')
    BY <1>3, <1>4 DEF DbusInv
  <1>6. held' = [f \in Func |-> Cardinality(Holders(f)')]
    BY <1>5 DEF DbusInv
  <1>7. \A j \in Interface : handler'[j] = <<>> \/ \E f \in Func : handler'[j] = <<f>>
    BY <1>1 DEF DbusInv
  <1> QED
    BY <1>1, <1>5, <1>6, <1>7 DEF DbusInv

LEMMA Disconnects ==
    ASSUME DbusInv, NEW i \in Interface, NEW g \in Func, handler[i] = <<g>>,
           handler' = [handler EXCEPT ![i] = <<>>], held' = LetGo(g)
    PROVE  DbusInv'
  <1>1. /\ DOMAIN handler' = Interface /\ handler'[i] = <<>>
        /\ \A j \in Interface : j # i => handler'[j] = handler[j]
    BY DEF DbusInv
  <1>2. i \in Holders(g) /\ Holders(g)' = Holders(g) \ {i}
    BY <1>1 DEF Holders
  <1>3. \A f \in Func : f # g => Holders(f)' = Holders(f)
    BY <1>1 DEF Holders
  <1>4. /\ IsFiniteSet(Holders(g)') /\ Cardinality(Holders(g)') = Cardinality(Holders(g)) - 1
    <2>1. IsFiniteSet(Holders(g))
      BY DEF DbusInv
    <2>2. PICK S : S = Holders(g)
      OBVIOUS
    <2>3. IsFiniteSet(S \ {i}) /\ Cardinality(S \ {i}) = Cardinality(S) - 1
      BY <1>2, <2>1, <2>2, FS_RemoveElement
    <2> QED
      BY <1>2, <2>2, <2>3
  <1>5. \A f \in Func : held'[f] = Cardinality(Holders(f)') /\ IsFiniteSet(Holders(f)')
    BY <1>3, <1>4 DEF DbusInv, LetGo
  <1>6. held' = [f \in Func |-> Cardinality(Holders(f)')]
    BY <1>5 DEF DbusInv, LetGo
  <1>7. \A j \in Interface : handler'[j] = <<>> \/ \E f \in Func : handler'[j] = <<f>>
    BY <1>1 DEF DbusInv
  <1> QED
    BY <1>1, <1>5, <1>6, <1>7 DEF DbusInv

LEMMA NextBus == DbusInv /\ [DbusNext]_dbusVars => DbusInv'
  <1> SUFFICES ASSUME DbusInv, [DbusNext]_dbusVars PROVE DbusInv'
    OBVIOUS
  <1>1. CASE UNCHANGED <<handler, held>>
    BY <1>1 DEF DbusInv, Holders
  <1>2. CASE UNCHANGED dbusVars
    BY <1>1, <1>2 DEF dbusVars
  <1>3. ASSUME NEW i \in Interface, NEW f \in Func, luaA_dbus_connect_signal(i, f)
        PROVE  DbusInv'
    BY <1>3, Connects DEF luaA_dbus_connect_signal
  <1>4. ASSUME NEW i \in Interface, NEW f \in Func, luaA_dbus_disconnect_signal(i, f)
        PROVE  DbusInv'
    BY <1>4, Disconnects DEF luaA_dbus_disconnect_signal
  <1>5. CASE a_dbus_hot_reload
    <2>1. handler' = [i \in Interface |-> <<>>]
      BY <1>5 DEF a_dbus_hot_reload
    <2>2. \A f : Holders(f)' = {}
      BY <2>1 DEF Holders
    <2>3. held' = [f \in Func |-> held[f] - Cardinality(Holders(f))]
      BY <1>5 DEF a_dbus_hot_reload, Holders
    <2>4. \A f \in Func : Cardinality(Holders(f)) \in Nat
      BY FS_CardinalityType DEF DbusInv
    <2>5. held' = [f \in Func |-> 0]
      BY <2>3, <2>4 DEF DbusInv
    <2>6. \A f \in Func : Cardinality(Holders(f)') = 0 /\ IsFiniteSet(Holders(f)')
      BY <2>2, FS_EmptySet
    <2>7. held' = [f \in Func |-> Cardinality(Holders(f)')]
      BY <2>5, <2>6
    <2> QED
      BY <2>1, <2>6, <2>7 DEF DbusInv
  <1>6. ASSUME NEW i \in Interface, NEW b, NEW wants, NEW drops, NEW v,
               a_dbus_process_request(i, b, wants, v, drops)
        PROVE  DbusInv'
    <2>1. CASE drops
      <3>1. /\ handler[i] # <<>> /\ held' = LetGo(handler[i][1])
            /\ handler' = [handler EXCEPT ![i] = <<>>]
        BY <1>6, <2>1 DEF a_dbus_process_request
      <3>2. PICK g \in Func : handler[i] = <<g>>
        BY <3>1 DEF DbusInv
      <3>3. handler[i][1] = g
        BY <3>2
      <3> QED
        BY <3>1, <3>2, <3>3, Disconnects
    <2>2. CASE ~drops
      BY <1>1, <1>6, <2>2 DEF a_dbus_process_request
    <2> QED
      BY <2>1, <2>2
  <1>7. CASE \/ a_dbus_init \/ luaA_dbus_request_name \/ luaA_dbus_release_name
             \/ a_dbus_cleanup_bus \/ Done \/ \E v \in Result : luaA_dbus_emit_signal(v)
    BY ZenonT(30), <1>1, <1>7
       DEF a_dbus_init, luaA_dbus_request_name, luaA_dbus_release_name,
           a_dbus_cleanup_bus, Done, luaA_dbus_emit_signal
  <1> QED
    BY <1>2, <1>3, <1>4, <1>5, <1>6, <1>7 DEF DbusNext

(* A function is referenced in the Lua state as often as it handles an      *)
(* interface, whatever connects, drops itself, reloads or disconnects, for   *)
(* any interfaces and functions (dbus.c: luaA_dbus_connect_signal).          *)
THEOREM BusHoldsHandlers == DbusSpec => []HandlersHeld
  <1>1. DbusInit => DbusInv
    <2> SUFFICES ASSUME DbusInit PROVE DbusInv
      OBVIOUS
    <2>1. \A f : Holders(f) = {}
      BY DEF DbusInit, Holders
    <2>2. \A f \in Func : Cardinality(Holders(f)) = 0 /\ IsFiniteSet(Holders(f))
      BY <2>1, FS_EmptySet
    <2>3. held = [f \in Func |-> Cardinality(Holders(f))]
      BY <2>2 DEF DbusInit
    <2> QED
      BY <2>2, <2>3 DEF DbusInit, DbusInv
  <1>2. DbusInv => HandlersHeld
    BY DEF DbusInv, HandlersHeld, Holders
  <1> QED
    BY <1>1, <1>2, NextBus, PTL DEF DbusSpec

-----------------------------------------------------------------------------
(* Signals.  An emission that runs has its arguments at the bottom of its     *)
(* stack and above them the functions that are due, so that the index from    *)
(* the top that the code counts with names each in turn (Going).              *)

\* Where a step leads from each to the next, all are reached.
LEMMA Climbs ==
    ASSUME NEW T, NEW a \in Nat, NEW b \in Nat, a \in T,
           \A n \in a..b : n \in T /\ n < b => n + 1 \in T
    PROVE  \A n \in a..b : n \in T
  <1>1. PICK Un : Un = (a..b) \ T
    OBVIOUS
  <1>2. SUFFICES ASSUME Un # {} PROVE FALSE
    BY <1>1
  <1>3. PICK R : R = OpToRel(<, Nat)
    OBVIOUS
  <1>4. IsWellFoundedOn(R, Nat)
    BY <1>3, NatLessThanWellFounded
  <1>5. \A m, n \in Nat : <<m, n>> \in R <=> m < n
    BY <1>3 DEF OpToRel
  <1>6. Un \subseteq Nat
    BY <1>1
  <1>7. PICK n \in Un : \A m \in Un : ~(<<m, n>> \in R)
    BY <1>2, <1>4, <1>6, WFMin
  <1>8. n \in a..b /\ n \notin T /\ n # a
    BY <1>1, <1>7
  <1>9. n - 1 \in a..b /\ n - 1 < n /\ n - 1 \in Nat /\ n \in Nat /\ n - 1 < b
    BY <1>8
  <1>10. n - 1 \notin Un
    BY <1>7, <1>9, <1>5
  <1>11. n - 1 + 1 \in T
    BY <1>1, <1>9, <1>10
  <1> QED
    BY <1>8, <1>9, <1>11

LEMMA PartOf ==
    ASSUME NEW D, NEW s \in Seq(D), NEW a \in 1..Len(s) + 1, NEW b \in 0..Len(s), a <= b + 1
    PROVE  /\ SubSeq(s, a, b) \in Seq(D) /\ Len(SubSeq(s, a, b)) = b - a + 1
           /\ \A k \in 1..b - a + 1 : SubSeq(s, a, b)[k] = s[a + k - 1]
  <1>1. Len(s) \in Nat
    BY LenProperties
  <1>2. a \in Int /\ b \in Int /\ \A k \in a..b : k \in 1..Len(s)
    BY <1>1
  <1>3. \A k \in a..b : s[k] \in D
    BY <1>2, ElementOfSeq
  <1>4. PICK u : u = SubSeq(s, a, b)
    OBVIOUS
  <1>5. /\ u \in Seq(D) /\ Len(u) = IF a <= b THEN b - a + 1 ELSE 0
        /\ \A k \in 1..b - a + 1 : u[k] = s[a + k - 1]
    BY <1>2, <1>3, <1>4, SubSeqProperties
  <1>6. a <= b \/ b - a + 1 = 0
    BY <1>1
  <1> QED
    BY <1>4, <1>5, <1>6

LEMMA Same ==
    ASSUME NEW D, NEW s \in Seq(D), NEW t \in Seq(D), Len(s) = Len(t),
           \A k \in 1..Len(s) : s[k] = t[k]
    PROVE  s = t
  BY SeqEqual

\* Sequences of a length, and what is made of them, as the next lemmas speak of them.
Long(D, s, a) == s \in Seq(D) /\ Len(s) = a
Cat(s, t)      == s \o t
Pile(s, x)     == Append(s, x)
Less(s, i)     == RemoveAt(s, i)
Slice(s, d, c) == SubSeq(s, d + 1, d + c)

LEMMA LongCat ==
    ASSUME NEW D, NEW s, NEW t, NEW a \in Nat, NEW b \in Nat, Long(D, s, a), Long(D, t, b)
    PROVE  /\ Long(D, Cat(s, t), a + b)
           /\ \A k \in 1..a : Cat(s, t)[k] = s[k]
           /\ \A k \in 1..b : Cat(s, t)[a + k] = t[k]
  <1>1. s \in Seq(D) /\ t \in Seq(D) /\ Len(s) = a /\ Len(t) = b
    BY DEF Long
  <1>2. PICK u : u = s \o t
    OBVIOUS
  <1>3. /\ u \in Seq(D) /\ Len(u) = Len(s) + Len(t)
        /\ \A k \in 1..Len(s) + Len(t) : u[k] = IF k <= Len(s) THEN s[k] ELSE t[k - Len(s)]
    BY <1>1, <1>2, ConcatProperties
  <1>4. u = Cat(s, t)
    BY <1>2 DEF Cat
  <1>5. \A k \in 1..a : u[k] = s[k]
    BY <1>1, <1>3
  <1>6. ASSUME NEW k \in 1..b PROVE u[a + k] = t[k]
    <2>1. a + k \in 1..a + b /\ ~(a + k <= a) /\ a + k - a = k
      OBVIOUS
    <2> QED
      BY <1>1, <1>3, <2>1
  <1>7. Long(D, u, a + b)
    BY <1>1, <1>3 DEF Long
  <1> QED
    BY <1>4, <1>5, <1>6, <1>7

LEMMA LongPut ==
    ASSUME NEW D, NEW s, NEW x \in D, NEW a \in Nat, Long(D, s, a)
    PROVE  /\ Long(D, Pile(s, x), a + 1) /\ Pile(s, x)[a + 1] = x
           /\ \A k \in 1..a : Pile(s, x)[k] = s[k]
  <1>1. s \in Seq(D) /\ Len(s) = a
    BY DEF Long
  <1>2. PICK u : u = Append(s, x)
    OBVIOUS
  <1>3. /\ u \in Seq(D) /\ Len(u) = Len(s) + 1 /\ u[Len(s) + 1] = x
        /\ \A k \in 1..Len(s) : u[k] = s[k]
    BY <1>1, <1>2, AppendProperties
  <1>4. u = Pile(s, x)
    BY <1>2 DEF Pile
  <1> QED
    BY <1>1, <1>3, <1>4 DEF Long

LEMMA LongDrop ==
    ASSUME NEW D, NEW s, NEW a \in Nat, Long(D, s, a), NEW i \in 1..a
    PROVE  /\ Long(D, Less(s, i), a - 1)
           /\ \A k \in 1..(i - 1) : Less(s, i)[k] = s[k]
           /\ \A k \in i..(a - 1) : Less(s, i)[k] = s[k + 1]
  <1>1. s \in Seq(D) /\ Len(s) = a /\ i \in 1..Len(s)
    BY DEF Long
  <1>2. PICK u : u = RemoveAt(s, i)
    OBVIOUS
  <1>3. /\ u \in Seq(D) /\ Len(u) = Len(s) - 1
        /\ \A j \in 1..(Len(s) - 1) : u[j] = IF j < i THEN s[j] ELSE s[j + 1]
    BY <1>1, <1>2, RemovedAt
  <1>4. u = Less(s, i)
    BY <1>2 DEF Less
  <1>5. \A k \in 1..(i - 1) : k \in 1..(a - 1) /\ k < i
    OBVIOUS
  <1>6. \A k \in i..(a - 1) : k \in 1..(a - 1) /\ ~(k < i)
    OBVIOUS
  <1> QED
    BY <1>1, <1>3, <1>4, <1>5, <1>6 DEF Long

LEMMA LongCut ==
    ASSUME NEW D, NEW s, NEW a \in Nat, Long(D, s, a), NEW d \in Nat, NEW c \in Nat, d + c <= a
    PROVE  Long(D, Slice(s, d, c), c) /\ \A k \in 1..c : Slice(s, d, c)[k] = s[d + k]
  <1>1. s \in Seq(D) /\ Len(s) = a
    BY DEF Long
  <1>2. PICK p, q : p = d + 1 /\ q = d + c
    OBVIOUS
  <1>3. p \in 1..Len(s) + 1 /\ q \in 0..Len(s) /\ p <= q + 1 /\ q - p + 1 = c
    BY <1>1, <1>2
  <1>4. PICK u : u = SubSeq(s, p, q)
    OBVIOUS
  <1>5. u \in Seq(D) /\ Len(u) = q - p + 1 /\ \A k \in 1..q - p + 1 : u[k] = s[p + k - 1]
    BY <1>1, <1>3, <1>4, PartOf
  <1>6. u = Slice(s, d, c)
    BY <1>2, <1>4 DEF Slice
  <1>7. \A k \in 1..c : p + k - 1 = d + k
    BY <1>2
  <1> QED
    BY <1>3, <1>5, <1>6, <1>7 DEF Long

LEMMA LongSame ==
    ASSUME NEW D, NEW a \in Nat, NEW s, NEW t, Long(D, s, a), Long(D, t, a),
           \A k \in 1..a : s[k] = t[k]
    PROVE  s = t
  BY Same DEF Long

LEMMA LongItem ==
    ASSUME NEW D, NEW s, NEW a \in Nat, Long(D, s, a), NEW k \in 1..a
    PROVE  s[k] \in D
  BY ElementOfSeq DEF Long

Piece == Thing \cup Slot \cup (Thing \X Nat)
Going ==
    {e \in [on : Thing, args : Seq(Piece), stack : Seq(Piece), n : Nat, m : Nat, i : Nat,
            busy : BOOLEAN, did : Nat, due : Seq(Slot),
            called : {NoFunc} \cup (Slot \X Seq(Piece)), then : Slot \cup {NoFunc}] :
       /\ e.n = Len(e.args) /\ e.m = Len(e.due) /\ e.i <= e.m
       /\ e.stack = e.args \o SubSeq(e.due, e.i + 1, e.m)
       /\ e.busy => /\ e.i > 0
                    /\ e.called = <<e.due[e.i],
                                    IF e.on \in Objects THEN <<e.on>> \o e.args ELSE e.args>>}

LEMMA OneOfThree ==
    ASSUME NEW l \in Nat, NEW j \in Nat, NEW k \in 1..(l + j)
    PROVE  k \in 1..l \/ (k \notin 1..l /\ k < l + j) \/ k = l + j
  OBVIOUS

\* The arguments are copied one by one: while the stack grows, the same index from
\* the top names the next of them.
LEMMA Copied ==
    ASSUME NEW args \in Seq(Piece), NEW base \in Seq(Piece), NEW n \in Nat, NEW idx \in Int,
           n = Len(args), n <= Len(base), idx = -Len(base),
           \A k \in 1..n : base[k] = args[k]
    PROVE  CopiesOf(base, n, idx) = base \o args
  <1>1. PICK w : w = [j \in 0..n |-> base \o SubSeq(args, 1, j)]
    OBVIOUS
  <1>2. PICK l \in Nat : l = Len(base)
    BY LenProperties
  <1>3. ASSUME NEW j \in 0..n
        PROVE  /\ w[j] \in Seq(Piece) /\ Len(w[j]) = l + j
               /\ \A k \in 1..l : w[j][k] = base[k]
               /\ \A k \in 1..j : w[j][l + k] = args[k]
    <2>1. PICK p : p = SubSeq(args, 1, j)
      OBVIOUS
    <2>2. 1 \in 1..Len(args) + 1 /\ j \in 0..Len(args) /\ 1 <= j + 1 /\ j - 1 + 1 = j
      OBVIOUS
    <2>3. p \in Seq(Piece) /\ Len(p) = j /\ \A k \in 1..j : p[k] = args[1 + k - 1]
      BY <2>1, <2>2, PartOf
    <2>4. \A k \in 1..j : p[k] = args[k]
      BY <2>3
    <2>5. w[j] = base \o p
      BY <1>1, <2>1
    <2>6. PICK v : v = w[j]
      OBVIOUS
    <2>7. /\ v \in Seq(Piece) /\ Len(v) = l + j
          /\ \A k \in 1..l : v[k] = base[k]
          /\ \A k \in 1..j : v[l + k] = p[k]
      <3>1. Long(Piece, base, l) /\ Long(Piece, p, j) /\ v = Cat(base, p)
        BY <1>2, <2>3, <2>5, <2>6 DEF Long, Cat
      <3>2. /\ Long(Piece, v, l + j)
            /\ \A k \in 1..l : v[k] = base[k]
            /\ \A k \in 1..j : v[l + k] = p[k]
        BY <3>1, LongCat
      <3> QED
        BY <3>2 DEF Long
    <2> QED
      BY <2>4, <2>6, <2>7
  <1>4. ASSUME NEW j \in 1..n PROVE w[j] = Append(w[j - 1], FromTop(w[j - 1], idx))
    <2>1. j - 1 \in 0..n /\ j \in 0..n /\ j \in 1..l
      BY <1>2
    <2>2. PICK v : v = w[j - 1]
      OBVIOUS
    <2>3. /\ v \in Seq(Piece) /\ Len(v) = l + j - 1
          /\ \A k \in 1..l : v[k] = base[k]
          /\ \A k \in 1..j - 1 : v[l + k] = args[k]
      BY <1>3, <2>1, <2>2
    <2>4. FromTop(v, idx) = args[j]
      <3>1. Len(v) + 1 + idx = j
        BY <1>2, <2>3
      <3> QED
        BY <2>1, <2>3, <3>1 DEF FromTop
    <2>5. PICK u : u = Append(v, args[j])
      OBVIOUS
    <2>6. args[j] \in Piece
      BY ElementOfSeq
    <2>7. /\ u \in Seq(Piece) /\ Len(u) = l + j
          /\ \A k \in 1..(l + j - 1) : u[k] = v[k]
          /\ u[l + j] = args[j]
      <3>1. /\ u \in Seq(Piece) /\ Len(u) = Len(v) + 1
            /\ \A k \in 1..Len(v) : u[k] = v[k] /\ u[Len(v) + 1] = args[j]
        BY <2>3, <2>5, <2>6, AppendProperties
      <3>2. u[Len(v) + 1] = args[j]
        BY <2>3, <2>5, <2>6, AppendProperties
      <3>3. Len(v) + 1 = l + j
        BY <2>3
      <3> QED
        BY <2>3, <3>1, <3>2, <3>3
    <2>8. PICK y : y = w[j]
      OBVIOUS
    <2>9. /\ y \in Seq(Piece) /\ Len(y) = l + j
          /\ \A k \in 1..l : y[k] = base[k]
          /\ \A k \in 1..j : y[l + k] = args[k]
      BY <1>3, <2>1, <2>8
    <2>10. ASSUME NEW k \in 1..(l + j) PROVE y[k] = u[k]
      <3>1. CASE k \in 1..l
        BY <2>3, <2>7, <2>9, <3>1
      <3>2. CASE k \notin 1..l /\ k < l + j
        <4>1. PICK q \in 1..j - 1 : k = l + q
          <5>1. k - l \in 1..j - 1 /\ k = l + (k - l)
            BY <3>2
          <5> QED
            BY <5>1
        <4>2. q \in 1..j /\ k \in 1..(l + j - 1)
          BY <4>1, <3>2
        <4> QED
          BY <2>3, <2>7, <2>9, <4>1, <4>2
      <3>3. CASE k = l + j
        BY <2>7, <2>9, <3>3
      <3>4. k \in 1..l \/ (k \notin 1..l /\ k < l + j) \/ k = l + j
        BY OneOfThree
      <3> QED
        BY <3>1, <3>2, <3>3, <3>4
    <2>11. y = u
      BY <2>7, <2>9, <2>10, Same
    <2> QED
      BY <2>2, <2>4, <2>5, <2>8, <2>11
  <1>5. w[0] = base
    <2>1. SubSeq(args, 1, 0) = <<>>
      BY SubSeqEmpty
    <2> QED
      BY <1>1, <2>1, ConcatEmptySeq
  <1>6. w = [j \in 0..n |-> IF j = 0 THEN base ELSE Append(w[j - 1], FromTop(w[j - 1], idx))]
    <2>1. \A j \in 0..n : w[j] = IF j = 0 THEN base ELSE Append(w[j - 1], FromTop(w[j - 1], idx))
      <3>1. \A j \in 0..n : j = 0 \/ j \in 1..n
        OBVIOUS
      <3> QED
        BY <1>4, <1>5, <3>1
    <2> QED
      BY <1>1, <2>1
  <1>0. PICK g : g = CHOOSE h : h = [j \in 0..n |-> IF j = 0 THEN base
                                         ELSE Append(h[j - 1], FromTop(h[j - 1], idx))]
    OBVIOUS
  <1>7. g = [j \in 0..n |-> IF j = 0 THEN base ELSE Append(g[j - 1], FromTop(g[j - 1], idx))]
    BY <1>0, <1>6
  <1>8. PICK T : T = {j \in 0..n : g[j] = w[j]}
    OBVIOUS
  <1>9. 0 \in T
    BY <1>5, <1>7, <1>8
  <1>10. ASSUME NEW j \in 0..n, j \in T, j < n PROVE j + 1 \in T
    <2>1. PICK k : k = j + 1
      OBVIOUS
    <2>2. k \in 1..n /\ k \in 0..n /\ k # 0 /\ k - 1 = j
      BY <1>10, <2>1
    <2>3. g[k] = Append(g[k - 1], FromTop(g[k - 1], idx))
      BY <1>7, <2>2
    <2>4. w[k] = Append(w[k - 1], FromTop(w[k - 1], idx))
      BY <1>4, <2>2
    <2>5. g[j] = w[j]
      BY <1>8, <1>10
    <2>6. g[k] = w[k]
      BY <2>2, <2>3, <2>4, <2>5
    <2> QED
      BY <1>8, <2>1, <2>2, <2>6
  <1>11. n \in T
    <2>1. \A j \in 0..n : j \in T /\ j < n => j + 1 \in T
      BY <1>10
    <2>2. \A j \in 0..n : j \in T
      BY <1>9, <2>1, Climbs
    <2> QED
      BY <2>2
  <1>12. SubSeq(args, 1, n) = args
    BY SubSeqFull
  <1>13. g[n] = base \o args
    BY <1>1, <1>8, <1>11, <1>12
  <1>14. CopiesOf(base, n, idx) = g[n]
    BY <1>0 DEF CopiesOf
  <1> QED
    BY <1>13, <1>14

\* The stack while the next function is made ready: above what was there, the object
\* if there is one and the arguments again, and then the function, taken from below.
Counted(n, r, own, l, p) ==
    /\ n \in Nat /\ r \in Nat /\ own \in {0, 1} /\ l \in Nat /\ p \in Nat
    /\ r > 0 /\ l = n + r + own /\ p = n + 1
Piled(args, rest, self, own, p, stack, base, copied, all, laid) ==
    /\ stack = Cat(args, rest)
    /\ base = IF own = 1 THEN Pile(stack, self) ELSE stack
    /\ copied = Cat(base, args) /\ all = Pile(copied, rest[1]) /\ laid = Less(all, p)
GivenFrom(laid, n, own, l, low, passed) ==
    low = Slice(laid, 0, l + n - 1) /\ passed = Slice(low, l - 1 - own, n + own)
LeftFrom(laid, n, r, spare) == spare = Slice(laid, 0, n + r - 1)
IsReady(D, args, rest, self, n, r, own, l, laid) ==
    /\ Long(D, args, n) /\ Long(D, rest, r) /\ self \in D /\ Counted(n, r, own, l, n + 1)
    /\ Long(D, laid, l + n) /\ laid[l + n] = rest[1]
    /\ \A k \in 1..n : laid[k] = args[k]
    /\ \A k \in 1..(r - 1) : laid[n + k] = rest[1 + k]
    /\ \A k \in 1..n : laid[l - 1 + k] = args[k]
    /\ own = 1 => laid[l - 1] = self

LEMMA MadeReady ==
    ASSUME NEW D, NEW args, NEW rest, NEW self \in D, NEW n, NEW r, NEW own, NEW l, NEW p,
           Counted(n, r, own, l, p), Long(D, args, n), Long(D, rest, r),
           NEW stack, NEW base, NEW copied, NEW all, NEW laid,
           Piled(args, rest, self, own, p, stack, base, copied, all, laid)
    PROVE  /\ Long(D, base, l) /\ \A k \in 1..n : base[k] = args[k]
           /\ Long(D, copied, l + n) /\ copied[p] = rest[1]
           /\ Long(D, all, l + n + 1)
           /\ IsReady(D, args, rest, self, n, r, own, l, laid)
  <1>0. /\ n \in Nat /\ r \in Nat /\ own \in {0, 1} /\ l \in Nat /\ p \in Nat
        /\ r > 0 /\ l = n + r + own /\ p = n + 1
    BY DEF Counted
  <1>a. /\ stack = Cat(args, rest)
        /\ base = IF own = 1 THEN Pile(stack, self) ELSE stack
        /\ copied = Cat(base, args) /\ all = Pile(copied, rest[1]) /\ laid = Less(all, p)
    BY DEF Piled
  <1> USE <1>0, <1>a
  <1>1. /\ Long(D, stack, n + r)
        /\ \A k \in 1..n : stack[k] = args[k]
        /\ \A k \in 1..r : stack[n + k] = rest[k]
    BY LongCat
  <1>2. n + r \in Nat /\ 1 \in 1..r
    OBVIOUS
  <1>3. /\ Long(D, base, l)
        /\ \A k \in 1..(n + r) : base[k] = stack[k]
        /\ own = 1 => base[n + r + 1] = self
    <2>1. CASE own = 1
      <3>1. base = Pile(stack, self) /\ l = n + r + 1
        BY <2>1
      <3>2. /\ Long(D, base, n + r + 1) /\ base[n + r + 1] = self
            /\ \A k \in 1..(n + r) : base[k] = stack[k]
        BY <1>1, <1>2, <3>1, LongPut
      <3> QED
        BY <3>1, <3>2
    <2>2. CASE own = 0
      <3>1. base = stack /\ l = n + r
        BY <2>2
      <3> QED
        BY <1>1, <2>2, <3>1
    <2> QED
      BY <2>1, <2>2
  <1>4. /\ Long(D, copied, l + n)
        /\ \A k \in 1..l : copied[k] = base[k]
        /\ \A k \in 1..n : copied[l + k] = args[k]
    BY <1>3, LongCat
  <1>5. rest[1] \in D
    BY <1>2, LongItem
  <1>6. PICK h \in Nat, g \in Nat, i \in Nat : h = l + n /\ g = h + 1 /\ i = n + 1 /\ i \in 1..g
    OBVIOUS
  <1>7. /\ Long(D, all, h + 1) /\ all[h + 1] = rest[1]
        /\ \A k \in 1..h : all[k] = copied[k]
    <2>1. Long(D, copied, h)
      BY <1>4, <1>6
    <2> QED
      BY <1>5, <2>1, LongPut
  <1>8. /\ Long(D, laid, g - 1)
        /\ \A k \in 1..(i - 1) : laid[k] = all[k]
        /\ \A k \in i..(g - 1) : laid[k] = all[k + 1]
    <2>1. Long(D, all, g) /\ laid = Less(all, i)
      BY <1>6, <1>7
    <2>2. /\ Long(D, Less(all, i), g - 1)
          /\ \A k \in 1..(i - 1) : Less(all, i)[k] = all[k]
          /\ \A k \in i..(g - 1) : Less(all, i)[k] = all[k + 1]
      <3>1. i \in 1..g
        BY <1>6
      <3> QED
        BY <2>1, <3>1, LongDrop
    <2> QED
      BY <2>1, <2>2
  <1>9. ASSUME NEW k \in 1..n PROVE laid[k] = args[k] /\ base[k] = args[k]
    <2>1. k \in 1..(i - 1) /\ k \in 1..h /\ k \in 1..l /\ k \in 1..(n + r)
      BY <1>6
    <2>2. laid[k] = all[k] /\ all[k] = copied[k] /\ copied[k] = base[k] /\ base[k] = stack[k]
      BY <1>3, <1>4, <1>7, <1>8, <2>1
    <2> QED
      BY <1>1, <2>2
  <1>10. ASSUME NEW k \in 1..(r - 1) PROVE laid[n + k] = rest[1 + k]
    <2>1. PICK q \in Nat, v \in Nat : q = n + k /\ v = 1 + k
      OBVIOUS
    <2>2. /\ q \in i..(g - 1) /\ q + 1 \in 1..h /\ q + 1 \in 1..l /\ q + 1 \in 1..(n + r)
          /\ q + 1 = n + v /\ v \in 1..r
      BY <1>6, <2>1
    <2>3. /\ laid[q] = all[q + 1] /\ all[q + 1] = copied[q + 1]
          /\ copied[q + 1] = base[q + 1] /\ base[q + 1] = stack[q + 1]
      BY <1>3, <1>4, <1>7, <1>8, <2>2
    <2>4. stack[n + v] = rest[v]
      BY <1>1, <2>2
    <2> QED
      BY <2>1, <2>2, <2>3, <2>4
  <1>11. ASSUME NEW k \in 1..n PROVE laid[l - 1 + k] = args[k]
    <2>1. PICK q \in Nat : q = l - 1 + k
      OBVIOUS
    <2>2. q \in i..(g - 1) /\ q + 1 \in 1..h /\ q + 1 = l + k
      BY <1>6, <2>1
    <2>3. laid[q] = all[q + 1] /\ all[q + 1] = copied[q + 1]
      BY <1>7, <1>8, <2>2
    <2>4. copied[l + k] = args[k]
      BY <1>4
    <2> QED
      BY <2>1, <2>2, <2>3, <2>4
  <1>12. ASSUME own = 1 PROVE laid[l - 1] = self
    <2>1. PICK q \in Nat : q = l - 1
      OBVIOUS
    <2>2. q \in i..(g - 1) /\ q + 1 \in 1..h /\ q + 1 \in 1..l /\ q + 1 = n + r + 1
      BY <1>6, <1>12, <2>1
    <2>3. laid[q] = all[q + 1] /\ all[q + 1] = copied[q + 1] /\ copied[q + 1] = base[q + 1]
      BY <1>4, <1>7, <1>8, <2>2
    <2>4. base[n + r + 1] = self
      BY <1>3, <1>12
    <2> QED
      BY <2>1, <2>2, <2>3, <2>4
  <1>13. laid[l + n] = rest[1] /\ Long(D, laid, l + n) /\ Long(D, all, l + n + 1)
    <2>1. h \in i..(g - 1) /\ g - 1 = h
      BY <1>6
    <2>2. laid[h] = all[h + 1]
      BY <1>8, <2>1
    <2> QED
      BY <1>6, <1>7, <1>8, <2>1, <2>2
  <1>14. copied[p] = rest[1]
    <2>1. n + 1 \in 1..l /\ n + 1 \in 1..(n + r)
      OBVIOUS
    <2>2. copied[n + 1] = base[n + 1] /\ base[n + 1] = stack[n + 1]
      BY <1>3, <1>4, <2>1
    <2>3. stack[n + 1] = rest[1]
      BY <1>1, <1>2
    <2> QED
      BY <2>2, <2>3
  <1> QED
    <2>1. IsReady(D, args, rest, self, n, r, own, l, laid)
      BY <1>9, <1>10, <1>11, <1>12, <1>13 DEF IsReady, Counted
    <2> QED
      BY <1>3, <1>4, <1>9, <1>13, <1>14, <2>1

\* What the function is given: the top of that stack, without the function.
LEMMA GivenTo ==
    ASSUME NEW D, NEW args, NEW rest, NEW laid, NEW self, NEW n, NEW r, NEW own, NEW l,
           IsReady(D, args, rest, self, n, r, own, l, laid),
           NEW low, NEW passed, GivenFrom(laid, n, own, l, low, passed)
    PROVE  /\ Long(D, low, l + n - 1) /\ Long(D, passed, n + own)
           /\ passed = IF own = 1 THEN Cat(<<self>>, args) ELSE args
  <1>0. /\ l > own /\ Long(D, args, n) /\ Long(D, laid, l + n) /\ self \in D
        /\ \A k \in 1..n : laid[l - 1 + k] = args[k]
        /\ own = 1 => laid[l - 1] = self
        /\ n \in Nat /\ l \in Nat /\ own \in {0, 1}
    BY DEF IsReady, Counted
  <1> USE <1>0
  <1>1. PICK h \in Nat, g \in Nat, c \in Nat, d \in Nat :
           /\ h = l + n /\ g = h - 1 /\ c = n + own /\ d = l - 1 - own /\ d + c = g
           /\ low = Slice(laid, 0, g) /\ passed = Slice(low, d, c)
    <2>1. PICK g \in Nat, c \in Nat, d \in Nat : g = l + n - 1 /\ c = n + own /\ d = l - 1 - own
      OBVIOUS
    <2>2. low = Slice(laid, 0, g) /\ passed = Slice(low, d, c)
      BY <2>1 DEF GivenFrom
    <2> QED
      BY <2>1, <2>2
  <1>2. Long(D, low, g) /\ \A k \in 1..g : low[k] = laid[0 + k]
    <2>1. 0 + g <= h /\ Long(D, laid, h) /\ 0 \in Nat /\ low = Slice(laid, 0, g)
      BY <1>0, <1>1
    <2> QED
      BY <2>1, LongCut
  <1>3. Long(D, passed, c) /\ \A k \in 1..c : passed[k] = low[d + k]
    <2>1. d + c <= g /\ passed = Slice(low, d, c)
      BY <1>1
    <2>2. Long(D, Slice(low, d, c), c) /\ \A k \in 1..c : Slice(low, d, c)[k] = low[d + k]
      <3> HIDE <1>0
      <3> QED
        BY <1>2, <2>1, LongCut
    <2> QED
      BY <2>1, <2>2
  <1>4. ASSUME NEW k \in 1..c PROVE passed[k] = laid[d + k]
    <2>1. d + k \in 1..g /\ 0 + (d + k) = d + k
      BY <1>1
    <2> QED
      BY <1>2, <1>3, <2>1
  <1>5. CASE own = 1
    <2>1. PICK o : o = <<self>>
      OBVIOUS
    <2>2. Long(D, o, 1) /\ o[1] = self /\ 1 \in Nat
      BY <2>1 DEF Long
    <2>3. PICK y : y = Cat(o, args)
      OBVIOUS
    <2>4. /\ Long(D, y, 1 + n)
          /\ \A k \in 1..1 : y[k] = o[k]
          /\ \A k \in 1..n : y[1 + k] = args[k]
      BY <1>0, <2>2, <2>3, LongCat
    <2>5. d + 1 = l - 1 /\ 1 \in 1..c /\ c = 1 + n /\ 1 \in 1..1
      BY <1>1, <1>5
    <2>6. passed[1] = y[1]
      <3>1. passed[1] = laid[d + 1]
        BY <1>4, <2>5
      <3> QED
        BY <1>0, <1>5, <2>2, <2>4, <2>5, <3>1
    <2>7. ASSUME NEW k \in 1..n PROVE passed[1 + k] = y[1 + k]
      <3>1. 1 + k \in 1..c /\ d + (1 + k) = l - 1 + k
        BY <2>5
      <3>2. passed[1 + k] = laid[d + (1 + k)]
        BY <1>4, <3>1
      <3> QED
        BY <1>0, <2>4, <3>1, <3>2
    <2>8. ASSUME NEW k \in 1..c PROVE passed[k] = y[k]
      <3>1. k = 1 \/ \E q \in 1..n : k = 1 + q
        <4>1. k = 1 \/ (k - 1 \in 1..n /\ k = 1 + (k - 1))
          BY <2>5
        <4> QED
          BY <4>1
      <3> QED
        BY <2>6, <2>7, <3>1
    <2>9. passed = y
      BY <1>3, <2>4, <2>5, <2>8, LongSame
    <2> QED
      BY <1>1, <1>2, <1>3, <1>5, <2>1, <2>3, <2>9
  <1>6. CASE own = 0
    <2>1. c = n /\ d = l - 1
      BY <1>1, <1>6
    <2>2. \A k \in 1..n : passed[k] = args[k]
      BY <1>0, <1>4, <2>1
    <2>3. passed = args
      BY <1>0, <1>3, <2>1, <2>2, LongSame
    <2> QED
      BY <1>1, <1>2, <1>3, <1>6, <2>3
  <1> QED
    BY <1>5, <1>6

\* What stays: the arguments, and the functions after this one.
LEMMA LeftOver ==
    ASSUME NEW D, NEW args, NEW rest, NEW laid, NEW self, NEW n, NEW r, NEW own, NEW l,
           IsReady(D, args, rest, self, n, r, own, l, laid),
           NEW spare, LeftFrom(laid, n, r, spare)
    PROVE  Long(D, spare, n + r - 1) /\ spare = Cat(args, Slice(rest, 1, r - 1))
  <1>0. /\ r > 0 /\ Long(D, args, n) /\ Long(D, rest, r) /\ Long(D, laid, n + r + own + n)
        /\ \A k \in 1..n : laid[k] = args[k]
        /\ \A k \in 1..(r - 1) : laid[n + k] = rest[1 + k]
        /\ n \in Nat /\ r \in Nat /\ own \in {0, 1}
    BY DEF IsReady, Counted
  <1> USE <1>0
  <1>1. PICK h \in Nat, t \in Nat, c \in Nat :
           h = n + r + own + n /\ t = r - 1 /\ c = n + t /\ c = n + r - 1 /\ spare = Slice(laid, 0, c)
    <2>1. PICK t \in Nat, c \in Nat : t = r - 1 /\ c = n + r - 1
      OBVIOUS
    <2>2. spare = Slice(laid, 0, c)
      BY <2>1 DEF LeftFrom
    <2> QED
      BY <2>1, <2>2
  <1>2. Long(D, spare, c) /\ \A k \in 1..c : spare[k] = laid[0 + k]
    <2>1. 0 + c <= h /\ Long(D, laid, h) /\ 0 \in Nat /\ spare = Slice(laid, 0, c)
      BY <1>0, <1>1
    <2> QED
      BY <2>1, LongCut
  <1>3. PICK tail : tail = Slice(rest, 1, t)
    OBVIOUS
  <1>4. Long(D, tail, t) /\ \A k \in 1..t : tail[k] = rest[1 + k]
    <2>1. 1 + t <= r /\ 1 \in Nat
      BY <1>1
    <2>2. Long(D, Slice(rest, 1, t), t) /\ \A k \in 1..t : Slice(rest, 1, t)[k] = rest[1 + k]
      BY <1>0, <2>1, LongCut
    <2> QED
      BY <1>3, <2>2
  <1>5. PICK y : y = Cat(args, tail)
    OBVIOUS
  <1>6. /\ Long(D, y, n + t)
        /\ \A k \in 1..n : y[k] = args[k]
        /\ \A k \in 1..t : y[n + k] = tail[k]
    BY <1>0, <1>4, <1>5, LongCat
  <1>7. ASSUME NEW k \in 1..n PROVE spare[k] = y[k]
    <2>1. k \in 1..c /\ 0 + k = k
      BY <1>1
    <2> QED
      BY <1>0, <1>2, <1>6, <2>1
  <1>8. ASSUME NEW k \in 1..t PROVE spare[n + k] = y[n + k]
    <2>1. n + k \in 1..c /\ 0 + (n + k) = n + k /\ k \in 1..(r - 1)
      BY <1>1
    <2>2. spare[n + k] = laid[n + k]
      BY <1>2, <2>1
    <2> QED
      BY <1>0, <1>4, <1>6, <2>1, <2>2
  <1>9. ASSUME NEW k \in 1..c PROVE spare[k] = y[k]
    <2>1. k \in 1..n \/ \E q \in 1..t : k = n + q
      <3>1. k \in 1..n \/ (k - n \in 1..t /\ k = n + (k - n))
        BY <1>1
      <3> QED
        BY <3>1
    <2> QED
      BY <1>7, <1>8, <2>1
  <1>10. spare = y
    <2>1. Long(D, y, c)
      BY <1>1, <1>6
    <2> QED
      BY <1>2, <1>9, <2>1, LongSame
  <1> QED
    BY <1>1, <1>2, <1>3, <1>5, <1>10

\* Of what is due from the next function on, all but that one.
\* What is due from the next function on, and after it.
DueFrom(rest, funs, i, m, r) == rest = Slice(funs, i, r) /\ i < m /\ r = m - i

LEMMA AfterNext ==
    ASSUME NEW D, NEW funs, NEW i \in Nat, NEW m \in Nat, NEW r \in Nat, NEW rest,
           Long(D, funs, m), DueFrom(rest, funs, i, m, r)
    PROVE  /\ Long(D, rest, r) /\ rest[1] = funs[i + 1] /\ funs[i + 1] \in D
           /\ Slice(rest, 1, r - 1) = Slice(funs, i + 1, r - 1)
  <1>1. i + r <= m /\ 1 \in 1..r /\ rest = Slice(funs, i, r) /\ r = m - i
    BY DEF DueFrom
  <1>2. Long(D, rest, r) /\ \A k \in 1..r : rest[k] = funs[i + k]
    BY <1>1, LongCut
  <1>3. PICK t \in Nat, j \in Nat : t = r - 1 /\ j = i + 1
    BY <1>1
  <1>4. PICK u, v : u = Slice(rest, 1, t) /\ v = Slice(funs, j, t)
    OBVIOUS
  <1>5. Long(D, u, t) /\ \A k \in 1..t : u[k] = rest[1 + k]
    <2>1. 1 + t <= r /\ 1 \in Nat
      BY <1>1, <1>3
    <2> QED
      BY <1>2, <1>4, <2>1, LongCut
  <1>6. Long(D, v, t) /\ \A k \in 1..t : v[k] = funs[j + k]
    <2>1. j + t <= m
      BY <1>1, <1>3
    <2> QED
      BY <1>4, <2>1, LongCut
  <1>7. ASSUME NEW k \in 1..t PROVE u[k] = v[k]
    <2>1. 1 + k \in 1..r /\ i + (1 + k) = j + k
      BY <1>3
    <2>2. rest[1 + k] = funs[i + (1 + k)]
      BY <1>2, <2>1
    <2> QED
      BY <1>5, <1>6, <2>1, <2>2
  <1>8. u = v
    BY <1>5, <1>6, <1>7, LongSame
  <1>9. rest[1] = funs[i + 1] /\ rest[1] \in D
    BY <1>1, <1>2, LongItem
  <1> QED
    BY <1>2, <1>3, <1>4, <1>8, <1>9

\* The next function: it leaves the middle of the stack, and the arguments go with it.
LEMMA CallsNext ==
    ASSUME NEW e \in Going, ~e.busy, e.i < e.m
    PROVE  Calling(e) \in Going
  <1>1. /\ e.on \in Thing /\ e.args \in Seq(Piece) /\ e.stack \in Seq(Piece) /\ e.i \in Nat /\ e.m \in Nat
        /\ e.due \in Seq(Slot) /\ e.n = Len(e.args) /\ e.m = Len(e.due) /\ e.n \in Nat
        /\ e.stack = e.args \o SubSeq(e.due, e.i + 1, e.m)
    BY DEF Going
  <1>2. PICK n \in Nat, r \in Nat, i \in Nat, m \in Nat :
           n = e.n /\ i = e.i /\ m = e.m /\ r = m - i /\ r > 0 /\ i < m
    <2>1. e.m - e.i \in Nat /\ e.m - e.i > 0
      BY <1>1
    <2> QED
      BY <1>1, <2>1
  <1>3. PICK own \in {0, 1}, l \in Nat : own = (IF e.on \in Objects THEN 1 ELSE 0) /\ l = n + r + own
    OBVIOUS
  <1>4. PICK self, params, funs : self = e.on /\ params = e.args /\ funs = e.due
    OBVIOUS
  <1>5. Slot \subseteq Piece /\ Thing \subseteq Piece
    BY DEF Piece
  <1>6. self \in Piece /\ Long(Piece, params, n) /\ Long(Slot, funs, m)
    BY <1>1, <1>2, <1>4, <1>5 DEF Long
  <1>7. PICK rest : rest = Slice(funs, i, r)
    OBVIOUS
  <1>8. /\ Long(Slot, rest, r) /\ rest[1] = funs[i + 1] /\ funs[i + 1] \in Slot
        /\ Slice(rest, 1, r - 1) = Slice(funs, i + 1, r - 1)
    <2>1. Long(Slot, funs, m) /\ DueFrom(rest, funs, i, m, r)
      BY <1>2, <1>6, <1>7 DEF DueFrom
    <2> QED
      BY <2>1, AfterNext
  <1>9. Long(Piece, rest, r)
    BY <1>5, <1>8, SeqMonotonic DEF Long
  <1>10. PICK stack : stack = Cat(params, rest)
    OBVIOUS
  <1>11. e.stack = stack
    <2>1. i + r = m
      BY <1>2
    <2> QED
      BY <1>1, <1>2, <1>4, <1>7, <1>10, <2>1 DEF Slice, Cat
  <1>12. PICK base : base = IF own = 1 THEN Pile(stack, self) ELSE stack
    OBVIOUS
  <1>13. PICK copied : copied = Cat(base, params)
    OBVIOUS
  <1>14. PICK next : next = rest[1]
    OBVIOUS
  <1>15. PICK all : all = Pile(copied, next)
    OBVIOUS
  <1>15a. PICK p \in Nat, c \in Nat, d \in Nat, h \in Nat, v \in Nat :
             p = n + 1 /\ h = l + n - 1 /\ d = l - 1 - own /\ c = n + own /\ v = n + r - 1
    <2>1. n + 1 \in Nat /\ l + n - 1 \in Nat /\ l - 1 - own \in Nat /\ n + own \in Nat /\ n + r - 1 \in Nat
      BY <1>2, <1>3
    <2> QED
      BY <2>1
  <1>16. PICK laid : laid = Less(all, p)
    OBVIOUS
  <1>17. /\ Long(Piece, base, l) /\ \A k \in 1..n : base[k] = params[k]
         /\ Long(Piece, copied, l + n) /\ copied[p] = next
         /\ Long(Piece, all, l + n + 1)
         /\ IsReady(Piece, params, rest, self, n, r, own, l, laid)
    <2>1. Counted(n, r, own, l, p) /\ Piled(params, rest, self, own, p, stack, base, copied, all, laid)
      BY <1>2, <1>3, <1>10, <1>12, <1>13, <1>14, <1>15, <1>15a, <1>16 DEF Counted, Piled
    <2>2. self \in Piece /\ Long(Piece, params, n)
      BY <1>6
    <2>3. /\ Long(Piece, base, l) /\ \A k \in 1..n : base[k] = params[k]
          /\ Long(Piece, copied, l + n) /\ copied[p] = rest[1]
          /\ Long(Piece, all, l + n + 1)
          /\ IsReady(Piece, params, rest, self, n, r, own, l, laid)
      BY <1>9, <2>1, <2>2, MadeReady
    <2> QED
      BY <1>14, <2>3
  <1>18. PICK idx \in Int : idx = -l
    OBVIOUS
  <1>19. idx = e.i - e.n - e.m - own
    BY <1>2, <1>3, <1>18
  <1>20. Long(Piece, laid, l + n) /\ laid[l + n] = next
    BY <1>14, <1>17 DEF IsReady
  <1>21. CopiesOf(base, n, idx) = copied
    <2>1. n = Len(params) /\ n <= Len(base) /\ idx = -Len(base)
      BY <1>3, <1>6, <1>17, <1>18 DEF Long
    <2>2. base \in Seq(Piece) /\ params \in Seq(Piece) /\ \A k \in 1..n : base[k] = params[k]
      BY <1>6, <1>17 DEF Long
    <2>3. CopiesOf(base, n, idx) = base \o params
      BY <2>1, <2>2, Copied
    <2> QED
      BY <1>13, <2>3 DEF Cat
  <1>22. FromTop(copied, idx) = next
    <2>1. Len(copied) + 1 + idx = p
      BY <1>15a, <1>17, <1>18 DEF Long
    <2> QED
      BY <1>17, <2>1 DEF FromTop
  <1>23. CutOut(all, idx - 1) = laid
    <2>1. Len(all) + 1 + (idx - 1) = p
      BY <1>15a, <1>17, <1>18 DEF Long
    <2> QED
      BY <1>16, <2>1 DEF CutOut, Less
  <1>24. FromTop(laid, -1) = next
    <2>1. Len(laid) + 1 + (-1) = l + n
      BY <1>20 DEF Long
    <2> QED
      BY <1>20, <2>1 DEF FromTop
  <1>25. PICK low : low = Slice(laid, 0, h)
    OBVIOUS
  <1>26. PICK passed, spare : passed = Slice(low, d, c) /\ spare = Slice(laid, 0, v)
    OBVIOUS
  <1>27. /\ Long(Piece, low, h) /\ Long(Piece, passed, c)
         /\ passed = IF own = 1 THEN Cat(<<self>>, params) ELSE params
    <2>1. self \in Piece /\ IsReady(Piece, params, rest, self, n, r, own, l, laid)
      BY <1>6, <1>17
    <2>2. GivenFrom(laid, n, own, l, low, passed)
      BY <1>15a, <1>25, <1>26 DEF GivenFrom
    <2>3. /\ Long(Piece, low, l + n - 1) /\ Long(Piece, passed, n + own)
          /\ passed = IF own = 1 THEN Cat(<<self>>, params) ELSE params
      BY <2>1, <2>2, GivenTo
    <2> QED
      BY <1>15a, <2>3
  <1>28. Long(Piece, spare, v) /\ spare = Cat(params, Slice(funs, i + 1, r - 1))
    <2>1. IsReady(Piece, params, rest, self, n, r, own, l, laid)
      BY <1>17
    <2>2. LeftFrom(laid, n, r, spare)
      BY <1>15a, <1>26 DEF LeftFrom
    <2>3. Long(Piece, spare, n + r - 1) /\ spare = Cat(params, Slice(rest, 1, r - 1))
      BY <2>1, <2>2, LeftOver
    <2> QED
      BY <1>8, <1>15a, <2>3
  <1>29. passed = Upper(Lower(laid, 1), n + own) /\ spare = Lower(laid, n + own + 1)
    <2>1. Len(laid) = l + n /\ Len(low) = h
      BY <1>20, <1>27 DEF Long
    <2>2. low = Lower(laid, 1)
      <3>1. 0 + 1 = 1 /\ 0 + h = Len(laid) - 1
        BY <1>15a, <2>1
      <3> QED
        BY <1>25, <3>1 DEF Slice, Lower
    <2>3. passed = Upper(low, n + own)
      <3>1. d + 1 = Len(low) - (n + own) + 1 /\ d + c = Len(low)
        BY <1>15a, <2>1
      <3> QED
        BY <1>26, <3>1 DEF Slice, Upper
    <2>4. spare = Lower(laid, n + own + 1)
      <3>1. 0 + 1 = 1 /\ 0 + v = Len(laid) - (n + own + 1)
        BY <1>3, <1>15a, <2>1
      <3> QED
        BY <1>26, <3>1 DEF Slice, Lower
    <2> QED
      BY <2>2, <2>3, <2>4
  <1>30. Calling(e) = [e EXCEPT !.stack = spare, !.i = @ + 1, !.busy = TRUE, !.called = <<next, passed>>]
    <2>1. base = IF own = 1 THEN Append(e.stack, e.on) ELSE e.stack
      BY <1>4, <1>11, <1>12 DEF Pile
    <2>2. copied = CopiesOf(base, e.n, idx)
      BY <1>2, <1>21
    <2>3. laid = CutOut(Append(copied, FromTop(copied, idx)), idx - 1)
      BY <1>15, <1>22, <1>23 DEF Pile
    <2>4. passed = Upper(Lower(laid, 1), e.n + own) /\ spare = Lower(laid, e.n + own + 1)
      BY <1>2, <1>29
    <2> QED
      <3>1. Calling(e) = [e EXCEPT !.stack = Lower(laid, e.n + own + 1), !.i = @ + 1, !.busy = TRUE,
                     !.called = <<FromTop(laid, -1), Upper(Lower(laid, 1), e.n + own)>>]
        BY <1>3, <1>19, <2>1, <2>2, <2>3 DEF Calling
      <3> QED
        BY <1>24, <2>4, <3>1
  <1>31. PICK f : f = Calling(e)
    OBVIOUS
  <1>32a. PICK told : told = <<next, passed>>
    OBVIOUS
  <1>32. PICK j \in Nat : j = i + 1 /\ told = <<next, passed>>
    BY <1>32a
  <1>33. PICK SI, SS, CC, TT : /\ SI = Seq(Piece) /\ SS = Seq(Slot) /\ TT = Slot \cup {NoFunc}
                               /\ CC = {NoFunc} \cup (Slot \X Seq(Piece))
    OBVIOUS
  <1>34. spare \in SI /\ told \in CC
    <2>1. spare \in Seq(Piece) /\ passed \in Seq(Piece) /\ next \in Slot
      BY <1>8, <1>14, <1>27, <1>28 DEF Long
    <2> QED
      BY <1>32, <1>33, <2>1
  <1>35. f = [e EXCEPT !.stack = spare, !.i = j, !.busy = TRUE, !.called = told]
    BY <1>2, <1>30, <1>31, <1>32
  <1>36. e \in [on : Thing, args : SI, stack : SI, n : Nat, m : Nat, i : Nat,
                busy : BOOLEAN, did : Nat, due : SS, called : CC, then : TT]
    BY <1>33 DEF Going
  <1>37. /\ f \in [on : Thing, args : SI, stack : SI, n : Nat, m : Nat, i : Nat,
                   busy : BOOLEAN, did : Nat, due : SS, called : CC, then : TT]
         /\ f.on = e.on /\ f.args = e.args /\ f.n = e.n /\ f.m = e.m /\ f.due = e.due
         /\ f.stack = spare /\ f.i = j /\ f.busy = TRUE /\ f.called = told
    BY <1>34, <1>35, <1>36
  <1>38. f \in [on : Thing, args : Seq(Piece), stack : Seq(Piece), n : Nat, m : Nat, i : Nat,
                busy : BOOLEAN, did : Nat, due : Seq(Slot),
                called : {NoFunc} \cup (Slot \X Seq(Piece)), then : Slot \cup {NoFunc}]
    BY <1>33, <1>37
  <1>39. f.n = Len(f.args) /\ f.m = Len(f.due) /\ f.i <= f.m /\ f.i > 0
    BY <1>1, <1>2, <1>32, <1>37
  <1>40. f.stack = f.args \o SubSeq(f.due, f.i + 1, f.m)
    <2>1. i + 1 + (r - 1) = m /\ j = i + 1
      BY <1>2, <1>32
    <2>2. spare = params \o SubSeq(funs, j + 1, m)
      BY <1>28, <2>1 DEF Cat, Slice
    <2> QED
      BY <1>2, <1>4, <1>37, <2>2
  <1>41. f.called = <<f.due[f.i], IF f.on \in Objects THEN <<f.on>> \o f.args ELSE f.args>>
    <2>1. passed = IF f.on \in Objects THEN <<f.on>> \o f.args ELSE f.args
      BY <1>3, <1>4, <1>27, <1>37 DEF Cat
    <2>2. next = f.due[f.i]
      BY <1>4, <1>8, <1>14, <1>32, <1>37
    <2> QED
      BY <1>32, <1>37, <2>1, <2>2
  <1> QED
    BY <1>31, <1>38, <1>39, <1>40, <1>41 DEF Going

\* How often a function is connected.
Tally(s, f) == Cardinality({i \in DOMAIN s : s[i] = f})

LEMMA Tallied ==
    ASSUME NEW D, NEW s \in Seq(D), NEW f
    PROVE  /\ IsFiniteSet({i \in DOMAIN s : s[i] = f}) /\ Tally(s, f) \in Nat
           /\ (\E i \in 1..Len(s) : s[i] = f) => Tally(s, f) > 0
  <1>1. PICK T : T = {i \in DOMAIN s : s[i] = f}
    OBVIOUS
  <1>2. Len(s) \in Nat /\ DOMAIN s = 1..Len(s)
    BY LenProperties
  <1>3. IsFiniteSet(1..Len(s))
    BY <1>2, FS_Interval
  <1>4. T \subseteq 1..Len(s)
    BY <1>1, <1>2
  <1>5. IsFiniteSet(T)
    BY <1>3, <1>4, FS_Subset
  <1>6. Cardinality(T) \in Nat /\ (Cardinality(T) = 0 <=> T = {})
    BY <1>5, FS_CardinalityType, FS_EmptySet
  <1>7. Tally(s, f) = Cardinality(T)
    BY <1>1 DEF Tally
  <1>8. (\E i \in 1..Len(s) : s[i] = f) => T # {}
    BY <1>1, <1>2
  <1> QED
    BY <1>1, <1>5, <1>6, <1>7, <1>8

LEMMA TallyOfNone ==
    ASSUME NEW f
    PROVE  Tally(<<>>, f) = 0
  <1>1. {i \in DOMAIN <<>> : <<>>[i] = f} = {}
    OBVIOUS
  <1> QED
    BY <1>1, FS_EmptySet DEF Tally

LEMMA TallyOfMore ==
    ASSUME NEW D, NEW s \in Seq(D), NEW x \in D, NEW f
    PROVE  Tally(Append(s, x), f) = Tally(s, f) + (IF x = f THEN 1 ELSE 0)
  <1>1. PICK n \in Nat : n = Len(s)
    BY LenProperties
  <1>2. PICK u : u = Append(s, x)
    OBVIOUS
  <1>3. /\ u \in Seq(D) /\ Len(u) = n + 1 /\ u[n + 1] = x
        /\ \A k \in 1..n : u[k] = s[k]
    BY <1>1, <1>2, AppendProperties
  <1>4. DOMAIN s = 1..n /\ DOMAIN u = 1..(n + 1)
    BY <1>1, <1>3, LenProperties
  <1>5. PICK T, Un : T = {i \in DOMAIN s : s[i] = f} /\ Un = {i \in DOMAIN u : u[i] = f}
    OBVIOUS
  <1>6. T = {i \in 1..n : s[i] = f} /\ Un = {i \in 1..(n + 1) : u[i] = f}
    BY <1>4, <1>5
  <1>7. IsFiniteSet(T) /\ Tally(s, f) = Cardinality(T) /\ Tally(u, f) = Cardinality(Un)
    <2>1. IsFiniteSet({i \in DOMAIN s : s[i] = f})
      BY Tallied
    <2> QED
      BY <1>5, <2>1 DEF Tally
  <1>8. 1..(n + 1) = (1..n) \cup {n + 1} /\ n + 1 \notin 1..n
    OBVIOUS
  <1>9. CASE x = f
    <2>1. Un = T \cup {n + 1} /\ n + 1 \notin T
      BY <1>3, <1>6, <1>8, <1>9
    <2>2. Cardinality(Un) = Cardinality(T) + 1
      BY <1>7, <2>1, FS_AddElement
    <2> QED
      BY <1>2, <1>7, <1>9, <2>2
  <1>10. CASE x # f
    <2>1. Un = T
      BY <1>3, <1>6, <1>8, <1>10
    <2>2. Cardinality(T) \in Nat
      BY <1>7, FS_CardinalityType
    <2> QED
      BY <1>2, <1>7, <1>10, <2>1, <2>2
  <1> QED
    BY <1>9, <1>10

LEMMA TallyOfFewer ==
    ASSUME NEW D, NEW s \in Seq(D), NEW i \in 1..Len(s), NEW f
    PROVE  Tally(s, f) = Tally(RemoveAt(s, i), f) + (IF s[i] = f THEN 1 ELSE 0)
  <1>1. PICK n \in Nat : n = Len(s) /\ i \in 1..n /\ n - 1 \in Nat
    BY LenProperties
  <1>2. PICK u : u = RemoveAt(s, i)
    OBVIOUS
  <1>3. /\ u \in Seq(D) /\ Len(u) = n - 1
        /\ \A j \in 1..(n - 1) : u[j] = IF j < i THEN s[j] ELSE s[j + 1]
    BY <1>1, <1>2, RemovedAt
  <1>4. DOMAIN s = 1..n /\ DOMAIN u = 1..(n - 1)
    BY <1>1, <1>3, LenProperties
  <1>5. PICK T, Un : T = {k \in DOMAIN s : s[k] = f} /\ Un = {k \in DOMAIN u : u[k] = f}
    OBVIOUS
  <1>6. T = {k \in 1..n : s[k] = f} /\ Un = {k \in 1..(n - 1) : u[k] = f}
    BY <1>4, <1>5
  <1>7. IsFiniteSet(T) /\ Tally(s, f) = Cardinality(T) /\ Tally(u, f) = Cardinality(Un)
    <2>1. IsFiniteSet({k \in DOMAIN s : s[k] = f})
      BY Tallied
    <2> QED
      BY <1>5, <2>1 DEF Tally
  <1>8. PICK A : A = T \ {i}
    OBVIOUS
  <1>9. /\ IsFiniteSet(A)
        /\ Cardinality(T) = Cardinality(A) + (IF s[i] = f THEN 1 ELSE 0)
    <2>1. IsFiniteSet(A) /\ Cardinality(A) = IF i \in T THEN Cardinality(T) - 1 ELSE Cardinality(T)
      BY <1>7, <1>8, FS_RemoveElement
    <2>2. Cardinality(T) \in Nat /\ (i \in T <=> s[i] = f)
      BY <1>1, <1>6, <1>7, FS_CardinalityType
    <2> QED
      BY <2>1, <2>2
  \* Those above i have moved down by one.
  <1>10. PICK b : b = [k \in A |-> IF k < i THEN k ELSE k - 1]
    OBVIOUS
  <1>11. \A k \in A : k \in 1..n /\ s[k] = f /\ k # i
    BY <1>6, <1>8
  <1>12. ASSUME NEW k \in A PROVE b[k] \in Un
    <2>1. CASE k < i
      <3>1. k \in 1..(n - 1) /\ b[k] = k
        BY <1>1, <1>10, <1>11, <2>1
      <3>2. u[k] = s[k]
        BY <1>3, <2>1, <3>1
      <3> QED
        BY <1>6, <1>11, <3>1, <3>2
    <2>2. CASE ~(k < i)
      <3>1. PICK j : j = k - 1
        OBVIOUS
      <3>2. j \in 1..(n - 1) /\ b[k] = j /\ ~(j < i) /\ j + 1 = k
        BY <1>1, <1>10, <1>11, <2>2, <3>1
      <3>3. u[j] = s[j + 1]
        BY <1>3, <3>2
      <3> QED
        BY <1>6, <1>11, <3>2, <3>3
    <2> QED
      BY <2>1, <2>2
  <1>13. ASSUME NEW k \in A, NEW j \in A, b[k] = b[j] PROVE k = j
    <2>1. k \in 1..n /\ j \in 1..n /\ k # i /\ j # i
      BY <1>11
    <2>2. /\ b[k] = IF k < i THEN k ELSE k - 1
          /\ b[j] = IF j < i THEN j ELSE j - 1
      BY <1>10
    <2>3. (IF k < i THEN k ELSE k - 1) = (IF j < i THEN j ELSE j - 1)
      BY <1>13, <2>2
    <2> QED
      BY <1>1, <2>1, <2>3
  <1>14. ASSUME NEW j \in Un PROVE \E k \in A : b[k] = j
    <2>1. j \in 1..(n - 1) /\ u[j] = f
      BY <1>6
    <2>2. CASE j < i
      <3>1. s[j] = f /\ j \in 1..n /\ j # i
        BY <1>1, <1>3, <2>1, <2>2
      <3>2. j \in A
        BY <1>6, <1>8, <3>1
      <3>3. b[j] = j
        BY <1>10, <2>2, <3>2
      <3> QED
        BY <3>2, <3>3
    <2>3. CASE ~(j < i)
      <3>1. PICK k : k = j + 1
        OBVIOUS
      <3>2. s[k] = f /\ k \in 1..n /\ k # i /\ ~(k < i) /\ k - 1 = j
        BY <1>1, <1>3, <2>1, <2>3, <3>1
      <3>3. k \in A
        BY <1>6, <1>8, <3>2
      <3>4. b[k] = j
        BY <1>10, <3>2, <3>3
      <3> QED
        BY <3>3, <3>4
    <2> QED
      BY <2>2, <2>3
  <1>15. Cardinality(Un) = Cardinality(A)
    <2>1. b \in [A -> Un]
      BY <1>10, <1>12
    <2>2. b \in Injection(A, Un)
      BY <1>13, <2>1 DEF Injection, IsInjective
    <2>3. b \in Surjection(A, Un)
      BY <1>14, <2>1 DEF Surjection
    <2>4. ExistsBijection(A, Un)
      BY <2>2, <2>3 DEF ExistsBijection, Bijection
    <2> QED
      BY <1>9, <2>4, FS_Bijection
  <1>16. Cardinality(A) \in Nat
    BY <1>9, FS_CardinalityType
  <1> QED
    BY <1>2, <1>7, <1>9, <1>15, <1>16

-----------------------------------------------------------------------------
(* Each emission that runs is Going, and each function that is connected is   *)
(* held: so none of those that an emission finds is gone.                     *)

SignalInv ==
    /\ slots \in [Thing -> Seq(Slot)] /\ counts \in [Stores -> [Slot -> Nat]]
    /\ valid \subseteq Objects
    /\ emitting \in Seq(Going)
    /\ SlotsAreHeld

\* What is held for each thing, in terms of the tallies.
HeldFor(s, c) ==
    \A f \in Slot : /\ \A x \in Objects : c[x][f] = Tally(s[x], f)
                    /\ c[Registry][f] = Tally(s[Class], f) + Tally(s[Note], f)

LEMMA HeldIsTallied == SlotsAreHeld <=> HeldFor(slots, counts)
  BY DEF SlotsAreHeld, HeldFor, Connections, Tally

LEMMA HeldNext == SlotsAreHeld' <=> HeldFor(slots', counts')
  BY DEF SlotsAreHeld, HeldFor, Connections, Tally

LEMMA Stored ==
    ASSUME NEW x \in Thing
    PROVE  /\ Store(x) \in Stores /\ Registry \notin Objects
           /\ x \in Objects \/ x = Class \/ x = Note
           /\ x \in Objects => Store(x) = x /\ x # Class /\ x # Note
           /\ x \notin Objects => Store(x) = Registry
  BY ThingsAssumption DEF Store, Stores, Objects, Registry

\* An emission that begins: all functions that are connected are due.
LEMMA Begins ==
    ASSUME SignalInv, NEW x \in Thing, NEW args \in Seq(Piece)
    PROVE  /\ Emission(x, args) \in Going
           /\ Emission(x, args).busy = FALSE
  <1>1. PICK s \in Seq(Slot) : s = slots[x]
    BY DEF SignalInv
  <1>2. PICK m \in Nat : m = Len(s) /\ DOMAIN s = 1..m
    BY LenProperties
  <1>3. ASSUME NEW k \in 1..m PROVE Held(x, s[k]) = s[k]
    <2>1. PICK f \in Slot : f = s[k]
      BY <1>2, ElementOfSeq
    <2>2. Tally(s, f) \in Nat /\ Tally(s, f) > 0
      BY <1>2, <2>1, Tallied
    <2>3. counts[Store(x)][f] > 0
      <3>1. CASE x \in Objects
        <4>1. counts[x][f] = Tally(s, f)
          BY <1>1, <3>1, HeldIsTallied DEF SignalInv, HeldFor
        <4> QED
          BY <2>2, <3>1, <4>1, Stored
      <3>2. CASE x \notin Objects
        <4>1. counts[Registry][f] = Tally(slots[Class], f) + Tally(slots[Note], f)
          BY HeldIsTallied DEF SignalInv, HeldFor
        <4>2. slots[Class] \in Seq(Slot) /\ slots[Note] \in Seq(Slot)
          BY ThingsAssumption DEF SignalInv
        <4>3. Tally(slots[Class], f) \in Nat /\ Tally(slots[Note], f) \in Nat
          BY <4>2, Tallied
        <4>4. Tally(slots[Class], f) = Tally(s, f) \/ Tally(slots[Note], f) = Tally(s, f)
          BY <1>1, <3>2, Stored
        <4>5. counts[Registry][f] > 0
          BY <2>2, <4>1, <4>3, <4>4
        <4> QED
          BY <3>2, <4>5, Stored
      <3> QED
        BY <3>1, <3>2
    <2> QED
      BY <2>1, <2>3 DEF Held
  <1>4. [i \in DOMAIN slots[x] |-> Held(x, slots[x][i])] = s
    <2>1. s = [i \in 1..m |-> s[i]]
      BY <1>2, SeqDef
    <2> QED
      BY <1>1, <1>2, <1>3, <2>1
  <1>5. Emission(x, args) = FrameOf(x, args, s)
    BY <1>4 DEF Emission
  <1>6. PICK a \in Nat : a = Len(args)
    BY LenProperties
  <1>7. PICK stack : stack = args \o s
    OBVIOUS
  <1>8. stack \in Seq(Piece) /\ stack = args \o SubSeq(s, 0 + 1, m)
    <2>1. s \in Seq(Piece)
      BY SeqMonotonic DEF Piece
    <2>2. SubSeq(s, 1, m) = s /\ 0 + 1 = 1
      BY <1>2, SubSeqFull
    <2> QED
      BY <1>7, <2>1, <2>2, ConcatProperties
  <1>9. PICK e : e = Emission(x, args)
    OBVIOUS
  <1>10. e = [on |-> x, args |-> args, stack |-> stack, n |-> a, m |-> m, i |-> 0,
              busy |-> FALSE, did |-> 0, due |-> s, called |-> NoFunc, then |-> NoFunc]
    BY <1>2, <1>5, <1>6, <1>7, <1>9 DEF FrameOf
  <1>11. e \in [on : Thing, args : Seq(Piece), stack : Seq(Piece), n : Nat, m : Nat, i : Nat,
                busy : BOOLEAN, did : Nat, due : Seq(Slot),
                called : {NoFunc} \cup (Slot \X Seq(Piece)), then : Slot \cup {NoFunc}]
    <2>1. PICK SI, SS, CC : SI = Seq(Piece) /\ SS = Seq(Slot) /\ CC = {NoFunc} \cup (Slot \X Seq(Piece))
      OBVIOUS
    <2>2. args \in SI /\ stack \in SI /\ s \in SS /\ NoFunc \in CC
      BY <1>8, <2>1
    <2>3. e \in [on : Thing, args : SI, stack : SI, n : Nat, m : Nat, i : Nat,
                 busy : BOOLEAN, did : Nat, due : SS, called : CC, then : Slot \cup {NoFunc}]
      BY <1>10, <2>2
    <2> QED
      BY <2>1, <2>3
  <1>12. /\ e.n = Len(e.args) /\ e.m = Len(e.due) /\ e.i <= e.m /\ e.busy = FALSE
         /\ e.stack = e.args \o SubSeq(e.due, e.i + 1, e.m)
    BY <1>2, <1>6, <1>8, <1>10
  <1> QED
    BY <1>9, <1>11, <1>12 DEF Going

\* What is noted beside an emission leaves it Going.
LEMMA NotedBeside ==
    ASSUME NEW e \in Going
    PROVE  /\ \A n \in Nat : [e EXCEPT !.did = n] \in Going
           /\ \A f \in Slot : [e EXCEPT !.then = f] \in Going
           /\ [e EXCEPT !.busy = FALSE, !.called = NoFunc] \in Going
           /\ e.did \in Nat /\ e.on \in Thing /\ e.args \in Seq(Piece) /\ e.then \in Slot \cup {NoFunc}
  <1>1. PICK SI, SS, CC, TT : /\ SI = Seq(Piece) /\ SS = Seq(Slot) /\ TT = Slot \cup {NoFunc}
                              /\ CC = {NoFunc} \cup (Slot \X Seq(Piece))
    OBVIOUS
  <1>2. PICK R : R = [on : Thing, args : SI, stack : SI, n : Nat, m : Nat, i : Nat,
                      busy : BOOLEAN, did : Nat, due : SS, called : CC, then : TT]
    OBVIOUS
  <1>3. /\ e \in R /\ e.n = Len(e.args) /\ e.m = Len(e.due) /\ e.i <= e.m
        /\ e.stack = e.args \o SubSeq(e.due, e.i + 1, e.m)
        /\ e.busy => /\ e.i > 0
                     /\ e.called = <<e.due[e.i],
                                     IF e.on \in Objects THEN <<e.on>> \o e.args ELSE e.args>>
    BY <1>1, <1>2 DEF Going
  <1>4. ASSUME NEW g \in R, g.n = Len(g.args), g.m = Len(g.due), g.i <= g.m,
               g.stack = g.args \o SubSeq(g.due, g.i + 1, g.m),
               g.busy => /\ g.i > 0
                         /\ g.called = <<g.due[g.i],
                                         IF g.on \in Objects THEN <<g.on>> \o g.args ELSE g.args>>
        PROVE  g \in Going
    BY <1>1, <1>2, <1>4 DEF Going
  <1>5. ASSUME NEW n \in Nat PROVE [e EXCEPT !.did = n] \in Going
    <2>1. PICK g : g = [e EXCEPT !.did = n]
      OBVIOUS
    <2>2. /\ g \in R /\ g.on = e.on /\ g.args = e.args /\ g.stack = e.stack /\ g.n = e.n
          /\ g.m = e.m /\ g.i = e.i /\ g.busy = e.busy /\ g.due = e.due /\ g.called = e.called
      BY <1>2, <1>3, <2>1
    <2> QED
      BY <1>3, <1>4, <2>1, <2>2
  <1>6. ASSUME NEW f \in Slot PROVE [e EXCEPT !.then = f] \in Going
    <2>1. PICK g : g = [e EXCEPT !.then = f]
      OBVIOUS
    <2>2. f \in TT
      BY <1>1
    <2>3. /\ g \in R /\ g.on = e.on /\ g.args = e.args /\ g.stack = e.stack /\ g.n = e.n
          /\ g.m = e.m /\ g.i = e.i /\ g.busy = e.busy /\ g.due = e.due /\ g.called = e.called
      BY <1>2, <1>3, <2>1, <2>2
    <2> QED
      BY <1>3, <1>4, <2>1, <2>3
  <1>7. [e EXCEPT !.busy = FALSE, !.called = NoFunc] \in Going
    <2>1. PICK g : g = [e EXCEPT !.busy = FALSE, !.called = NoFunc]
      OBVIOUS
    <2>2. NoFunc \in CC
      BY <1>1
    <2>3. /\ g \in R /\ g.on = e.on /\ g.args = e.args /\ g.stack = e.stack /\ g.n = e.n
          /\ g.m = e.m /\ g.i = e.i /\ g.busy = FALSE /\ g.due = e.due
      BY <1>2, <1>3, <2>1, <2>2
    <2> QED
      BY <1>3, <1>4, <2>1, <2>3
  <1> QED
    BY <1>1, <1>2, <1>3, <1>5, <1>6, <1>7

\* The frames below the last one stay; who acts is counted in the last one.
LEMMA StillGoing ==
    ASSUME NEW s \in Seq(Going), s # <<>>
    PROVE  /\ s[Len(s)] \in Going
           /\ \A e \in Going : [s EXCEPT ![Len(s)] = e] \in Seq(Going)
           /\ Front(s) \in Seq(Going)
  <1>1. PICK n \in Nat : n = Len(s) /\ n > 0 /\ n \in 1..n
    <2>1. Len(s) \in Nat /\ Len(s) # 0
      BY LenProperties, EmptySeq
    <2> QED
      BY <2>1
  <1>2. s[n] \in Going
    BY <1>1, ElementOfSeq
  <1>3. ASSUME NEW e \in Going PROVE [s EXCEPT ![n] = e] \in Seq(Going)
    BY <1>1, ExceptSeq
  <1>4. Front(s) \in Seq(Going)
    <2>1. \A k \in 1..(n - 1) : k \in 1..n
      BY <1>1
    <2>2. \A k \in 1..(n - 1) : s[k] \in Going
      BY <1>1, <2>1, ElementOfSeq
    <2>3. n - 1 \in Int
      BY <1>1
    <2> QED
      BY <1>1, <2>2, <2>3, SubSeqProperties DEF Front
  <1> QED
    BY <1>1, <1>2, <1>3, <1>4

LEMMA ActedGoing ==
    ASSUME SignalInv
    PROVE  /\ Acted \in Seq(Going)
           /\ \A e \in Going : Nested(e) \in Seq(Going)
  <1>1. Acted \in Seq(Going)
    <2>1. CASE emitting = <<>>
      BY <2>1 DEF Acted
    <2>2. CASE emitting # <<>>
      <3>0. PICK n : n = Len(emitting)
        OBVIOUS
      <3>1. PICK e \in Going : n = Len(emitting) /\ e = emitting[n]
        BY <2>2, <3>0, StillGoing DEF SignalInv
      <3>2. PICK d \in Nat : d = e.did + 1
        <4>1. e.did \in Nat
          BY NotedBeside
        <4> QED
          BY <4>1
      <3>3. [e EXCEPT !.did = d] \in Going
        BY NotedBeside
      <3>4. [emitting EXCEPT ![n].did = @ + 1] = [emitting EXCEPT ![n] = [e EXCEPT !.did = d]]
        BY <3>1, <3>2
      <3>5. [emitting EXCEPT ![n] = [e EXCEPT !.did = d]] \in Seq(Going)
        BY <2>2, <3>1, <3>3, StillGoing DEF SignalInv
      <3> QED
        BY <2>2, <3>1, <3>4, <3>5 DEF Acted
    <2> QED
      BY <2>1, <2>2
  <1> QED
    BY <1>1, AppendProperties DEF Nested

LEMMA HeldWithMore ==
    ASSUME SignalInv, NEW x \in Thing, NEW f \in Slot, NEW s, NEW c,
           s = [slots EXCEPT ![x] = Append(@, f)], c = incref(x, f)
    PROVE  s \in [Thing -> Seq(Slot)] /\ c \in [Stores -> [Slot -> Nat]] /\ HeldFor(s, c)
  <1>1. /\ slots \in [Thing -> Seq(Slot)] /\ counts \in [Stores -> [Slot -> Nat]]
        /\ HeldFor(slots, counts)
    BY HeldIsTallied DEF SignalInv
  <1>2. PICK t \in Seq(Slot) : t = slots[x]
    BY <1>1
  <1>3. Append(t, f) \in Seq(Slot)
    BY AppendProperties
  <1>4. /\ s \in [Thing -> Seq(Slot)] /\ s[x] = Append(t, f)
        /\ \A y \in Thing : y # x => s[y] = slots[y]
    BY <1>1, <1>2, <1>3
  <1>5. PICK p \in Stores : p = Store(x)
    BY Stored
  <1>6. /\ c \in [Stores -> [Slot -> Nat]] /\ c[p][f] = counts[p][f] + 1
        /\ \A g \in Slot : g # f => c[p][g] = counts[p][g]
        /\ \A q \in Stores : q # p => c[q] = counts[q]
    BY <1>1, <1>5 DEF incref
  <1>7. ASSUME NEW g \in Slot
        PROVE  Tally(s[x], g) = Tally(slots[x], g) + (IF g = f THEN 1 ELSE 0)
    BY <1>2, <1>4, TallyOfMore
  <1>8. ASSUME NEW g \in Slot, NEW y \in Thing PROVE Tally(slots[y], g) \in Nat
    <2>1. slots[y] \in Seq(Slot)
      BY <1>1
    <2> QED
      BY <2>1, Tallied
  <1>9. ASSUME NEW g \in Slot, NEW y \in Objects PROVE c[y][g] = Tally(s[y], g)
    <2>1. y \in Thing /\ y \in Stores /\ counts[y][g] = Tally(slots[y], g)
      BY <1>1 DEF HeldFor, Objects, Stores
    <2>2. CASE y # x
      <3>1. y # p
        BY <1>5, <2>1, <2>2, Stored
      <3> QED
        BY <1>4, <1>6, <2>1, <2>2, <3>1
    <2>3. CASE y = x
      <3>1. p = y
        BY <1>5, <2>3, Stored
      <3>2. Tally(s[y], g) = Tally(slots[y], g) + (IF g = f THEN 1 ELSE 0)
        BY <1>7, <2>3
      <3>3. c[y][g] = counts[y][g] + (IF g = f THEN 1 ELSE 0)
        BY <1>1, <1>6, <2>1, <3>1
      <3> QED
        BY <2>1, <3>2, <3>3
    <2> QED
      BY <2>2, <2>3
  <1>10. ASSUME NEW g \in Slot PROVE c[Registry][g] = Tally(s[Class], g) + Tally(s[Note], g)
    <2>1. /\ counts[Registry][g] = Tally(slots[Class], g) + Tally(slots[Note], g)
          /\ Class \in Thing /\ Note \in Thing /\ Class # Note /\ Registry \in Stores
      BY <1>1, ThingsAssumption DEF HeldFor, Stores
    <2>2. CASE x \in Objects
      <3>1. p # Registry /\ x # Class /\ x # Note
        BY <1>5, <2>2, Stored
      <3> QED
        BY <1>4, <1>6, <2>1, <3>1
    <2>3. CASE x = Class
      <3>1. p = Registry
        BY <1>5, <2>3 DEF Store, Objects
      <3>2. s[Note] = slots[Note] /\ Tally(slots[Note], g) \in Nat /\ Tally(slots[Class], g) \in Nat
        BY <1>4, <1>8, <2>1, <2>3
      <3>3. Tally(s[Class], g) = Tally(slots[Class], g) + (IF g = f THEN 1 ELSE 0)
        BY <1>7, <2>3
      <3>4. c[Registry][g] = counts[Registry][g] + (IF g = f THEN 1 ELSE 0)
        BY <1>1, <1>6, <2>1, <3>1
      <3> QED
        BY <2>1, <3>2, <3>3, <3>4
    <2>4. CASE x = Note
      <3>1. p = Registry
        BY <1>5, <2>4 DEF Store, Objects
      <3>2. s[Class] = slots[Class] /\ Tally(slots[Note], g) \in Nat /\ Tally(slots[Class], g) \in Nat
        BY <1>4, <1>8, <2>1, <2>4
      <3>3. Tally(s[Note], g) = Tally(slots[Note], g) + (IF g = f THEN 1 ELSE 0)
        BY <1>7, <2>4
      <3>4. c[Registry][g] = counts[Registry][g] + (IF g = f THEN 1 ELSE 0)
        BY <1>1, <1>6, <2>1, <3>1
      <3> QED
        BY <2>1, <3>2, <3>3, <3>4
    <2> QED
      BY <2>2, <2>3, <2>4, Stored
  <1> QED
    BY <1>4, <1>6, <1>9, <1>10 DEF HeldFor

LEMMA HeldWithFewer ==
    ASSUME SignalInv, NEW x \in Thing, NEW f \in Slot, f \in ToSet(slots[x]), NEW s, NEW c,
           s = [slots EXCEPT ![x] = RemoveFirst(@, f)], c = decref(x, f)
    PROVE  s \in [Thing -> Seq(Slot)] /\ c \in [Stores -> [Slot -> Nat]] /\ HeldFor(s, c)
  <1>1. /\ slots \in [Thing -> Seq(Slot)] /\ counts \in [Stores -> [Slot -> Nat]]
        /\ HeldFor(slots, counts)
    BY HeldIsTallied DEF SignalInv
  <1>2. PICK t \in Seq(Slot) : t = slots[x]
    BY <1>1
  <1>3. PICK i \in 1..Len(t) : t[i] = f /\ RemoveFirst(t, f) = RemoveAt(t, i)
    <2>1. \E j \in 1..Len(t) : t[j] = f
      BY <1>2, LenProperties DEF ToSet
    <2> QED
      BY <2>1, FirstRemoved
  <1>4. PICK u : u = RemoveAt(t, i)
    OBVIOUS
  <1>5. u \in Seq(Slot)
    BY <1>4, RemovedAt
  <1>6. /\ s \in [Thing -> Seq(Slot)] /\ s[x] = u
        /\ \A y \in Thing : y # x => s[y] = slots[y]
    BY <1>1, <1>2, <1>3, <1>4, <1>5
  <1>7. PICK p \in Stores : p = Store(x)
    BY Stored
  <1>8. ASSUME NEW g \in Slot, NEW y \in Thing PROVE Tally(slots[y], g) \in Nat /\ Tally(s[y], g) \in Nat
    <2>1. slots[y] \in Seq(Slot) /\ s[y] \in Seq(Slot)
      BY <1>1, <1>6
    <2> QED
      BY <2>1, Tallied
  <1>9. ASSUME NEW g \in Slot
        PROVE  Tally(slots[x], g) = Tally(s[x], g) + (IF g = f THEN 1 ELSE 0)
    BY <1>2, <1>3, <1>4, <1>6, TallyOfFewer
  <1>10. counts[p][f] \in Nat /\ counts[p][f] > 0
    <2>1. counts[p][f] \in Nat
      BY <1>1
    <2>2. Tally(slots[x], f) > 0
      BY <1>2, <1>3, Tallied
    <2>3. CASE x \in Objects
      BY <1>1, <1>7, <2>1, <2>2, <2>3, Stored DEF HeldFor
    <2>4. CASE x \notin Objects
      <3>1. p = Registry /\ (x = Class \/ x = Note)
        BY <1>7, <2>4, Stored
      <3>2. counts[Registry][f] = Tally(slots[Class], f) + Tally(slots[Note], f)
        BY <1>1 DEF HeldFor
      <3>3. Tally(slots[Class], f) \in Nat /\ Tally(slots[Note], f) \in Nat
        BY <1>8, ThingsAssumption
      <3> QED
        BY <2>2, <3>1, <3>2, <3>3
    <2> QED
      BY <2>3, <2>4
  <1>11. /\ c \in [Stores -> [Slot -> Nat]] /\ c[p][f] = counts[p][f] - 1
         /\ \A g \in Slot : g # f => c[p][g] = counts[p][g]
         /\ \A q \in Stores : q # p => c[q] = counts[q]
    <2>1. PICK n \in Nat : n = counts[p][f] - 1
      BY <1>10
    <2>2. c = [counts EXCEPT ![p][f] = n]
      BY <1>1, <1>7, <2>1 DEF decref
    <2> QED
      BY <1>1, <2>1, <2>2
  <1>12. ASSUME NEW g \in Slot, NEW y \in Objects PROVE c[y][g] = Tally(s[y], g)
    <2>1. y \in Thing /\ y \in Stores /\ counts[y][g] = Tally(slots[y], g)
      BY <1>1 DEF HeldFor, Objects, Stores
    <2>2. CASE y # x
      <3>1. y # p
        BY <1>7, <2>1, <2>2, Stored
      <3> QED
        BY <1>6, <1>11, <2>1, <2>2, <3>1
    <2>3. CASE y = x
      <3>1. p = y
        BY <1>7, <2>3, Stored
      <3>2. Tally(slots[y], g) = Tally(s[y], g) + (IF g = f THEN 1 ELSE 0)
        BY <1>9, <2>3
      <3>3. Tally(slots[y], g) \in Nat /\ Tally(s[y], g) \in Nat
        BY <1>8, <2>1
      <3> QED
        BY <1>11, <2>1, <3>1, <3>2, <3>3
    <2> QED
      BY <2>2, <2>3
  <1>13. ASSUME NEW g \in Slot PROVE c[Registry][g] = Tally(s[Class], g) + Tally(s[Note], g)
    <2>1. /\ counts[Registry][g] = Tally(slots[Class], g) + Tally(slots[Note], g)
          /\ Class \in Thing /\ Note \in Thing /\ Class # Note /\ Registry \in Stores
      BY <1>1, ThingsAssumption DEF HeldFor, Stores
    <2>2. /\ Tally(slots[Class], g) \in Nat /\ Tally(slots[Note], g) \in Nat
          /\ Tally(s[Class], g) \in Nat /\ Tally(s[Note], g) \in Nat
      BY <1>8, <2>1
    <2>3. CASE x \in Objects
      <3>1. p # Registry /\ x # Class /\ x # Note
        BY <1>7, <2>3, Stored
      <3> QED
        BY <1>6, <1>11, <2>1, <3>1
    <2>4. CASE x = Class
      <3>1. p = Registry
        BY <1>7, <2>4 DEF Store, Objects
      <3>2. s[Note] = slots[Note]
        BY <1>6, <2>1, <2>4
      <3>3. Tally(slots[Class], g) = Tally(s[Class], g) + (IF g = f THEN 1 ELSE 0)
        BY <1>9, <2>4
      <3>4. counts[Registry][g] = c[Registry][g] + (IF g = f THEN 1 ELSE 0)
        BY <1>1, <1>10, <1>11, <2>1, <3>1
      <3>5. c[Registry][g] \in Nat
        BY <1>11, <2>1
      <3>6. PICK a, b, ta, tb : /\ a = Tally(slots[Class], g) /\ b = Tally(slots[Note], g)
                              /\ ta = Tally(s[Class], g) /\ tb = Tally(s[Note], g)
        OBVIOUS
      <3>7. c[Registry][g] = ta + tb
        BY <2>1, <2>2, <3>2, <3>3, <3>4, <3>5, <3>6
      <3> QED
        BY <3>6, <3>7
    <2>5. CASE x = Note
      <3>1. p = Registry
        BY <1>7, <2>5 DEF Store, Objects
      <3>2. s[Class] = slots[Class]
        BY <1>6, <2>1, <2>5
      <3>3. Tally(slots[Note], g) = Tally(s[Note], g) + (IF g = f THEN 1 ELSE 0)
        BY <1>9, <2>5
      <3>4. counts[Registry][g] = c[Registry][g] + (IF g = f THEN 1 ELSE 0)
        BY <1>1, <1>10, <1>11, <2>1, <3>1
      <3>5. c[Registry][g] \in Nat
        BY <1>11, <2>1
      <3>6. PICK a, b, ta, tb : /\ a = Tally(slots[Class], g) /\ b = Tally(slots[Note], g)
                              /\ ta = Tally(s[Class], g) /\ tb = Tally(s[Note], g)
        OBVIOUS
      <3>7. c[Registry][g] = ta + tb
        BY <2>1, <2>2, <3>2, <3>3, <3>4, <3>5, <3>6
      <3> QED
        BY <3>6, <3>7
    <2> QED
      BY <2>3, <2>4, <2>5, Stored
  <1> QED
    BY <1>6, <1>11, <1>12, <1>13 DEF HeldFor

LEMMA SignalStarts == SignalInit => SignalInv
  <1> SUFFICES ASSUME SignalInit PROVE SignalInv
    OBVIOUS
  <1>1. <<>> \in Seq(Slot) /\ <<>> \in Seq(Going)
    BY EmptySeq
  <1>2. HeldFor(slots, counts)
    BY TallyOfNone, ThingsAssumption DEF SignalInit, HeldFor, Stores, Objects, Registry
  <1> QED
    BY <1>1, <1>2, HeldIsTallied DEF SignalInit, SignalInv

LEMMA SignalSteps == SignalInv /\ [SignalNext]_signalVars => SignalInv'
  <1> SUFFICES ASSUME SignalInv, [SignalNext]_signalVars PROVE SignalInv'
    OBVIOUS
  <1>1. /\ slots \in [Thing -> Seq(Slot)] /\ counts \in [Stores -> [Slot -> Nat]]
        /\ valid \subseteq Objects /\ emitting \in Seq(Going) /\ HeldFor(slots, counts)
    BY HeldIsTallied DEF SignalInv
  <1>2. ASSUME slots' \in [Thing -> Seq(Slot)], counts' \in [Stores -> [Slot -> Nat]],
               valid' \subseteq Objects, emitting' \in Seq(Going), HeldFor(slots', counts')
        PROVE  SignalInv'
    BY <1>2, HeldNext DEF SignalInv
  <1>3. UNCHANGED <<slots, counts>> =>
            /\ slots' \in [Thing -> Seq(Slot)] /\ counts' \in [Stores -> [Slot -> Nat]]
            /\ HeldFor(slots', counts')
    BY <1>1
  <1>4. ASSUME NEW x \in Thing, NEW f \in Slot, luaA_object_connect_signal_from_stack(x, f)
        PROVE  SignalInv'
    <2>1. /\ slots' = [slots EXCEPT ![x] = Append(@, f)] /\ counts' = incref(x, f)
          /\ emitting' = Acted /\ valid' = valid
      BY <1>4 DEF luaA_object_connect_signal_from_stack, signal_connect
    <2>2. /\ slots' \in [Thing -> Seq(Slot)] /\ counts' \in [Stores -> [Slot -> Nat]]
          /\ HeldFor(slots', counts')
      BY <2>1, HeldWithMore
    <2> QED
      BY <1>1, <1>2, <2>1, <2>2, ActedGoing
  <1>5. ASSUME NEW x \in Thing, NEW f \in Slot, luaA_object_disconnect_signal_from_stack(x, f)
        PROVE  SignalInv'
    <2>1. /\ slots' = [slots EXCEPT ![x] = RemoveFirst(@, f)] /\ counts' = decref(x, f)
          /\ f \in ToSet(slots[x]) /\ emitting' = Acted /\ valid' = valid
      BY <1>5 DEF luaA_object_disconnect_signal_from_stack, signal_disconnect
    <2>2. /\ slots' \in [Thing -> Seq(Slot)] /\ counts' \in [Stores -> [Slot -> Nat]]
          /\ HeldFor(slots', counts')
      BY <2>1, HeldWithFewer
    <2> QED
      BY <1>1, <1>2, <2>1, <2>2, ActedGoing
  <1>6. ASSUME NEW f \in Slot, luaA_class_connect_signal_from_stack(f) PROVE SignalInv'
    <2>1. /\ emitting' = Nested([Emission(Note, <<f>>) EXCEPT !.then = f])
          /\ UNCHANGED <<slots, counts, valid>>
      BY <1>6 DEF luaA_class_connect_signal_from_stack
    <2>2. <<f>> \in Seq(Piece)
      BY DEF Piece
    <2>3. PICK e \in Going : e = Emission(Note, <<f>>)
      BY <2>2, Begins, ThingsAssumption
    <2>4. [e EXCEPT !.then = f] \in Going
      BY NotedBeside
    <2>5. emitting' \in Seq(Going)
      BY <2>1, <2>3, <2>4, ActedGoing
    <2> QED
      BY <1>1, <1>2, <1>3, <2>1, <2>5
  <1>7. ASSUME NEW x \in Thing, luaA_object_emit_signal(x) PROVE SignalInv'
    <2>1. emitting' = Nested(Emission(x, ArgsFor(x))) /\ UNCHANGED <<slots, counts, valid>>
      BY <1>7 DEF luaA_object_emit_signal
    <2>2. ArgsFor(x) \in Seq(Piece)
      <3>1. PICK n \in Nat : n = Len(emitting) + 1
        BY <1>1, LenProperties
      <3>2. \A i \in 1..n : <<x, i>> \in Piece
        BY DEF Piece
      <3>3. ArgsFor(x) = [i \in 1..n |-> <<x, i>>]
        BY <3>1 DEF ArgsFor
      <3>4. ArgsFor(x) \in [1..n -> Piece]
        BY <3>2, <3>3
      <3> QED
        BY <3>4, SeqDef
    <2>3. emitting' \in Seq(Going)
      BY <2>1, <2>2, Begins, ActedGoing
    <2> QED
      BY <1>1, <1>2, <1>3, <2>1, <2>3
  <1>8. ASSUME NEW x \in Objects, Invalidate(x) PROVE SignalInv'
    <2>1. valid' = valid \ {x} /\ emitting' = Acted /\ UNCHANGED <<slots, counts>>
      BY <1>8 DEF Invalidate
    <2>2. valid' \subseteq Objects /\ emitting' \in Seq(Going)
      BY <1>1, <2>1, ActedGoing
    <2> QED
      BY <1>2, <1>3, <2>1, <2>2
  <1>9. ASSUME NEW x \in Objects, luaA_class_gc(x) PROVE SignalInv'
    <2>1. /\ slots' = [slots EXCEPT ![x] = <<>>]
          /\ counts' = [counts EXCEPT ![x] = [f \in Slot |-> 0]]
          /\ valid' = valid \cup {x} /\ emitting' = emitting
      BY <1>9 DEF luaA_class_gc
    <2>2. x \in Thing /\ x \in Stores /\ x # Class /\ x # Note /\ x # Registry
      BY ThingsAssumption DEF Objects, Stores, Registry
    <2>3. /\ slots' \in [Thing -> Seq(Slot)] /\ slots'[x] = <<>>
          /\ \A y \in Thing : y # x => slots'[y] = slots[y]
      <3>1. <<>> \in Seq(Slot)
        BY EmptySeq
      <3> QED
        BY <1>1, <2>1, <2>2, <3>1
    <2>4. /\ counts' \in [Stores -> [Slot -> Nat]] /\ \A f \in Slot : counts'[x][f] = 0
          /\ \A y \in Stores : y # x => counts'[y] = counts[y]
      BY <1>1, <2>1, <2>2
    <2>5. ASSUME NEW f \in Slot, NEW y \in Objects PROVE counts'[y][f] = Tally(slots'[y], f)
      <3>1. y \in Thing /\ y \in Stores /\ counts[y][f] = Tally(slots[y], f)
        BY <1>1 DEF HeldFor, Objects, Stores
      <3>2. CASE y = x
        <4>1. Tally(<<>>, f) = 0
          BY TallyOfNone
        <4> QED
          BY <2>3, <2>4, <3>2, <4>1
      <3>3. CASE y # x
        BY <2>3, <2>4, <3>1, <3>3
      <3> QED
        BY <3>2, <3>3
    <2>6. ASSUME NEW f \in Slot
          PROVE  counts'[Registry][f] = Tally(slots'[Class], f) + Tally(slots'[Note], f)
      <3>1. /\ counts[Registry][f] = Tally(slots[Class], f) + Tally(slots[Note], f)
            /\ Class \in Thing /\ Note \in Thing /\ Registry \in Stores
        BY <1>1, ThingsAssumption DEF HeldFor, Stores
      <3> QED
        BY <2>2, <2>3, <2>4, <3>1
    <2>7. HeldFor(slots', counts')
      BY <2>5, <2>6 DEF HeldFor
    <2> QED
      BY <1>1, <1>2, <2>1, <2>3, <2>4, <2>7
  <1>10. ASSUME Call PROVE SignalInv'
    <2>0. PICK n : n = Len(emitting)
      OBVIOUS
    <2>1. PICK e \in Going : e = emitting[n]
      BY <1>1, <1>10, <2>0, StillGoing DEF Call
    <2>2. /\ ~e.busy /\ e.i < e.m /\ emitting' = [emitting EXCEPT ![n] = Calling(e)]
          /\ UNCHANGED <<slots, counts, valid>>
      BY <1>10, <2>0, <2>1 DEF Call, Top
    <2>3. Calling(e) \in Going
      BY <2>2, CallsNext
    <2>4. emitting' \in Seq(Going)
      BY <1>1, <1>10, <2>0, <2>2, <2>3, StillGoing DEF Call
    <2> QED
      BY <1>1, <1>2, <1>3, <2>2, <2>4
  <1>11. ASSUME Return PROVE SignalInv'
    <2>0. PICK n : n = Len(emitting)
      OBVIOUS
    <2>1. PICK e \in Going : e = emitting[n]
      BY <1>1, <1>11, <2>0, StillGoing DEF Return, InFunction
    <2>2. PICK g : g = [e EXCEPT !.busy = FALSE, !.called = NoFunc]
      OBVIOUS
    <2>3. emitting' = [emitting EXCEPT ![n] = g] /\ UNCHANGED <<slots, counts, valid>>
      <3>1. /\ emitting' = [emitting EXCEPT ![n].busy = FALSE, ![n].called = NoFunc]
            /\ UNCHANGED <<slots, counts, valid>>
        BY <1>11, <2>0 DEF Return
      <3>2. [emitting EXCEPT ![n].busy = FALSE, ![n].called = NoFunc] = [emitting EXCEPT ![n] = g]
        <4>1. PICK k \in Nat : k = n /\ k \in 1..Len(emitting)
          <5>1. Len(emitting) \in Nat /\ Len(emitting) # 0
            BY <1>1, <1>11, EmptySeq, LenProperties DEF Return, InFunction
          <5> QED
            BY <2>0, <5>1
        <4>2. DOMAIN emitting = 1..Len(emitting)
          BY <1>1, LenProperties
        <4>3. PICK s : s = [emitting EXCEPT ![n].busy = FALSE]
          OBVIOUS
        <4>4. s = [emitting EXCEPT ![n] = [e EXCEPT !.busy = FALSE]]
          BY <2>1, <4>3
        <4>5. s[n] = [e EXCEPT !.busy = FALSE] /\ DOMAIN s = DOMAIN emitting
          BY <4>1, <4>2, <4>4
        <4>6. [s EXCEPT ![n].called = NoFunc] = [s EXCEPT ![n] = g]
          BY <2>2, <4>5
        <4> QED
          BY <4>3, <4>4, <4>6
      <3> QED
        BY <3>1, <3>2
    <2>4. g \in Going
      BY <2>2, NotedBeside
    <2>5. emitting' \in Seq(Going)
      BY <1>1, <1>11, <2>0, <2>3, <2>4, StillGoing DEF Return, InFunction
    <2> QED
      BY <1>1, <1>2, <1>3, <2>3, <2>5
  <1>12. ASSUME EmissionEnds PROVE SignalInv'
    <2>0. PICK n : n = Len(emitting)
      OBVIOUS
    <2>1. PICK e \in Going : e = emitting[n] /\ e = Top
      BY <1>1, <1>12, <2>0, StillGoing DEF EmissionEnds, Top
    <2>2. PICK rest \in Seq(Going) : rest = Front(emitting)
      BY <1>1, <1>12, StillGoing DEF EmissionEnds
    <2>3. e.did \in Nat /\ e.on \in Thing /\ e.args \in Seq(Piece) /\ e.then \in Slot \cup {NoFunc}
      BY NotedBeside
    <2>4. emitting' \in Seq(Going)
      <3>1. emitting' = IF e.on \in Objects
                        THEN Append(rest, [Emission(Class, <<e.on>> \o e.args) EXCEPT !.did = e.did])
                        ELSE rest
        BY <1>12, <2>1, <2>2 DEF EmissionEnds
      <3>2. <<e.on>> \o e.args \in Seq(Piece)
        <4>1. PICK o : o = <<e.on>>
          OBVIOUS
        <4>2. o \in Seq(Piece)
          BY <2>3, <4>1 DEF Piece
        <4> QED
          BY <2>3, <4>1, <4>2, ConcatProperties
      <3>3. PICK g \in Going : g = Emission(Class, <<e.on>> \o e.args)
        BY <3>2, Begins, ThingsAssumption
      <3>4. [g EXCEPT !.did = e.did] \in Going
        BY <2>3, NotedBeside
      <3>5. Append(rest, [g EXCEPT !.did = e.did]) \in Seq(Going)
        BY <3>4, AppendProperties
      <3> QED
        BY <3>1, <3>3, <3>5
    <2>5. /\ slots' \in [Thing -> Seq(Slot)] /\ counts' \in [Stores -> [Slot -> Nat]]
          /\ HeldFor(slots', counts')
      <3>1. CASE e.then = NoFunc
        <4>1. UNCHANGED <<slots, counts>>
          BY <1>12, <2>1, <3>1 DEF EmissionEnds
        <4> QED
          BY <1>3, <4>1
      <3>2. CASE e.then # NoFunc
        <4>1. PICK f \in Slot : f = e.then
          BY <2>3, <3>2
        <4>2. slots' = [slots EXCEPT ![Class] = Append(@, f)] /\ counts' = incref(Class, f)
          BY <1>12, <2>1, <3>2, <4>1 DEF EmissionEnds
        <4> QED
          BY <4>2, HeldWithMore, ThingsAssumption
      <3> QED
        BY <3>1, <3>2
    <2>6. valid' = valid
      BY <1>12 DEF EmissionEnds
    <2> QED
      BY <1>1, <1>2, <2>4, <2>5, <2>6
  <1>13. ASSUME luaA_class_cleanup_all PROVE SignalInv'
    <2>1. /\ slots' = [x \in Thing |-> <<>>] /\ counts' = [s \in Stores |-> [f \in Slot |-> 0]]
          /\ valid' = Objects /\ emitting' = emitting
      BY <1>13 DEF luaA_class_cleanup_all
    <2>2. slots' \in [Thing -> Seq(Slot)] /\ counts' \in [Stores -> [Slot -> Nat]]
      <3>1. <<>> \in Seq(Slot)
        BY EmptySeq
      <3> QED
        BY <2>1, <3>1
    <2>3. HeldFor(slots', counts')
      BY <2>1, TallyOfNone, ThingsAssumption DEF HeldFor, Stores, Objects, Registry
    <2> QED
      BY <1>1, <1>2, <2>1, <2>2, <2>3
  <1>14. CASE UNCHANGED signalVars
    BY <1>1, <1>2, <1>3, <1>14 DEF signalVars
  <1> QED
    BY <1>4, <1>5, <1>6, <1>7, <1>8, <1>9, <1>10, <1>11, <1>12, <1>13, <1>14 DEF SignalNext

LEMMA GoingAreCalled == SignalInv => SlotsAreHeld /\ CalledAsConnected
  <1> SUFFICES ASSUME SignalInv, NEW k \in DOMAIN emitting
               PROVE  LET e == emitting[k]
                      IN /\ NoFunc \notin ToSet(e.due)
                         /\ e.busy => e.called = <<e.due[e.i],
                                          IF e.on \in Objects THEN <<e.on>> \o e.args ELSE e.args>>
    BY DEF CalledAsConnected, SignalInv
  <1>1. PICK e \in Going : e = emitting[k]
    <2>1. k \in 1..Len(emitting)
      BY LenProperties DEF SignalInv
    <2> QED
      BY <2>1, ElementOfSeq DEF SignalInv
  <1>2. e.due \in Seq(Slot)
    BY DEF Going
  <1>3. NoFunc \notin ToSet(e.due)
    <2>1. \A i \in DOMAIN e.due : e.due[i] \in Slot
      BY <1>2, LenProperties, ElementOfSeq
    <2> QED
      BY <2>1, NoFuncAssumption DEF ToSet
  <1> QED
    BY <1>1, <1>3 DEF Going

(* A function is held as often as it is connected, while an emission whose   *)
(* functions connect and disconnect runs; and each that was connected when   *)
(* the emission began is called, in turn, with its arguments (luaobject.c,   *)
(* luaclass.c, common/signal.h).                                             *)
THEOREM ConnectedAreCalled == SignalSpec => [](SlotsAreHeld /\ CalledAsConnected)
  BY SignalStarts, SignalSteps, GoingAreCalled, PTL DEF SignalSpec

-----------------------------------------------------------------------------
(* Outputs.  Of each output a handler has heard what HasHeard says: all that *)
(* is listed and not queued when it is connected, what its loop gave it      *)
(* while it is being connected.  A loop stands after as many objects of the  *)
(* list as it gave, and what is asked for first is still ahead of it.        *)

OutShape ==
    /\ whose \in Seq(Port \cup {Virtual}) /\ Len(whose) <= MaxMade
    /\ outs \in Seq(1..Len(whose)) /\ IsInjective(outs)
    /\ plugged \subseteq Port /\ IsFiniteSet(plugged) /\ connected \subseteq Handler
    /\ hears \in [Handler -> [Object -> {<<>>, <<"added">>, <<"added", "removed">>}]]

\* At most one "added" is queued, of the newest output, which is still there.
OneQueued ==
    queued = <<>> \/ (walk = NoLoop /\ queued = <<Len(whose)>> /\ Len(whose) \in Listed)

\* The first k objects of the list are those that were given.
Reached(k, w, s) ==
    /\ w.given = {s[i] : i \in 1..k}
    /\ w.by = Lua => w.at = IF k = 0 THEN 0 ELSE s[k]
    /\ w.by # Lua => w.at = k + 1

Walks == [by : Handler \cup {Lua, NoLooper}, at : Int, given : SUBSET Object, there : SUBSET Object]
WalkInv ==
    /\ walk \in Walks
    /\ walk.by = NoLooper => walk = NoLoop
    /\ walk.there \subseteq Listed
    /\ walk.at = Ended => walk.there \subseteq walk.given
    /\ walk.by # NoLooper /\ walk.at # Ended => \E k \in 0..Len(outs) : Reached(k, walk, outs)
    /\ walk.by \in Handler => (walk.by \in connected <=> walk.at = Ended)

\* Who is connected has heard of all but the one that is queued, who is being connected
\* of those it was given.
HasHeard(h) == IF h \in connected THEN Listed \ ToSet(queued)
           ELSE IF h = walk.by THEN Listed \cap walk.given ELSE {}
ToldInv ==
    \A h \in Handler, o \in Object :
        /\ o \notin 1..Len(whose) => hears[h][o] = <<>>
        /\ o \in Listed => hears[h][o] = IF o \in HasHeard(h) THEN <<"added">> ELSE <<>>

Monitored ==
    /\ \A m \in plugged : \E o \in Listed : whose[o] = m
    /\ \A o, p \in Listed : whose[o] = whose[p] /\ whose[o] # Virtual => o = p
    /\ \A o \in Listed : whose[o] \in plugged \cup {Virtual}

OutputInv == OutShape /\ OneQueued /\ WalkInv /\ ToldInv /\ Monitored

LEMMA OutsAre == OutShape => /\ Len(whose) \in Nat /\ Len(outs) \in Nat
                             /\ Listed = {outs[i] : i \in 1..Len(outs)} /\ Listed \subseteq 1..Len(whose)
                             /\ Len(whose) <= MaxMade /\ 1..Len(whose) \subseteq Object
                             /\ \A i, j \in 1..Len(outs) : outs[i] = outs[j] => i = j
                             /\ \A i \in 1..Len(outs) : outs[i] \in Listed
                             /\ \A o \in 1..Len(whose) : whose[o] \in Port \cup {Virtual}
  <1> SUFFICES ASSUME OutShape
               PROVE  /\ Len(whose) \in Nat /\ Len(outs) \in Nat
                      /\ Listed = {outs[i] : i \in 1..Len(outs)} /\ Listed \subseteq 1..Len(whose)
                      /\ Len(whose) <= MaxMade /\ 1..Len(whose) \subseteq Object
                      /\ \A i, j \in 1..Len(outs) : outs[i] = outs[j] => i = j
                      /\ \A i \in 1..Len(outs) : outs[i] \in Listed
                      /\ \A o \in 1..Len(whose) : whose[o] \in Port \cup {Virtual}
    OBVIOUS
  <1>1. whose \in Seq(Port \cup {Virtual}) /\ outs \in Seq(1..Len(whose)) /\ Len(whose) <= MaxMade
    BY DEF OutShape
  <1>2. Len(whose) \in Nat /\ Len(outs) \in Nat
    BY <1>1, LenProperties
  <1>3. /\ Listed = {outs[i] : i \in 1..Len(outs)} /\ Listed \subseteq 1..Len(whose)
        /\ \A i, j \in 1..Len(outs) : outs[i] = outs[j] => i = j
    BY <1>1, ToSetIs DEF OutShape, Listed
  <1>4. \A o \in 1..Len(whose) : whose[o] \in Port \cup {Virtual}
    BY <1>1, ElementOfSeq
  <1>5. 1..Len(whose) \subseteq Object
    BY <1>1, <1>2, MadeAssumption DEF Object
  <1> QED
    BY <1>1, <1>2, <1>3, <1>4, <1>5

\* An object that is made.
LEMMA OutputMade ==
    ASSUME OutShape, NEW of \in Port \cup {Virtual}, luaA_output_new(of)
    PROVE  /\ whose' \in Seq(Port \cup {Virtual}) /\ outs' \in Seq(1..Len(whose')) /\ IsInjective(outs')
           /\ Len(whose') = Len(whose) + 1 /\ Len(whose') <= MaxMade
           /\ Listed' = Listed \cup {Len(whose')} /\ Len(whose') \notin Listed
           /\ whose'[Len(whose')] = of /\ \A o \in 1..Len(whose) : whose'[o] = whose[o]
           /\ Len(outs') = Len(outs) + 1 /\ \A i \in 1..Len(outs) : outs'[i] = outs[i]
  <1>1. /\ Len(whose) \in Nat /\ Len(outs) \in Nat /\ Listed \subseteq 1..Len(whose)
        /\ whose \in Seq(Port \cup {Virtual}) /\ outs \in Seq(1..Len(whose)) /\ IsInjective(outs)
    BY OutsAre DEF OutShape
  <1>2. PICK n \in Nat : n = Len(whose) + 1
    BY <1>1
  <1>3. n <= MaxMade /\ whose' = Append(whose, of) /\ outs' = Append(outs, n)
    BY <1>2, MadeAssumption DEF luaA_output_new, NextObject, Object
  <1>4. /\ whose' \in Seq(Port \cup {Virtual}) /\ Len(whose') = n /\ whose'[n] = of
        /\ \A o \in 1..Len(whose) : whose'[o] = whose[o]
    BY <1>1, <1>2, <1>3, AppendProperties
  <1>5. 1..Len(whose) \subseteq 1..n /\ n \in 1..n /\ n \notin 1..Len(whose)
    BY <1>1, <1>2
  <1>6. outs \in Seq(1..n) /\ n \notin Listed
    BY <1>1, <1>5, SeqMonotonic
  <1>7. Lists(outs', 1..n, Listed \cup {n})
    BY <1>1, <1>3, <1>5, <1>6, WithOne DEF Listed
  <1>8. Len(outs') = Len(outs) + 1 /\ \A i \in 1..Len(outs) : outs'[i] = outs[i]
    BY <1>3, <1>6, AppendProperties
  <1> QED
    BY <1>1, <1>2, <1>3, <1>4, <1>6, <1>7, <1>8 DEF Lists, Listed

\* One that goes: those before it in the list stay where they are.
LEMMA OutputGone ==
    ASSUME OutShape, NEW o \in Listed, outs' = WithoutOutput(o), whose' = whose
    PROVE  /\ outs' \in Seq(1..Len(whose')) /\ IsInjective(outs') /\ Listed' = Listed \ {o}
           /\ \A k \in 0..Len(outs) : o \notin {outs[i] : i \in 1..k} =>
                 k <= Len(outs') /\ \A i \in 1..k : outs'[i] = outs[i]
  <1>1. /\ Len(outs) \in Nat /\ Listed = {outs[i] : i \in 1..Len(outs)}
        /\ outs \in Seq(1..Len(whose)) /\ IsInjective(outs)
    BY OutsAre DEF OutShape
  <1>2. outs' = RemoveFirst(outs, o)
    BY DEF WithoutOutput
  <1>3. outs' \in Seq(1..Len(whose)) /\ IsInjective(outs') /\ ToSet(outs') = ToSet(outs) \ {o}
    BY <1>1, <1>2, WithoutOne
  <1>4. PICK g \in 1..Len(outs) : outs[g] = o /\ outs' = RemoveAt(outs, g)
    BY <1>1, <1>2, FirstRemoved
  <1>5. /\ Len(outs') = Len(outs) - 1
        /\ \A j \in 1..Len(outs) - 1 : outs'[j] = IF j < g THEN outs[j] ELSE outs[j + 1]
    <2>1. /\ Len(RemoveAt(outs, g)) = Len(outs) - 1
          /\ \A j \in 1..(Len(outs) - 1) :
                RemoveAt(outs, g)[j] = IF j < g THEN outs[j] ELSE outs[j + 1]
      BY <1>1, RemovedAt
    <2> QED
      BY <1>4, <2>1
  <1>6. ASSUME NEW k \in 0..Len(outs), o \notin {outs[i] : i \in 1..k}
        PROVE  k <= Len(outs') /\ \A i \in 1..k : outs'[i] = outs[i]
    <2>1. g \notin 1..k
      BY <1>4, <1>6
    <2>2. k < g /\ k <= Len(outs) - 1
      BY <1>1, <2>1
    <2>3. ASSUME NEW i \in 1..k PROVE outs'[i] = outs[i]
      <3>1. i \in 1..Len(outs) - 1 /\ i < g
        BY <1>1, <2>2
      <3> QED
        BY <1>5, <3>1
    <2> QED
      BY <1>5, <2>2, <2>3
  <1> QED
    BY <1>3, <1>6 DEF Listed

LEMMA WalksAre ==
    /\ NoLoop \in Walks
    /\ NoLoop.by = NoLooper /\ NoLoop.at = 0 /\ NoLoop.given = {} /\ NoLoop.there = {}
    /\ NoLooper # Lua /\ NoLooper \notin Handler /\ Lua \notin Handler /\ Ended # 0 /\ Virtual \notin Port
  BY HandlerAssumption, PortAssumption DEF Walks, NoLoop, NoLooper, Lua, Ended, Virtual

GoesOn(w, a, o) == w = [walk EXCEPT !.at = a, !.given = @ \cup {o}]

LEMMA WalkGoes ==
    ASSUME NEW a \in Int, NEW o \in Object, NEW w, walk \in Walks, GoesOn(w, a, o)
    PROVE  /\ w \in Walks /\ w.by = walk.by /\ w.at = a
           /\ w.given = walk.given \cup {o} /\ w.there = walk.there
  BY DEF Walks, GoesOn

LEMMA WalkOver ==
    ASSUME NEW w, walk \in Walks, w = [walk EXCEPT !.at = Ended]
    PROVE  /\ w \in Walks /\ w.by = walk.by /\ w.at = Ended
           /\ w.given = walk.given /\ w.there = walk.there
  BY DEF Walks, Ended

\* Emissions go to who is connected.
LEMMA EmittedIs ==
    ASSUME OutShape, NEW what, NEW o \in Object, NEW r, r = Emitted(what, o)
    PROVE  \A h \in Handler, p \in Object :
              r[h][p] = IF h \in connected /\ p = o THEN Append(hears[h][p], what) ELSE hears[h][p]
  BY DEF OutShape, Emitted

LEMMA OneMore ==
    ASSUME NEW S, NEW x \in S, NEW y \in S
    PROVE  Append(<<>>, x) = <<x>> /\ Append(<<x>>, y) = <<x, y>>
  <1>1. PICK s, t : s = Append(<<x>>, y) /\ t = <<x, y>>
    OBVIOUS
  <1>2. s \in Seq(S) /\ Len(s) = 2 /\ s[1] = x /\ s[2] = y
    BY <1>1
  <1>3. t \in Seq(S) /\ Len(t) = 2 /\ t[1] = x /\ t[2] = y
    BY <1>1
  <1>4. s = t
    BY <1>2, <1>3, SeqEqual
  <1>5. Append(<<>>, x) = <<x>>
    OBVIOUS
  <1> QED
    BY <1>1, <1>4, <1>5

LEMMA EmittedIsHeard ==
    ASSUME OutShape, NEW what \in {"added", "removed"}, NEW o \in Object,
           \A h \in connected : hears[h][o] = IF what = "added" THEN <<>> ELSE <<"added">>
    PROVE  Emitted(what, o) \in [Handler -> [Object -> {<<>>, <<"added">>, <<"added", "removed">>}]]
  <1> DEFINE H == {<<>>, <<"added">>, <<"added", "removed">>}
  <1>1. Append(<<>>, "added") = <<"added">> /\ Append(<<"added">>, "removed") = <<"added", "removed">>
    <2>1. PICK S : S = {"added", "removed"}
      OBVIOUS
    <2>2. "added" \in S /\ "removed" \in S
      BY <2>1
    <2> QED
      BY <2>2, OneMore
  <1>2. hears \in [Handler -> [Object -> H]] /\ connected \subseteq Handler
    BY DEF OutShape
  <1>3. \A h \in connected : Append(hears[h][o], what) \in H
    BY <1>1
  <1> HIDE DEF H
  <1>4. \A h \in connected : [hears[h] EXCEPT ![o] = Append(@, what)] \in [Object -> H]
    BY <1>2, <1>3
  <1>5. Emitted(what, o) \in [Handler -> [Object -> H]]
    BY <1>2, <1>4 DEF Emitted
  <1> QED
    BY <1>5 DEF H

LEMMA NoneQueued == queued = <<>> => ToSet(queued) = {}
  BY DEF ToSet

LEMMA Invalidated ==
    ASSUME OutputInv, NEW o \in Listed, luaA_output_invalidate(o), o \notin walk.given,
           queued = <<>>, queued' = queued, whose' = whose, connected' = connected,
           plugged' \subseteq Port, IsFiniteSet(plugged')
    PROVE  OutShape' /\ OneQueued' /\ WalkInv' /\ ToldInv' /\ Listed' = Listed \ {o}
  <1>1. OutShape /\ WalkInv /\ ToldInv
    BY DEF OutputInv
  <1>2. /\ outs' = WithoutOutput(o) /\ hears' = Emitted("removed", o)
        /\ walk' = [walk EXCEPT !.there = @ \ {o}]
    BY DEF luaA_output_invalidate
  <1>3. /\ outs' \in Seq(1..Len(whose')) /\ IsInjective(outs') /\ Listed' = Listed \ {o}
        /\ \A k \in 0..Len(outs) : o \notin {outs[i] : i \in 1..k} =>
              k <= Len(outs') /\ \A i \in 1..k : outs'[i] = outs[i]
    BY <1>1, <1>2, OutputGone
  <1>4. /\ Listed \subseteq 1..Len(whose) /\ 1..Len(whose) \subseteq Object /\ o \in Object
        /\ connected \subseteq Handler
    BY <1>1, OutsAre DEF OutShape
  <1>5. ToSet(queued) = {} /\ ToSet(queued') = {}
    BY NoneQueued
  <1>6. \A h \in connected : hears[h][o] = <<"added">>
    BY <1>1, <1>4, <1>5 DEF ToldInv, HasHeard
  <1>7. hears' \in [Handler -> [Object -> {<<>>, <<"added">>, <<"added", "removed">>}]]
    BY <1>1, <1>2, <1>4, <1>6, EmittedIsHeard
  <1>8. OutShape'
    BY <1>1, <1>3, <1>7 DEF OutShape
  <1>9. OneQueued'
    BY DEF OneQueued
  <1>10. /\ walk \in Walks
         /\ walk' \in Walks
         /\ walk'.by = walk.by /\ walk'.at = walk.at /\ walk'.given = walk.given
         /\ walk'.there = walk.there \ {o}
    BY <1>1, <1>2 DEF WalkInv, Walks
  <1>11. walk.by = NoLooper => walk' = NoLoop
    BY <1>1, <1>2, WalksAre DEF WalkInv, NoLoop
  <1>12. ASSUME NEW k \in 0..Len(outs), Reached(k, walk, outs)
         PROVE  k \in 0..Len(outs') /\ Reached(k, walk', outs')
    <2>1. walk.given = {outs[i] : i \in 1..k}
      BY <1>12 DEF Reached
    <2>2. k <= Len(outs') /\ \A i \in 1..k : outs'[i] = outs[i]
      BY <1>3, <2>1
    <2>3. Len(outs') \in Nat /\ Len(outs) \in Nat
      BY <1>1, <1>8, OutsAre, LenProperties DEF OutShape
    <2>4. k \in 0..Len(outs') /\ (k = 0 \/ k \in 1..k)
      BY <2>2, <2>3
    <2>5. {outs'[i] : i \in 1..k} = {outs[i] : i \in 1..k}
      BY <2>2
    <2> QED
      BY <1>10, <1>12, <2>1, <2>2, <2>4, <2>5 DEF Reached
  <1>13. WalkInv'
    BY <1>1, <1>3, <1>10, <1>11, <1>12 DEF WalkInv
  <1>14. ASSUME NEW h \in Handler, NEW p \in Object
         PROVE  /\ p \notin 1..Len(whose') => hears'[h][p] = <<>>
                /\ p \in Listed' => hears'[h][p] = IF p \in HasHeard(h)' THEN <<"added">> ELSE <<>>
    <2>1. p # o => hears'[h][p] = hears[h][p]
      <3>1. PICK r : r = Emitted("removed", o)
        OBVIOUS
      <3>2. r[h][p] = IF h \in connected /\ p = o THEN Append(hears[h][p], "removed") ELSE hears[h][p]
        BY <1>1, <1>4, <3>1, EmittedIs
      <3>3. hears' = r
        BY <1>2, <3>1
      <3> QED
        BY <3>2, <3>3
    <2>2. /\ p \notin 1..Len(whose) => hears[h][p] = <<>>
          /\ p \in Listed => hears[h][p] = IF p \in HasHeard(h) THEN <<"added">> ELSE <<>>
      BY <1>1 DEF ToldInv
    <2>3. p \in Listed' => (p \in HasHeard(h)' <=> p \in HasHeard(h))
      BY <1>3, <1>5, <1>10 DEF HasHeard
    <2> QED
      BY <1>3, <1>4, <2>1, <2>2, <2>3
  <1>15. ToldInv'
    BY <1>14 DEF ToldInv
  <1> QED
    BY <1>3, <1>8, <1>9, <1>13, <1>15

LEMMA WalkStays ==
    ASSUME OutputInv, NEW of \in Port \cup {Virtual}, luaA_output_new(of),
           walk' = walk, connected' = connected
    PROVE  WalkInv'
  <1>1. OutShape /\ WalkInv
    BY DEF OutputInv
  <1>2. /\ outs' \in Seq(1..Len(whose')) /\ Listed' = Listed \cup {Len(whose')}
        /\ Len(outs') = Len(outs) + 1 /\ \A i \in 1..Len(outs) : outs'[i] = outs[i]
    BY <1>1, OutputMade
  <1>3. Len(outs) \in Nat
    BY <1>1, OutsAre
  <1>4. ASSUME NEW k \in 0..Len(outs), Reached(k, walk, outs)
        PROVE  k \in 0..Len(outs') /\ Reached(k, walk', outs')
    <2>1. k \in 0..Len(outs') /\ (k = 0 \/ k \in 1..Len(outs)) /\ \A i \in 1..k : i \in 1..Len(outs)
      BY <1>2, <1>3
    <2>2. \A i \in 1..k : outs'[i] = outs[i]
      BY <1>2, <2>1
    <2>3. {outs'[i] : i \in 1..k} = {outs[i] : i \in 1..k}
      BY <2>2
    <2> QED
      BY <1>2, <1>4, <2>1, <2>3 DEF Reached
  <1> QED
    BY <1>1, <1>2, <1>4 DEF WalkInv

LEMMA CreatesMonitor ==
    ASSUME OutputInv, ~Hasty, NEW m \in Port, createmon(m)
    PROVE  OutputInv'
  <1>1. OutShape /\ WalkInv /\ ToldInv /\ Monitored
    BY DEF OutputInv
  <1>2. /\ walk = NoLoop /\ queued = <<>> /\ m \notin plugged /\ luaA_output_new(m)
        /\ queued' = Append(queued, Len(whose) + 1) /\ plugged' = plugged \cup {m}
        /\ connected' = connected /\ hears' = hears /\ walk' = walk
    BY DEF createmon, Idle, NextObject
  <1>3. /\ whose' \in Seq(Port \cup {Virtual}) /\ outs' \in Seq(1..Len(whose')) /\ IsInjective(outs')
        /\ Len(whose') = Len(whose) + 1 /\ Len(whose') <= MaxMade
        /\ Listed' = Listed \cup {Len(whose')} /\ Len(whose') \notin Listed
        /\ whose'[Len(whose')] = m /\ \A o \in 1..Len(whose) : whose'[o] = whose[o]
    BY <1>1, <1>2, OutputMade
  <1>4. PICK n \in Nat : n = Len(whose') /\ n = Len(whose) + 1 /\ 1..Len(whose) \subseteq 1..n
    BY <1>1, <1>3, OutsAre
  <1>5. Listed \subseteq 1..Len(whose)
    BY <1>1, OutsAre
  <1>6. queued' = <<n>>
    BY <1>2, <1>4
  <1>7. ToSet(queued') = {n} /\ ToSet(queued) = {}
    BY <1>2, <1>6, NoneQueued DEF ToSet
  <1>8. OutShape'
    BY <1>1, <1>2, <1>3, FS_AddElement DEF OutShape
  <1>9. OneQueued'
    BY <1>2, <1>3, <1>4, <1>6 DEF OneQueued
  <1>10. WalkInv'
    BY <1>2, WalkStays
  <1>11. ASSUME NEW h \in Handler, NEW p \in Object
         PROVE  /\ p \notin 1..Len(whose') => hears'[h][p] = <<>>
                /\ p \in Listed' => hears'[h][p] = IF p \in HasHeard(h)' THEN <<"added">> ELSE <<>>
    <2>1. /\ p \notin 1..Len(whose) => hears[h][p] = <<>>
          /\ p \in Listed => hears[h][p] = IF p \in HasHeard(h) THEN <<"added">> ELSE <<>>
      BY <1>1 DEF ToldInv
    <2>2. n \notin 1..Len(whose)
      BY <1>1, <1>4, OutsAre
    <2>3. p \in Listed => p # n /\ (p \in HasHeard(h)' <=> p \in HasHeard(h))
      BY <1>2, <1>3, <1>4, <1>7 DEF HasHeard
    <2>4. n \notin HasHeard(h)'
      BY <1>2, <1>7, WalksAre DEF HasHeard
    <2> QED
      BY <1>2, <1>3, <1>4, <2>1, <2>2, <2>3, <2>4
  <1>12. ToldInv'
    BY <1>11 DEF ToldInv
  <1>13. Monitored'
    <2>1. \A o \in Listed : whose'[o] = whose[o] /\ whose[o] # m
      BY <1>1, <1>2, <1>3, <1>5, WalksAre DEF Monitored
    <2>2. n \in Listed' /\ whose'[n] = m /\ \A o \in Listed' : o \in Listed \/ o = n
      BY <1>3, <1>4
    <2>3. Listed \subseteq Listed'
      BY <1>3
    <2> QED
      BY <1>1, <1>2, <2>1, <2>2, <2>3 DEF Monitored
  <1> QED
    BY <1>8, <1>9, <1>10, <1>12, <1>13 DEF OutputInv

LEMMA AddsFake ==
    ASSUME OutputInv, ~Hasty, luaA_screen_fake_add
    PROVE  OutputInv'
  <1>1. OutShape /\ WalkInv /\ ToldInv /\ Monitored /\ OneQueued
    BY DEF OutputInv
  <1>2. /\ Idle \/ walk.by # NoLooper
        /\ luaA_output_new(Virtual) /\ hears' = Emitted("added", Len(whose) + 1)
        /\ plugged' = plugged /\ queued' = queued /\ connected' = connected /\ walk' = walk
    BY DEF luaA_screen_fake_add, NextObject
  <1>3. queued = <<>>
    BY <1>1, <1>2, WalksAre DEF Idle, OneQueued
  <1>4. /\ whose' \in Seq(Port \cup {Virtual}) /\ outs' \in Seq(1..Len(whose')) /\ IsInjective(outs')
        /\ Len(whose') = Len(whose) + 1 /\ Len(whose') <= MaxMade
        /\ Listed' = Listed \cup {Len(whose')} /\ Len(whose') \notin Listed
        /\ whose'[Len(whose')] = Virtual /\ \A o \in 1..Len(whose) : whose'[o] = whose[o]
    BY <1>1, <1>2, OutputMade
  <1>5. PICK n \in Nat : /\ n = Len(whose') /\ n = Len(whose) + 1 /\ 1..Len(whose) \subseteq 1..n
                         /\ n \notin 1..Len(whose) /\ n \in Object
    BY <1>1, <1>4, OutsAre, MadeAssumption DEF Object
  <1>6. Listed \subseteq 1..Len(whose)
    BY <1>1, OutsAre
  <1>7. ToSet(queued') = {} /\ ToSet(queued) = {}
    BY <1>2, <1>3, NoneQueued
  <1>8. \A h \in Handler : hears[h][n] = <<>>
    BY <1>1, <1>5 DEF ToldInv
  <1>9. hears' \in [Handler -> [Object -> {<<>>, <<"added">>, <<"added", "removed">>}]]
    <2>1. \A h \in connected : hears[h][n] = <<>>
      BY <1>1, <1>8 DEF OutShape
    <2> QED
      BY <1>1, <1>2, <1>5, <2>1, EmittedIsHeard
  <1>10. OutShape'
    BY <1>1, <1>2, <1>4, <1>9 DEF OutShape
  <1>11. OneQueued'
    BY <1>2, <1>3 DEF OneQueued
  <1>12. WalkInv'
    BY <1>2, WalkStays
  <1>13. ASSUME NEW h \in Handler, NEW p \in Object
         PROVE  /\ p \notin 1..Len(whose') => hears'[h][p] = <<>>
                /\ p \in Listed' => hears'[h][p] = IF p \in HasHeard(h)' THEN <<"added">> ELSE <<>>
    <2>1. /\ p \notin 1..Len(whose) => hears[h][p] = <<>>
          /\ p \in Listed => hears[h][p] = IF p \in HasHeard(h) THEN <<"added">> ELSE <<>>
      BY <1>1 DEF ToldInv
    <2>2. hears'[h][p] = IF h \in connected /\ p = n THEN Append(hears[h][p], "added") ELSE hears[h][p]
      <3>1. PICK r : r = Emitted("added", n)
        OBVIOUS
      <3>2. r[h][p] = IF h \in connected /\ p = n THEN Append(hears[h][p], "added") ELSE hears[h][p]
        BY <1>1, <1>5, <3>1, EmittedIs
      <3>3. hears' = r
        BY <1>2, <1>5, <3>1
      <3> QED
        BY <3>2, <3>3
    <2>3. p \in Listed => p # n /\ (p \in HasHeard(h)' <=> p \in HasHeard(h))
      BY <1>2, <1>4, <1>5, <1>7 DEF HasHeard
    <2>4. n \in HasHeard(h)' <=> h \in connected
      <3>1. h = walk.by => n \notin walk.given \/ h \in connected
        <4> SUFFICES ASSUME h = walk.by, h \notin connected PROVE n \notin walk.given
          OBVIOUS
        <4>1. walk.by # NoLooper /\ walk.at # Ended
          BY <1>1, WalksAre DEF WalkInv
        <4>2. PICK k \in 0..Len(outs) : Reached(k, walk, outs)
          BY <1>1, <4>1 DEF WalkInv
        <4>3. \A i \in 1..k : i \in 1..Len(outs)
          BY <1>1, OutsAre
        <4>4. walk.given \subseteq Listed
          BY <1>1, <4>2, <4>3, OutsAre DEF Reached
        <4> QED
          BY <1>5, <1>6, <4>4
      <3> QED
        BY <1>2, <1>4, <1>5, <1>7, <3>1 DEF HasHeard
    <2>5. p = n => Append(hears[h][p], "added") = <<"added">>
      <3>1. Append(<<>>, "added") = <<"added">>
        OBVIOUS
      <3> QED
        BY <1>8, <3>1
    <2>6. p \notin 1..Len(whose') => p \notin 1..Len(whose) /\ p # n
      BY <1>5
    <2>7. p \in Listed' => p \in Listed \/ p = n
      BY <1>4, <1>5
    <2>8. CASE p = n
      BY <1>8, <2>2, <2>4, <2>5, <2>6, <2>8
    <2>9. CASE p # n
      BY <2>1, <2>2, <2>3, <2>6, <2>7, <2>9
    <2> QED
      BY <2>8, <2>9
  <1>14. ToldInv'
    BY <1>13 DEF ToldInv
  <1>15. Monitored'
    <2>1. \A o \in Listed : whose'[o] = whose[o]
      BY <1>4, <1>6
    <2>2. n \in Listed' /\ whose'[n] = Virtual /\ \A o \in Listed' : o \in Listed \/ o = n
      BY <1>4, <1>5
    <2>3. Listed \subseteq Listed'
      BY <1>4
    <2> QED
      BY <1>1, <1>2, <2>1, <2>2, <2>3 DEF Monitored
  <1> QED
    BY <1>10, <1>11, <1>12, <1>14, <1>15 DEF OutputInv

LEMMA RemovesFake ==
    ASSUME OutputInv, ~Hasty, ~Meddles, NEW o \in Object, luaA_screen_fake_remove(o)
    PROVE  OutputInv'
  <1>1. OutShape /\ WalkInv /\ Monitored /\ OneQueued
    BY DEF OutputInv
  <1>2. /\ Idle \/ (walk.by # NoLooper /\ o \notin walk.given)
        /\ o \in Listed /\ whose[o] = Virtual /\ luaA_output_invalidate(o)
        /\ whose' = whose /\ plugged' = plugged /\ queued' = queued /\ connected' = connected
    BY DEF luaA_screen_fake_remove
  <1>3. queued = <<>> /\ o \notin walk.given
    BY <1>1, <1>2, WalksAre DEF Idle, OneQueued
  <1>4. OutShape' /\ OneQueued' /\ WalkInv' /\ ToldInv' /\ Listed' = Listed \ {o}
    BY <1>1, <1>2, <1>3, Invalidated DEF OutShape
  <1>5. Monitored'
    BY <1>1, <1>2, <1>4, WalksAre DEF Monitored, OutShape
  <1> QED
    BY <1>4, <1>5 DEF OutputInv

LEMMA CleansUp ==
    ASSUME OutputInv, ~Hasty, NEW m \in Port, cleanupmon(m)
    PROVE  OutputInv'
  <1>1. OutShape /\ WalkInv /\ Monitored /\ OneQueued
    BY DEF OutputInv
  <1>2. PICK o \in Listed : whose[o] = m /\ luaA_output_invalidate(o)
    BY DEF cleanupmon
  <1>3. /\ walk = NoLoop /\ queued = <<>> /\ m \in plugged /\ plugged' = plugged \ {m}
        /\ whose' = whose /\ queued' = queued /\ connected' = connected
    BY DEF cleanupmon, Idle
  <1>4. o \notin walk.given /\ m # Virtual
    BY <1>3, WalksAre
  <1>5. plugged' \subseteq Port /\ IsFiniteSet(plugged')
    BY <1>1, <1>3, FS_RemoveElement DEF OutShape
  <1>6. OutShape' /\ OneQueued' /\ WalkInv' /\ ToldInv' /\ Listed' = Listed \ {o}
    BY <1>2, <1>3, <1>4, <1>5, Invalidated
  <1>7. Monitored'
    BY <1>1, <1>2, <1>3, <1>4, <1>6 DEF Monitored
  <1> QED
    BY <1>6, <1>7 DEF OutputInv

LEMMA DrainsAdded ==
    ASSUME OutputInv, some_event_queue_drain
    PROVE  OutputInv'
  <1>1. OutShape /\ WalkInv /\ ToldInv /\ Monitored /\ OneQueued
    BY DEF OutputInv
  <1>2. /\ queued # <<>> /\ hears' = Emitted("added", Head(queued)) /\ queued' = Tail(queued)
        /\ outs' = outs /\ whose' = whose /\ plugged' = plugged /\ connected' = connected
        /\ walk' = walk
    BY DEF some_event_queue_drain
  <1>3. PICK n \in Listed : n = Len(whose) /\ queued = <<n>> /\ walk = NoLoop
    BY <1>1, <1>2 DEF OneQueued
  <1>4. n \in Object /\ Listed \subseteq 1..Len(whose) /\ connected \subseteq Handler
    BY <1>1, OutsAre DEF OutShape
  <1>5. Head(queued) = n /\ queued' = <<>>
    BY <1>2, <1>3
  <1>6. ToSet(queued) = {n} /\ ToSet(queued') = {}
    BY <1>3, <1>5 DEF ToSet
  <1>7. Listed' = Listed
    BY <1>2 DEF Listed
  <1>8. \A h \in Handler : hears[h][n] = <<>>
    BY <1>1, <1>3, <1>4, <1>6, WalksAre DEF ToldInv, HasHeard
  <1>9. hears' \in [Handler -> [Object -> {<<>>, <<"added">>, <<"added", "removed">>}]]
    <2>1. \A h \in connected : hears[h][n] = <<>>
      BY <1>4, <1>8
    <2> QED
      BY <1>1, <1>2, <1>4, <1>5, <2>1, EmittedIsHeard
  <1>10. OutShape' /\ OneQueued' /\ WalkInv' /\ Monitored'
    BY <1>1, <1>2, <1>5, <1>7, <1>9 DEF OutShape, OneQueued, WalkInv, Monitored
  <1>11. ASSUME NEW h \in Handler, NEW p \in Object
         PROVE  /\ p \notin 1..Len(whose') => hears'[h][p] = <<>>
                /\ p \in Listed' => hears'[h][p] = IF p \in HasHeard(h)' THEN <<"added">> ELSE <<>>
    <2>1. /\ p \notin 1..Len(whose) => hears[h][p] = <<>>
          /\ p \in Listed => hears[h][p] = IF p \in HasHeard(h) THEN <<"added">> ELSE <<>>
      BY <1>1 DEF ToldInv
    <2>2. hears'[h][p] = IF h \in connected /\ p = n THEN Append(hears[h][p], "added") ELSE hears[h][p]
      <3>1. PICK r : r = Emitted("added", n)
        OBVIOUS
      <3>2. r[h][p] = IF h \in connected /\ p = n THEN Append(hears[h][p], "added") ELSE hears[h][p]
        BY <1>1, <1>4, <3>1, EmittedIs
      <3>3. hears' = r
        BY <1>2, <1>5, <3>1
      <3> QED
        BY <3>2, <3>3
    <2>3. p = n => Append(hears[h][p], "added") = <<"added">>
      <3>1. Append(<<>>, "added") = <<"added">>
        OBVIOUS
      <3> QED
        BY <1>8, <3>1
    <2>4. p \in Listed /\ p # n => (p \in HasHeard(h)' <=> p \in HasHeard(h))
      BY <1>2, <1>6, <1>7 DEF HasHeard
    <2>5. n \in HasHeard(h)' <=> h \in connected
      BY <1>2, <1>3, <1>6, <1>7, WalksAre DEF HasHeard
    <2> QED
      BY <1>2, <1>3, <1>4, <1>7, <1>8, <2>1, <2>2, <2>3, <2>4, <2>5
  <1>12. ToldInv'
    BY <1>11 DEF ToldInv
  <1> QED
    BY <1>10, <1>12 DEF OutputInv

LEMMA Listing ==
    ASSUME NEW S, IsFiniteSet(S)
    PROVE  LET s == SetToSeq(S)
           IN s \in Seq(S) /\ IsInjective(s) /\ \A x \in S : \E i \in 1..Len(s) : s[i] = x
  <1>1. PICK n \in Nat : n = Cardinality(S)
    BY FS_CardinalityType
  <1>2. PICK b : b \in Bijection(1..n, S)
    BY <1>1, FS_CardinalityType DEF ExistsBijection
  <1>3. b \in [1..n -> S] /\ IsInjective(b)
    BY <1>2 DEF Bijection, Injection, IsInjective
  <1>4. PICK s : s = SetToSeq(S)
    OBVIOUS
  <1>5. s \in [1..n -> S] /\ IsInjective(s)
    BY <1>1, <1>3, <1>4 DEF SetToSeq
  <1>6. s \in Injection(1..n, S)
    BY <1>5 DEF Injection, IsInjective
  <1>7. Cardinality(1..n) = n
    BY FS_Interval
  <1>8. s \in Surjection(1..n, S)
    BY <1>1, <1>6, <1>7, FS_Injection
  <1>9. \A x \in S : \E i \in 1..n : s[i] = x
    BY <1>8 DEF Surjection
  <1>10. s \in Seq(S) /\ Len(s) = n
    BY <1>1, <1>5
  <1> QED
    BY <1>4, <1>5, <1>9, <1>10

LEMMA ReloadsOutputs ==
    ASSUME OutputInv, luaA_output_hot_reload
    PROVE  OutputInv'
  <1>1. OutShape /\ WalkInv
    BY DEF OutputInv
  <1>2. PICK stay : stay = SetToSeq(plugged)
    OBVIOUS
  <1>3. /\ walk = NoLoop /\ walk' = walk /\ plugged' = plugged
        /\ Len(whose) + Len(stay) <= MaxMade /\ whose' = whose \o stay
        /\ outs' = [i \in DOMAIN stay |-> Len(whose) + i]
        /\ queued' = <<>> /\ connected' = {} /\ hears' = [h \in Handler |-> Unheard]
    BY <1>2 DEF luaA_output_hot_reload
  <1>4. /\ whose \in Seq(Port \cup {Virtual}) /\ plugged \subseteq Port /\ IsFiniteSet(plugged)
    BY <1>1 DEF OutShape
  <1>5. /\ stay \in Seq(plugged) /\ IsInjective(stay)
        /\ \A m \in plugged : \E i \in 1..Len(stay) : stay[i] = m
    BY <1>2, <1>4, Listing
  <1>6. stay \in Seq(Port \cup {Virtual})
    <2>1. plugged \subseteq Port \cup {Virtual}
      BY <1>4
    <2> QED
      BY <1>5, <2>1, SeqMonotonic
  <1>7. PICK b \in Nat, n \in Nat : b = Len(whose) /\ n = Len(stay)
    BY <1>4, <1>5, LenProperties
  <1>8. /\ whose' \in Seq(Port \cup {Virtual}) /\ Len(whose') = b + n
        /\ \A i \in 1..b + n : whose'[i] = IF i <= b THEN whose[i] ELSE stay[i - b]
    BY <1>3, <1>4, <1>6, <1>7, ConcatProperties
  <1>9. outs' = [i \in 1..n |-> b + i]
    BY <1>3, <1>5, <1>7, LenProperties
  <1>10. /\ outs' \in Seq(1..b + n) /\ Len(outs') = n /\ \A i \in 1..n : outs'[i] = b + i
    BY <1>7, <1>9
  <1>11. IsInjective(outs') /\ Listed' = {b + i : i \in 1..n}
    BY <1>7, <1>9 DEF IsInjective, Listed, ToSet
  <1>12. ASSUME NEW i \in 1..n PROVE whose'[b + i] = stay[i] /\ stay[i] \in plugged
    <2>1. b + i \in 1..b + n /\ ~(b + i <= b) /\ b + i - b = i
      BY <1>7
    <2> QED
      BY <1>5, <1>7, <1>8, <2>1, ElementOfSeq
  <1>13. OutShape'
    <2>1. \A h \in Handler : Unheard \in [Object -> {<<>>, <<"added">>, <<"added", "removed">>}]
      BY DEF Unheard
    <2> QED
      BY <1>3, <1>4, <1>7, <1>8, <1>10, <1>11, <2>1 DEF OutShape
  <1>14. OneQueued' /\ WalkInv'
    BY <1>3, WalksAre DEF OneQueued, WalkInv
  <1>15. ToldInv'
    <2>1. \A h \in Handler : HasHeard(h)' = {}
      BY <1>3, WalksAre DEF HasHeard
    <2>2. \A h \in Handler, p \in Object : hears'[h][p] = <<>>
      BY <1>3 DEF Unheard
    <2> QED
      BY <2>1, <2>2 DEF ToldInv
  <1>16. Monitored'
    <2>1. ASSUME NEW m \in plugged PROVE \E o \in Listed' : whose'[o] = m
      <3>1. PICK i \in 1..n : stay[i] = m
        BY <1>5, <1>7
      <3> QED
        BY <1>11, <1>12, <3>1
    <2>2. ASSUME NEW o \in Listed', NEW p \in Listed', whose'[o] = whose'[p] PROVE o = p
      <3>1. PICK i \in 1..n, j \in 1..n : o = b + i /\ p = b + j
        BY <1>11
      <3>2. stay[i] = stay[j]
        BY <1>12, <2>2, <3>1
      <3>3. DOMAIN stay = 1..n
        BY <1>5, <1>7, LenProperties
      <3> QED
        BY <1>5, <3>1, <3>2, <3>3 DEF IsInjective
    <2>3. \A o \in Listed' : whose'[o] \in plugged
      BY <1>11, <1>12
    <2> QED
      BY <1>3, <2>1, <2>2, <2>3 DEF Monitored
  <1> QED
    BY <1>13, <1>14, <1>15, <1>16 DEF OutputInv

LEMMA LoopBegins ==
    ASSUME OutputInv, ~Hasty, NEW by \in (Handler \ connected) \cup {Lua}, LoopOver(by)
    PROVE  OutputInv'
  <1>1. OutShape /\ WalkInv /\ ToldInv /\ Monitored /\ OneQueued
    BY DEF OutputInv
  <1>2. /\ walk = NoLoop /\ queued = <<>>
        /\ walk' = [by |-> by, at |-> IF by = Lua THEN 0 ELSE 1, given |-> {}, there |-> Listed]
        /\ outs' = outs /\ whose' = whose /\ plugged' = plugged /\ queued' = queued
        /\ connected' = connected /\ hears' = hears
    BY DEF LoopOver, Idle
  <1>3. Listed' = Listed /\ Listed \subseteq Object /\ Len(outs) \in Nat
    BY <1>1, <1>2, OutsAre DEF Listed
  <1>4. OutShape' /\ OneQueued' /\ Monitored'
    BY <1>1, <1>2, <1>3 DEF OutShape, OneQueued, Monitored
  <1>5. 0 \in 0..Len(outs') /\ Reached(0, walk', outs')
    BY <1>2, <1>3 DEF Reached
  <1>6. by \in Handler \cup {Lua} /\ by # NoLooper /\ (by \in Handler => by \notin connected)
    BY <1>1, WalksAre DEF OutShape
  <1>7. WalkInv'
    BY <1>2, <1>3, <1>5, <1>6, WalksAre DEF WalkInv, Walks, Ended
  <1>8. ToldInv'
    <2>1. \A h \in Handler : HasHeard(h)' = HasHeard(h)
      BY <1>2, <1>3, WalksAre DEF HasHeard
    <2> QED
      BY <1>1, <1>2, <1>3, <2>1 DEF ToldInv
  <1> QED
    BY <1>4, <1>7, <1>8 DEF OutputInv

LEMMA LoopEnds ==
    ASSUME OutputInv, End
    PROVE  OutputInv'
  <1>1. OutShape /\ WalkInv /\ ToldInv /\ Monitored /\ OneQueued
    BY DEF OutputInv
  <1>2. /\ walk.at = Ended /\ walk' = NoLoop
        /\ outs' = outs /\ whose' = whose /\ plugged' = plugged /\ queued' = queued
        /\ connected' = connected /\ hears' = hears
    BY DEF End
  <1>3. Listed' = Listed
    BY <1>2 DEF Listed
  <1>4. OutShape' /\ OneQueued' /\ Monitored' /\ WalkInv'
    BY <1>1, <1>2, <1>3, WalksAre DEF OutShape, OneQueued, Monitored, WalkInv
  <1>5. \A h \in Handler : HasHeard(h)' = HasHeard(h)
    BY <1>1, <1>2, <1>3, WalksAre DEF HasHeard, WalkInv
  <1>6. ToldInv'
    BY <1>1, <1>2, <1>3, <1>5 DEF ToldInv
  <1> QED
    BY <1>4, <1>6 DEF OutputInv

\* The object after the first k is given.
LEMMA GivenNext ==
    ASSUME OutShape, NEW k \in 0..Len(outs), NEW j, j = k + 1, j \in 1..Len(outs)
    PROVE  /\ {outs[i] : i \in 1..k} \cup {outs[j]} = {outs[i] : i \in 1..j}
           /\ outs[j] \notin {outs[i] : i \in 1..k} /\ outs[j] \in Listed
  <1>1. Len(outs) \in Nat /\ 1..j = 1..k \cup {j} /\ \A i \in 1..k : i # j /\ i \in 1..Len(outs)
    BY OutsAre
  <1> QED
    BY <1>1, OutsAre

LEMMA AddedConnects ==
    ASSUME OutputInv, luaA_output_added_connected
    PROVE  OutputInv'
  <1>1. OutShape /\ WalkInv /\ ToldInv /\ Monitored /\ OneQueued
    BY DEF OutputInv
  <1>2. PICK h \in Handler : h = walk.by
    BY DEF luaA_output_added_connected
  <1>3. /\ walk.at # Ended /\ outs' = outs /\ whose' = whose /\ plugged' = plugged /\ queued' = queued
    BY DEF luaA_output_added_connected
  <1>4. walk # NoLoop /\ queued = <<>> /\ h # Lua /\ h # NoLooper /\ h \notin connected
    BY <1>1, <1>2, <1>3, WalksAre DEF OneQueued, WalkInv
  <1>5. PICK k \in 0..Len(outs) : Reached(k, walk, outs)
    BY <1>1, <1>2, <1>3, <1>4 DEF WalkInv
  <1>6. walk.at = k + 1 /\ walk.given = {outs[i] : i \in 1..k}
    BY <1>2, <1>4, <1>5 DEF Reached
  <1>7. /\ Len(outs) \in Nat /\ DOMAIN outs = 1..Len(outs) /\ Listed' = Listed
        /\ Listed \subseteq 1..Len(whose) /\ 1..Len(whose) \subseteq Object
        /\ Listed = {outs[i] : i \in 1..Len(outs)}
    BY <1>1, <1>3, OutsAre, LenProperties DEF Listed, OutShape
  <1>8. ToSet(queued) = {} /\ ToSet(queued') = {}
    BY <1>3, <1>4, NoneQueued
  <1>9. OneQueued' /\ Monitored'
    BY <1>1, <1>3, <1>4, <1>7 DEF OneQueued, Monitored
  <1>10. CASE walk.at \in DOMAIN outs
    <2>1. PICK j \in 1..Len(outs) : j = k + 1 /\ walk.at = j
      BY <1>6, <1>7, <1>10
    <2>2. PICK e \in Listed : e = outs[j] /\ e \in Object /\ e \notin walk.given
      BY <1>1, <1>6, <1>7, <2>1, GivenNext
    <2>3. /\ hears' = [hears EXCEPT ![h][e] = Append(@, "added")]
          /\ walk' = [walk EXCEPT !.at = @ + 1, !.given = @ \cup {e}] /\ connected' = connected
      BY <1>2, <1>10, <2>1, <2>2 DEF luaA_output_added_connected
    <2>4. hears[h][e] = <<>>
      BY <1>1, <1>2, <1>4, <2>2 DEF ToldInv, HasHeard
    <2>5. Append(hears[h][e], "added") = <<"added">>
      <3>1. Append(<<>>, "added") = <<"added">>
        OBVIOUS
      <3> QED
        BY <2>4, <3>1
    <2>6. /\ hears' \in [Handler -> [Object -> {<<>>, <<"added">>, <<"added", "removed">>}]]
          /\ \A g \in Handler, p \in Object :
                hears'[g][p] = IF g = h /\ p = e THEN <<"added">> ELSE hears[g][p]
      <3> DEFINE H == {<<>>, <<"added">>, <<"added", "removed">>}
      <3>1. <<"added">> \in H
        OBVIOUS
      <3>2. hears \in [Handler -> [Object -> H]]
        BY <1>1 DEF OutShape
      <3> HIDE DEF H
      <3>3. PICK one \in H : one = <<"added">>
        BY <3>1
      <3>4. hears' = [hears EXCEPT ![h] = [hears[h] EXCEPT ![e] = one]]
        BY <2>2, <2>3, <2>5, <3>2, <3>3
      <3>5. [hears[h] EXCEPT ![e] = one] \in [Object -> H]
        BY <2>2, <3>2, <3>3
      <3>6. hears' \in [Handler -> [Object -> H]]
        BY <3>2, <3>4, <3>5
      <3>7. \A g \in Handler, p \in Object :
               hears'[g][p] = IF g = h /\ p = e THEN one ELSE hears[g][p]
        BY <2>2, <3>2, <3>4
      <3> QED
        BY <3>3, <3>6, <3>7 DEF H
    <2>7. OutShape'
      BY <1>1, <1>3, <2>3, <2>6 DEF OutShape
    <2>8. /\ walk \in Walks
          /\ walk'.by = walk.by /\ walk'.at = j + 1 /\ walk'.given = walk.given \cup {e}
          /\ walk'.there = walk.there
          /\ walk' \in Walks
      <3>1. walk \in Walks /\ e \in Object /\ j + 1 \in Int
        BY <1>1, <2>2 DEF WalkInv
      <3>2. GoesOn(walk', j + 1, e)
        BY <2>1, <2>3 DEF GoesOn
      <3> QED
        BY <3>1, <3>2, WalkGoes
    <2>9. Reached(j, walk', outs') /\ j \in 0..Len(outs')
      BY <1>1, <1>2, <1>3, <1>4, <1>6, <1>7, <2>1, <2>2, <2>8, GivenNext DEF Reached
    <2>10. WalkInv'
      <3>1. walk'.at # Ended
        BY <1>7, <2>1, <2>8 DEF Ended
      <3> QED
        BY <1>1, <1>2, <1>4, <1>7, <2>3, <2>8, <2>9, <3>1 DEF WalkInv
    <2>11. ToldInv'
      <3>1. ASSUME NEW g \in Handler, NEW p \in Listed
            PROVE  p \in HasHeard(g)' <=> p \in HasHeard(g) \/ (g = h /\ p = e)
        BY <1>2, <1>4, <1>7, <1>8, <2>2, <2>3, <2>8 DEF HasHeard
      <3> QED
        BY <1>1, <1>3, <1>7, <2>2, <2>6, <3>1 DEF ToldInv
    <2> QED
      BY <1>9, <2>7, <2>10, <2>11 DEF OutputInv
  <1>11. CASE walk.at \notin DOMAIN outs
    <2>1. connected' = connected \cup {h} /\ walk' = [walk EXCEPT !.at = Ended] /\ hears' = hears
      BY <1>2, <1>11 DEF luaA_output_added_connected
    <2>2. k = Len(outs)
      <3>1. k + 1 \notin DOMAIN outs
        BY <1>6, <1>11
      <3>2. k + 1 \notin 1..Len(outs)
        BY <1>7, <3>1
      <3>3. PICK l \in Nat : l = Len(outs) /\ k \in 0..l /\ k + 1 \notin 1..l
        BY <1>7, <3>2
      <3> QED
        BY <3>3
    <2>3. walk.given = Listed
      BY <1>6, <1>7, <2>2
    <2>4. /\ walk \in Walks
          /\ walk'.by = walk.by /\ walk'.at = Ended /\ walk'.given = walk.given
          /\ walk'.there = walk.there /\ walk.there \subseteq Listed
          /\ walk' \in Walks
      BY <1>1, <2>1, WalkOver DEF WalkInv
    <2>5. OutShape' /\ WalkInv'
      BY <1>1, <1>2, <1>3, <1>4, <1>7, <2>1, <2>3, <2>4 DEF OutShape, WalkInv
    <2>6. \A g \in Handler : HasHeard(g)' = HasHeard(g)
      BY <1>2, <1>4, <1>7, <1>8, <2>1, <2>3, <2>4 DEF HasHeard
    <2>7. ToldInv'
      BY <1>1, <1>3, <1>7, <2>1, <2>6 DEF ToldInv
    <2> QED
      BY <1>9, <2>5, <2>7 DEF OutputInv
  <1> QED
    BY <1>10, <1>11

LEMMA LuaGoesOn ==
    ASSUME OutputInv, luaA_output_call
    PROVE  OutputInv'
  <1>1. OutShape /\ WalkInv /\ ToldInv /\ Monitored /\ OneQueued
    BY DEF OutputInv
  <1>2. PICK was : was = IF walk.at \in Listed THEN CHOOSE i \in DOMAIN outs : outs[i] = walk.at ELSE 0
    OBVIOUS
  <1>3. /\ walk.by = Lua /\ walk.at # Ended
        /\ walk' = IF (walk.at # 0 /\ was = 0) \/ was + 1 > Len(outs) THEN [walk EXCEPT !.at = Ended]
                   ELSE [walk EXCEPT !.at = outs[was + 1], !.given = @ \cup {outs[was + 1]}]
        /\ outs' = outs /\ whose' = whose /\ plugged' = plugged /\ queued' = queued
        /\ connected' = connected /\ hears' = hears
    BY <1>2 DEF luaA_output_call
  <1>4. walk # NoLoop /\ queued = <<>>
    BY <1>1, <1>3, WalksAre DEF OneQueued
  <1>5. PICK k \in 0..Len(outs) : Reached(k, walk, outs)
    BY <1>1, <1>3, WalksAre DEF WalkInv
  <1>6. walk.at = (IF k = 0 THEN 0 ELSE outs[k]) /\ walk.given = {outs[i] : i \in 1..k}
    BY <1>3, <1>5 DEF Reached
  <1>7. /\ Len(outs) \in Nat /\ DOMAIN outs = 1..Len(outs) /\ Listed' = Listed
        /\ Listed \subseteq 1..Len(whose) /\ 1..Len(whose) \subseteq Object /\ Len(whose) \in Nat
        /\ Listed = {outs[i] : i \in 1..Len(outs)}
        /\ \A i, j \in 1..Len(outs) : outs[i] = outs[j] => i = j
    BY <1>1, <1>3, OutsAre, LenProperties DEF Listed, OutShape
  <1>8. was = k /\ (walk.at # 0 => k # 0)
    <2>1. CASE k = 0
      <3>1. 0 \notin Listed
        BY <1>7
      <3> QED
        BY <1>2, <1>6, <2>1, <3>1
    <2>2. CASE k # 0
      <3>1. k \in 1..Len(outs) /\ walk.at = outs[k] /\ walk.at \in Listed
        BY <1>6, <1>7, <2>2
      <3>2. \A i \in DOMAIN outs : outs[i] = walk.at <=> i = k
        BY <1>7, <3>1
      <3> QED
        BY <1>2, <1>7, <2>2, <3>1, <3>2
    <2> QED
      BY <2>1, <2>2
  <1>9. OneQueued' /\ Monitored' /\ OutShape'
    BY <1>1, <1>3, <1>4, <1>7 DEF OneQueued, Monitored, OutShape
  <1>10. walk'.by = Lua /\ WalkInv'
    <2>1. CASE k + 1 > Len(outs)
      <3>1. walk' = [walk EXCEPT !.at = Ended]
        BY <1>3, <1>8, <2>1
      <3>2. walk.given = Listed
        <4>1. k = Len(outs)
          BY <1>7, <2>1
        <4> QED
          BY <1>6, <1>7, <4>1
      <3>3. /\ walk' \in Walks /\ walk'.by = Lua /\ walk'.at = Ended
            /\ walk'.given = walk.given /\ walk'.there = walk.there
        BY <1>1, <1>3, <3>1, WalkOver DEF WalkInv
      <3> QED
        BY <1>1, <1>3, <1>7, <3>2, <3>3, WalksAre DEF WalkInv
    <2>2. CASE ~(k + 1 > Len(outs))
      <3>1. PICK j \in 1..Len(outs) : j = k + 1
        BY <1>7, <2>2
      <3>2. PICK e \in Listed : e = outs[j] /\ e \in Object /\ e \in Nat /\ e # Ended
        <4>1. outs[j] \in Listed /\ \A o \in Listed : o \in Object /\ o \in 1..Len(whose)
          BY <1>1, <1>7, <3>1, OutsAre
        <4>2. \A o \in 1..Len(whose) : o \in Nat /\ o # Ended
          BY <1>7 DEF Ended
        <4> QED
          BY <4>1, <4>2
      <3>3. walk' = [walk EXCEPT !.at = e, !.given = @ \cup {e}]
        BY <1>3, <1>6, <1>8, <2>2, <3>1, <3>2
      <3>4. /\ walk \in Walks
            /\ walk'.by = Lua /\ walk'.at = e /\ walk'.given = walk.given \cup {e}
            /\ walk'.there = walk.there
            /\ walk' \in Walks
        <4>1. PICK a \in Int : a = e
          BY <3>2
        <4>2. walk \in Walks /\ GoesOn(walk', a, e)
          BY <1>1, <3>3, <4>1 DEF GoesOn, WalkInv
        <4>3. /\ walk' \in Walks /\ walk'.by = walk.by /\ walk'.at = a
              /\ walk'.given = walk.given \cup {e} /\ walk'.there = walk.there
          BY <3>2, <4>2, WalkGoes
        <4> QED
          BY <1>3, <4>1, <4>2, <4>3
      <3>5. Reached(j, walk', outs') /\ j \in 0..Len(outs')
        <4>1. walk'.given = {outs[i] : i \in 1..j} /\ j # 0
          BY <1>1, <1>6, <3>1, <3>2, <3>4, GivenNext
        <4> QED
          BY <1>3, <1>7, <3>1, <3>2, <3>4, <4>1 DEF Reached
      <3> QED
        BY <1>1, <1>3, <1>7, <3>2, <3>4, <3>5, WalksAre DEF WalkInv
    <2> QED
      BY <2>1, <2>2
  <1>11. \A g \in Handler : HasHeard(g)' = HasHeard(g)
    BY <1>3, <1>7, <1>10, WalksAre DEF HasHeard
  <1>12. ToldInv'
    BY <1>1, <1>3, <1>7, <1>11 DEF ToldInv
  <1> QED
    BY <1>9, <1>10, <1>12 DEF OutputInv

LEMMA OutputStarts == OutputInit => OutputInv
  <1> SUFFICES ASSUME OutputInit PROVE OutputInv
    OBVIOUS
  <1>1. /\ outs = <<>> /\ whose = <<>> /\ plugged = {} /\ queued = <<>>
        /\ connected = {} /\ hears = [h \in Handler |-> Unheard] /\ walk = NoLoop
    BY DEF OutputInit
  <1>2. Listed = {}
    BY <1>1 DEF Listed, ToSet
  <1>3. OutShape
    <2>1. \A h \in Handler : Unheard \in [Object -> {<<>>, <<"added">>, <<"added", "removed">>}]
      BY DEF Unheard
    <2>2. <<>> \in Seq(Port \cup {Virtual}) /\ \A S : <<>> \in Seq(S)
      OBVIOUS
    <2> QED
      BY <1>1, <2>1, <2>2, FS_EmptySet, MadeAssumption DEF OutShape, IsInjective
  <1>4. OneQueued /\ WalkInv /\ Monitored
    BY <1>1, <1>2, WalksAre DEF OneQueued, WalkInv, Monitored
  <1>5. ToldInv
    BY <1>1, <1>2 DEF ToldInv, Unheard
  <1> QED
    BY <1>3, <1>4, <1>5 DEF OutputInv

LEMMA OutputsStep ==
    ASSUME ~Hasty, ~Meddles, OutputInv, [OutputNext]_outputVars
    PROVE  OutputInv'
  <1>1. CASE UNCHANGED outputVars
    <2>1. /\ UNCHANGED <<whose, outs, plugged>> /\ UNCHANGED <<queued, connected>>
          /\ hears' = hears /\ walk' = walk /\ Listed' = Listed
      BY <1>1 DEF outputVars, Listed
    <2>2. OutShape' /\ OneQueued' /\ WalkInv' /\ Monitored'
      BY <2>1 DEF OutputInv, OutShape, OneQueued, WalkInv, Monitored
    <2>3. ToldInv'
      BY <2>1 DEF OutputInv, ToldInv, HasHeard
    <2> QED
      BY <2>2, <2>3 DEF OutputInv
  <1>2. CASE OutputNext
    BY <1>2, CreatesMonitor, CleansUp, RemovesFake, LoopBegins, DrainsAdded, ReloadsOutputs,
       AddsFake, AddedConnects, LuaGoesOn, LoopEnds DEF OutputNext
  <1> QED
    BY <1>1, <1>2

LEMMA OutputsSound == OutputInv => HeardOnce /\ LoopsMissNone /\ OneObjectEach
  <1> SUFFICES ASSUME OutputInv PROVE HeardOnce /\ LoopsMissNone /\ OneObjectEach
    OBVIOUS
  <1>1. OutShape /\ WalkInv /\ ToldInv /\ Monitored
    BY DEF OutputInv
  <1>2. HeardOnce
    <2>1. Listed \subseteq Object
      BY <1>1, OutsAre
    <2> QED
      BY <1>1, <2>1 DEF HeardOnce, OutShape, ToldInv, HasHeard
  <1>3. LoopsMissNone
    BY <1>1 DEF LoopsMissNone, WalkInv
  <1>4. OneObjectEach
    <2>1. DOMAIN outs = 1..Len(outs)
      BY <1>1, LenProperties DEF OutShape
    <2>2. ASSUME NEW m \in plugged
          PROVE  \E i \in DOMAIN outs : whose[outs[i]] = m
                                        /\ \A j \in DOMAIN outs : whose[outs[j]] = m => i = j
      <3>1. PICK o \in Listed : whose[o] = m
        BY <1>1 DEF Monitored
      <3>2. PICK i \in 1..Len(outs) : outs[i] = o
        BY <1>1, OutsAre
      <3>3. m # Virtual
        BY <1>1, WalksAre DEF OutShape
      <3>4. ASSUME NEW j \in 1..Len(outs), whose[outs[j]] = m PROVE i = j
        <4>1. outs[j] \in Listed
          BY <1>1, OutsAre
        <4>2. outs[j] = outs[i]
          BY <1>1, <3>1, <3>2, <3>3, <3>4, <4>1 DEF Monitored
        <4> QED
          BY <1>1, <4>2, OutsAre
      <3> QED
        BY <2>1, <3>1, <3>2, <3>4
    <2> QED
      BY <1>1, <2>2 DEF OneObjectEach, Monitored
  <1> QED
    BY <1>2, <1>3, <1>4

(* A handler that connects for "added" is called with the outputs that are   *)
(* there and hears of each once, a loop that begins at the first output      *)
(* misses none that stays, and a monitor has one object across reloads, for  *)
(* any ports, handlers and order of hotplugs (output.c), where no output     *)
(* goes before it was announced and no handler removes an earlier one.       *)
THEOREM OutputsAreHeard ==
    ~Hasty /\ ~Meddles => (OutputSpec => [](HeardOnce /\ LoopsMissNone /\ OneObjectEach))
  <1> SUFFICES ASSUME ~Hasty, ~Meddles
               PROVE  OutputSpec => [](HeardOnce /\ LoopsMissNone /\ OneObjectEach)
    OBVIOUS
  <1>1. OutputInv /\ [OutputNext]_outputVars => OutputInv'
    BY OutputsStep
  <1> QED
    BY <1>1, OutputStarts, OutputsSound, PTL DEF OutputSpec

-----------------------------------------------------------------------------
(* All parts.  A behaviour of MC_Services is one of each part, all but one   *)
(* of them at rest.                                                          *)

LEMMA PartsPlay ==
    Spec => /\ SocketSpec /\ IpcSpec /\ SpawnSpec /\ SelectionSpec
            /\ DbusSpec /\ SystraySpec /\ TestSpec /\ SignalSpec /\ OutputSpec
  <1>1. Init => /\ SocketInit /\ IpcInit /\ SpawnInit /\ SelectionInit
                /\ DbusInit /\ SystrayInit /\ TestInit /\ SignalInit /\ OutputInit
    BY DEF Init
  <1>2. [Next]_serviceVars =>
            /\ [SocketNext]_socketVars /\ [IpcNext]_ipcVars /\ [SpawnNext]_spawnVars
            /\ [SelectionNext]_selectionVars /\ [DbusNext]_dbusVars
            /\ [SystrayNext]_systrayVars /\ [TestNext]_testVars /\ [SignalNext]_signalVars
            /\ [OutputNext]_outputVars
    BY DEF Next, Only, serviceVars
  <1> QED
    BY <1>1, <1>2, PTL DEF Spec, SocketSpec, IpcSpec, SpawnSpec, SelectionSpec, DbusSpec,
                           SystraySpec, TestSpec, SignalSpec, OutputSpec

(* Who is served is heard: where no two instances start at once and no two   *)
(* commands run side by side, where no handler acquires the selection anew   *)
(* or removes an earlier one, where no output goes before it was announced,  *)
(* and where the names on the bus are told apart and their icons are fetched *)
(* in time, all that ServersSound says holds for any number of each (ipc.c,  *)
(* spawn.c, selection.c, dbus.c, luaobject.c, output.c, systray.lua,         *)
(* test_orchestrator.c).                                                     *)
THEOREM ServersAreSound ==
    /\ ~Overlap /\ ~Beside /\ ~Reacquires /\ ~Hasty /\ ~Meddles
    /\ ~Starved /\ ~Hurried /\ OwnNames \cap TrayName = {} /\ NoName \notin OwnNames \cup TrayName
    => (Spec => []ServersSound)
  <1> SUFFICES ASSUME ~Overlap, ~Beside, ~Reacquires, ~Hasty, ~Meddles, ~Starved, ~Hurried,
                      OwnNames \cap TrayName = {}, NoName \notin OwnNames \cup TrayName
               PROVE  Spec => []ServersSound
    OBVIOUS
  <1>1. SocketSpec => []RunningKeepsPath
    BY PathsAreKept
  <1>2. SelectionSpec => []SelectionCallsTheLiving
    <2>1. SelectionSpec => [](SelectionCallsTheLiving /\ ActiveOwns)
      BY SelectionsAreHeld
    <2> QED
      BY <2>1, PTL
  <1>3. TestSpec => [](NoneIsLeftBehind /\ StartedStays /\ FailureKeepsLog)
    BY NoTestIsLost
  <1>4. SystraySpec => /\ []TrayListsTheLiving /\ []OneIconPerName
                       /\ []TrayIsDrawn /\ []TrayOutlivesReload
    BY TrayIsKept
  <1>5. SignalSpec => []SlotsAreHeld /\ []CalledAsConnected
    BY ConnectedAreCalled, PTL
  <1>6. OutputSpec => [](HeardOnce /\ LoopsMissNone /\ OneObjectEach)
    BY OutputsAreHeard
  <1>7. /\ RunningKeepsPath /\ SubscribersCounted /\ ExitsWillBeTold /\ StartupsEnd
        /\ SelectionCallsTheLiving /\ HandlersHeld /\ SlotsAreHeld /\ CalledAsConnected
        /\ TrayListsTheLiving /\ OneIconPerName /\ TrayIsDrawn /\ TrayOutlivesReload
        /\ HeardOnce /\ LoopsMissNone /\ OneObjectEach
        /\ NoneIsLeftBehind /\ StartedStays /\ FailureKeepsLog
        => ServersSound
    BY DEF ServersSound
  <1> QED
    BY <1>1, <1>2, <1>3, <1>4, <1>5, <1>6, <1>7, PartsPlay, SubscribersAreCounted, ExitsAreTold,
       BusHoldsHandlers, PTL
=============================================================================
