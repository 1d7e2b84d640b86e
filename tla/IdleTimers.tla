----------------------------- MODULE IdleTimers -----------------------------
(***************************************************************************)
(* Idle timeouts and idle inhibitors: awesome.set_idle_timeout() and its   *)
(* table (luaa.c), zwp_idle_inhibit_v1 (protocols.c) and the recompute     *)
(* that ties them (somewm.c).                                              *)
(*                                                                         *)
(* A timer of the event loop keeps a pointer to the slot of the table it   *)
(* was created for; the table is compacted when a timeout is removed.  How *)
(* long a timeout takes is left out: an armed timer may fire at any time.  *)
(***************************************************************************)
EXTENDS Naturals

CONSTANTS
    Name,           \* names of timeouts
    Inhibitor,      \* idle inhibitors, each with the surface it is for
    Slots,          \* MAX_IDLE_TIMEOUTS
    NoName,         \* an unused slot
    RemovesAny      \* whether Lua removes timeouts but the one set last

ASSUME SlotsAssumption == Slots \in Nat \ {0}

VARIABLES
    tab,        \* idle_timeouts[].name, slots after idle_timeout_count included
    timeouts,   \* idle_timeout_count
    data,       \* the slot each timeout's timer points to
    armed,      \* the timeouts whose timer runs
    surface,    \* each inhibitor: none, or its surface unmapped, hidden or shown
    recompute,  \* pending_idle_recompute
    lua,        \* lua_idle_inhibited
    inhibited,  \* idle_timers_inhibited
    idle,       \* user_is_idle
    fired,      \* history: the timeouts whose timer fired since the user was active
    called      \* history: whose timer the last step fired, and whose callback it called

table == <<tab, timeouts, data, armed>>
inhibition == <<surface, recompute, lua, inhibited>>
idleVars == <<table, inhibition, idle, fired, called>>

Registered == {tab[i] : i \in 1..timeouts}
Nobody == [timer |-> NoName, callback |-> NoName]

IdleInit ==
    /\ tab = [i \in 1..Slots |-> NoName] /\ timeouts = 0
    /\ data = [n \in Name |-> 1] /\ armed = {}
    /\ surface = [i \in Inhibitor |-> "none"]
    /\ recompute = FALSE /\ lua = FALSE /\ inhibited = FALSE
    /\ idle = FALSE /\ fired = {} /\ called = Nobody

-----------------------------------------------------------------------------
(* The table.                                                              *)

(* remove_idle_timeout_at(): the entries after it move down, their timers' *)
(* pointers do not; the last slot keeps its old content.                   *)
Compacted(i) == [j \in 1..Slots |-> IF j \in i..(timeouts - 1) THEN tab[j + 1] ELSE tab[j]]

set_idle_timeout(n) ==
    LET t == IF n \in Registered THEN Compacted(CHOOSE i \in 1..timeouts : tab[i] = n) ELSE tab
        c == IF n \in Registered THEN timeouts - 1 ELSE timeouts
    IN  /\ n \in Registered => RemovesAny \/ tab[timeouts] = n
        /\ c < Slots
        /\ tab' = [t EXCEPT ![c + 1] = n] /\ timeouts' = c + 1
        /\ data' = [data EXCEPT ![n] = c + 1]
        /\ armed' = (IF inhibited THEN armed \ {n} ELSE armed \cup {n})
        /\ fired' = fired \ {n} /\ called' = Nobody
        /\ UNCHANGED <<inhibition, idle>>

clear_idle_timeout(n) ==
    /\ n \in Registered
    /\ RemovesAny \/ tab[timeouts] = n
    /\ tab' = Compacted(CHOOSE i \in 1..timeouts : tab[i] = n) /\ timeouts' = timeouts - 1
    /\ armed' = armed \ {n} /\ fired' = fired \ {n} /\ called' = Nobody
    /\ UNCHANGED <<data, inhibition, idle>>

(* clear_all_idle_timeouts() and a hot reload remove from the end.         *)
ClearAll(reload) ==
    /\ timeouts > 0
    /\ timeouts' = 0 /\ armed' = {} /\ fired' = {} /\ called' = Nobody
    /\ idle' = (idle /\ ~reload)
    /\ UNCHANGED <<tab, data, inhibition>>

(* idle_timeout_callback() goes by the slot it was given.                  *)
Fire(n) ==
    /\ n \in armed
    /\ armed' = armed \ {n}
    /\ idle' = TRUE
    /\ fired' = fired \cup {n}
    /\ called' = [timer |-> n, callback |-> tab[data[n]]]
    /\ UNCHANGED <<tab, timeouts, data, inhibition>>

\* Mutant: timers that an inhibitor stopped are not armed again.
ResetStopsOnly(inhibit) ==
    /\ inhibited' = inhibit
    /\ armed' = (IF inhibit THEN {} ELSE armed)
    /\ fired' = fired

\* some_idle_timers_set_inhibit() and reset_all_idle_timers()
Reset(inhibit) ==
    /\ inhibited' = inhibit
    /\ armed' = (IF inhibit THEN {} ELSE Registered)
    /\ fired' = fired

(* some_notify_activity(); waking the outputs is not modelled here.        *)
Activity ==
    /\ IF inhibited THEN UNCHANGED <<armed, fired>>
       ELSE armed' = Registered /\ fired' = {}
    /\ idle' = FALSE /\ called' = Nobody
    /\ UNCHANGED <<tab, timeouts, data, inhibition>>

-----------------------------------------------------------------------------
(* Inhibitors.                                                             *)

some_is_idle_inhibited(s) == \E i \in Inhibitor : s[i] = "shown"

some_recompute_idle_inhibit(s, l) == Reset(some_is_idle_inhibited(s) \/ l)

LuaInhibits(b) ==
    /\ lua' = b
    /\ some_recompute_idle_inhibit(surface, b)
    /\ called' = Nobody
    /\ UNCHANGED <<tab, timeouts, data, surface, recompute, idle>>

createidleinhibitor(i, s) ==
    /\ surface[i] = "none"
    /\ surface' = [surface EXCEPT ![i] = s]
    /\ some_recompute_idle_inhibit(surface', lua)
    /\ called' = Nobody
    /\ UNCHANGED <<tab, timeouts, data, recompute, lua, idle>>

destroyidleinhibitor(i) ==
    /\ surface[i] # "none"
    /\ surface' = [surface EXCEPT ![i] = "none"]
    /\ recompute' = TRUE
    /\ called' = Nobody
    /\ UNCHANGED <<table, lua, inhibited, idle, fired>>

recompute_idle_inhibit_idle ==
    /\ recompute
    /\ recompute' = FALSE
    /\ some_recompute_idle_inhibit(surface, lua)
    /\ called' = Nobody
    /\ UNCHANGED <<tab, timeouts, data, surface, lua, idle>>

(* A surface maps, unmaps, or the reconciler shows or hides it; none of    *)
(* these looks at inhibitors.                                              *)
Changes(i, s) ==
    /\ surface[i] \notin {"none", s}
    /\ surface' = [surface EXCEPT ![i] = s]
    /\ called' = Nobody
    /\ UNCHANGED <<table, recompute, lua, inhibited, idle, fired>>

arrange ==
    /\ some_recompute_idle_inhibit(surface, lua)
    /\ called' = Nobody
    /\ UNCHANGED <<tab, timeouts, data, surface, recompute, lua, idle>>

IdleNext ==
    \/ \E n \in Name : set_idle_timeout(n) \/ clear_idle_timeout(n) \/ Fire(n)
    \/ \E reload \in BOOLEAN : ClearAll(reload)
    \/ Activity
    \/ \E b \in BOOLEAN : LuaInhibits(b)
    \/ \E i \in Inhibitor, s \in {"unmapped", "hidden", "shown"} : createidleinhibitor(i, s) \/ Changes(i, s)
    \/ \E i \in Inhibitor : destroyidleinhibitor(i)
    \/ recompute_idle_inhibit_idle
    \/ arrange

IdleSpec == IdleInit /\ [][IdleNext]_idleVars

-----------------------------------------------------------------------------
(* Properties.                                                             *)

IdleTypeOK ==
    /\ tab \in [1..Slots -> Name \cup {NoName}] /\ timeouts \in 0..Slots
    /\ data \in [Name -> 1..Slots]
    /\ armed \subseteq Registered /\ fired \subseteq Registered
    /\ surface \in [Inhibitor -> {"none", "unmapped", "hidden", "shown"}]
    /\ {recompute, lua, inhibited, idle} \subseteq BOOLEAN
    /\ called \in [timer : Name \cup {NoName}, callback : Name \cup {NoName}]

(* The timer of a timeout runs that timeout's callback.                    *)
TimersCallTheirOwn == called.timer = called.callback

(* While nothing inhibits, no timeout is asleep for good: its timer runs,  *)
(* or it has fired and waits for the user.                                 *)
TimeoutsRunUnlessInhibited ==
    inhibited \/ \A n \in Registered : n \in armed \/ n \in fired

(* The timers are not latched off by an inhibitor that is gone, nor let    *)
(* run against Lua's own inhibition.                                       *)
InhibitionIsKnown ==
    /\ lua => inhibited
    /\ inhibited => lua \/ recompute \/ \E i \in Inhibitor : surface[i] # "none"
=============================================================================
