------------------------------- MODULE Spawn -------------------------------
(***************************************************************************)
(* Processes started from Lua (spawn.c, the SIGCHLD pipe of somewm.c) and  *)
(* the activation tokens of their start-up notification (protocols.c).     *)
(*                                                                         *)
(* A process exits at any moment, its number is free once it is reaped,    *)
(* and exit callbacks start further processes.                             *)
(***************************************************************************)
EXTENDS Naturals, Sequences

CONSTANTS
    Pid,        \* process numbers
    Token,      \* activation tokens, each given out once
    MaxSpawns,  \* bound on the processes of one behaviour
    MaxWipes    \* bound on the hot reloads

VARIABLES
    os,         \* what the kernel knows of each number: "free", "runs" or "zombie"
    children,   \* running_children: <<number, callback>> with a live reference or NOREF
    sigpipe,    \* something is in sigchld_pipe
    reaper,     \* reap_children(): "idle", in its "loop", or in the "callback" of one child
    owed,       \* history: the processes of this Lua state whose exit must be told
    pending,    \* pending_tokens
    timers,     \* the tokens whose GLib timeout is armed
    said,       \* history: the last spawn:: signal of each token
    spawns, wipes

spawnVars == <<os, children, sigpipe, reaper, owed, pending, timers, said, spawns, wipes>>

childVars == <<os, children, sigpipe, reaper, owed>>
tokenVars == <<pending, timers, said>>

SpawnInit ==
    /\ os = [p \in Pid |-> "free"] /\ children = <<>>
    /\ sigpipe = FALSE /\ reaper = "idle" /\ owed = {}
    /\ pending = {} /\ timers = {} /\ said = [t \in Token |-> "none"]
    /\ spawns = 0 /\ wipes = 0

-----------------------------------------------------------------------------
(* Tokens.                                                                 *)

activation_token_create(t) ==
    /\ said[t] = "none"
    /\ pending' = pending \cup {t} /\ timers' = timers \cup {t}
    /\ said' = [said EXCEPT ![t] = "initiated"]

(* GLib runs activation_token_timeout() once; it looks its token up.       *)
activation_token_timeout(t) ==
    /\ t \in timers
    /\ timers' = timers \ {t} /\ pending' = pending \ {t}
    /\ said' = IF t \in pending THEN [said EXCEPT ![t] = "timeout"] ELSE said
    /\ UNCHANGED <<childVars, spawns, wipes>>

activation_token_cleanup(t) == pending' = pending \ {t} /\ timers' = timers \ {t}

(* An activation with a token that is pending; others only ask for focus.  *)
urgent(t) ==
    /\ t \in pending
    /\ activation_token_cleanup(t)
    /\ said' = [said EXCEPT ![t] = "completed"]
    /\ UNCHANGED <<childVars, spawns, wipes>>

-----------------------------------------------------------------------------
(* Processes.                                                              *)

(* luaA_spawn(), from a handler of the main loop or from an exit callback. *)
(* A process that cannot be started leaves its token to the timeout; one   *)
(* without a callback is GLib's to reap.                                   *)
luaA_spawn(p) ==
    /\ reaper \in {"idle", "callback"} /\ spawns < MaxSpawns
    /\ spawns' = spawns + 1
    /\ UNCHANGED tokenVars \/ \E t \in Token : activation_token_create(t)
    /\ \/ /\ os[p] = "free"
          /\ os' = [os EXCEPT ![p] = "runs"]
          /\ children' = Append(children, <<p, "live">>)
          /\ owed' = owed \cup {p}
       \/ UNCHANGED <<os, children, owed>>
    /\ UNCHANGED <<sigpipe, reaper, wipes>>

Exit(p) ==
    /\ os[p] = "runs"
    /\ os' = [os EXCEPT ![p] = "zombie"]
    /\ sigpipe' = TRUE
    /\ UNCHANGED <<children, reaper, owed, tokenVars, spawns, wipes>>

Drained == sigpipe' = FALSE /\ reaper' = "loop"

reap_children ==
    /\ reaper = "idle" /\ sigpipe
    /\ Drained
    /\ UNCHANGED <<os, children, owed, tokenVars, spawns, wipes>>

Entries(p) == {i \in DOMAIN children : children[i][1] = p}

find_child(p) == CHOOSE i \in Entries(p) : \A j \in Entries(p) : i <= j

Without(s, i) == SubSeq(s, 1, i - 1) \o SubSeq(s, i + 1, Len(s))

spawn_child_exited(p) ==
    IF Entries(p) = {}
    THEN reaper' = "loop" /\ UNCHANGED <<children, owed>>
    ELSE /\ children' = Without(children, find_child(p))
         /\ IF children[find_child(p)][2] = "NOREF"
            THEN reaper' = "loop" /\ UNCHANGED owed
            ELSE reaper' = "callback" /\ owed' = owed \ {p}

waitpid(p) ==
    /\ reaper = "loop" /\ os[p] = "zombie"
    /\ os' = [os EXCEPT ![p] = "free"]
    /\ spawn_child_exited(p)
    /\ UNCHANGED <<sigpipe, tokenVars, spawns, wipes>>

CallbackReturns ==
    /\ reaper = "callback"
    /\ reaper' = "loop"
    /\ UNCHANGED <<os, children, sigpipe, owed, tokenVars, spawns, wipes>>

ReapedAll ==
    /\ reaper = "loop" /\ \A p \in Pid : os[p] # "zombie"
    /\ reaper' = "idle"
    /\ UNCHANGED <<os, children, sigpipe, owed, tokenVars, spawns, wipes>>

-----------------------------------------------------------------------------
(* A hot reload, from an idle callback of the main loop.                   *)

spawn_invalidate_callbacks ==
    children' = [i \in DOMAIN children |-> <<children[i][1], "NOREF">>]

activation_tokens_cancel_all ==
    pending' = {} /\ timers' = timers \ pending

(* teardown: the callbacks' references, the tokens, then the sweep of every *)
(* GLib source the old state may have made.                                *)
WipeSpawn ==
    /\ reaper = "idle" /\ wipes < MaxWipes
    /\ wipes' = wipes + 1
    /\ spawn_invalidate_callbacks
    /\ activation_tokens_cancel_all
    /\ owed' = {}
    /\ UNCHANGED <<os, sigpipe, reaper, said, spawns>>

SpawnNext ==
    \/ \E p \in Pid : luaA_spawn(p) \/ Exit(p) \/ waitpid(p)
    \/ \E t \in Token : activation_token_timeout(t) \/ urgent(t)
    \/ reap_children \/ CallbackReturns \/ ReapedAll \/ WipeSpawn

SpawnSpec == SpawnInit /\ [][SpawnNext]_spawnVars

-----------------------------------------------------------------------------
(* Properties.                                                             *)

SpawnTypeOK ==
    /\ os \in [Pid -> {"free", "runs", "zombie"}]
    /\ children \in Seq(Pid \X {"live", "NOREF"})
    /\ sigpipe \in BOOLEAN /\ reaper \in {"idle", "loop", "callback"}
    /\ owed \subseteq Pid /\ pending \subseteq Token /\ timers \subseteq Token
    /\ said \in [Token -> {"none", "initiated", "timeout", "completed"}]
    /\ spawns \in 0..MaxSpawns /\ wipes \in 0..MaxWipes

(* Every exit that must be told will be: a dead child is never left behind *)
(* by a signal that was already read, its callback has not been lost, and  *)
(* no entry outlives its process to answer for the next one of its number. *)
ExitsWillBeTold ==
    /\ \A p \in Pid : os[p] = "zombie" => sigpipe \/ reaper # "idle"
    /\ \A p \in owed : os[p] # "free" /\ \E i \in Entries(p) : children[i][2] = "live"
    /\ \A i \in DOMAIN children : os[children[i][1]] # "free" /\ Entries(children[i][1]) = {i}

(* A start-up that was announced ends in one completion or one timeout,    *)
(* unless its Lua state goes: its timeout is armed as long as it is open.  *)
StartupsEnd ==
    /\ timers = pending
    /\ \A t \in pending : said[t] = "initiated"
    /\ wipes = 0 => \A t \in Token : said[t] = "initiated" => t \in pending
=============================================================================
