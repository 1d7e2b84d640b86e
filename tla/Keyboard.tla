------------------------------ MODULE Keyboard ------------------------------
(***************************************************************************)
(* Where a key goes: keypress() and keyrepeat() of input.c, the keygrabber *)
(* (keygrabber.c), the layout signals (xkb.c) and the keymap they all read *)
(* (somewm_api.c), on top of who has the keyboard (SessionLock).           *)
(*                                                                         *)
(* One keyboard group, each key with one keysym.  Whether a key is bound   *)
(* depends on modifiers and on what Lua bound, and is a choice; what the   *)
(* binding's handler or the grabber's callback does is a step after it.    *)
(***************************************************************************)
EXTENDS SessionLock

CONSTANT
    Key         \* keycodes

ASSUME NoKeyAssumption == None \notin Key

VARIABLES
    down,       \* the keys that are held
    grabber,    \* whether globalconf.keygrabber holds a callback
    repeat,     \* the group's repeat state, see Repeat below
    told,       \* for each surface, the keys it was told are held
    xkb,        \* globalconf.xkb: map_changed, group_changed, update_pending; source
    newest,     \* history: the key pressed last
    eaten       \* history: the keys whose release no surface was told of

keyVars == <<down, told, newest, eaten>>
allVars == <<vars, keyVars, grabber, repeat, xkb>>

Surface == Client \cup Output

\* key: keycode with nsyms > 0, or None; timer: key_repeat_source is armed.
Repeat == [key : Key \cup {None}, timer : BOOLEAN]
Idle == [key |-> None, timer |-> FALSE]
Armed(k) == [key |-> k, timer |-> TRUE]

KeyboardInit ==
    /\ Init
    /\ down = {} /\ grabber = FALSE
    /\ repeat = Idle
    /\ told = [s \in Surface |-> {}]
    /\ xkb = [map |-> FALSE, group |-> FALSE, pending |-> FALSE, source |-> FALSE]
    /\ newest = None /\ eaten = {}

-----------------------------------------------------------------------------
(* The protocol: a surface is told of the held keys when it is entered and *)
(* of none when it is left (wlr_seat).                                     *)

Entered == [s \in Surface |-> IF s = seat' /\ s # seat THEN down
                              ELSE IF s # seat' THEN {} ELSE told[s]]

notify_key(k, pressed) ==
    told' = IF seat = None THEN told
            ELSE [told EXCEPT ![seat] = IF pressed THEN @ \cup {k} ELSE @ \ {k}]

(* Every step of the locks and of the focus may move the keyboard.         *)
MovesSeat ==
    /\ LockNext
    /\ told' = Entered
    /\ UNCHANGED <<down, newest, eaten, grabber, repeat, xkb>>

-----------------------------------------------------------------------------
(* keypress().                                                             *)

\* Mutant: a press the grabber took leaves the repeat armed.
GrabbedKeepsRepeat(k, pressed) ==
    /\ ~ext.locked /\ grabber
    /\ UNCHANGED <<repeat, told>>

(* The callback takes the key, unless it fails.                            *)
Grabbed(k, pressed) ==
    /\ ~ext.locked /\ grabber
    /\ repeat' = (IF pressed THEN Idle ELSE repeat)
    /\ UNCHANGED told

(* To the bindings, then to the surface that has the keyboard.  Lua may    *)
(* have set the repeat delay to zero.                                      *)
Routed(k, pressed) ==
    \E bound \in BOOLEAN :
        LET handled == bound /\ pressed /\ ~session_is_locked(lua, ext)
        IN  /\ repeat' \in (IF handled THEN {Armed(k), Idle} ELSE {Idle})
            /\ IF handled \/ lua.locked THEN UNCHANGED told ELSE notify_key(k, pressed)

Handled(k, pressed) == Grabbed(k, pressed) \/ Routed(k, pressed)

Press(k) ==
    /\ k \notin down
    /\ down' = down \cup {k}
    /\ newest' = k /\ eaten' = eaten \ {k}
    /\ Handled(k, TRUE)
    /\ UNCHANGED <<vars, grabber, xkb>>

Release(k) ==
    /\ k \in down
    /\ down' = down \ {k}
    /\ Handled(k, FALSE)
    /\ eaten' = (IF told' = told /\ (grabber \/ lua.locked) THEN eaten \cup {k} ELSE eaten)
    /\ UNCHANGED <<vars, newest, grabber, xkb>>

(* keyrepeat(); the rate may be zero by the time it runs.                  *)
KeyRepeat ==
    /\ repeat.timer
    /\ \/ repeat' = [repeat EXCEPT !.timer = FALSE]
       \/ /\ session_is_locked(lua, ext) \/ (~ext.locked /\ grabber)
          /\ repeat' = Idle
       \/ /\ ~session_is_locked(lua, ext) /\ ~grabber
          /\ UNCHANGED repeat
    /\ UNCHANGED <<vars, keyVars, grabber, xkb>>

-----------------------------------------------------------------------------
(* Lua takes and gives back the keyboard, and changes the keymap.          *)

KeygrabberRun ==
    /\ ~grabber
    /\ grabber' = TRUE
    /\ UNCHANGED <<vars, keyVars, repeat, xkb>>

KeygrabberStop ==
    /\ grabber
    /\ grabber' = FALSE
    /\ UNCHANGED <<vars, keyVars, repeat, xkb>>

xkb_schedule_refresh(x) ==
    IF x.pending THEN x ELSE [x EXCEPT !.pending = TRUE, !.source = TRUE]

(* some_rebuild_keyboard_keymap().                                         *)
RebuildKeymap ==
    /\ xkb' = xkb_schedule_refresh([xkb EXCEPT !.map = TRUE])
    /\ UNCHANGED <<vars, keyVars, grabber, repeat>>

(* keypressmod() when the layout group changed.                            *)
GroupChanged ==
    /\ xkb' = xkb_schedule_refresh([xkb EXCEPT !.group = TRUE])
    /\ UNCHANGED <<vars, keyVars, grabber, repeat>>

xkb_refresh ==
    /\ xkb.source
    /\ xkb' = [map |-> FALSE, group |-> FALSE, pending |-> FALSE, source |-> FALSE]
    /\ UNCHANGED <<vars, keyVars, grabber, repeat>>

xkb_reset_pending(x) == [map |-> FALSE, group |-> FALSE, pending |-> FALSE, source |-> FALSE]

(* luaA_state_teardown_lua() and luaA_state_teardown_c(): lock, grabber    *)
(* and layout signals go with the Lua state; the clients move over.        *)
StateTeardown(safe) ==
    /\ lock_hot_reload(safe)
    /\ told' = Entered
    /\ grabber' = FALSE
    /\ xkb' = xkb_reset_pending(xkb)
    /\ UNCHANGED <<down, newest, eaten, repeat>>

KeyboardNext ==
    \/ MovesSeat
    \/ \E k \in Key : Press(k) \/ Release(k)
    \/ KeyRepeat
    \/ KeygrabberRun \/ KeygrabberStop
    \/ RebuildKeymap \/ GroupChanged \/ xkb_refresh
    \/ \E safe \in BOOLEAN : StateTeardown(safe)

KeyboardSpec == KeyboardInit /\ [][KeyboardNext]_allVars

-----------------------------------------------------------------------------
(* Properties.                                                             *)

KeyTypeOK ==
    /\ down \subseteq Key /\ eaten \subseteq Key
    /\ grabber \in BOOLEAN
    /\ repeat \in Repeat
    /\ told \in [Surface -> SUBSET Key]
    /\ xkb \in [map : BOOLEAN, group : BOOLEAN, pending : BOOLEAN, source : BOOLEAN]
    /\ newest \in Key \cup {None}

TypeOK == LockTypeOK /\ KeyTypeOK

(* The binding that repeats is that of the key pressed last, and the key   *)
(* is still held unless its release went to a grabber or to the lock.      *)
RepeatsTheNewest ==
    repeat.key # None => repeat.key = newest /\ repeat.key \in down \cup eaten

(* No key sticks: a surface believes a key held only while it is, or if    *)
(* the release was taken from it by a grabber or by the lock; a surface    *)
(* without the keyboard believes nothing.                                  *)
StuckOnlyIfEaten ==
    \A s \in Surface : told[s] \subseteq (IF s = seat THEN down \cup eaten ELSE {})

(* A change of layout is announced: while one is recorded, and while       *)
(* others are kept from asking again, the idle source is there to do it.   *)
LayoutChangeWillBeHeard == xkb.map \/ xkb.group \/ xkb.pending => xkb.source

(* Keys and repeats: what repeats is the newest key, no surface believes a *)
(* key held that is not, and a change of layout will be announced.         *)
KeysSound == RepeatsTheNewest /\ StuckOnlyIfEaten /\ LayoutChangeWillBeHeard

(* Clients, drawins and keys are interchangeable; TLC uses it.             *)
Symmetry == Permutations(Client) \cup Permutations(Drawin) \cup Permutations(Key)
=============================================================================
