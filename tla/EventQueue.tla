------------------------------ MODULE EventQueue ------------------------------
(***************************************************************************)
(* event_queue.c: signals queued by C code while it handles Wayland        *)
(* events, and dispatched to Lua once per turn of the main loop by         *)
(* some_event_queue_drain().                                               *)
(*                                                                         *)
(* A signal handler runs inside the drain and may call back into C: queue  *)
(* more signals, invalidate objects, and, when HandlerMoves, inject        *)
(* pointer motion (root.fake_input "motion_notify"), which reaches         *)
(* some_event_queue_move() while dispatched events are still in the        *)
(* buffer.                                                                 *)
(*                                                                         *)
(* The Lua registry is the set of references it holds.  luaL_ref always    *)
(* returns a key that is not in use: a key is named here after the post    *)
(* that made it, and reading a freed one may find anything.                *)
(***************************************************************************)
EXTENDS Integers, Sequences

CONSTANTS
    Object,         \* Lua objects that signals are queued on
    NoObj,          \* the target of a global or class signal
    MaxPosts,       \* bound on the number of posts of one behaviour
    MaxReloads,     \* bound on the number of hot reloads of one behaviour
    HandlerMoves    \* whether a handler may inject pointer motion

ASSUME NoObjAssumption == NoObj \notin Object
ASSUME MaxPostsAssumption == MaxPosts \in Nat
ASSUME MaxReloadsAssumption == MaxReloads \in Nat
ASSUME HandlerMovesAssumption == HandlerMoves \in BOOLEAN

VARIABLES
    buf,        \* queue_buf[0 .. queue_len - 1]
    pc,         \* where some_event_queue_drain() is: "idle" when not running
    pos,        \* the drain's i, from 1
    count,      \* the drain's snapshot of queue_len
    cur,        \* the drain's local copy e of the event being dispatched
    live,       \* the registry keys in use
    valid,      \* the objects that pass their class's checker
    gen,        \* how many times the Lua state was replaced
    swapping,   \* between the teardown of a Lua state and its replacement
    posted,     \* history: every post, as in EventDelivery
    done,       \* history: the posts settled
    log,        \* history: the posts whose signal was emitted
    mark        \* history: how many posts there were when the drain began

queueVars == <<buf, pc, pos, count, cur>>
luaVars == <<live, valid, gen, swapping>>
history == <<posted, done, log, mark>>
vars == <<buf, pc, pos, count, cur, live, valid, gen, swapping, posted, done, log, mark>>

-----------------------------------------------------------------------------
(* Events.  first and last are the posts that made the event and that      *)
(* last replaced its arguments; they differ only for a coalesced move.     *)

Event == [move : BOOLEAN, obj : Object \cup {NoObj}, args : BOOLEAN,
          first : Nat, last : Nat, gen : Nat]

Key == {"object", "args"} \X Nat

\* Mutant: the event borrows the reference the object already has.
ObjectRefShared(e) == IF e.obj = NoObj THEN {} ELSE {<<"object", e.obj>>}

ObjectRef(e) == IF e.obj = NoObj THEN {} ELSE {<<"object", e.first>>}
ArgsRef(e) == IF e.args THEN {<<"args", e.last>>} ELSE {}
Refs(e) == ObjectRef(e) \cup ArgsRef(e)

NewEvent(move, o, args) ==
    LET n == Len(posted) + 1
    IN  [move |-> move, obj |-> o, args |-> args, first |-> n, last |-> n, gen |-> gen]

InHandler == pc = "handlers"

MayPost == Len(posted) < MaxPosts /\ (pc = "idle" \/ InHandler)

(* Positions of the buffer whose event the running drain is through with:  *)
(* they stay in the buffer until it ends, and their references are freed.  *)
Dispatched == {i \in DOMAIN buf : i < pos}

\* Mutant: the scan does not stop at an enter or a leave.
MatchesAcross(o, stale) ==
    {i \in DOMAIN buf :
        /\ buf[i].move
        /\ IF i \in Dispatched THEN i \in stale ELSE buf[i].obj = o}

(* What the backward scan of some_event_queue_move() may match: the events *)
(* of o that only moves follow, and any freed one that happens to look     *)
(* like o.                                                                 *)
Matches(o, stale) ==
    {i \in DOMAIN buf :
        /\ \A k \in i..Len(buf) : buf[k].move
        /\ IF i \in Dispatched THEN i \in stale ELSE buf[i].obj = o}

IsLast(i, S) == i \in S /\ \A k \in S : k <= i

Init ==
    /\ buf = <<>>
    /\ pc = "idle"
    /\ pos = 0
    /\ count = 0
    /\ cur = {}
    /\ live = {}
    /\ valid = Object
    /\ gen = 0
    /\ swapping = FALSE
    /\ posted = <<>>
    /\ done = {}
    /\ log = <<>>
    /\ mark = 0

-----------------------------------------------------------------------------
(* Queueing.                                                               *)

PushEvent(e) ==
    /\ buf' = Append(buf, e)
    /\ live' = live \cup Refs(e)

Queue(o, args) ==
    /\ MayPost
    /\ PushEvent(NewEvent(FALSE, o, args))
    /\ posted' = Append(posted, [move |-> FALSE, obj |-> o])
    /\ UNCHANGED <<pc, pos, count, cur, valid, gen, swapping, done, log, mark>>

\* Mutant: the arguments that are replaced are not released.
FoldLeaksArgs(i) ==
    LET n == Len(posted) + 1
    IN  /\ buf' = [buf EXCEPT ![i].last = n]
        /\ live' = live \cup {<<"args", n>>}
        /\ done' = done \cup {buf[i].last}

Fold(i) ==
    LET n == Len(posted) + 1
    IN  /\ buf' = [buf EXCEPT ![i].last = n]
        /\ live' = (live \ {<<"args", buf[i].last>>}) \cup {<<"args", n>>}
        /\ done' = done \cup {buf[i].last}

Move(o) ==
    /\ MayPost
    /\ InHandler => HandlerMoves
    /\ \E stale \in SUBSET Dispatched :
          \/ /\ Matches(o, stale) = {}
             /\ PushEvent(NewEvent(TRUE, o, TRUE))
             /\ done' = done
          \/ \E i \in DOMAIN buf : IsLast(i, Matches(o, stale)) /\ Fold(i)
    /\ posted' = Append(posted, [move |-> TRUE, obj |-> o])
    /\ UNCHANGED <<pc, pos, count, cur, valid, gen, swapping, log, mark>>

Invalidate(o) ==
    /\ pc = "idle" \/ InHandler
    /\ o \in valid
    /\ valid' = valid \ {o}
    /\ UNCHANGED <<queueVars, live, gen, swapping, history>>

-----------------------------------------------------------------------------
(* The drain.                                                              *)

BeginDrain ==
    /\ pc = "idle" /\ ~swapping
    /\ buf # <<>>
    /\ pc' = "next"
    /\ pos' = 1
    /\ count' = Len(buf)
    /\ mark' = Len(posted)
    /\ UNCHANGED <<buf, cur, luaVars, posted, done, log>>

\* Mutant: the object's checker is not called.
DispatchUnchecked ==
    /\ pc = "next"
    /\ cur' = {buf[pos]}
    /\ done' = done \cup {buf[pos].last}
    /\ pc' = "handlers"
    /\ log' = Append(log, buf[pos].last)
    /\ UNCHANGED <<buf, pos, count, luaVars, posted, mark>>

(* luaA_object_emit_signal() drops the signal of an invalid object; a      *)
(* global or class signal has no object to check.                          *)
Dispatch ==
    /\ pc = "next"
    /\ cur' = {buf[pos]}
    /\ done' = done \cup {buf[pos].last}
    /\ IF buf[pos].obj \in valid \cup {NoObj}
       THEN /\ pc' = "handlers"
            /\ log' = Append(log, buf[pos].last)
       ELSE /\ pc' = "dropped"
            /\ log' = log
    /\ UNCHANGED <<buf, pos, count, luaVars, posted, mark>>

\* Mutant: the loop runs to the length of the queue, not to the snapshot.
CleanupRunsOn ==
    /\ pc \in {"handlers", "dropped"}
    /\ live' = live \ UNION {Refs(e) : e \in cur}
    /\ cur' = {}
    /\ IF pos < Len(buf)
       THEN pos' = pos + 1 /\ pc' = "next" /\ UNCHANGED <<buf, count>>
       ELSE buf' = <<>> /\ pos' = 0 /\ count' = 0 /\ pc' = "idle"
    /\ UNCHANGED <<valid, gen, swapping, history>>

\* Mutant: the queue is emptied at the end of the drain.
CleanupDropsLate ==
    /\ pc \in {"handlers", "dropped"}
    /\ live' = live \ UNION {Refs(e) : e \in cur}
    /\ cur' = {}
    /\ IF pos < count
       THEN pos' = pos + 1 /\ pc' = "next" /\ UNCHANGED <<buf, count>>
       ELSE buf' = <<>> /\ pos' = 0 /\ count' = 0 /\ pc' = "idle"
    /\ UNCHANGED <<valid, gen, swapping, history>>

Cleanup ==
    /\ pc \in {"handlers", "dropped"}
    /\ live' = live \ UNION {Refs(e) : e \in cur}
    /\ cur' = {}
    /\ IF pos < count
       THEN /\ pos' = pos + 1
            /\ pc' = "next"
            /\ UNCHANGED <<buf, count>>
       ELSE /\ buf' = SubSeq(buf, count + 1, Len(buf))
            /\ pos' = 0
            /\ count' = 0
            /\ pc' = "idle"
    /\ UNCHANGED <<valid, gen, swapping, history>>

-----------------------------------------------------------------------------
(* Hot reload: the old state's references are released against it, then    *)
(* it is closed.  Finalizers run by the close may still queue signals;     *)
(* they are dropped, unreferenced, once the fresh state is there.          *)

Teardown ==
    /\ pc = "idle" /\ ~swapping
    /\ gen < MaxReloads
    /\ swapping' = TRUE
    /\ live' = live \ UNION {Refs(buf[i]) : i \in DOMAIN buf}
    /\ buf' = <<>>
    /\ done' = DOMAIN posted
    /\ UNCHANGED <<pc, pos, count, cur, valid, gen, posted, log, mark>>

\* Mutant: the queue is not reset once the fresh state is there.
FreshStateKeepsEvents ==
    /\ swapping
    /\ swapping' = FALSE
    /\ gen' = gen + 1
    /\ live' = {}
    /\ valid' = Object
    /\ UNCHANGED <<queueVars, history>>

FreshState ==
    /\ swapping
    /\ swapping' = FALSE
    /\ gen' = gen + 1
    /\ live' = {}
    /\ valid' = Object
    /\ buf' = <<>>
    /\ done' = DOMAIN posted
    /\ UNCHANGED <<pc, pos, count, cur, posted, log, mark>>

Next ==
    \/ \E o \in Object \cup {NoObj}, args \in BOOLEAN : Queue(o, args)
    \/ \E o \in Object : Move(o)
    \/ \E o \in Object : Invalidate(o)
    \/ BeginDrain
    \/ Dispatch
    \/ Cleanup
    \/ Teardown
    \/ FreshState

Spec == Init /\ [][Next]_vars

(* The refresh source runs the drain before every poll, handlers return,   *)
(* and a reload that has begun is carried through.                         *)
Fairness ==
    /\ WF_vars(BeginDrain)
    /\ WF_vars(Dispatch)
    /\ WF_vars(Cleanup)
    /\ WF_vars(FreshState)

FairSpec == Spec /\ Fairness

-----------------------------------------------------------------------------
(* Properties.                                                             *)

TypeOK ==
    /\ buf \in Seq(Event)
    /\ pc \in {"idle", "next", "handlers", "dropped"}
    /\ pos \in Nat /\ count \in Nat
    /\ cur \subseteq Event
    /\ live \subseteq Key
    /\ valid \subseteq Object
    /\ gen \in Nat
    /\ swapping \in BOOLEAN
    /\ posted \in Seq([move : BOOLEAN, obj : Object \cup {NoObj}])
    /\ done \subseteq Nat
    /\ log \in Seq(Nat)
    /\ mark \in Nat

\* The first position of the buffer whose references have yet to be released
\* by the loop of the drain; the copy in cur owns those of the one before it.
FirstOwned == IF pc \in {"handlers", "dropped"} THEN pos + 1
              ELSE IF pc = "next" THEN pos ELSE 1

Owners == {buf[i] : i \in {j \in DOMAIN buf : j >= FirstOwned}} \cup cur

(* No registry key leaks and none is released twice: the keys in use are   *)
(* those of the events still to be dispatched or released, and no two of   *)
(* these share one.                                                        *)
RefsOwned ==
    /\ live = UNION {Refs(e) : e \in Owners}
    /\ \A e, f \in Owners : e # f => Refs(e) \cap Refs(f) = {}

(* "The local copy is independent of the buffer": the references the drain *)
(* is about to release after the handlers are still the ones it took.      *)
CopyOwnsItsRefs == \A e \in cur : Refs(e) \subseteq live

(* "Events added during drain (by signal handlers) will be processed on    *)
(* the next drain cycle, not in this one."                                 *)
AddedWaitForNextDrain == \A e \in cur : e.last <= mark

(* A reference made in one Lua state is never used against another: once   *)
(* the swap is over the queue holds only events of the state that runs.    *)
NoStaleRefs == ~swapping => \A i \in DOMAIN buf : buf[i].gen = gen

(* Every post is in the end emitted, dropped, superseded or discarded.     *)
EveryPostSettles == \A n \in 1..MaxPosts : n \in DOMAIN posted ~> n \in done

(* The queue delivers as EventDelivery promises.                           *)
Delivery == INSTANCE EventDelivery WITH
    posted <- posted, done <- done, log <- log, valid <- valid
DeliverySpec == Delivery!Spec

(* "The chronological ordering of move/enter/leave is preserved": two      *)
(* signals are emitted in the opposite order of their posts only when both *)
(* are moves of different objects with nothing but moves posted between.   *)
OrderKept == Delivery!OrderKept
=============================================================================
