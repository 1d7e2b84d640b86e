---------------------------- MODULE EventDelivery ----------------------------
(***************************************************************************)
(* What the deferred event queue promises to the C code that queues        *)
(* signals and to the Lua handlers that receive them, with no buffer, no   *)
(* snapshot and no registry references in sight.                           *)
(*                                                                         *)
(* Posts are numbered in the order they are made.  A post stays pending    *)
(* until its signal is emitted, or dropped because its object has become   *)
(* invalid, or superseded by a later mouse::move of the same object, or    *)
(* discarded with the Lua state it was made for.  event_queue.c is shown   *)
(* to implement this module in EventQueue.                                 *)
(***************************************************************************)
EXTENDS Integers, Sequences

CONSTANTS
    Object,      \* Lua objects that signals are queued on
    NoObj,       \* the target of a global or class signal
    MaxPosts     \* bound on the number of posts of one behaviour

VARIABLES
    posted,      \* posted[n] is the n-th post
    done,        \* the posts that are no longer pending
    log,         \* the posts whose signal was emitted, in order of emission
    valid        \* the objects that still pass their class's checker

vars == <<posted, done, log, valid>>

Post == [move : BOOLEAN, obj : Object \cup {NoObj}]

Pending == DOMAIN posted \ done

\* Every post from the m-th to the n-th is a mouse::move.
SameRun(m, n) == \A k \in m..n : posted[k].move

-----------------------------------------------------------------------------

Init ==
    /\ posted = <<>>
    /\ done = {}
    /\ log = <<>>
    /\ valid = Object

PostSignal(o) ==
    /\ Len(posted) < MaxPosts
    /\ posted' = Append(posted, [move |-> FALSE, obj |-> o])
    /\ UNCHANGED <<done, log, valid>>

\* A move of o supersedes the pending moves of o that only moves follow.
PostMove(o) ==
    /\ Len(posted) < MaxPosts
    /\ posted' = Append(posted, [move |-> TRUE, obj |-> o])
    /\ done' = done \cup {m \in Pending : posted[m].obj = o /\ SameRun(m, Len(posted))}
    /\ UNCHANGED <<log, valid>>

\* Only a run of moves may be emitted out of the order of posting.
Settle(n) ==
    /\ n \in Pending
    /\ \A m \in Pending : m < n => SameRun(m, n)
    /\ done' = done \cup {n}
    /\ log' = IF posted[n].obj \in valid \cup {NoObj} THEN Append(log, n) ELSE log
    /\ UNCHANGED <<posted, valid>>

Invalidate(o) ==
    /\ valid' = valid \ {o}
    /\ UNCHANGED <<posted, done, log>>

\* The Lua state goes away with whatever was pending for it; the state that
\* replaces it has objects of its own.
Discard ==
    /\ done' = DOMAIN posted
    /\ valid' \in {valid, Object}
    /\ UNCHANGED <<posted, log>>

Next ==
    \/ \E o \in Object \cup {NoObj} : PostSignal(o)
    \/ \E o \in Object : PostMove(o)
    \/ \E n \in DOMAIN posted : Settle(n)
    \/ \E o \in Object : Invalidate(o)
    \/ Discard

Spec == Init /\ [][Next]_vars

-----------------------------------------------------------------------------

TypeOK ==
    /\ posted \in Seq(Post)
    /\ done \subseteq DOMAIN posted
    /\ log \in Seq(DOMAIN posted)
    /\ valid \subseteq Object

(* Chronological order: two signals are emitted in the opposite order of   *)
(* their posts only when both are moves of different objects with nothing  *)
(* but moves posted between them.                                          *)
OrderKept ==
    \A i, j \in DOMAIN log :
        i < j /\ log[j] < log[i] =>
            /\ SameRun(log[j], log[i])
            /\ posted[log[i]].obj # posted[log[j]].obj
=============================================================================
