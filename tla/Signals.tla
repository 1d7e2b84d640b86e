------------------------------- MODULE Signals -------------------------------
(* Objects, classes and what is connected to them (common/luaobject.c,         *)
(* common/luaclass.c, common/signal.h, objects/signal.c): the references that  *)
(* keep the functions, and emissions whose functions connect, disconnect and   *)
(* emit again, and invalidate the object.                                      *)
(*                                                                             *)
(* A C function's Lua stack is a sequence that is indexed from its end.  Each  *)
(* emission that runs is a frame of emitting; only the last one moves on.      *)
EXTENDS Integers, Sequences, SequencesExt, FiniteSetsExt

CONSTANTS Thing,       \* what functions are connected to: a signal of objects, and ...
          Class,       \* ... of their class (those of awesome are alike), and ...
          Note,        \* ... the "::connected" of that signal of the class
          Slot,        \* functions
          MaxSlots,    \* how many functions are connected to each
          MaxDepth,    \* how deep emissions nest
          MaxNested,   \* what the functions of one emission do in all
          NoFunc
ASSUME ThingsAssumption ==
    Class \in Thing /\ Note \in Thing /\ Class # Note /\ "registry" \notin Thing
ASSUME NoFuncAssumption == NoFunc \notin Slot

VARIABLES
    slots,      \* the functions of each thing's signal, in order
    counts,     \* how often each table of references holds a function
    valid,      \* the objects that are valid
    emitting    \* the emissions that run, each begun by one before it
signalVars == <<slots, counts, valid, emitting>>

Objects   == Thing \ {Class, Note}
Registry  == "registry"
Store(x)  == IF x \in Objects THEN x ELSE Registry    \* luaA_object_ref_item(), luaA_object_ref()
Stores    == Objects \cup {Registry}

FromTop(s, i)    == s[Len(s) + 1 + i]
CutOut(s, i)   == RemoveAt(s, Len(s) + 1 + i)
Lower(s, n) == SubSeq(s, 1, Len(s) - n)
Upper(s, n) == SubSeq(s, Len(s) - n + 1, Len(s))

(* luaA_object_incref() and luaA_object_decref(). *)
incref(x, f) == [counts EXCEPT ![Store(x)][f] = @ + 1]
(* Mutant: one unreferencing drops the function, however often it is held. *)
decref_all(x, f) == [counts EXCEPT ![Store(x)][f] = 0]
decref(x, f) == [counts EXCEPT ![Store(x)][f] = @ - 1]

(* luaA_object_push() and luaA_object_push_item(): nil when it is not held.      *)
Held(x, f) == IF counts[Store(x)][f] > 0 THEN f ELSE NoFunc

signal_connect(x, f) ==
    /\ Len(slots[x]) < MaxSlots[x]
    /\ slots' = [slots EXCEPT ![x] = Append(@, f)] /\ counts' = incref(x, f)
signal_disconnect(x, f) ==
    /\ f \in ToSet(slots[x])
    /\ slots' = [slots EXCEPT ![x] = RemoveFirst(@, f)] /\ counts' = decref(x, f)

-----------------------------------------------------------------------------
(* An emission: its arguments and its functions are put on the stack first.     *)
FrameOf(x, args, fs) ==
    [on |-> x, args |-> args, stack |-> args \o fs, n |-> Len(args), m |-> Len(fs), i |-> 0,
     busy |-> FALSE, did |-> 0, due |-> fs, called |-> NoFunc, then |-> NoFunc]
Emission(x, args) == FrameOf(x, args, [i \in DOMAIN slots[x] |-> Held(x, slots[x][i])])

(* lua_pushvalue() of the same index, n times. *)
CopiesOf(s, n, idx) ==
    LET copies[j \in 0..n] ==
            IF j = 0 THEN s ELSE Append(copies[j - 1], FromTop(copies[j - 1], idx))
    IN copies[n]

(* The next function is called with the arguments, and for an object with the   *)
(* object before them.                                                          *)
Calling(e) ==
    LET own   == IF e.on \in Objects THEN 1 ELSE 0
        idx   == e.i - e.n - e.m - own
        args  == CopiesOf(IF own = 1 THEN Append(e.stack, e.on) ELSE e.stack, e.n, idx)
        ready == CutOut(Append(args, FromTop(args, idx)), idx - 1)
    IN [e EXCEPT !.stack = Lower(ready, e.n + own + 1), !.i = @ + 1, !.busy = TRUE,
                 !.called = <<FromTop(ready, -1), Upper(Lower(ready, 1), e.n + own)>>]

Top     == emitting[Len(emitting)]
InFunction == emitting # <<>> /\ Top.busy
CanAct  == emitting = <<>> \/ (InFunction /\ Top.did < MaxNested)
(* Who acts is the function the last emission runs. *)
Acted   == IF emitting = <<>> THEN <<>> ELSE [emitting EXCEPT ![Len(emitting)].did = @ + 1]
Nested(e) == Append(Acted, e)
ArgsFor(x) == [i \in 1..(Len(emitting) + 1) |-> <<x, i>>]

SignalInit ==
    /\ slots = [x \in Thing |-> <<>>] /\ counts = [s \in Stores |-> [f \in Slot |-> 0]]
    /\ valid = Objects /\ emitting = <<>>

-----------------------------------------------------------------------------
luaA_object_connect_signal_from_stack(x, f) ==
    /\ CanAct /\ x # Class /\ signal_connect(x, f) /\ emitting' = Acted
    /\ UNCHANGED valid

(* The connection to a class is told to those that listen for it, first.        *)
luaA_class_connect_signal_from_stack(f) ==
    /\ CanAct /\ Len(emitting) < MaxDepth /\ Len(slots[Class]) < MaxSlots[Class]
    /\ emitting' = Nested([Emission(Note, <<f>>) EXCEPT !.then = f])
    /\ UNCHANGED <<slots, counts, valid>>

luaA_object_disconnect_signal_from_stack(x, f) ==
    /\ CanAct /\ signal_disconnect(x, f) /\ emitting' = Acted
    /\ UNCHANGED valid

(* To an object: its own functions, when it is valid; to its class or globally.  *)
luaA_object_emit_signal(x) ==
    /\ CanAct /\ Len(emitting) < MaxDepth /\ (x \in Objects => x \in valid)
    /\ emitting' = Nested(Emission(x, ArgsFor(x)))
    /\ UNCHANGED <<slots, counts, valid>>

Call ==
    /\ emitting # <<>> /\ ~Top.busy /\ Top.i < Top.m
    /\ emitting' = [emitting EXCEPT ![Len(emitting)] = Calling(Top)]
    /\ UNCHANGED <<slots, counts, valid>>
Return ==
    /\ InFunction
    /\ emitting' = [emitting EXCEPT ![Len(emitting)].busy = FALSE, ![Len(emitting)].called = NoFunc]
    /\ UNCHANGED <<slots, counts, valid>>

(* Then the class is told, valid or not; then what was begun before goes on.    *)
EmissionEnds ==
    /\ emitting # <<>> /\ ~Top.busy /\ Top.i = Top.m
    /\ LET rest == Front(emitting)
       IN emitting' = IF Top.on \in Objects
                      THEN Append(rest, [Emission(Class, <<Top.on>> \o Top.args)
                                            EXCEPT !.did = Top.did])
                      ELSE rest
    /\ IF Top.then # NoFunc
       THEN /\ slots' = [slots EXCEPT ![Class] = Append(@, Top.then)]
            /\ counts' = incref(Class, Top.then)
       ELSE UNCHANGED <<slots, counts>>
    /\ UNCHANGED valid

(* The client, screen or drawin behind the object goes.                          *)
Invalidate(x) ==
    /\ CanAct /\ x \in valid /\ valid' = valid \ {x} /\ emitting' = Acted
    /\ UNCHANGED <<slots, counts>>

(* Nobody has the object any more; the allocator makes another.                  *)
luaA_class_gc(x) ==
    /\ emitting = <<>> /\ x \notin valid
    /\ slots' = [slots EXCEPT ![x] = <<>>] /\ counts' = [counts EXCEPT ![x] = [f \in Slot |-> 0]]
    /\ valid' = valid \cup {x}
    /\ UNCHANGED emitting

(* luaA_signal_cleanup(), luaA_class_cleanup_all(), and a state with new tables.  *)
luaA_class_cleanup_all ==
    /\ emitting = <<>> /\ slots' = [x \in Thing |-> <<>>]
    /\ counts' = [s \in Stores |-> [f \in Slot |-> 0]] /\ valid' = Objects
    /\ UNCHANGED emitting

SignalNext ==
    \/ \E x \in Thing, f \in Slot :
           \/ luaA_object_connect_signal_from_stack(x, f)
           \/ luaA_object_disconnect_signal_from_stack(x, f)
    \/ \E f \in Slot : luaA_class_connect_signal_from_stack(f)
    \/ \E x \in Thing : luaA_object_emit_signal(x)
    \/ \E x \in Objects : Invalidate(x) \/ luaA_class_gc(x)
    \/ Call \/ Return \/ EmissionEnds \/ luaA_class_cleanup_all
SignalSpec == SignalInit /\ [][SignalNext]_signalVars

-----------------------------------------------------------------------------
SignalTypeOK ==
    /\ slots \in [Thing -> Seq(Slot)] /\ counts \in [Stores -> [Slot -> Nat]]
    /\ valid \subseteq Objects /\ Len(emitting) <= MaxDepth
    /\ \A k \in DOMAIN emitting : emitting[k].busy <=> emitting[k].called # NoFunc

(* A function is held where it is connected as often as it is connected there.  *)
Connections(x, f) == Cardinality({i \in DOMAIN slots[x] : slots[x][i] = f})
SlotsAreHeld ==
    \A f \in Slot :
        /\ \A x \in Objects : counts[x][f] = Connections(x, f)
        /\ counts[Registry][f] = Connections(Class, f) + Connections(Note, f)

(* luaobject.c: "Push all functions and then execute, because this list can     *)
(* change while executing funcs."  Each function that was connected when the    *)
(* emission began is called, in turn, with the arguments of this emission.      *)
CalledAsConnected ==
    \A k \in DOMAIN emitting :
        LET e == emitting[k]
        IN /\ NoFunc \notin ToSet(e.due)
           /\ e.busy => e.called = <<e.due[e.i],
                                     IF e.on \in Objects THEN <<e.on>> \o e.args ELSE e.args>>
=============================================================================
