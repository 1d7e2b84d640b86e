-------------------------------- MODULE Dbus --------------------------------
(* The D-Bus side of Lua (dbus.c): handlers of interfaces, calls that come in *)
(* and are answered, signals that come in and go out, and how values cross    *)
(* between messages and the Lua stack.                                        *)
(*                                                                            *)
(* A message's body is a list of trees: <<"basic", v>>, <<"path">>,           *)
(* <<"variant", tree>>, <<"struct", trees>>, <<"array", trees>> and           *)
(* <<"dict", trees>>, keys and values in turn.  A table of Lua is a function, *)
(* and the stack a sequence that is indexed from its end, as the code does.   *)
EXTENDS Integers, Sequences, SequencesExt, FiniteSets

CONSTANTS Interface, Func,
          Body,        \* bodies of the messages that come in
          Result,      \* what Lua gives: type letters and values in turn
          MaxDeep,     \* how deep trees and arrays nest
          Nil
ASSUME MaxDeepAssumption == MaxDeep \in Nat

VARIABLES
    bus,        \* the session bus: not looked for yet, not there, connected, or gone since
    owned,      \* is the name ours?
    handler,    \* dbus_signals: the functions of an interface, at most one
    held,       \* how often each function is referenced in the Lua state
    last        \* the message that came in, or went out, last
dbusVars == <<bus, owned, handler, held, last>>

Bad           == <<"bad">>
AtIdx(s, i)   == s[Len(s) + 1 + i]
Drop(s, i)    == RemoveAt(s, Len(s) + 1 + i)                  \* lua_remove()
TopPart(s, n) == SubSeq(s, Len(s) - n + 1, Len(s))
Pop(s, n)     == SubSeq(s, 1, Len(s) - n)
Downwards(n)  == [k \in 1..n |-> n - k + 1]

-----------------------------------------------------------------------------
(* Message to Lua.                                                             *)

(* lua_rawset(): into the table at idx, what is on top.                         *)
Put(s, idx, key, n) ==
    Pop([s EXCEPT ![Len(s) + 1 + idx] =
            [k \in DOMAIN @ \cup {key} |-> IF k = key THEN AtIdx(s, -1) ELSE @[k]]], n)
(* lua_createtable() and lua_insert(): below the n on top.                      *)
TableBelow(s, n) == Pop(s, n) \o <<<<>>>> \o TopPart(s, n)

(* The n values on top become the elements of a table ...                       *)
Elements(s, n) == FoldLeft(LAMBDA t, i : Put(t, -i - 1, i, 1), TableBelow(s, n), Downwards(n))

(* ... and the 2n values on top the entries of one.                              *)
DictEntries(s, n) ==
    FoldLeft(LAMBDA t, i : Put(t, -2 * i - 1, AtIdx(t, -2), 2), TableBelow(s, 2 * n), Downwards(n))

(* All trees of the bodies, at any depth.                                        *)
Inner(tree) == IF tree[1] = "variant" THEN {tree[2]}
                ELSE IF tree[1] \in {"struct", "array", "dict"} THEN ToSet(tree[2]) ELSE {}
Tree == LET upTo[n \in 0..MaxDeep] ==
                IF n = 0 THEN UNION {ToSet(b) : b \in Body}
                ELSE upTo[n - 1] \cup UNION {Inner(tree) : tree \in upTo[n - 1]}
        IN upTo[MaxDeep]

(* What one tree leaves above the stack: it reads nothing below.                 *)
Pushed[tree \in Tree] ==
    LET inner == FoldLeft(LAMBDA s, t : s \o Pushed[t], <<>>, tree[2])
    IN CASE tree[1] = "basic"   -> <<tree[2]>>
         [] tree[1] = "variant" -> Pushed[tree[2]]
         [] tree[1] \in {"struct", "array"} -> Elements(inner, Len(tree[2]))
         [] tree[1] = "dict"    -> DictEntries(inner, Len(tree[2]) \div 2)
         [] OTHER               -> <<Nil>>
a_dbus_message_iter(s, trees) == FoldLeft(LAMBDA t, tree : t \o Pushed[tree], s, trees)

-----------------------------------------------------------------------------
(* Lua to message.                                                             *)

(* The lists that Lua gives, at any depth; an array is one.                      *)
Arrays(list) == {list[2 * i] : i \in {j \in 1..(Len(list) \div 2) : list[2 * j - 1] = "array"}}
List == LET upTo[n \in 0..MaxDeep] ==
                IF n = 0 THEN Result
                ELSE upTo[n - 1] \cup UNION {Arrays(list) : list \in upTo[n - 1]}
        IN upTo[MaxDeep]

(* A type letter at idx and the value above it, appended.  inner: what each list *)
(* becomes inside an array.                                                      *)
Appended(s, idx, body, inner) ==
    LET type == AtIdx(s, idx)
        val  == AtIdx(s, idx + 1)
    IN CASE type = Nil -> Bad
         [] type = "array" -> IF Len(val) % 2 # 0 \/ inner[val] = Bad THEN Bad
                              ELSE Append(body, <<"array", inner[val]>>)
         [] type = "string" /\ val = Nil -> Bad
         [] OTHER -> Append(body, <<"basic", val>>)
InArray[list \in List] ==
    FoldLeft(LAMBDA b, i : IF b = Bad THEN Bad
                           ELSE Appended(<<list, list[2 * i - 1], list[2 * i]>>, -2, b, InArray),
             <<>>, [i \in 1..(Len(list) \div 2) |-> i])
a_dbus_convert_value(s, idx, body) == Appended(s, idx, body, InArray)

(* What a handler returned, from the bottom: each pair is converted and removed. *)
Converted(values) ==
    LET Step(c, i) == IF c.body = Bad THEN c
                      ELSE [on   |-> Drop(Drop(c.on, i), i + 1),
                            body |-> a_dbus_convert_value(c.on, i, c.body)]
    IN FoldLeft(Step, [on |-> values, body |-> <<>>],
                [k \in 1..(Len(values) \div 2) |-> 2 * (k - 1) - Len(values)]).body
Answer(values) == IF Len(values) % 2 # 0 THEN Bad ELSE Converted(values)

-----------------------------------------------------------------------------
Silence == [in |-> <<>>, told |-> <<>>, called |-> <<>>, said |-> <<>>, out |-> Bad]

DbusInit ==
    /\ bus = "start" /\ owned = FALSE /\ last = Silence
    /\ handler = [i \in Interface |-> <<>>] /\ held = [f \in Func |-> 0]

(* Before Lua runs: there is a session bus, or there is none.                   *)
a_dbus_init ==
    /\ bus = "start" /\ bus' \in {"none", "up"}
    /\ UNCHANGED <<owned, handler, held, last>>

(* The main loop, when the last message is dealt with.                          *)
Dispatches == bus # "start" /\ last = Silence

luaA_dbus_connect_signal(i, f) ==
    /\ handler[i] = <<>>
    /\ handler' = [handler EXCEPT ![i] = <<f>>] /\ held' = [held EXCEPT ![f] = @ + 1]
    /\ Dispatches /\ UNCHANGED <<bus, owned, last>>

LetGo(f) == [held EXCEPT ![f] = @ - 1]
luaA_dbus_disconnect_signal(i, f) ==
    /\ handler[i] = <<f>>
    /\ handler' = [handler EXCEPT ![i] = <<>>] /\ held' = LetGo(f)
    /\ Dispatches /\ UNCHANGED <<bus, owned, last>>

(* dbus_bus_request_name(): what is ours stays ours.                            *)
luaA_dbus_request_name ==
    /\ bus = "up" /\ \E granted \in {TRUE, owned} : owned' = granted
    /\ Dispatches /\ UNCHANGED <<bus, handler, held, last>>
luaA_dbus_release_name ==
    /\ bus = "up" /\ owned' = FALSE
    /\ Dispatches /\ UNCHANGED <<bus, handler, held, last>>

(* Each function is unreferenced in the state that is closed; what was ours on  *)
(* the bus stays ours.                                                          *)
a_dbus_hot_reload ==
    /\ handler' = [i \in Interface |-> <<>>]
    /\ held' = [f \in Func |-> held[f] - Cardinality({i \in Interface : handler[i] = <<f>>})]
    /\ Dispatches /\ UNCHANGED <<bus, owned, last>>

(* "Disconnected" comes in.  The connection is unreferenced; what Lua does to    *)
(* it from then on is undefined, and left out.                                   *)
a_dbus_cleanup_bus ==
    /\ bus = "up" /\ bus' = "gone"
    /\ Dispatches /\ UNCHANGED <<owned, handler, held, last>>

(* A message comes in for an interface.  A call that wants an answer gets that   *)
(* of the only handler, when it can be converted; a handler may drop itself.      *)
a_dbus_process_request(i, body, wants, values, drops) ==
    LET fs == handler[i]
    IN /\ bus = "up" /\ Dispatches /\ (drops => fs # <<>>) /\ (values # <<>> => wants)
       /\ last' = [in |-> body, told |-> a_dbus_message_iter(<<>>, body), called |-> fs,
                   said |-> values, out |-> IF wants /\ fs # <<>> THEN Answer(values) ELSE Bad]
       /\ IF drops THEN /\ handler' = [handler EXCEPT ![i] = <<>>] /\ held' = LetGo(fs[1])
          ELSE UNCHANGED <<handler, held>>
       /\ UNCHANGED <<bus, owned>>

luaA_dbus_emit_signal(values) ==
    /\ bus = "up" /\ Dispatches
    /\ last' = [Silence EXCEPT !.said = values, !.out = Answer(values)]
    /\ UNCHANGED <<bus, owned, handler, held>>

(* That message is dealt with. *)
Done ==
    /\ last # Silence /\ last' = Silence
    /\ UNCHANGED <<bus, owned, handler, held>>

DbusNext ==
    \/ \E i \in Interface, f \in Func :
           luaA_dbus_connect_signal(i, f) \/ luaA_dbus_disconnect_signal(i, f)
    \/ a_dbus_init \/ luaA_dbus_request_name \/ luaA_dbus_release_name
    \/ a_dbus_hot_reload \/ a_dbus_cleanup_bus \/ Done
    \/ \E i \in Interface, b \in Body, wants, drops \in BOOLEAN, v \in Result :
           a_dbus_process_request(i, b, wants, v, drops)
    \/ \E v \in Result : luaA_dbus_emit_signal(v)
DbusSpec == DbusInit /\ [][DbusNext]_dbusVars

-----------------------------------------------------------------------------
DbusTypeOK ==
    /\ bus \in {"start", "none", "up", "gone"} /\ owned \in BOOLEAN
    /\ \A i \in Interface : Len(handler[i]) <= 1 /\ ToSet(handler[i]) \subseteq Func
    /\ held \in [Func -> 0..Cardinality(Interface)]
    /\ last.in \in Body \cup {<<>>} /\ last.said \in Result \cup {<<>>}

(* A function is referenced in the Lua state as often as it is a handler.        *)
HandlersHeld == \A f \in Func : held[f] = Cardinality({i \in Interface : handler[i] = <<f>>})

(* What Lua is told is what the message says: its structs, arrays and dicts are   *)
(* tables of what is in them, however they nest.                                 *)
Meaning[tree \in Tree] ==
    CASE tree[1] = "basic"   -> tree[2]
      [] tree[1] = "variant" -> Meaning[tree[2]]
      [] tree[1] \in {"struct", "array"} -> [i \in DOMAIN tree[2] |-> Meaning[tree[2][i]]]
      [] tree[1] = "dict" ->
             LET key(i) == Meaning[tree[2][2 * i - 1]]
                 n == 1..(Len(tree[2]) \div 2)
             IN [k \in {key(i) : i \in n} |-> Meaning[tree[2][2 * (CHOOSE i \in n : key(i) = k)]]]
      [] OTHER -> Nil
ToldAsMeant == last.told = [i \in DOMAIN last.in |-> Meaning[last.in[i]]]

(* What goes out is what Lua gave: a value for each pair, or nothing at all.      *)
Given[values \in List] ==
    [i \in 1..(Len(values) \div 2) |->
        IF values[2 * i - 1] = "array" THEN <<"array", Given[values[2 * i]]>>
        ELSE <<"basic", values[2 * i]>>]
SentAsGiven == last.out # Bad => last.out = Given[last.said]
=============================================================================
