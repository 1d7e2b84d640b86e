------------------------------- MODULE Outputs -------------------------------
(* The output objects Lua sees (objects/output.c), from the plugging of a      *)
(* monitor or screen.fake_add() to its removal: the list they are in, the      *)
(* handlers of output's "added" and "removed", and loops over the list.        *)
(*                                                                             *)
(* Objects are numbered as they are made.  A handler is connected to both      *)
(* signals at once.  Lua runs inside connect_signal() and in a loop's body and *)
(* adds and removes fake screens there.                                        *)
EXTENDS Integers, Sequences, SequencesExt

CONSTANTS Port,       \* monitors, numbers from 1
          Handler,    \* functions that are connected to "added" and "removed"
          MaxMade,    \* how many objects are made in all
          Hasty,      \* may anything happen while an "added" is in the queue?
          Meddles     \* may who is given an object remove one that was given?

ASSUME PortAssumption == 0 \notin Port
ASSUME HandlerAssumption == "lua" \notin Handler /\ "none" \notin Handler
ASSUME MadeAssumption == MaxMade \in Nat

VARIABLES
    outs,       \* output_refs
    whose,      \* of every object made, its monitor, or Virtual
    plugged,    \* the monitors that are there
    queued,    \* the "added" of the event queue
    connected,  \* the handlers that are connected
    hears,      \* what each handler was told of each object, in order
    walk        \* the walk over the list that is running, if any
outputVars == <<outs, whose, plugged, queued, connected, hears, walk>>

Virtual == 0      \* of no monitor
Lua     == "lua"
NoLooper  == "none"
Object  == 1..MaxMade
Listed  == ToSet(outs)
Unheard == [o \in Object |-> <<>>]

(* A loop: for a handler, or for Lua; the next index, or the object given last; *)
(* the objects given; those that were there when it began and still are.       *)
NoLoop == [by |-> NoLooper, at |-> 0, given |-> {}, there |-> {}]
Ended   == -1
Idle   == walk = NoLoop /\ (Hasty \/ queued = <<>>)

(* luaA_class_emit_signal(): to every handler that is connected.               *)
Emitted(what, o) == [h \in Handler |-> IF h \in connected THEN [hears[h] EXCEPT ![o] = Append(@, what)]
                                    ELSE hears[h]]

NextObject == Len(whose) + 1
luaA_output_new(of) ==
    /\ NextObject \in Object
    /\ whose' = Append(whose, of) /\ outs' = Append(outs, NextObject)

WithoutOutput(o) == RemoveFirst(outs, o)

luaA_output_invalidate(o) ==
    /\ outs' = WithoutOutput(o)
    /\ hears' = Emitted("removed", o)
    /\ walk' = [walk EXCEPT !.there = @ \ {o}]

OutputInit ==
    /\ outs = <<>> /\ whose = <<>> /\ plugged = {} /\ queued = <<>>
    /\ connected = {} /\ hears = [h \in Handler |-> Unheard] /\ walk = NoLoop

-----------------------------------------------------------------------------
(* Monitors.  The "added" is queued, by updatemons().                          *)
createmon(m) ==
    /\ Idle /\ m \notin plugged
    /\ luaA_output_new(m) /\ queued' = Append(queued, NextObject)
    /\ plugged' = plugged \cup {m}
    /\ UNCHANGED <<connected, hears, walk>>

cleanupmon(m) ==
    /\ Idle /\ m \in plugged
    /\ \E o \in Listed : whose[o] = m /\ luaA_output_invalidate(o)
    /\ plugged' = plugged \ {m}
    /\ UNCHANGED <<whose, queued, connected>>

some_event_queue_drain ==
    /\ walk = NoLoop /\ queued # <<>>
    /\ hears' = Emitted("added", Head(queued)) /\ queued' = Tail(queued)
    /\ UNCHANGED <<outs, whose, plugged, connected, walk>>

(* The state is closed; monitors that stay get objects of the new one.         *)
luaA_output_hot_reload ==
    /\ walk = NoLoop
    /\ LET stay == SetToSeq(plugged)
       IN /\ Len(whose) + Len(stay) <= MaxMade
          /\ whose' = whose \o stay
          /\ outs' = [i \in DOMAIN stay |-> Len(whose) + i]
    /\ queued' = <<>> /\ connected' = {} /\ hears' = [h \in Handler |-> Unheard]
    /\ UNCHANGED <<plugged, walk>>

-----------------------------------------------------------------------------
(* Fake screens: told at once.                                                 *)
luaA_screen_fake_add ==
    /\ Idle \/ walk.by # NoLooper
    /\ luaA_output_new(Virtual)
    /\ hears' = Emitted("added", NextObject)
    /\ UNCHANGED <<plugged, queued, connected, walk>>

luaA_screen_fake_remove(o) ==
    /\ Idle \/ (walk.by # NoLooper /\ (Meddles \/ o \notin walk.given))
    /\ o \in Listed /\ whose[o] = Virtual
    /\ luaA_output_invalidate(o)
    /\ UNCHANGED <<whose, plugged, queued, connected>>

-----------------------------------------------------------------------------
(* Loops.                                                                      *)
LoopOver(by) ==
    /\ Idle
    /\ walk' = [by |-> by, at |-> IF by = Lua THEN 0 ELSE 1, given |-> {}, there |-> Listed]
    /\ UNCHANGED <<outs, whose, plugged, queued, connected, hears>>

(* "added" is connected: the new handler is told of each in turn, and is       *)
(* connected when that is done.                                                *)
luaA_output_added_connected ==
    /\ walk.by \in Handler /\ walk.at # Ended
    /\ LET h == walk.by
       IN IF walk.at \in DOMAIN outs
          THEN /\ hears' = [hears EXCEPT ![h][outs[walk.at]] = Append(@, "added")]
               /\ walk' = [walk EXCEPT !.at = @ + 1, !.given = @ \cup {outs[walk.at]}]
               /\ UNCHANGED connected
          ELSE /\ connected' = connected \cup {h} /\ walk' = [walk EXCEPT !.at = Ended]
               /\ UNCHANGED hears
    /\ UNCHANGED <<outs, whose, plugged, queued>>

(* for o in output: the one after the one given last, wherever that is now.    *)
luaA_output_call ==
    /\ walk.by = Lua /\ walk.at # Ended
    /\ LET prev == IF walk.at \in Listed THEN CHOOSE i \in DOMAIN outs : outs[i] = walk.at ELSE 0
           next == prev + 1
       IN walk' = IF (walk.at # 0 /\ prev = 0) \/ next > Len(outs) THEN [walk EXCEPT !.at = Ended]
                  ELSE [walk EXCEPT !.at = outs[next], !.given = @ \cup {outs[next]}]
    /\ UNCHANGED <<outs, whose, plugged, queued, connected, hears>>

End ==
    /\ walk.at = Ended
    /\ walk' = NoLoop
    /\ UNCHANGED <<outs, whose, plugged, queued, connected, hears>>

OutputNext ==
    \/ \E m \in Port : createmon(m) \/ cleanupmon(m)
    \/ \E o \in Object : luaA_screen_fake_remove(o)
    \/ \E by \in (Handler \ connected) \cup {Lua} : LoopOver(by)
    \/ some_event_queue_drain \/ luaA_output_hot_reload \/ luaA_screen_fake_add
    \/ luaA_output_added_connected \/ luaA_output_call \/ End

OutputSpec == OutputInit /\ [][OutputNext]_outputVars

-----------------------------------------------------------------------------
OutputTypeOK ==
    /\ whose \in Seq(Port \cup {Virtual}) /\ Len(whose) <= MaxMade
    /\ Listed \subseteq DOMAIN whose /\ IsInjective(outs) /\ plugged \subseteq Port
    /\ ToSet(queued) \subseteq DOMAIN whose /\ connected \subseteq Handler
    /\ hears \in [Handler -> [Object -> Seq({"added", "removed"})]]
    /\ walk.by \in Handler \cup {Lua, NoLooper} /\ walk.at \in {Ended} \cup 0..(MaxMade + 1)

(* output.c's "retroactive delivery": a handler hears of each output that is   *)
(* there, from the list when it is connected or from the signal, and of each   *)
(* once: added, and then at most removed.                                      *)
HeardOnce ==
    \A h \in Handler, o \in Object :
        /\ hears[h][o] \in {<<>>, <<"added">>, <<"added", "removed">>}
        /\ h \in connected /\ o \in Listed => hears[h][o] = <<"added">> \/ o \in ToSet(queued)

(* A walk is given all that are there from its begin to its end, whatever its  *)
(* body adds and removes.                                                      *)
LoopsMissNone == walk.at = Ended => walk.there \subseteq walk.given

(* A monitor has one object while it is plugged, also across a hot reload.     *)
OneObjectEach ==
    /\ \A m \in plugged : \E i \in DOMAIN outs : whose[outs[i]] = m
                             /\ \A j \in DOMAIN outs : whose[outs[j]] = m => i = j
    /\ \A o \in Listed : whose[o] \in plugged \cup {Virtual}
=============================================================================
