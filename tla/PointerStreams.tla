--------------------------- MODULE PointerStreams ---------------------------
(***************************************************************************)
(* Streams of pointer events that belong together (input.c, gesture.c):    *)
(* the wheel's steps, which axisnotify() gathers into button clicks, and a *)
(* touchpad's gestures, which go to Lua and from it, or not, to the client.*)
(*                                                                         *)
(* One axis of one pointer; both axes and the three kinds of gesture share *)
(* their code.  Who hears the clicks is left out: the session is not       *)
(* locked and no mousegrabber runs.                                        *)
(***************************************************************************)
EXTENDS Integers

CONSTANTS
    Step,       \* value120: one click of the wheel
    Way,        \* how far the wheel turns one way
    Gesture     \* kinds of gesture

ASSUME StepAssumption == Step \in Nat \ {0}
ASSUME WayAssumption == Way \in Nat

VARIABLES
    acc,        \* scroll_acc_v
    way,        \* history: the steps since the wheel turned, with their sign
    clicks,     \* history: the clicks given for them
    handler,    \* whether Lua has set gesture_handler_ref
    gesture,    \* the gesture that the fingers make
    consumed,   \* gesture_swipe_consumed, gesture_pinch_consumed, gesture_hold_consumed
    shown       \* history: the gestures whose begin the client got and whose end it did not

wheelVars == <<acc, way, clicks>>
gestureVars == <<handler, gesture, consumed, shown>>
streamVars == <<wheelVars, gestureVars>>

NoGesture == "none"
ASSUME GestureAssumption == NoGesture \notin Gesture

StreamInit ==
    /\ acc = 0 /\ way = 0 /\ clicks = 0
    /\ handler = FALSE /\ gesture = NoGesture
    /\ consumed = [g \in Gesture |-> FALSE] /\ shown = {}

-----------------------------------------------------------------------------
(* The wheel.                                                              *)

Abs(n) == IF n < 0 THEN -n ELSE n
Sign(n) == IF n < 0 THEN -1 ELSE 1
Against(n, d) == n # 0 /\ Sign(n) # Sign(d)

\* Mutant: a turn of more than a click gives one click.
Gathered_once(d) ==
    LET sum == acc + d
        ticks == IF Abs(sum) >= Step THEN 1 ELSE 0
        rest == sum - Sign(sum) * (Abs(sum) \div Step) * Step
    IN  [ticks |-> ticks, acc |-> IF Against(rest, d) THEN 0 ELSE rest]

(* The steps are added up and full clicks are taken; what is then left of  *)
(* the other direction is dropped.                                         *)
Gathered(d) ==
    LET sum == acc + d
        ticks == Abs(sum) \div Step
        rest == sum - Sign(sum) * ticks * Step
    IN  [ticks |-> ticks, acc |-> IF Against(rest, d) THEN 0 ELSE rest]

(* A wheel's event of d steps.                                             *)
Discrete(d) ==
    /\ Abs(IF Against(way, d) THEN d ELSE way + d) <= Way
    /\ acc' = Gathered(d).acc
    /\ IF Against(way, d) THEN way' = d /\ clicks' = Gathered(d).ticks
       ELSE way' = way + d /\ clicks' = clicks + Gathered(d).ticks
    /\ UNCHANGED gestureVars

(* A touchpad's scroll clicks once for each event.                         *)
Continuous(d) ==
    /\ acc' = (IF Against(acc, d) THEN 0 ELSE acc)
    /\ IF Against(way, d) THEN way' = 0 /\ clicks' = 0 ELSE UNCHANGED <<way, clicks>>
    /\ UNCHANGED gestureVars

-----------------------------------------------------------------------------
(* Gestures.                                                               *)

\* gesture_call_handler(): without a handler, or if it fails, not consumed.
Answers == IF handler THEN BOOLEAN ELSE {FALSE}

SetHandler(set) ==
    /\ handler' = set
    /\ UNCHANGED <<wheelVars, gesture, consumed, shown>>

Begin(g) ==
    /\ gesture = NoGesture
    /\ gesture' = g
    /\ \E answer \in Answers :
          /\ consumed' = [consumed EXCEPT ![g] = answer]
          /\ shown' = IF answer THEN shown ELSE shown \cup {g}
    /\ UNCHANGED <<wheelVars, handler>>

End(g) ==
    /\ gesture = g
    /\ gesture' = NoGesture
    /\ shown' = (IF consumed[g] THEN shown ELSE shown \ {g})
    /\ consumed' = [consumed EXCEPT ![g] = FALSE]
    /\ UNCHANGED <<wheelVars, handler>>

StreamNext ==
    \/ \E d \in (-Step - 1)..(Step + 1) \ {0} : Discrete(d)
    \/ \E d \in {-1, 1} : Continuous(d)
    \/ \E set \in BOOLEAN : SetHandler(set)
    \/ \E g \in Gesture : Begin(g) \/ End(g)

StreamSpec == StreamInit /\ [][StreamNext]_streamVars

-----------------------------------------------------------------------------
(* Properties.                                                             *)

StreamTypeOK ==
    /\ acc \in -Step..Step /\ way \in -Way..Way /\ clicks \in 0..(Way \div Step)
    /\ gesture \in Gesture \cup {NoGesture}
    /\ consumed \in [Gesture -> BOOLEAN] /\ shown \subseteq Gesture

(* A wheel that turns one way gives a click for each Step, and at most one *)
(* click less after it turned; it never gives one too many, and what is    *)
(* kept for the next click is less than a click.                           *)
WheelMissesOneAtMost ==
    /\ clicks \in {Abs(way) \div Step, (Abs(way) \div Step) - 1}
    /\ Abs(acc) < Step

(* "Reset accumulator on direction change to prevent stale state": once    *)
(* the wheel has turned, each Step gives its click.                        *)
WheelStartsAfresh == clicks = Abs(way) \div Step

(* A client is told the end of each gesture it was told the beginning of,  *)
(* and of no other, whatever the handler answers and whenever it is set.   *)
GesturesEnd == shown = (IF gesture = NoGesture THEN {} ELSE {gesture}) \cap {g \in Gesture : ~consumed[g]}
=============================================================================
