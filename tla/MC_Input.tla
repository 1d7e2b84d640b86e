------------------------------ MODULE MC_Input ------------------------------
(* Instances for TLC of the modules on pointer input.  They share no state,  *)
(* so each behaviour plays one of them, chosen at the start.                  *)
EXTENDS Pointer, PointerStreams, IdleTimers, TLC

VARIABLE part   \* the module this behaviour plays

Init ==
    /\ PointerInit /\ StreamInit /\ IdleInit
    /\ part \in {"pointer", "streams", "idle"}

Next ==
    \/ part = "pointer" /\ PointerNext /\ UNCHANGED <<part, streamVars, idleVars>>
    \/ part = "streams" /\ StreamNext /\ UNCHANGED <<part, pointerVars, idleVars>>
    \/ part = "idle" /\ IdleNext /\ UNCHANGED <<part, pointerVars, streamVars>>

inputVars == <<part, pointerVars, streamVars, idleVars>>
Spec == Init /\ [][Next]_inputVars

CONSTANTS c1, c2, d1, d2, b1, b2, n1, n2, n3, i1, i2
Symmetry == Permutations(Client) \cup Permutations(Button)
            \cup Permutations(Name) \cup Permutations(Inhibitor)

(* The variables of every part stay in their sets. *)
InputTypes == PointerTypeOK /\ StreamTypeOK /\ IdleTypeOK

(* What the mouse is over, as C knows it, as Lua was told and as the hovered *)
(* drawable is pinned, agree in every state.                                  *)
HoverSound == HoverIsTold /\ HoverNests

(* No step gives the pointer away against a grab, a lock or a held button.    *)
PointerSteps == GrabHidesHover /\ LockKeepsPointer /\ ButtonPinsSurface

(* What comes in pieces adds up: a wheel's motion makes its clicks, and each  *)
(* gesture that was begun for a client is ended for it.                       *)
StreamsAddUp == WheelMissesOneAtMost /\ GesturesEnd

(* The idle timers run unless something inhibits them that is still there.    *)
IdleSound == TimeoutsRunUnlessInhibited /\ InhibitionIsKnown
=============================================================================
