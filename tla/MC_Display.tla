----------------------------- MODULE MC_Display -----------------------------
(* Instances for TLC of the modules on what is shown: the outputs with their *)
(* screens, and the frames of one output.  They share no state: each         *)
(* behaviour plays one of them.                                              *)
EXTENDS Screens, Frames, TLC

VARIABLE part   \* the module this behaviour plays

Init == ScreenInit /\ FramesInit /\ part \in {"screens", "frames"}

Next ==
    \/ part = "screens" /\ ScreenNext /\ UNCHANGED <<part, frameVars>>
    \/ part = "frames" /\ FramesNext /\ UNCHANGED <<part, desk>>

displayVars == <<part, desk, frameVars>>
Spec == Init /\ [][Next]_displayVars

(* The variables of every part stay in their sets. *)
DisplayTypes == DeskTypeOK /\ FramesTypeOK

(* Outputs and screens agree, and no window names an output that is gone.    *)
ScreensSound == OneScreenEach /\ MonitorsAreLive
=============================================================================
