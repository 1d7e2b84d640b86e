------------------------------- MODULE Frames -------------------------------
(***************************************************************************)
(* The frame of one output and the sizes it negotiates with its windows:   *)
(* the dirty mark and its deadline (declare.c), the frame event            *)
(* (monitor.c, rendermon()), the configure that carries a solved box to a  *)
(* window, the commit that answers it, and the timer that repeats one a    *)
(* window acknowledged without following (window.c).                       *)
(*                                                                         *)
(* A size stands for a box.  `wire' holds the configures a window has not  *)
(* acknowledged yet; c->resize, a serial in the code, is the position in   *)
(* `wire' of the configure it waits for.  The calls of one handler reach   *)
(* the window as one configure, as wlroots sends them from an idle.        *)
(***************************************************************************)
EXTENDS Naturals, Sequences

CONSTANTS Toplevel,          \* the xdg toplevels of the output
          Floats,            \* those that float: they author their own box
          Size,              \* the sizes of a box
          MaxWire,           \* bound: configures on their way to one window
          ConfigureRetries   \* CONFIGURE_RETRIES

ASSUME FramesAssumption == /\ Floats \subseteq Toplevel
                           /\ Size \subseteq Nat \ {0}
                           /\ MaxWire \in Nat \ {0}
                           /\ ConfigureRetries \in Nat

VARIABLES frame,   \* the output's declare_output
          pane     \* what the compositor and the client know of each toplevel

frameVars == <<frame, pane>>

NoSize == 0
Unmapped == [mapped |-> FALSE, want |-> NoSize, box |-> NoSize,
             geometry |-> NoSize, resize |-> 0, wire |-> << >>,
             asked |-> NoSize, drawn |-> NoSize, committed |-> NoSize,
             retries |-> 0, timer |-> FALSE]

FramesTypeOK ==
  /\ frame \in [on : BOOLEAN, dirty : BOOLEAN, armed : BOOLEAN,
                deadline : BOOLEAN, due : BOOLEAN, moving : BOOLEAN,
                failed : BOOLEAN]
  /\ \A w \in Toplevel :
       /\ pane[w].mapped \in BOOLEAN /\ pane[w].timer \in BOOLEAN
       /\ {pane[w].want, pane[w].box, pane[w].geometry, pane[w].asked,
           pane[w].drawn, pane[w].committed} \subseteq Size \cup {NoSize}
       /\ pane[w].wire \in Seq(Size) /\ Len(pane[w].wire) <= MaxWire
       /\ pane[w].resize \in 0 .. Len(pane[w].wire)
       /\ pane[w].retries \in 0 .. ConfigureRetries

FramesInit ==
  /\ frame = [on |-> TRUE, dirty |-> FALSE, armed |-> FALSE,
              deadline |-> FALSE, due |-> FALSE, moving |-> FALSE,
              failed |-> FALSE]
  /\ pane = [w \in Toplevel |-> Unmapped]

-----------------------------------------------------------------------------
(* declare_output_mark_dirty(): a frame event is asked for, and a timer    *)
(* covers a backend that sends none.                                       *)
MarkDirty(f) == [f EXCEPT !.dirty = TRUE, !.due = f.on,
                          !.armed = TRUE, !.deadline = f.deadline \/ ~f.armed]

(* Mutant: an answer is awaited though nothing is sent.                    *)
SetSize_waits(p, s) ==
  [p EXCEPT !.wire = IF s \in {p.drawn, p.asked} THEN @ ELSE Append(@, s),
            !.resize = Len(p.wire) + 1]

(* client_set_size(): nothing is sent to a window that draws the size or   *)
(* has acknowledged it.                                                    *)
SetSize(p, s) ==
  IF s \in {p.drawn, p.asked} THEN p
  ELSE [p EXCEPT !.wire = Append(@, s), !.resize = Len(p.wire) + 1]

(* client_configure_to_box(): one configure at a time.                     *)
ConfigureToBox(p) ==
  IF ~p.mapped \/ p.box = NoSize \/ p.resize # 0 THEN p ELSE SetSize(p, p.box)

(* clients_settle(): the solved box becomes the geometry Lua reads, unless *)
(* a configure is pending or the window authored its box.                  *)
Settle(w, p) ==
  IF w \in Floats \/ p.resize # 0 \/ p.geometry = p.want THEN p
  ELSE ConfigureToBox([p EXCEPT !.geometry = p.want])

(* hook_configure(): the reconcile calls it when the solved size changed.  *)
Reconciled(p) ==
  IF p.box = p.want THEN p ELSE ConfigureToBox([p EXCEPT !.box = p.want])

Declared(w) == IF pane[w].mapped THEN Reconciled(Settle(w, pane[w]))
                                 ELSE pane[w]

Fits(p) == Len(p.wire) <= MaxWire    \* bound: a window reads its wire

(* declare_output_frame(): the mark is cleared, the tree solved, the       *)
(* geometry settled and then the scene reconciled.  A transition marks the *)
(* next frame.  A pass that exceeds a capacity keeps the old scene.        *)
OutputFrame(f) ==
  \/ ~f.dirty /\ frame' = f /\ UNCHANGED pane
  \/ /\ f.dirty
     /\ pane' = [w \in Toplevel |-> Declared(w)]
     /\ \A w \in Toplevel : Fits(pane'[w])
     /\ \E moves \in BOOLEAN :
          LET clean == [f EXCEPT !.dirty = FALSE, !.failed = FALSE,
                                 !.moving = moves]
          IN frame' = IF moves \/ f.moving THEN MarkDirty(clean) ELSE clean
  \/ /\ f.dirty
     /\ frame' = [f EXCEPT !.dirty = FALSE, !.failed = TRUE,
                           !.moving = FALSE]
     /\ UNCHANGED pane

(* rendermon(): a frame is skipped while a tiled window owes an answer.    *)
Waits(w) == pane[w].mapped /\ pane[w].resize # 0 /\ w \notin Floats

RenderMon ==
  /\ frame.due
  /\ LET f == [frame EXCEPT !.due = FALSE]
     IN IF f.on /\ \A w \in Toplevel : ~Waits(w)
        THEN OutputFrame(f)
        ELSE frame' = f /\ UNCHANGED pane

(* deadline_fire(): declares whatever the windows owe.                     *)
DeadlineFire ==
  /\ frame.deadline
  /\ LET f == [frame EXCEPT !.deadline = FALSE, !.armed = FALSE]
     IN IF f.on THEN OutputFrame(f) ELSE frame' = f /\ UNCHANGED pane

-----------------------------------------------------------------------------
(* A layout gives a tiled window another slot (arrange()).                 *)
Arrange(w, s) ==
  /\ pane[w].mapped /\ w \notin Floats /\ pane[w].want # s
  /\ pane' = [pane EXCEPT ![w].want = s]
  /\ frame' = MarkDirty(frame)

(* client_resize(): a floating window is given another box; the configure  *)
(* leg runs at once, with the box of the last frame.                       *)
ResizeFloat(w, s) ==
  /\ pane[w].mapped /\ w \in Floats /\ pane[w].geometry # s
  /\ pane' = [pane EXCEPT ![w] =
                ConfigureToBox([@ EXCEPT !.geometry = s, !.want = s])]
  /\ Fits(pane'[w])
  /\ frame' = MarkDirty(frame)

(* mapnotify(): the window drew a size of its own choice.                  *)
MapPane(w, s, d) ==
  /\ ~pane[w].mapped
  /\ pane' = [pane EXCEPT ![w] = [Unmapped EXCEPT
                !.mapped = TRUE, !.drawn = d, !.geometry = d,
                !.want = IF w \in Floats THEN d ELSE s]]
  /\ frame' = MarkDirty(frame)

(* unmapnotify(), and in the same commit the hand-over of the toplevel to  *)
(* a new client, which removes the timer.                                  *)
UnmapPane(w) ==
  /\ pane[w].mapped
  /\ pane' = [pane EXCEPT ![w] = Unmapped]
  /\ frame' = MarkDirty(frame)

(* The size a commit drew, when it is not the one it acknowledges.         *)
Refused(asked, d) == IF asked = NoSize \/ asked = d THEN NoSize ELSE d

(* The committed size, and the pending configure it completes.             *)
Acknowledged(p, k, d) ==
  LET asked == IF k = 0 THEN p.asked ELSE p.wire[k]
      size  == Refused(asked, d)
  IN [p EXCEPT !.asked = asked, !.drawn = d,
               !.wire = SubSeq(@, k + 1, Len(@)),
               !.committed = size,
               !.retries = IF size = p.committed THEN @ ELSE 0,
               !.resize = IF @ <= k THEN 0 ELSE @ - k]

(* configure_retry_arm().                                                  *)
RetryArmed(p) ==
  [p EXCEPT !.timer =
     @ \/ (p.committed # NoSize /\ p.retries < ConfigureRetries)]

(* Mutant: a box that waited for an answer is not configured after it.     *)
Commit_untold(w, k, d) ==
  /\ pane[w].mapped /\ k \in 0 .. Len(pane[w].wire)
  /\ LET p == pane[w]
         q == Acknowledged(p, k, d)
     IN /\ pane' = [pane EXCEPT ![w] = RetryArmed(q)]
        /\ Fits(pane'[w])
        /\ frame' = IF \/ q.committed # p.committed
                       \/ (p.resize # 0 /\ q.resize = 0)
                       \/ w \in Floats
                    THEN MarkDirty(frame) ELSE frame

(* commitnotify(): the window acknowledges its first k configures and      *)
(* draws d.  A floating window takes resize(), which only marks the        *)
(* output; a tiled one is configured at once.                              *)
Commit(w, k, d) ==
  /\ pane[w].mapped /\ k \in 0 .. Len(pane[w].wire)
  /\ LET p == pane[w]
         q == Acknowledged(p, k, d)
         r == IF w \in Floats THEN q ELSE ConfigureToBox(q)
     IN /\ pane' = [pane EXCEPT ![w] = RetryArmed(r)]
        /\ Fits(pane'[w])
        /\ frame' = IF \/ q.committed # p.committed
                       \/ (p.resize # 0 /\ q.resize = 0)
                       \/ w \in Floats
                    THEN MarkDirty(frame) ELSE frame

(* configure_retry(): the acknowledged size is sent once more.             *)
Retries(p) == /\ p.resize = 0 /\ p.committed # NoSize
              /\ p.retries < ConfigureRetries /\ p.box = p.asked

ConfigureRetry(w) ==
  /\ pane[w].timer
  /\ LET p == [pane[w] EXCEPT !.timer = FALSE]
     IN pane' = [pane EXCEPT ![w] =
          IF Retries(p)
          THEN [p EXCEPT !.retries = @ + 1, !.wire = Append(@, p.asked),
                         !.resize = Len(p.wire) + 1]
          ELSE p]
  /\ Fits(pane'[w])
  /\ UNCHANGED frame

(* dpms_off() and dpms_on(): updatemons() marks the lit output.            *)
Sleep == /\ frame.on
         /\ frame' = [frame EXCEPT !.on = FALSE, !.due = FALSE]
         /\ UNCHANGED pane

Wake == /\ ~frame.on
        /\ frame' = MarkDirty([frame EXCEPT !.on = TRUE])
        /\ UNCHANGED pane

FramesNext ==
  \/ RenderMon \/ DeadlineFire \/ Sleep \/ Wake
  \/ \E w \in Toplevel :
       \/ UnmapPane(w) \/ ConfigureRetry(w)
       \/ \E s \in Size : Arrange(w, s) \/ ResizeFloat(w, s)
       \/ \E s, d \in Size : MapPane(w, s, d)
       \/ \E k \in 0 .. MaxWire, d \in Size : Commit(w, k, d)

FramesSpec == FramesInit /\ [][FramesNext]_frameVars

-----------------------------------------------------------------------------
(* A mark is served: while a lit output is dirty the deadline runs, so a   *)
(* frame the windows hold up or the backend never sends is declared.       *)
MarksAreServed == frame.dirty /\ frame.on => frame.deadline

(* Nothing is left to do: the last frame declared, no answer is owed.      *)
AtRest(w) == /\ ~frame.dirty /\ ~frame.failed /\ frame.on
             /\ pane[w].mapped /\ pane[w].resize = 0

(* At rest a window has been told the size it has on the screen: it draws  *)
(* it, or has acknowledged it and drawn another.                           *)
IsTold(w) == AtRest(w) => pane[w].want \in {pane[w].drawn, pane[w].asked}
TiledAreTold == \A w \in Toplevel \ Floats : IsTold(w)

(* The same for a floating window that is told its size at all: the        *)
(* comment of commitnotify() counts on resize(), which runs "the configure *)
(* leg when the solved box changed", for what a pending one held back.     *)
FloatsAreTold ==
  \A w \in Floats : pane[w].asked # NoSize => IsTold(w)

(* At rest the geometry Lua reads is the box the frame drew.               *)
GeometryIsDrawn == \A w \in Toplevel : AtRest(w) => pane[w].geometry = pane[w].want

(* No frame that is owed is forgotten: marks are served, and at rest each  *)
(* window has been told the size it is drawn at, and Lua reads that size.  *)
FramesSound == MarksAreServed /\ TiledAreTold /\ GeometryIsDrawn
=============================================================================
