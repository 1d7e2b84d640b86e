--------------------------- MODULE Display_proofs ---------------------------
(***************************************************************************)
(* Proofs about what is shown: the frames of an output, for any number of  *)
(* windows, any sizes, any number of configures on their way and any       *)
(* number of retries; the outputs with their screens, for any number of    *)
(* outputs, windows and screens; and the passes that declare a tree, the   *)
(* pixels that are kept and the sizes that hints allow.                    *)
(*                                                                         *)
(* What FramesSound says of an output at rest follows from what holds at   *)
(* any time: a mark that is on has its timer (ArmedInv), and each window   *)
(* is in order with the last frame, or another one is owed (PaneInv).      *)
(*                                                                         *)
(* What ScreensSound says of the desk at rest (Settled) is broken and made *)
(* good again within one call of updatemons(): a loop is followed by what  *)
(* holds before and after each of its rounds (Ready, Joining, Joined).     *)
(***************************************************************************)
EXTENDS MC_Display, Passes, Rasters, Geometry,
        SequenceTheorems, FiniteSetTheorems, WellFoundedInduction, TLAPS

Some == Size \cup {NoSize}

Pane == [mapped : BOOLEAN, want : Some, box : Some, geometry : Some,
         resize : Nat, wire : Seq(Size), asked : Some, drawn : Some,
         committed : Some, retries : 0 .. ConfigureRetries, timer : BOOLEAN]

Frame == [on : BOOLEAN, dirty : BOOLEAN, armed : BOOLEAN, deadline : BOOLEAN,
          due : BOOLEAN, moving : BOOLEAN, failed : BOOLEAN]

\* A pane that the negotiation can be in.
Sane(p) ==
  /\ p \in Pane /\ p.resize <= Len(p.wire)
  /\ p.mapped => p.want # NoSize
  /\ p.committed # NoSize => p.asked # NoSize

\* The last box was sent, or the answer to an earlier one is awaited.
Sent(p) == p.mapped /\ p.resize = 0 => p.box \in {NoSize, p.drawn, p.asked}

\* The last frame drew what is wanted, and Lua reads it unless an answer is
\* awaited; a floating window has authored its own geometry.
Drawn(p) == p.mapped => p.box = p.want /\ (p.resize = 0 => p.geometry = p.want)
Authored(p) == p.mapped => p.geometry = p.want

\* Another frame is to come, or must be asked for by Wake.
Owed(f) == f.dirty \/ f.failed \/ ~f.on

ArmedInv ==
  /\ frame \in Frame
  /\ frame.armed <=> frame.deadline
  /\ frame.dirty /\ frame.on => frame.deadline

Orderly(w, p, f) ==
  /\ Sane(p) /\ Fits(p)
  /\ IF w \in Floats THEN Authored(p) ELSE Sent(p)
  /\ Owed(f) \/ Drawn(p)

PaneInv ==
  /\ DOMAIN pane = Toplevel
  /\ \A w \in Toplevel : Orderly(w, pane[w], frame)

FramesInv == ArmedInv /\ pane \in [Toplevel -> Pane] /\ PaneInv

-----------------------------------------------------------------------------
(* Frames: the functions on the record of an output.                       *)

LEMMA MarkedIs ==
    ASSUME NEW f \in Frame, f.armed <=> f.deadline
    PROVE  /\ MarkDirty(f) \in Frame
           /\ MarkDirty(f).armed /\ MarkDirty(f).deadline /\ MarkDirty(f).dirty
           /\ MarkDirty(f).on = f.on
  BY DEF MarkDirty, Frame

-----------------------------------------------------------------------------
(* Panes: the functions on the record of a window.                         *)

LEMMA SetSizeIs ==
    ASSUME NEW p, Sane(p), NEW s \in Size
    PROVE  LET q == SetSize(p, s)
           IN  /\ Sane(q)
               /\ q = p \/ q = [p EXCEPT !.wire = Append(p.wire, s), !.resize = Len(p.wire) + 1]
               /\ q.resize = 0 => s \in {q.drawn, q.asked}
  <1>1. CASE s \in {p.drawn, p.asked}
    BY <1>1 DEF SetSize
  <1>2. CASE s \notin {p.drawn, p.asked}
    <2>1. PICK wire \in Seq(Size), n \in Nat : /\ wire = Append(p.wire, s)
                                               /\ n = Len(p.wire) + 1 /\ n = Len(wire) /\ n > 0
      <3>1. p.wire \in Seq(Size)
        BY DEF Sane, Pane
      <3>2. PICK wire : wire = Append(p.wire, s)
        OBVIOUS
      <3>3. wire \in Seq(Size) /\ Len(wire) = Len(p.wire) + 1
        BY <3>1, <3>2, AppendProperties
      <3>4. Len(p.wire) \in Nat
        BY <3>1, LenProperties
      <3>5. Len(p.wire) + 1 \in Nat /\ Len(p.wire) + 1 > 0
        BY <3>4
      <3> QED
        BY <3>2, <3>3, <3>5
    <2>2. PICK q : q = [p EXCEPT !.wire = wire, !.resize = n]
      OBVIOUS
    <2>3. q \in Pane /\ q.wire = wire /\ q.resize = n
      BY <2>1, <2>2 DEF Sane, Pane
    <2>4. q.mapped = p.mapped /\ q.want = p.want /\ q.committed = p.committed /\ q.asked = p.asked
      BY <2>2 DEF Sane, Pane
    <2>5. SetSize(p, s) = q
      BY <1>2, <2>1, <2>2 DEF SetSize
    <2> QED
      BY <2>1, <2>2, <2>3, <2>4, <2>5 DEF Sane
  <1> QED
    BY <1>1, <1>2

\* A box is configured: what the layout wants and Lua reads stays.
LEMMA ConfiguredIs ==
    ASSUME NEW p, Sane(p)
    PROVE  LET q == ConfigureToBox(p)
           IN  /\ Sane(q) /\ Sent(q)
               /\ q.mapped = p.mapped /\ q.want = p.want /\ q.box = p.box
               /\ q.geometry = p.geometry /\ (p.resize # 0 => q = p)
  <1>1. CASE ~p.mapped \/ p.box = NoSize \/ p.resize # 0
    <2>1. ConfigureToBox(p) = p
      BY <1>1 DEF ConfigureToBox
    <2> QED
      BY <1>1, <2>1 DEF Sent
  <1>2. CASE ~(~p.mapped \/ p.box = NoSize \/ p.resize # 0)
    <2>1. ConfigureToBox(p) = SetSize(p, p.box)
      BY <1>2 DEF ConfigureToBox
    <2>2. p.box \in Size
      BY <1>2 DEF Sane, Pane, Some
    <2>3. PICK q : q = SetSize(p, p.box)
      OBVIOUS
    <2>4. Sane(q) /\ (q.resize = 0 => p.box \in {q.drawn, q.asked})
      BY <2>2, <2>3, SetSizeIs
    <2>5. q = p \/ q = [p EXCEPT !.wire = Append(p.wire, p.box), !.resize = Len(p.wire) + 1]
      BY <2>2, <2>3, SetSizeIs
    <2>6. q.mapped = p.mapped /\ q.want = p.want /\ q.box = p.box /\ q.geometry = p.geometry
      BY <2>5 DEF Sane, Pane
    <2> QED
      BY <1>2, <2>1, <2>3, <2>4, <2>6 DEF Sent
  <1> QED
    BY <1>1, <1>2

LEMMA SettledIs ==
    ASSUME NEW w \in Toplevel, NEW p, Sane(p), p.mapped
    PROVE  LET q == Settle(w, p)
           IN  /\ Sane(q) /\ (Sent(p) => Sent(q))
               /\ q.mapped /\ q.want = p.want /\ q.box = p.box
               /\ w \in Floats => q = p
               /\ w \notin Floats /\ q.resize = 0 => q.geometry = q.want
  <1>1. CASE w \in Floats \/ p.resize # 0 \/ p.geometry = p.want
    <2>1. Settle(w, p) = p
      BY <1>1 DEF Settle
    <2> QED
      BY <1>1, <2>1
  <1>2. CASE ~(w \in Floats \/ p.resize # 0 \/ p.geometry = p.want)
    <2>1. PICK r : r = [p EXCEPT !.geometry = p.want]
      OBVIOUS
    <2>2. Sane(r) /\ r.geometry = p.want /\ r.want = p.want /\ r.mapped /\ r.box = p.box
      BY <2>1 DEF Sane, Pane
    <2>3. Settle(w, p) = ConfigureToBox(r)
      BY <1>2, <2>1 DEF Settle
    <2> QED
      BY <1>2, <2>2, <2>3, ConfiguredIs
  <1> QED
    BY <1>1, <1>2

LEMMA ReconciledIs ==
    ASSUME NEW p, Sane(p), p.mapped
    PROVE  LET q == Reconciled(p)
           IN  /\ Sane(q) /\ (Sent(p) => Sent(q))
               /\ q.mapped /\ q.want = p.want /\ q.box = p.want /\ q.geometry = p.geometry
               /\ p.resize # 0 => q.resize # 0
  <1>1. CASE p.box = p.want
    BY <1>1 DEF Reconciled
  <1>2. CASE p.box # p.want
    <2>1. PICK r : r = [p EXCEPT !.box = p.want]
      OBVIOUS
    <2>2. /\ Sane(r) /\ r.geometry = p.geometry /\ r.want = p.want /\ r.mapped
          /\ r.box = p.want /\ r.resize = p.resize
      BY <2>1 DEF Sane, Pane
    <2>3. Reconciled(p) = ConfigureToBox(r)
      BY <1>2, <2>1 DEF Reconciled
    <2> QED
      BY <2>2, <2>3, ConfiguredIs
  <1> QED
    BY <1>1, <1>2

\* A frame that declares a window brings it in order.
LEMMA DeclaredIs ==
    ASSUME NEW w \in Toplevel, Sane(pane[w]),
           IF w \in Floats THEN Authored(pane[w]) ELSE Sent(pane[w])
    PROVE  /\ Sane(Declared(w)) /\ Drawn(Declared(w))
           /\ IF w \in Floats THEN Authored(Declared(w)) ELSE Sent(Declared(w))
  <1>1. CASE ~pane[w].mapped
    BY <1>1 DEF Declared, Drawn, Authored, Sent
  <1>2. CASE pane[w].mapped
    <2>1. PICK r : r = Settle(w, pane[w])
      OBVIOUS
    <2>2. /\ Sane(r) /\ (Sent(pane[w]) => Sent(r)) /\ r.mapped /\ r.want = pane[w].want
          /\ w \in Floats => r = pane[w]
          /\ w \notin Floats /\ r.resize = 0 => r.geometry = r.want
      BY <1>2, <2>1, SettledIs
    <2>3. PICK q : q = Reconciled(r)
      OBVIOUS
    <2>4. /\ Sane(q) /\ (Sent(r) => Sent(q)) /\ q.mapped /\ q.want = r.want /\ q.box = r.want
          /\ q.geometry = r.geometry /\ (r.resize # 0 => q.resize # 0)
      BY <2>2, <2>3, ReconciledIs
    <2>5. Declared(w) = q
      BY <1>2, <2>1, <2>3 DEF Declared
    <2> QED
      BY <1>2, <2>2, <2>4, <2>5 DEF Drawn, Authored
  <1> QED
    BY <1>1, <1>2

LEMMA AcknowledgedIs ==
    ASSUME NEW p, Sane(p), p.mapped, NEW k \in 0 .. Len(p.wire), NEW d \in Size
    PROVE  LET q == Acknowledged(p, k, d)
           IN  /\ Sane(q) /\ q.mapped /\ q.want = p.want /\ q.box = p.box /\ q.geometry = p.geometry
               /\ p.resize = 0 => q.resize = 0
  <1>0. p \in Pane /\ p.wire \in Seq(Size) /\ p.resize \in Nat /\ p.resize <= Len(p.wire)
    BY DEF Sane, Pane
  <1>1. PICK asked \in Some : asked = IF k = 0 THEN p.asked ELSE p.wire[k]
    BY <1>0 DEF Pane, Some
  <1>2. PICK size \in Some : size = Refused(asked, d)
    BY DEF Refused, Some
  <1>3. PICK wire \in Seq(Size) : wire = SubSeq(p.wire, k + 1, Len(p.wire)) /\ Len(wire) = Len(p.wire) - k
    <2>1. k \in Int /\ k >= 0 /\ k <= Len(p.wire) /\ Len(p.wire) \in Nat
      BY <1>0, LenProperties
    <2>2. \A i \in k + 1 .. Len(p.wire) : p.wire[i] \in Size
      BY <1>0, <2>1, ElementOfSeq
    <2>3. PICK m \in Int, n \in Int : m = k + 1 /\ n = Len(p.wire)
      BY <2>1
    <2>4. /\ SubSeq(p.wire, m, n) \in Seq(Size)
          /\ Len(SubSeq(p.wire, m, n)) = IF m <= n THEN n - m + 1 ELSE 0
      BY <2>2, <2>3, SubSeqProperties
    <2>5. Len(SubSeq(p.wire, m, n)) = Len(p.wire) - k
      BY <2>1, <2>3, <2>4
    <2> QED
      BY <2>3, <2>4, <2>5
  <1>4. PICK n \in Nat : n = (IF p.resize <= k THEN 0 ELSE p.resize - k) /\ n <= Len(wire)
    BY <1>0, <1>3
  <1>5. PICK m \in 0 .. ConfigureRetries : m = IF size = p.committed THEN p.retries ELSE 0
    BY <1>0, FramesAssumption DEF Pane
  <1>6. PICK q : q = [p EXCEPT !.asked = asked, !.drawn = d, !.wire = wire, !.committed = size,
                               !.retries = m, !.resize = n]
    OBVIOUS
  <1>7. Acknowledged(p, k, d) = q
    BY <1>1, <1>2, <1>3, <1>4, <1>5, <1>6 DEF Acknowledged
  <1>8. /\ q \in Pane /\ q.resize = n /\ q.wire = wire /\ q.committed = size /\ q.asked = asked
        /\ q.mapped = p.mapped /\ q.want = p.want /\ q.box = p.box /\ q.geometry = p.geometry
    BY <1>0, <1>6 DEF Pane, Some
  <1>9. size # NoSize => asked # NoSize
    BY <1>2 DEF Refused
  <1> QED
    BY <1>0, <1>4, <1>7, <1>8, <1>9 DEF Sane

LEMMA RetryArmedIs ==
    ASSUME NEW p, Sane(p)
    PROVE  LET q == RetryArmed(p)
           IN  /\ Sane(q) /\ (Sent(p) => Sent(q))
               /\ q.mapped = p.mapped /\ q.want = p.want /\ q.box = p.box
               /\ q.geometry = p.geometry /\ q.resize = p.resize
  <1>0. p \in Pane /\ p.retries \in 0 .. ConfigureRetries
    BY DEF Sane, Pane
  <1>1. PICK t \in BOOLEAN : t = (p.timer \/ (p.committed # NoSize /\ p.retries < ConfigureRetries))
    BY <1>0 DEF Pane
  <1>2. PICK q : q = [p EXCEPT !.timer = t]
    OBVIOUS
  <1>3. RetryArmed(p) = q
    BY <1>1, <1>2 DEF RetryArmed
  <1>4. /\ q \in Pane /\ q.mapped = p.mapped /\ q.want = p.want /\ q.box = p.box /\ q.wire = p.wire
        /\ q.geometry = p.geometry /\ q.resize = p.resize /\ q.drawn = p.drawn /\ q.asked = p.asked
        /\ q.committed = p.committed
    BY <1>0, <1>2 DEF Pane
  <1> QED
    BY <1>3, <1>4 DEF Sane, Sent

-----------------------------------------------------------------------------
(* Steps: what one window or the frame event changes.                      *)

\* A step of one window, which leaves no frame it is owed unmarked.
LEMMA PaneStep ==
    ASSUME FramesInv, ArmedInv', NEW w \in Toplevel, NEW q, Sane(q), Fits(q),
           IF w \in Floats THEN Authored(q) ELSE Sent(q),
           pane' = [pane EXCEPT ![w] = q],
           Owed(frame) => Owed(frame'),
           Owed(frame') \/ Drawn(q)
    PROVE  FramesInv'
  <1>1. pane' \in [Toplevel -> Pane] /\ DOMAIN pane' = Toplevel
    BY DEF FramesInv, Sane
  <1>2. ASSUME NEW v \in Toplevel
        PROVE  Orderly(v, pane'[v], frame')
    <2>1. CASE v = w
      <3>1. pane'[v] = q
        BY <2>1 DEF FramesInv
      <3> QED
        BY <2>1, <3>1 DEF Orderly
    <2>2. CASE v # w
      <3>1. pane'[v] = pane[v]
        BY <2>2 DEF FramesInv
      <3>2. Orderly(v, pane[v], frame)
        BY DEF FramesInv, PaneInv
      <3> QED
        BY <3>1, <3>2 DEF Orderly
    <2> QED
      BY <2>1, <2>2
  <1> QED
    BY <1>1, <1>2 DEF FramesInv, PaneInv

\* A step that leaves the windows alone.
LEMMA FrameStep ==
    ASSUME FramesInv, ArmedInv', pane' = pane, Owed(frame) => Owed(frame')
    PROVE  FramesInv'
  BY DEF FramesInv, PaneInv, Orderly

LEMMA MarkStep ==
    ASSUME NEW f \in Frame, f.armed <=> f.deadline, frame' = MarkDirty(f)
    PROVE  ArmedInv' /\ Owed(frame')
  BY MarkedIs DEF ArmedInv, Owed

\* The frame, from an output whose timer may just have gone off.
LEMMA OutputFrameStep ==
    ASSUME FramesInv, NEW f \in Frame, f.armed <=> f.deadline, f.on,
           f.dirty = frame.dirty, f.failed = frame.failed, f.on = frame.on,
           OutputFrame(f)
    PROVE  FramesInv'
  <1>1. CASE ~f.dirty /\ frame' = f /\ UNCHANGED pane
    <2>1. ArmedInv' /\ (Owed(frame) => Owed(frame'))
      BY <1>1 DEF ArmedInv, Owed
    <2> QED
      BY <1>1, <2>1, FrameStep
  <1>2. CASE /\ f.dirty /\ UNCHANGED pane
             /\ frame' = [f EXCEPT !.dirty = FALSE, !.failed = TRUE, !.moving = FALSE]
    <2>1. ArmedInv' /\ Owed(frame')
      BY <1>2 DEF ArmedInv, Owed, Frame
    <2> QED
      BY <1>2, <2>1, FrameStep
  <1>3. ASSUME pane' = [w \in Toplevel |-> Declared(w)],
               \A w \in Toplevel : Fits(pane'[w]),
               NEW moves \in BOOLEAN, NEW clean,
               clean = [f EXCEPT !.dirty = FALSE, !.failed = FALSE, !.moving = moves],
               frame' = IF moves \/ f.moving THEN MarkDirty(clean) ELSE clean
        PROVE  FramesInv'
    <2>1. clean \in Frame /\ (clean.armed <=> clean.deadline) /\ ~clean.dirty
      BY <1>3 DEF Frame
    <2>2. ArmedInv'
      <3>1. CASE moves \/ f.moving
        BY <1>3, <2>1, <3>1, MarkStep
      <3>2. CASE ~(moves \/ f.moving)
        BY <1>3, <2>1, <3>2 DEF ArmedInv
      <3> QED
        BY <3>1, <3>2
    <2>3. ASSUME NEW w \in Toplevel
          PROVE  pane'[w] \in Pane /\ Orderly(w, pane'[w], frame')
      <3>1. Sane(pane[w]) /\ IF w \in Floats THEN Authored(pane[w]) ELSE Sent(pane[w])
        BY DEF FramesInv, PaneInv, Orderly
      <3>2. pane'[w] = Declared(w) /\ Fits(pane'[w])
        BY <1>3
      <3> QED
        BY <3>1, <3>2, DeclaredIs DEF Orderly, Sane
    <2>4. pane' \in [Toplevel -> Pane] /\ DOMAIN pane' = Toplevel
      BY <1>3, <2>3
    <2> QED
      BY <2>2, <2>3, <2>4 DEF FramesInv, PaneInv
  <1> QED
    BY <1>1, <1>2, <1>3 DEF OutputFrame

LEMMA RenderMonStep ==
    ASSUME FramesInv, RenderMon
    PROVE  FramesInv'
  <1>1. PICK f : f = [frame EXCEPT !.due = FALSE]
    OBVIOUS
  <1>2. /\ f \in Frame /\ (f.armed <=> f.deadline) /\ (f.dirty /\ f.on => f.deadline)
        /\ f.dirty = frame.dirty /\ f.failed = frame.failed /\ f.on = frame.on
    BY <1>1 DEF FramesInv, ArmedInv, Frame
  <1>3. CASE f.on /\ OutputFrame(f)
    BY <1>2, <1>3, OutputFrameStep
  <1>4. CASE frame' = f /\ UNCHANGED pane
    <2>1. ArmedInv' /\ (Owed(frame) => Owed(frame'))
      BY <1>2, <1>4 DEF ArmedInv, Owed
    <2> QED
      BY <1>4, <2>1, FrameStep
  <1> QED
    BY <1>1, <1>3, <1>4 DEF RenderMon

LEMMA DeadlineFireStep ==
    ASSUME FramesInv, DeadlineFire
    PROVE  FramesInv'
  <1>1. PICK f : f = [frame EXCEPT !.deadline = FALSE, !.armed = FALSE]
    OBVIOUS
  <1>2. /\ f \in Frame /\ ~f.armed /\ ~f.deadline
        /\ f.dirty = frame.dirty /\ f.failed = frame.failed /\ f.on = frame.on
    BY <1>1 DEF FramesInv, ArmedInv, Frame
  <1>3. CASE f.on /\ OutputFrame(f)
    BY <1>2, <1>3, OutputFrameStep
  <1>4. CASE ~f.on /\ frame' = f /\ UNCHANGED pane
    <2>1. ArmedInv' /\ (Owed(frame) => Owed(frame'))
      BY <1>2, <1>4 DEF ArmedInv, Owed
    <2> QED
      BY <1>4, <2>1, FrameStep
  <1> QED
    BY <1>1, <1>3, <1>4 DEF DeadlineFire

LEMMA ArrangeStep ==
    ASSUME FramesInv, NEW w \in Toplevel, NEW s \in Size, Arrange(w, s)
    PROVE  FramesInv'
  <1>1. ArmedInv' /\ Owed(frame')
    BY MarkStep DEF Arrange, FramesInv, ArmedInv
  <1>2. Sane(pane[w]) /\ Sent(pane[w]) /\ Fits(pane[w]) /\ w \notin Floats
    BY DEF Arrange, FramesInv, PaneInv, Orderly
  <1>3. PICK q : q = [pane[w] EXCEPT !.want = s]
    OBVIOUS
  <1>4. Sane(q) /\ Sent(q) /\ Fits(q)
    BY <1>2, <1>3, FramesAssumption DEF Sane, Pane, Some, NoSize, Sent, Fits
  <1>5. pane' = [pane EXCEPT ![w] = q]
    BY <1>3 DEF Arrange
  <1> QED
    BY <1>1, <1>2, <1>4, <1>5, PaneStep

LEMMA ResizeFloatStep ==
    ASSUME FramesInv, NEW w \in Toplevel, NEW s \in Size, ResizeFloat(w, s)
    PROVE  FramesInv'
  <1>1. ArmedInv' /\ Owed(frame')
    BY MarkStep DEF ResizeFloat, FramesInv, ArmedInv
  <1>2. Sane(pane[w]) /\ w \in Floats
    BY DEF ResizeFloat, FramesInv, PaneInv, Orderly
  <1>3. PICK r : r = [pane[w] EXCEPT !.geometry = s, !.want = s]
    OBVIOUS
  <1>4. Sane(r) /\ r.geometry = r.want
    BY <1>2, <1>3, FramesAssumption DEF Sane, Pane, Some, NoSize
  <1>5. PICK q : q = ConfigureToBox(r)
    OBVIOUS
  <1>6. Sane(q) /\ Authored(q)
    BY <1>4, <1>5, ConfiguredIs DEF Authored
  <1>7. pane' = [pane EXCEPT ![w] = q] /\ pane'[w] = q
    BY <1>3, <1>5 DEF ResizeFloat, FramesInv
  <1>8. Fits(q)
    BY <1>7 DEF ResizeFloat
  <1> QED
    BY <1>1, <1>2, <1>6, <1>7, <1>8, PaneStep

LEMMA MapPaneStep ==
    ASSUME FramesInv, NEW w \in Toplevel, NEW s \in Size, NEW d \in Size, MapPane(w, s, d)
    PROVE  FramesInv'
  <1>1. ArmedInv' /\ Owed(frame')
    BY MarkStep DEF MapPane, FramesInv, ArmedInv
  <1>2. PICK want \in Size : want = IF w \in Floats THEN d ELSE s
    OBVIOUS
  <1>3. PICK q : q = [Unmapped EXCEPT !.mapped = TRUE, !.drawn = d, !.geometry = d, !.want = want]
    OBVIOUS
  <1>4. q = [mapped |-> TRUE, want |-> want, box |-> NoSize, geometry |-> d, resize |-> 0,
             wire |-> << >>, asked |-> NoSize, drawn |-> d, committed |-> NoSize,
             retries |-> 0, timer |-> FALSE]
    BY <1>3 DEF Unmapped
  <1>5. << >> \in Seq(Size) /\ Len(<< >>) = 0
    BY EmptySeq
  <1>6. q \in Pane
    BY <1>4, <1>5, FramesAssumption DEF Pane, Some, NoSize
  <1>7. Sane(q) /\ Fits(q) /\ Sent(q) /\ (w \in Floats => Authored(q))
    BY <1>2, <1>4, <1>5, <1>6, FramesAssumption DEF Sane, Fits, Sent, Authored, NoSize
  <1>8. pane' = [pane EXCEPT ![w] = q]
    BY <1>2, <1>3 DEF MapPane
  <1> QED
    BY <1>1, <1>7, <1>8, PaneStep

LEMMA UnmappedIs ==
    /\ Sane(Unmapped) /\ Fits(Unmapped) /\ Drawn(Unmapped)
    /\ Authored(Unmapped) /\ Sent(Unmapped)
  <1>1. << >> \in Seq(Size) /\ Len(<< >>) = 0
    BY EmptySeq
  <1>2. Unmapped \in Pane
    BY <1>1, FramesAssumption DEF Unmapped, Pane, Some, NoSize
  <1> QED
    BY <1>1, <1>2, FramesAssumption DEF Unmapped, Sane, Fits, Drawn, Authored, Sent, NoSize

LEMMA UnmapPaneStep ==
    ASSUME FramesInv, NEW w \in Toplevel, UnmapPane(w)
    PROVE  FramesInv'
  <1>1. ArmedInv' /\ Owed(frame')
    BY MarkStep DEF UnmapPane, FramesInv, ArmedInv
  <1>2. pane' = [pane EXCEPT ![w] = Unmapped]
    BY DEF UnmapPane
  <1> QED
    BY <1>1, <1>2, UnmappedIs, PaneStep

\* A commit that completes the awaited answer marks the output.
LEMMA CommitStep ==
    ASSUME FramesInv, NEW w \in Toplevel, NEW k, NEW d \in Size, Commit(w, k, d)
    PROVE  FramesInv'
  <1>0. /\ pane[w].mapped /\ k \in 0 .. Len(pane[w].wire) /\ Sane(pane[w])
        /\ IF w \in Floats THEN Authored(pane[w]) ELSE Sent(pane[w])
        /\ Owed(frame) \/ Drawn(pane[w])
    BY DEF Commit, FramesInv, PaneInv, Orderly
  <1>1. PICK p : p = pane[w]
    OBVIOUS
  <1>2. PICK q : q = Acknowledged(p, k, d)
    OBVIOUS
  <1>3. /\ Sane(q) /\ q.mapped /\ q.want = p.want /\ q.box = p.box /\ q.geometry = p.geometry
        /\ p.resize = 0 => q.resize = 0
    BY <1>0, <1>1, <1>2, AcknowledgedIs
  <1>4. PICK r : r = IF w \in Floats THEN q ELSE ConfigureToBox(q)
    OBVIOUS
  <1>5. /\ Sane(r) /\ r.mapped /\ r.want = p.want /\ r.box = p.box /\ r.geometry = p.geometry
        /\ w \notin Floats => Sent(r)
        /\ q.resize # 0 => r = q
    BY <1>3, <1>4, ConfiguredIs
  <1>6. PICK t : t = RetryArmed(r)
    OBVIOUS
  <1>7. /\ Sane(t) /\ (Sent(r) => Sent(t)) /\ t.mapped /\ t.want = p.want /\ t.box = p.box
        /\ t.geometry = p.geometry /\ t.resize = r.resize
    BY <1>5, <1>6, RetryArmedIs
  <1>8. pane' = [pane EXCEPT ![w] = t] /\ pane'[w] = t
    BY <1>1, <1>2, <1>4, <1>6 DEF Commit, FramesInv
  <1>9. Fits(t) /\ IF w \in Floats THEN Authored(t) ELSE Sent(t)
    BY <1>0, <1>1, <1>5, <1>7, <1>8 DEF Commit, Authored
  <1>10. PICK marks \in BOOLEAN : marks <=> \/ q.committed # p.committed
                                            \/ (p.resize # 0 /\ q.resize = 0)
                                            \/ w \in Floats
    OBVIOUS
  <1>11. frame' = IF marks THEN MarkDirty(frame) ELSE frame
    BY <1>1, <1>2, <1>10 DEF Commit
  <1>12. CASE marks
    <2>1. ArmedInv' /\ Owed(frame')
      BY <1>11, <1>12, MarkStep DEF FramesInv, ArmedInv
    <2> QED
      BY <1>7, <1>8, <1>9, <2>1, PaneStep
  <1>13. CASE ~marks
    <2>1. frame' = frame /\ ArmedInv'
      BY <1>11, <1>13 DEF FramesInv, ArmedInv
    <2>2. p.resize # 0 => q.resize # 0
      BY <1>10, <1>13
    <2>3. p.resize # 0 => t.resize # 0
      BY <1>5, <1>7, <2>2
    <2>4. Owed(frame') \/ Drawn(t)
      BY <1>0, <1>1, <1>7, <2>1, <2>3 DEF Drawn
    <2> QED
      BY <1>7, <1>8, <1>9, <2>1, <2>4, PaneStep
  <1> QED
    BY <1>12, <1>13

LEMMA ConfigureRetryStep ==
    ASSUME FramesInv, NEW w \in Toplevel, ConfigureRetry(w)
    PROVE  FramesInv'
  <1>0. ArmedInv' /\ (Owed(frame) => Owed(frame')) /\ frame' = frame
    BY DEF ConfigureRetry, FramesInv, ArmedInv, Owed
  <1>1. /\ Sane(pane[w]) /\ IF w \in Floats THEN Authored(pane[w]) ELSE Sent(pane[w])
        /\ Owed(frame) \/ Drawn(pane[w])
    BY DEF FramesInv, PaneInv, Orderly
  <1>2. PICK p : p = [pane[w] EXCEPT !.timer = FALSE]
    OBVIOUS
  <1>3. /\ Sane(p) /\ (IF w \in Floats THEN Authored(p) ELSE Sent(p))
        /\ Owed(frame) \/ Drawn(p)
    BY <1>1, <1>2 DEF Sane, Pane, Authored, Sent, Drawn
  <1>4. PICK q : q = IF Retries(p)
                     THEN [p EXCEPT !.retries = @ + 1, !.wire = Append(@, p.asked),
                                    !.resize = Len(p.wire) + 1]
                     ELSE p
    OBVIOUS
  <1>5. /\ Sane(q) /\ (IF w \in Floats THEN Authored(q) ELSE Sent(q))
        /\ Owed(frame) \/ Drawn(q)
    <2>1. CASE ~Retries(p)
      BY <1>3, <1>4, <2>1
    <2>2. CASE Retries(p)
      <3>1. p.wire \in Seq(Size) /\ p.asked \in Size /\ p \in Pane
        BY <1>3, <2>2 DEF Sane, Pane, Some, Retries
      <3>2. PICK wire : wire = Append(p.wire, p.asked)
        OBVIOUS
      <3>3. wire \in Seq(Size) /\ Len(wire) = Len(p.wire) + 1
        BY <3>1, <3>2, AppendProperties
      <3>4. PICK n \in Nat : n = Len(p.wire) + 1 /\ n = Len(wire) /\ n > 0
        BY <3>1, <3>3, LenProperties
      <3>5. PICK m \in 0 .. ConfigureRetries : m = p.retries + 1
        BY <3>1, <2>2, FramesAssumption DEF Pane, Retries
      <3>6. q = [p EXCEPT !.retries = m, !.wire = wire, !.resize = n]
        BY <1>4, <2>2, <3>2, <3>4, <3>5
      <3>7. /\ q \in Pane /\ q.wire = wire /\ q.resize = n /\ q.mapped = p.mapped
            /\ q.want = p.want /\ q.box = p.box /\ q.geometry = p.geometry
            /\ q.committed = p.committed /\ q.asked = p.asked
        BY <3>1, <3>3, <3>4, <3>5, <3>6 DEF Pane
      <3> QED
        BY <1>3, <3>4, <3>7 DEF Sane, Authored, Sent, Drawn
    <2> QED
      BY <2>1, <2>2
  <1>6. pane' = [pane EXCEPT ![w] = q] /\ pane'[w] = q
    BY <1>2, <1>4 DEF ConfigureRetry, FramesInv
  <1>7. Fits(q)
    BY <1>6 DEF ConfigureRetry
  <1> QED
    BY <1>0, <1>5, <1>6, <1>7, PaneStep

LEMMA SleepStep ==
    ASSUME FramesInv, Sleep
    PROVE  FramesInv'
  <1>1. ArmedInv' /\ Owed(frame')
    BY DEF Sleep, FramesInv, ArmedInv, Frame, Owed
  <1> QED
    BY <1>1, FrameStep DEF Sleep

LEMMA WakeStep ==
    ASSUME FramesInv, Wake
    PROVE  FramesInv'
  <1>1. PICK f : f = [frame EXCEPT !.on = TRUE]
    OBVIOUS
  <1>2. f \in Frame /\ (f.armed <=> f.deadline)
    BY <1>1 DEF FramesInv, ArmedInv, Frame
  <1>3. ArmedInv' /\ Owed(frame')
    BY <1>1, <1>2, MarkStep DEF Wake
  <1> QED
    BY <1>3, FrameStep DEF Wake

-----------------------------------------------------------------------------
(* The theorems.                                                           *)

LEMMA InitFrames == FramesInit => FramesInv
  <1> SUFFICES ASSUME FramesInit PROVE FramesInv
    OBVIOUS
  <1>1. ArmedInv
    BY DEF FramesInit, ArmedInv, Frame
  <1>2. \A w \in Toplevel : pane[w] = Unmapped
    BY DEF FramesInit
  <1>3. DOMAIN pane = Toplevel /\ pane \in [Toplevel -> Pane]
    BY UnmappedIs DEF FramesInit, Sane
  <1> QED
    BY <1>1, <1>2, <1>3, UnmappedIs DEF FramesInv, PaneInv, Orderly

LEMMA NextFrames == FramesInv /\ [FramesNext]_frameVars => FramesInv'
  <1> SUFFICES ASSUME FramesInv, [FramesNext]_frameVars PROVE FramesInv'
    OBVIOUS
  <1>1. CASE UNCHANGED frameVars
    BY <1>1 DEF frameVars, FramesInv, ArmedInv, PaneInv
  <1>2. CASE RenderMon
    BY <1>2, RenderMonStep
  <1>3. CASE DeadlineFire
    BY <1>3, DeadlineFireStep
  <1>4. CASE Sleep
    BY <1>4, SleepStep
  <1>5. CASE Wake
    BY <1>5, WakeStep
  <1>6. ASSUME NEW w \in Toplevel, UnmapPane(w) PROVE FramesInv'
    BY <1>6, UnmapPaneStep
  <1>7. ASSUME NEW w \in Toplevel, ConfigureRetry(w) PROVE FramesInv'
    BY <1>7, ConfigureRetryStep
  <1>8. ASSUME NEW w \in Toplevel, NEW s \in Size, Arrange(w, s) PROVE FramesInv'
    BY <1>8, ArrangeStep
  <1>9. ASSUME NEW w \in Toplevel, NEW s \in Size, ResizeFloat(w, s) PROVE FramesInv'
    BY <1>9, ResizeFloatStep
  <1>10. ASSUME NEW w \in Toplevel, NEW s \in Size, NEW d \in Size, MapPane(w, s, d)
         PROVE  FramesInv'
    BY <1>10, MapPaneStep
  <1>11. ASSUME NEW w \in Toplevel, NEW k \in 0 .. MaxWire, NEW d \in Size, Commit(w, k, d)
         PROVE  FramesInv'
    BY <1>11, CommitStep
  <1> QED
    BY <1>1, <1>2, <1>3, <1>4, <1>5, <1>6, <1>7, <1>8, <1>9, <1>10, <1>11 DEF FramesNext

LEMMA FramesTyped == ASSUME FramesInv PROVE FramesTypeOK
  <1>1. ASSUME NEW w \in Toplevel
        PROVE  /\ pane[w] \in Pane /\ pane[w].resize <= Len(pane[w].wire)
               /\ Len(pane[w].wire) <= MaxWire
    BY DEF FramesInv, PaneInv, Orderly, Sane, Fits
  <1>2. ASSUME NEW w \in Toplevel
        PROVE  pane[w].resize \in 0 .. Len(pane[w].wire)
    <2>1. pane[w].resize \in Nat /\ pane[w].wire \in Seq(Size)
      BY <1>1 DEF Pane
    <2>2. Len(pane[w].wire) \in Nat
      BY <2>1, LenProperties
    <2> QED
      BY <1>1, <2>1, <2>2
  <1> QED
    BY <1>1, <1>2 DEF FramesTypeOK, FramesInv, ArmedInv, Frame, Pane, Some

LEMMA FramesInOrder == ASSUME FramesInv PROVE FramesSound
  <1>1. MarksAreServed
    BY DEF FramesInv, ArmedInv, MarksAreServed
  <1>2. ASSUME NEW w \in Toplevel, AtRest(w)
        PROVE  /\ pane[w].geometry = pane[w].want
               /\ w \notin Floats => pane[w].want \in {pane[w].drawn, pane[w].asked}
    <2>1. Orderly(w, pane[w], frame) /\ ~Owed(frame) /\ pane[w].mapped /\ pane[w].resize = 0
      BY <1>2 DEF FramesInv, PaneInv, AtRest, Owed
    <2>2. pane[w].box = pane[w].want /\ pane[w].geometry = pane[w].want /\ pane[w].want # NoSize
      BY <2>1 DEF Orderly, Drawn, Sane
    <2>3. w \notin Floats => pane[w].box \in {NoSize, pane[w].drawn, pane[w].asked}
      BY <2>1 DEF Orderly, Sent
    <2> QED
      BY <2>2, <2>3
  <1> QED
    BY <1>1, <1>2 DEF FramesSound, TiledAreTold, IsTold, GeometryIsDrawn

-----------------------------------------------------------------------------
(* Recursive functions.                                                    *)

LEMMA Climbs ==
    ASSUME NEW T, NEW a \in Nat, NEW b \in Nat, a \in T,
           \A n \in a..b : n \in T /\ n < b => n + 1 \in T
    PROVE  \A n \in a..b : n \in T
  <1>1. PICK Q : Q = (a..b) \ T
    OBVIOUS
  <1>2. SUFFICES ASSUME Q # {} PROVE FALSE
    BY <1>1
  <1>3. PICK R : R = OpToRel(<, Nat)
    OBVIOUS
  <1>4. IsWellFoundedOn(R, Nat)
    BY <1>3, NatLessThanWellFounded
  <1>5. \A m, n \in Nat : <<m, n>> \in R <=> m < n
    BY <1>3 DEF OpToRel
  <1>6. Q \subseteq Nat
    BY <1>1
  <1>7. PICK n \in Q : \A m \in Q : ~(<<m, n>> \in R)
    BY <1>2, <1>4, <1>6, WFMin
  <1>8. n \in a..b /\ n \notin T /\ n # a
    BY <1>1, <1>7
  <1>9. n - 1 \in a..b /\ n - 1 < n /\ n - 1 \in Nat /\ n \in Nat /\ n - 1 < b
    BY <1>8
  <1>10. n - 1 \notin Q
    BY <1>7, <1>9, <1>5
  <1>11. n - 1 + 1 \in T
    BY <1>1, <1>9, <1>10
  <1> QED
    BY <1>8, <1>9, <1>11

\* f is built from x, from a to b, by g.
BuiltAlong(f, a, b, x, g) == f = [n \in a..b |-> IF n = a THEN x ELSE g[<<n, f[n - 1]>>]]

LEMMA Builds ==
    ASSUME NEW D, NEW a \in Nat, NEW b \in Nat, NEW x \in D, NEW g,
           \A n \in Nat, y \in D : g[<<n, y>>] \in D
    PROVE  \E f \in [a..b -> D] : BuiltAlong(f, a, b, x, g)
  <1>1. CASE b < a
    <2>1. PICK f : f = [n \in a..b |-> x]
      OBVIOUS
    <2>2. a..b = {}
      BY <1>1
    <2>3. f \in [a..b -> D] /\ BuiltAlong(f, a, b, x, g)
      BY <2>1, <2>2 DEF BuiltAlong
    <2> QED
      BY <2>3
  <1>2. CASE a <= b
    <2>1. PICK T : T = {m \in Nat : \E f \in [a..m -> D] : BuiltAlong(f, a, m, x, g)}
      OBVIOUS
    <2>2. a \in T
      <3>1. PICK f : f = [n \in a..a |-> x]
        OBVIOUS
      <3>2. \A n \in a..a : n = a
        OBVIOUS
      <3>3. f \in [a..a -> D] /\ BuiltAlong(f, a, a, x, g)
        BY <3>1, <3>2 DEF BuiltAlong
      <3> QED
        BY <2>1, <3>3
    <2>3. ASSUME NEW m \in a..b, m \in T PROVE m + 1 \in T
      <3>1. m \in Nat /\ m + 1 \in Nat /\ a <= m
        OBVIOUS
      <3>2. PICK f \in [a..m -> D] : BuiltAlong(f, a, m, x, g)
        BY <2>1, <2>3
      <3>3. PICK h : h = [n \in a..(m + 1) |-> IF n = m + 1 THEN g[<<n, f[m]>>] ELSE f[n]]
        OBVIOUS
      <3>4. f[m] \in D /\ m \in a..m
        BY <3>1, <3>2
      <3>5. \A n \in a..(m + 1) : n = m + 1 \/ n \in a..m
        BY <3>1
      <3>6. h \in [a..(m + 1) -> D]
        BY <3>1, <3>2, <3>3, <3>4, <3>5
      <3>7. ASSUME NEW n \in a..(m + 1) PROVE h[n] = IF n = a THEN x ELSE g[<<n, h[n - 1]>>]
        <4>1. CASE n = m + 1
          <5>1. n # a /\ n - 1 = m /\ m # m + 1 /\ m \in a..(m + 1)
            BY <3>1, <4>1
          <5>2. h[n] = g[<<n, f[m]>>] /\ h[m] = f[m]
            BY <3>3, <4>1, <5>1
          <5> QED
            BY <5>1, <5>2
        <4>2. CASE n \in a..m
          <5>1. n # m + 1 /\ h[n] = f[n]
            BY <3>1, <3>3, <4>2
          <5>2. f[n] = IF n = a THEN x ELSE g[<<n, f[n - 1]>>]
            BY <3>2, <4>2 DEF BuiltAlong
          <5>3. n # a => n - 1 \in a..(m + 1) /\ n - 1 # m + 1
            BY <3>1, <4>2
          <5>4. n # a => h[n - 1] = f[n - 1]
            BY <3>3, <5>3
          <5> QED
            BY <5>1, <5>2, <5>4
        <4> QED
          BY <3>5, <4>1, <4>2
      <3>8. BuiltAlong(h, a, m + 1, x, g)
        BY <3>3, <3>7 DEF BuiltAlong
      <3> QED
        BY <2>1, <3>1, <3>6, <3>8
    <2>4. \A n \in a..b : n \in T
      BY <2>2, <2>3, Climbs
    <2>5. b \in T
      BY <1>2, <2>4
    <2> QED
      BY <2>1, <2>5
  <1> QED
    BY <1>1, <1>2

-----------------------------------------------------------------------------
(* Screens: the loops of updatemons().                                     *)

\* Each round of a loop stays in D; what it does for one monitor no later
\* round undoes (P holds the pairs of a desk and a monitor that is done).
LEMMA ForEachDoes ==
    ASSUME NEW loop \in Loop, NEW D, NEW d \in D, NEW l \in Seq(Monitor), l = d.mons,
           \A y \in D, m \in ToSet(l) : Round(loop, y, m) \in D,
           NEW P, \A y \in D, m \in ToSet(l) : <<Round(loop, y, m), m>> \in P,
           \A y \in D, m \in ToSet(l), k \in ToSet(l) :
              <<y, k>> \in P => <<Round(loop, y, m), k>> \in P
    PROVE  ForEach(loop, d) \in D /\ \A m \in ToSet(l) : <<ForEach(loop, d), m>> \in P
  <1>1. PICK n \in Nat : n = Len(l)
    BY LenProperties
  <1>2. \A i \in 1..n : l[i] \in ToSet(l)
    <2>1. DOMAIN l = 1..n
      BY <1>1, LenProperties
    <2> QED
      BY <2>1 DEF ToSet
  <1>3. PICK g : g = [p \in Nat \X D |-> IF p[1] \in 1..n THEN Round(loop, p[2], l[p[1]]) ELSE p[2]]
    OBVIOUS
  <1>4. ASSUME NEW i \in Nat, NEW y \in D PROVE g[<<i, y>>] \in D
    <2>1. g[<<i, y>>] = IF i \in 1..n THEN Round(loop, y, l[i]) ELSE y
      BY <1>3
    <2> QED
      BY <1>2, <2>1
  <1>5. PICK f \in [0..n -> D] : BuiltAlong(f, 0, n, d, g)
    BY <1>4, Builds
  <1> DEFINE E(h, i) == IF i = 0 THEN d ELSE Round(loop, h[i - 1], l[i])
  <1>6. ASSUME NEW i \in 0..n PROVE f[i] = E(f, i)
    <2>1. f[i] = IF i = 0 THEN d ELSE g[<<i, f[i - 1]>>]
      BY <1>5 DEF BuiltAlong
    <2>2. CASE i # 0
      <3>1. i \in 1..n /\ i \in Nat /\ i - 1 \in 0..n
        BY <2>2
      <3>2. f[i - 1] \in D
        BY <1>5, <3>1
      <3>3. g[<<i, f[i - 1]>>] = Round(loop, f[i - 1], l[i])
        BY <1>3, <3>1, <3>2
      <3> QED
        BY <2>1, <2>2, <3>3
    <2> QED
      BY <2>1, <2>2
  <1>7. f = [i \in 0..n |-> E(f, i)]
    BY <1>5, <1>6
  <1>8. PICK k : k = CHOOSE h : h = [i \in 0..n |-> E(h, i)]
    OBVIOUS
  <1>9. k = [i \in 0..n |-> E(k, i)] /\ ForEach(loop, d) = k[n]
    BY <1>1, <1>7, <1>8 DEF ForEach
  <1> DEFINE Done(i) == /\ k[i] = f[i]
                        /\ \A j \in 1..i : <<f[i], l[j]>> \in P
  <1>10. PICK A : A = {i \in Nat : i \in 0..n => Done(i)}
    OBVIOUS
  <1>11. 0 \in A
    <2>1. 1..0 = {} /\ 0 \in 0..n
      OBVIOUS
    <2>2. k[0] = d /\ f[0] = d
      BY <1>6, <1>9, <2>1
    <2> QED
      BY <1>10, <2>1, <2>2
  <1>12. ASSUME NEW i \in 0..n, i \in A /\ i < n PROVE i + 1 \in A
    <2>1. i + 1 \in 0..n /\ i + 1 # 0 /\ (i + 1) - 1 = i /\ i + 1 \in Nat /\ i + 1 \in 1..n
      BY <1>12
    <2>2. Done(i)
      BY <1>10, <1>12
    <2>3. k[i + 1] = Round(loop, k[i], l[i + 1])
      BY <1>9, <2>1
    <2>4. f[i + 1] = Round(loop, f[i], l[i + 1]) /\ f[i] \in D /\ l[i + 1] \in ToSet(l)
      BY <1>2, <1>5, <1>6, <2>1
    <2>5. <<f[i + 1], l[i + 1]>> \in P
      BY <2>4
    <2>6. ASSUME NEW j \in 1..i PROVE <<f[i + 1], l[j]>> \in P
      <3>1. <<f[i], l[j]>> \in P /\ l[j] \in ToSet(l)
        BY <1>2, <2>2
      <3> QED
        BY <2>4, <3>1
    <2>7. \A j \in 1..(i + 1) : j \in 1..i \/ j = i + 1
      BY <2>1
    <2>8. k[i + 1] = f[i + 1]
      BY <2>2, <2>3, <2>4
    <2> QED
      BY <1>10, <2>1, <2>5, <2>6, <2>7, <2>8
  <1>13. Done(n) /\ f[n] \in D
    <2>1. \A i \in 0..n : i \in A
      BY <1>11, <1>12, Climbs
    <2>2. n \in 0..n
      OBVIOUS
    <2> QED
      BY <1>5, <1>10, <2>1, <2>2
  <1>14. \A m \in ToSet(l) : \E j \in 1..n : l[j] = m
    <2>1. DOMAIN l = 1..n
      BY <1>1, LenProperties
    <2> QED
      BY <2>1 DEF ToSet
  <1> QED
    BY <1>9, <1>13, <1>14

-----------------------------------------------------------------------------
(* Screens: look-ups.                                                      *)

LEMMA FirstInIs ==
    ASSUME NEW S, NEW s \in Seq(S), NEW T
    PROVE  IF T \cap ToSet(s) = {} THEN FirstIn(s, T) = 0 ELSE FirstIn(s, T) \in T \cap ToSet(s)
  <1>1. PICK n \in Nat : n = Len(s) /\ DOMAIN s = 1..n
    BY LenProperties
  <1>2. SUFFICES ASSUME T \cap ToSet(s) # {} PROVE FirstIn(s, T) \in T \cap ToSet(s)
    BY DEF FirstIn
  <1>3. PICK Q : Q = {i \in 1..n : s[i] \in T}
    OBVIOUS
  <1>4. \E i \in Q : \A j \in 1..(i - 1) : s[j] \notin T
    <2>1. SUFFICES ASSUME \A i \in Q : \E j \in 1..(i - 1) : s[j] \in T PROVE FALSE
      OBVIOUS
    <2>2. PICK i \in 1..n : s[i] \in T
      BY <1>1, <1>2 DEF ToSet
    <2>3. PICK B : B = {k \in Nat : \A j \in 1..n : j <= k => s[j] \notin T}
      OBVIOUS
    <2>4. 0 \in B
      BY <2>3
    <2>5. ASSUME NEW k \in 0..n, k \in B, k < n PROVE k + 1 \in B
      <3>1. k + 1 \in 1..n /\ (k + 1) - 1 = k /\ \A j \in 1..n : j <= k + 1 => j <= k \/ j = k + 1
        BY <2>5
      <3>2. s[k + 1] \notin T
        BY <1>3, <2>1, <2>3, <2>5, <3>1
      <3> QED
        BY <2>3, <2>5, <3>1, <3>2
    <2>6. \A k \in 0..n : k \in B
      BY <2>4, <2>5, Climbs
    <2>7. i \in B /\ i <= i
      BY <2>6
    <2> QED
      BY <2>2, <2>3, <2>7
  <1>5. PICK i : i = CHOOSE h \in DOMAIN s : s[h] \in T /\ \A j \in 1..(h - 1) : s[j] \notin T
    OBVIOUS
  <1>6. i \in DOMAIN s /\ s[i] \in T
    BY <1>1, <1>3, <1>4, <1>5
  <1>7. FirstIn(s, T) = s[i]
    BY <1>2, <1>5 DEF FirstIn
  <1> QED
    BY <1>6, <1>7 DEF ToSet

-----------------------------------------------------------------------------
(* Screens: what holds of a desk at any time.                              *)

Output == Monitor \cup {NoOutput}
Stand  == [mon : Output, scr : Nat, at : Point]
Desk   == [mons : Seq(Monitor), sel : Output, lit : SUBSET Monitor, asleep : SUBSET Monitor,
           laid : SUBSET Monitor, fresh : SUBSET Monitor, screens : Seq(Nat),
           host : Seq(Output), area : Seq(SUBSET Point), index : Seq(Nat), told : Seq(Nat),
           win : [Window -> Stand]]

Screen(d) == 1..Len(d.host)

Proper(d) ==
    /\ d \in Desk /\ IsInjective(d.mons) /\ IsInjective(d.screens)
    /\ d.lit \subseteq ToSet(d.mons) /\ d.asleep \subseteq ToSet(d.mons)
    /\ d.laid \subseteq ToSet(d.mons) /\ d.fresh \subseteq ToSet(d.mons)
    /\ Len(d.area) = Len(d.host) /\ Len(d.index) = Len(d.host) /\ Len(d.told) = Len(d.host)
    /\ Listed(d) \subseteq Screen(d)
    /\ \A c \in Window : d.win[c].scr \in Screen(d) \cup {NoScreen}

\* A listed screen is of an output there is, or of none; no two are of one.
Hosted(d) ==
    /\ \A s \in Listed(d) : d.host[s] \in ToSet(d.mons) \cup {NoOutput}
    /\ \A s, t \in Listed(d) : d.host[s] = d.host[t] /\ d.host[s] # NoOutput => s = t

\* It was announced once, unless that is still to come.
Announced(d) ==
    \A s \in Listed(d) : d.host[s] # NoOutput =>
        d.told[s] = IF d.host[s] \in d.fresh THEN 0 ELSE 1

Sound(d) == Proper(d) /\ Hosted(d) /\ Announced(d)

Has(d, m) == \E s \in Listed(d) : d.host[s] = m

\* No window is on an output that is gone, nor is the selected one.
Live(d) ==
    /\ d.sel \in ToSet(d.mons) \cup {NoOutput}
    /\ \A c \in Window : d.win[c].mon \in ToSet(d.mons) \cup {NoOutput}

LEMMA MonitorsAre ==
    /\ Monitor \subseteq Nat /\ NoOutput \notin Monitor /\ 1 \in Monitor /\ IsFiniteSet(Monitor)
    /\ Point \subseteq Nat /\ 1 \in Point
    /\ \A m \in Monitor : 2 * m - 1 \in Point /\ 2 * m \in Point /\ Area(m) \subseteq Point
  <1>1. PICK n \in Nat : n = Cardinality(Monitor)
    BY MonitorAssumption, FS_CardinalityType
  <1>2. Monitor = 1..n /\ Monitor # {} /\ IsFiniteSet(Monitor)
    BY <1>1, MonitorAssumption
  <1>3. Monitor \subseteq Nat /\ NoOutput \notin Monitor /\ 1 \in Monitor
    BY <1>2 DEF NoOutput
  <1>4. \A m \in Monitor : 2 * m - 1 \in Area(m) /\ 2 * m \in Area(m) /\ Area(m) \subseteq Nat
    <2>1. ASSUME NEW m \in Monitor
          PROVE  2 * m - 1 \in Area(m) /\ 2 * m \in Area(m) /\ Area(m) \subseteq Nat
      <3>1. m \in Nat /\ m # 0
        BY <1>3 DEF NoOutput
      <3>2. 2 * m - 1 \in Nat /\ 2 * m \in Nat
        BY <3>1
      <3> QED
        BY <3>2 DEF Area
    <2> QED
      BY <2>1
  <1>5. \A m \in Monitor : Area(m) \subseteq Point
    BY DEF Point
  <1>6. Point \subseteq Nat
    BY <1>4 DEF Point
  <1>7. 1 \in Point
    BY <1>3, <1>4, <1>5
  <1> QED
    BY <1>2, <1>3, <1>4, <1>5, <1>6, <1>7

LEMMA ScreensAre ==
    ASSUME NEW d, Proper(d)
    PROVE  /\ Len(d.host) \in Nat /\ Listed(d) \subseteq Nat /\ NoScreen \notin Listed(d)
           /\ Listed(d) = ToSet(d.screens) /\ DOMAIN d.host = Screen(d)
           /\ DOMAIN d.area = Screen(d) /\ DOMAIN d.index = Screen(d) /\ DOMAIN d.told = Screen(d)
           /\ Screen(d) \subseteq Nat /\ NoScreen \notin Screen(d)
           /\ \A s \in Screen(d) : /\ d.host[s] \in Output /\ d.area[s] \subseteq Point
                                   /\ d.index[s] \in Nat /\ d.told[s] \in Nat
  <1>1. /\ d.host \in Seq(Output) /\ d.area \in Seq(SUBSET Point) /\ d.index \in Seq(Nat)
        /\ d.told \in Seq(Nat)
        /\ Len(d.area) = Len(d.host) /\ Len(d.index) = Len(d.host) /\ Len(d.told) = Len(d.host)
    BY DEF Proper, Desk
  <1>2. Len(d.host) \in Nat /\ DOMAIN d.host = Screen(d)
    BY <1>1, LenProperties DEF Screen
  <1>3. DOMAIN d.area = Screen(d) /\ DOMAIN d.index = Screen(d) /\ DOMAIN d.told = Screen(d)
    BY <1>1, LenProperties DEF Screen
  <1>4. Screen(d) \subseteq Nat /\ NoScreen \notin Screen(d)
    BY <1>2 DEF Screen, NoScreen
  <1>5. \A s \in Screen(d) : d.host[s] \in Output /\ d.area[s] \in SUBSET Point
    BY <1>1, ElementOfSeq DEF Screen
  <1>6. \A s \in Screen(d) : d.index[s] \in Nat /\ d.told[s] \in Nat
    BY <1>1, ElementOfSeq DEF Screen
  <1>7. Listed(d) \subseteq Screen(d) /\ Listed(d) = ToSet(d.screens)
    BY DEF Proper, Listed
  <1> QED
    BY <1>2, <1>3, <1>4, <1>5, <1>6, <1>7

LEMMA ByMonitor ==
    ASSUME NEW d, Proper(d), NEW m \in Output
    PROVE  /\ screen_get_by_monitor(d, m) \in Listed(d) \cup {NoScreen}
           /\ screen_get_by_monitor(d, m) # NoScreen =>
                 m # NoOutput /\ d.host[screen_get_by_monitor(d, m)] = m
           /\ m # NoOutput /\ Has(d, m) => screen_get_by_monitor(d, m) # NoScreen
  <1>1. PICK T : T = {s \in Listed(d) : d.host[s] = m}
    OBVIOUS
  <1>2. d.screens \in Seq(Nat) /\ T \subseteq ToSet(d.screens) /\ NoScreen \notin T
    BY <1>1, ScreensAre DEF Proper, Desk
  <1>3. PICK r : r = FirstIn(d.screens, T)
    OBVIOUS
  <1>4. IF T \cap ToSet(d.screens) = {} THEN r = 0 ELSE r \in T \cap ToSet(d.screens)
    BY <1>2, <1>3, FirstInIs
  <1>5. r \in T \cup {NoScreen} /\ (T # {} => r \in T)
    BY <1>2, <1>4 DEF NoScreen
  <1>6. screen_get_by_monitor(d, m) = IF m = NoOutput THEN NoScreen ELSE r
    BY <1>1, <1>3 DEF screen_get_by_monitor
  <1> QED
    BY <1>1, <1>2, <1>5, <1>6 DEF Has

LEMMA ByCoord ==
    ASSUME NEW d, Proper(d), NEW p
    PROVE  screen_getbycoord(d, p) \in Listed(d) \cup {NoScreen}
  <1>1. PICK T : T = {s \in Listed(d) : p \in d.area[s]}
    OBVIOUS
  <1>2. PICK U : U = {s \in Listed(d) : \A t \in Listed(d) : Away(d, s, p) <= Away(d, t, p)}
    OBVIOUS
  <1>3. d.screens \in Seq(Nat) /\ Listed(d) = ToSet(d.screens)
    BY ScreensAre DEF Proper, Desk
  <1>4. \A Q : FirstIn(d.screens, Q) \in ToSet(d.screens) \cup {0}
    BY <1>3, FirstInIs
  <1>5. screen_getbycoord(d, p) \in {FirstIn(d.screens, T), FirstIn(d.screens, U)}
    BY <1>1, <1>2 DEF screen_getbycoord
  <1> QED
    BY <1>3, <1>4, <1>5 DEF NoScreen

LEMMA ByScreen ==
    ASSUME NEW d, Proper(d), NEW s
    PROVE  monitor_get_by_screen(d, s) \in ToSet(d.mons) \cup {NoOutput}
  <1>1. PICK T : T = {m \in ToSet(d.mons) : screen_get_by_monitor(d, m) = s}
    OBVIOUS
  <1>2. PICK U : U = {m \in d.laid : d.area[s] \cap Area(m) # {}}
    OBVIOUS
  <1>3. d.mons \in Seq(Monitor)
    BY DEF Proper, Desk
  <1>4. \A Q : FirstIn(d.mons, Q) \in ToSet(d.mons) \cup {0}
    BY <1>3, FirstInIs
  <1>5. monitor_get_by_screen(d, s) \in {FirstIn(d.mons, T), FirstIn(d.mons, U)}
    BY <1>1, <1>2 DEF monitor_get_by_screen
  <1> QED
    BY <1>4, <1>5 DEF NoOutput

LEMMA MonsAre ==
    ASSUME NEW d, Proper(d)
    PROVE  /\ ToSet(d.mons) \subseteq Monitor /\ d.mons \in Seq(Monitor)
           /\ ToSet(d.mons) \cup {NoOutput} \subseteq Output
  <1>1. d.mons \in Seq(Monitor)
    BY DEF Proper, Desk
  <1>2. ToSet(d.mons) \subseteq Monitor
    BY <1>1, LenProperties, ElementOfSeq DEF ToSet
  <1> QED
    BY <1>1, <1>2 DEF Output

-----------------------------------------------------------------------------
(* Screens: moving windows.                                                *)

LEMMA MovesTo ==
    ASSUME NEW d, Proper(d), NEW w \in Stand, NEW s \in Listed(d) \cup {NoScreen},
           NEW r, r = screen_client_moveto(d, w, s)
    PROVE  /\ r \in Stand /\ r.scr \in {w.scr, s}
           /\ r.mon \in {w.mon} \cup ToSet(d.mons)
  <1>1. PICK m : m = IF s = NoScreen THEN NoOutput ELSE monitor_get_by_screen(d, s)
    OBVIOUS
  <1>2. m \in ToSet(d.mons) \cup {NoOutput} /\ m \in Output
    BY <1>1, ByScreen, MonsAre
  <1>3. s \in Nat
    BY ScreensAre DEF NoScreen
  <1>4. r = IF s = w.scr THEN w ELSE [w EXCEPT !.scr = s, !.mon = IF m = NoOutput THEN @ ELSE m]
    BY <1>1 DEF screen_client_moveto
  <1>5. PICK q \in Output : q = (IF m = NoOutput THEN w.mon ELSE m) /\ q \in {w.mon} \cup ToSet(d.mons)
    BY <1>2 DEF Stand
  <1>6. CASE s = w.scr
    BY <1>4, <1>6
  <1>7. CASE s # w.scr
    <2>1. r = [w EXCEPT !.scr = s, !.mon = q]
      BY <1>4, <1>5, <1>7
    <2>2. r \in Stand /\ r.scr = s /\ r.mon = q
      BY <1>3, <2>1 DEF Stand
    <2> QED
      BY <1>5, <2>2
  <1> QED
    BY <1>6, <1>7

LEMMA MonIsSet ==
    ASSUME NEW d, Proper(d), NEW w \in Stand, NEW m \in Output, NEW r, r = setmon(d, w, m)
    PROVE  r \in Stand /\ r.scr \in {w.scr, NoScreen} \cup Listed(d) /\ r.mon = m
  <1>1. CASE w.mon = m
    BY <1>1 DEF setmon
  <1>2. CASE w.mon # m
    <2>1. PICK s : s = screen_get_by_monitor(d, m)
      OBVIOUS
    <2>2. s \in Listed(d) \cup {NoScreen} /\ s \in Nat
      BY <2>1, ByMonitor, ScreensAre DEF NoScreen
    <2>3. PICK p : p = IF m = NoOutput \/ w.at \in Area(m) THEN w.at
                       ELSE IF w.at < 2 * m THEN 2 * m - 1 ELSE 2 * m
      OBVIOUS
    <2>4. p \in Point
      BY <2>3, MonitorsAre DEF Stand, Output
    <2>5. r = [w EXCEPT !.mon = m, !.scr = s, !.at = p]
      BY <1>2, <2>1, <2>3 DEF setmon
    <2>6. r \in Stand /\ r.scr = s /\ r.mon = m
      BY <2>2, <2>4, <2>5 DEF Stand
    <2> QED
      BY <2>2, <2>6
  <1> QED
    BY <1>1, <1>2

\* All but the windows and the selected monitor.
Kept(d, e) ==
    /\ e.mons = d.mons /\ e.lit = d.lit /\ e.asleep = d.asleep /\ e.laid = d.laid
    /\ e.fresh = d.fresh /\ e.screens = d.screens /\ e.host = d.host /\ e.area = d.area
    /\ e.index = d.index /\ e.told = d.told

LEMMA KeptIs ==
    ASSUME NEW d, NEW e, Proper(d), Kept(d, e), e \in Desk,
           \A c \in Window : e.win[c].scr \in Screen(d) \cup {NoScreen}
    PROVE  /\ Proper(e) /\ Listed(e) = Listed(d) /\ Screen(e) = Screen(d)
           /\ \A m : Has(e, m) <=> Has(d, m)
           /\ Hosted(d) => Hosted(e)
           /\ Announced(d) => Announced(e)
  <1>1. Listed(e) = Listed(d) /\ Screen(e) = Screen(d)
    BY DEF Kept, Listed, Screen
  <1>2. Proper(e)
    BY <1>1 DEF Proper, Kept
  <1>3. \A m : Has(e, m) <=> Has(d, m)
    BY <1>1 DEF Has, Kept
  <1>4. Hosted(d) => Hosted(e)
    BY <1>1 DEF Hosted, Kept
  <1>5. Announced(d) => Announced(e)
    BY <1>1 DEF Announced, Kept
  <1> QED
    BY <1>1, <1>2, <1>3, <1>4, <1>5

\* The windows move, each to a place of its own.
LEMMA WindowsMove ==
    ASSUME NEW d, Proper(d), NEW v \in [Window -> Stand], NEW e, e = [d EXCEPT !.win = v],
           \A c \in Window : v[c].scr \in Screen(d) \cup {NoScreen}
    PROVE  Proper(e) /\ Kept(d, e) /\ e.win = v /\ e.sel = d.sel
  <1>1. d \in Desk
    BY DEF Proper
  <1>2. e \in Desk /\ Kept(d, e) /\ e.win = v /\ e.sel = d.sel
    BY <1>1 DEF Desk, Kept
  <1>3. Proper(e)
    BY <1>2, KeptIs
  <1> QED
    BY <1>2, <1>3

LEMMA HandedOn ==
    ASSUME NEW d, Proper(d), NEW m, NEW n \in Output, NEW e, e = HandOn(d, Window, m, n)
    PROVE  /\ Proper(e) /\ Kept(d, e) /\ e.sel = d.sel
           /\ \A c \in Window : e.win[c].mon = IF d.win[c].mon = m THEN n ELSE d.win[c].mon
  <1>1. PICK v : v = [c \in Window |-> IF d.win[c].mon = m THEN setmon(d, d.win[c], n) ELSE d.win[c]]
    OBVIOUS
  <1>2. e = [d EXCEPT !.win = v]
    BY <1>1 DEF HandOn
  <1>3. ASSUME NEW c \in Window
        PROVE  /\ v[c] \in Stand /\ v[c].scr \in Screen(d) \cup {NoScreen}
               /\ v[c].mon = IF d.win[c].mon = m THEN n ELSE d.win[c].mon
    <2>1. d.win[c] \in Stand /\ d.win[c].scr \in Screen(d) \cup {NoScreen}
      BY DEF Proper, Desk
    <2>2. Listed(d) \subseteq Screen(d)
      BY DEF Proper
    <2>3. CASE d.win[c].mon = m
      <3>1. v[c] = setmon(d, d.win[c], n)
        BY <1>1, <2>3
      <3>2. v[c] \in Stand /\ v[c].scr \in {d.win[c].scr, NoScreen} \cup Listed(d) /\ v[c].mon = n
        BY <2>1, <3>1, MonIsSet
      <3> QED
        BY <2>1, <2>2, <2>3, <3>2
    <2>4. CASE d.win[c].mon # m
      <3>1. v[c] = d.win[c]
        BY <1>1, <2>4
      <3> QED
        BY <2>1, <2>4, <3>1
    <2> QED
      BY <2>3, <2>4
  <1>4. v \in [Window -> Stand]
    BY <1>1, <1>3
  <1> QED
    BY <1>2, <1>3, <1>4, WindowsMove

-----------------------------------------------------------------------------
(* Screens: screens made and removed.                                      *)

\* Where the entries of Without(s, x) come from.
LEMMA WithoutAt ==
    ASSUME NEW S, NEW s \in Seq(S), NEW x \in ToSet(s), NEW r, r = Without(s, x)
    PROVE  \E i \in 1..Len(s) :
              /\ s[i] = x /\ Len(s) \in Nat /\ Len(s) - 1 \in Nat /\ DOMAIN s = 1..Len(s)
              /\ r \in Seq(S) /\ DOMAIN r = 1..(Len(s) - 1) /\ Len(r) = Len(s) - 1
              /\ \A k \in 1..(Len(s) - 1) : r[k] = IF k < i THEN s[k] ELSE s[k + 1]
  <1>1. PICK n \in Nat : n = Len(s) /\ DOMAIN s = 1..n
    BY LenProperties
  <1>2. PICK i : i = CHOOSE h \in DOMAIN s : s[h] = x
    OBVIOUS
  <1>3. i \in 1..n /\ s[i] = x
    BY <1>1, <1>2 DEF ToSet
  <1>4. r = [k \in 1..(n - 1) |-> IF k < i THEN s[k] ELSE s[k + 1]] /\ n - 1 \in Nat
    BY <1>1, <1>2, <1>3 DEF Without
  <1>5. \A k \in 1..n : s[k] \in S
    BY <1>1, ElementOfSeq
  <1>6. \A k \in 1..(n - 1) : k \in 1..n /\ k + 1 \in 1..n
    BY <1>4
  <1>7. \A k \in 1..(n - 1) : r[k] \in S
    BY <1>4, <1>5, <1>6
  <1>8. r \in [1..(n - 1) -> S]
    BY <1>4, <1>7
  <1>9. r \in Seq(S) /\ DOMAIN r = 1..(n - 1) /\ Len(r) = n - 1
    BY <1>4, <1>8, IsASeq, LenProperties
  <1> QED
    BY <1>1, <1>3, <1>4, <1>9

LEMMA WithoutIs ==
    ASSUME NEW S, NEW s \in Seq(S), IsInjective(s), NEW x \in ToSet(s), NEW r, r = Without(s, x)
    PROVE  r \in Seq(S) /\ IsInjective(r)
  <1>1. PICK n : n = Len(s)
    OBVIOUS
  <1>2. PICK i \in 1..n :
           /\ n \in Nat /\ n - 1 \in Nat /\ DOMAIN s = 1..n /\ s[i] = x
           /\ r \in Seq(S) /\ DOMAIN r = 1..(n - 1)
           /\ \A k \in 1..(n - 1) : r[k] = IF k < i THEN s[k] ELSE s[k + 1]
    BY <1>1, WithoutAt
  <1>3. \A g, h \in 1..n : s[g] = s[h] => g = h
    BY <1>2 DEF IsInjective
  <1>4. \A k \in 1..(n - 1) : k \in 1..n /\ k + 1 \in 1..n
    BY <1>2
  <1>5. ASSUME NEW k \in 1..(n - 1), NEW l \in 1..(n - 1), r[k] = r[l] PROVE k = l
    <2>1. PICK g \in 1..n : r[k] = s[g] /\ g = (IF k < i THEN k ELSE k + 1)
      BY <1>2, <1>4
    <2>2. PICK h \in 1..n : r[l] = s[h] /\ h = (IF l < i THEN l ELSE l + 1)
      BY <1>2, <1>4
    <2>3. g = h
      BY <1>3, <1>5, <2>1, <2>2
    <2> QED
      BY <1>2, <2>1, <2>2, <2>3
  <1>6. IsInjective(r)
    BY <1>2, <1>5 DEF IsInjective
  <1> QED
    BY <1>2, <1>6

LEMMA WithoutHas ==
    ASSUME NEW S, NEW s \in Seq(S), IsInjective(s), NEW x \in ToSet(s), NEW r, r = Without(s, x)
    PROVE  \A y : y \in ToSet(r) <=> y \in ToSet(s) /\ y # x
  <1>1. PICK n : n = Len(s)
    OBVIOUS
  <1>2. PICK i \in 1..n :
           /\ n \in Nat /\ n - 1 \in Nat /\ DOMAIN s = 1..n /\ s[i] = x
           /\ r \in Seq(S) /\ DOMAIN r = 1..(n - 1)
           /\ \A k \in 1..(n - 1) : r[k] = IF k < i THEN s[k] ELSE s[k + 1]
    BY <1>1, WithoutAt
  <1>3. \A g, h \in 1..n : s[g] = s[h] => g = h
    BY <1>2 DEF IsInjective
  <1>4. \A k \in 1..(n - 1) : k \in 1..n /\ k + 1 \in 1..n
    BY <1>2
  <1>5. ASSUME NEW y \in ToSet(r) PROVE y \in ToSet(s) /\ y # x
    <2>1. PICK k \in 1..(n - 1) : r[k] = y
      BY <1>2, <1>5 DEF ToSet
    <2>2. PICK h \in 1..n : y = s[h] /\ h = (IF k < i THEN k ELSE k + 1)
      BY <1>2, <1>4, <2>1
    <2>3. h # i
      BY <1>2, <2>2
    <2>4. y # x
      BY <1>2, <1>3, <2>2, <2>3
    <2> QED
      BY <1>2, <2>2, <2>4 DEF ToSet
  <1>6. ASSUME NEW y \in ToSet(s), y # x PROVE y \in ToSet(r)
    <2>1. PICK h \in 1..n : s[h] = y
      BY <1>2, <1>6 DEF ToSet
    <2>2. h # i
      BY <1>2, <1>6, <2>1
    <2>3. PICK k \in 1..(n - 1) : k = (IF h < i THEN h ELSE h - 1)
      BY <1>2, <2>2
    <2>4. r[k] = y
      BY <1>2, <2>1, <2>2, <2>3
    <2> QED
      BY <1>2, <2>4 DEF ToSet
  <1> QED
    BY <1>5, <1>6

LEMMA GrownHas ==
    ASSUME NEW S, NEW s \in Seq(S), NEW x \in S, NEW r, r = Append(s, x)
    PROVE  \A y : y \in ToSet(r) <=> y \in ToSet(s) \/ y = x
  <1>1. PICK n \in Nat : n = Len(s) /\ DOMAIN s = 1..n
    BY LenProperties
  <1>2. r \in Seq(S) /\ Len(r) = n + 1 /\ r[n + 1] = x /\ \A k \in 1..n : r[k] = s[k]
    BY <1>1, AppendProperties
  <1>3. DOMAIN r = 1..(n + 1)
    BY <1>2, LenProperties
  <1>4. \A k \in 1..(n + 1) : k \in 1..n \/ k = n + 1
    BY <1>1
  <1>5. 1..n \subseteq 1..(n + 1) /\ n + 1 \in 1..(n + 1)
    BY <1>1
  <1>6. ASSUME NEW y \in ToSet(r) PROVE y \in ToSet(s) \/ y = x
    <2>1. PICK k \in 1..(n + 1) : r[k] = y
      BY <1>3, <1>6 DEF ToSet
    <2> QED
      BY <1>1, <1>2, <1>4, <2>1 DEF ToSet
  <1>7. ASSUME NEW y \in ToSet(s) PROVE y \in ToSet(r)
    <2>1. PICK k \in 1..n : s[k] = y
      BY <1>1, <1>7 DEF ToSet
    <2> QED
      BY <1>2, <1>3, <1>5, <2>1 DEF ToSet
  <1>8. x \in ToSet(r)
    BY <1>2, <1>3, <1>5 DEF ToSet
  <1> QED
    BY <1>6, <1>7, <1>8

LEMMA GrownIs ==
    ASSUME NEW S, NEW s \in Seq(S), NEW x \in S, NEW r, r = Append(s, x)
    PROVE  /\ r \in Seq(S) /\ Len(r) = Len(s) + 1 /\ Len(s) \in Nat /\ r[Len(s) + 1] = x
           /\ \A k \in 1..Len(s) : r[k] = s[k]
           /\ IsInjective(s) /\ x \notin ToSet(s) => IsInjective(r)
  <1>1. PICK n \in Nat : n = Len(s) /\ DOMAIN s = 1..n
    BY LenProperties
  <1>2. /\ r \in Seq(S) /\ Len(r) = n + 1 /\ r[n + 1] = x /\ \A k \in 1..n : r[k] = s[k]
    BY <1>1, AppendProperties
  <1>3. DOMAIN r = 1..(n + 1)
    BY <1>2, LenProperties
  <1>4. \A k \in 1..(n + 1) : k \in 1..n \/ k = n + 1
    BY <1>1
  <1>5. ASSUME IsInjective(s), x \notin ToSet(s) PROVE IsInjective(r)
    <2>1. \A g, h \in 1..n : s[g] = s[h] => g = h
      BY <1>1, <1>5 DEF IsInjective
    <2>2. \A k \in 1..n : s[k] # x
      BY <1>1, <1>5 DEF ToSet
    <2>3. \A k, l \in 1..(n + 1) : r[k] = r[l] => k = l
      BY <1>2, <1>4, <2>1, <2>2
    <2> QED
      BY <1>3, <2>3 DEF IsInjective
  <1> QED
    BY <1>1, <1>2, <1>5

\* The number of the next screen.
NextScreen(d) == Len(d.host) + 1

\* a is d with a new screen, n, for m.
Grew(d, m, n, a) ==
    /\ Proper(a) /\ a.mons = d.mons /\ a.lit = d.lit /\ a.asleep = d.asleep
    /\ a.laid = d.laid /\ a.fresh = d.fresh /\ a.sel = d.sel /\ a.win = d.win
    /\ n \notin Listed(d) /\ Listed(a) = Listed(d) \cup {n} /\ n \in Screen(a)
    /\ a.host[n] = m /\ a.told[n] = 0
    /\ \A s \in Listed(d) : a.host[s] = d.host[s] /\ a.told[s] = d.told[s]

LEMMA ScreenNew ==
    ASSUME NEW d, Proper(d), NEW m \in Output, NEW box \in SUBSET Point, NEW i \in Nat,
           NEW e, e = screen_new(d, m, box, i)
    PROVE  Grew(d, m, NextScreen(d), e)
  <1>0. PICK n : n = NextScreen(d)
    OBVIOUS
  <1>1. d \in Desk /\ Len(d.host) \in Nat /\ n \in Nat /\ n \notin Listed(d)
        /\ Listed(d) = ToSet(d.screens) /\ Listed(d) \subseteq 1..Len(d.host)
    BY <1>0, ScreensAre DEF Proper, Screen, NextScreen
  <1>2. /\ d.screens \in Seq(Nat) /\ d.host \in Seq(Output) /\ d.area \in Seq(SUBSET Point)
        /\ d.index \in Seq(Nat) /\ d.told \in Seq(Nat)
    BY <1>1 DEF Desk
  <1>3. PICK s2 : s2 = Append(d.screens, n)
    OBVIOUS
  <1>4. PICK h2 : h2 = Append(d.host, m)
    OBVIOUS
  <1>5. PICK a2 : a2 = Append(d.area, box)
    OBVIOUS
  <1>6. PICK i2 : i2 = Append(d.index, i)
    OBVIOUS
  <1>7. PICK t2 : t2 = Append(d.told, 0)
    OBVIOUS
  <1>8. e = [d EXCEPT !.screens = s2, !.host = h2, !.area = a2, !.index = i2, !.told = t2]
    BY <1>0, <1>3, <1>4, <1>5, <1>6, <1>7 DEF screen_new, NextScreen
  <1>9. s2 \in Seq(Nat) /\ ToSet(s2) = Listed(d) \cup {n} /\ IsInjective(s2)
    <2>1. IsInjective(d.screens)
      BY DEF Proper
    <2>2. PICK k, a, N : k = n /\ a = d.screens /\ N = Nat
      OBVIOUS
    <2>3. a \in Seq(N) /\ k \in N /\ s2 = Append(a, k)
      BY <1>1, <1>2, <1>3, <2>2
    <2>4. k \notin ToSet(a) /\ IsInjective(a)
      BY <1>1, <2>1, <2>2
    <2>5. s2 \in Seq(N)
      BY <2>3, GrownIs
    <2>6. IsInjective(s2)
      BY <2>3, <2>4, GrownIs
    <2>7. \A y : y \in ToSet(s2) <=> y \in ToSet(a) \/ y = k
      BY <2>3, GrownHas
    <2> QED
      BY <1>1, <2>2, <2>5, <2>6, <2>7
  <1>10. /\ h2 \in Seq(Output) /\ Len(h2) = n /\ h2[n] = m
         /\ \A s \in 1..Len(d.host) : h2[s] = d.host[s]
    BY <1>0, <1>1, <1>2, <1>4, GrownIs DEF NextScreen
  <1>11. Len(d.told) = Len(d.host) /\ Len(d.area) = Len(d.host) /\ Len(d.index) = Len(d.host)
    BY DEF Proper
  <1>12. /\ t2 \in Seq(Nat) /\ Len(t2) = n /\ t2[n] = 0
         /\ \A s \in 1..Len(d.host) : t2[s] = d.told[s]
    BY <1>0, <1>1, <1>2, <1>7, <1>11, GrownIs DEF NextScreen
  <1>13. a2 \in Seq(SUBSET Point) /\ Len(a2) = n
    BY <1>0, <1>1, <1>2, <1>5, <1>11, GrownIs DEF NextScreen
  <1>14. i2 \in Seq(Nat) /\ Len(i2) = n
    BY <1>0, <1>1, <1>2, <1>6, <1>11, GrownIs DEF NextScreen
  <1>15. /\ e \in Desk /\ e.mons = d.mons /\ e.lit = d.lit /\ e.asleep = d.asleep
         /\ e.laid = d.laid /\ e.fresh = d.fresh /\ e.sel = d.sel /\ e.win = d.win
         /\ e.screens = s2 /\ e.host = h2 /\ e.area = a2 /\ e.index = i2 /\ e.told = t2
    BY <1>1, <1>8, <1>9, <1>10, <1>12, <1>13, <1>14 DEF Desk
  <1>16. Listed(e) = Listed(d) \cup {n} /\ Screen(e) = 1..n /\ Screen(d) \subseteq Screen(e)
         /\ n \in Screen(e)
    <2>1. 1..Len(d.host) \subseteq 1..n /\ n \in 1..n
      BY <1>0, <1>1 DEF NextScreen
    <2>2. Listed(e) = Listed(d) \cup {n}
      BY <1>9, <1>15 DEF Listed
    <2>3. Screen(e) = 1..n /\ Screen(d) = 1..Len(d.host)
      BY <1>10, <1>15 DEF Screen
    <2> QED
      BY <2>1, <2>2, <2>3
  <1>17. Proper(e)
    <2>1. Listed(e) \subseteq Screen(e)
      BY <1>16 DEF Proper
    <2>2. \A c \in Window : e.win[c].scr \in Screen(e) \cup {NoScreen}
      BY <1>15, <1>16 DEF Proper
    <2> QED
      BY <1>9, <1>10, <1>12, <1>13, <1>14, <1>15, <2>1, <2>2 DEF Proper
  <1> QED
    <2>1. \A s \in Listed(d) : e.host[s] = d.host[s] /\ e.told[s] = d.told[s]
      BY <1>1, <1>10, <1>12, <1>15
    <2> QED
      BY <1>0, <1>1, <1>10, <1>12, <1>15, <1>16, <1>17, <2>1 DEF Grew

LEMMA ScreenAdded ==
    ASSUME NEW d, Proper(d), NEW s \in Screen(d), NEW e, e = screen_added(d, s)
    PROVE  /\ Proper(e) /\ e.mons = d.mons /\ e.lit = d.lit /\ e.asleep = d.asleep
           /\ e.laid = d.laid /\ e.fresh = d.fresh /\ e.sel = d.sel /\ e.win = d.win
           /\ e.screens = d.screens /\ e.host = d.host /\ Listed(e) = Listed(d)
           /\ e.told[s] = d.told[s] + 1
           /\ \A t \in Screen(d) : t # s => e.told[t] = d.told[t]
  <1>1. d \in Desk /\ d.told \in Seq(Nat) /\ DOMAIN d.told = Screen(d) /\ d.told[s] \in Nat
        /\ Len(d.told) = Len(d.host) /\ Len(d.host) \in Nat
    BY ScreensAre DEF Proper, Desk
  <1>2. PICK t2 : t2 = [d.told EXCEPT ![s] = d.told[s] + 1]
    OBVIOUS
  <1>3. t2 \in Seq(Nat) /\ Len(t2) = Len(d.host)
    BY <1>1, <1>2, ExceptSeq
  <1>4. t2[s] = d.told[s] + 1 /\ \A t \in Screen(d) : t # s => t2[t] = d.told[t]
    BY <1>1, <1>2
  <1>5. e = [d EXCEPT !.told = t2]
    BY <1>2 DEF screen_added
  <1>6. /\ e \in Desk /\ e.mons = d.mons /\ e.lit = d.lit /\ e.asleep = d.asleep
        /\ e.laid = d.laid /\ e.fresh = d.fresh /\ e.sel = d.sel /\ e.win = d.win
        /\ e.screens = d.screens /\ e.host = d.host /\ e.area = d.area /\ e.index = d.index
        /\ e.told = t2
    BY <1>1, <1>3, <1>5 DEF Desk
  <1>7. Listed(e) = Listed(d) /\ Screen(e) = Screen(d)
    BY <1>6 DEF Listed, Screen
  <1>8. Proper(e)
    BY <1>3, <1>6, <1>7 DEF Proper
  <1> QED
    BY <1>4, <1>6, <1>7, <1>8
LEMMA ScreenRemoved ==
    ASSUME NEW d, Proper(d), NEW s \in Listed(d), NEW e, e = screen_removed(d, s)
    PROVE  /\ Proper(e) /\ e.mons = d.mons /\ e.lit = d.lit /\ e.asleep = d.asleep
           /\ e.laid = d.laid /\ e.fresh = d.fresh /\ e.sel = d.sel /\ e.told = d.told
           /\ \A t : t \in Listed(e) <=> t \in Listed(d) /\ t # s
           /\ Screen(e) = Screen(d)
           /\ \A t \in Screen(d) : t # s => e.host[t] = d.host[t]
           /\ \A c \in Window : e.win[c].mon \in {d.win[c].mon} \cup ToSet(d.mons)
  <1>1. /\ d \in Desk /\ Len(d.host) \in Nat /\ s \in Screen(d)
        /\ Listed(d) = ToSet(d.screens) /\ Listed(d) \subseteq Screen(d)
        /\ DOMAIN d.index = Screen(d) /\ DOMAIN d.host = Screen(d)
    BY ScreensAre DEF Proper
  <1>2. /\ d.screens \in Seq(Nat) /\ d.host \in Seq(Output) /\ d.index \in Seq(Nat)
        /\ d.win \in [Window -> Stand]
    BY <1>1 DEF Desk
  <1>3. Len(d.index) = Len(d.host) /\ IsInjective(d.screens)
        /\ \A c \in Window : d.win[c].scr \in Screen(d) \cup {NoScreen}
    BY DEF Proper
  <1>4. PICK rest : rest = Without(d.screens, s)
    OBVIOUS
  <1>5. PICK v : v = [c \in Window |-> IF d.win[c].scr = s THEN Rehomed(d, d.win[c]) ELSE d.win[c]]
    OBVIOUS
  <1>6. PICK h2 : h2 = [d.host EXCEPT ![s] = NoOutput]
    OBVIOUS
  <1>7. PICK i2 : i2 = [t \in DOMAIN d.index |->
                           IF \E i \in DOMAIN rest : rest[i] = t /\ d.screens[i] # t
                           THEN CHOOSE i \in DOMAIN rest : rest[i] = t ELSE d.index[t]]
    OBVIOUS
  <1>8. e = [d EXCEPT !.win = v, !.host = h2, !.screens = rest, !.index = i2]
    BY <1>4, <1>5, <1>6, <1>7 DEF screen_removed
  <1>9. rest \in Seq(Nat) /\ IsInjective(rest)
    BY <1>1, <1>2, <1>3, <1>4, WithoutIs
  <1>10. \A t : t \in ToSet(rest) <=> t \in Listed(d) /\ t # s
    <2>1. PICK a : a = d.screens
      OBVIOUS
    <2>2. a \in Seq(Nat) /\ IsInjective(a) /\ s \in ToSet(a) /\ rest = Without(a, s)
      BY <1>1, <1>2, <1>3, <1>4, <2>1
    <2>3. \A t : t \in ToSet(rest) <=> t \in ToSet(a) /\ t # s
      BY <2>2, WithoutHas
    <2> QED
      BY <1>1, <2>1, <2>3
  <1>11. h2 \in Seq(Output) /\ Len(h2) = Len(d.host) /\ \A t \in Screen(d) : t # s => h2[t] = d.host[t]
    <2>1. NoOutput \in Output
      BY DEF Output
    <2>2. s \in 1..Len(d.host)
      BY <1>1 DEF Screen
    <2>3. h2 \in Seq(Output) /\ Len(h2) = Len(d.host)
      BY <1>2, <1>6, <2>1, <2>2, ExceptSeq
    <2> QED
      BY <1>1, <1>6, <2>3
  <1>12. i2 \in Seq(Nat) /\ Len(i2) = Len(d.host)
    <2>1. ASSUME NEW t \in Screen(d) PROVE i2[t] \in Nat
      <3>1. d.index[t] \in Nat
        BY ScreensAre, <2>1
      <3>2. DOMAIN rest \subseteq Nat
        BY <1>9, LenProperties
      <3>3. ASSUME \E i \in DOMAIN rest : rest[i] = t /\ d.screens[i] # t
            PROVE  (CHOOSE i \in DOMAIN rest : rest[i] = t) \in Nat
        <4>1. \E i \in DOMAIN rest : rest[i] = t
          BY <3>3
        <4>2. (CHOOSE i \in DOMAIN rest : rest[i] = t) \in DOMAIN rest
          BY <4>1
        <4> QED
          BY <3>2, <4>2
      <3>4. i2[t] = IF \E i \in DOMAIN rest : rest[i] = t /\ d.screens[i] # t
                    THEN CHOOSE i \in DOMAIN rest : rest[i] = t ELSE d.index[t]
        BY <1>1, <1>7
      <3> QED
        BY <3>1, <3>3, <3>4
    <2>2. i2 \in [1..Len(d.host) -> Nat]
      BY <1>1, <1>7, <2>1 DEF Screen
    <2> QED
      BY <1>1, <2>2, IsASeq, LenProperties
  <1>13. ASSUME NEW c \in Window
         PROVE  /\ v[c] \in Stand /\ v[c].scr \in Screen(d) \cup {NoScreen}
                /\ v[c].mon \in {d.win[c].mon} \cup ToSet(d.mons)
    <2>1. d.win[c] \in Stand /\ d.win[c].scr \in Screen(d) \cup {NoScreen}
      BY <1>2, <1>3
    <2>2. CASE d.win[c].scr = s
      <3>1. PICK t : t = screen_getbycoord(d, d.win[c].at)
        OBVIOUS
      <3>2. t \in Listed(d) \cup {NoScreen}
        BY <3>1, ByCoord
      <3>3. v[c] = screen_client_moveto(d, d.win[c], t)
        BY <1>5, <2>2, <3>1 DEF Rehomed
      <3>4. /\ v[c] \in Stand /\ v[c].scr \in {d.win[c].scr, t}
            /\ v[c].mon \in {d.win[c].mon} \cup ToSet(d.mons)
        BY <2>1, <3>2, <3>3, MovesTo
      <3> QED
        BY <1>1, <2>1, <3>2, <3>4
    <2>3. CASE d.win[c].scr # s
      <3>1. v[c] = d.win[c]
        BY <1>5, <2>3
      <3> QED
        BY <2>1, <3>1
    <2> QED
      BY <2>2, <2>3
  <1>14. v \in [Window -> Stand]
    BY <1>5, <1>13
  <1>15. /\ e \in Desk /\ e.mons = d.mons /\ e.lit = d.lit /\ e.asleep = d.asleep
         /\ e.laid = d.laid /\ e.fresh = d.fresh /\ e.sel = d.sel /\ e.told = d.told
         /\ e.area = d.area /\ e.screens = rest /\ e.host = h2 /\ e.index = i2 /\ e.win = v
    BY <1>1, <1>8, <1>9, <1>11, <1>12, <1>14 DEF Desk
  <1>16. Screen(e) = Screen(d) /\ Listed(e) = ToSet(rest)
    BY <1>11, <1>15 DEF Screen, Listed
  <1>17. Proper(e)
    <2>1. Listed(e) \subseteq Screen(e)
      BY <1>1, <1>10, <1>16
    <2>2. \A c \in Window : e.win[c].scr \in Screen(e) \cup {NoScreen}
      BY <1>13, <1>15, <1>16
    <2> QED
      BY <1>9, <1>11, <1>12, <1>15, <2>1, <2>2 DEF Proper
  <1> QED
    BY <1>10, <1>11, <1>13, <1>15, <1>16, <1>17

\* The screen of an output goes, if it has one.
LEMMA OutputLoses ==
    ASSUME NEW d, Sound(d), NEW m \in Monitor, NEW e,
           e = screen_removed(d, screen_get_by_monitor(d, m))
    PROVE  /\ Sound(e) /\ e.mons = d.mons /\ e.lit = d.lit /\ e.asleep = d.asleep
           /\ e.laid = d.laid /\ e.fresh = d.fresh /\ e.sel = d.sel
           /\ \A k \in Monitor : Has(e, k) <=> Has(d, k) /\ k # m
           /\ \A c \in Window : e.win[c].mon \in {d.win[c].mon} \cup ToSet(d.mons)
  <1>1. Proper(d) /\ Hosted(d) /\ Announced(d) /\ m \in Output /\ m # NoOutput
    BY MonitorsAre DEF Sound, Output
  <1>2. PICK s : s = screen_get_by_monitor(d, m)
    OBVIOUS
  <1>3. /\ s \in Listed(d) \cup {NoScreen}
        /\ s # NoScreen => d.host[s] = m
        /\ Has(d, m) => s # NoScreen
    BY <1>1, <1>2, ByMonitor
  <1>4. CASE s = NoScreen
    <2>1. e = d
      BY <1>1, <1>2, <1>4, ScreensAre DEF screen_removed
    <2> QED
      BY <1>3, <1>4, <2>1
  <1>5. CASE s \in Listed(d)
    <2>1. s # NoScreen /\ d.host[s] = m /\ Listed(d) \subseteq Screen(d)
      BY <1>1, <1>3, <1>5, ScreensAre DEF Proper
    <2>2. /\ Proper(e) /\ e.mons = d.mons /\ e.lit = d.lit /\ e.asleep = d.asleep
          /\ e.laid = d.laid /\ e.fresh = d.fresh /\ e.sel = d.sel /\ e.told = d.told
          /\ \A t : t \in Listed(e) <=> t \in Listed(d) /\ t # s
          /\ \A t \in Screen(d) : t # s => e.host[t] = d.host[t]
          /\ \A c \in Window : e.win[c].mon \in {d.win[c].mon} \cup ToSet(d.mons)
      BY <1>1, <1>2, <1>5, ScreenRemoved
    <2>3. \A t \in Listed(e) : t \in Listed(d) /\ e.host[t] = d.host[t]
      BY <2>1, <2>2
    <2>4. Hosted(e)
      BY <1>1, <2>2, <2>3 DEF Hosted
    <2>5. Announced(e)
      BY <1>1, <2>2, <2>3 DEF Announced
    <2>6. ~Has(e, m)
      BY <1>1, <2>1, <2>2, <2>3, <1>5 DEF Has, Hosted
    <2>7. ASSUME NEW k \in Monitor, k # m PROVE Has(e, k) <=> Has(d, k)
      BY <2>1, <2>2, <2>3, <2>7 DEF Has
    <2> QED
      BY <2>2, <2>4, <2>5, <2>6, <2>7 DEF Sound
  <1> QED
    BY <1>3, <1>4, <1>5

LEMMA Selects ==
    ASSUME NEW d, Proper(d), NEW m, d.sel \in ToSet(d.mons) \cup {NoOutput, m}
    PROVE  NextSelected(d, m) \in ToSet(d.mons) \cup {NoOutput}
  <1>1. d.mons \in Seq(Monitor)
    BY MonsAre
  <1>2. PICK T : T = (ToSet(d.mons) \cap d.lit) \ {m}
    OBVIOUS
  <1>3. FirstIn(d.mons, T) \in ToSet(d.mons) \cup {NoOutput}
    BY <1>1, FirstInIs DEF NoOutput
  <1> QED
    BY <1>2, <1>3 DEF NextSelected

\* An output that leaves, whether it is still in the list or not.
LEMMA MonitorCloses ==
    ASSUME NEW d, Sound(d), NEW m \in Monitor, NEW e, e = closemon(d, m),
           d.sel \in ToSet(d.mons) \cup {NoOutput, m},
           \A c \in Window : d.win[c].mon \in ToSet(d.mons) \cup {NoOutput, m}
    PROVE  /\ Sound(e) /\ Live(e) /\ Kept(d, e)
           /\ \A k : Has(e, k) <=> Has(d, k)
  <1>1. Proper(d) /\ Hosted(d) /\ Announced(d)
    BY DEF Sound
  <1>2. PICK n : n = NextSelected(d, m)
    OBVIOUS
  <1>3. n \in ToSet(d.mons) \cup {NoOutput} /\ n \in Output
    BY <1>1, <1>2, Selects, MonsAre
  <1>4. PICK f : f = [d EXCEPT !.sel = n]
    OBVIOUS
  <1>5. f \in Desk /\ Kept(d, f) /\ f.sel = n /\ f.win = d.win
    BY <1>1, <1>3, <1>4 DEF Proper, Desk, Kept
  <1>6. Proper(f)
    BY <1>1, <1>5, KeptIs DEF Proper
  <1>7. e = HandOn(f, Window, m, n)
    BY <1>2, <1>4 DEF closemon
  <1>8. /\ Proper(e) /\ Kept(f, e) /\ e.sel = f.sel
        /\ \A c \in Window : e.win[c].mon = IF f.win[c].mon = m THEN n ELSE f.win[c].mon
    BY <1>3, <1>6, <1>7, HandedOn
  <1>9. Kept(d, e) /\ e.mons = d.mons
    BY <1>5, <1>8 DEF Kept
  <1>10. Live(e)
    BY <1>3, <1>5, <1>8, <1>9 DEF Live
  <1>11. e \in Desk /\ \A c \in Window : e.win[c].scr \in Screen(d) \cup {NoScreen}
    BY <1>8, <1>9 DEF Proper, Screen, Kept
  <1>12. Hosted(e) /\ Announced(e) /\ \A k : Has(e, k) <=> Has(d, k)
    BY <1>1, <1>9, <1>11, KeptIs
  <1> QED
    BY <1>8, <1>9, <1>10, <1>12 DEF Sound

\* An output gains a screen, to be announced.
LEMMA OutputGains ==
    ASSUME NEW d, Sound(d), NEW m \in ToSet(d.mons), ~Has(d, m),
           NEW n, NEW a, Grew(d, m, n, a), NEW b, b \in Desk,
           b.mons = a.mons, b.lit = a.lit, b.asleep = a.asleep, b.fresh = a.fresh \cup {m},
           b.laid \subseteq ToSet(d.mons), b.screens = a.screens, b.host = a.host,
           b.area = a.area, b.index = a.index, b.told = a.told, b.win = a.win
    PROVE  /\ Sound(b) /\ b.mons = d.mons /\ b.lit = d.lit /\ b.asleep = d.asleep
           /\ b.fresh = d.fresh \cup {m} /\ b.win = d.win /\ a.laid = d.laid /\ a.sel = d.sel
           /\ \A k : Has(b, k) <=> Has(d, k) \/ k = m
  <1>1. /\ Proper(d) /\ Hosted(d) /\ Announced(d) /\ m \in Output /\ m # NoOutput
    BY MonsAre, MonitorsAre DEF Sound, Output
  <1>2. /\ Proper(a) /\ a.mons = d.mons /\ a.lit = d.lit /\ a.asleep = d.asleep
        /\ a.laid = d.laid /\ a.fresh = d.fresh /\ a.sel = d.sel /\ a.win = d.win
    BY DEF Grew
  <1>3. /\ n \notin Listed(d) /\ Listed(a) = Listed(d) \cup {n}
        /\ a.host[n] = m /\ a.told[n] = 0
        /\ \A s \in Listed(d) : a.host[s] = d.host[s] /\ a.told[s] = d.told[s]
    BY DEF Grew
  <1>4. Listed(b) = Listed(a) /\ Screen(b) = Screen(a)
    BY DEF Listed, Screen
  <1>5. Proper(b)
    BY <1>1, <1>2, <1>4 DEF Proper
  <1>6. \A s \in Listed(d) : d.host[s] # m
    BY DEF Has
  <1>7. Hosted(b)
    BY <1>1, <1>2, <1>3, <1>4, <1>6 DEF Hosted
  <1>8. Announced(b)
    BY <1>1, <1>2, <1>3, <1>4, <1>6 DEF Announced
  <1>9. \A k : Has(b, k) <=> Has(d, k) \/ k = m
    BY <1>3, <1>4 DEF Has
  <1> QED
    BY <1>2, <1>5, <1>7, <1>8, <1>9 DEF Sound

-----------------------------------------------------------------------------
(* Screens: the stages of updatemons().                                    *)

Same(d, e) == e.mons = d.mons /\ e.lit = d.lit /\ e.asleep = d.asleep

\* Only which outputs there are, and which are laid out and fresh, is new.
LEMMA OutputsChange ==
    ASSUME NEW d, Sound(d), NEW e, e \in Desk, IsInjective(e.mons),
           e.lit \subseteq ToSet(e.mons), e.asleep \subseteq ToSet(e.mons),
           e.laid \subseteq ToSet(e.mons), e.fresh \subseteq ToSet(e.mons),
           e.screens = d.screens, e.host = d.host, e.area = d.area, e.index = d.index,
           e.told = d.told, e.win = d.win,
           \A m \in Monitor : Has(d, m) => m \in ToSet(e.mons) /\ (m \in e.fresh <=> m \in d.fresh)
    PROVE  Sound(e) /\ \A m : Has(e, m) <=> Has(d, m)
  <1>1. Proper(d) /\ Hosted(d) /\ Announced(d) /\ ToSet(d.mons) \subseteq Monitor
    BY MonsAre DEF Sound
  <1>2. Listed(e) = Listed(d) /\ Screen(e) = Screen(d)
    BY DEF Listed, Screen
  <1>3. Proper(e)
    BY <1>1, <1>2 DEF Proper
  <1>4. \A m : Has(e, m) <=> Has(d, m)
    BY <1>2 DEF Has
  <1>5. \A s \in Listed(d) : d.host[s] # NoOutput =>
           d.host[s] \in ToSet(e.mons) /\ (d.host[s] \in e.fresh <=> d.host[s] \in d.fresh)
    <2>1. ASSUME NEW s \in Listed(d), d.host[s] # NoOutput
          PROVE  d.host[s] \in ToSet(e.mons) /\ (d.host[s] \in e.fresh <=> d.host[s] \in d.fresh)
      <3>1. d.host[s] \in Monitor
        BY <1>1, <2>1 DEF Hosted
      <3>2. Has(d, d.host[s])
        BY DEF Has
      <3> QED
        BY <3>1, <3>2
    <2> QED
      BY <2>1
  <1>6. Hosted(e)
    BY <1>1, <1>2, <1>5 DEF Hosted
  <1>7. Announced(e)
    BY <1>1, <1>2, <1>5 DEF Announced
  <1> QED
    BY <1>3, <1>4, <1>6, <1>7 DEF Sound

\* Before and during the first loop: the outputs laid out are those with screens.
Paired(d) == \A m \in Monitor : Has(d, m) <=> m \in d.laid
Ready(d)  == Sound(d) /\ Live(d) /\ d.fresh \subseteq d.lit /\ Paired(d)

LEMMA Disables ==
    ASSUME NEW d, Ready(d), NEW m \in ToSet(d.mons), NEW e, e = Round("disable", d, m)
    PROVE  Ready(e) /\ Same(d, e)
  <1>1. e = DropDisabled(d, m)
    BY DEF Round
  <1>2. /\ Sound(d) /\ Live(d) /\ Proper(d) /\ m \in Monitor /\ ToSet(d.mons) \subseteq Monitor
        /\ d.fresh \subseteq d.lit /\ Paired(d)
    BY MonsAre DEF Ready, Sound
  <1>3. CASE m \in d.lit \cup d.asleep \/ m \notin d.laid
    BY <1>1, <1>3 DEF DropDisabled, Same
  <1>4. CASE m \notin d.lit \cup d.asleep /\ m \in d.laid
    <2>1. PICK f : f = screen_removed(d, screen_get_by_monitor(d, m))
      OBVIOUS
    <2>2. PICK g : g = [f EXCEPT !.laid = f.laid \ {m}]
      OBVIOUS
    <2>3. e = closemon(g, m)
      BY <1>1, <1>4, <2>1, <2>2 DEF DropDisabled
    <2>4. /\ Sound(f) /\ f.mons = d.mons /\ f.lit = d.lit /\ f.asleep = d.asleep
          /\ f.laid = d.laid /\ f.fresh = d.fresh /\ f.sel = d.sel
          /\ \A k \in Monitor : Has(f, k) <=> Has(d, k) /\ k # m
          /\ \A c \in Window : f.win[c].mon \in {d.win[c].mon} \cup ToSet(d.mons)
      BY <1>2, <2>1, OutputLoses
    <2>5. f \in Desk
      BY <2>4 DEF Sound, Proper
    <2>6. /\ g \in Desk /\ g.mons = d.mons /\ g.lit = d.lit /\ g.asleep = d.asleep
          /\ g.laid = d.laid \ {m} /\ g.fresh = d.fresh /\ g.sel = d.sel
          /\ g.screens = f.screens /\ g.host = f.host /\ g.area = f.area /\ g.index = f.index
          /\ g.told = f.told /\ g.win = f.win
      BY <2>2, <2>4, <2>5 DEF Desk
    <2>7. /\ IsInjective(g.mons) /\ g.lit \subseteq ToSet(g.mons) /\ g.asleep \subseteq ToSet(g.mons)
          /\ g.laid \subseteq ToSet(g.mons) /\ g.fresh \subseteq ToSet(g.mons)
      BY <1>2, <2>6 DEF Proper
    <2>8. \A k \in Monitor : Has(f, k) => k \in ToSet(g.mons) /\ (k \in g.fresh <=> k \in f.fresh)
      BY <1>2, <2>4, <2>6 DEF Paired, Proper
    <2>9. Sound(g) /\ \A k : Has(g, k) <=> Has(f, k)
      BY <2>4, <2>6, <2>7, <2>8, OutputsChange
    <2>10. /\ g.sel \in ToSet(g.mons) \cup {NoOutput, m}
           /\ \A c \in Window : g.win[c].mon \in ToSet(g.mons) \cup {NoOutput, m}
      BY <1>2, <2>4, <2>6 DEF Live
    <2>11. Sound(e) /\ Live(e) /\ Kept(g, e) /\ \A k : Has(e, k) <=> Has(g, k)
      BY <1>2, <2>3, <2>9, <2>10, MonitorCloses
    <2>12. Same(d, e) /\ e.laid = d.laid \ {m} /\ e.fresh = d.fresh
      BY <2>6, <2>11 DEF Same, Kept
    <2>13. Paired(e)
      BY <1>2, <2>4, <2>9, <2>11, <2>12 DEF Paired
    <2> QED
      BY <1>2, <2>11, <2>12, <2>13 DEF Ready, Same
  <1> QED
    BY <1>3, <1>4

\* During the second loop: an output that is on may still lack its screen.
Joining(d) ==
    /\ Sound(d) /\ Live(d) /\ d.fresh \subseteq d.lit /\ d.lit \subseteq d.laid
    /\ \A m \in Monitor : /\ Has(d, m) => m \in d.laid
                          /\ m \in d.laid /\ m \notin d.lit => Has(d, m)

LEMMA Ensures ==
    ASSUME NEW d, Joining(d), NEW m \in ToSet(d.mons), NEW e, e = Round("geometry", d, m)
    PROVE  /\ Joining(e) /\ Same(d, e)
           /\ m \in e.lit => Has(e, m)
           /\ \A k : Has(d, k) => Has(e, k)
  <1>1. e = EnsureScreen(d, m)
    BY DEF Round
  <1>2. /\ Sound(d) /\ Live(d) /\ Proper(d) /\ Hosted(d) /\ Announced(d) /\ m \in Monitor
        /\ ToSet(d.mons) \subseteq Monitor /\ d.fresh \subseteq d.lit /\ m \in Output /\ m # NoOutput
        /\ d.laid \subseteq ToSet(d.mons) /\ d.lit \subseteq ToSet(d.mons) /\ d.lit \subseteq d.laid
    BY MonsAre, MonitorsAre DEF Joining, Sound, Output, Proper
  <1>3. CASE m \notin d.lit
    <2>1. e = d
      BY <1>1, <1>3 DEF EnsureScreen
    <2> QED
      BY <1>3, <2>1 DEF Same
  <1>4. CASE m \in d.lit
    <2>1. PICK h : h = {n \in ToSet(d.mons) \ {m} : screen_get_by_monitor(d, n) # NoScreen}
      OBVIOUS
    <2>2. PICK i \in Nat : i = 1 + Cardinality(h)
      <3>1. h \subseteq Monitor /\ IsFiniteSet(Monitor)
        BY <1>2, <2>1, MonitorsAre
      <3>2. Cardinality(h) \in Nat
        BY <3>1, FS_Subset, FS_CardinalityType
      <3> QED
        BY <3>2
    <2>3. PICK a : a = screen_new(d, m, Area(m), i)
      OBVIOUS
    <2>4. PICK b : b = [a EXCEPT !.fresh = a.fresh \cup {m}]
      OBVIOUS
    <2>5. PICK g : g = IF screen_get_by_monitor(d, m) # NoScreen THEN d ELSE b
      OBVIOUS
    <2>6. e = [g EXCEPT !.sel = IF g.sel = NoOutput THEN m ELSE g.sel]
      BY <1>1, <1>4, <2>1, <2>2, <2>3, <2>4, <2>5 DEF EnsureScreen
    <2>7. /\ Joining(g) /\ Same(d, g) /\ Has(g, m) /\ \A k : Has(d, k) => Has(g, k)
      <3>1. CASE screen_get_by_monitor(d, m) # NoScreen
        <4>1. g = d
          BY <2>5, <3>1
        <4>2. Has(d, m)
          BY <1>2, <3>1, ByMonitor DEF Has
        <4> QED
          BY <4>1, <4>2 DEF Same
      <3>2. CASE screen_get_by_monitor(d, m) = NoScreen
        <4>1. PICK box \in SUBSET Point : box = Area(m)
          BY <1>2, MonitorsAre
        <4>2. PICK n : n = NextScreen(d)
          OBVIOUS
        <4>3. Grew(d, m, n, a)
          <5>1. a = screen_new(d, m, box, i) /\ Proper(d) /\ m \in Output
            BY <1>2, <2>3, <4>1
          <5> QED
            BY <4>2, <5>1, ScreenNew
        <4>4. ~Has(d, m)
          BY <1>2, <3>2, ByMonitor
        <4>5. a \in Desk /\ a.laid = d.laid /\ a.sel = d.sel
          BY <4>3 DEF Grew, Proper
        <4>6. /\ b \in Desk /\ b.mons = a.mons /\ b.lit = a.lit /\ b.asleep = a.asleep
              /\ b.laid = a.laid /\ b.fresh = a.fresh \cup {m} /\ b.sel = a.sel /\ b.win = a.win
              /\ b.screens = a.screens /\ b.host = a.host /\ b.area = a.area
              /\ b.index = a.index /\ b.told = a.told
          BY <1>2, <2>4, <4>5 DEF Desk
        <4>7. b.laid \subseteq ToSet(d.mons)
          BY <1>2, <4>5, <4>6
        <4>8. /\ Sound(b) /\ b.mons = d.mons /\ b.lit = d.lit /\ b.asleep = d.asleep
              /\ b.fresh = d.fresh \cup {m} /\ b.win = d.win
              /\ \A k : Has(b, k) <=> Has(d, k) \/ k = m
          BY <1>2, <4>3, <4>4, <4>6, <4>7, OutputGains
        <4>9. Live(b)
          BY <1>2, <4>5, <4>6, <4>8 DEF Live
        <4>10. Joining(b) /\ Same(d, b)
          BY <1>2, <1>4, <4>5, <4>6, <4>8, <4>9 DEF Joining, Same
        <4>18. g = b
          BY <2>5, <3>2
        <4> QED
          BY <4>8, <4>10, <4>18
      <3> QED
        BY <3>1, <3>2
    <2>8. Sound(g) /\ Live(g) /\ Proper(g) /\ g \in Desk /\ g.mons = d.mons
      BY <2>7 DEF Joining, Sound, Proper, Same
    <2>9. PICK p : p = IF g.sel = NoOutput THEN m ELSE g.sel
      OBVIOUS
    <2>10. p \in ToSet(d.mons) \cup {NoOutput} /\ p \in Output
      BY <1>2, <2>8, <2>9, MonsAre DEF Live
    <2>11. e \in Desk /\ Kept(g, e) /\ e.sel = p /\ e.win = g.win
      BY <2>6, <2>8, <2>9, <2>10 DEF Desk, Kept
    <2>12. \A c \in Window : e.win[c].scr \in Screen(g) \cup {NoScreen}
      BY <2>8, <2>11 DEF Proper
    <2>13. Sound(e) /\ \A k : Has(e, k) <=> Has(g, k)
      BY <2>8, <2>11, <2>12, KeptIs DEF Sound
    <2>14. Live(e)
      BY <2>8, <2>10, <2>11 DEF Live, Kept
    <2>15. Joining(e)
      BY <2>7, <2>11, <2>13, <2>14 DEF Joining, Kept
    <2>16. Same(d, e)
      BY <2>7, <2>11 DEF Same, Kept
    <2> QED
      BY <2>7, <2>13, <2>15, <2>16
  <1> QED
    BY <1>3, <1>4

\* During the third loop every output laid out has its screen.
Joined(d) == Ready(d) /\ d.lit \subseteq d.laid

LEMMA Announces ==
    ASSUME NEW d, Joined(d), NEW m \in ToSet(d.mons), NEW e, e = Round("added", d, m)
    PROVE  Joined(e) /\ Same(d, e) /\ m \notin e.fresh /\ e.fresh \subseteq d.fresh
  <1>1. e = Announce(d, m)
    BY DEF Round
  <1>2. /\ Sound(d) /\ Live(d) /\ Proper(d) /\ Hosted(d) /\ Announced(d) /\ m \in Monitor
        /\ m \in Output /\ m # NoOutput /\ d.fresh \subseteq d.lit /\ d.lit \subseteq d.laid
        /\ d.fresh \subseteq ToSet(d.mons) /\ Paired(d)
    BY MonsAre, MonitorsAre DEF Joined, Ready, Sound, Output, Proper
  <1>3. CASE m \notin d.fresh
    <2>1. e = d
      BY <1>1, <1>3 DEF Announce
    <2> QED
      BY <1>3, <2>1 DEF Same
  <1>4. CASE m \in d.fresh
    <2>1. PICK s : s = screen_get_by_monitor(d, m)
      OBVIOUS
    <2>2. PICK a : a = [d EXCEPT !.fresh = d.fresh \ {m}]
      OBVIOUS
    <2>3. s # NoScreen /\ s \in Listed(d) /\ d.host[s] = m
      BY <1>2, <1>4, <2>1, ByMonitor DEF Paired
    <2>4. e = screen_added(a, s)
      BY <1>1, <1>2, <1>4, <2>1, <2>2, <2>3 DEF Announce
    <2>5. d \in Desk
      BY <1>2 DEF Proper
    <2>6. /\ a \in Desk /\ a.mons = d.mons /\ a.lit = d.lit /\ a.asleep = d.asleep
          /\ a.laid = d.laid /\ a.fresh = d.fresh \ {m} /\ a.sel = d.sel /\ a.win = d.win
          /\ a.screens = d.screens /\ a.host = d.host /\ a.area = d.area
          /\ a.index = d.index /\ a.told = d.told
      BY <2>2, <2>5 DEF Desk
    <2>7. Listed(a) = Listed(d) /\ Screen(a) = Screen(d) /\ Listed(d) \subseteq Screen(d)
      BY <1>2, <2>6 DEF Listed, Screen, Proper
    <2>8. Proper(a)
      BY <1>2, <2>6, <2>7 DEF Proper
    <2>9. s \in Screen(a)
      BY <2>3, <2>7
    <2>10. /\ Proper(e) /\ e.mons = a.mons /\ e.lit = a.lit /\ e.asleep = a.asleep
           /\ e.laid = a.laid /\ e.fresh = a.fresh /\ e.sel = a.sel /\ e.win = a.win
           /\ e.screens = a.screens /\ e.host = a.host /\ Listed(e) = Listed(a)
           /\ e.told[s] = a.told[s] + 1
           /\ \A t \in Screen(a) : t # s => e.told[t] = a.told[t]
      BY <2>4, <2>8, <2>9, ScreenAdded
    <2>11. Hosted(e)
      BY <1>2, <2>6, <2>7, <2>10 DEF Hosted
    <2>12. ASSUME NEW t \in Listed(e), e.host[t] # NoOutput
           PROVE  e.told[t] = IF e.host[t] \in e.fresh THEN 0 ELSE 1
      <3>1. t \in Listed(d) /\ e.host[t] = d.host[t] /\ t \in Screen(a)
        BY <2>6, <2>7, <2>10
      <3>2. CASE t = s
        <4>1. d.told[s] = 0
          BY <1>2, <1>4, <2>3 DEF Announced
        <4>2. e.told[s] = 1
          BY <2>6, <2>10, <4>1
        <4> QED
          BY <2>3, <2>6, <2>10, <3>1, <3>2, <4>2
      <3>3. CASE t # s
        <4>1. d.host[t] # m
          BY <1>2, <2>3, <3>1, <3>3 DEF Hosted
        <4>2. e.told[t] = d.told[t]
          BY <2>6, <2>10, <3>1, <3>3
        <4>3. d.told[t] = IF d.host[t] \in d.fresh THEN 0 ELSE 1
          BY <1>2, <2>12, <3>1 DEF Announced
        <4> QED
          BY <2>6, <2>10, <3>1, <4>1, <4>2, <4>3
      <3> QED
        BY <3>2, <3>3
    <2>13. Announced(e)
      BY <2>12 DEF Announced
    <2>14. Live(e)
      BY <1>2, <2>6, <2>10 DEF Live
    <2>15. Paired(e)
      BY <1>2, <2>6, <2>7, <2>10 DEF Paired, Has
    <2>16. Joined(e)
      BY <1>2, <2>6, <2>10, <2>11, <2>13, <2>14, <2>15 DEF Joined, Ready, Sound
    <2> QED
      BY <2>6, <2>10, <2>16 DEF Same
  <1> QED
    BY <1>3, <1>4

\* At rest.
Settled(d) == Sound(d) /\ Live(d) /\ d.fresh = {} /\ Paired(d)

LEMMA Adopts ==
    ASSUME NEW d, Settled(d), NEW e, e = AdoptOrphans(d)
    PROVE  Settled(e) /\ Same(d, e)
  <1>1. Sound(d) /\ Live(d) /\ Proper(d) /\ Paired(d) /\ d.fresh = {} /\ d.sel \in Output
    BY MonsAre DEF Settled, Sound, Live
  <1>2. CASE d.sel \notin d.lit
    BY <1>2 DEF AdoptOrphans, Same
  <1>3. CASE d.sel \in d.lit
    <2>1. e = HandOn(d, Window, NoOutput, d.sel)
      BY <1>3 DEF AdoptOrphans
    <2>2. /\ Proper(e) /\ Kept(d, e) /\ e.sel = d.sel
          /\ \A c \in Window : e.win[c].mon = IF d.win[c].mon = NoOutput THEN d.sel ELSE d.win[c].mon
      BY <1>1, <2>1, HandedOn
    <2>3. e \in Desk /\ \A c \in Window : e.win[c].scr \in Screen(d) \cup {NoScreen}
      BY <2>2 DEF Proper, Kept, Screen
    <2>4. Sound(e) /\ \A k : Has(e, k) <=> Has(d, k)
      BY <1>1, <2>2, <2>3, KeptIs DEF Sound
    <2>5. Live(e)
      BY <1>1, <2>2 DEF Live, Kept
    <2>6. Paired(e) /\ Same(d, e) /\ e.fresh = {}
      BY <1>1, <2>2, <2>4 DEF Paired, Same, Kept
    <2> QED
      BY <2>4, <2>5, <2>6 DEF Settled
  <1> QED
    BY <1>2, <1>3

LEMMA UpdateSettles ==
    ASSUME NEW d, Ready(d), NEW e, e = updatemons(d)
    PROVE  Settled(e) /\ Same(d, e)
  <1>1. PICK l \in Seq(Monitor) : l = d.mons
    BY MonsAre DEF Ready, Sound
  <1>2. ToSet(l) \subseteq Monitor
    BY <1>1, MonsAre DEF Ready, Sound
  <1>3. \A y : Ready(y) \/ Joining(y) \/ Joined(y) => y \in Desk
    BY DEF Ready, Joining, Joined, Sound, Proper
  <1>4. PICK x : x = ForEach("disable", d)
    OBVIOUS
  <1>5. Ready(x) /\ Same(d, x)
    <2>1. PICK D : D = {y \in Desk : Ready(y) /\ Same(d, y)}
      OBVIOUS
    <2>2. PICK P : P = D \X Monitor
      OBVIOUS
    <2>3. ASSUME NEW y \in D, NEW m \in ToSet(l) PROVE Round("disable", y, m) \in D
      <3>1. Ready(y) /\ Same(d, y) /\ y.mons = l
        BY <1>1, <2>1, <2>3 DEF Same
      <3>2. PICK z : z = Round("disable", y, m)
        OBVIOUS
      <3>3. Ready(z) /\ Same(y, z)
        BY <3>1, <3>2, Disables
      <3>4. Same(d, z)
        BY <3>1, <3>3 DEF Same
      <3> QED
        BY <1>3, <2>1, <3>2, <3>3, <3>4
    <2>4. \A y \in D, m \in ToSet(l) : <<Round("disable", y, m), m>> \in P
      BY <1>2, <2>2, <2>3
    <2>5. \A y \in D, m \in ToSet(l), k \in ToSet(l) :
             <<y, k>> \in P => <<Round("disable", y, m), k>> \in P
      BY <1>2, <2>2, <2>3
    <2>6. d \in D
      BY <1>3, <2>1 DEF Same
    <2>7. "disable" \in Loop
      BY DEF Loop
    <2>8. x \in D
      BY <1>1, <1>4, <2>3, <2>4, <2>5, <2>6, <2>7, ForEachDoes
    <2> QED
      BY <2>1, <2>8
  <1>6. PICK j : j = [x EXCEPT !.laid = x.laid \cup (ToSet(d.mons) \cap d.lit)]
    OBVIOUS
  <1>7. Joining(j) /\ Same(d, j)
    <2>1. /\ Sound(x) /\ Proper(x) /\ x \in Desk /\ Live(x) /\ Paired(x) /\ x.fresh \subseteq x.lit
          /\ x.mons = d.mons /\ x.lit = d.lit /\ x.asleep = d.asleep /\ d.lit \subseteq ToSet(d.mons)
          /\ x.laid \subseteq ToSet(d.mons)
      BY <1>5 DEF Ready, Sound, Proper, Same
    <2>2. j = [x EXCEPT !.laid = x.laid \cup x.lit] /\ x.laid \cup x.lit \in SUBSET Monitor
      BY <1>1, <1>2, <1>6, <2>1
    <2>3. /\ j \in Desk /\ j.mons = x.mons /\ j.lit = x.lit /\ j.asleep = x.asleep
          /\ j.laid = x.laid \cup x.lit /\ j.fresh = x.fresh /\ j.sel = x.sel
          /\ j.screens = x.screens /\ j.host = x.host /\ j.area = x.area /\ j.index = x.index
          /\ j.told = x.told /\ j.win = x.win
      BY <2>1, <2>2 DEF Desk
    <2>4. /\ IsInjective(j.mons) /\ j.lit \subseteq ToSet(j.mons) /\ j.asleep \subseteq ToSet(j.mons)
          /\ j.laid \subseteq ToSet(j.mons) /\ j.fresh \subseteq ToSet(j.mons)
      BY <2>1, <2>3 DEF Proper
    <2>5. \A m \in Monitor : Has(x, m) => m \in ToSet(j.mons) /\ (m \in j.fresh <=> m \in x.fresh)
      BY <2>1, <2>3 DEF Paired
    <2>6. Sound(j) /\ \A m : Has(j, m) <=> Has(x, m)
      BY <2>1, <2>3, <2>4, <2>5, OutputsChange
    <2>7. Live(j) /\ Same(d, j)
      BY <2>1, <2>3 DEF Live, Same
    <2> QED
      BY <2>1, <2>3, <2>6, <2>7 DEF Joining, Paired
  <1>8. PICK g : g = ForEach("geometry", j)
    OBVIOUS
  <1>9. Joined(g) /\ Same(d, g)
    <2>1. PICK D : D = {y \in Desk : Joining(y) /\ Same(d, y)}
      OBVIOUS
    <2>2. PICK P : P = {p \in D \X Monitor : p[2] \in d.lit => Has(p[1], p[2])}
      OBVIOUS
    <2>3. ASSUME NEW y \in D, NEW m \in ToSet(l)
          PROVE  /\ Round("geometry", y, m) \in D
                 /\ <<Round("geometry", y, m), m>> \in P
                 /\ \A k \in ToSet(l) : <<y, k>> \in P => <<Round("geometry", y, m), k>> \in P
      <3>1. Joining(y) /\ Same(d, y) /\ y.mons = l
        BY <1>1, <2>1, <2>3 DEF Same
      <3>2. PICK z : z = Round("geometry", y, m)
        OBVIOUS
      <3>3. Joining(z) /\ Same(y, z) /\ (m \in z.lit => Has(z, m)) /\ \A k : Has(y, k) => Has(z, k)
        BY <3>1, <3>2, Ensures
      <3>4. Same(d, z) /\ z.lit = d.lit
        BY <3>1, <3>3 DEF Same
      <3>5. z \in D
        BY <1>3, <2>1, <3>3, <3>4
      <3>6. <<z, m>> \in P
        BY <1>2, <2>2, <3>3, <3>4, <3>5
      <3>7. ASSUME NEW k \in ToSet(l), <<y, k>> \in P PROVE <<z, k>> \in P
        <4>1. k \in d.lit => Has(y, k)
          BY <2>2, <3>7
        <4> QED
          BY <1>2, <2>2, <3>3, <3>5, <4>1
      <3> QED
        BY <3>2, <3>5, <3>6, <3>7
    <2>4. j \in D /\ l = j.mons
      BY <1>1, <1>3, <1>7, <2>1 DEF Same
    <2>5. "geometry" \in Loop
      BY DEF Loop
    <2>6. g \in D /\ \A m \in ToSet(l) : <<g, m>> \in P
      BY <1>8, <2>3, <2>4, <2>5, ForEachDoes
    <2>7. Joining(g) /\ Same(d, g) /\ \A m \in ToSet(l) : m \in d.lit => Has(g, m)
      BY <2>1, <2>2, <2>6
    <2>8. Paired(g)
      <3>1. d.lit = g.lit /\ g.laid \subseteq ToSet(l)
        BY <1>1, <2>7 DEF Joining, Sound, Proper, Same
      <3> QED
        BY <2>7, <3>1 DEF Paired, Joining
    <2> QED
      BY <2>7, <2>8 DEF Joined, Ready, Joining
  <1>10. PICK h : h = ForEach("added", g)
    OBVIOUS
  <1>11. Settled(h) /\ Same(d, h)
    <2>1. PICK D : D = {y \in Desk : Joined(y) /\ Same(d, y)}
      OBVIOUS
    <2>2. PICK P : P = {p \in D \X Monitor : p[2] \notin p[1].fresh}
      OBVIOUS
    <2>3. ASSUME NEW y \in D, NEW m \in ToSet(l)
          PROVE  /\ Round("added", y, m) \in D
                 /\ <<Round("added", y, m), m>> \in P
                 /\ \A k \in ToSet(l) : <<y, k>> \in P => <<Round("added", y, m), k>> \in P
      <3>1. Joined(y) /\ Same(d, y) /\ y.mons = l
        BY <1>1, <2>1, <2>3 DEF Same
      <3>2. PICK z : z = Round("added", y, m)
        OBVIOUS
      <3>3. Joined(z) /\ Same(y, z) /\ m \notin z.fresh /\ z.fresh \subseteq y.fresh
        BY <3>1, <3>2, Announces
      <3>4. Same(d, z)
        BY <3>1, <3>3 DEF Same
      <3>5. z \in D
        BY <1>3, <2>1, <3>3, <3>4
      <3>6. <<z, m>> \in P
        BY <1>2, <2>2, <3>3, <3>5
      <3>7. ASSUME NEW k \in ToSet(l), <<y, k>> \in P PROVE <<z, k>> \in P
        <4>1. k \notin y.fresh
          BY <2>2, <3>7
        <4> QED
          BY <1>2, <2>2, <3>3, <3>5, <4>1
      <3> QED
        BY <3>2, <3>5, <3>6, <3>7
    <2>4. g \in D /\ l = g.mons
      BY <1>1, <1>3, <1>9, <2>1 DEF Same
    <2>5. "added" \in Loop
      BY DEF Loop
    <2>6. h \in D /\ \A m \in ToSet(l) : <<h, m>> \in P
      BY <1>10, <2>3, <2>4, <2>5, ForEachDoes
    <2>7. Joined(h) /\ Same(d, h) /\ \A m \in ToSet(l) : m \notin h.fresh
      BY <2>1, <2>2, <2>6
    <2>8. h.fresh \subseteq ToSet(l)
      BY <1>1, <2>7 DEF Joined, Ready, Sound, Proper, Same
    <2>9. h.fresh = {}
      BY <2>7, <2>8
    <2> QED
      BY <2>7, <2>9 DEF Settled, Joined, Ready
  <1>12. e = AdoptOrphans(h)
    BY <1>4, <1>6, <1>8, <1>10 DEF updatemons
  <1>13. Settled(e) /\ Same(h, e)
    BY <1>11, <1>12, Adopts
  <1> QED
    BY <1>11, <1>13 DEF Same

-----------------------------------------------------------------------------
(* Screens: what the steps change.                                         *)

LEMMA PushedIs ==
    ASSUME NEW S, NEW s \in Seq(S), NEW x \in S, NEW r, r = <<x>> \o s
    PROVE  /\ r \in Seq(S)
           /\ IsInjective(s) /\ x \notin ToSet(s) => IsInjective(r)
  <1>1. PICK n \in Nat : n = Len(s) /\ DOMAIN s = 1..n
    BY LenProperties
  <1>2. PICK h : h = <<x>>
    OBVIOUS
  <1>3. h \in Seq(S) /\ Len(h) = 1 /\ h[1] = x
    BY <1>2
  <1>4. r = h \o s
    BY <1>2
  <1>5. r \in Seq(S) /\ Len(r) = n + 1
    BY <1>1, <1>3, <1>4, ConcatProperties
  <1>6. \A k \in 1..(n + 1) : r[k] = IF k = 1 THEN x ELSE s[k - 1]
    BY <1>1, <1>3, <1>4, ConcatProperties
  <1>7. DOMAIN r = 1..(n + 1)
    BY <1>5, LenProperties
  <1>8. ASSUME IsInjective(s), x \notin ToSet(s) PROVE IsInjective(r)
    <2>1. \A g, h2 \in 1..n : s[g] = s[h2] => g = h2
      BY <1>1, <1>8 DEF IsInjective
    <2>2. \A k \in 1..n : s[k] # x
      BY <1>1, <1>8 DEF ToSet
    <2>3. \A k \in 1..(n + 1) : k # 1 => k - 1 \in 1..n
      BY <1>1
    <2>4. \A k, l \in 1..(n + 1) : r[k] = r[l] => k = l
      BY <1>1, <1>6, <2>1, <2>2, <2>3
    <2> QED
      BY <1>7, <2>4 DEF IsInjective
  <1> QED
    BY <1>5, <1>8

LEMMA PushedHas ==
    ASSUME NEW S, NEW s \in Seq(S), NEW x \in S, NEW r, r = <<x>> \o s
    PROVE  \A y : y \in ToSet(r) <=> y \in ToSet(s) \/ y = x
  <1>1. PICK n \in Nat : n = Len(s) /\ DOMAIN s = 1..n
    BY LenProperties
  <1>2. PICK h : h = <<x>>
    OBVIOUS
  <1>3. h \in Seq(S) /\ Len(h) = 1 /\ h[1] = x
    BY <1>2
  <1>4. r = h \o s
    BY <1>2
  <1>5. r \in Seq(S) /\ Len(r) = n + 1
    BY <1>1, <1>3, <1>4, ConcatProperties
  <1>6. \A k \in 1..(n + 1) : r[k] = IF k = 1 THEN x ELSE s[k - 1]
    BY <1>1, <1>3, <1>4, ConcatProperties
  <1>7. DOMAIN r = 1..(n + 1)
    BY <1>5, LenProperties
  <1>8. ASSUME NEW y \in ToSet(r) PROVE y \in ToSet(s) \/ y = x
    <2>1. PICK k \in 1..(n + 1) : r[k] = y
      BY <1>7, <1>8 DEF ToSet
    <2>2. k # 1 => k - 1 \in 1..n
      BY <1>1
    <2> QED
      BY <1>1, <1>6, <2>1, <2>2 DEF ToSet
  <1>9. ASSUME NEW y \in ToSet(s) PROVE y \in ToSet(r)
    <2>1. PICK k \in 1..n : s[k] = y
      BY <1>1, <1>9 DEF ToSet
    <2>2. k + 1 \in 1..(n + 1) /\ k + 1 # 1 /\ (k + 1) - 1 = k
      BY <1>1
    <2>3. r[k + 1] = y
      BY <1>6, <2>1, <2>2
    <2> QED
      BY <1>7, <2>2, <2>3 DEF ToSet
  <1>10. x \in ToSet(r)
    <2>1. 1 \in 1..(n + 1) /\ r[1] = x
      BY <1>1, <1>6
    <2> QED
      BY <1>7, <2>1 DEF ToSet
  <1> QED
    BY <1>8, <1>9, <1>10

Swapped(s, i, j) == [s EXCEPT ![i] = s[j], ![j] = s[i]]

LEMMA SwappedIs ==
    ASSUME NEW S, NEW s \in Seq(S), NEW i \in 1..Len(s), NEW j \in 1..Len(s), i # j,
           NEW r, r = Swapped(s, i, j)
    PROVE  /\ r \in Seq(S)
           /\ IsInjective(s) => IsInjective(r)
           /\ \A y : y \in ToSet(r) <=> y \in ToSet(s)
  <1>1. PICK n \in Nat : n = Len(s) /\ DOMAIN s = 1..n /\ i \in 1..n /\ j \in 1..n
    BY LenProperties
  <1>2. \A k \in 1..n : s[k] \in S
    BY <1>1, ElementOfSeq
  <1>3. \A k \in 1..n : r[k] = IF k = j THEN s[i] ELSE IF k = i THEN s[j] ELSE s[k]
    BY <1>1 DEF Swapped
  <1>4. DOMAIN r = 1..n /\ r = [k \in 1..n |-> r[k]]
    BY <1>1 DEF Swapped
  <1>5. r \in [1..n -> S]
    BY <1>1, <1>2, <1>3, <1>4
  <1>6. r \in Seq(S)
    BY <1>1, <1>5, IsASeq
  <1>7. ASSUME IsInjective(s) PROVE IsInjective(r)
    <2>1. \A g, h \in 1..n : s[g] = s[h] => g = h
      BY <1>1, <1>7 DEF IsInjective
    <2>2. \A g, h \in 1..n : r[g] = r[h] => g = h
      BY <1>1, <1>3, <2>1
    <2> QED
      BY <1>4, <2>2 DEF IsInjective
  <1>8. ASSUME NEW y \in ToSet(r) PROVE y \in ToSet(s)
    <2>1. PICK k \in 1..n : r[k] = y
      BY <1>4, <1>8 DEF ToSet
    <2>2. \E l \in 1..n : s[l] = y
      BY <1>1, <1>3, <2>1
    <2> QED
      BY <1>1, <2>2 DEF ToSet
  <1>9. ASSUME NEW y \in ToSet(s) PROVE y \in ToSet(r)
    <2>1. PICK k \in 1..n : s[k] = y
      BY <1>1, <1>9 DEF ToSet
    <2>2. \E l \in 1..n : r[l] = y
      BY <1>1, <1>3, <2>1
    <2> QED
      BY <1>4, <2>2 DEF ToSet
  <1> QED
    BY <1>6, <1>7, <1>8, <1>9

LEMMA SettledIsReady ==
    ASSUME NEW d, Settled(d) PROVE Ready(d)
  BY DEF Settled, Ready

\* Only what is on and what sleeps is new.
LEMMA Relit ==
    ASSUME NEW d, Settled(d), NEW e, e \in Desk, e.mons = d.mons, e.laid = d.laid,
           e.fresh = d.fresh, e.screens = d.screens, e.host = d.host, e.area = d.area,
           e.index = d.index, e.told = d.told, e.win = d.win, e.sel = d.sel,
           e.lit \subseteq ToSet(d.mons), e.asleep \subseteq ToSet(d.mons)
    PROVE  Settled(e)
  <1>1. Sound(d) /\ Proper(d) /\ Live(d) /\ Paired(d) /\ d.fresh = {}
    BY DEF Settled, Sound
  <1>2. IsInjective(e.mons) /\ e.laid \subseteq ToSet(e.mons) /\ e.fresh \subseteq ToSet(e.mons)
    BY <1>1 DEF Proper
  <1>3. \A m \in Monitor : Has(d, m) => m \in ToSet(e.mons)
    BY <1>1 DEF Paired, Proper
  <1>4. Sound(e) /\ \A m : Has(e, m) <=> Has(d, m)
    BY <1>1, <1>2, <1>3, OutputsChange
  <1>5. Live(e) /\ Paired(e)
    BY <1>1, <1>4 DEF Live, Paired
  <1> QED
    BY <1>1, <1>4, <1>5 DEF Settled

\* Only the windows and the selected monitor are new.
LEMMA Moved ==
    ASSUME NEW d, Settled(d), NEW e, e \in Desk, Kept(d, e),
           \A c \in Window : e.win[c].scr \in Screen(d) \cup {NoScreen},
           e.sel \in ToSet(d.mons) \cup {NoOutput},
           \A c \in Window : e.win[c].mon \in ToSet(d.mons) \cup {NoOutput}
    PROVE  Settled(e)
  <1>1. Sound(d) /\ Proper(d) /\ Hosted(d) /\ Announced(d) /\ Paired(d) /\ d.fresh = {}
    BY DEF Settled, Sound
  <1>2. /\ Proper(e) /\ Hosted(e) /\ Announced(e)
        /\ \A m : Has(e, m) <=> Has(d, m)
    BY <1>1, KeptIs
  <1>3. Live(e)
    BY DEF Live, Kept
  <1>4. Paired(e) /\ e.fresh = {}
    BY <1>1, <1>2 DEF Paired, Kept
  <1> QED
    BY <1>2, <1>3, <1>4 DEF Settled, Sound

\* One window moves.
LEMMA WindowGoes ==
    ASSUME NEW d, Settled(d), NEW c \in Window, NEW p \in Point,
           NEW s, s \in Listed(d) \cup {NoScreen} \/ s = d.win[c].scr,
           NEW e, e = [d EXCEPT !.win[c] = screen_client_moveto(d, [d.win[c] EXCEPT !.at = p], s)]
    PROVE  Settled(e)
  <1>1. Proper(d) /\ d \in Desk /\ Live(d) /\ Listed(d) \subseteq Screen(d)
    BY DEF Settled, Sound, Proper
  <1>2. /\ d.win \in [Window -> Stand]
        /\ \A b \in Window : d.win[b].scr \in Screen(d) \cup {NoScreen}
    BY <1>1 DEF Proper, Desk
  <1>3. PICK w : w = [d.win[c] EXCEPT !.at = p]
    OBVIOUS
  <1>4. w \in Stand /\ w.scr = d.win[c].scr /\ w.mon = d.win[c].mon
    BY <1>2, <1>3 DEF Stand
  <1>5. PICK r : r = screen_client_moveto(d, w, s)
    OBVIOUS
  <1>6. r \in Stand /\ r.scr \in {w.scr, s} /\ r.mon \in {w.mon} \cup ToSet(d.mons)
    <2>1. CASE s = w.scr
      BY <1>4, <1>5, <2>1 DEF screen_client_moveto
    <2>2. CASE s # w.scr
      <3>1. s \in Listed(d) \cup {NoScreen}
        BY <1>4, <2>2
      <3> QED
        BY <1>1, <1>4, <1>5, <3>1, MovesTo
    <2> QED
      BY <2>1, <2>2
  <1>7. PICK v : v = [d.win EXCEPT ![c] = r]
    OBVIOUS
  <1>8. PICK f : f = [d EXCEPT !.win = v]
    OBVIOUS
  <1>14. e = f
    BY <1>3, <1>5, <1>7, <1>8
  <1>9. v \in [Window -> Stand] /\ \A b \in Window : v[b] = IF b = c THEN r ELSE d.win[b]
    BY <1>2, <1>6, <1>7
  <1>10. \A b \in Window : v[b].scr \in Screen(d) \cup {NoScreen}
    BY <1>1, <1>2, <1>4, <1>6, <1>9
  <1>15. Proper(f) /\ Kept(d, f) /\ f.win = v /\ f.sel = d.sel
    BY <1>1, <1>8, <1>9, <1>10, WindowsMove
  <1>11. Proper(e) /\ Kept(d, e) /\ e.win = v /\ e.sel = d.sel
    BY <1>14, <1>15
  <1>12. /\ e.sel \in ToSet(d.mons) \cup {NoOutput}
         /\ \A b \in Window : e.win[b].mon \in ToSet(d.mons) \cup {NoOutput}
    BY <1>1, <1>4, <1>6, <1>9, <1>11 DEF Live
  <1>13. e \in Desk
    BY <1>11 DEF Proper
  <1> QED
    BY <1>10, <1>11, <1>12, <1>13, Moved

-----------------------------------------------------------------------------
(* Screens: the steps.                                                     *)

LEMMA SettledHas ==
    ASSUME NEW d, Settled(d)
    PROVE  /\ Sound(d) /\ Live(d) /\ Proper(d) /\ Hosted(d) /\ Announced(d) /\ Paired(d)
           /\ d.fresh = {} /\ d \in Desk /\ ToSet(d.mons) \subseteq Monitor
           /\ d.mons \in Seq(Monitor) /\ IsInjective(d.mons) /\ IsInjective(d.screens)
           /\ d.lit \subseteq ToSet(d.mons) /\ d.asleep \subseteq ToSet(d.mons)
           /\ d.laid \subseteq ToSet(d.mons) /\ d.win \in [Window -> Stand]
           /\ \A c \in Window : d.win[c].scr \in Screen(d) \cup {NoScreen}
  <1>1. Sound(d) /\ Live(d) /\ Proper(d) /\ Hosted(d) /\ Announced(d) /\ Paired(d) /\ d.fresh = {}
    BY DEF Settled, Sound
  <1> QED
    BY <1>1, MonsAre DEF Proper, Desk

LEMMA Creates ==
    ASSUME Settled(desk), NEW m \in Monitor, createmon(m)
    PROVE  Settled(desk')
  <1>1. PICK d : d = [desk EXCEPT !.mons = <<m>> \o desk.mons, !.lit = desk.lit \cup {m}]
    OBVIOUS
  <1>2. PICK box, i : box = Area(m) /\ i = Len(desk.mons) + 1
    OBVIOUS
  <1>3. PICK e : e = screen_new(d, m, box, i)
    OBVIOUS
  <1>4. PICK f : f = [e EXCEPT !.fresh = e.fresh \cup {m}, !.laid = e.laid \cup {m}]
    OBVIOUS
  <1>5. desk' = updatemons(f) /\ m \notin ToSet(desk.mons)
    BY <1>1, <1>2, <1>3, <1>4 DEF createmon, Becomes
  <1>6. /\ Sound(desk) /\ Live(desk) /\ desk \in Desk /\ desk.fresh = {} /\ Paired(desk)
        /\ desk.mons \in Seq(Monitor) /\ IsInjective(desk.mons) /\ ToSet(desk.mons) \subseteq Monitor
        /\ desk.lit \subseteq ToSet(desk.mons) /\ desk.asleep \subseteq ToSet(desk.mons)
        /\ desk.laid \subseteq ToSet(desk.mons)
    BY SettledHas
  <1>7. PICK l : l = <<m>> \o desk.mons
    OBVIOUS
  <1>8. l \in Seq(Monitor) /\ IsInjective(l)
    BY <1>5, <1>6, <1>7, PushedIs
  <1>9. \A y : y \in ToSet(l) <=> y \in ToSet(desk.mons) \/ y = m
    <2>1. PICK a : a = desk.mons
      OBVIOUS
    <2>2. a \in Seq(Monitor) /\ l = <<m>> \o a
      BY <1>6, <1>7, <2>1
    <2>3. \A y : y \in ToSet(l) <=> y \in ToSet(a) \/ y = m
      BY <2>2, PushedHas
    <2> QED
      BY <2>1, <2>3
  <1>10. d = [desk EXCEPT !.mons = l, !.lit = desk.lit \cup {m}]
    BY <1>1, <1>7
  <1>11. /\ d \in Desk /\ d.mons = l /\ d.lit = desk.lit \cup {m} /\ d.asleep = desk.asleep
         /\ d.laid = desk.laid /\ d.fresh = desk.fresh /\ d.screens = desk.screens
         /\ d.host = desk.host /\ d.area = desk.area /\ d.index = desk.index
         /\ d.told = desk.told /\ d.win = desk.win /\ d.sel = desk.sel
    BY <1>6, <1>8, <1>10 DEF Desk
  <1>12. /\ IsInjective(d.mons) /\ d.lit \subseteq ToSet(d.mons) /\ d.asleep \subseteq ToSet(d.mons)
         /\ d.laid \subseteq ToSet(d.mons) /\ d.fresh \subseteq ToSet(d.mons)
         /\ \A k \in Monitor : Has(desk, k) => k \in ToSet(d.mons)
    BY <1>6, <1>8, <1>9, <1>11 DEF Paired
  <1>13. Sound(d) /\ \A k : Has(d, k) <=> Has(desk, k)
    BY <1>6, <1>11, <1>12, OutputsChange
  <1>14. ~Has(d, m) /\ m \in ToSet(d.mons)
    BY <1>5, <1>6, <1>9, <1>11, <1>13 DEF Paired
  <1>15. PICK n : n = NextScreen(d)
    OBVIOUS
  <1>16. Grew(d, m, n, e)
    <2>1. m \in Output /\ Proper(d)
      BY <1>13 DEF Output, Sound
    <2>2. box \in SUBSET Point
      BY <1>2, MonitorsAre
    <2>3. i \in Nat
      BY <1>2, <1>6, LenProperties
    <2> QED
      BY <1>3, <1>15, <2>1, <2>2, <2>3, ScreenNew
  <1>17. e \in Desk /\ e.laid = d.laid /\ e.sel = d.sel /\ e.lit = d.lit
    BY <1>16 DEF Grew, Proper
  <1>18. /\ f \in Desk /\ f.mons = e.mons /\ f.lit = e.lit /\ f.asleep = e.asleep
         /\ f.laid = e.laid \cup {m} /\ f.fresh = e.fresh \cup {m} /\ f.sel = e.sel
         /\ f.screens = e.screens /\ f.host = e.host /\ f.area = e.area
         /\ f.index = e.index /\ f.told = e.told /\ f.win = e.win
    BY <1>4, <1>17 DEF Desk
  <1>19. f.laid \subseteq ToSet(d.mons)
    BY <1>12, <1>14, <1>17, <1>18
  <1>20. /\ Sound(f) /\ f.mons = d.mons /\ f.lit = d.lit /\ f.asleep = d.asleep
         /\ f.fresh = d.fresh \cup {m} /\ f.win = d.win
         /\ \A k : Has(f, k) <=> Has(d, k) \/ k = m
    BY <1>13, <1>14, <1>16, <1>18, <1>19, OutputGains
  <1>21. Live(f)
    BY <1>6, <1>9, <1>11, <1>17, <1>18, <1>20 DEF Live
  <1>22. Paired(f)
    BY <1>6, <1>11, <1>13, <1>17, <1>18, <1>20 DEF Paired
  <1>23. f.fresh \subseteq f.lit
    BY <1>6, <1>11, <1>20
  <1> QED
    BY <1>5, <1>20, <1>21, <1>22, <1>23, UpdateSettles DEF Ready

LEMMA CleansUp ==
    ASSUME Settled(desk), NEW m \in Monitor, cleanupmon(m)
    PROVE  Settled(desk')
  <1>1. PICK d : d = screen_removed(desk, screen_get_by_monitor(desk, m))
    OBVIOUS
  <1>2. PICK f : f = [d EXCEPT !.mons = Without(d.mons, m), !.laid = d.laid \ {m},
                               !.lit = d.lit \ {m}, !.asleep = d.asleep \ {m},
                               !.fresh = d.fresh \ {m}]
    OBVIOUS
  <1>3. PICK e : e = closemon(f, m)
    OBVIOUS
  <1>4. desk' = (IF m \in desk.laid THEN updatemons(e) ELSE e) /\ m \in ToSet(desk.mons)
    BY <1>1, <1>2, <1>3 DEF cleanupmon, Becomes
  <1>5. /\ Sound(desk) /\ Live(desk) /\ desk.fresh = {} /\ Paired(desk)
        /\ desk.mons \in Seq(Monitor) /\ IsInjective(desk.mons) /\ ToSet(desk.mons) \subseteq Monitor
        /\ desk.lit \subseteq ToSet(desk.mons) /\ desk.asleep \subseteq ToSet(desk.mons)
        /\ desk.laid \subseteq ToSet(desk.mons)
    BY SettledHas
  <1>6. /\ Sound(d) /\ d.mons = desk.mons /\ d.lit = desk.lit /\ d.asleep = desk.asleep
        /\ d.laid = desk.laid /\ d.fresh = desk.fresh /\ d.sel = desk.sel
        /\ \A k \in Monitor : Has(d, k) <=> Has(desk, k) /\ k # m
        /\ \A c \in Window : d.win[c].mon \in {desk.win[c].mon} \cup ToSet(desk.mons)
    <2>1. Sound(desk)
      BY <1>5
    <2> QED
      BY <1>1, <2>1, OutputLoses
  <1>7. PICK l : l = Without(desk.mons, m)
    OBVIOUS
  <1>8. l \in Seq(Monitor) /\ IsInjective(l)
    BY <1>4, <1>5, <1>7, WithoutIs
  <1>9. \A y : y \in ToSet(l) <=> y \in ToSet(desk.mons) /\ y # m
    BY <1>4, <1>5, <1>7, WithoutHas
  <1>10. d \in Desk
    BY <1>6 DEF Sound, Proper
  <1>11. f = [d EXCEPT !.mons = l, !.laid = d.laid \ {m}, !.lit = d.lit \ {m},
                       !.asleep = d.asleep \ {m}, !.fresh = d.fresh \ {m}]
    BY <1>2, <1>6, <1>7
  <1>12. /\ f \in Desk /\ f.mons = l /\ f.lit = desk.lit \ {m} /\ f.asleep = desk.asleep \ {m}
         /\ f.laid = desk.laid \ {m} /\ f.fresh = desk.fresh \ {m} /\ f.screens = d.screens
         /\ f.host = d.host /\ f.area = d.area /\ f.index = d.index
         /\ f.told = d.told /\ f.win = d.win /\ f.sel = desk.sel
    BY <1>6, <1>8, <1>10, <1>11 DEF Desk
  <1>13. /\ IsInjective(f.mons) /\ f.lit \subseteq ToSet(f.mons) /\ f.asleep \subseteq ToSet(f.mons)
         /\ f.laid \subseteq ToSet(f.mons) /\ f.fresh \subseteq ToSet(f.mons)
    BY <1>5, <1>8, <1>9, <1>12
  <1>14. \A k \in Monitor : Has(d, k) => k \in ToSet(f.mons) /\ (k \in f.fresh <=> k \in d.fresh)
    BY <1>5, <1>6, <1>9, <1>12 DEF Paired
  <1>15. Sound(f) /\ \A k : Has(f, k) <=> Has(d, k)
    BY <1>6, <1>12, <1>13, <1>14, OutputsChange
  <1>16. /\ f.sel \in ToSet(f.mons) \cup {NoOutput, m}
         /\ \A c \in Window : f.win[c].mon \in ToSet(f.mons) \cup {NoOutput, m}
    BY <1>5, <1>6, <1>9, <1>12 DEF Live
  <1>17. Sound(e) /\ Live(e) /\ Kept(f, e) /\ \A k : Has(e, k) <=> Has(f, k)
    BY <1>3, <1>15, <1>16, MonitorCloses
  <1>18. e.fresh = {} /\ e.laid = desk.laid \ {m}
    BY <1>5, <1>12, <1>17 DEF Kept
  <1>19. Paired(e)
    BY <1>5, <1>6, <1>15, <1>17, <1>18 DEF Paired
  <1>20. Settled(e) /\ Ready(e)
    BY <1>17, <1>18, <1>19 DEF Settled, Ready
  <1> QED
    BY <1>4, <1>20, UpdateSettles

LEMMA Relights ==
    ASSUME Settled(desk), NEW L, L \subseteq ToSet(desk.mons),
           NEW A, A \subseteq ToSet(desk.mons),
           NEW e, e = [desk EXCEPT !.lit = L, !.asleep = A]
    PROVE  Settled(e) /\ Settled(updatemons(e))
  <1>1. desk \in Desk /\ ToSet(desk.mons) \subseteq Monitor
    BY SettledHas
  <1>2. /\ e \in Desk /\ e.mons = desk.mons /\ e.lit = L /\ e.asleep = A /\ e.laid = desk.laid
        /\ e.fresh = desk.fresh /\ e.screens = desk.screens /\ e.host = desk.host
        /\ e.area = desk.area /\ e.index = desk.index /\ e.told = desk.told
        /\ e.win = desk.win /\ e.sel = desk.sel
    BY <1>1 DEF Desk
  <1>3. Settled(e)
    BY <1>2, Relit
  <1> QED
    BY <1>3, SettledIsReady, UpdateSettles

LEMMA Lights ==
    ASSUME Settled(desk),
           \/ \E want \in SUBSET Monitor, test \in BOOLEAN : outputmgrapplyortest(want, test)
           \/ \E m \in Monitor, on \in BOOLEAN : powermgrsetmode(m, on) \/ output_set_enabled(m, on)
           \/ dpms_off \/ dpms_wake_all_monitors
    PROVE  Settled(desk')
  <1>1. /\ desk \in Desk /\ desk.lit \subseteq ToSet(desk.mons) /\ desk.asleep \subseteq ToSet(desk.mons)
    BY SettledHas
  <1>2. desk.lit = desk.lit /\ desk = [desk EXCEPT !.lit = desk.lit, !.asleep = desk.asleep]
    BY <1>1 DEF Desk
  <1>3. ASSUME NEW want \in SUBSET Monitor, NEW test \in BOOLEAN, outputmgrapplyortest(want, test)
        PROVE  Settled(desk')
    <2>1. PICK L : L = IF test THEN desk.lit ELSE want
      OBVIOUS
    <2>2. PICK e : e = [desk EXCEPT !.lit = L, !.asleep = {}]
      OBVIOUS
    <2>3. L \subseteq ToSet(desk.mons)
      BY <1>1, <1>3, <2>1 DEF outputmgrapplyortest
    <2>4. [desk EXCEPT !.asleep = {}, !.lit = L] = e
      BY <1>1, <2>2 DEF Desk
    <2>5. desk' = updatemons(e)
      BY <1>3, <2>1, <2>4 DEF outputmgrapplyortest, Becomes
    <2> QED
      BY <2>2, <2>3, <2>5, Relights
  <1>4. ASSUME NEW m \in Monitor, NEW on \in BOOLEAN, powermgrsetmode(m, on)
        PROVE  Settled(desk')
    <2>1. PICK L, A : /\ L = IF on THEN desk.lit \cup {m} ELSE desk.lit \ {m}
                      /\ A = IF on THEN desk.asleep \ {m} ELSE desk.asleep \cup {m}
      OBVIOUS
    <2>2. PICK e : e = [desk EXCEPT !.lit = L, !.asleep = A]
      OBVIOUS
    <2>3. L \subseteq ToSet(desk.mons) /\ A \subseteq ToSet(desk.mons)
      BY <1>1, <1>4, <2>1 DEF powermgrsetmode
    <2>4. desk' = updatemons(e)
      BY <1>4, <2>1, <2>2 DEF powermgrsetmode, Becomes
    <2> QED
      BY <2>2, <2>3, <2>4, Relights
  <1>5. ASSUME NEW m \in Monitor, NEW on \in BOOLEAN, output_set_enabled(m, on)
        PROVE  Settled(desk')
    <2>1. PICK L : L = IF on THEN desk.lit \cup {m} ELSE desk.lit \ {m}
      OBVIOUS
    <2>2. PICK e : e = [desk EXCEPT !.lit = L, !.asleep = desk.asleep]
      OBVIOUS
    <2>3. L \subseteq ToSet(desk.mons)
      BY <1>1, <1>5, <2>1 DEF output_set_enabled
    <2>4. [desk EXCEPT !.lit = L] = e
      BY <1>1, <2>2 DEF Desk
    <2>5. desk' = updatemons(e)
      BY <1>5, <2>1, <2>4 DEF output_set_enabled, Becomes
    <2> QED
      BY <1>1, <2>2, <2>3, <2>5, Relights
  <1>6. ASSUME dpms_off PROVE Settled(desk')
    <2>1. PICK L : L = desk.lit \ (ToSet(desk.mons) \ desk.asleep)
      OBVIOUS
    <2>2. PICK e : e = [desk EXCEPT !.lit = L, !.asleep = ToSet(desk.mons)]
      OBVIOUS
    <2>3. L \subseteq ToSet(desk.mons)
      BY <1>1, <2>1
    <2>4. [desk EXCEPT !.asleep = ToSet(desk.mons), !.lit = L] = e
      BY <1>1, <2>2 DEF Desk
    <2>5. desk' = e
      BY <1>6, <2>1, <2>4 DEF dpms_off, Becomes
    <2> QED
      BY <2>2, <2>3, <2>5, Relights
  <1>7. ASSUME dpms_wake_all_monitors PROVE Settled(desk')
    <2>1. PICK L : L = desk.lit \cup desk.asleep
      OBVIOUS
    <2>2. PICK e : e = [desk EXCEPT !.lit = L, !.asleep = {}]
      OBVIOUS
    <2>3. L \subseteq ToSet(desk.mons)
      BY <1>1, <2>1
    <2>4. [desk EXCEPT !.asleep = {}, !.lit = L] = e
      BY <1>1, <2>2 DEF Desk
    <2>5. desk' = e
      BY <1>7, <2>1, <2>4 DEF dpms_wake_all_monitors, Becomes
    <2> QED
      BY <2>2, <2>3, <2>5, Relights
  <1> QED
    BY <1>3, <1>4, <1>5, <1>6, <1>7

LEMMA Selecting ==
    ASSUME Settled(desk), NEW m \in Monitor, SelectMonitor(m)
    PROVE  Settled(desk')
  <1>1. PICK e : e = [desk EXCEPT !.sel = m]
    OBVIOUS
  <1>2. desk' = e /\ m \in desk.laid
    BY <1>1 DEF SelectMonitor, Becomes
  <1>3. /\ desk \in Desk /\ Live(desk) /\ desk.laid \subseteq ToSet(desk.mons)
        /\ \A c \in Window : desk.win[c].scr \in Screen(desk) \cup {NoScreen}
    BY SettledHas
  <1>4. e \in Desk /\ Kept(desk, e) /\ e.sel = m /\ e.win = desk.win
    BY <1>1, <1>3 DEF Desk, Output, Kept
  <1>5. Settled(e)
    BY <1>2, <1>3, <1>4, Moved DEF Live
  <1> QED
    BY <1>2, <1>5

LEMMA FakeAdded ==
    ASSUME Settled(desk), NEW p \in Point, screen_fake_add(p)
    PROVE  Settled(desk')
  <1>1. PICK box, i, n : box = {p} /\ i = Len(desk.screens) + 1 /\ n = NextScreen(desk)
    OBVIOUS
  <1>2. PICK a : a = screen_new(desk, NoOutput, box, i)
    OBVIOUS
  <1>3. PICK d : d = screen_added(a, n)
    OBVIOUS
  <1>4. PICK v : v = [c \in Window |-> Rehomed(d, d.win[c])]
    OBVIOUS
  <1>5. PICK e : e = [d EXCEPT !.win = v]
    OBVIOUS
  <1>6. desk' = e
    BY <1>1, <1>2, <1>3, <1>4, <1>5 DEF screen_fake_add, Becomes, NextScreen
  <1>7. /\ Sound(desk) /\ Live(desk) /\ Proper(desk) /\ Hosted(desk) /\ Announced(desk)
        /\ Paired(desk) /\ desk.fresh = {} /\ desk \in Desk
    BY SettledHas
  <1>8. Grew(desk, NoOutput, n, a)
    <2>1. NoOutput \in Output /\ box \in SUBSET Point
      BY <1>1 DEF Output
    <2>2. i \in Nat
      BY <1>1, <1>7, LenProperties DEF Desk
    <2>3. n = NextScreen(desk)
      BY <1>1
    <2> QED
      BY <1>2, <1>7, <2>1, <2>2, <2>3, ScreenNew
  <1>9. /\ Proper(a) /\ a.mons = desk.mons /\ a.lit = desk.lit /\ a.asleep = desk.asleep
        /\ a.laid = desk.laid /\ a.fresh = desk.fresh /\ a.sel = desk.sel /\ a.win = desk.win
        /\ n \notin Listed(desk) /\ Listed(a) = Listed(desk) \cup {n} /\ n \in Screen(a)
        /\ a.host[n] = NoOutput
        /\ \A s \in Listed(desk) : a.host[s] = desk.host[s] /\ a.told[s] = desk.told[s]
    BY <1>8 DEF Grew
  <1>10. /\ Proper(d) /\ d.mons = a.mons /\ d.lit = a.lit /\ d.asleep = a.asleep
         /\ d.laid = a.laid /\ d.fresh = a.fresh /\ d.sel = a.sel /\ d.win = a.win
         /\ d.screens = a.screens /\ d.host = a.host /\ Listed(d) = Listed(a)
         /\ \A t \in Screen(a) : t # n => d.told[t] = a.told[t]
    BY <1>3, <1>9, ScreenAdded
  <1>11. Hosted(d)
    BY <1>7, <1>9, <1>10 DEF Hosted
  <1>12. Announced(d)
    <2>1. ASSUME NEW s \in Listed(d), d.host[s] # NoOutput
          PROVE  d.told[s] = IF d.host[s] \in d.fresh THEN 0 ELSE 1
      <3>1. s # n /\ s \in Listed(desk) /\ d.host[s] = desk.host[s]
        BY <1>9, <1>10, <2>1
      <3>2. s \in Screen(a)
        BY <1>9, <3>1 DEF Proper
      <3>3. d.told[s] = desk.told[s]
        BY <1>9, <1>10, <3>1, <3>2
      <3> QED
        BY <1>7, <1>9, <1>10, <2>1, <3>1, <3>3 DEF Announced
    <2> QED
      BY <2>1 DEF Announced
  <1>13. \A m \in Monitor : Has(d, m) <=> Has(desk, m)
    <2>1. \A s \in Listed(desk) : s \in Listed(d) /\ d.host[s] = desk.host[s]
      BY <1>9, <1>10
    <2>2. \A s \in Listed(d) : d.host[s] # NoOutput => s \in Listed(desk)
      BY <1>9, <1>10
    <2> QED
      BY <2>1, <2>2, MonitorsAre DEF Has
  <1>14. Live(d) /\ Paired(d) /\ d.fresh = {}
    BY <1>7, <1>9, <1>10, <1>13 DEF Live, Paired
  <1>15. Settled(d)
    BY <1>10, <1>11, <1>12, <1>14 DEF Settled, Sound
  <1>16. ASSUME NEW c \in Window
         PROVE  /\ v[c] \in Stand /\ v[c].scr \in Screen(d) \cup {NoScreen}
                /\ v[c].mon \in ToSet(d.mons) \cup {NoOutput}
    <2>1. d.win[c] \in Stand /\ d.win[c].scr \in Screen(d) \cup {NoScreen} /\ Listed(d) \subseteq Screen(d)
      BY <1>10 DEF Proper, Desk
    <2>2. PICK t : t = screen_getbycoord(d, d.win[c].at)
      OBVIOUS
    <2>3. t \in Listed(d) \cup {NoScreen}
      BY <1>10, <2>2, ByCoord
    <2>4. v[c] = screen_client_moveto(d, d.win[c], t)
      BY <1>4, <2>2 DEF Rehomed
    <2>5. /\ v[c] \in Stand /\ v[c].scr \in {d.win[c].scr, t}
          /\ v[c].mon \in {d.win[c].mon} \cup ToSet(d.mons)
      BY <1>10, <2>1, <2>3, <2>4, MovesTo
    <2> QED
      BY <1>14, <2>1, <2>3, <2>5 DEF Live
  <1>17. v \in [Window -> Stand]
    BY <1>4, <1>16
  <1>18. Proper(e) /\ Kept(d, e) /\ e.win = v /\ e.sel = d.sel
    BY <1>5, <1>10, <1>16, <1>17, WindowsMove
  <1>19. e \in Desk /\ e.sel \in ToSet(d.mons) \cup {NoOutput}
    BY <1>14, <1>18 DEF Proper, Live
  <1>20. Settled(e)
    BY <1>15, <1>16, <1>18, <1>19, Moved
  <1> QED
    BY <1>6, <1>20

LEMMA FakeRemoved ==
    ASSUME Settled(desk), NEW s, screen_fake_remove(s)
    PROVE  Settled(desk')
  <1>1. PICK e : e = screen_removed(desk, s)
    OBVIOUS
  <1>2. s \in Listed(desk) /\ desk.host[s] = NoOutput /\ desk' = e
    BY <1>1 DEF screen_fake_remove, Becomes
  <1>3. /\ Live(desk) /\ Proper(desk) /\ Hosted(desk) /\ Announced(desk)
        /\ Paired(desk) /\ desk.fresh = {}
    BY SettledHas
  <1>4. /\ Proper(e) /\ e.mons = desk.mons /\ e.lit = desk.lit /\ e.asleep = desk.asleep
        /\ e.laid = desk.laid /\ e.fresh = desk.fresh /\ e.sel = desk.sel /\ e.told = desk.told
        /\ \A t : t \in Listed(e) <=> t \in Listed(desk) /\ t # s
        /\ \A t \in Screen(desk) : t # s => e.host[t] = desk.host[t]
        /\ \A c \in Window : e.win[c].mon \in {desk.win[c].mon} \cup ToSet(desk.mons)
    BY <1>1, <1>2, <1>3, ScreenRemoved
  <1>5. \A t \in Listed(e) : t \in Listed(desk) /\ e.host[t] = desk.host[t]
    BY <1>3, <1>4 DEF Proper
  <1>6. Hosted(e)
    BY <1>3, <1>4, <1>5 DEF Hosted
  <1>7. Announced(e)
    BY <1>3, <1>4, <1>5 DEF Announced
  <1>8. \A m \in Monitor : Has(e, m) <=> Has(desk, m)
    BY <1>2, <1>4, <1>5, MonitorsAre DEF Has
  <1>9. Live(e) /\ Paired(e)
    BY <1>3, <1>4, <1>8 DEF Live, Paired
  <1> QED
    BY <1>2, <1>3, <1>4, <1>6, <1>7, <1>9 DEF Settled, Sound

LEMMA Swaps ==
    ASSUME Settled(desk), NEW i \in DOMAIN desk.screens, NEW j \in DOMAIN desk.screens,
           screen_swap(i, j)
    PROVE  Settled(desk')
  <1>1. /\ Live(desk) /\ Proper(desk) /\ Hosted(desk) /\ Announced(desk)
        /\ Paired(desk) /\ desk.fresh = {} /\ desk \in Desk
    BY SettledHas
  <1>2. /\ desk.screens \in Seq(Nat) /\ desk.index \in Seq(Nat) /\ IsInjective(desk.screens)
        /\ Len(desk.index) = Len(desk.host) /\ Listed(desk) \subseteq 1..Len(desk.host)
        /\ Listed(desk) = ToSet(desk.screens)
    BY <1>1, ScreensAre DEF Proper, Desk, Screen
  <1>3. i \in 1..Len(desk.screens) /\ j \in 1..Len(desk.screens) /\ i # j /\ i \in Nat /\ j \in Nat
    BY <1>2, LenProperties DEF screen_swap
  <1>4. PICK s, t : s = desk.screens[i] /\ t = desk.screens[j]
    OBVIOUS
  <1>5. PICK r : r = [desk.screens EXCEPT ![i] = t, ![j] = s]
    OBVIOUS
  <1>6. PICK x : x = [desk.index EXCEPT ![s] = j, ![t] = i]
    OBVIOUS
  <1>7. PICK e : e = [desk EXCEPT !.screens = r, !.index = x]
    OBVIOUS
  <1>8. desk' = e
    BY <1>4, <1>5, <1>6, <1>7 DEF screen_swap, Becomes
  <1>9. r = [desk.screens EXCEPT ![i] = desk.screens[j], ![j] = desk.screens[i]]
    BY <1>4, <1>5
  <1>10. r \in Seq(Nat) /\ IsInjective(r) /\ \A y : y \in ToSet(r) <=> y \in ToSet(desk.screens)
    <2>1. PICK a : a = desk.screens
      OBVIOUS
    <2>2. /\ a \in Seq(Nat) /\ i \in 1..Len(a) /\ j \in 1..Len(a) /\ IsInjective(a)
          /\ r = Swapped(a, i, j)
      BY <1>2, <1>3, <1>9, <2>1 DEF Swapped
    <2>3. r \in Seq(Nat) /\ IsInjective(r)
      BY <1>3, <2>2, SwappedIs
    <2>4. \A y : y \in ToSet(r) <=> y \in ToSet(a)
      BY <1>3, <2>2, SwappedIs
    <2> QED
      BY <2>1, <2>3, <2>4
  <1>11. s \in Listed(desk) /\ t \in Listed(desk)
    BY <1>2, <1>4 DEF ToSet
  <1>12. x \in Seq(Nat) /\ Len(x) = Len(desk.index)
    <2>1. s \in 1..Len(desk.index) /\ t \in 1..Len(desk.index)
      BY <1>2, <1>11
    <2>2. PICK y : y = [desk.index EXCEPT ![s] = j]
      OBVIOUS
    <2>3. y \in Seq(Nat) /\ Len(y) = Len(desk.index)
      BY <1>2, <1>3, <2>1, <2>2, ExceptSeq
    <2>4. x = [y EXCEPT ![t] = i]
      BY <1>6, <2>2
    <2> QED
      BY <1>3, <2>1, <2>3, <2>4, ExceptSeq
  <1>13. /\ e \in Desk /\ e.mons = desk.mons /\ e.lit = desk.lit /\ e.asleep = desk.asleep
         /\ e.laid = desk.laid /\ e.fresh = desk.fresh /\ e.sel = desk.sel /\ e.told = desk.told
         /\ e.win = desk.win /\ e.host = desk.host /\ e.area = desk.area /\ e.screens = r
         /\ e.index = x
    BY <1>1, <1>7, <1>10, <1>12 DEF Desk
  <1>14. Screen(e) = Screen(desk) /\ \A y : y \in Listed(e) <=> y \in Listed(desk)
    BY <1>2, <1>10, <1>13 DEF Screen, Listed
  <1>15. Proper(e)
    BY <1>1, <1>10, <1>12, <1>13, <1>14 DEF Proper
  <1>16. Hosted(e)
    BY <1>1, <1>13, <1>14 DEF Hosted
  <1>17. Announced(e)
    BY <1>1, <1>13, <1>14 DEF Announced
  <1>18. Paired(e) /\ Live(e)
    BY <1>1, <1>13, <1>14 DEF Paired, Has, Live
  <1> QED
    BY <1>1, <1>8, <1>13, <1>15, <1>16, <1>17, <1>18 DEF Settled, Sound

LEMMA Resizes ==
    ASSUME Settled(desk), NEW c \in Window, NEW p \in Point, client_resize_do(c, p)
    PROVE  Settled(desk')
  <1>1. PICK w : w = [desk.win[c] EXCEPT !.at = p]
    OBVIOUS
  <1>2. PICK s : s = IF w.scr # NoScreen /\ p \in desk.area[w.scr] THEN w.scr
                     ELSE screen_getbycoord(desk, p)
    OBVIOUS
  <1>3. PICK e : e = [desk EXCEPT !.win[c] = screen_client_moveto(desk, w, s)]
    OBVIOUS
  <1>4. desk' = e
    BY <1>1, <1>2, <1>3 DEF client_resize_do, Becomes
  <1>5. desk.win \in [Window -> Stand] /\ Proper(desk)
    BY SettledHas
  <1>6. w.scr = desk.win[c].scr
    BY <1>1, <1>5 DEF Stand
  <1>7. s \in Listed(desk) \cup {NoScreen} \/ s = desk.win[c].scr
    BY <1>2, <1>5, <1>6, ByCoord
  <1>8. e = [desk EXCEPT !.win[c] = screen_client_moveto(desk, [desk.win[c] EXCEPT !.at = p], s)]
    BY <1>1, <1>3
  <1>9. Settled(e)
    BY <1>7, <1>8, WindowGoes
  <1> QED
    BY <1>4, <1>9

LEMMA SetsScreen ==
    ASSUME Settled(desk), NEW c \in Window, NEW s, client_set_screen(c, s)
    PROVE  Settled(desk')
  <1>1. s \in Listed(desk)
    BY DEF client_set_screen
  <1>2. PICK p \in desk.area[s] :
           desk' = [desk EXCEPT !.win[c] =
                       screen_client_moveto(desk, [desk.win[c] EXCEPT !.at = p], s)]
    BY DEF client_set_screen, Becomes
  <1>3. p \in Point
    <2>1. Proper(desk) /\ s \in Screen(desk)
      BY <1>1, SettledHas DEF Proper
    <2>2. desk.area[s] \subseteq Point
      BY <2>1, ScreensAre
    <2> QED
      BY <2>2
  <1>4. PICK e : e = [desk EXCEPT !.win[c] =
                         screen_client_moveto(desk, [desk.win[c] EXCEPT !.at = p], s)]
    OBVIOUS
  <1>5. Settled(e)
    BY <1>1, <1>3, <1>4, WindowGoes
  <1> QED
    BY <1>2, <1>4, <1>5

LEMMA Replays ==
    ASSUME Settled(desk), ReplayScreens
    PROVE  Settled(desk')
  <1>1. PICK v : v = [c \in Window |-> [desk.win[c] EXCEPT !.scr =
                         IF desk.screens = <<>> THEN NoScreen
                         ELSE IF desk.win[c].scr \in Listed(desk) THEN desk.win[c].scr
                         ELSE desk.screens[1]]]
    OBVIOUS
  <1>2. PICK e : e = [desk EXCEPT !.win = v]
    OBVIOUS
  <1>3. desk' = e
    BY <1>1, <1>2 DEF ReplayScreens, Becomes
  <1>4. Live(desk) /\ Proper(desk) /\ desk.win \in [Window -> Stand] /\ Listed(desk) \subseteq Screen(desk)
    BY SettledHas DEF Proper
  <1>5. desk.screens \in Seq(Nat) /\ Listed(desk) = ToSet(desk.screens) /\ Screen(desk) \subseteq Nat
    BY <1>4, ScreensAre DEF Proper, Desk
  <1>6. desk.screens # <<>> => desk.screens[1] \in Listed(desk)
    <2>1. ASSUME desk.screens # <<>> PROVE 1 \in DOMAIN desk.screens
      BY <1>5, <2>1, EmptySeq, LenProperties
    <2> QED
      BY <1>5, <2>1 DEF ToSet
  <1>7. ASSUME NEW c \in Window
        PROVE  /\ v[c] \in Stand /\ v[c].scr \in Screen(desk) \cup {NoScreen}
               /\ v[c].mon = desk.win[c].mon
    <2>1. PICK q : q = IF desk.screens = <<>> THEN NoScreen
                       ELSE IF desk.win[c].scr \in Listed(desk) THEN desk.win[c].scr
                       ELSE desk.screens[1]
      OBVIOUS
    <2>2. q \in Screen(desk) \cup {NoScreen} /\ q \in Nat
      BY <1>4, <1>5, <1>6, <2>1 DEF NoScreen
    <2>3. v[c] = [desk.win[c] EXCEPT !.scr = q]
      BY <1>1, <2>1
    <2>4. desk.win[c] \in Stand
      BY <1>4
    <2>5. v[c] \in Stand /\ v[c].scr = q /\ v[c].mon = desk.win[c].mon
      BY <2>2, <2>3, <2>4 DEF Stand
    <2> QED
      BY <2>2, <2>5
  <1>8. v \in [Window -> Stand]
    BY <1>1, <1>7
  <1>9. Proper(e) /\ Kept(desk, e) /\ e.win = v /\ e.sel = desk.sel
    BY <1>2, <1>4, <1>7, <1>8, WindowsMove
  <1>10. /\ e \in Desk /\ e.sel \in ToSet(desk.mons) \cup {NoOutput}
         /\ \A c \in Window : e.win[c].mon \in ToSet(desk.mons) \cup {NoOutput}
    BY <1>4, <1>7, <1>9 DEF Proper, Live
  <1>11. Settled(e)
    BY <1>7, <1>9, <1>10, Moved
  <1> QED
    BY <1>3, <1>11

LEMMA InitScreens == ScreenInit => Settled(desk) /\ Len(desk.host) <= MaxScreens
  <1> SUFFICES ASSUME ScreenInit PROVE Settled(desk) /\ Len(desk.host) <= MaxScreens
    OBVIOUS
  <1>1. PICK v : v = [c \in Window |-> [mon |-> NoOutput, scr |-> NoScreen, at |-> 1]]
    OBVIOUS
  <1>2. v \in [Window -> Stand]
    BY <1>1, MonitorsAre DEF Stand, Output, NoScreen
  <1>3. /\ desk.mons = <<>> /\ desk.sel = NoOutput /\ desk.lit = {} /\ desk.asleep = {}
        /\ desk.laid = {} /\ desk.fresh = {} /\ desk.screens = <<>> /\ desk.host = <<>>
        /\ desk.area = <<>> /\ desk.index = <<>> /\ desk.told = <<>> /\ desk.win = v
    BY <1>1 DEF ScreenInit
  <1>4. desk \in Desk
    BY <1>1, <1>2 DEF ScreenInit, Desk, Output
  <1>5. ToSet(<<>>) = {} /\ Len(<<>>) = 0 /\ IsInjective(<<>>)
    <2>1. DOMAIN <<>> = {}
      OBVIOUS
    <2>2. ToSet(<<>>) = {}
      BY <2>1 DEF ToSet
    <2> QED
      BY <2>1, <2>2 DEF IsInjective
  <1>6. Listed(desk) = {}
    BY <1>3, <1>5 DEF Listed
  <1>7. \A c \in Window : desk.win[c].scr = NoScreen /\ desk.win[c].mon = NoOutput
    BY <1>1, <1>3
  <1>8. Proper(desk)
    BY <1>3, <1>4, <1>5, <1>6, <1>7 DEF Proper
  <1>9. Hosted(desk) /\ Announced(desk) /\ Paired(desk) /\ Live(desk)
    BY <1>3, <1>6, <1>7 DEF Hosted, Announced, Paired, Has, Live
  <1> QED
    BY <1>3, <1>5, <1>8, <1>9, MaxScreensAssumption DEF Settled, Sound

LEMMA NextScreens ==
    ASSUME Settled(desk), Len(desk.host) <= MaxScreens, [ScreenNext]_desk
    PROVE  Settled(desk') /\ Len(desk'.host) <= MaxScreens
  <1>1. CASE UNCHANGED desk
    BY <1>1
  <1>2. CASE ScreenNext
    <2>1. ASSUME NEW m \in Monitor, createmon(m)
          PROVE  Settled(desk') /\ Len(desk'.host) <= MaxScreens
      BY <2>1, Creates DEF createmon, Becomes
    <2>2. ASSUME NEW m \in Monitor, cleanupmon(m)
          PROVE  Settled(desk') /\ Len(desk'.host) <= MaxScreens
      BY <2>2, CleansUp DEF cleanupmon, Becomes
    <2>3. ASSUME NEW m \in Monitor, SelectMonitor(m)
          PROVE  Settled(desk') /\ Len(desk'.host) <= MaxScreens
      BY <2>3, Selecting DEF SelectMonitor, Becomes
    <2>4. ASSUME NEW want \in SUBSET Monitor, NEW test \in BOOLEAN, outputmgrapplyortest(want, test)
          PROVE  Settled(desk') /\ Len(desk'.host) <= MaxScreens
      <3>1. Settled(desk')
        BY <2>4, Lights
      <3> QED
        BY <2>4, <3>1 DEF outputmgrapplyortest, Becomes
    <2>5. ASSUME NEW m \in Monitor, NEW on \in BOOLEAN, powermgrsetmode(m, on)
          PROVE  Settled(desk') /\ Len(desk'.host) <= MaxScreens
      <3>1. Settled(desk')
        BY <2>5, Lights
      <3> QED
        BY <2>5, <3>1 DEF powermgrsetmode, Becomes
    <2>6. ASSUME NEW m \in Monitor, NEW on \in BOOLEAN, output_set_enabled(m, on)
          PROVE  Settled(desk') /\ Len(desk'.host) <= MaxScreens
      <3>1. Settled(desk')
        BY <2>6, Lights
      <3> QED
        BY <2>6, <3>1 DEF output_set_enabled, Becomes
    <2>7. CASE dpms_off
      <3>1. Settled(desk')
        BY <2>7, Lights
      <3> QED
        BY <2>7, <3>1 DEF dpms_off, Becomes
    <2>8. CASE dpms_wake_all_monitors
      <3>1. Settled(desk')
        BY <2>8, Lights
      <3> QED
        BY <2>8, <3>1 DEF dpms_wake_all_monitors, Becomes
    <2>9. CASE ReplayScreens
      BY <2>9, Replays DEF ReplayScreens, Becomes
    <2>10. ASSUME NEW p \in Point, screen_fake_add(p)
           PROVE  Settled(desk') /\ Len(desk'.host) <= MaxScreens
      BY <2>10, FakeAdded DEF screen_fake_add, Becomes
    <2>11. ASSUME NEW s \in DOMAIN desk.host, screen_fake_remove(s)
           PROVE  Settled(desk') /\ Len(desk'.host) <= MaxScreens
      BY <2>11, FakeRemoved DEF screen_fake_remove, Becomes
    <2>12. ASSUME NEW i \in DOMAIN desk.screens, NEW j \in DOMAIN desk.screens, screen_swap(i, j)
           PROVE  Settled(desk') /\ Len(desk'.host) <= MaxScreens
      BY <2>12, Swaps DEF screen_swap, Becomes
    <2>13. ASSUME NEW c \in Window, NEW p \in Point, client_resize_do(c, p)
           PROVE  Settled(desk') /\ Len(desk'.host) <= MaxScreens
      BY <2>13, Resizes DEF client_resize_do, Becomes
    <2>14. ASSUME NEW c \in Window, NEW s \in DOMAIN desk.host, client_set_screen(c, s)
           PROVE  Settled(desk') /\ Len(desk'.host) <= MaxScreens
      BY <2>14, SetsScreen DEF client_set_screen, Becomes
    <2> QED
      BY <1>2, <2>1, <2>2, <2>3, <2>4, <2>5, <2>6, <2>7, <2>8, <2>9, <2>10, <2>11, <2>12,
         <2>13, <2>14 DEF ScreenNext
  <1> QED
    BY <1>1, <1>2

-----------------------------------------------------------------------------
(* Both: the instances' specification, and what is proved of it.           *)

DisplayInv == FramesInv /\ Settled(desk) /\ Len(desk.host) <= MaxScreens

LEMMA DisplayIsInductive == Spec => []DisplayInv
  <1>1. Init => DisplayInv
    BY InitFrames, InitScreens DEF Init, DisplayInv
  <1>2. DisplayInv /\ [Next]_displayVars => DisplayInv'
    <2> SUFFICES ASSUME DisplayInv, [Next]_displayVars PROVE DisplayInv'
      OBVIOUS
    <2>1. [ScreenNext]_desk /\ [FramesNext]_frameVars
      BY DEF Next, displayVars
    <2>2. FramesInv'
      BY <2>1, NextFrames DEF DisplayInv
    <2>3. Settled(desk') /\ Len(desk'.host) <= MaxScreens
      BY <2>1, NextScreens DEF DisplayInv
    <2> QED
      BY <2>2, <2>3 DEF DisplayInv
  <1> QED
    BY <1>1, <1>2, PTL DEF Spec

LEMMA DeskIsTyped ==
    ASSUME Settled(desk), Len(desk.host) <= MaxScreens PROVE DeskTypeOK
  <1>1. /\ desk \in Desk /\ Proper(desk) /\ desk.mons \in Seq(Monitor) /\ IsInjective(desk.mons)
        /\ IsInjective(desk.screens) /\ desk.win \in [Window -> Stand]
        /\ \A c \in Window : desk.win[c].scr \in Screen(desk) \cup {NoScreen}
    BY SettledHas
  <1>2. /\ desk.sel \in Output /\ desk.host \in Seq(Output) /\ desk.screens \in Seq(Nat)
        /\ desk.lit \subseteq Monitor /\ desk.asleep \subseteq Monitor
        /\ desk.laid \subseteq Monitor /\ desk.fresh \subseteq Monitor
    BY <1>1 DEF Desk
  <1>3. /\ Len(desk.area) = Len(desk.host) /\ Len(desk.index) = Len(desk.host)
        /\ Len(desk.told) = Len(desk.host)
    BY <1>1 DEF Proper
  <1>4. \A f \in {"lit", "asleep", "laid", "fresh"} : desk[f] \subseteq Monitor
    BY <1>2
  <1>5. \A f \in {"area", "index", "told"} : Len(desk[f]) = Len(desk.host)
    BY <1>3
  <1>6. DOMAIN desk.host = Screen(desk) /\ Listed(desk) \subseteq Screen(desk)
        /\ Listed(desk) = ToSet(desk.screens)
    BY <1>1, ScreensAre DEF Proper
  <1>7. desk.screens \in Seq(Screen(desk))
    <2>1. PICK n \in Nat : n = Len(desk.screens) /\ DOMAIN desk.screens = 1..n
      BY <1>2, LenProperties
    <2>2. \A k \in 1..n : desk.screens[k] \in Screen(desk)
      BY <1>6, <2>1 DEF ToSet
    <2>3. desk.screens \in [1..n -> Screen(desk)]
      BY <1>2, <2>1, <2>2, LenProperties
    <2> QED
      BY <2>1, <2>3, IsASeq, SeqDef
  <1>8. ASSUME NEW c \in Window
        PROVE  desk.win[c] \in [mon : Monitor \cup {NoOutput},
                                scr : Screen(desk) \cup {NoScreen}, at : Point]
    <2>1. desk.win[c] \in Stand /\ desk.win[c].scr \in Screen(desk) \cup {NoScreen}
      BY <1>1
    <2> QED
      BY <2>1 DEF Stand, Output
  <1>9. desk.win \in [Window -> [mon : Monitor \cup {NoOutput},
                                 scr : Screen(desk) \cup {NoScreen}, at : Point]]
    BY <1>1, <1>8
  <1> QED
    BY <1>1, <1>2, <1>4, <1>5, <1>6, <1>7, <1>9 DEF DeskTypeOK, Output

LEMMA OneEach == ASSUME Settled(desk) PROVE OneScreenEach
  <1>1. /\ Hosted(desk) /\ Announced(desk) /\ Paired(desk) /\ desk.fresh = {}
        /\ ToSet(desk.mons) \subseteq Monitor
    BY SettledHas
  <1>2. ASSUME NEW m \in ToSet(desk.mons), NEW mine, mine = {s \in Listed(desk) : desk.host[s] = m}
        PROVE  IF m \in desk.laid
               THEN Cardinality(mine) = 1 /\ \A s \in mine : desk.told[s] = 1
               ELSE mine = {}
    <2>1. m \in Monitor /\ m # NoOutput
      BY <1>1, MonitorsAre
    <2>2. CASE m \in desk.laid
      <3>1. PICK s \in Listed(desk) : desk.host[s] = m
        BY <1>1, <2>1, <2>2 DEF Paired, Has
      <3>2. mine = {s}
        BY <1>1, <1>2, <2>1, <3>1 DEF Hosted
      <3>3. Cardinality(mine) = 1
        BY <3>2, FS_Singleton
      <3>4. desk.told[s] = 1
        BY <1>1, <2>1, <3>1 DEF Announced
      <3> QED
        BY <2>2, <3>2, <3>3, <3>4
    <2>3. CASE m \notin desk.laid
      <3>1. ~Has(desk, m)
        BY <1>1, <2>1, <2>3 DEF Paired
      <3> QED
        BY <1>2, <2>3, <3>1 DEF Has
    <2> QED
      BY <2>2, <2>3
  <1> QED
    BY <1>2 DEF OneScreenEach

\* The output, its windows, the monitors and the screens keep their types: a
\* window waits for a configure that is on its way, every screen that was made
\* has a geometry, an index and a count, the list names no screen twice, and
\* every window points to a screen that was made (declare.c, window.c,
\* monitor.c, screen.c).
THEOREM TypeCorrect == Spec => []DisplayTypes
  <1>1. DisplayInv => DisplayTypes
    BY DeskIsTyped, FramesTyped DEF DisplayInv, DisplayTypes
  <1> QED
    BY <1>1, DisplayIsInductive, PTL

\* Whatever order outputs are plugged, disabled, put to sleep and reconfigured
\* in, with whatever fake screens and reloads between: each output laid out has
\* one screen, announced once, any other output has none, and neither selmon
\* nor a window points to an output that is gone (monitor.c: updatemons,
\* cleanupmon, closemon; screen.c: screen_removed).
THEOREM ScreensAreSound == Spec => []ScreensSound
  <1>1. DisplayInv => ScreensSound
    <2> SUFFICES ASSUME DisplayInv PROVE ScreensSound
      OBVIOUS
    <2>1. Settled(desk)
      BY DEF DisplayInv
    <2>2. OneScreenEach
      BY <2>1, OneEach
    <2>3. MonitorsAreLive
      BY <2>1 DEF Settled, Live, MonitorsAreLive
    <2> QED
      BY <2>2, <2>3 DEF ScreensSound
  <1> QED
    BY <1>1, DisplayIsInductive, PTL

\* While a lit output is dirty its deadline runs; at rest every tiled window
\* draws its slot or has acknowledged it, and Lua reads the box that is drawn.
THEOREM FramesAreSound == Spec => []FramesSound
  <1>1. DisplayInv => FramesSound
    BY FramesInOrder DEF DisplayInv
  <1> QED
    BY <1>1, DisplayIsInductive, PTL

-----------------------------------------------------------------------------
(* Declare passes.  No two owners share a tree and no two hosts a storage, *)
(* so that each is counted once (HeldBy); the owner of what may fade is held *)
(* for its exit (Exits).                                                   *)

OfTrees(p) == IF \E a \in Owner : owners[a].tree = p THEN 1 ELSE 0
OfHosts(p) == IF \E h \in band.hosts : h[2] = p THEN 1 ELSE 0
OfRetired(p) == IF p \in band.retired THEN 1 ELSE 0

HeldBy ==
    /\ holds \in [Payload -> Int]
    /\ \A p \in Payload : holds[p] = OfTrees(p) + OfHosts(p) + OfRetired(p)
    /\ \A a, b \in Owner : owners[a].tree = owners[b].tree /\ owners[a].tree # NoTree => a = b
    /\ \A g, h \in band.hosts : g[2] = h[2] => g = h

Exits ==
    /\ \A a \in band.exits : owners[a].alive
    /\ \A c \in band.commands : c.at \in Fading => c.at \in band.exits

PassShape ==
    /\ owners \in [Owner -> [alive : BOOLEAN, visible : BOOLEAN, tree : Payload \cup {NoTree}]]
    /\ \A a \in Owner : owners[a].visible => owners[a].alive
    /\ band = [hosts |-> band.hosts, retired |-> band.retired, exits |-> band.exits,
               commands |-> band.commands, valid |-> band.valid]
    /\ band.hosts \subseteq Owner \X Payload /\ band.retired \subseteq Payload /\ band.exits \subseteq Owner
    /\ \A h \in handles : h.at \in Owner

PassInv == PassShape /\ HeldBy /\ Exits /\ CommandsPointToMemory /\ HandlesNameTheirOwn

\* With no two alike, counting them tells whether there is one.
LEMMA CountedOnce ==
    ASSUME NEW S, \A x, y \in S : x = y
    PROVE  Cardinality(S) = IF S = {} THEN 0 ELSE 1
  <1>1. CASE S = {}
    BY <1>1, FS_EmptySet
  <1>2. ASSUME NEW x \in S
        PROVE  Cardinality(S) = 1
    <2>1. S = {x}
      OBVIOUS
    <2> QED
      BY <2>1, FS_Singleton
  <1> QED
    BY <1>1, <1>2

LEMMA CountsAre ==
    ASSUME PassInv, NEW p \in Payload
    PROVE  /\ Cardinality({a \in Owner : owners[a].tree = p}) = OfTrees(p)
           /\ Cardinality({h \in band.hosts : h[2] = p}) = OfHosts(p)
  <1>1. \A x, y \in {a \in Owner : owners[a].tree = p} : x = y
    BY PayloadAssumption DEF PassInv, HeldBy
  <1>2. \A x, y \in {h \in band.hosts : h[2] = p} : x = y
    BY DEF PassInv, HeldBy
  <1>3. {a \in Owner : owners[a].tree = p} = {} <=> ~\E a \in Owner : owners[a].tree = p
    OBVIOUS
  <1>4. {h \in band.hosts : h[2] = p} = {} <=> ~\E h \in band.hosts : h[2] = p
    OBVIOUS
  <1> QED
    BY <1>1, <1>2, <1>3, <1>4, CountedOnce DEF OfTrees, OfHosts

LEMMA InitPasses == PassInit => PassInv
  <1> SUFFICES ASSUME PassInit PROVE PassInv
    OBVIOUS
  <1>1. PassShape
    BY DEF PassInit, PassShape, Nobody, Empty
  <1>2. HeldBy
    BY PayloadAssumption DEF PassInit, HeldBy, Nobody, Empty, OfTrees, OfHosts, OfRetired
  <1>3. Exits /\ CommandsPointToMemory /\ HandlesNameTheirOwn
    BY DEF PassInit, Exits, CommandsPointToMemory, HandlesNameTheirOwn, Empty
  <1> QED
    BY <1>1, <1>2, <1>3 DEF PassInv

\* An owner gets another tree, which nobody holds, or gives up its own.
LEMMA TreeStep ==
    ASSUME PassInv, NEW a \in Owner, NEW q \in Payload \cup {NoTree}, NEW o, o.tree = q,
           o \in [alive : BOOLEAN, visible : BOOLEAN, tree : Payload \cup {NoTree}],
           owners' = [owners EXCEPT ![a] = o], q # NoTree => holds[q] = 0, band' = band,
           holds' = [p \in Payload |-> IF p = q THEN 1
                                       ELSE IF p = owners[a].tree THEN holds[p] - 1 ELSE holds[p]]
    PROVE  HeldBy'
  <1>1. holds' \in [Payload -> Int]
    BY DEF PassInv, HeldBy
  <1>2. \A b \in Owner : owners'[b].tree = IF b = a THEN q ELSE owners[b].tree
    BY DEF PassInv, PassShape
  <1>3. ASSUME NEW p \in Payload, p = q
        PROVE  OfTrees(p) = 0 /\ OfHosts(p) = 0 /\ OfRetired(p) = 0
    BY <1>3, PayloadAssumption DEF PassInv, HeldBy, OfTrees, OfHosts, OfRetired
  <1>4. \A b, c \in Owner : owners'[b].tree = owners'[c].tree /\ owners'[b].tree # NoTree => b = c
    <2>1. q # NoTree => \A b \in Owner : owners[b].tree # q
      BY <1>3 DEF OfTrees
    <2> QED
      BY <1>2, <2>1 DEF PassInv, HeldBy
  <1>5. ASSUME NEW p \in Payload
        PROVE  holds'[p] = OfTrees(p)' + OfHosts(p)' + OfRetired(p)'
    <2>0. OfHosts(p)' = OfHosts(p) /\ OfRetired(p)' = OfRetired(p) /\ p # NoTree
          /\ holds[p] = OfTrees(p) + OfHosts(p) + OfRetired(p)
      BY PayloadAssumption DEF OfHosts, OfRetired, PassInv, HeldBy
    <2>1. CASE p = q
      <3>1. OfTrees(p)' = 1
        BY <1>2, <2>1 DEF OfTrees
      <3> QED
        BY <1>3, <2>0, <2>1, <3>1
    <2>2. CASE p # q /\ p = owners[a].tree
      <3>1. OfTrees(p) = 1 /\ OfTrees(p)' = 0
        BY <1>2, <2>0, <2>2 DEF OfTrees, PassInv, HeldBy
      <3> QED
        BY <2>0, <2>2, <3>1 DEF OfHosts, OfRetired
    <2>3. CASE p # q /\ p # owners[a].tree
      <3>1. OfTrees(p)' = OfTrees(p)
        BY <1>2, <2>3 DEF OfTrees
      <3> QED
        BY <2>0, <2>3, <3>1
    <2> QED
      BY <2>1, <2>2, <2>3
  <1> QED
    BY <1>1, <1>4, <1>5 DEF PassInv, HeldBy

LEMMA SetNodesPasses ==
    ASSUME PassInv, NEW a \in Owner, widget_nodes_set(a)
    PROVE  PassInv'
  <1>1. PICK q \in Free(holds) : /\ holds' = [Release(holds, OwnTree(a)) EXCEPT ![q] = 1]
                                 /\ owners' = [owners EXCEPT ![a].tree = q]
    BY DEF widget_nodes_set
  <1>2. q \in Payload /\ holds[q] = 0 /\ q # NoTree
    BY PayloadAssumption DEF Free
  <1>3. owners[a].tree # q
    BY <1>2 DEF PassInv, HeldBy, OfTrees, OfHosts, OfRetired
  <1>4. PICK o : o = [owners[a] EXCEPT !.tree = q]
    OBVIOUS
  <1>5. /\ o \in [alive : BOOLEAN, visible : BOOLEAN, tree : Payload \cup {NoTree}]
        /\ o.tree = q /\ o.alive = owners[a].alive /\ o.visible = owners[a].visible
        /\ owners' = [owners EXCEPT ![a] = o]
    BY <1>1, <1>2, <1>4 DEF PassInv, PassShape
  <1>6. holds' = [p \in Payload |-> IF p = q THEN 1
                                    ELSE IF p = owners[a].tree THEN holds[p] - 1 ELSE holds[p]]
    BY <1>1, <1>2, PayloadAssumption DEF Release, OwnTree
  <1>7. band' = band /\ handles' = handles
    BY DEF widget_nodes_set
  <1>8. HeldBy'
    BY <1>2, <1>5, <1>6, <1>7, TreeStep
  <1>9. PassShape'
    BY <1>5, <1>7 DEF PassInv, PassShape
  <1>10. Exits' /\ CommandsPointToMemory' /\ HandlesNameTheirOwn'
    BY <1>5, <1>7 DEF PassInv, PassShape, Exits, CommandsPointToMemory, HandlesNameTheirOwn
  <1> QED
    BY <1>8, <1>9, <1>10 DEF PassInv

LEMMA ClearNodesPasses ==
    ASSUME PassInv, NEW a \in Owner, widget_nodes_clear(a)
    PROVE  PassInv'
  <1>4. PICK o : o = [owners[a] EXCEPT !.tree = NoTree]
    OBVIOUS
  <1>5. /\ o \in [alive : BOOLEAN, visible : BOOLEAN, tree : Payload \cup {NoTree}]
        /\ o.tree = NoTree /\ o.alive = owners[a].alive /\ o.visible = owners[a].visible
        /\ owners' = [owners EXCEPT ![a] = o]
    BY <1>4 DEF widget_nodes_clear, PassInv, PassShape
  <1>6. holds' = [p \in Payload |-> IF p = NoTree THEN 1
                                    ELSE IF p = owners[a].tree THEN holds[p] - 1 ELSE holds[p]]
    BY PayloadAssumption DEF Release, OwnTree, widget_nodes_clear
  <1>7. band' = band /\ handles' = handles
    BY DEF widget_nodes_clear
  <1>8. HeldBy'
    BY <1>5, <1>6, <1>7, TreeStep
  <1>9. PassShape'
    BY <1>5, <1>7 DEF PassInv, PassShape
  <1>10. Exits' /\ CommandsPointToMemory' /\ HandlesNameTheirOwn'
    BY <1>5, <1>7 DEF PassInv, PassShape, Exits, CommandsPointToMemory, HandlesNameTheirOwn
  <1> QED
    BY <1>8, <1>9, <1>10 DEF PassInv

\* A drawin that is collected takes its handle with it.
LEMMA WipePasses ==
    ASSUME PassInv, NEW a \in Owner, drawin_wipe(a)
    PROVE  PassInv'
  <1>0. a \notin band.exits /\ band' = band
    BY DEF drawin_wipe
  <1>1. PICK o : o = Nobody
    OBVIOUS
  <1>2. /\ o \in [alive : BOOLEAN, visible : BOOLEAN, tree : Payload \cup {NoTree}]
        /\ o.tree = NoTree /\ o.alive = FALSE /\ o.visible = FALSE
        /\ owners' = [owners EXCEPT ![a] = o]
    BY <1>1 DEF Nobody, drawin_wipe
  <1>8. holds' = [p \in Payload |-> IF p = NoTree THEN 1
                                    ELSE IF p = owners[a].tree THEN holds[p] - 1 ELSE holds[p]]
    BY PayloadAssumption DEF Release, OwnTree, drawin_wipe
  <1>9. HeldBy'
    <2>1. o \in [alive : BOOLEAN, visible : BOOLEAN, tree : Payload \cup {NoTree}] /\ o.tree = NoTree
      BY <1>2
    <2>2. owners' = [owners EXCEPT ![a] = o] /\ band' = band
      BY <1>0, <1>2
    <2> QED
      BY <1>8, <2>1, <2>2, TreeStep
  <1>4. \A h \in handles' : h \in handles /\ h.at # a
    BY DEF drawin_wipe, HandleDrop
  <1>5. PassShape'
    BY <1>0, <1>2, <1>4 DEF PassInv, PassShape
  <1>6. HandlesNameTheirOwn'
    BY <1>0, <1>2, <1>4 DEF PassInv, PassShape, HandlesNameTheirOwn
  <1>7. Exits' /\ CommandsPointToMemory'
    BY <1>0, <1>2 DEF PassInv, PassShape, Exits, CommandsPointToMemory
  <1> QED
    BY <1>5, <1>6, <1>7, <1>9 DEF PassInv

LEMMA AllocatePasses ==
    ASSUME PassInv, NEW a \in Owner, AllocateOwner(a)
    PROVE  PassInv'
  <1>1. PICK o : o = [owners[a] EXCEPT !.alive = TRUE]
    OBVIOUS
  <1>2. /\ o \in [alive : BOOLEAN, visible : BOOLEAN, tree : Payload \cup {NoTree}]
        /\ o.tree = owners[a].tree /\ o.alive = TRUE /\ o.visible = owners[a].visible
        /\ owners' = [owners EXCEPT ![a] = o] /\ band' = band /\ handles' = handles /\ holds' = holds
    BY <1>1 DEF AllocateOwner, PassInv, PassShape
  <1>3. PassShape'
    BY <1>2 DEF PassInv, PassShape
  <1>4. \A b \in Owner : owners'[b].tree = owners[b].tree
    BY <1>2 DEF PassInv, PassShape
  <1>5. HeldBy'
    BY <1>2, <1>4 DEF PassInv, HeldBy, OfTrees, OfHosts, OfRetired
  <1>6. Exits' /\ CommandsPointToMemory' /\ HandlesNameTheirOwn'
    BY <1>2 DEF PassInv, PassShape, Exits, CommandsPointToMemory, HandlesNameTheirOwn
  <1> QED
    BY <1>3, <1>5, <1>6 DEF PassInv

LEMMA VisiblePasses ==
    ASSUME PassInv, NEW a \in Owner, NEW v \in BOOLEAN, SetVisible(a, v)
    PROVE  PassInv'
  <1>1. PICK o : o = [owners[a] EXCEPT !.visible = v]
    OBVIOUS
  <1>2. /\ o \in [alive : BOOLEAN, visible : BOOLEAN, tree : Payload \cup {NoTree}]
        /\ o.tree = owners[a].tree /\ o.alive = owners[a].alive /\ owners[a].alive
        /\ owners' = [owners EXCEPT ![a] = o] /\ band' = band /\ handles' = handles /\ holds' = holds
    BY <1>1 DEF SetVisible, PassInv, PassShape
  <1>3. PassShape'
    BY <1>2 DEF PassInv, PassShape
  <1>4. \A b \in Owner : owners'[b].tree = owners[b].tree
    BY <1>2 DEF PassInv, PassShape
  <1>5. HeldBy'
    BY <1>2, <1>4 DEF PassInv, HeldBy, OfTrees, OfHosts, OfRetired
  <1>6. Exits' /\ CommandsPointToMemory' /\ HandlesNameTheirOwn'
    BY <1>2 DEF PassInv, PassShape, Exits, CommandsPointToMemory, HandlesNameTheirOwn
  <1> QED
    BY <1>3, <1>5, <1>6 DEF PassInv

\* Steps that change neither owners nor what a pass keeps.
LEMMA StillPasses ==
    ASSUME PassInv, UNCHANGED <<owners, handles, holds, band>>
    PROVE  PassInv'
  BY DEF PassInv, PassShape, HeldBy, OfTrees, OfHosts, OfRetired, Exits, CommandsPointToMemory,
         HandlesNameTheirOwn

\* What is declared is alive, so a handle that is given out names what is there.
LEMMA NamedPasses ==
    ASSUME PassInv, handles' = Named, owners' = owners
    PROVE  HandlesNameTheirOwn' /\ \A h \in handles' : h.at \in Owner
  <1>1. ASSUME NEW h \in Named, h \notin handles
        PROVE  h.there /\ h.at \in Owner /\ owners[h.at].alive
    <2>1. PICK a \in Unnamed : h.there = TRUE /\ h.at = a
      BY <1>1 DEF Named
    <2>2. a \in Owner /\ owners[a].visible
      BY DEF Unnamed, DeclaredOwners
    <2> QED
      BY <2>1, <2>2 DEF PassInv, PassShape
  <1> QED
    BY <1>1 DEF PassInv, PassShape, HandlesNameTheirOwn

LEMMA FailPasses ==
    ASSUME PassInv, FailPass, handles' = Named, owners' = owners
    PROVE  PassInv'
  <1>1. /\ band'.hosts = band.hosts /\ band'.retired = band.retired /\ band'.commands = {}
        /\ band'.exits = band.exits \cup (DeclaredOwners \cap Fading) /\ holds' = holds
        /\ band' = [hosts |-> band'.hosts, retired |-> band'.retired, exits |-> band'.exits,
                    commands |-> band'.commands, valid |-> band'.valid]
    BY DEF FailPass, PassInv, PassShape
  <1>2. \A a \in DeclaredOwners : a \in Owner /\ owners[a].alive
    BY DEF DeclaredOwners, PassInv, PassShape
  <1>3. PassShape'
    BY <1>1, <1>2, NamedPasses DEF PassInv, PassShape
  <1>4. HeldBy'
    BY <1>1 DEF PassInv, HeldBy, OfTrees, OfHosts, OfRetired
  <1>5. Exits' /\ CommandsPointToMemory' /\ HandlesNameTheirOwn'
    BY <1>1, <1>2, NamedPasses DEF PassInv, Exits, CommandsPointToMemory
  <1> QED
    BY <1>3, <1>4, <1>5 DEF PassInv

\* With the Lua state, all that held a storage goes, so each is free.
LEMMA ReloadPasses ==
    ASSUME PassInv, Reload
    PROVE  PassInv'
  <1>1. /\ band'.hosts = {} /\ band'.retired = {} /\ band'.exits = {} /\ band'.commands = {}
        /\ band' = [hosts |-> band'.hosts, retired |-> band'.retired, exits |-> band'.exits,
                    commands |-> band'.commands, valid |-> band'.valid]
    BY DEF Reload, Empty
  <1>2. owners' = [a \in Owner |-> Nobody] /\ handles' = {}
    BY DEF Reload
  <1>3. \A a \in Owner : owners'[a].tree = NoTree
    BY <1>2 DEF Nobody
  <1>4. holds' = [p \in Payload |-> 0]
    <2>1. ASSUME NEW p \in Payload
          PROVE  holds[p] - Cardinality({h \in band.hosts : h[2] = p})
                    - (IF p \in band.retired THEN 1 ELSE 0)
                    - Cardinality({a \in Owner : owners[a].tree = p}) = 0
      <3>1. holds[p] = OfTrees(p) + OfHosts(p) + OfRetired(p)
        BY DEF PassInv, HeldBy
      <3>2. OfTrees(p) \in Int /\ OfHosts(p) \in Int /\ OfRetired(p) \in Int
        BY DEF OfTrees, OfHosts, OfRetired
      <3>3. holds[p] - OfHosts(p) - OfRetired(p) - OfTrees(p) = 0
        BY <3>1, <3>2
      <3> QED
        BY <3>3, CountsAre DEF OfRetired
    <2> QED
      BY <2>1 DEF Reload
  <1>5. PassShape'
    BY <1>1, <1>2 DEF PassShape, Nobody
  <1>6. HeldBy'
    BY <1>1, <1>3, <1>4, PayloadAssumption DEF HeldBy, OfTrees, OfHosts, OfRetired
  <1>7. Exits' /\ CommandsPointToMemory' /\ HandlesNameTheirOwn'
    BY <1>1, <1>2 DEF Exits, CommandsPointToMemory, HandlesNameTheirOwn
  <1> QED
    BY <1>5, <1>6, <1>7 DEF PassInv

\* A pass that commits: the new views are held, the old ones that commands
\* still point into are kept, and each other one is let go.
LEMMA CommitPasses ==
    ASSUME PassInv, NEW fading \in SUBSET Fadeable, CommitPass(fading, Named),
           handles' = Named, owners' = owners
    PROVE  PassInv'
  <1>a. PICK hosts : hosts = {<<a, owners[a].tree>> : a \in DeclaredOwners}
    OBVIOUS
  <1>b. PICK named : named = {h[2] : h \in hosts}
    OBVIOUS
  <1>c. PICK old : old = {h[2] : h \in band.hosts}
    OBVIOUS
  <1>d. PICK spared : spared = {p \in (old \cup band.retired) \ named : \E c \in fading : c.tree = p}
    OBVIOUS
  <1>e. PICK commands :
          commands = {[id |-> IdOf(Named, h[1]), at |-> h[1], tree |-> h[2]] : h \in hosts} \cup fading
    OBVIOUS
  <1>1. /\ hosts = {<<a, owners[a].tree>> : a \in DeclaredOwners}
        /\ named = {h[2] : h \in hosts} /\ old = {h[2] : h \in band.hosts}
        /\ spared = {p \in (old \cup band.retired) \ named : \E c \in fading : c.tree = p}
        /\ commands = {[id |-> IdOf(Named, h[1]), at |-> h[1], tree |-> h[2]] : h \in hosts} \cup fading
        /\ band' = [hosts |-> hosts, retired |-> spared, valid |-> TRUE, commands |-> commands,
                    exits |-> {a \in band.exits \cup (DeclaredOwners \cap Fading) :
                                  \E c \in commands : c.at = a}]
        /\ holds' = [p \in Payload |-> holds[p] + (IF p \in named THEN 1 ELSE 0)
                      - ((IF p \in old THEN 1 ELSE 0) + (IF p \in band.retired THEN 1 ELSE 0)
                         - (IF p \in spared THEN 1 ELSE 0))]
    BY <1>a, <1>b, <1>c, <1>d, <1>e DEF CommitPass
  <1>2. \A a \in DeclaredOwners : /\ a \in Owner /\ owners[a].alive
                                  /\ owners[a].tree \in Payload /\ owners[a].tree # NoTree
    BY DEF DeclaredOwners, PassInv, PassShape
  <1>3. band'.hosts = hosts /\ band'.retired = spared /\ band'.commands = commands
    BY <1>1
  <1>4. band'.exits = {a \in band.exits \cup (DeclaredOwners \cap Fading) : \E c \in commands : c.at = a}
    BY <1>1
  <1>5. /\ \A h \in hosts : h[1] \in DeclaredOwners /\ h[2] = owners[h[1]].tree /\ h = <<h[1], h[2]>>
        /\ \A h \in hosts : h \in Owner \X Payload
    BY <1>1, <1>2
  <1>6. old \subseteq Payload /\ spared \subseteq old \cup band.retired /\ spared \cap named = {}
    BY <1>1 DEF PassInv, PassShape
  <1>7. PassShape'
    <2>1. band' = [hosts |-> band'.hosts, retired |-> band'.retired, exits |-> band'.exits,
                   commands |-> band'.commands, valid |-> band'.valid]
      BY <1>1
    <2>2. band'.exits \subseteq Owner /\ band'.retired \subseteq Payload
      BY <1>2, <1>3, <1>4, <1>6 DEF PassInv, PassShape
    <2> QED
      BY <1>3, <1>5, <2>1, <2>2, NamedPasses DEF PassInv, PassShape
  <1>8. HeldBy'
    <2>1. ASSUME NEW p \in Payload
          PROVE  holds'[p] = OfTrees(p)' + OfHosts(p)' + OfRetired(p)'
      <3>1. holds[p] = OfTrees(p) + OfHosts(p) + OfRetired(p) /\ OfTrees(p) \in Int
        BY DEF PassInv, HeldBy, OfTrees
      <3>2. OfHosts(p) = (IF p \in old THEN 1 ELSE 0) /\ OfRetired(p) = (IF p \in band.retired THEN 1 ELSE 0)
        BY <1>1 DEF OfHosts, OfRetired
      <3>3. /\ OfTrees(p)' = OfTrees(p) /\ OfHosts(p)' = (IF p \in named THEN 1 ELSE 0)
            /\ OfRetired(p)' = (IF p \in spared THEN 1 ELSE 0)
        BY <1>1, <1>3 DEF OfTrees, OfHosts, OfRetired
      <3>4. holds'[p] = holds[p] + (IF p \in named THEN 1 ELSE 0)
                        - ((IF p \in old THEN 1 ELSE 0) + (IF p \in band.retired THEN 1 ELSE 0)
                           - (IF p \in spared THEN 1 ELSE 0))
        BY <1>1
      <3> QED
        BY <3>1, <3>2, <3>3, <3>4
    <2>2. holds' \in [Payload -> Int]
      BY <1>1 DEF PassInv, HeldBy
    <2>3. \A g, h \in hosts : g[2] = h[2] => g = h
      BY <1>2, <1>5 DEF PassInv, HeldBy
    <2>4. \A a, b \in Owner : owners[a].tree = owners[b].tree /\ owners[a].tree # NoTree => a = b
      BY DEF PassInv, HeldBy
    <2> QED
      BY <1>3, <2>1, <2>2, <2>3, <2>4 DEF HeldBy
  <1>9. \A c \in commands : \/ c \in fading
                            \/ /\ c.at \in DeclaredOwners
                               /\ \E h \in hosts : h[2] = c.tree
    BY <1>1, <1>5
  <1>10. \A c \in fading : c \in band.commands /\ c.at \in Fading
    BY DEF Fadeable
  <1>11. Exits'
    <2>1. \A a \in band'.exits : owners'[a].alive
      BY <1>2, <1>4 DEF PassInv, Exits
    <2>2. ASSUME NEW c \in commands, c.at \in Fading
          PROVE  c.at \in band'.exits
      BY <1>4, <1>9, <1>10, <2>2 DEF PassInv, Exits
    <2> QED
      BY <1>3, <2>1, <2>2 DEF Exits
  <1>12. CommandsPointToMemory'
    <2>1. ASSUME NEW c \in commands
          PROVE  (\E h \in hosts : h[2] = c.tree) \/ c.tree \in spared
      <3>1. CASE c \in fading
        <4>1. c.tree \in old \cup band.retired
          BY <1>1, <1>10, <3>1 DEF PassInv, CommandsPointToMemory
        <4> QED
          BY <1>1, <3>1, <4>1
      <3> QED
        BY <1>9, <3>1
    <2> QED
      BY <1>3, <2>1 DEF CommandsPointToMemory
  <1> QED
    BY <1>7, <1>8, <1>11, <1>12, NamedPasses DEF PassInv

LEMMA NextPasses == PassInv /\ [PassNext]_passVars => PassInv'
  <1> SUFFICES ASSUME PassInv, [PassNext]_passVars PROVE PassInv'
    OBVIOUS
  <1>1. ASSUME NEW a \in Owner, AllocateOwner(a) PROVE PassInv'
    BY <1>1, AllocatePasses
  <1>2. ASSUME NEW a \in Owner, drawin_wipe(a) PROVE PassInv'
    BY <1>2, WipePasses
  <1>3. ASSUME NEW a \in Owner, widget_nodes_set(a) PROVE PassInv'
    BY <1>3, SetNodesPasses
  <1>4. ASSUME NEW a \in Owner, widget_nodes_clear(a) PROVE PassInv'
    BY <1>4, ClearNodesPasses
  <1>5. ASSUME NEW a \in Owner, NEW v \in BOOLEAN, SetVisible(a, v) PROVE PassInv'
    BY <1>5, VisiblePasses
  <1>6. CASE Begin
    BY <1>6, StillPasses DEF Begin
  <1>7. CASE Solve
    <2>1. handles' = Named /\ owners' = owners
      BY <1>7 DEF Solve
    <2>2. ASSUME NEW fading \in SUBSET Fadeable, CommitPass(fading, Named) PROVE PassInv'
      BY <2>1, <2>2, CommitPasses
    <2>3. CASE FailPass
      BY <2>1, <2>3, FailPasses
    <2> QED
      BY <1>7, <2>2, <2>3 DEF Solve
  <1>8. CASE Reconcile
    BY <1>8, StillPasses DEF Reconcile
  <1>9. CASE Reload
    BY <1>9, ReloadPasses
  <1>10. CASE UNCHANGED passVars
    BY <1>10, StillPasses DEF passVars
  <1> QED
    BY <1>1, <1>2, <1>3, <1>4, <1>5, <1>6, <1>7, <1>8, <1>9, <1>10 DEF PassNext

(* However passes commit or fail between what Lua does to drawins and their  *)
(* trees, each storage is referenced as often as it is held, what the layout *)
(* engine points into is there, and owners and handles outlive their use     *)
(* (widget.c, declare.c, drawin.c).                                          *)
THEOREM PassesAreSound == PassSpec => []PassesSound
  <1>1. PassInv => PassesSound
    <2> SUFFICES ASSUME PassInv PROVE PassesSound
      OBVIOUS
    <2>1. StoragesBalance
      BY CountsAre DEF StoragesBalance, OfRetired, PassInv, HeldBy
    <2>2. FadingOwnersStay
      BY DEF PassInv, Exits, FadingOwnersStay
    <2> QED
      BY <2>1, <2>2 DEF PassInv, PassesSound
  <1> QED
    BY <1>1, InitPasses, NextPasses, PTL DEF PassSpec

-----------------------------------------------------------------------------
(* Pixels.  What a buffer was drawn from is said of the scale it was drawn    *)
(* at, for the output's scale may have gone and come back.                    *)

DeviceAt(v, p) == (p * v + 1) \div 2
LenAt(v, o, l) == DeviceAt(v, o + l) - DeviceAt(v, o)
EllipsisAt(v, c) ==
    IF c.kind = "text" /\ (Visible(c) * v + 1) \div 2 < (c.w * v + 1) \div 2
    THEN (Visible(c) * v + 1) \div 2 ELSE 0
PathAt(v, c) == IF c.path = NoPath THEN NoPath ELSE LenAt(v, c.x, c.path - c.x)
PixelsAt(v, c) ==
    [look |-> c.look, scale |-> v, path |-> PathAt(v, c),
     ellipsis |-> IF c.kind = "text" THEN EllipsisAt(v, c) ELSE 0,
     size |-> IF c.kind = "stretch" THEN 0 ELSE LenAt(v, c.x, c.w)]
CropAt(v, c) ==
    IF Visible(c) = c.w THEN <<"all", c.w>>
    ELSE <<LenAt(v, c.x, Visible(c)), LenAt(v, c.x, c.w), Visible(c)>>

PixelInv ==
    /\ scale \in Scale
    /\ leaf = NoRaster \/ leaf \in LeafCommand
    /\ leaf = NoRaster => raster = NoRaster
    /\ leaf # NoRaster =>
         /\ kept.command = leaf
         /\ ~IsRaster(leaf) => raster = NoRaster
         /\ IsRaster(leaf) => /\ kept.scale \in Scale /\ kept.ellipsis = EllipsisAt(kept.scale, leaf)
                              /\ raster = PixelsAt(kept.scale, leaf) /\ crop = CropAt(kept.scale, leaf)
                              /\ raster # NoRaster

LEMMA PixelsNow ==
    ASSUME NEW c \in LeafCommand
    PROVE  /\ text_ellipsis_width(c) = EllipsisAt(scale, c) /\ Cropped(c) = CropAt(scale, c)
           /\ c.kind = "text" => rasterize_text(c) = PixelsAt(scale, c)
           /\ c.kind \in {"image", "stretch"} => rasterize_image(c) = PixelsAt(scale, c)
           /\ c.kind = "shape" => rasterize_shape(c) = PixelsAt(scale, c)
           /\ c.kind = "rectangle" => rasterize_rect(c) = PixelsAt(scale, c)
           /\ PathIn(c) = PathAt(scale, c)
  <1>1. \A o, l : device_len(o, l) = LenAt(scale, o, l)
    BY DEF device_len, Device, LenAt, DeviceAt
  <1>2. text_ellipsis_width(c) = EllipsisAt(scale, c)
    BY DEF text_ellipsis_width, EllipsisAt
  <1>3. Cropped(c) = CropAt(scale, c) /\ PathIn(c) = PathAt(scale, c)
    BY <1>1 DEF Cropped, CropAt, PathIn, PathAt
  <1>4. \A size, ellipsis : Pixels(c, size, ellipsis)
           = [look |-> c.look, scale |-> scale, path |-> PathAt(scale, c), ellipsis |-> ellipsis, size |-> size]
    BY <1>3 DEF Pixels
  <1> QED
    BY <1>1, <1>2, <1>3, <1>4 DEF rasterize_text, rasterize_image, rasterize_shape, rasterize_rect, PixelsAt

LEMMA PixelsAreSome ==
    ASSUME NEW c \in LeafCommand, NEW v \in Scale
    PROVE  PixelsAt(v, c) # NoRaster
  <1>1. c.x \in Int /\ c.w \in Int /\ c.end \in Int /\ v \in Int /\ c.look \in Look
        /\ (c.path = NoPath \/ c.path \in Int)
    BY RasterAssumption DEF LeafCommand
  <1>2. Visible(c) \in Int
    BY <1>1 DEF Visible, Least
  <1>3. \A p \in Int : DeviceAt(v, p) \in Int
    BY <1>1 DEF DeviceAt
  <1>4. \A o, l \in Int : LenAt(v, o, l) \in Int
    BY <1>3 DEF LenAt
  <1>5. PathAt(v, c) \in Int \cup {NoPath}
    <2>1. c.path \in Int => c.path - c.x \in Int
      BY <1>1
    <2> QED
      BY <1>1, <1>4, <2>1 DEF PathAt
  <1>6. EllipsisAt(v, c) \in Int
    BY <1>1, <1>2 DEF EllipsisAt
  <1>7. PixelsAt(v, c) \in [look : Look, scale : Scale, path : Int \cup {NoPath}, ellipsis : Int, size : Int]
    <2>1. LenAt(v, c.x, c.w) \in Int
      BY <1>1, <1>4
    <2>2. PICK e : e = (IF c.kind = "text" THEN EllipsisAt(v, c) ELSE 0)
      OBVIOUS
    <2>3. PICK z : z = (IF c.kind = "stretch" THEN 0 ELSE LenAt(v, c.x, c.w))
      OBVIOUS
    <2>4. e \in Int /\ z \in Int
      BY <1>6, <2>1, <2>2, <2>3
    <2>5. PixelsAt(v, c) = [look |-> c.look, scale |-> v, path |-> PathAt(v, c), ellipsis |-> e, size |-> z]
      BY <2>2, <2>3 DEF PixelsAt
    <2> QED
      BY <1>1, <1>5, <2>4, <2>5
  <1> QED
    BY <1>7, RasterAssumption

\* A pass that does not draw finds the pixels as it would draw them.
LEMMA PassShows ==
    ASSUME PixelInv, NEW c \in LeafCommand, IsRaster(c), NEW draws \in BOOLEAN, NEW pixels,
           pixels = PixelsAt(scale, c), Shows(c, draws, pixels),
           ~draws => /\ ~FreshRaster(c) /\ ~Stale(c)
                     /\ c.kind # "stretch" => raster_size_equal(c)
                     /\ c.kind = "text" => kept.ellipsis = text_ellipsis_width(c)
    PROVE  PixelInv' /\ raster' # NoRaster /\ tiles' = tiles /\ style' = style
           /\ bytes' = bytes + (IF raster = NoRaster THEN 1 ELSE 0)
  <1>1. /\ leaf' = c /\ UNCHANGED <<scale, style, tiles>> /\ c # NoRaster
        /\ kept'.command = c /\ kept'.ellipsis = EllipsisAt(scale, c)
        /\ bytes' = bytes + (IF raster = NoRaster THEN 1 ELSE 0)
        /\ leaf # NoRaster => leaf.kind = c.kind
    BY PixelsNow, RasterAssumption DEF Shows
  <1>2. CASE draws
    <2>1. raster' = PixelsAt(scale, c) /\ crop' = CropAt(scale, c) /\ kept'.scale = scale
      BY <1>2, PixelsNow DEF Shows
    <2>2. raster' # NoRaster
      BY <2>1, PixelsAreSome DEF PixelInv
    <2> QED
      BY <1>1, <2>1, <2>2 DEF PixelInv
  <1>3. CASE ~draws
    <2>1. /\ leaf # NoRaster /\ leaf \in LeafCommand /\ IsRaster(leaf) /\ kept.command = leaf
          /\ raster = PixelsAt(kept.scale, leaf) /\ crop = CropAt(kept.scale, leaf) /\ raster # NoRaster
          /\ kept.ellipsis = EllipsisAt(kept.scale, leaf)
      BY <1>3 DEF PixelInv, FreshRaster
    <2>2. /\ kept.scale = scale /\ leaf.look = c.look /\ leaf.path = c.path /\ leaf.kind = c.kind
          /\ c.path # NoPath => leaf.x = c.x
      BY <1>1, <1>3, <2>1 DEF Stale, path_masks_changed
    <2>3. c.kind # "stretch" => LenAt(scale, leaf.x, leaf.w) = LenAt(scale, c.x, c.w)
      BY <1>3, <2>1 DEF raster_size_equal, device_len, Device, LenAt, DeviceAt
    <2>4. c.kind = "text" => EllipsisAt(scale, leaf) = EllipsisAt(scale, c)
      BY <1>3, <2>1, <2>2, PixelsNow
    <2>5. PathAt(scale, leaf) = PathAt(scale, c)
      BY <2>2 DEF PathAt
    <2>6. PixelsAt(scale, leaf) = PixelsAt(scale, c)
      BY <2>2, <2>3, <2>4, <2>5 DEF PixelsAt
    <2>7. crop' = CropAt(scale, c)
      <3>1. CASE Recrops(c)
        BY <1>3, <3>1, PixelsNow DEF Shows
      <3>2. CASE ~Recrops(c)
        <4>1. leaf.x = c.x /\ leaf.w = c.w /\ Visible(leaf) = Visible(c)
          BY <2>1, <3>2 DEF Recrops
        <4>2. CropAt(scale, leaf) = CropAt(scale, c)
          BY <4>1 DEF CropAt
        <4> QED
          BY <1>3, <2>1, <2>2, <3>2, <4>2 DEF Shows
      <3> QED
        BY <3>1, <3>2
    <2>8. raster' = PixelsAt(scale, c) /\ kept'.scale = scale
      BY <1>3, <2>1, <2>2, <2>6 DEF Shows
    <2> QED
      BY <1>1, <2>1, <2>2, <2>6, <2>7, <2>8 DEF PixelInv
  <1> QED
    BY <1>2, <1>3

\* What a step of the leaf does to its pixels and to what is counted.
Uncounted == tiles' = tiles /\ style' = style
             /\ bytes' = bytes - (IF raster = NoRaster THEN 0 ELSE 1) + (IF raster' = NoRaster THEN 0 ELSE 1)

LEMMA LeafStep ==
    ASSUME PixelInv, bytes \in Int,
           rnode_remove \/ \E c \in LeafCommand : reconcile_text(c) \/ reconcile_image(c) \/ reconcile_shape(c)
                                                  \/ reconcile_rect_raster(c) \/ reconcile_rectangle(c)
    PROVE  PixelInv' /\ Uncounted
  <1>1. CASE rnode_remove
    BY <1>1 DEF rnode_remove, PixelInv, Uncounted
  <1>2. ASSUME NEW c \in LeafCommand, reconcile_rectangle(c) PROVE PixelInv' /\ Uncounted
    <2>1. ~IsRaster(c) /\ c # NoRaster
      BY <1>2, RasterAssumption DEF reconcile_rectangle, IsRaster
    <2> QED
      BY <1>2, <2>1 DEF reconcile_rectangle, PixelInv, Uncounted
  <1>3. ASSUME NEW c \in LeafCommand, IsRaster(c), NEW draws \in BOOLEAN, NEW pixels,
               pixels = PixelsAt(scale, c), Shows(c, draws, pixels),
               ~draws => /\ ~FreshRaster(c) /\ ~Stale(c)
                         /\ c.kind # "stretch" => raster_size_equal(c)
                         /\ c.kind = "text" => kept.ellipsis = text_ellipsis_width(c)
        PROVE  PixelInv' /\ Uncounted
    BY <1>3, PassShows DEF Uncounted
  <1>4. ASSUME NEW c \in LeafCommand, reconcile_text(c) PROVE PixelInv' /\ Uncounted
    <2>1. PICK draws : draws = (FreshRaster(c) \/ Stale(c) \/ ~raster_size_equal(c)
                                \/ kept.ellipsis # text_ellipsis_width(c))
      OBVIOUS
    <2>2. draws \in BOOLEAN
      BY <2>1
    <2>3. Shows(c, draws, rasterize_text(c))
      BY <1>4, <2>1 DEF reconcile_text
    <2> QED
      BY <1>3, <1>4, <2>1, <2>2, <2>3, PixelsNow DEF reconcile_text, IsRaster
  <1>5. ASSUME NEW c \in LeafCommand, reconcile_image(c) PROVE PixelInv' /\ Uncounted
    <2>1. PICK draws : draws = (FreshRaster(c) \/ Stale(c) \/ (c.kind = "image" /\ ~raster_size_equal(c)))
      OBVIOUS
    <2>2. draws \in BOOLEAN
      BY <2>1
    <2>3. Shows(c, draws, rasterize_image(c))
      BY <1>5, <2>1 DEF reconcile_image
    <2> QED
      BY <1>3, <1>5, <2>1, <2>2, <2>3, PixelsNow DEF reconcile_image, IsRaster
  <1>6. ASSUME NEW c \in LeafCommand, reconcile_shape(c) PROVE PixelInv' /\ Uncounted
    <2>1. PICK draws : draws = (FreshRaster(c) \/ Stale(c) \/ ~raster_size_equal(c))
      OBVIOUS
    <2>2. draws \in BOOLEAN
      BY <2>1
    <2>3. Shows(c, draws, rasterize_shape(c))
      BY <1>6, <2>1 DEF reconcile_shape
    <2> QED
      BY <1>3, <1>6, <2>1, <2>2, <2>3, PixelsNow DEF reconcile_shape, IsRaster
  <1>7. ASSUME NEW c \in LeafCommand, reconcile_rect_raster(c) PROVE PixelInv' /\ Uncounted
    <2>1. PICK draws : draws = (FreshRaster(c) \/ Stale(c) \/ ~raster_size_equal(c))
      OBVIOUS
    <2>2. draws \in BOOLEAN
      BY <2>1
    <2>3. Shows(c, draws, rasterize_rect(c))
      BY <1>7, <2>1 DEF reconcile_rect_raster
    <2> QED
      BY <1>3, <1>7, <2>1, <2>2, <2>3, PixelsNow DEF reconcile_rect_raster, IsRaster
  <1> QED
    BY <1>1, <1>2, <1>4, <1>5, <1>6, <1>7

-----------------------------------------------------------------------------
(* Tiles are counted by those who show them.                                  *)

Users(st, t) == {s \in Shadow : st[s] = t}
Counts(ts, st) ==
    \A t : /\ t \in DOMAIN ts <=> t # NoRaster /\ Users(st, t) # {}
           /\ t \in DOMAIN ts => ts[t] = Cardinality(Users(st, t))

TileInv ==
    /\ style \in [Shadow -> (Style \X Scale) \cup {NoRaster}]
    /\ Counts(tiles, style)
    /\ IsFiniteSet(DOMAIN tiles)
    /\ bytes = Cardinality(DOMAIN tiles) + (IF raster = NoRaster THEN 0 ELSE 1)

LEMMA UsersAre ==
    ASSUME NEW st, NEW t
    PROVE  /\ IsFiniteSet(Users(st, t)) /\ Cardinality(Users(st, t)) \in Nat
           /\ Cardinality(Users(st, t)) = 0 <=> Users(st, t) = {}
  <1>1. Users(st, t) \subseteq Shadow
    BY DEF Users
  <1>2. IsFiniteSet(Users(st, t))
    BY <1>1, RasterAssumption, FS_Subset
  <1> QED
    BY <1>2, FS_CardinalityType, FS_EmptySet

\* A shadow goes from one style to another: one user less here, one more there.
LEMMA UsersMove ==
    ASSUME NEW st, NEW s \in Shadow, DOMAIN st = Shadow, NEW t, st[s] # t,
           NEW new, \A r \in Shadow : new[r] = IF r = s THEN t ELSE st[r]
    PROVE  /\ Cardinality(Users(new, t)) = Cardinality(Users(st, t)) + 1
           /\ Cardinality(Users(new, st[s])) = Cardinality(Users(st, st[s])) - 1
           /\ Cardinality(Users(st, st[s])) # 0
           /\ \A u : u # t /\ u # st[s] => Users(new, u) = Users(st, u)
  <1>2. Users(new, t) = Users(st, t) \cup {s} /\ s \notin Users(st, t)
    BY DEF Users
  <1>3. Users(new, st[s]) = Users(st, st[s]) \ {s} /\ s \in Users(st, st[s])
    BY DEF Users
  <1>4. \A u : u # t /\ u # st[s] => Users(new, u) = Users(st, u)
    BY DEF Users
  <1>5. Cardinality(Users(new, t)) = Cardinality(Users(st, t)) + 1
    BY <1>2, UsersAre, FS_AddElement
  <1>6. Cardinality(Users(new, st[s])) = Cardinality(Users(st, st[s])) - 1
    BY <1>3, UsersAre, FS_RemoveElement
  <1>7. Cardinality(Users(st, st[s])) # 0
    BY <1>3, UsersAre
  <1> QED
    BY <1>4, <1>5, <1>6, <1>7

LEMMA DroppedIs ==
    ASSUME NEW ts, NEW t, t # NoRaster, t \in DOMAIN ts, ts[t] \in Int
    PROVE  /\ ts[t] = 1 => DOMAIN TilesDropped(ts, t) = DOMAIN ts \ {t}
           /\ ts[t] # 1 => DOMAIN TilesDropped(ts, t) = DOMAIN ts /\ TilesDropped(ts, t)[t] \in Int
                         /\ TilesDropped(ts, t)[t] = ts[t] - 1
           /\ \A u \in DOMAIN ts \ {t} : TilesDropped(ts, t)[u] = ts[u]
  BY DEF TilesDropped

LEMMA Restyles ==
    ASSUME TileInv, NEW s \in Shadow, NEW v \in Style, reconcile_shadow(s, v), scale \in Scale
    PROVE  TileInv'
  <1>1. PICK t : t = <<v, scale>>
    OBVIOUS
  <1>2. PICK old : old = style[s]
    OBVIOUS
  <1>3. PICK got : got = TilesGot(tiles, t)
    OBVIOUS
  <1>4. /\ t \in Style \X Scale /\ t # NoRaster /\ old # t
        /\ style' = [style EXCEPT ![s] = t] /\ tiles' = TilesDropped(got, old)
        /\ raster' = raster /\ bytes' = bytes + Cardinality(DOMAIN tiles') - Cardinality(DOMAIN tiles)
    BY <1>1, <1>2, <1>3, RasterAssumption DEF reconcile_shadow
  <1>5. style' \in [Shadow -> (Style \X Scale) \cup {NoRaster}] /\ DOMAIN style = Shadow
    BY <1>4 DEF TileInv
  <1>6. /\ DOMAIN got = DOMAIN tiles \cup {t}
        /\ got[t] = Cardinality(Users(style, t)) + 1
        /\ \A u \in DOMAIN tiles \ {t} : got[u] = tiles[u]
    <2>1. Counts(tiles, style)
      BY DEF TileInv
    <2>2. CASE t \in DOMAIN tiles
      <3>1. tiles[t] = Cardinality(Users(style, t)) /\ Cardinality(Users(style, t)) \in Nat
        BY <2>1, <2>2, UsersAre DEF Counts
      <3>2. got = [u \in DOMAIN tiles |-> IF u = t THEN tiles[t] + 1 ELSE tiles[u]]
        BY <1>3, <2>2 DEF TilesGot
      <3> QED
        BY <2>2, <3>1, <3>2
    <2>3. CASE t \notin DOMAIN tiles
      <3>1. Cardinality(Users(style, t)) = 0
        BY <1>4, <2>1, <2>3, UsersAre DEF Counts
      <3>2. got = [u \in DOMAIN tiles \cup {t} |-> IF u = t THEN 1 ELSE tiles[u]]
        BY <1>3, <2>3 DEF TilesGot
      <3> QED
        BY <2>3, <3>1, <3>2
    <2> QED
      BY <2>2, <2>3
  <1>0. \A r \in Shadow : style'[r] = IF r = s THEN t ELSE style[r]
    BY <1>4, <1>5
  <1>7. /\ Cardinality(Users(style', t)) = Cardinality(Users(style, t)) + 1
        /\ Cardinality(Users(style', old)) = Cardinality(Users(style, old)) - 1
        /\ Cardinality(Users(style, old)) # 0
        /\ \A u : u # t /\ u # old => Users(style', u) = Users(style, u)
    <2>1. style[s] # t /\ DOMAIN style = Shadow
      BY <1>2, <1>4, <1>5
    <2> QED
      BY <1>0, <1>2, <2>1, UsersMove
  <1>8. old # NoRaster => old \in DOMAIN got /\ got[old] = Cardinality(Users(style, old))
    <2>1. old # NoRaster => old \in DOMAIN tiles /\ tiles[old] = Cardinality(Users(style, old))
      BY <1>7, UsersAre DEF TileInv, Counts
    <2> QED
      BY <1>4, <1>6, <2>1
  <1>9. /\ DOMAIN tiles' \subseteq DOMAIN got
        /\ \A u \in DOMAIN got : u # old => u \in DOMAIN tiles' /\ tiles'[u] = got[u]
        /\ old # NoRaster => /\ old \in DOMAIN tiles' <=> Cardinality(Users(style, old)) # 1
                             /\ old \in DOMAIN tiles' => tiles'[old] = Cardinality(Users(style, old)) - 1
    <2>1. CASE old = NoRaster
      BY <1>4, <2>1 DEF TilesDropped
    <2>2. CASE old # NoRaster
      <3>1. tiles' = TilesDropped(got, old)
        BY <1>4
      <3>2. old \in DOMAIN got /\ got[old] \in Int /\ got[old] = Cardinality(Users(style, old))
        BY <1>8, <2>2, UsersAre
      <3>3. /\ got[old] = 1 => DOMAIN tiles' = DOMAIN got \ {old}
            /\ got[old] # 1 => DOMAIN tiles' = DOMAIN got /\ tiles'[old] = got[old] - 1
            /\ \A u \in DOMAIN got \ {old} : tiles'[u] = got[u]
        BY <2>2, <3>1, <3>2, DroppedIs
      <3> QED
        BY <2>2, <3>2, <3>3
    <2> QED
      BY <2>1, <2>2
  <1>10. NoRaster \notin DOMAIN got
    BY <1>4, <1>6 DEF TileInv, Counts
  <1>11. Counts(tiles', style')
    <2> SUFFICES ASSUME NEW u
                 PROVE  /\ u \in DOMAIN tiles' <=> u # NoRaster /\ Users(style', u) # {}
                        /\ u \in DOMAIN tiles' => tiles'[u] = Cardinality(Users(style', u))
      BY DEF Counts
    <2>1. CASE u = NoRaster
      BY <1>9, <1>10, <2>1
    <2>2. CASE u = t
      <3>1. u \in DOMAIN tiles' /\ tiles'[u] = Cardinality(Users(style', u))
        BY <1>4, <1>6, <1>7, <1>9, <2>2
      <3>2. Cardinality(Users(style', u)) # 0
        BY <1>7, <2>2, UsersAre
      <3> QED
        BY <1>4, <2>2, <3>1, <3>2, UsersAre
    <2>3. CASE u = old /\ u # NoRaster
      <3>1. Cardinality(Users(style, old)) \in Nat /\ Cardinality(Users(style', old)) \in Nat
            /\ (Cardinality(Users(style', old)) = 0 <=> Users(style', old) = {})
        BY UsersAre
      <3> QED
        BY <1>7, <1>9, <2>3, <3>1
    <2>4. CASE u # NoRaster /\ u # t /\ u # old
      <3>1. Users(style', u) = Users(style, u)
        BY <1>7, <2>4
      <3>2. u \in DOMAIN tiles' <=> u \in DOMAIN tiles
        BY <1>6, <1>9, <2>4
      <3>3. u \in DOMAIN tiles => tiles'[u] = tiles[u]
        BY <1>6, <1>9, <2>4
      <3> QED
        BY <3>1, <3>2, <3>3 DEF TileInv, Counts
    <2> QED
      BY <2>1, <2>2, <2>3, <2>4
  <1>12. IsFiniteSet(DOMAIN tiles')
    BY <1>6, <1>9, FS_AddElement, FS_Subset DEF TileInv
  <1>13. bytes' = Cardinality(DOMAIN tiles') + (IF raster' = NoRaster THEN 0 ELSE 1)
    <2>1. Cardinality(DOMAIN tiles') \in Nat /\ Cardinality(DOMAIN tiles) \in Nat
      BY <1>12, FS_CardinalityType DEF TileInv
    <2> QED
      BY <1>4, <2>1 DEF TileInv
  <1> QED
    BY <1>5, <1>11, <1>12, <1>13 DEF TileInv

LEMMA Sweeps ==
    ASSUME TileInv, NEW s \in Shadow, sweep_shadow(s)
    PROVE  TileInv'
  <1>1. PICK old : old = style[s]
    OBVIOUS
  <1>2. /\ old # NoRaster /\ style' = [style EXCEPT ![s] = NoRaster] /\ tiles' = TilesDropped(tiles, old)
        /\ raster' = raster /\ bytes' = bytes + Cardinality(DOMAIN tiles') - Cardinality(DOMAIN tiles)
    BY <1>1 DEF sweep_shadow
  <1>3. style' \in [Shadow -> (Style \X Scale) \cup {NoRaster}] /\ DOMAIN style = Shadow
    BY <1>2 DEF TileInv
  <1>0. \A r \in Shadow : style'[r] = IF r = s THEN NoRaster ELSE style[r]
    BY <1>2, <1>3
  <1>4. /\ Cardinality(Users(style', old)) = Cardinality(Users(style, old)) - 1
        /\ Cardinality(Users(style, old)) # 0
        /\ \A u : u # NoRaster /\ u # old => Users(style', u) = Users(style, u)
    <2>1. style[s] # NoRaster /\ DOMAIN style = Shadow
      BY <1>1, <1>2, <1>3
    <2> QED
      BY <1>0, <1>1, <2>1, UsersMove
  <1>5. old \in DOMAIN tiles /\ tiles[old] = Cardinality(Users(style, old)) /\ NoRaster \notin DOMAIN tiles
    BY <1>2, <1>4, UsersAre DEF TileInv, Counts
  <1>6. /\ DOMAIN tiles' \subseteq DOMAIN tiles
        /\ \A u \in DOMAIN tiles : u # old => u \in DOMAIN tiles' /\ tiles'[u] = tiles[u]
        /\ old \in DOMAIN tiles' <=> Cardinality(Users(style, old)) # 1
        /\ old \in DOMAIN tiles' => tiles'[old] = Cardinality(Users(style, old)) - 1
    <2>1. tiles' = TilesDropped(tiles, old) /\ old # NoRaster
      BY <1>2
    <2>2. tiles[old] \in Int
      BY <1>5, UsersAre
    <2>3. /\ tiles[old] = 1 => DOMAIN tiles' = DOMAIN tiles \ {old}
          /\ tiles[old] # 1 => DOMAIN tiles' = DOMAIN tiles /\ tiles'[old] = tiles[old] - 1
          /\ \A u \in DOMAIN tiles \ {old} : tiles'[u] = tiles[u]
      BY <1>5, <2>1, <2>2, DroppedIs
    <2> QED
      BY <1>5, <2>3
  <1>7. Counts(tiles', style')
    <2> SUFFICES ASSUME NEW u
                 PROVE  /\ u \in DOMAIN tiles' <=> u # NoRaster /\ Users(style', u) # {}
                        /\ u \in DOMAIN tiles' => tiles'[u] = Cardinality(Users(style', u))
      BY DEF Counts
    <2>1. CASE u = NoRaster
      BY <1>5, <1>6, <2>1
    <2>2. CASE u = old
      <3>1. Cardinality(Users(style, old)) \in Nat /\ Cardinality(Users(style', old)) \in Nat
            /\ (Cardinality(Users(style', old)) = 0 <=> Users(style', old) = {})
        BY UsersAre
      <3> QED
        <4>1. old # NoRaster /\ Cardinality(Users(style', old)) = Cardinality(Users(style, old)) - 1
          BY <1>2, <1>4
        <4>2. Users(style', old) # {} <=> Cardinality(Users(style, old)) # 1
          BY <3>1, <4>1
        <4> QED
          BY <1>6, <2>2, <4>1, <4>2
    <2>3. CASE u # NoRaster /\ u # old
      BY <1>4, <1>6, <2>3 DEF TileInv, Counts
    <2> QED
      BY <2>1, <2>2, <2>3
  <1>8. IsFiniteSet(DOMAIN tiles')
    BY <1>6, FS_Subset DEF TileInv
  <1>9. bytes' = Cardinality(DOMAIN tiles') + (IF raster' = NoRaster THEN 0 ELSE 1)
    <2>1. Cardinality(DOMAIN tiles') \in Nat /\ Cardinality(DOMAIN tiles) \in Nat
      BY <1>8, FS_CardinalityType DEF TileInv
    <2> QED
      BY <1>2, <2>1 DEF TileInv
  <1> QED
    BY <1>3, <1>7, <1>8, <1>9 DEF TileInv

(* Whatever changes between two passes, the scale there and back among it,    *)
(* what is shown is what would be drawn from nothing, and tiles and bytes are *)
(* counted as they are used (render.c).                                       *)
THEOREM PixelsAreKept == RasterSpec => [](PixelsAreCurrent /\ TilesAreCounted)
  <1>1. RasterInit => PixelInv /\ TileInv
    <2> SUFFICES ASSUME RasterInit PROVE PixelInv /\ TileInv
      OBVIOUS
    <2>1. DOMAIN tiles = {}
      BY DEF RasterInit
    <2>2. \A t : Users(style, t) # {} => t = NoRaster
      BY DEF RasterInit, Users
    <2> QED
      BY <2>1, <2>2, FS_EmptySet, RasterAssumption DEF RasterInit, PixelInv, TileInv, Counts
  <1>2. PixelInv /\ TileInv /\ [RasterNext]_rasterVars => PixelInv' /\ TileInv'
    <2> SUFFICES ASSUME PixelInv, TileInv, [RasterNext]_rasterVars PROVE PixelInv' /\ TileInv'
      OBVIOUS
    <2>1. CASE rnode_remove \/ \E c \in LeafCommand : reconcile_text(c) \/ reconcile_image(c) \/ reconcile_shape(c)
                                                      \/ reconcile_rect_raster(c) \/ reconcile_rectangle(c)
      <3>1. Cardinality(DOMAIN tiles) \in Nat
        BY FS_CardinalityType DEF TileInv
      <3>2. bytes \in Int
        BY <3>1 DEF TileInv
      <3>3. PixelInv' /\ Uncounted
        BY <2>1, <3>2, LeafStep
      <3> QED
        BY <3>1, <3>3 DEF TileInv, Uncounted
    <2>2. ASSUME NEW s \in Shadow, sweep_shadow(s) \/ \E v \in Style : reconcile_shadow(s, v)
          PROVE  PixelInv' /\ TileInv'
      <3>1. PixelInv'
        BY <2>2 DEF sweep_shadow, reconcile_shadow, PixelInv
      <3> QED
        BY <2>2, <3>1, Sweeps, Restyles DEF PixelInv
    <2>3. ASSUME NEW v \in Scale, render_set_scale(v) PROVE PixelInv' /\ TileInv'
      BY <2>3 DEF render_set_scale, PixelInv, TileInv
    <2>4. CASE UNCHANGED rasterVars
      BY <2>4 DEF rasterVars, PixelInv, TileInv
    <2> QED
      BY <2>1, <2>2, <2>3, <2>4 DEF RasterNext
  <1>3. PixelInv /\ TileInv => PixelsAreCurrent /\ TilesAreCounted
    <2> SUFFICES ASSUME PixelInv, TileInv PROVE PixelsAreCurrent /\ TilesAreCounted
      OBVIOUS
    <2>1. PixelsAreCurrent
      <3> SUFFICES ASSUME leaf # NoRaster, IsRaster(leaf), kept.scale = scale
                   PROVE  /\ crop = Cropped(leaf)
                          /\ raster = CASE leaf.kind = "text" -> rasterize_text(leaf)
                                        [] leaf.kind = "shape" -> rasterize_shape(leaf)
                                        [] leaf.kind = "rectangle" -> rasterize_rect(leaf)
                                        [] OTHER -> rasterize_image(leaf)
        BY DEF PixelsAreCurrent
      <3>1. leaf \in LeafCommand /\ raster = PixelsAt(scale, leaf) /\ crop = CropAt(scale, leaf)
        BY DEF PixelInv
      <3>2. leaf.kind \in Kinds
        BY <3>1 DEF LeafCommand
      <3> QED
        BY <3>1, <3>2, PixelsNow DEF Kinds
    <2>2. DOMAIN tiles = {style[s] : s \in Shadow} \ {NoRaster}
      <3>1. \A t : t \in DOMAIN tiles <=> t # NoRaster /\ Users(style, t) # {}
        BY DEF TileInv, Counts
      <3>2. \A t : Users(style, t) # {} <=> \E s \in Shadow : style[s] = t
        BY DEF Users
      <3>3. \A t : t \in DOMAIN tiles <=> t # NoRaster /\ \E s \in Shadow : style[s] = t
        BY <3>1, <3>2
      <3> QED
        BY <3>3
    <2> QED
      BY <2>1, <2>2 DEF TileInv, Counts, Users, TilesAreCounted
  <1> QED
    BY <1>1, <1>2, <1>3, PTL DEF RasterSpec

-----------------------------------------------------------------------------
(* Sizes.  Along each axis the hints are a cap and then whole steps above the *)
(* base: a function that grows with what is asked and changes nothing that it *)
(* gave itself.                                                               *)

Capped(x, lo, hi) == IF hi # 0 THEN Small(Big(x, lo), hi) ELSE Big(x, lo)
Stepped(x, b, m) == IF m # 0 /\ x > b THEN x - ((x - b) % m) ELSE x
Fit(x, lo, hi, b, m) == Stepped(Capped(x, lo, hi), b, m)

LEMMA DivIs ==
    ASSUME NEW a \in Nat, NEW m \in Nat \ {0}
    PROVE  /\ a \div m \in Nat /\ (a % m) \in Nat /\ (a % m) < m
           /\ a = m * (a \div m) + (a % m)
  OBVIOUS

LEMMA ModIs ==
    ASSUME NEW a \in Nat, NEW m \in Nat \ {0}
    PROVE  /\ (a % m) \in Nat /\ (a % m) < m /\ (a % m) <= a
           /\ a = 0 => (a % m) = 0
  <1>1. PICK q \in Nat : q = a \div m
    BY DivIs
  <1>2. (a % m) \in Nat /\ (a % m) < m /\ a = m * q + (a % m) /\ m * q \in Nat
    BY <1>1, DivIs
  <1> QED
    BY <1>2

LEMMA TimesGrows ==
    ASSUME NEW m \in Nat, NEW p \in Nat, NEW q \in Nat, p <= q
    PROVE  m * p <= m * q
  <1>1. m * (q - p) >= 0 /\ m * (q - p) = m * q - m * p
    OBVIOUS
  <1> QED
    BY <1>1

LEMMA DivGrows ==
    ASSUME NEW a \in Nat, NEW c \in Nat, NEW m \in Nat \ {0}, a <= c
    PROVE  a - (a % m) <= c - (c % m)
  <1>1. PICK p \in Nat : p = a \div m
    BY DivIs
  <1>2. PICK q \in Nat : q = c \div m
    BY DivIs
  <1>3. (a % m) \in Nat /\ (c % m) \in Nat /\ (a % m) < m /\ (c % m) < m /\ a = m * p + (a % m) /\ c = m * q + (c % m)
    BY <1>1, <1>2, DivIs
  <1>4. p <= q
    <2> SUFFICES ASSUME q + 1 <= p PROVE FALSE
      OBVIOUS
    <2>1. m * (q + 1) <= m * p
      BY TimesGrows
    <2>2. m * (q + 1) = m * q + m
      OBVIOUS
    <2>3. m * p \in Nat /\ m * q \in Nat
      OBVIOUS
    <2> QED
      BY <1>3, <2>1, <2>2, <2>3
  <1>5. m * p <= m * q
    BY <1>4, TimesGrows
  <1>6. m * p \in Nat /\ m * q \in Nat
    OBVIOUS
  <1> QED
    BY <1>3, <1>5, <1>6

\* What lies between a multiple and a number of its step rounds to the multiple.
LEMMA ModBetween ==
    ASSUME NEW a \in Nat, NEW m \in Nat \ {0}, NEW k \in Nat, a - (a % m) <= k, k <= a
    PROVE  k - (k % m) = a - (a % m)
  <1>1. PICK p \in Nat : p = a \div m
    BY DivIs
  <1>2. PICK q \in Nat : q = k \div m
    BY DivIs
  <1>3. (a % m) \in Nat /\ (k % m) \in Nat /\ (a % m) < m /\ (k % m) < m /\ a = m * p + (a % m) /\ k = m * q + (k % m)
    BY <1>1, <1>2, DivIs
  <1>4. m * p \in Nat /\ m * q \in Nat
    OBVIOUS
  <1>5. p <= q
    <2> SUFFICES ASSUME q + 1 <= p PROVE FALSE
      OBVIOUS
    <2>1. m * (q + 1) <= m * p
      BY TimesGrows
    <2>2. m * (q + 1) = m * q + m
      OBVIOUS
    <2> QED
      BY <1>3, <1>4, <2>1, <2>2
  <1>6. k - (k % m) <= a - (a % m)
    BY DivGrows
  <1>7. m * p <= m * q
    BY <1>5, TimesGrows
  <1> QED
    BY <1>3, <1>4, <1>6, <1>7
LEMMA CappedIs ==
    ASSUME NEW x \in Int, NEW lo \in Int, NEW hi \in Int
    PROVE  /\ Capped(x, lo, hi) \in Int
           /\ hi # 0 => Capped(x, lo, hi) <= hi
           /\ lo <= hi \/ hi = 0 => Capped(x, lo, hi) >= lo
           /\ \A y \in Int : y <= x => Capped(y, lo, hi) <= Capped(x, lo, hi)
           /\ \A y \in Int : y <= Capped(x, lo, hi) => /\ Capped(y, lo, hi) <= Capped(x, lo, hi)
                                                     /\ Capped(y, lo, hi) >= y
  BY DEF Capped, Small, Big

LEMMA SteppedIs ==
    ASSUME NEW x \in Int, NEW b \in Int, NEW m \in Nat
    PROVE  /\ Stepped(x, b, m) \in Int /\ Stepped(x, b, m) <= x
           /\ Stepped(x, b, m) + m >= x /\ (m # 0 => Stepped(x, b, m) + m > x)
           /\ \A y \in Int : y <= x => Stepped(y, b, m) <= Stepped(x, b, m)
           /\ \A y \in Int : Stepped(x, b, m) <= y /\ y <= x => Stepped(y, b, m) = Stepped(x, b, m)
  <1>1. CASE m = 0 \/ x <= b
    BY <1>1 DEF Stepped
  <1>2. CASE m # 0 /\ x > b
    <2>1. PICK a \in Nat : a = x - b
      BY <1>2
    <2>2. /\ m \in Nat \ {0} /\ Stepped(x, b, m) = x - (a % m)
          /\ (a % m) \in Nat /\ (a % m) < m /\ (a % m) <= a
      <3>1. (a % m) \in Nat /\ (a % m) < m /\ (a % m) <= a
        BY <1>2, ModIs
      <3> QED
        BY <1>2, <2>1, <3>1 DEF Stepped
    <2>3. ASSUME NEW y \in Int, y <= x PROVE Stepped(y, b, m) <= Stepped(x, b, m)
      <3>1. CASE y <= b
        BY <2>1, <2>2, <3>1 DEF Stepped
      <3>2. CASE y > b
        <4>1. PICK k \in Nat : k = y - b
          BY <3>2
        <4>2. k - (k % m) <= a - (a % m) /\ (k % m) \in Nat
          BY <2>1, <2>2, <2>3, <4>1, DivGrows, DivIs
        <4>3. Stepped(y, b, m) = y - (k % m)
          BY <1>2, <3>2, <4>1 DEF Stepped
        <4> QED
          BY <2>1, <2>2, <4>1, <4>2, <4>3
      <3> QED
        BY <3>1, <3>2
    <2>4. ASSUME NEW y \in Int, Stepped(x, b, m) <= y, y <= x
          PROVE  Stepped(y, b, m) = Stepped(x, b, m)
      <3>1. PICK k \in Nat : k = y - b
        BY <2>1, <2>2, <2>4
      <3>2. a - (a % m) <= k /\ k <= a
        BY <2>1, <2>2, <2>4, <3>1
      <3>3. k - (k % m) = a - (a % m)
        BY <2>2, <3>2, ModBetween
      <3>4. (k % m) \in Nat /\ (k = 0 => (k % m) = 0)
        BY <2>2, ModIs
      <3>5. Stepped(y, b, m) = y - (k % m)
        <4>1. CASE y > b
          BY <1>2, <3>1, <4>1 DEF Stepped
        <4>2. CASE ~(y > b)
          <5>1. k = 0 /\ (k % m) = 0
            BY <3>1, <3>4, <4>2
          <5>2. Stepped(y, b, m) = y
            BY <4>2 DEF Stepped
          <5> QED
            BY <5>1, <5>2
        <4> QED
          BY <4>1, <4>2
      <3> QED
        BY <2>1, <2>2, <3>1, <3>3, <3>4, <3>5
    <2> QED
      BY <1>2, <2>1, <2>2, <2>3, <2>4
  <1> QED
    BY <1>1, <1>2

\* What a fitted size is: bounded, no further under the least than a step, and
\* given again when it, or less, is asked for.
Rests(f, lo, hi, b, m) ==
    /\ f \in Int
    /\ hi # 0 => f <= hi
    /\ lo <= hi \/ hi = 0 => f + m >= lo /\ (m # 0 => f + m > lo)
    /\ Fit(f, lo, hi, b, m) = f
    /\ \A y \in Int : y <= f => Fit(y, lo, hi, b, m) <= f

LEMMA FitIs ==
    ASSUME NEW x \in Int, NEW lo \in Int, NEW hi \in Int, NEW b \in Int, NEW m \in Nat
    PROVE  Rests(Fit(x, lo, hi, b, m), lo, hi, b, m)
  <1>0. PICK f : f = Fit(x, lo, hi, b, m)
    OBVIOUS
  <1>1. PICK c \in Int : c = Capped(x, lo, hi)
    BY CappedIs
  <1>2. f = Stepped(c, b, m)
    BY <1>0, <1>1 DEF Fit
  <1>3. f \in Int /\ f <= c /\ f + m >= c /\ (m # 0 => f + m > c)
    BY <1>2, SteppedIs
  <1>4. (hi # 0 => c <= hi) /\ (lo <= hi \/ hi = 0 => c >= lo)
    BY <1>1, CappedIs
  <1>5. PICK d \in Int : d = Capped(f, lo, hi)
    BY <1>3, CappedIs
  <1>6. f <= d /\ d <= c
    BY <1>1, <1>3, <1>5, CappedIs
  <1>7. Stepped(d, b, m) = f
    BY <1>2, <1>6, SteppedIs
  <1>8. Fit(f, lo, hi, b, m) = f
    BY <1>5, <1>7 DEF Fit
  <1>9. ASSUME NEW y \in Int, y <= f PROVE Fit(y, lo, hi, b, m) <= f
    <2>1. PICK e \in Int : e = Capped(y, lo, hi)
      BY CappedIs
    <2>2. e <= d
      BY <1>3, <1>5, <1>9, <2>1, CappedIs
    <2>3. Stepped(e, b, m) <= Stepped(d, b, m)
      BY <2>2, SteppedIs
    <2> QED
      BY <1>7, <2>1, <2>3 DEF Fit
  <1>10. Rests(f, lo, hi, b, m)
    BY <1>3, <1>4, <1>8, <1>9 DEF Rests
  <1> QED
    BY <1>0, <1>10

\* A part that is less than a whole is rounded to the whole at most.
LEMMA Rounds ==
    ASSUME NEW x \in Nat, NEW y \in Nat, NEW p \in Nat, NEW q \in Nat, x * p < y * q
    PROVE  /\ ((2 * x * p + q) \div (2 * q)) \in Int
           /\ ((2 * x * p + q) \div (2 * q)) <= y
  <1>1. q # 0
    <2>1. x * p \in Nat
      OBVIOUS
    <2> QED
      BY <2>1
  <1>2. PICK a \in Nat : a = 2 * x * p + q
    OBVIOUS
  <1>3. PICK m \in Nat \ {0} : m = 2 * q
    BY <1>1
  <1>4. PICK d \in Nat : d = a \div m
    BY DivIs
  <1>5. m * d <= a /\ m * d \in Nat
    <2>1. a = m * d + (a % m) /\ (a % m) \in Nat /\ m * d \in Nat
      BY <1>4, DivIs
    <2> QED
      BY <2>1
  <1>6. a < m * y + m
    <2>1. 2 * x * p = 2 * (x * p) /\ (2 * q) * y = 2 * (y * q)
      OBVIOUS
    <2>2. x * p \in Nat /\ y * q \in Nat
      OBVIOUS
    <2> QED
      BY <1>1, <1>2, <1>3, <2>1, <2>2
  <1>7. d <= y
    <2> SUFFICES ASSUME y + 1 <= d PROVE FALSE
      OBVIOUS
    <2>1. m * (y + 1) <= m * d
      BY TimesGrows
    <2>2. m * (y + 1) = m * y + m /\ m * y \in Nat
      OBVIOUS
    <2> QED
      BY <1>5, <1>6, <2>1, <2>2
  <1> QED
    BY <1>2, <1>3, <1>4, <1>7

HintType == [base : Int \X Int, min : Int \X Int, max : Int \X Int, inc : Nat \X Nat,
             aspect : (Nat \X Nat) \X (Nat \X Nat)]
Increment(n) == IF hints.inc[1] # 0 /\ hints.inc[2] # 0 THEN hints.inc[n] ELSE 0
FitOn(n, x)  == Fit(x, MinOf[n], hints.max[n], BaseOf[n], Increment(n))

LEMMA HintsAre ==
    ASSUME hints \in HintType
    PROVE  \A n \in {1, 2} : /\ MinOf[n] \in Int /\ BaseOf[n] \in Int /\ hints.max[n] \in Int
                             /\ Increment(n) \in Nat /\ Increment(n) \in {0, hints.inc[n]}
                             /\ hints.inc[n] \in Nat
  BY DEF HintType, MinOf, BaseOf, Increment, None

LEMMA HintsFit ==
    ASSUME hints \in HintType, NEW s \in Int \X Int
    PROVE  InSteps(InBounds(s)) = <<FitOn(1, s[1]), FitOn(2, s[2])>>
  <1>1. PICK c \in Int \X Int : c = InBounds(s)
    BY HintsAre DEF InBounds, Big, Small
  <1>2. c[1] = Capped(s[1], MinOf[1], hints.max[1]) /\ c[2] = Capped(s[2], MinOf[2], hints.max[2])
    BY <1>1 DEF InBounds, Capped
  <1>3. InSteps(c) = <<Stepped(c[1], BaseOf[1], Increment(1)), Stepped(c[2], BaseOf[2], Increment(2))>>
    BY <1>1, HintsAre DEF InSteps, Stepped, Increment, Minus
  <1> QED
    BY <1>1, <1>2, <1>3 DEF FitOn, Fit

LEMMA FitOnIs ==
    ASSUME hints \in HintType, NEW n \in {1, 2}, NEW x \in Int, NEW f, f = FitOn(n, x)
    PROVE  /\ f \in Int
           /\ hints.max[n] # 0 => f <= hints.max[n]
           /\ MinOf[n] <= hints.max[n] \/ hints.max[n] = 0 => f + Big(hints.inc[n] - 1, 0) >= MinOf[n]
           /\ FitOn(n, f) = f
           /\ \A y \in Int : y <= f => FitOn(n, y) <= f
  <1>1. PICK lo \in Int : lo = MinOf[n]
    BY HintsAre
  <1>2. PICK hi \in Int : hi = hints.max[n]
    BY HintsAre
  <1>3. PICK b \in Int : b = BaseOf[n]
    BY HintsAre
  <1>4. PICK m \in Nat : m = Increment(n)
    BY HintsAre
  <1>5. f = Fit(x, lo, hi, b, m)
    BY <1>1, <1>2, <1>3, <1>4 DEF FitOn
  <1>6. /\ f \in Int
        /\ hi # 0 => f <= hi
        /\ lo <= hi \/ hi = 0 => f + m >= lo /\ (m # 0 => f + m > lo)
        /\ Fit(f, lo, hi, b, m) = f
        /\ \A y \in Int : y <= f => Fit(y, lo, hi, b, m) <= f
    <2>1. Rests(f, lo, hi, b, m)
      BY <1>5, FitIs
    <2> QED
      BY <2>1 DEF Rests
  <1>7. MinOf[n] <= hints.max[n] \/ hints.max[n] = 0 => f + Big(hints.inc[n] - 1, 0) >= MinOf[n]
    BY <1>1, <1>2, <1>4, <1>6, HintsAre DEF Big
  <1>8. \A y : FitOn(n, y) = Fit(y, lo, hi, b, m)
    BY <1>1, <1>2, <1>3, <1>4 DEF FitOn
  <1> QED
    BY <1>1, <1>2, <1>6, <1>7, <1>8

\* An aspect takes from one of the two.
LEMMA AspectShrinks ==
    ASSUME hints \in HintType, NEW s \in Int \X Int
    PROVE  /\ InAspect(s) \in Int \X Int
           /\ InAspect(s)[1] <= s[1] /\ InAspect(s)[2] <= s[2]
           /\ hints.aspect = <<None, None>> => InAspect(s) = s
  <1>0. hints.base \in Int \X Int
    BY DEF HintType
  <1>1. PICK d \in Int \X Int : d = Minus(s, hints.base)
    <2>1. PICK b \in Int \X Int : b = hints.base
      BY <1>0
    <2>2. <<s[1] - b[1], s[2] - b[2]>> \in Int \X Int
      OBVIOUS
    <2> QED
      BY <2>1, <2>2 DEF Minus
  <1>2. s[1] = d[1] + hints.base[1] /\ s[2] = d[2] + hints.base[2] /\ hints.base \in Int \X Int
    BY <1>0, <1>1 DEF Minus
  <1>3. PICK lo \in Nat \X Nat : lo = hints.aspect[1]
    BY DEF HintType
  <1>4. PICK hi \in Nat \X Nat : hi = hints.aspect[2]
    BY DEF HintType
  <1>5. InAspect(s) =
           IF hints.aspect = <<None, None>> \/ d[1] <= 0 \/ d[2] <= 0 THEN s
           ELSE IF d[1] * lo[2] < d[2] * lo[1] THEN <<s[1], Over(d[1], lo) + hints.base[2]>>
           ELSE IF d[1] * hi[2] > d[2] * hi[1] THEN <<Times(d[2], hi) + hints.base[1], s[2]>>
           ELSE s
    BY <1>1, <1>3, <1>4 DEF InAspect
  <1>6. CASE /\ ~(hints.aspect = <<None, None>> \/ d[1] <= 0 \/ d[2] <= 0)
             /\ d[1] * lo[2] < d[2] * lo[1]
    <2>1. Over(d[1], lo) \in Int /\ Over(d[1], lo) <= d[2]
      BY <1>6, Rounds DEF Over
    <2>2. InAspect(s) = <<s[1], Over(d[1], lo) + hints.base[2]>>
      BY <1>5, <1>6
    <2> QED
      BY <1>2, <1>6, <2>1, <2>2
  <1>7. CASE /\ ~(hints.aspect = <<None, None>> \/ d[1] <= 0 \/ d[2] <= 0)
             /\ ~(d[1] * lo[2] < d[2] * lo[1]) /\ d[1] * hi[2] > d[2] * hi[1]
    <2>0. d[2] * hi[1] < d[1] * hi[2] /\ d[1] \in Nat /\ d[2] \in Nat /\ hi[1] \in Nat /\ hi[2] \in Nat
      BY <1>7
    <2>1. Times(d[2], hi) \in Int /\ Times(d[2], hi) <= d[1]
      <3>1. /\ ((2 * d[2] * hi[1] + hi[2]) \div (2 * hi[2])) \in Int
            /\ ((2 * d[2] * hi[1] + hi[2]) \div (2 * hi[2])) <= d[1]
        BY <2>0, Rounds
      <3> QED
        BY <3>1 DEF Times
    <2>2. InAspect(s) = <<Times(d[2], hi) + hints.base[1], s[2]>>
      BY <1>5, <1>7
    <2> QED
      BY <1>2, <1>7, <2>1, <2>2
  <1>8. CASE InAspect(s) = s
    BY <1>8
  <1> QED
    BY <1>5, <1>6, <1>7, <1>8

SizeInv ==
    /\ geom \in Int \X Int /\ bars \in Nat \X Nat /\ hints \in HintType
    /\ ratio \in Ratio \cup {None} /\ full \in BOOLEAN /\ fitted \in BOOLEAN
    /\ BarsFit
    /\ fitted => /\ ~full /\ ratio = None
                 /\ \E s \in Int \X Int : Content = InSteps(InBounds(s))

LEMMA RatioTyped ==
    ASSUME ratio \in Ratio \cup {None}, NEW s \in Int \X Int
    PROVE  InRatio(s) \in Int \X Int /\ (ratio = None => InRatio(s) = s)
  <1>1. CASE ratio = None
    BY <1>1 DEF InRatio
  <1>2. CASE ratio # None
    <2>1. PICK p \in Nat \ {0} : p = ratio[1]
      BY <1>2, SizeAssumption
    <2>2. PICK q \in Nat \ {0} : q = ratio[2]
      BY <1>2, SizeAssumption
    <2>3. ASSUME s[1] > 0, s[2] > 0 PROVE Times(s[2], ratio) \in Int /\ Over(s[1], ratio) \in Int
      <3>1. PICK a \in Nat : a = 2 * s[2] * p + q
        BY <2>3
      <3>2. PICK c \in Nat : c = 2 * s[1] * q + p
        BY <2>3
      <3>3. (a \div (2 * q)) \in Int /\ (c \div (2 * p)) \in Int
        BY DivIs
      <3> QED
        BY <2>1, <2>2, <3>1, <3>2, <3>3 DEF Times, Over
    <2>4. InRatio(s) \in {s, <<Times(s[2], ratio), s[2]>>, <<s[1], Over(s[1], ratio)>>}
          /\ (~(s[1] > 0 /\ s[2] > 0) => InRatio(s) = s)
      BY DEF InRatio
    <2> QED
      BY <1>2, <2>3, <2>4
  <1> QED
    BY <1>1, <1>2

\* What is asked for, with its hints.
LEMMA HintsApplied ==
    ASSUME SizeInv, NEW s \in Int \X Int
    PROVE  /\ client_apply_size_hints(s) \in Int \X Int
           /\ ~full => \E t \in Int \X Int :
                 Minus(client_apply_size_hints(s), bars) = InSteps(InBounds(t))
  <1>1. CASE full
    BY <1>1 DEF client_apply_size_hints
  <1>2. CASE ~full
    <2>1. PICK b \in Nat \X Nat : b = bars
      BY DEF SizeInv
    <2>2. <<s[1] - b[1], s[2] - b[2]>> \in Int \X Int
      OBVIOUS
    <2>3. Minus(s, bars) \in Int \X Int
      BY <2>1, <2>2 DEF Minus
    <2>4. PICK t \in Int \X Int : t = InAspect(Minus(s, bars))
      BY <2>3, AspectShrinks DEF SizeInv
    <2>5. PICK v : v = InSteps(InBounds(t))
      OBVIOUS
    <2>6. v \in Int \X Int
      <3>1. v = <<FitOn(1, t[1]), FitOn(2, t[2])>>
        BY <2>5, HintsFit DEF SizeInv
      <3>2. FitOn(1, t[1]) \in Int /\ FitOn(2, t[2]) \in Int
        BY FitOnIs DEF SizeInv
      <3> QED
        BY <3>1, <3>2
    <2>7. client_apply_size_hints(s) = Plus(v, b)
      BY <1>2, <2>1, <2>4, <2>5 DEF client_apply_size_hints
    <2>8. Plus(v, b) \in Int \X Int /\ Minus(Plus(v, b), b) = v
      BY <2>6 DEF Plus, Minus
    <2> QED
      BY <2>1, <2>4, <2>5, <2>7, <2>8
  <1> QED
    BY <1>1, <1>2

LEMMA Grants ==
    ASSUME SizeInv, NEW s \in Int \X Int, NEW honor \in BOOLEAN, NEW g, g = Granted(s, honor)
    PROVE  /\ g \in Int \X Int /\ Holds(g, bars)
           /\ g # geom /\ honor /\ ~full /\ ratio = None
              => \E t \in Int \X Int : Minus(g, bars) = InSteps(InBounds(t))
  <1>1. PICK e \in Int \X Int : e = IF honor THEN client_apply_size_hints(s) ELSE s
    BY HintsApplied
  <1>2. PICK a \in Int \X Int : a = InRatio(e)
    BY RatioTyped DEF SizeInv
  <1>3. g = IF (honor /\ ~Holds(s, bars)) \/ ~Holds(a, bars) \/ a[1] = 0 \/ a[2] = 0
            THEN geom ELSE a
    BY <1>1, <1>2 DEF Granted
  <1>4. ratio = None => a = e
    BY <1>2, RatioTyped DEF SizeInv
  <1>5. ASSUME g # geom, honor, ~full, ratio = None
        PROVE  \E t \in Int \X Int : Minus(g, bars) = InSteps(InBounds(t))
    <2>1. g = client_apply_size_hints(s)
      BY <1>1, <1>3, <1>4, <1>5
    <2> QED
      BY <1>5, <2>1, HintsApplied
  <1> QED
    BY <1>3, <1>5 DEF SizeInv, BarsFit

LEMMA SizeResizes ==
    ASSUME SizeInv, NEW s \in Int \X Int, NEW honor \in BOOLEAN, client_resize(s, honor)
    PROVE  SizeInv'
  <1>1. PICK a \in Int \X Int : a = IF client_isfixed(honor) THEN geom ELSE s
    BY DEF SizeInv
  <1>2. /\ geom' = Granted(a, honor)
        /\ fitted' = IF geom' = geom THEN fitted ELSE honor /\ ~full /\ ratio = None
        /\ bars' = bars /\ hints' = hints /\ ratio' = ratio /\ full' = full
    BY <1>1 DEF client_resize
  <1>3. /\ geom' \in Int \X Int /\ Holds(geom', bars)
        /\ geom' # geom /\ honor /\ ~full /\ ratio = None
           => \E t \in Int \X Int : Minus(geom', bars) = InSteps(InBounds(t))
    BY <1>2, Grants
  <1>4. fitted' \in BOOLEAN
    BY <1>2 DEF SizeInv
  <1>5. \A t : InSteps(InBounds(t))' = InSteps(InBounds(t))
    BY <1>2 DEF InSteps, InBounds, BaseOf, MinOf
  <1>6. fitted' => \E t \in Int \X Int : Minus(geom', bars) = InSteps(InBounds(t))
    BY <1>2, <1>3 DEF SizeInv, Content
  <1>7. fitted' => ~full /\ ratio = None
    BY <1>2 DEF SizeInv
  <1>8. fitted' => \E t \in Int \X Int : Content' = InSteps(InBounds(t))'
    BY <1>2, <1>5, <1>6 DEF Content
  <1> QED
    BY <1>2, <1>3, <1>4, <1>7, <1>8 DEF SizeInv, BarsFit

\* The other actions.  A bar leaves the content as it is; what else changes the
\* hints, the ratio or the state is no longer a size that was fitted.
LEMMA OtherSizes ==
    ASSUME SizeInv, ~Clamps,
           \/ \E b \in Bar \X Bar : titlebar_resize(b)
           \/ resize \/ property_update_xwayland_properties \/ set_aspect_ratio \/ set_fullscreen
    PROVE  SizeInv'
  <1>0. PICK b0 \in Nat \X Nat : b0 = bars
    BY DEF SizeInv
  <1>1. ASSUME NEW b \in Bar \X Bar, titlebar_resize(b) PROVE SizeInv'
    <2>1. /\ geom' = Plus(geom, Minus(b, b0)) /\ bars' = b
          /\ hints' = hints /\ ratio' = ratio /\ full' = full /\ fitted' = fitted
      BY <1>0, <1>1 DEF titlebar_resize
    <2>2. b \in Nat \X Nat
      BY SizeAssumption
    <2>3. geom \in Int \X Int /\ geom[1] >= b0[1] /\ geom[2] >= b0[2]
      BY <1>0 DEF SizeInv, BarsFit, Holds
    <2>4. geom' \in Int \X Int /\ Holds(geom', b) /\ Minus(geom', b) = Minus(geom, b0)
      BY <2>1, <2>2, <2>3 DEF Plus, Minus, Holds
    <2>5. Content' = Content
      BY <1>0, <2>1, <2>4 DEF Content
    <2>6. \A t : InSteps(InBounds(t))' = InSteps(InBounds(t))
      BY <2>1 DEF InSteps, InBounds, BaseOf, MinOf
    <2>7. fitted => \E t \in Int \X Int : Content = InSteps(InBounds(t))
      BY DEF SizeInv
    <2>8. fitted' => \E t \in Int \X Int : Content' = InSteps(InBounds(t))'
      BY <2>1, <2>5, <2>6, <2>7
    <2> QED
      BY <2>1, <2>2, <2>4, <2>8 DEF SizeInv, BarsFit
  <1>2. ASSUME resize PROVE SizeInv'
    <2>1. PICK h \in Nat \X Nat : h = <<b0[1] + 1, b0[2] + 1>>
      <3>1. <<b0[1] + 1, b0[2] + 1>> \in Nat \X Nat
        OBVIOUS
      <3> QED
        BY <3>1
    <2>2. Plus(bars, <<1, 1>>) = h
      BY <1>0, <2>1 DEF Plus
    <2>3. PICK e \in Int \X Int : e = <<Big(geom[1], h[1]), Big(geom[2], h[2])>>
      <3>1. geom[1] \in Int /\ geom[2] \in Int
        BY DEF SizeInv
      <3>2. Big(geom[1], h[1]) \in Int /\ Big(geom[2], h[2]) \in Int
        BY <3>1 DEF Big
      <3> QED
        BY <3>2
    <2>4. geom' = e
      BY <1>2, <2>2, <2>3, RatioTyped DEF resize, SizeInv
    <2>5. e[1] >= h[1] /\ e[2] >= h[2]
      BY <2>3 DEF SizeInv, Big
    <2>6. /\ bars' = bars /\ hints' = hints /\ ratio' = ratio /\ full' = full
          /\ fitted' = (fitted /\ geom' = geom)
      BY <1>2 DEF resize
    <2>7. Holds(geom', bars)
      BY <1>0, <2>1, <2>4, <2>5 DEF Holds
    <2>8. \A t : InSteps(InBounds(t))' = InSteps(InBounds(t))
      BY <2>6 DEF InSteps, InBounds, BaseOf, MinOf
    <2>9. fitted => \E t \in Int \X Int : Content = InSteps(InBounds(t))
      BY DEF SizeInv
    <2>10. fitted' => \E t \in Int \X Int : Content' = InSteps(InBounds(t))'
      BY <2>6, <2>8, <2>9 DEF Content
    <2> QED
      BY <2>4, <2>6, <2>7, <2>10 DEF SizeInv, BarsFit
  <1>3. ASSUME property_update_xwayland_properties PROVE SizeInv'
    BY <1>3, SizeAssumption DEF property_update_xwayland_properties, SizeInv, BarsFit, HintType
  <1>4. ASSUME set_aspect_ratio PROVE SizeInv'
    BY <1>4 DEF set_aspect_ratio, SizeInv, BarsFit
  <1>5. ASSUME set_fullscreen PROVE SizeInv'
    <2>1. PICK s \in Extent \X Extent : geom' = IF Holds(s, Plus(bars, <<1, 1>>)) THEN s ELSE geom
      BY <1>5 DEF set_fullscreen
    <2>2. s \in Int \X Int
      BY SizeAssumption
    <2>3. Holds(s, Plus(bars, <<1, 1>>)) => Holds(s, bars)
      BY <1>0, <2>2 DEF Holds, Plus
    <2>4. geom' \in Int \X Int /\ Holds(geom', bars)
      BY <2>1, <2>2, <2>3 DEF SizeInv, BarsFit
    <2> QED
      BY <1>5, <2>4 DEF set_fullscreen, SizeInv, BarsFit
  <1> QED
    BY <1>1, <1>2, <1>3, <1>4, <1>5

LEMMA HintedFits ==
    ASSUME SizeInv
    PROVE  FittedIsHinted /\ AskingAgainSettles
  <1> SUFFICES ASSUME fitted PROVE FittedIsHinted /\ AskingAgainSettles
    BY DEF FittedIsHinted, AskingAgainSettles
  <1>1. PICK s \in Int \X Int : Content = InSteps(InBounds(s))
    BY DEF SizeInv
  <1>2. Content = <<FitOn(1, s[1]), FitOn(2, s[2])>>
    BY <1>1, HintsFit DEF SizeInv
  <1>3. PICK c \in Int \X Int : c = Content /\ c[1] = FitOn(1, s[1]) /\ c[2] = FitOn(2, s[2])
    <2>1. FitOn(1, s[1]) \in Int /\ FitOn(2, s[2]) \in Int
      BY FitOnIs DEF SizeInv
    <2> QED
      BY <1>2, <2>1
  <1>4. FittedIsHinted
    <2>1. ASSUME NEW n \in {1, 2}
          PROVE  /\ hints.max[n] # 0 => c[n] <= hints.max[n]
                 /\ MinOf[n] <= hints.max[n] \/ hints.max[n] = 0
                    => c[n] + Big(hints.inc[n] - 1, 0) >= MinOf[n]
      <3>1. c[n] = FitOn(n, s[n]) /\ s[n] \in Int
        BY <1>3
      <3> QED
        BY <3>1, FitOnIs DEF SizeInv
    <2> QED
      BY <1>3, <2>1 DEF FittedIsHinted
  <1>5. PICK b \in Nat \X Nat : b = bars
    BY DEF SizeInv
  <1>6. geom \in Int \X Int /\ c[1] = geom[1] - b[1] /\ c[2] = geom[2] - b[2]
    BY <1>3, <1>5 DEF SizeInv, Content, Minus
  <1>7. PICK a \in Int \X Int : a = InAspect(c)
    BY AspectShrinks DEF SizeInv
  <1>8. /\ a[1] <= c[1] /\ a[2] <= c[2]
        /\ hints.aspect = <<None, None>> => a = c
    BY <1>7, AspectShrinks DEF SizeInv
  <1>9. PICK v \in Int \X Int : v = InSteps(InBounds(a)) /\ v[1] = FitOn(1, a[1]) /\ v[2] = FitOn(2, a[2])
    <2>1. FitOn(1, a[1]) \in Int /\ FitOn(2, a[2]) \in Int
      BY FitOnIs DEF SizeInv
    <2> QED
      BY <2>1, HintsFit DEF SizeInv
  <1>10. /\ v[1] <= c[1] /\ v[2] <= c[2]
         /\ a = c => v[1] = c[1] /\ v[2] = c[2]
    BY <1>3, <1>8, <1>9, FitOnIs DEF SizeInv
  <1>11. PICK e \in Int \X Int : e = <<v[1] + b[1], v[2] + b[2]>>
    <2>1. <<v[1] + b[1], v[2] + b[2]>> \in Int \X Int
      OBVIOUS
    <2> QED
      BY <2>1
  <1>12. client_apply_size_hints(geom) = e
    <2>1. Minus(geom, bars) = c
      BY <1>3 DEF Content
    <2> QED
      BY <1>5, <1>7, <1>9, <1>11, <2>1 DEF client_apply_size_hints, Plus, SizeInv
  <1>13. e[1] <= geom[1] /\ e[2] <= geom[2] /\ (a = c => e = geom)
    BY <1>6, <1>10, <1>11
  <1>14. InRatio(e) = e
    BY RatioTyped DEF SizeInv
  <1>15. Granted(geom, TRUE) \in {e, geom}
    BY <1>12, <1>14 DEF Granted
  <1>16. Holds(geom, Granted(geom, TRUE))
    <2>1. Holds(geom, e) /\ Holds(geom, geom)
      BY <1>6, <1>13 DEF Holds
    <2> QED
      BY <1>15, <2>1
  <1>17. hints.aspect = <<None, None>> => Granted(geom, TRUE) = geom
    BY <1>8, <1>13, <1>15
  <1> QED
    BY <1>4, <1>16, <1>17 DEF AskingAgainSettles

(* If a window with a fixed ratio does not commit by itself, then whatever is *)
(* asked, hinted and decorated: the frame holds its title bars, and a window  *)
(* that was fitted to its hints is in them and keeps its size when it asks    *)
(* for it (client.c, window.c).                                               *)
THEOREM SizesSettle ==
    ~Clamps => (SizeSpec => [](BarsFit /\ FittedIsHinted /\ AskingAgainSettles))
  <1>1. SizeInit => SizeInv
    <2> SUFFICES ASSUME SizeInit PROVE SizeInv
      OBVIOUS
    <2>1. hints \in HintType
      BY DEF SizeInit, HintType, NoHints, None
    <2>2. geom = <<1, 1>> /\ bars = <<0, 0>> /\ ratio = None /\ full = FALSE /\ fitted = FALSE
      BY DEF SizeInit
    <2>3. <<1, 1>> \in Int \X Int /\ <<0, 0>> \in Nat \X Nat /\ Holds(<<1, 1>>, <<0, 0>>)
      BY DEF Holds
    <2> QED
      BY <2>1, <2>2, <2>3 DEF SizeInv, BarsFit
  <1>2. SizeInv /\ ~Clamps /\ [SizeNext]_sizeVars => SizeInv'
    <2> SUFFICES ASSUME SizeInv, ~Clamps, [SizeNext]_sizeVars PROVE SizeInv'
      OBVIOUS
    <2>1. ASSUME NEW s \in Extent \X Extent, NEW honor \in BOOLEAN, client_resize(s, honor)
          PROVE  SizeInv'
      <3>1. s \in Int \X Int
        BY SizeAssumption
      <3> QED
        BY <2>1, <3>1, SizeResizes
    <2>2. CASE \/ \E b \in Bar \X Bar : titlebar_resize(b)
               \/ resize \/ property_update_xwayland_properties \/ set_aspect_ratio \/ set_fullscreen
      BY <2>2, OtherSizes
    <2>3. CASE UNCHANGED sizeVars
      <3>1. /\ geom' = geom /\ bars' = bars /\ hints' = hints /\ ratio' = ratio
            /\ full' = full /\ fitted' = fitted
        BY <2>3 DEF sizeVars
      <3>2. \A t : InSteps(InBounds(t))' = InSteps(InBounds(t))
        BY <3>1 DEF InSteps, InBounds, BaseOf, MinOf
      <3>3. fitted => \E t \in Int \X Int : Content = InSteps(InBounds(t))
        BY DEF SizeInv
      <3>4. fitted' => \E t \in Int \X Int : Content' = InSteps(InBounds(t))'
        BY <3>1, <3>2, <3>3 DEF Content
      <3> QED
        BY <3>1, <3>4 DEF SizeInv, BarsFit
    <2> QED
      BY <2>1, <2>2, <2>3 DEF SizeNext
  <1>3. SizeInv => BarsFit /\ FittedIsHinted /\ AskingAgainSettles
    BY HintedFits DEF SizeInv
  <1> QED
    <2>1. ASSUME ~Clamps PROVE SizeInv /\ [SizeNext]_sizeVars => SizeInv'
      BY <1>2, <2>1
    <2>2. ASSUME ~Clamps PROVE SizeSpec => [](BarsFit /\ FittedIsHinted /\ AskingAgainSettles)
      BY <1>1, <1>3, <2>1, <2>2, PTL DEF SizeSpec
    <2> QED
      BY <2>2
=============================================================================
