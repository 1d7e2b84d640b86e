-------------------------------- MODULE Geometry --------------------------------
(* The size of one floating window (objects/client.c, window.c): a request is  *)
(* fitted to the window's ICCCM size hints, to the aspect ratio a              *)
(* configuration may fix, and to the title bars its frame must hold; a title   *)
(* bar that comes or goes leaves the content its size.                         *)
(*                                                                             *)
(* A size is <<width, height>>; bars is what the title bars take of each.      *)
(* Ratios are numerator and denominator; the code's doubles plus 0.5,          *)
(* truncated, are rounded here exactly.                                        *)
EXTENDS Integers

CONSTANTS Extent,  \* widths and heights that are asked for
          Bar,     \* what title bars take of one of them
          Hint,    \* the size hints the window may set
          Ratio,   \* the aspect ratios a configuration may fix
          Clamps   \* whether a window with a fixed ratio may commit as well

\* Sizes that are asked for are not negative; nor are increments, aspects, ratios.
ASSUME SizeAssumption ==
    /\ Extent \cup Bar \subseteq Nat
    /\ Hint \subseteq [base : Int \X Int, min : Int \X Int, max : Int \X Int, inc : Nat \X Nat,
                      aspect : (Nat \X Nat) \X (Nat \X Nat)]
    /\ Ratio \subseteq (Nat \ {0}) \X (Nat \ {0})

None == <<0, 0>>    \* no ratio, or a hint that is not set
NoHints == [base |-> None, min |-> None, max |-> None, inc |-> None, aspect |-> <<None, None>>]

VARIABLES
    geom,     \* c->geometry
    bars,     \* c->titlebar[]: left and right, top and bottom
    hints,    \* c->size_hints: base, min, max, inc and aspect, a pair of ratios
    ratio,    \* c->aspect_ratio
    full,     \* c->fullscreen
    fitted    \* whether geom is what a request with honored hints was given
sizeVars == <<geom, bars, hints, ratio, full, fitted>>

Big(a, b)   == IF a > b THEN a ELSE b
Small(a, b) == IF a < b THEN a ELSE b
Plus(s, t)  == <<s[1] + t[1], s[2] + t[2]>>
Minus(s, t) == <<s[1] - t[1], s[2] - t[2]>>
Holds(s, t) == s[1] >= t[1] /\ s[2] >= t[2]

-----------------------------------------------------------------------------
(* client_apply_size_hints(), of the content                                   *)

(* A hint that is not set leaves its place to the other.                       *)
BaseOf == IF hints.base # None THEN hints.base ELSE hints.min
MinOf  == IF hints.min # None THEN hints.min ELSE hints.base

(* x / (num / den) + 1/2 and x * (num / den) + 1/2, truncated                  *)
Over(x, r)  == (2 * x * r[2] + r[1]) \div (2 * r[1])
Times(x, r) == (2 * x * r[1] + r[2]) \div (2 * r[2])

(* Narrower than the least aspect: less high; wider than the most: less wide.  *)
InAspect(s) ==
    LET d  == Minus(s, hints.base)
        lo == hints.aspect[1]  hi == hints.aspect[2]
    IN IF hints.aspect = <<None, None>> \/ d[1] <= 0 \/ d[2] <= 0 THEN s
       ELSE IF d[1] * lo[2] < d[2] * lo[1] THEN <<s[1], Over(d[1], lo) + hints.base[2]>>
       ELSE IF d[1] * hi[2] > d[2] * hi[1] THEN <<Times(d[2], hi) + hints.base[1], s[2]>>
       ELSE s

InBounds(s) ==
    LET capped(n) == IF hints.max[n] # 0 THEN Small(Big(s[n], MinOf[n]), hints.max[n])
                     ELSE Big(s[n], MinOf[n])
    IN <<capped(1), capped(2)>>

(* Whole increments above the base; unsigned_subtract() stops at zero.         *)
InSteps(s) ==
    LET less(n) == IF s[n] > BaseOf[n] THEN (s[n] - BaseOf[n]) % hints.inc[n] ELSE 0
    IN IF hints.inc[1] # 0 /\ hints.inc[2] # 0 THEN Minus(s, <<less(1), less(2)>>) ELSE s

client_apply_size_hints(s) ==
    IF full THEN s ELSE Plus(InSteps(InBounds(InAspect(Minus(s, bars)))), bars)

(* The configuration's ratio, of the whole frame, with its tolerance of 1.5    *)
(* pixels.                                                                     *)
InRatio(s) ==
    LET off == 2 * (s[1] * ratio[2] - s[2] * ratio[1])
    IN IF ratio = None \/ full \/ s[1] <= 0 \/ s[2] <= 0 THEN s
       ELSE IF off > 3 * ratio[2] THEN <<Times(s[2], ratio), s[2]>>
       ELSE IF -off > 3 * ratio[2] THEN <<s[1], Over(s[1], ratio)>>
       ELSE s

(* Mutant: hints and ratio may take what the bars need. *)
Granted_unchecked(s, honor) ==
    LET asked == InRatio(IF honor THEN client_apply_size_hints(s) ELSE s)
    IN IF asked[1] <= 0 \/ asked[2] <= 0 THEN geom ELSE asked

(* What client_resize() makes of a request; refused, the window keeps its size *)
Granted(s, honor) ==
    LET asked == InRatio(IF honor THEN client_apply_size_hints(s) ELSE s)
    IN IF (honor /\ ~Holds(s, bars)) \/ ~Holds(asked, bars) \/ asked[1] = 0 \/ asked[2] = 0
       THEN geom ELSE asked

-----------------------------------------------------------------------------
(* luaA_client_geometry(); the sizes of a fixed window are not read.           *)
client_isfixed(honor) == honor /\ hints.max = hints.min /\ hints.max[1] # 0 /\ hints.max[2] # 0
client_resize(s, honor) ==
    LET asked == IF client_isfixed(honor) THEN geom ELSE s
    IN /\ geom' = Granted(asked, honor)
       /\ fitted' = IF geom' = geom THEN fitted
                    ELSE honor /\ ~full /\ ratio = None
       /\ UNCHANGED <<bars, hints, ratio, full>>

(* A bar changes by as much as the frame does.                                 *)
titlebar_resize(b) ==
    /\ b # bars
    /\ geom' = Plus(geom, Minus(b, bars)) /\ bars' = b
    /\ UNCHANGED <<hints, ratio, full, fitted>>

(* resize(), of a commit: applybounds() leaves room for the bars and a pixel.  *)
resize ==
    /\ Clamps \/ ratio = None
    /\ LET held == Plus(bars, <<1, 1>>)
       IN geom' = InRatio(<<Big(geom[1], held[1]), Big(geom[2], held[2])>>)
    /\ fitted' = (fitted /\ geom' = geom)
    /\ UNCHANGED <<bars, hints, ratio, full>>

(* The window, or the configuration, sets other hints, a ratio, fullscreen.    *)
property_update_xwayland_properties ==
    /\ hints' \in Hint \ {hints} /\ fitted' = FALSE
    /\ UNCHANGED <<geom, bars, ratio, full>>
set_aspect_ratio ==
    /\ ratio' \in (Ratio \cup {None}) \ {ratio} /\ fitted' = FALSE
    /\ UNCHANGED <<geom, bars, hints, full>>
set_fullscreen ==
    /\ full' = ~full /\ fitted' = FALSE
    /\ \E s \in Extent \X Extent : geom' = (IF Holds(s, Plus(bars, <<1, 1>>)) THEN s ELSE geom)
    /\ UNCHANGED <<bars, hints, ratio>>

SizeInit ==
    /\ bars = <<0, 0>> /\ hints = NoHints /\ ratio = None /\ full = FALSE
    /\ geom = <<1, 1>> /\ fitted = FALSE

SizeNext ==
    \/ \E s \in Extent \X Extent, honor \in BOOLEAN : client_resize(s, honor)
    \/ \E b \in Bar \X Bar : titlebar_resize(b)
    \/ resize \/ property_update_xwayland_properties \/ set_aspect_ratio \/ set_fullscreen

SizeSpec == SizeInit /\ [][SizeNext]_sizeVars

-----------------------------------------------------------------------------
SizeTypeOK ==
    /\ geom \in Nat \X Nat /\ bars \in Bar \X Bar /\ hints \in Hint
    /\ ratio \in Ratio \cup {None} /\ full \in BOOLEAN /\ fitted \in BOOLEAN

(* The frame holds its title bars, whatever was asked of it.                   *)
BarsFit == Holds(geom, bars)

Content == Minus(geom, bars)

(* A window that was fitted to its hints is in them, whatever its bars did     *)
(* since: no larger than its maximum, and at most one increment under its      *)
(* minimum, for increments are taken after the bounds.                         *)
FittedIsHinted ==
    fitted => \A n \in {1, 2} :
        /\ hints.max[n] # 0 => Content[n] <= hints.max[n]
        /\ MinOf[n] <= hints.max[n] \/ hints.max[n] = 0 => Content[n] + Big(hints.inc[n] - 1, 0) >= MinOf[n]

(* Asking for the size it was given changes nothing, so handlers that answer a *)
(* change of geometry with the same geometry come to rest; with an aspect it   *)
(* may shrink, never grow.                                                     *)
AskingAgainSettles ==
    fitted => /\ Holds(geom, Granted(geom, TRUE))
              /\ hints.aspect = <<None, None>> => Granted(geom, TRUE) = geom
=============================================================================
