------------------------------- MODULE Screens -------------------------------
(* Outputs and screens: monitor.c (the Monitor structs, plugged, unplugged,   *)
(* disabled, put to sleep), objects/screen.c (the screens Lua sees, one for   *)
(* each enabled monitor and the fake ones a configuration adds), and what     *)
(* both do to the windows that stand on them.                                 *)
(*                                                                            *)
(* The layout is a line: monitor m covers the points 2m-1 and 2m, a fake      *)
(* screen covers one point, a window stands at one point and is mapped.  A    *)
(* screen is a number, given out in order of creation and never again, so a   *)
(* pointer to a removed screen stays recognisable.  Signal handlers do not    *)
(* reconfigure outputs from inside updatemons().                              *)
EXTENDS Integers, FiniteSets, Sequences, SequencesExt

CONSTANTS Monitor,     \* connectors, numbers from 1
          Window,      \* clients
          Fakes,       \* does the configuration use screen.fake_add()?
          MaxScreens   \* how many screens are made in all

ASSUME MonitorAssumption ==
    IsFiniteSet(Monitor) /\ Monitor # {} /\ Monitor = 1..Cardinality(Monitor)
ASSUME MaxScreensAssumption == MaxScreens \in Nat

NoOutput == 0   \* a NULL Monitor
NoScreen == 0   \* a NULL screen_t

VARIABLE desk   \* the whole of it: updatemons() rewrites most fields at once

Area(m) == {2 * m - 1, 2 * m}
Point   == UNION {Area(m) : m \in Monitor}

(* desk.mons     the list mons, newest first      desk.sel     selmon         *)
(* desk.lit      wlr_output->enabled              desk.asleep  m->asleep      *)
(* desk.laid     in the output layout             desk.fresh   needs_screen_added *)
(* desk.screens  screen_refs                                                  *)
(* desk.host, area, index, told: of every screen ever made, its monitor, its  *)
(* geometry, its index field, and how often it was announced with "_added".   *)
(* desk.win      of every window, c->mon, c->screen and where it stands       *)
DeskTypeOK ==
    /\ desk.mons \in Seq(Monitor) /\ IsInjective(desk.mons)
    /\ desk.sel \in Monitor \cup {NoOutput}
    /\ \A f \in {"lit", "asleep", "laid", "fresh"} : desk[f] \subseteq Monitor
    /\ desk.host \in Seq(Monitor \cup {NoOutput}) /\ Len(desk.host) <= MaxScreens
    /\ \A f \in {"area", "index", "told"} : Len(desk[f]) = Len(desk.host)
    /\ desk.screens \in Seq(DOMAIN desk.host) /\ IsInjective(desk.screens)
    /\ desk.win \in [Window -> [mon : Monitor \cup {NoOutput},
                                scr : (DOMAIN desk.host) \cup {NoScreen}, at : Point]]

Listed(d) == ToSet(d.screens)

-----------------------------------------------------------------------------
(* Look-ups.                                                                  *)

\* The first entry of s that is in T.
FirstIn(s, T) ==
    IF T \cap ToSet(s) = {} THEN 0
    ELSE s[CHOOSE i \in DOMAIN s : s[i] \in T /\ \A j \in 1..(i - 1) : s[j] \notin T]

\* s without its entry x: what is behind moves up.
Without(s, x) ==
    LET i == CHOOSE i \in DOMAIN s : s[i] = x
    IN  [k \in 1..(Len(s) - 1) |-> IF k < i THEN s[k] ELSE s[k + 1]]

screen_get_by_monitor(d, m) ==
    IF m = NoOutput THEN NoScreen ELSE FirstIn(d.screens, {s \in Listed(d) : d.host[s] = m})

\* Four times the distance from p to the middle of screen s.
Away(d, s, p) ==
    LET mid == IF Cardinality(d.area[s]) = 1 THEN 4 * (CHOOSE x \in d.area[s] : TRUE)
               ELSE 2 * (LET x == CHOOSE y \in d.area[s] : y % 2 = 0 IN 2 * x - 1)
        gap == 4 * p - mid
    IN IF gap < 0 THEN -gap ELSE gap

screen_getbycoord(d, p) ==
    LET inside == FirstIn(d.screens, {s \in Listed(d) : p \in d.area[s]})
    IN IF inside # NoScreen THEN inside
       ELSE FirstIn(d.screens,
                    {s \in Listed(d) : \A t \in Listed(d) : Away(d, s, p) <= Away(d, t, p)})

\* A screen without a monitor belongs to the first monitor it overlaps.
monitor_get_by_screen(d, s) ==
    LET own == FirstIn(d.mons, {m \in ToSet(d.mons) : screen_get_by_monitor(d, m) = s})
    IN IF own # NoOutput THEN own
       ELSE FirstIn(d.mons, {m \in d.laid : d.area[s] \cap Area(m) # {}})

-----------------------------------------------------------------------------
(* Moving windows.  A move changes what is kept of the one window, w, and     *)
(* reads of the rest what no move changes: the loops over all clients are     *)
(* maps.                                                                      *)

screen_client_moveto(d, w, s) ==
    LET m == IF s = NoScreen THEN NoOutput ELSE monitor_get_by_screen(d, s)
    IN IF s = w.scr THEN w
       ELSE [w EXCEPT !.scr = s, !.mon = IF m = NoOutput THEN @ ELSE m]

\* setmon() ends in resize(), whose bounds bring the window onto the monitor.
setmon(d, w, m) ==
    IF w.mon = m THEN w
    ELSE [w EXCEPT !.mon = m,
                   !.scr = screen_get_by_monitor(d, m),
                   !.at  = IF m = NoOutput \/ @ \in Area(m) THEN @
                           ELSE IF @ < 2 * m THEN 2 * m - 1 ELSE 2 * m]

Rehomed(d, w) == screen_client_moveto(d, w, screen_getbycoord(d, w.at))

-----------------------------------------------------------------------------
(* Screens made and removed.                                                  *)

screen_new(d, m, box, i) ==
    [d EXCEPT !.screens = Append(@, Len(d.host) + 1), !.host = Append(@, m),
              !.area = Append(@, box), !.index = Append(@, i), !.told = Append(@, 0)]

screen_added(d, s) == [d EXCEPT !.told[s] = @ + 1]

\* The windows are moved while the screen is still listed and valid.
screen_removed(d, s) ==
    IF s \notin Listed(d) THEN d
    ELSE LET rest == Without(d.screens, s)
         IN [d EXCEPT
               !.win     = [c \in Window |-> IF @[c].scr = s THEN Rehomed(d, @[c]) ELSE @[c]],
               !.host[s] = NoOutput,
               !.screens = rest,
               !.index   = [t \in DOMAIN @ |->
                  IF \E i \in DOMAIN rest : rest[i] = t /\ d.screens[i] # t
                  THEN CHOOSE i \in DOMAIN rest : rest[i] = t ELSE @[t]]]

-----------------------------------------------------------------------------
(* Monitors.                                                                  *)

\* Of the windows in cs those on monitor m go to monitor n.
HandOn(d, cs, m, n) ==
    [d EXCEPT !.win = [c \in Window |-> IF c \in cs /\ @[c].mon = m THEN setmon(d, @[c], n)
                                        ELSE @[c]]]

NextSelected(d, m) ==
    IF d.mons = <<>> THEN NoOutput
    ELSE IF d.sel # m THEN d.sel
    ELSE FirstIn(d.mons, (ToSet(d.mons) \cap d.lit) \ {m})

\* Mutant: only an output that is selected hands its windows on.
closemon_selected(d, m) ==
    LET sel == NextSelected(d, m)
    IN HandOn([d EXCEPT !.sel = sel], IF d.sel = m THEN Window ELSE {}, m, sel)

closemon(d, m) ==
    LET sel == NextSelected(d, m) IN HandOn([d EXCEPT !.sel = sel], Window, m, sel)

DropDisabled(d, m) ==
    IF m \in d.lit \cup d.asleep \/ m \notin d.laid THEN d
    ELSE closemon([screen_removed(d, screen_get_by_monitor(d, m)) EXCEPT !.laid = @ \ {m}], m)

EnsureScreen(d, m) ==
    LET hosted == {n \in ToSet(d.mons) \ {m} : screen_get_by_monitor(d, n) # NoScreen}
        e == IF screen_get_by_monitor(d, m) # NoScreen THEN d
             ELSE [screen_new(d, m, Area(m), 1 + Cardinality(hosted)) EXCEPT !.fresh = @ \cup {m}]
    IN IF m \notin d.lit THEN d ELSE [e EXCEPT !.sel = IF @ = NoOutput THEN m ELSE @]

Announce(d, m) ==
    LET s == screen_get_by_monitor(d, m)
        e == [d EXCEPT !.fresh = @ \ {m}]
    IN IF m \notin d.fresh \cap d.lit THEN d ELSE IF s = NoScreen THEN e ELSE screen_added(e, s)

AdoptOrphans(d) ==
    IF d.sel \notin d.lit THEN d ELSE HandOn(d, Window, NoOutput, d.sel)

\* The loops over the list of monitors.
Loop == {"disable", "geometry", "added"}
Round(loop, d, m) ==
    CASE loop = "disable"  -> DropDisabled(d, m)
      [] loop = "geometry" -> EnsureScreen(d, m)
      [] loop = "added"    -> Announce(d, m)
ForEach(loop, d) ==
    LET after[n \in 0..Len(d.mons)] ==
            IF n = 0 THEN d ELSE Round(loop, after[n - 1], d.mons[n])
    IN after[Len(d.mons)]

\* Disabled outputs leave, enabled ones join and get screens, the screens are
\* announced, and only then do orphaned windows arrive.
updatemons(d) ==
    LET left   == ForEach("disable", d)
        joined == [left EXCEPT !.laid = @ \cup (ToSet(d.mons) \cap d.lit)]
    IN AdoptOrphans(ForEach("added", ForEach("geometry", joined)))

-----------------------------------------------------------------------------
(* Actions.  Becomes also caps how many screens a behaviour makes.            *)

Becomes(d) == Len(d.host) <= MaxScreens /\ desk' = d

createmon(m) ==
    /\ m \notin ToSet(desk.mons)
    /\ LET d == [desk EXCEPT !.mons = <<m>> \o @, !.lit = @ \cup {m}]
           e == screen_new(d, m, Area(m), Len(desk.mons) + 1)
       IN Becomes(updatemons([e EXCEPT !.fresh = @ \cup {m}, !.laid = @ \cup {m}]))

cleanupmon(m) ==
    /\ m \in ToSet(desk.mons)
    /\ LET d == screen_removed(desk, screen_get_by_monitor(desk, m))
           e == closemon([d EXCEPT !.mons = Without(@, m), !.laid = @ \ {m}, !.lit = @ \ {m},
                                   !.asleep = @ \ {m}, !.fresh = @ \ {m}], m)
       IN Becomes(IF m \in desk.laid THEN updatemons(e) ELSE e)

\* A client of the output management protocol names every head.  A test run
\* commits nothing, but clears the sleep of the heads and updates all the same.
outputmgrapplyortest(want, test) ==
    /\ desk.mons # <<>>
    /\ want \subseteq ToSet(desk.mons)
    /\ Becomes(updatemons([desk EXCEPT !.asleep = {}, !.lit = IF test THEN @ ELSE want]))

powermgrsetmode(m, on) ==
    /\ m \in ToSet(desk.mons)
    /\ Becomes(updatemons(IF on THEN [desk EXCEPT !.lit = @ \cup {m}, !.asleep = @ \ {m}]
                          ELSE [desk EXCEPT !.lit = @ \ {m}, !.asleep = @ \cup {m}]))

output_set_enabled(m, on) ==
    /\ m \in ToSet(desk.mons)
    /\ Becomes(updatemons([desk EXCEPT !.lit = IF on THEN @ \cup {m} ELSE @ \ {m}]))

\* Neither of these two calls updatemons().
dpms_off == Becomes([desk EXCEPT !.asleep = ToSet(desk.mons), !.lit = desk.lit \ (ToSet(desk.mons) \ desk.asleep)])
dpms_wake_all_monitors == Becomes([desk EXCEPT !.asleep = {}, !.lit = @ \cup desk.asleep])

\* The pointer enters a monitor.
SelectMonitor(m) == m \in desk.laid /\ Becomes([desk EXCEPT !.sel = m])

screen_fake_add(p) ==
    /\ Fakes
    /\ LET d == screen_added(screen_new(desk, NoOutput, {p}, Len(desk.screens) + 1), Len(desk.host) + 1)
       IN Becomes([d EXCEPT !.win = [c \in Window |-> Rehomed(d, @[c])]])

screen_fake_remove(s) == s \in Listed(desk) /\ desk.host[s] = NoOutput /\ Becomes(screen_removed(desk, s))

screen_swap(i, j) ==
    /\ i < j
    /\ LET s == desk.screens[i]  t == desk.screens[j]
       IN Becomes([desk EXCEPT !.screens[i] = t, !.screens[j] = s, !.index[s] = j, !.index[t] = i])

\* c:geometry{}: a window that leaves its screen joins the one it lands on.
client_resize_do(c, p) ==
    LET w == [desk.win[c] EXCEPT !.at = p]
        s == IF w.scr # NoScreen /\ p \in desk.area[w.scr] THEN w.scr
             ELSE screen_getbycoord(desk, p)
    IN Becomes([desk EXCEPT !.win[c] = screen_client_moveto(desk, w, s)])

\* c.screen = s brings the window along.
client_set_screen(c, s) ==
    /\ s \in Listed(desk) /\ s # desk.win[c].scr
    /\ \E p \in desk.area[s] :
          Becomes([desk EXCEPT !.win[c] = screen_client_moveto(desk, [@ EXCEPT !.at = p], s)])

\* Hot reload: the screens are made again from snapshots and the windows find
\* theirs by position; one whose screen is not listed gets the first.
ReplayScreens ==
    LET Found(w) == [w EXCEPT !.scr = IF desk.screens = <<>> THEN NoScreen
                                      ELSE IF w.scr \in Listed(desk) THEN w.scr
                                      ELSE desk.screens[1]]
    IN Becomes([desk EXCEPT !.win = [c \in Window |-> Found(@[c])]])

ScreenInit ==
    desk = [mons |-> <<>>, sel |-> NoOutput, lit |-> {}, asleep |-> {}, laid |-> {},
            fresh |-> {}, screens |-> <<>>, host |-> <<>>,
            area |-> <<>>, index |-> <<>>, told |-> <<>>,
            win |-> [c \in Window |-> [mon |-> NoOutput, scr |-> NoScreen, at |-> 1]]]

ScreenNext ==
    \/ \E m \in Monitor : createmon(m) \/ cleanupmon(m) \/ SelectMonitor(m)
    \/ \E want \in SUBSET Monitor, test \in BOOLEAN : outputmgrapplyortest(want, test)
    \/ \E m \in Monitor, on \in BOOLEAN : powermgrsetmode(m, on) \/ output_set_enabled(m, on)
    \/ dpms_off \/ dpms_wake_all_monitors \/ ReplayScreens
    \/ \E p \in Point : screen_fake_add(p)
    \/ \E s \in DOMAIN desk.host : screen_fake_remove(s)
    \/ \E i, j \in DOMAIN desk.screens : screen_swap(i, j)
    \/ \E c \in Window, p \in Point : client_resize_do(c, p)
    \/ \E c \in Window, s \in DOMAIN desk.host : client_set_screen(c, s)

ScreenSpec == ScreenInit /\ [][ScreenNext]_desk

-----------------------------------------------------------------------------
(* Properties.                                                                *)

(* An output in the layout that is on, or only asleep, has exactly one screen *)
(* and it was announced to Lua exactly once; an output outside has none.      *)
OneScreenEach ==
    \A m \in ToSet(desk.mons) :
        LET mine == {s \in Listed(desk) : desk.host[s] = m}
        IN IF m \in desk.laid
           THEN Cardinality(mine) = 1 /\ \A s \in mine : desk.told[s] = 1
           ELSE mine = {}

(* No window keeps the Monitor struct of an output that was unplugged, which  *)
(* cleanupmon() frees; nor does selmon.                                       *)
MonitorsAreLive == \A m \in {desk.sel} \cup {desk.win[c].mon : c \in Window} :
                       m \in ToSet(desk.mons) \cup {NoOutput}

(* A window stands on a screen that is still there.                           *)
WindowsOnLiveScreens == \A c \in Window : desk.win[c].scr \in Listed(desk) \cup {NoScreen}

(* Walking the screens (for s in screen) asks for the screen after index i,   *)
(* so an index that is not the place in the list skips screens or never ends. *)
IndexIsPlace == \A i \in DOMAIN desk.screens : desk.index[desk.screens[i]] = i
=============================================================================
