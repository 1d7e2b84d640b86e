-------------------------------- MODULE Focus --------------------------------
(***************************************************************************)
(* Who has the keyboard: focus.c, banning.c, and the focus half of         *)
(* objects/client.c, somewm_api.c, protocols.c and window.c.               *)
(*                                                                         *)
(* Two records are kept of it, the focused client that Lua sees and the    *)
(* surface the seat sends keys to, and the code changes them at different  *)
(* times.  A client that loses the focus leaves the seat alone and asks    *)
(* for client_focus_refresh(); a layer surface, or an X11 popup that wants *)
(* the focus, holds the seat while Lua still focuses clients.              *)
(*                                                                         *)
(* A client stands for its surface too.  Every layer surface is on the top *)
(* or overlay layer and asks for the keyboard.  The session is never       *)
(* locked; of the stack focustop() searches only the set of clients is     *)
(* kept, so any of them may be its top.  Lua's handlers inside a call are  *)
(* followed where the call reads what they did; what else they do is a     *)
(* step after it.                                                          *)
(***************************************************************************)
EXTENDS Integers, Sequences

CONSTANTS
    Toplevel,       \* clients of xdg toplevels
    XWindow,        \* clients of managed XWayland windows
    Override,       \* override-redirect windows that want focus
    LayerOrder,     \* the layer surfaces, as layer_keyboard_focus() visits them
    None,           \* no client, no surface
    LuaFocusesAny   \* whether Lua focuses clients that are not visible

Layer == {LayerOrder[i] : i \in DOMAIN LayerOrder}
Managed == Toplevel \cup XWindow
Client == Managed \cup Override
Surface == Client \cup Layer

ASSUME KindsDiffer ==
    /\ Toplevel \cap XWindow = {} /\ Managed \cap Override = {} /\ Client \cap Layer = {}
    /\ None \notin Surface
    /\ LuaFocusesAny \in BOOLEAN

VARIABLES
    listed,     \* the clients in globalconf.clients: those Lua may name
    withdrawn,  \* the X11 clients that an unmap took out of it
    mapped,     \* the surfaces that are mapped
    tagged,     \* the clients on the selected tags
    minimized,  \* the clients minimized or hidden
    banned,     \* the clients with isbanned set
    lazy,       \* need_lazy_banning
    fs,         \* who has the focus, see Focus below
    granted,    \* the layer surfaces whose object has has_keyboard_focus set
    grab,       \* whether a mousegrabber runs
    deferred    \* deferred_focus_pending

windows == <<listed, withdrawn, tagged, minimized, banned>>
vars == <<windows, mapped, lazy, fs, granted, grab, deferred>>

\* client, need_update: globalconf.focus's; keyboard: the seat's focused
\* surface; exclusive: exclusive_focus.
Focus == [client : Client \cup {None}, need_update : BOOLEAN,
          keyboard : Surface \cup {None}, exclusive : Surface \cup {None}]

Init ==
    /\ listed = {} /\ withdrawn = {} /\ mapped = {}
    /\ tagged = {} /\ minimized = {} /\ banned = {}
    /\ lazy = FALSE
    /\ fs = [client |-> None, need_update |-> FALSE, keyboard |-> None, exclusive |-> None]
    /\ granted = {}
    /\ grab = FALSE /\ deferred = FALSE

-----------------------------------------------------------------------------
(* The functions that move the focus, from one record f to the next.  m is *)
(* the set of surfaces mapped when they run, v that of visible clients.    *)

Visible(tags, min) == tags \ min

\* A mapped overlay, or an exclusive window, keeps the keyboard.
Held(f, m) == f.keyboard \in (Layer \cap m) \cup (Override \cap {f.exclusive})

focusclient(f, c, m) ==
    IF (c # None /\ f.keyboard = c) \/ Held(f, m) THEN f
    ELSE [f EXCEPT !.client = c, !.need_update = TRUE,
                   !.keyboard = IF c = None THEN @ ELSE c]

\* Mutant of client_unfocus: the refresh that clears the seat is not asked for.
client_unfocus_quiet(f) == [f EXCEPT !.client = None]

client_unfocus(f) == [f EXCEPT !.client = None, !.need_update = TRUE]

some_set_seat_keyboard_focus(f, c, m) ==
    IF c \notin m THEN [f EXCEPT !.keyboard = None]
    ELSE IF Held(f, m) THEN f
    ELSE [f EXCEPT !.keyboard = c]

client_focus(f, c, m) ==
    some_set_seat_keyboard_focus(
        [f EXCEPT !.client = c, !.need_update = @ \/ f.client # c], c, m)

(* Every listed client that is not visible loses the focus now, though it  *)
(* is banned later; not while the user drags it.                           *)
banning_need_update(f, l, v) ==
    IF f.client \in l \ v /\ ~grab THEN client_unfocus(f) ELSE f

LuaMayFocus(l, v) == IF LuaFocusesAny THEN l ELSE l \cap v

focustop(t, m) == IF t \cap m = {} THEN {None} ELSE t \cap m

(* Lua handles request::focus_restore or leaves the focus as it is; with   *)
(* none it goes to the top client on the selected tags.                    *)
focus_restore(f, m) ==
    LET v == Visible(tagged, minimized)
        handled == {f} \cup {client_focus(f, c, m) : c \in LuaMayFocus(listed, v)}
    IN  {g \in handled : g.client # None} \cup
        {focusclient(g, c, m) : g \in {h \in handled : h.client = None}, c \in focustop(tagged, m)}

layer_surface_grant_keyboard(f, l, m) ==
    [focusclient(f, None, m) EXCEPT !.exclusive = l, !.keyboard = l]

(* layer_keyboard_focus() asks Lua for one mapped surface after the other  *)
(* until one has the keyboard: the surfaces it may end at, None for the    *)
(* end of the list.                                                        *)
Asked(m) ==
    LET turn == {i \in DOMAIN LayerOrder : LayerOrder[i] \in m}
        before(i) == {LayerOrder[j] : j \in {k \in turn : k < i}}
    IN  {LayerOrder[i] : i \in {j \in turn : before(j) \cap granted = {}}}
            \cup (IF m \cap granted = {} THEN {None} ELSE {})

layer_keyboard_focus(f, l, m) ==
    IF l \in granted \cup {None} THEN f ELSE layer_surface_grant_keyboard(f, l, m)

-----------------------------------------------------------------------------
(* Clients come and go.                                                    *)

\* A client is listed before it is mapped, and stays so while its surface is.
Create(c) ==
    /\ c \notin listed \cup withdrawn
    /\ fs.keyboard # c
    /\ listed' = listed \cup {c}
    /\ UNCHANGED <<withdrawn, mapped, tagged, minimized, banned, lazy, fs, granted, grab, deferred>>

\* mapnotify(): the client that Lua focused before it was mapped has the keyboard now.
Redeliver(f, c) == IF f.client = c THEN [f EXCEPT !.keyboard = c] ELSE f

\* Lua may tag the client and focus it in request::manage.
Map(c) ==
    /\ c \in Managed \ mapped
    /\ c \in listed \cup withdrawn
    /\ mapped' = mapped \cup {c}
    /\ listed' = listed \cup {c}
    /\ withdrawn' = withdrawn \ {c}
    /\ \E tag \in BOOLEAN :
          /\ tagged' = IF tag THEN tagged \cup {c} ELSE tagged
          /\ lazy' = (lazy \/ tag)
          /\ LET v == Visible(tagged', minimized)
                 f == IF tag THEN banning_need_update(fs, listed', v) ELSE fs
             IN  \/ fs' = Redeliver(f, c)
                 \/ /\ c \in LuaMayFocus(listed', v)
                    /\ fs' = Redeliver(client_focus(f, c, mapped'), c)
    /\ UNCHANGED <<minimized, banned, granted, grab, deferred>>

MapOverride(c) ==
    /\ c \in (Override \cap listed) \ mapped
    /\ mapped' = mapped \cup {c}
    /\ fs' = [focusclient(fs, c, mapped') EXCEPT !.exclusive = c]
    /\ UNCHANGED <<windows, lazy, granted, grab, deferred>>

\* Mutant of client_unmanage: the focus is left for request::unmanage to move.
client_unmanage_focused(f, c, untag) ==
    IF untag THEN banning_need_update(f, listed \ {c}, Visible(tagged, minimized)) ELSE f

(* client_unmanage(): c is unfocused, unlisted and untagged.  A client on  *)
(* tags that are not selected is untagged too.                             *)
client_unmanage(f, c, untag) ==
    LET g == IF f.client = c THEN client_unfocus(f) ELSE f
    IN  IF untag THEN banning_need_update(g, listed \ {c}, Visible(tagged, minimized)) ELSE g

\* unmapnotify(): the seat is cleared of the surface if it is the focused client's.
SeatCleared(f, c) ==
    IF f.client = c /\ f.keyboard = c THEN [f EXCEPT !.keyboard = None] ELSE f

\* Mutant of Unmap: a toplevel keeps its object, as an X11 window does.
UnmapKeepsObject(c) ==
    /\ c \in Managed \cap mapped
    /\ mapped' = mapped \ {c}
    /\ fs' = client_unmanage(SeatCleared(fs, c), c, TRUE)
    /\ lazy' = TRUE
    /\ tagged' = tagged \ {c}
    /\ listed' = listed \ {c} /\ withdrawn' = withdrawn \cup {c}
    /\ UNCHANGED <<minimized, banned, granted, grab, deferred>>

\* An X11 window keeps its object; a toplevel has a fresh one at once.
Unmap(c) ==
    /\ c \in Managed \cap mapped
    /\ mapped' = mapped \ {c}
    /\ \E untag \in BOOLEAN :
          /\ c \in tagged => untag
          /\ fs' = client_unmanage(SeatCleared(fs, c), c, untag)
          /\ lazy' = (lazy \/ untag)
    /\ tagged' = tagged \ {c}
    /\ IF c \in XWindow
       THEN /\ listed' = listed \ {c} /\ withdrawn' = withdrawn \cup {c}
            /\ UNCHANGED <<minimized, banned>>
       ELSE /\ minimized' = minimized \ {c} /\ banned' = banned \ {c}
            /\ UNCHANGED <<listed, withdrawn>>
    /\ UNCHANGED <<granted, grab, deferred>>

\* Mutant of UnmapOverride: exclusive_focus is reset with the focused client only.
UnmapFocusedOverride(c) ==
    /\ c \in Override \cap mapped
    /\ mapped' = mapped \ {c}
    /\ LET f == SeatCleared(fs, c)
       IN  IF f.client = c
           THEN fs' \in focus_restore([client_unfocus(f) EXCEPT !.exclusive = None], mapped')
           ELSE fs' = f
    /\ UNCHANGED <<windows, lazy, granted, grab, deferred>>

UnmapOverride(c) ==
    /\ c \in Override \cap mapped
    /\ mapped' = mapped \ {c}
    /\ LET f == SeatCleared(fs, c)
           g == IF f.client = c THEN client_unfocus(f) ELSE f
       IN  IF g.exclusive = c
           THEN fs' \in focus_restore([g EXCEPT !.exclusive = None], mapped')
           ELSE fs' = g
    /\ UNCHANGED <<windows, lazy, granted, grab, deferred>>

Destroy(c) ==
    /\ c \in (listed \cup withdrawn) \ mapped
    /\ listed' = listed \ {c}
    /\ withdrawn' = withdrawn \ {c}
    /\ tagged' = tagged \ {c}
    /\ minimized' = minimized \ {c}
    /\ banned' = banned \ {c}
    /\ \E untag \in BOOLEAN :
          /\ (c \in tagged => untag) /\ (untag => c \in listed)
          /\ fs' = IF c \in listed THEN client_unmanage(fs, c, untag) ELSE fs
          /\ lazy' = (lazy \/ untag)
    /\ UNCHANGED <<mapped, granted, grab, deferred>>

\* wlroots clears the seat when its surface goes; that of a toplevel goes after it.
SurfaceGone(s) ==
    /\ s \in Surface \ (mapped \cup (Toplevel \cap listed))
    /\ fs.keyboard = s
    /\ fs' = [fs EXCEPT !.keyboard = None]
    /\ UNCHANGED <<windows, mapped, lazy, granted, grab, deferred>>

-----------------------------------------------------------------------------
(* What Lua does with them: client.focus, c.minimized, tags.               *)

LuaFocus(c) ==
    /\ c \in LuaMayFocus(listed, Visible(tagged, minimized))
    /\ fs' = client_focus(fs, c, mapped)
    /\ UNCHANGED <<windows, mapped, lazy, granted, grab, deferred>>

LuaUnfocus ==
    /\ fs.client # None
    /\ fs' = client_unfocus(fs)
    /\ UNCHANGED <<windows, mapped, lazy, granted, grab, deferred>>

client_set_minimized(c) ==
    /\ c \in listed \cap Managed
    /\ minimized' = IF c \in minimized THEN minimized \ {c} ELSE minimized \cup {c}
    /\ lazy' = TRUE
    /\ fs' = banning_need_update(fs, listed, Visible(tagged, minimized'))
    /\ UNCHANGED <<listed, withdrawn, mapped, tagged, banned, granted, grab, deferred>>

Retag ==
    /\ tagged' \in SUBSET (listed \cap Managed)
    /\ tagged' # tagged
    /\ lazy' = TRUE
    /\ fs' = banning_need_update(fs, listed, Visible(tagged', minimized))
    /\ UNCHANGED <<listed, withdrawn, mapped, minimized, banned, granted, grab, deferred>>

-----------------------------------------------------------------------------
(* Layer surfaces.                                                         *)

\* The first commit with a buffer maps the surface; each commit asks Lua again.
commitlayersurfacenotify(l) ==
    /\ mapped' = mapped \cup {l}
    /\ \E k \in Asked(mapped') :
          /\ fs' = layer_keyboard_focus(fs, k, mapped')
          /\ granted' = granted \cup ({k} \ {None})
    /\ UNCHANGED <<windows, lazy, grab, deferred>>

\* During a grab the focus is not restored before the grab's end.
unmaplayersurfacenotify(l) ==
    /\ l \in Layer \cap mapped
    /\ mapped' = mapped \ {l}
    /\ \E k \in Asked(mapped') :
          LET had == fs.exclusive = l
              f == IF had THEN [fs EXCEPT !.exclusive = None] ELSE fs
              g == layer_keyboard_focus(f, k, mapped')
          IN  /\ granted' = (granted \cup ({k} \ {None})) \ {l}
              /\ deferred' = (deferred \/ (had /\ grab))
              /\ IF had /\ ~grab THEN fs' \in focus_restore(g, mapped') ELSE fs' = g
    /\ UNCHANGED <<windows, lazy, grab>>

\* A click on the surface, or Lua setting has_keyboard_focus.
Grant(l) ==
    /\ l \in Layer \cap mapped
    /\ granted' = granted \cup {l}
    /\ fs' = layer_surface_grant_keyboard(fs, l, mapped)
    /\ UNCHANGED <<windows, mapped, lazy, grab, deferred>>

Revoke(l) ==
    /\ l \in granted
    /\ granted' = granted \ {l}
    /\ IF fs.exclusive = l
       THEN \E c \in focustop(tagged, mapped) :
               fs' = focusclient([fs EXCEPT !.exclusive = None, !.keyboard = None], c, mapped)
       ELSE fs' = fs
    /\ UNCHANGED <<windows, mapped, lazy, grab, deferred>>

-----------------------------------------------------------------------------
(* Grabs, outputs, drags, and the refresh.                                 *)

GrabStart ==
    /\ ~grab
    /\ grab' = TRUE
    /\ UNCHANGED <<windows, mapped, lazy, fs, granted, deferred>>

\* mousegrabber_release_focus(), once the grab is over.
GrabStop ==
    /\ grab
    /\ grab' = FALSE
    /\ deferred' = FALSE
    /\ LET f == IF fs.client \notin Visible(tagged, minimized) \cup {None}
                THEN client_unfocus(fs) ELSE fs
       IN  IF deferred THEN fs' \in focus_restore(f, mapped) ELSE fs' = f
    /\ UNCHANGED <<windows, mapped, lazy, granted>>

OutputsChange ==
    /\ fs' \in focus_restore(fs, mapped)
    /\ UNCHANGED <<windows, mapped, lazy, granted, grab, deferred>>

destroydrag ==
    /\ \E c \in focustop(tagged, mapped) : fs' = focusclient(fs, c, mapped)
    /\ UNCHANGED <<windows, mapped, lazy, granted, grab, deferred>>

client_focus_refresh(f) ==
    IF ~f.need_update THEN f
    ELSE [f EXCEPT !.need_update = FALSE,
                   !.keyboard = IF f.client = None /\ f.exclusive = None THEN None ELSE @]

\* client_unban() and client_ban() need the scene that mapnotify() creates.
ToUnban == banned \cap Visible(tagged, minimized) \cap mapped
ToBan == (listed \cap mapped) \ (Visible(tagged, minimized) \cup banned)

banning_refresh(f, unbanned, newly_banned) ==
    LET g == IF f.client \in unbanned THEN [f EXCEPT !.need_update = TRUE] ELSE f
    IN  IF g.client \in newly_banned /\ ~grab THEN client_unfocus(g) ELSE g

\* client_focus_refresh() first, then the banning: what that unfocuses waits.
some_refresh ==
    /\ fs.need_update \/ lazy
    /\ lazy' = FALSE
    /\ LET f == client_focus_refresh(fs)
       IN  IF lazy
           THEN /\ banned' = (banned \ ToUnban) \cup ToBan
                /\ fs' = banning_refresh(f, ToUnban, ToBan)
           ELSE banned' = banned /\ fs' = f
    /\ UNCHANGED <<listed, withdrawn, mapped, tagged, minimized, granted, grab, deferred>>

Next ==
    \/ \E c \in Client : Create(c) \/ Map(c) \/ MapOverride(c) \/ Unmap(c)
                            \/ UnmapOverride(c) \/ Destroy(c)
    \/ \E c \in Client : LuaFocus(c) \/ client_set_minimized(c)
    \/ LuaUnfocus \/ Retag
    \/ \E l \in Layer : commitlayersurfacenotify(l) \/ unmaplayersurfacenotify(l)
                            \/ Grant(l) \/ Revoke(l)
    \/ \E s \in Surface : SurfaceGone(s)
    \/ GrabStart \/ GrabStop \/ OutputsChange \/ destroydrag
    \/ some_refresh

Spec == Init /\ [][Next]_vars

-----------------------------------------------------------------------------
(* Properties.                                                             *)

\* Every record of the focus names a window of the right kind: only X11
\* clients outlive their unmap, and only a client is ever focused.
TypeOK ==
    /\ listed \subseteq Client /\ withdrawn \subseteq XWindow
    /\ mapped \subseteq Surface
    /\ tagged \subseteq Managed /\ minimized \subseteq Managed /\ banned \subseteq Client
    /\ lazy \in BOOLEAN
    /\ fs \in Focus
    /\ granted \subseteq Layer
    /\ grab \in BOOLEAN /\ deferred \in BOOLEAN

\* globalconf.focus.client is a plain pointer: it must never outlive the
\* client's place in globalconf.clients, whatever unlisted it.
FocusIsListed == fs.client # None => fs.client \in listed

\* exclusive_focus is a plain pointer too, of a window or of a layer surface:
\* it is reset by the time the surface it names is unmapped, or no client
\* could be given the keyboard again.
ExclusiveIsMapped == fs.exclusive # None => fs.exclusive \in mapped

(* The seat sends keys to the client that Lua sees focused, or to nobody   *)
(* until that client is mapped; with no focused client the refresh that    *)
(* clears the seat is due.                                                 *)
Agrees(f, m) ==
    IF f.client # None
    THEN f.keyboard = (IF f.client \in m THEN f.client ELSE None)
    ELSE f.keyboard # None => f.need_update

Overlaid(f) == f.exclusive # None \/ f.keyboard \in Layer

\* No step of the clients, tags, grabs, outputs or the refresh makes the two
\* records of the focus differ: only overlays and exclusive windows do.
OnlyOverlaysDisturb ==
    [][~Overlaid(fs) /\ ~Overlaid(fs') /\ Agrees(fs, mapped) => Agrees(fs', mapped')]_vars

\* Where there are neither, the two never differ.
SeatAgrees == Agrees(fs, mapped)

\* window.c:2064-2067: the seat is cleared on unmap so that focusclient()
\* never deactivates a surface that is gone.
GoneHasNoKey == fs.keyboard \in Toplevel => fs.keyboard \in mapped

\* somewm_api.c:249-253: "A mapped top-layer layer-shell surface ... owns the
\* seat until it relinquishes focus".
OverlayKeeps == fs.exclusive \in Layer => fs.keyboard = fs.exclusive
=============================================================================
