----------------------------- MODULE Focus_proofs -----------------------------
(***************************************************************************)
(* What Focus.tla promises, for every set of clients and layer surfaces.   *)
(*                                                                         *)
(* FocusIsListed needs that a tagged client is listed, since focustop()    *)
(* searches the tags; ExclusiveIsMapped that only windows and layers that  *)
(* are reset on unmap are ever exclusive.  With the types they are IInv.   *)
(* That the two records of the focus agree is no invariant: it is kept by  *)
(* every step between states without an overlay, and OnlyOverlaysDisturb   *)
(* follows from one lemma per function that moves the focus.               *)
(***************************************************************************)
EXTENDS Focus, TLAPS

ExclusiveKind == fs.exclusive \in Override \cup Layer \cup {None}

TaggedIsListed == tagged \subseteq listed

IInv == TypeOK /\ FocusIsListed /\ ExclusiveIsMapped /\ ExclusiveKind /\ TaggedIsListed

-----------------------------------------------------------------------------
(* The functions that move the focus.  Each is stated to give a record of  *)
(* the focus, to leave exclusive_focus alone, and to focus nothing but     *)
(* what it is given.                                                       *)

Moves(f, g, C) == g \in Focus /\ g.exclusive = f.exclusive /\ g.client \in C \cup {f.client, None}

\* focusclient() focuses the client it is given, or nothing, or changes nothing.
LEMMA FocusclientMoves ==
    ASSUME NEW f \in Focus, NEW m, NEW c \in Client \cup {None}
    PROVE  Moves(f, focusclient(f, c, m), {c})
BY DEF Moves, focusclient, Focus, Surface

\* client_unfocus() only takes the focus away.
LEMMA UnfocusMoves ==
    ASSUME NEW f \in Focus
    PROVE  Moves(f, client_unfocus(f), {})
BY DEF Moves, client_unfocus, Focus

\* client_focus() focuses the client it is given.
LEMMA ClientFocusMoves ==
    ASSUME NEW f \in Focus, NEW m, NEW c \in Client
    PROVE  Moves(f, client_focus(f, c, m), {c})
BY DEF Moves, client_focus, some_set_seat_keyboard_focus, Focus, Surface

\* banning_need_update() only takes the focus away.
LEMMA BanningMoves ==
    ASSUME NEW f \in Focus, NEW l, NEW v
    PROVE  Moves(f, banning_need_update(f, l, v), {})
BY UnfocusMoves DEF Moves, banning_need_update

\* banning_refresh() too.
LEMMA BanningRefreshMoves ==
    ASSUME NEW f \in Focus, NEW u, NEW b
    PROVE  Moves(f, banning_refresh(f, u, b), {})
<1> DEFINE g == IF f.client \in u THEN [f EXCEPT !.need_update = TRUE] ELSE f
<1>1. Moves(f, g, {})
  BY DEF Moves, Focus
<1>2. Moves(f, IF g.client \in b /\ ~grab THEN client_unfocus(g) ELSE g, {})
  BY <1>1, UnfocusMoves DEF Moves
<1> QED
  BY <1>2 DEF banning_refresh

\* So does client_unmanage(), and from the client it unmanages in any case.
LEMMA UnmanageMoves ==
    ASSUME NEW f \in Focus, NEW c \in Client, NEW untag \in BOOLEAN
    PROVE  /\ Moves(f, client_unmanage(f, c, untag), {})
           /\ client_unmanage(f, c, untag).client # c
<1> DEFINE g == IF f.client = c THEN client_unfocus(f) ELSE f
<1>1. Moves(f, g, {}) /\ g.client # c
  BY KindsDiffer, UnfocusMoves DEF Moves, client_unfocus, Focus, Surface
<1>2. Moves(g, banning_need_update(g, listed \ {c}, Visible(tagged, minimized)), {})
  BY <1>1, BanningMoves DEF Moves
<1>3. None # c
  BY KindsDiffer DEF Surface
<1> QED
  BY <1>1, <1>2, <1>3 DEF client_unmanage, Moves

\* unmapnotify() clears the seat and nothing else.
LEMMA SeatClearedMoves ==
    ASSUME NEW f \in Focus, NEW c
    PROVE  Moves(f, SeatCleared(f, c), {})
BY DEF Moves, SeatCleared, Focus

\* mapnotify() moves the keyboard to the focused client and nothing else.
LEMMA RedeliverMoves ==
    ASSUME NEW f \in Focus, NEW c \in Client
    PROVE  Moves(f, Redeliver(f, c), {})
BY DEF Moves, Redeliver, Focus, Surface

\* focustop() is a mapped client on the selected tags, or none.
LEMMA TopIsTagged ==
    ASSUME NEW t, NEW m, NEW c \in focustop(t, m)
    PROVE  c = None \/ c \in t \cap m
BY DEF focustop

\* Lua focuses clients that globalconf.clients lists.
LEMMA LuaFocusesListed ==
    ASSUME NEW l, NEW v, NEW c \in LuaMayFocus(l, v)
    PROVE  c \in l
BY DEF LuaMayFocus

\* focus_restore() focuses a listed client, if any.
LEMMA RestoreMoves ==
    ASSUME TypeOK, TaggedIsListed, NEW f \in Focus, NEW m, NEW g \in focus_restore(f, m)
    PROVE  Moves(f, g, listed)
<1> DEFINE v == Visible(tagged, minimized)
           handled == {f} \cup {client_focus(f, c, m) : c \in LuaMayFocus(listed, v)}
<1>1. ASSUME NEW h \in handled PROVE Moves(f, h, listed)
  <2>1. CASE h = f
    BY <2>1 DEF Moves
  <2>2. CASE h # f
    <3>1. PICK c \in LuaMayFocus(listed, v) : h = client_focus(f, c, m)
      BY <1>1, <2>2
    <3>2. c \in listed /\ c \in Client
      BY LuaFocusesListed DEF TypeOK
    <3> QED
      BY <3>1, <3>2, ClientFocusMoves DEF Moves
  <2> QED
    BY <2>1, <2>2
<1>2. CASE g \in handled
  BY <1>1, <1>2
<1>3. CASE g \notin handled
  <2>1. PICK h \in handled, c \in focustop(tagged, m) : g = focusclient(h, c, m)
    BY <1>3 DEF focus_restore
  <2>2. c = None \/ c \in listed \cap Client
    BY TopIsTagged DEF TaggedIsListed, TypeOK
  <2>3. Moves(h, g, {c}) /\ Moves(f, h, listed)
    BY <1>1, <2>1, <2>2, FocusclientMoves DEF Moves
  <2> QED
    BY <2>2, <2>3 DEF Moves
<1> QED
  BY <1>2, <1>3

\* layer_surface_grant_keyboard() focuses no client; exclusive_focus is the surface.
LEMMA GrantMoves ==
    ASSUME NEW f \in Focus, NEW m, NEW l \in Layer
    PROVE  LET g == layer_surface_grant_keyboard(f, l, m)
           IN  g \in Focus /\ g.exclusive = l /\ g.client \in {f.client, None}
<1>1. Moves(f, focusclient(f, None, m), {None})
  BY FocusclientMoves
<1> QED
  BY <1>1 DEF Moves, layer_surface_grant_keyboard, Focus, Surface

\* layer_keyboard_focus() ends at a mapped surface or at the end of the list.
LEMMA AskedIsMapped ==
    ASSUME NEW m, NEW k \in Asked(m)
    PROVE  k = None \/ k \in Layer \cap m
BY DEF Asked, Layer

\* What it grants, if anything, is the surface that it ended at.
LEMMA LayerFocusMoves ==
    ASSUME NEW f \in Focus, NEW m, NEW k \in Layer \cup {None}
    PROVE  LET g == layer_keyboard_focus(f, k, m)
           IN  /\ g \in Focus /\ g.client \in {f.client, None}
               /\ g.exclusive = f.exclusive \/ (k \in Layer /\ g.exclusive = k)
<1>1. CASE k \in granted \cup {None}
  BY <1>1 DEF layer_keyboard_focus
<1>2. CASE k \notin granted \cup {None}
  BY <1>2, GrantMoves DEF layer_keyboard_focus
<1> QED
  BY <1>1, <1>2

-----------------------------------------------------------------------------
(* The inductive invariant.                                                *)

LEMMA InitHolds == Init => IInv
<1> SUFFICES ASSUME Init PROVE IInv
  OBVIOUS
<1>1. fs \in Focus
  BY DEF Init, Focus
<1> QED
  BY <1>1 DEF Init, IInv, TypeOK, FocusIsListed, ExclusiveIsMapped, ExclusiveKind, TaggedIsListed

\* What is left to show of a step that moves the focus without exclusive_focus.
LEMMA MovesKeeps ==
    ASSUME IInv, Moves(fs, fs', listed'), fs.client \in listed' \cup {None} \/ fs'.client # fs.client,
           fs.exclusive \in mapped' \cup {None}
    PROVE  fs' \in Focus /\ FocusIsListed' /\ ExclusiveIsMapped' /\ ExclusiveKind'
BY DEF IInv, Moves, FocusIsListed, ExclusiveIsMapped, ExclusiveKind

LEMMA StepHolds == IInv /\ [Next]_vars => IInv'
<1> SUFFICES ASSUME IInv, [Next]_vars PROVE IInv'
  OBVIOUS
<1> USE DEF windows
<1>t. fs \in Focus /\ TypeOK /\ TaggedIsListed
  BY DEF IInv, TypeOK
<1>k. ASSUME UNCHANGED <<listed, mapped>>, Moves(fs, fs', listed)
      PROVE  fs' \in Focus /\ FocusIsListed' /\ ExclusiveIsMapped' /\ ExclusiveKind'
  BY <1>k, MovesKeeps DEF IInv, FocusIsListed, ExclusiveIsMapped
<1>1. ASSUME NEW c \in Client, Create(c) PROVE IInv'
  BY <1>1 DEF Create, IInv, TypeOK, FocusIsListed, ExclusiveIsMapped, ExclusiveKind, TaggedIsListed
<1>2. ASSUME NEW c \in Client, Map(c) PROVE IInv'
  <2>1. PICK tag \in BOOLEAN :
          /\ tagged' = IF tag THEN tagged \cup {c} ELSE tagged
          /\ LET v == Visible(tagged', minimized)
                 f == IF tag THEN banning_need_update(fs, listed', v) ELSE fs
             IN  \/ fs' = Redeliver(f, c)
                 \/ fs' = Redeliver(client_focus(f, c, mapped'), c)
    BY <1>2 DEF Map
  <2> DEFINE f == IF tag THEN banning_need_update(fs, listed', Visible(tagged', minimized)) ELSE fs
  <2>2. Moves(fs, f, {})
    BY <1>t, BanningMoves DEF Moves
  <2>3. Moves(f, Redeliver(f, c), {})
    BY <2>2, RedeliverMoves DEF Moves
  <2>4. Moves(f, client_focus(f, c, mapped'), {c})
    BY <2>2, ClientFocusMoves DEF Moves
  <2>5. Moves(client_focus(f, c, mapped'), Redeliver(client_focus(f, c, mapped'), c), {})
    BY <2>4, RedeliverMoves DEF Moves
  <2>6. Moves(fs, fs', {c})
    BY <2>1, <2>2, <2>3, <2>4, <2>5 DEF Moves
  <2>7. listed' = listed \cup {c} /\ mapped' = mapped \cup {c}
    BY <1>2 DEF Map
  <2>8. fs' \in Focus /\ FocusIsListed' /\ ExclusiveIsMapped' /\ ExclusiveKind'
    BY <2>6, <2>7 DEF IInv, Moves, FocusIsListed, ExclusiveIsMapped, ExclusiveKind
  <2>9. TypeOK' /\ TaggedIsListed'
    BY <1>2, <1>t, <2>1, <2>8 DEF Map, TypeOK, TaggedIsListed, Surface
  <2> QED
    BY <2>8, <2>9 DEF IInv
<1>3. ASSUME NEW c \in Client, MapOverride(c) PROVE IInv'
  <2>1. Moves(fs, focusclient(fs, c, mapped'), {c})
    BY <1>t, FocusclientMoves
  <2>2. /\ c \in Override \cap listed
        /\ fs' = [focusclient(fs, c, mapped') EXCEPT !.exclusive = c]
        /\ UNCHANGED <<listed, tagged>> /\ mapped' = mapped \cup {c}
    BY <1>3 DEF MapOverride
  <2>3. fs' \in Focus /\ fs'.exclusive = c /\ fs'.client \in {c, fs.client, None}
    BY <2>1, <2>2 DEF Moves, Focus, Surface
  <2> QED
    BY <1>3, <1>t, <2>2, <2>3
    DEF MapOverride, IInv, TypeOK, FocusIsListed, ExclusiveIsMapped, ExclusiveKind, TaggedIsListed, Surface
<1>4. ASSUME NEW c \in Client, Unmap(c) PROVE IInv'
  <2>1. PICK untag \in BOOLEAN : fs' = client_unmanage(SeatCleared(fs, c), c, untag) /\ lazy' = (lazy \/ untag)
    BY <1>4 DEF Unmap
  <2>2. Moves(fs, SeatCleared(fs, c), {})
    BY <1>t, SeatClearedMoves
  <2>3. Moves(fs, fs', {}) /\ fs'.client # c
    BY <2>1, <2>2, UnmanageMoves DEF Moves
  <2>4. c \in Managed /\ listed \ {c} \subseteq listed' /\ mapped' = mapped \ {c}
    BY <1>4 DEF Unmap
  <2>5. fs' \in Focus /\ FocusIsListed' /\ ExclusiveIsMapped' /\ ExclusiveKind'
    BY <2>3, <2>4, KindsDiffer
    DEF IInv, Moves, FocusIsListed, ExclusiveIsMapped, ExclusiveKind, Client
  <2>6. TypeOK' /\ TaggedIsListed'
    BY <1>4, <1>t, <2>1, <2>5 DEF Unmap, TypeOK, TaggedIsListed
  <2> QED
    BY <2>5, <2>6 DEF IInv
<1>5. ASSUME NEW c \in Client, UnmapOverride(c) PROVE IInv'
  <2> DEFINE f == SeatCleared(fs, c)
             g == IF f.client = c THEN client_unfocus(f) ELSE f
             h == [g EXCEPT !.exclusive = None]
  <2>1. Moves(fs, f, {})
    BY <1>t, SeatClearedMoves
  <2>2. Moves(fs, g, {})
    BY <2>1, UnfocusMoves DEF Moves
  <2>3. h \in Focus /\ h.exclusive = None /\ h.client = g.client
    BY <2>2 DEF Moves, Focus
  <2>4. mapped' = mapped \ {c} /\ UNCHANGED <<listed, tagged>>
    BY <1>5 DEF UnmapOverride
  <2>5. CASE g.exclusive = c
    <3>1. fs' \in focus_restore(h, mapped')
      BY <1>5, <2>5 DEF UnmapOverride
    <3>2. Moves(h, fs', listed)
      BY <1>t, <2>3, <3>1, RestoreMoves
    <3> QED
      BY <1>5, <1>t, <2>2, <2>3, <2>4, <3>2
      DEF UnmapOverride, IInv, Moves, TypeOK, FocusIsListed, ExclusiveIsMapped, ExclusiveKind, TaggedIsListed
  <2>6. CASE g.exclusive # c
    <3>1. fs' = g
      BY <1>5, <2>6 DEF UnmapOverride
    <3> QED
      BY <1>5, <1>t, <2>2, <2>4, <2>6, <3>1
      DEF UnmapOverride, IInv, Moves, TypeOK, FocusIsListed, ExclusiveIsMapped, ExclusiveKind, TaggedIsListed
  <2> QED
    BY <2>5, <2>6
<1>6. ASSUME NEW c \in Client, Destroy(c) PROVE IInv'
  <2>1. PICK untag \in BOOLEAN :
          /\ fs' = IF c \in listed THEN client_unmanage(fs, c, untag) ELSE fs
          /\ lazy' = (lazy \/ untag)
    BY <1>6 DEF Destroy
  <2>2. listed' = listed \ {c} /\ mapped' = mapped
    BY <1>6 DEF Destroy
  <2>3. Moves(fs, fs', {}) /\ (fs'.client # c \/ c \notin listed)
    BY <1>t, <2>1, UnmanageMoves DEF Moves
  <2>4. fs' \in Focus /\ FocusIsListed' /\ ExclusiveIsMapped' /\ ExclusiveKind'
    BY <2>2, <2>3 DEF IInv, Moves, FocusIsListed, ExclusiveIsMapped, ExclusiveKind
  <2>5. TypeOK' /\ TaggedIsListed'
    BY <1>6, <1>t, <2>1, <2>4 DEF Destroy, TypeOK, TaggedIsListed
  <2> QED
    BY <2>4, <2>5 DEF IInv
<1>7. ASSUME NEW c \in Client, LuaFocus(c) PROVE IInv'
  <2>1. c \in listed
    BY <1>7, LuaFocusesListed DEF LuaFocus
  <2>2. Moves(fs, fs', listed)
    BY <1>7, <1>t, <2>1, ClientFocusMoves DEF LuaFocus, Moves
  <2> QED
    BY <1>7, <1>t, <1>k, <2>2 DEF LuaFocus, IInv, TypeOK, TaggedIsListed
<1>8. ASSUME NEW c \in Client, client_set_minimized(c) PROVE IInv'
  <2>1. Moves(fs, fs', listed)
    BY <1>8, <1>t, BanningMoves DEF client_set_minimized, Moves
  <2> QED
    BY <1>8, <1>t, <1>k, <2>1 DEF client_set_minimized, IInv, TypeOK, TaggedIsListed
<1>9. CASE LuaUnfocus
  <2>1. Moves(fs, fs', listed)
    BY <1>9, <1>t, UnfocusMoves DEF LuaUnfocus, Moves
  <2> QED
    BY <1>9, <1>t, <1>k, <2>1 DEF LuaUnfocus, IInv, TypeOK, TaggedIsListed
<1>10. CASE Retag
  <2>1. Moves(fs, fs', listed)
    BY <1>10, <1>t, BanningMoves DEF Retag, Moves
  <2> QED
    BY <1>10, <1>t, <1>k, <2>1 DEF Retag, IInv, TypeOK, TaggedIsListed
<1>11. ASSUME NEW l \in Layer, commitlayersurfacenotify(l) PROVE IInv'
  <2>1. PICK k \in Asked(mapped') :
          fs' = layer_keyboard_focus(fs, k, mapped') /\ granted' = granted \cup ({k} \ {None})
    BY <1>11 DEF commitlayersurfacenotify
  <2>2. k = None \/ k \in Layer \cap mapped'
    BY <2>1, AskedIsMapped
  <2>3. /\ fs' \in Focus /\ fs'.client \in {fs.client, None}
        /\ fs'.exclusive = fs.exclusive \/ (k \in Layer /\ fs'.exclusive = k)
    BY <1>t, <2>1, <2>2, LayerFocusMoves
  <2> QED
    BY <1>11, <1>t, <2>1, <2>2, <2>3
    DEF commitlayersurfacenotify, IInv, TypeOK, FocusIsListed, ExclusiveIsMapped, ExclusiveKind, TaggedIsListed, Surface
<1>12. ASSUME NEW l \in Layer, unmaplayersurfacenotify(l) PROVE IInv'
  <2> DEFINE f == IF fs.exclusive = l THEN [fs EXCEPT !.exclusive = None] ELSE fs
  <2>1. PICK k \in Asked(mapped') :
          /\ granted' = (granted \cup ({k} \ {None})) \ {l}
          /\ deferred' = (deferred \/ (fs.exclusive = l /\ grab))
          /\ IF fs.exclusive = l /\ ~grab
             THEN fs' \in focus_restore(layer_keyboard_focus(f, k, mapped'), mapped')
             ELSE fs' = layer_keyboard_focus(f, k, mapped')
    BY <1>12 DEF unmaplayersurfacenotify
  <2> DEFINE g == layer_keyboard_focus(f, k, mapped')
  <2>2. k = None \/ k \in Layer \cap mapped'
    BY <2>1, AskedIsMapped
  <2>3. mapped' = mapped \ {l} /\ UNCHANGED <<listed, tagged>>
    BY <1>12 DEF unmaplayersurfacenotify
  <2>4. f \in Focus /\ f.client = fs.client /\ f.exclusive \in (mapped' \cap {fs.exclusive}) \cup {None}
    BY <1>t, <2>3 DEF Focus, IInv, ExclusiveIsMapped
  <2>5. /\ g \in Focus /\ g.client \in {fs.client, None}
        /\ g.exclusive = f.exclusive \/ (k \in Layer /\ g.exclusive = k)
    <3> HIDE DEF f
    <3> QED
      BY <2>2, <2>4, LayerFocusMoves
  <2>6. fs' \in Focus /\ fs'.exclusive = g.exclusive /\ fs'.client \in listed \cup {fs.client, None}
    BY <1>t, <2>1, <2>5, RestoreMoves DEF Moves
  <2>7. FocusIsListed' /\ ExclusiveIsMapped' /\ ExclusiveKind'
    BY <2>2, <2>3, <2>4, <2>5, <2>6 DEF IInv, FocusIsListed, ExclusiveIsMapped, ExclusiveKind
  <2>8. TypeOK' /\ TaggedIsListed'
    BY <1>12, <1>t, <2>1, <2>2, <2>6 DEF unmaplayersurfacenotify, TypeOK, TaggedIsListed
  <2> QED
    BY <2>7, <2>8 DEF IInv
<1>13. ASSUME NEW l \in Layer, Grant(l) PROVE IInv'
  <2>1. fs' \in Focus /\ fs'.exclusive = l /\ fs'.client \in {fs.client, None}
    BY <1>13, <1>t, GrantMoves DEF Grant
  <2> QED
    BY <1>13, <1>t, <2>1
    DEF Grant, IInv, TypeOK, FocusIsListed, ExclusiveIsMapped, ExclusiveKind, TaggedIsListed
<1>14. ASSUME NEW l \in Layer, Revoke(l) PROVE IInv'
  <2>1. CASE fs.exclusive = l
    <3> DEFINE f == [fs EXCEPT !.exclusive = None, !.keyboard = None]
    <3>1. PICK c \in focustop(tagged, mapped) : fs' = focusclient(f, c, mapped)
      BY <1>14, <2>1 DEF Revoke
    <3>2. f \in Focus /\ f.client = fs.client /\ f.exclusive = None
      BY <1>t DEF Focus
    <3>3. c = None \/ c \in listed \cap Client
      BY <1>t, TopIsTagged DEF TaggedIsListed, TypeOK
    <3>4. fs' \in Focus /\ fs'.exclusive = None /\ fs'.client \in listed \cup {fs.client, None}
      BY <3>1, <3>2, <3>3, FocusclientMoves DEF Moves
    <3> QED
      BY <1>14, <1>t, <3>4
      DEF Revoke, IInv, TypeOK, FocusIsListed, ExclusiveIsMapped, ExclusiveKind, TaggedIsListed
  <2>2. CASE fs.exclusive # l
    BY <1>14, <1>t, <2>2
    DEF Revoke, IInv, TypeOK, FocusIsListed, ExclusiveIsMapped, ExclusiveKind, TaggedIsListed
  <2> QED
    BY <2>1, <2>2
<1>15. ASSUME NEW s \in Surface, SurfaceGone(s) PROVE IInv'
  <2>1. Moves(fs, fs', listed)
    BY <1>15, <1>t DEF SurfaceGone, Moves, Focus
  <2> QED
    BY <1>15, <1>t, <1>k, <2>1 DEF SurfaceGone, IInv, TypeOK, TaggedIsListed
<1>16. CASE GrabStart
  BY <1>16 DEF GrabStart, IInv, TypeOK, FocusIsListed, ExclusiveIsMapped, ExclusiveKind, TaggedIsListed
<1>17. CASE GrabStop
  <2> DEFINE f == IF fs.client \notin Visible(tagged, minimized) \cup {None}
                  THEN client_unfocus(fs) ELSE fs
  <2>1. Moves(fs, f, listed)
    BY <1>t, UnfocusMoves DEF Moves
  <2>2. IF deferred THEN fs' \in focus_restore(f, mapped) ELSE fs' = f
    BY <1>17 DEF GrabStop
  <2>3. Moves(fs, fs', listed)
    BY <1>t, <2>1, <2>2, RestoreMoves DEF Moves
  <2> QED
    BY <1>17, <1>t, <1>k, <2>3 DEF GrabStop, IInv, TypeOK, TaggedIsListed
<1>18. CASE OutputsChange
  <2>1. Moves(fs, fs', listed)
    BY <1>18, <1>t, RestoreMoves DEF OutputsChange
  <2> QED
    BY <1>18, <1>t, <1>k, <2>1 DEF OutputsChange, IInv, TypeOK, TaggedIsListed
<1>19. CASE destroydrag
  <2>1. PICK c \in focustop(tagged, mapped) : fs' = focusclient(fs, c, mapped)
    BY <1>19 DEF destroydrag
  <2>2. c = None \/ c \in listed \cap Client
    BY <1>t, TopIsTagged DEF TaggedIsListed, TypeOK
  <2>3. Moves(fs, fs', listed)
    BY <1>t, <2>1, <2>2, FocusclientMoves DEF Moves
  <2> QED
    BY <1>19, <1>t, <1>k, <2>3 DEF destroydrag, IInv, TypeOK, TaggedIsListed
<1>20. CASE some_refresh
  <2> DEFINE f == client_focus_refresh(fs)
  <2>1. Moves(fs, f, {})
    BY <1>t DEF client_focus_refresh, Moves, Focus
  <2>2. Moves(fs, banning_refresh(f, ToUnban, ToBan), {})
    BY <2>1, BanningRefreshMoves DEF Moves
  <2>3. Moves(fs, fs', listed)
    BY <1>20, <2>1, <2>2 DEF some_refresh, Moves
  <2>4. banned' \subseteq Client
    BY <1>20, <1>t DEF some_refresh, ToBan, TypeOK
  <2> QED
    BY <1>20, <1>t, <1>k, <2>3, <2>4 DEF some_refresh, IInv, TypeOK, TaggedIsListed
<1>21. CASE UNCHANGED vars
  BY <1>21 DEF vars, IInv, TypeOK, FocusIsListed, ExclusiveIsMapped, ExclusiveKind, TaggedIsListed
<1> QED
  BY <1>1, <1>2, <1>3, <1>4, <1>5, <1>6, <1>7, <1>8, <1>9, <1>10, <1>11, <1>12, <1>13,
     <1>14, <1>15, <1>16, <1>17, <1>18, <1>19, <1>20, <1>21 DEF Next

\* The types, the listed focus and the mapped exclusive focus hold together.
THEOREM Inductive == Spec => []IInv
BY InitHolds, StepHolds, PTL DEF Spec

\* Every record of the focus names a window of the right kind.
THEOREM TypeCorrect == Spec => []TypeOK
BY Inductive, PTL DEF IInv

\* globalconf.focus.client never outlives the client's place in globalconf.clients.
THEOREM NoFocusOnUnlisted == Spec => []FocusIsListed
BY Inductive, PTL DEF IInv

\* exclusive_focus never outlives the mapping of its surface.
THEOREM NoExclusiveOnUnmapped == Spec => []ExclusiveIsMapped
BY Inductive, PTL DEF IInv

-----------------------------------------------------------------------------
(* The seat and the focused client.  Without an overlay nothing holds the  *)
(* keyboard, so each function leaves the two records in agreement.         *)

Calm(f, m) == f \in Focus /\ ~Overlaid(f) /\ Agrees(f, m)

\* focusclient() gives a mapped client the focus and the keyboard at once.
LEMMA FocusclientCalm ==
    ASSUME NEW f, NEW m \in SUBSET Surface, Calm(f, m), NEW c \in (Client \cap m) \cup {None}
    PROVE  Calm(focusclient(f, c, m), m)
<1>1. ~Held(f, m)
  BY KindsDiffer DEF Calm, Overlaid, Held, Surface, Client
<1>2. c \notin Layer
  BY KindsDiffer DEF Surface
<1>3. CASE c # None /\ f.keyboard = c
  BY <1>3 DEF focusclient
<1>4. CASE ~(c # None /\ f.keyboard = c)
  <2> DEFINE g == focusclient(f, c, m)
  <2>1. g = [f EXCEPT !.client = c, !.need_update = TRUE, !.keyboard = IF c = None THEN @ ELSE c]
    BY <1>1, <1>4 DEF focusclient
  <2>2. /\ g \in Focus /\ g.client = c /\ g.need_update /\ g.exclusive = f.exclusive
        /\ g.keyboard = IF c = None THEN f.keyboard ELSE c
    BY <2>1 DEF Calm, Focus, Surface
  <2>3. Calm(g, m)
    <3> HIDE DEF g
    <3> QED
      BY <1>2, <2>2 DEF Calm, Overlaid, Agrees
  <2> QED
    BY <2>3
<1> QED
  BY <1>3, <1>4

\* client_unfocus() leaves the keyboard, but asks for the refresh.
LEMMA UnfocusCalm ==
    ASSUME NEW f, NEW m, Calm(f, m)
    PROVE  Calm(client_unfocus(f), m)
BY DEF Calm, Overlaid, Agrees, client_unfocus, Focus

\* client_focus() gives the keyboard to a mapped client and takes it from all
\* others for one that is not.
LEMMA ClientFocusCalm ==
    ASSUME NEW f, NEW m \in SUBSET Surface, Calm(f, m), NEW c \in Client
    PROVE  Calm(client_focus(f, c, m), m)
<1> DEFINE g == [f EXCEPT !.client = c, !.need_update = @ \/ f.client # c]
<1>1. /\ g \in Focus /\ g.client = c /\ g.exclusive = f.exclusive /\ g.keyboard = f.keyboard
  BY DEF Calm, Focus
<1>2. ~Held(g, m)
  BY <1>1, KindsDiffer DEF Calm, Overlaid, Held, Surface, Client
<1>3. c \notin Layer /\ c # None /\ None \notin Layer
  BY KindsDiffer DEF Surface
<1>4. client_focus(f, c, m) = [g EXCEPT !.keyboard = IF c \in m THEN c ELSE None]
  BY <1>2 DEF client_focus, some_set_seat_keyboard_focus
<1> DEFINE h == client_focus(f, c, m)
<1>5. /\ h \in Focus /\ h.client = c /\ h.exclusive = f.exclusive
      /\ h.keyboard = IF c \in m THEN c ELSE None
  <2> HIDE DEF g
  <2> QED
    BY <1>1, <1>4 DEF Focus, Surface
<1>6. Calm(h, m)
  <2> HIDE DEF h
  <2> QED
    BY <1>3, <1>5 DEF Calm, Overlaid, Agrees
<1> QED
  BY <1>6

\* banning_need_update() at most unfocuses.
LEMMA BanningCalm ==
    ASSUME NEW f, NEW m, Calm(f, m), NEW l, NEW v
    PROVE  Calm(banning_need_update(f, l, v), m)
BY UnfocusCalm DEF banning_need_update

\* banning_refresh() unfocuses, or asks for a refresh more.
LEMMA BanningRefreshCalm ==
    ASSUME NEW f, NEW m, Calm(f, m), NEW u, NEW b
    PROVE  Calm(banning_refresh(f, u, b), m)
<1> DEFINE g == IF f.client \in u THEN [f EXCEPT !.need_update = TRUE] ELSE f
<1>1. Calm(g, m)
  BY DEF Calm, Overlaid, Agrees, Focus
<1>2. Calm(IF g.client \in b /\ ~grab THEN client_unfocus(g) ELSE g, m)
  BY <1>1, UnfocusCalm
<1> QED
  BY <1>2 DEF banning_refresh

\* client_unmanage() unfocuses, perhaps twice.
LEMMA UnmanageCalm ==
    ASSUME NEW f, NEW m, Calm(f, m), NEW c, NEW untag
    PROVE  Calm(client_unmanage(f, c, untag), m)
BY UnfocusCalm, BanningCalm DEF client_unmanage

\* Lua's handler and the fallback of focus_restore() both end in agreement.
LEMMA RestoreCalm ==
    ASSUME TypeOK, NEW f, NEW m \in SUBSET Surface, Calm(f, m), NEW g \in focus_restore(f, m)
    PROVE  Calm(g, m)
<1> DEFINE v == Visible(tagged, minimized)
           handled == {f} \cup {client_focus(f, c, m) : c \in LuaMayFocus(listed, v)}
<1>1. ASSUME NEW h \in handled PROVE Calm(h, m)
  <2>1. CASE h = f
    BY <2>1
  <2>2. CASE h # f
    <3>1. PICK c \in LuaMayFocus(listed, v) : h = client_focus(f, c, m)
      BY <1>1, <2>2
    <3>2. c \in Client
      BY LuaFocusesListed DEF TypeOK
    <3> QED
      BY <3>1, <3>2, ClientFocusCalm
  <2> QED
    BY <2>1, <2>2
<1>2. CASE g \in handled
  BY <1>1, <1>2
<1>3. CASE g \notin handled
  <2>1. PICK h \in handled, c \in focustop(tagged, m) : g = focusclient(h, c, m)
    BY <1>3 DEF focus_restore
  <2>2. c \in (Client \cap m) \cup {None}
    BY TopIsTagged DEF TypeOK, Client
  <2> QED
    BY <1>1, <2>1, <2>2, FocusclientCalm
<1> QED
  BY <1>2, <1>3

\* Mapping or unmapping a surface matters to the focused client only.
LEMMA OtherMapped ==
    ASSUME NEW f, NEW m, Calm(f, m), NEW n, f.client \in m <=> f.client \in n
    PROVE  Calm(f, n)
BY DEF Calm, Agrees

LEMMA StepCalm ==
    ASSUME IInv, [Next]_vars, Calm(fs, mapped)
    PROVE  Overlaid(fs') \/ Calm(fs', mapped')
<1> SUFFICES ASSUME ~Overlaid(fs') PROVE Calm(fs', mapped')
  OBVIOUS
<1> USE DEF windows
<1>t. fs \in Focus /\ TypeOK /\ mapped \in SUBSET Surface /\ fs.exclusive = None
  BY DEF IInv, TypeOK, Calm, Overlaid
<1>n. None \notin Surface /\ Layer \subseteq Surface /\ Client \subseteq Surface /\ Override \subseteq Client
  BY KindsDiffer DEF Surface, Client
<1>1. ASSUME NEW c \in Client, Create(c) PROVE Calm(fs', mapped')
  BY <1>1 DEF Create
<1>2. ASSUME NEW c \in Client, Map(c) PROVE Calm(fs', mapped')
  <2>1. PICK tag \in BOOLEAN :
          LET v == Visible(tagged', minimized)
              f == IF tag THEN banning_need_update(fs, listed', v) ELSE fs
          IN  \/ fs' = Redeliver(f, c)
              \/ fs' = Redeliver(client_focus(f, c, mapped'), c)
    BY <1>2 DEF Map
  <2> DEFINE f == IF tag THEN banning_need_update(fs, listed', Visible(tagged', minimized)) ELSE fs
  <2>2. Calm(f, mapped)
    BY BanningCalm
  <2>3. mapped' = mapped \cup {c} /\ c \notin mapped
    BY <1>2 DEF Map
  <2>4. fs' = Redeliver(f, c) \/ fs' = Redeliver(client_focus(f, c, mapped'), c)
    BY <2>1
  <2> HIDE DEF f
  <2>5. Calm(Redeliver(f, c), mapped')
    <3>1. CASE f.client = c
      <4> DEFINE g == [f EXCEPT !.keyboard = c]
      <4>1. g \in Focus /\ g.client = c /\ g.keyboard = c /\ g.exclusive = f.exclusive
        BY <2>2, <3>1 DEF Calm, Focus, Surface
      <4>2. Calm(g, mapped')
        <5> HIDE DEF g
        <5> QED
          BY <1>n, <2>2, <2>3, <4>1, KindsDiffer DEF Calm, Overlaid, Agrees
      <4> QED
        BY <3>1, <4>2 DEF Redeliver
    <3>2. CASE f.client # c
      BY <2>2, <2>3, <3>2, OtherMapped DEF Redeliver
    <3> QED
      BY <3>1, <3>2
  <2>6. Calm(Redeliver(client_focus(f, c, mapped'), c), mapped')
    <3> DEFINE g == client_focus(f, c, mapped')
               h == [f EXCEPT !.client = c, !.need_update = @ \/ f.client # c]
    <3>1. /\ h \in Focus /\ h.client = c /\ h.keyboard = f.keyboard
          /\ h.exclusive = f.exclusive
      BY <2>2 DEF Calm, Focus
    <3>2. ~Held(h, mapped')
      BY <1>n, <2>2, <3>1 DEF Calm, Overlaid, Held
    <3>3. g = [h EXCEPT !.keyboard = c]
      BY <2>3, <3>2 DEF client_focus, some_set_seat_keyboard_focus
    <3>4. g \in Focus /\ g.client = c /\ g.keyboard = c /\ g.exclusive = f.exclusive
      <4> HIDE DEF h
      <4> QED
        BY <1>n, <3>1, <3>3 DEF Focus
    <3>5. Redeliver(g, c) = g
      <4> HIDE DEF g
      <4> QED
        BY <3>4 DEF Redeliver, Focus
    <3>6. Calm(g, mapped')
      <4> HIDE DEF g
      <4> QED
        BY <1>n, <2>2, <2>3, <3>4, KindsDiffer DEF Calm, Overlaid, Agrees
    <3> QED
      BY <3>5, <3>6
  <2> QED
    BY <2>4, <2>5, <2>6
<1>3. ASSUME NEW c \in Client, MapOverride(c) PROVE FALSE
  <2>1. focusclient(fs, c, mapped') \in Focus
    BY <1>t, FocusclientMoves DEF Moves
  <2>2. c # None /\ fs' = [focusclient(fs, c, mapped') EXCEPT !.exclusive = c]
    BY <1>3, <1>n DEF MapOverride
  <2> QED
    BY <2>1, <2>2 DEF Overlaid, Focus
<1>4. ASSUME NEW c \in Client, NEW f, f = SeatCleared(fs, c)
      PROVE  f \in Focus /\ f.client = fs.client /\ ~Overlaid(f)
             /\ (f.client = c => f.keyboard = None \/ c \notin mapped)
             /\ (f.client # c => f = fs)
  BY <1>t, <1>4, <1>n DEF SeatCleared, Calm, Overlaid, Agrees, Focus
<1>5. ASSUME NEW c \in Client, Unmap(c) PROVE Calm(fs', mapped')
  <2> DEFINE f == SeatCleared(fs, c)
             g == IF f.client = c THEN client_unfocus(f) ELSE f
  <2>1. PICK untag \in BOOLEAN : fs' = client_unmanage(f, c, untag)
    BY <1>5 DEF Unmap
  <2>2. mapped' = mapped \ {c}
    BY <1>5 DEF Unmap
  <2>3. Calm(g, mapped')
    <3> HIDE DEF f
    <3>1. f = SeatCleared(fs, c)
      BY DEF f
    <3>2. CASE f.client = c
      BY <1>4, <1>5, <3>1, <3>2, <1>n DEF Calm, Overlaid, Agrees, client_unfocus, Focus, Unmap
    <3>3. CASE f.client # c
      BY <1>4, <2>2, <3>1, <3>3, OtherMapped
    <3> QED
      BY <3>2, <3>3
  <2>4. fs' = IF untag THEN banning_need_update(g, listed \ {c}, Visible(tagged, minimized)) ELSE g
    BY <2>1 DEF client_unmanage
  <2> HIDE DEF g
  <2> QED
    BY <2>3, <2>4, BanningCalm
<1>6. ASSUME NEW c \in Client, UnmapOverride(c) PROVE Calm(fs', mapped')
  <2> DEFINE f == SeatCleared(fs, c)
             g == IF f.client = c THEN client_unfocus(f) ELSE f
  <2>1. mapped' = mapped \ {c} /\ c \in mapped
    BY <1>6 DEF UnmapOverride
  <2>2. Calm(g, mapped')
    <3> HIDE DEF f
    <3>1. f = SeatCleared(fs, c)
      BY DEF f
    <3>2. CASE f.client = c
      BY <1>4, <2>1, <3>1, <3>2, <1>n DEF Calm, Overlaid, Agrees, client_unfocus, Focus
    <3>3. CASE f.client # c
      BY <1>4, <2>1, <3>1, <3>3, OtherMapped
    <3> QED
      BY <3>2, <3>3
  <2>3. IF g.exclusive = c
        THEN fs' \in focus_restore([g EXCEPT !.exclusive = None], mapped') ELSE fs' = g
    BY <1>6 DEF UnmapOverride
  <2> HIDE DEF g
  <2>4. g.exclusive # c
    BY <1>n, <2>2 DEF Calm, Overlaid
  <2> QED
    BY <2>2, <2>3, <2>4
<1>7. ASSUME NEW c \in Client, Destroy(c) PROVE Calm(fs', mapped')
  BY <1>7, UnmanageCalm DEF Destroy
<1>8. ASSUME NEW c \in Client, LuaFocus(c) PROVE Calm(fs', mapped')
  BY <1>8, <1>t, ClientFocusCalm DEF LuaFocus
<1>9. ASSUME NEW c \in Client, client_set_minimized(c) PROVE Calm(fs', mapped')
  BY <1>9, BanningCalm DEF client_set_minimized
<1>10. CASE LuaUnfocus
  BY <1>10, UnfocusCalm DEF LuaUnfocus
<1>11. CASE Retag
  BY <1>11, BanningCalm DEF Retag
<1>12. ASSUME NEW k \in Layer \cup {None}, NEW f \in Focus, NEW m, f = fs
       PROVE  LET g == layer_keyboard_focus(f, k, m) IN g = f \/ g.exclusive # None
  BY <1>12, <1>n, GrantMoves DEF layer_keyboard_focus
<1>13. ASSUME NEW l \in Layer, commitlayersurfacenotify(l) PROVE Calm(fs', mapped')
  <2>1. PICK k \in Asked(mapped') : fs' = layer_keyboard_focus(fs, k, mapped')
    BY <1>13 DEF commitlayersurfacenotify
  <2>2. fs' = fs
    BY <1>t, <1>12, <2>1, AskedIsMapped DEF Overlaid
  <2>3. fs.client \notin Layer
    BY <1>t, <1>n, KindsDiffer DEF Focus
  <2> QED
    BY <1>13, <2>2, <2>3, OtherMapped DEF commitlayersurfacenotify
<1>14. ASSUME NEW l \in Layer, unmaplayersurfacenotify(l) PROVE Calm(fs', mapped')
  <2>1. PICK k \in Asked(mapped') : fs' = layer_keyboard_focus(fs, k, mapped')
    BY <1>14, <1>t, <1>n DEF unmaplayersurfacenotify
  <2>2. fs' = fs
    BY <1>t, <1>12, <2>1, AskedIsMapped DEF Overlaid
  <2>3. fs.client \notin Layer
    BY <1>t, <1>n, KindsDiffer DEF Focus
  <2> QED
    BY <1>14, <2>2, <2>3, OtherMapped DEF unmaplayersurfacenotify
<1>15. ASSUME NEW l \in Layer, Grant(l) PROVE FALSE
  BY <1>15, <1>t, <1>n, GrantMoves DEF Grant, Overlaid
<1>16. ASSUME NEW l \in Layer, Revoke(l) PROVE Calm(fs', mapped')
  BY <1>16, <1>t, <1>n DEF Revoke
<1>17. ASSUME NEW s \in Surface, SurfaceGone(s) PROVE Calm(fs', mapped')
  BY <1>17, <1>t, <1>n DEF SurfaceGone, Calm, Overlaid, Agrees, Focus
<1>18. CASE GrabStart
  BY <1>18 DEF GrabStart
<1>19. CASE GrabStop
  <2> DEFINE f == IF fs.client \notin Visible(tagged, minimized) \cup {None}
                  THEN client_unfocus(fs) ELSE fs
  <2>1. Calm(f, mapped)
    BY UnfocusCalm
  <2>2. IF deferred THEN fs' \in focus_restore(f, mapped) ELSE fs' = f
    BY <1>19 DEF GrabStop
  <2> HIDE DEF f
  <2> QED
    BY <1>19, <1>t, <2>1, <2>2, RestoreCalm DEF GrabStop
<1>20. CASE OutputsChange
  BY <1>20, <1>t, RestoreCalm DEF OutputsChange
<1>21. CASE destroydrag
  <2>1. PICK c \in focustop(tagged, mapped) : fs' = focusclient(fs, c, mapped)
    BY <1>21 DEF destroydrag
  <2>2. c \in (Client \cap mapped) \cup {None}
    BY <1>t, TopIsTagged DEF TypeOK, Client
  <2> QED
    BY <1>21, <1>t, <2>1, <2>2, FocusclientCalm DEF destroydrag
<1>22. CASE some_refresh
  <2> DEFINE f == client_focus_refresh(fs)
  <2>1. Calm(f, mapped)
    BY <1>t, <1>n DEF client_focus_refresh, Calm, Overlaid, Agrees, Focus
  <2>2. Calm(banning_refresh(f, ToUnban, ToBan), mapped)
    BY <2>1, BanningRefreshCalm
  <2> QED
    BY <1>22, <2>1, <2>2 DEF some_refresh
<1>23. CASE UNCHANGED vars
  BY <1>23 DEF vars
<1> QED
  BY <1>1, <1>2, <1>3, <1>5, <1>6, <1>7, <1>8, <1>9, <1>10, <1>11, <1>13, <1>14, <1>15,
     <1>16, <1>17, <1>18, <1>19, <1>20, <1>21, <1>22, <1>23 DEF Next

\* No step between states without an overlay makes the seat and the focused
\* client differ, whatever clients, tags, grabs and outputs do.
THEOREM OnlyOverlays == Spec => OnlyOverlaysDisturb
<1>1. IInv /\ [Next]_vars
        => [~Overlaid(fs) /\ ~Overlaid(fs') /\ Agrees(fs, mapped) => Agrees(fs', mapped')]_vars
  <2> SUFFICES ASSUME IInv, [Next]_vars, ~Overlaid(fs), ~Overlaid(fs'), Agrees(fs, mapped)
               PROVE  Agrees(fs', mapped')
    OBVIOUS
  <2>1. Calm(fs, mapped)
    BY DEF Calm, IInv, TypeOK
  <2> QED
    BY <2>1, StepCalm DEF Calm
<1> QED
  BY <1>1, Inductive, PTL DEF Spec, OnlyOverlaysDisturb

\* A session with no overlay that takes the keyboard keeps them agreed.
THEOREM SeatFollowsFocus ==
    ASSUME Layer = {}, Override = {}
    PROVE  Spec => []SeatAgrees
<1>1. Init => Calm(fs, mapped)
  BY InitHolds DEF Init, IInv, TypeOK, Calm, Overlaid, Agrees
<1>2. IInv /\ [Next]_vars /\ IInv' /\ Calm(fs, mapped) => Calm(fs, mapped)'
  <2> SUFFICES ASSUME IInv, [Next]_vars, IInv', Calm(fs, mapped) PROVE Calm(fs', mapped')
    OBVIOUS
  <2>1. ~Overlaid(fs')
    BY DEF IInv, ExclusiveKind, Overlaid
  <2> QED
    BY <2>1, StepCalm
<1>3. Calm(fs, mapped) => SeatAgrees
  BY DEF Calm, SeatAgrees
<1> QED
  BY <1>1, <1>2, <1>3, Inductive, PTL DEF Spec
=============================================================================
