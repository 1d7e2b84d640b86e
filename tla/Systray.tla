------------------------------ MODULE Systray ------------------------------
(***************************************************************************)
(* The icons of the system tray: the C objects and their list              *)
(* (objects/systray.c), how awful.systray fetches and registers the items  *)
(* of the bus (lua/awful/systray.lua), and how a hot reload carries their  *)
(* names over (luaa.c).                                                    *)
(*                                                                         *)
(* A bus name stands for a service with its path.  The properties of an    *)
(* item are fetched before it is registered, so that an answer may come    *)
(* after the item has left the bus, or was announced again.  A picture is  *)
(* "none", a good one, or one of the kinds of bad data.                    *)
(***************************************************************************)
EXTENDS Naturals, Sequences, FiniteSets, SequencesExt

CONSTANTS
    Item,         \* C objects: systray_item_t
    TrayName,     \* names on the bus
    NoName,       \* bus_name == NULL
    Size,         \* good pictures
    Hurried,      \* whether a reload may come before the names are fetched again
    OwnNames,     \* names a configuration gives to items of its own
    Starved,      \* whether the memory of a picture may be refused
    MaxFetches,   \* bound on the requests for an item's properties
    MaxTrayReloads   \* bound on the hot reloads

VARIABLES
    items,      \* systray_items, in order
    tray_refs,  \* references the registry holds on each object
    made,       \* objects that exist or did
    living,     \* objects with is_valid set
    bus_name,   \* of each object
    icon, overlay, attention,   \* their surfaces
    painted,    \* what the widgets drew at the last signal: icon and overlay
    claimed,    \* systray._private.pending_items: the claim of each name, or 0
    fetches,    \* requests on the bus: name and claim
    lastClaim,  \* the last claim; names that are registered together share one
    known,      \* systray._private.items: the object of each name, if any
    present,    \* names the bus announced last
    snapshot,   \* awesome._systray_snapshot, until its idle callback runs
    systrayReloads

systrayVars == <<items, tray_refs, made, living, bus_name, icon, overlay, attention, painted,
                 claimed, fetches, lastClaim, known, present, snapshot, systrayReloads>>

TrayPicture == {"none"} \cup Size
Kind == {"short", "sizeless"} \cup Size

SystrayInit ==
    /\ items = <<>> /\ tray_refs = [i \in Item |-> 0] /\ made = {} /\ living = {}
    /\ bus_name = [i \in Item |-> NoName]
    /\ icon = [i \in Item |-> "none"] /\ overlay = icon /\ attention = icon
    /\ painted = [i \in Item |-> <<"none", "none">>]
    /\ claimed = [n \in TrayName |-> 0] /\ fetches = {} /\ lastClaim = 0
    /\ known = [n \in TrayName |-> {}] /\ present = {}
    /\ snapshot = <<>> /\ systrayReloads = 0

bookVars == <<claimed, fetches, lastClaim, known, present, snapshot, systrayReloads>>
pictureVars == <<icon, overlay, attention, painted>>
objectVars == <<items, tray_refs, made, living, bus_name>>

Trayed == ToSet(items)

(* luaA_object_push(): only an object the registry holds can be pushed,    *)
(* and heard of.                                                           *)
Heard(i) == tray_refs[i] > 0

-----------------------------------------------------------------------------
(* The objects.                                                            *)

\* The object that Lua allocates next.
NextItem(i) == i \in Item \ made /\ i = CHOOSE j \in Item \ made : TRUE

(* register(): a referenced and listed object.                             *)
luaA_systray_item_register(i, n) ==
    /\ NextItem(i)
    /\ made' = made \cup {i} /\ living' = living \cup {i}
    /\ tray_refs' = [tray_refs EXCEPT ![i] = @ + 1]
    /\ items' = Append(items, i)
    /\ bus_name' = [bus_name EXCEPT ![i] = n]

(* systray_item{}: an object that nothing lists.                           *)
systray_item_allocator(i) ==
    /\ NextItem(i)
    /\ made' = made \cup {i} /\ living' = living \cup {i}
    /\ UNCHANGED <<items, tray_refs, bus_name, pictureVars, bookVars>>

(* What unregister() does: the first entry goes, then one reference, if    *)
(* the registry has any.                                                   *)
systray_item_destroy(i) ==
    /\ living' = living \ {i}
    /\ items' = RemoveFirst(items, i)
    /\ tray_refs' = [tray_refs EXCEPT ![i] = IF @ > 0 THEN @ - 1 ELSE 0]
    /\ UNCHANGED <<made, bus_name>>

(* Lua unregisters an object it made itself.                               *)
UnregisterAny(i) ==
    /\ i \in made /\ \A n \in TrayName : i \notin known[n]
    /\ systray_item_destroy(i)
    /\ UNCHANGED <<pictureVars, bookVars>>

-----------------------------------------------------------------------------
(* The pictures.                                                           *)

(* Making a surface: what the item has afterwards, and whether it is told. *)
NewSurface(old, k, starved) ==
    IF k \notin Size THEN <<old, FALSE>>
    ELSE IF starved THEN <<"none", FALSE>> ELSE <<k, TRUE>>

\* A widget draws again what it heard of.
draw_icon(i) == icon'[i]
draw_overlay(i) == overlay'[i]

set_icon_from_pixmap(i, k, starved) ==
    LET m == NewSurface(icon[i], k, starved) IN
    /\ icon' = [icon EXCEPT ![i] = m[1]]
    /\ overlay' = overlay
    /\ painted' = IF m[2] /\ Heard(i) THEN [painted EXCEPT ![i][1] = draw_icon(i)] ELSE painted

set_overlay_from_pixmap(i, k, starved) ==
    LET m == NewSurface(overlay[i], k, starved) IN
    /\ overlay' = [overlay EXCEPT ![i] = m[1]]
    /\ icon' = icon
    /\ painted' = IF m[2] /\ Heard(i) THEN [painted EXCEPT ![i][2] = draw_overlay(i)] ELSE painted

clear_overlay(i) ==
    /\ overlay' = [overlay EXCEPT ![i] = "none"]
    /\ icon' = icon
    /\ painted' = IF Heard(i) THEN [painted EXCEPT ![i][2] = draw_overlay(i)] ELSE painted

(* The attention icon alone is not guarded against sizes below one: the    *)
(* old surface goes, and none, or an empty one, takes its place.           *)
set_attention_pixmap(i, k, starved) ==
    /\ k # "short"
    /\ attention' = [attention EXCEPT ![i] = IF k = "sizeless" \/ starved THEN "none" ELSE k]

(* A new picture comes from the bus.  Data that is too short is an error   *)
(* before anything changes.  An item that was removed may still be given   *)
(* pictures, which nobody hears of: left out.                              *)
NewPicture(i, k, starved) ==
    /\ i \in Trayed /\ (starved => Starved)
    /\ \/ k # "short" /\ set_icon_from_pixmap(i, k, starved) /\ UNCHANGED attention
       \/ k # "short" /\ set_overlay_from_pixmap(i, k, starved) /\ UNCHANGED attention
       \/ set_attention_pixmap(i, k, starved) /\ UNCHANGED <<icon, overlay, painted>>
    /\ UNCHANGED <<objectVars, bookVars>>

NoPicture(i) ==
    /\ i \in Trayed
    /\ clear_overlay(i)
    /\ UNCHANGED <<attention, objectVars, bookVars>>

-----------------------------------------------------------------------------
(* The names on the bus.                                                   *)

(* register_item() up to its request: one item and one request for a name. *)
(* The bus refuses a request for a name that has left before it brings     *)
(* anything else.                                                          *)
Claims(ns, from) ==
    LET new == {n \in ToSet(ns) : n \in present' /\ known[n] = {} /\ claimed[n] = 0} IN
    /\ lastClaim' = IF new = {} THEN lastClaim ELSE lastClaim + 1
    /\ claimed' = [n \in TrayName |-> IF n \in new THEN lastClaim' ELSE claimed[n]]
    /\ fetches' = from \cup {<<n, lastClaim'>> : n \in new}

register_item(n) ==
    /\ Cardinality(fetches) < MaxFetches /\ lastClaim < MaxFetches
    /\ present' = present \cup {n}
    /\ Claims(<<n>>, fetches)
    /\ UNCHANGED <<known, snapshot, systrayReloads, objectVars, pictureVars>>

(* The properties arrive: only for the claim that is still pending.        *)
TrayAnswer(f, i) ==
    /\ f \in fetches
    /\ fetches' = fetches \ {f}
    /\ IF claimed[f[1]] = f[2]
       THEN /\ claimed' = [claimed EXCEPT ![f[1]] = 0]
            /\ known' = [known EXCEPT ![f[1]] = {i}]
            /\ luaA_systray_item_register(i, f[1])
       ELSE UNCHANGED <<claimed, known, objectVars>>
    /\ UNCHANGED <<lastClaim, present, snapshot, systrayReloads, pictureVars>>

(* The item leaves the bus.                                                *)
unregister_item(n) ==
    /\ n \in present
    /\ present' = present \ {n}
    /\ claimed' = [claimed EXCEPT ![n] = 0]
    /\ known' = [known EXCEPT ![n] = {}]
    /\ IF known[n] = {} THEN UNCHANGED objectVars ELSE \E i \in known[n] : systray_item_destroy(i)
    /\ UNCHANGED <<fetches, lastClaim, snapshot, systrayReloads, pictureVars>>

(* A configuration registers an item of its own.                           *)
RegisterOwn(i, n) ==
    /\ luaA_systray_item_register(i, n)
    /\ UNCHANGED <<pictureVars, bookVars>>

-----------------------------------------------------------------------------
(* Hot reload.                                                             *)

(* The names are taken from the C list before the handlers of "exit" run.  *)
Names == [k \in DOMAIN items |-> bus_name[items[k]]]

(* The old objects go with their state; requests under way are forgotten.  *)
systray_hot_reload ==
    /\ systrayReloads < MaxTrayReloads
    /\ Hurried \/ (snapshot = <<>> /\ \A n \in TrayName : claimed[n] = 0)
    /\ systrayReloads' = systrayReloads + 1
    /\ snapshot' = Names
    /\ items' = <<>> /\ living' = {}
    /\ tray_refs' = [i \in Item |-> 0]
    /\ bus_name' = [i \in Item |-> NoName]
    /\ claimed' = [n \in TrayName |-> 0] /\ known' = [n \in TrayName |-> {}]
    /\ fetches' = {}
    /\ icon' = [i \in Item |-> "none"] /\ overlay' = icon' /\ attention' = icon'
    /\ painted' = [i \in Item |-> <<"none", "none">>]
    /\ made' = {}
    /\ UNCHANGED <<present, lastClaim>>

(* The idle callback of the new state: ipairs() ends at the first entry    *)
(* that has no name.                                                       *)
UpTo(ns) ==
    LET holes == {k \in DOMAIN ns : ns[k] = NoName} IN
    SubSeq(ns, 1, IF holes = {} THEN Len(ns) ELSE (CHOOSE k \in holes : \A j \in holes : k <= j) - 1)

Reprobe ==
    /\ snapshot # <<>>
    /\ UNCHANGED <<known, present, systrayReloads, objectVars, pictureVars>>
    /\ Claims(UpTo(snapshot), fetches)
    /\ snapshot' = <<>>

SystrayNext ==
    \/ \E i \in Item :
        \/ systray_item_allocator(i) \/ UnregisterAny(i)
        \/ NoPicture(i)
        \/ \E n \in OwnNames : RegisterOwn(i, n)
        \/ \E k \in Kind, starved \in BOOLEAN : NewPicture(i, k, starved)
        \/ \E f \in fetches : TrayAnswer(f, i)
    \/ \E n \in TrayName : register_item(n) \/ unregister_item(n)
    \/ systray_hot_reload
    \/ Reprobe

SystraySpec == SystrayInit /\ [][SystrayNext]_systrayVars

-----------------------------------------------------------------------------
(* The variables stay in their sets. *)
SystrayTypeOK ==
    /\ Trayed \cup living \subseteq made /\ made \subseteq Item
    /\ tray_refs \in [Item -> Nat] /\ bus_name \in [Item -> TrayName \cup OwnNames \cup {NoName}]
    /\ icon \in [Item -> TrayPicture] /\ overlay \in [Item -> TrayPicture]
    /\ attention \in [Item -> TrayPicture]
    /\ claimed \in [TrayName -> 0..lastClaim] /\ known \in [TrayName -> SUBSET Item]

(* The list that get_items() hands to the widgets (systray.c:787) names    *)
(* each valid object once, and none that the collector could have taken.   *)
TrayListsTheLiving ==
    /\ IsInjective(items)
    /\ \A i \in Trayed : Heard(i) /\ i \in living

(* A name has one icon, whatever order its announcements, its withdrawals  *)
(* and the late answers to the requests for it come in                     *)
(* (lua/awful/systray.lua:345), and a name that has left has none.         *)
OneIconPerName ==
    \A n \in TrayName :
        /\ Cardinality({i \in Trayed : bus_name[i] = n}) <= 1
        /\ n \notin present => \A i \in Trayed : bus_name[i] # n

(* Widgets hear of every change of an icon and its overlay, while the      *)
(* item is listed (systray.c:1001, 1080; memory is not refused).            *)
TrayIsDrawn ==
    \A i \in Trayed : painted[i] = <<icon[i], overlay[i]>>

(* No icon is lost to a reload: every name the bus announced has an item,  *)
(* a request under way, or a place in the snapshot (luaa.c:5732).          *)
TrayOutlivesReload ==
    \A n \in present : known[n] # {} \/ claimed[n] # 0 \/ Contains(UpTo(snapshot), n)
=============================================================================
