--------------------------- MODULE Keyboard_proofs ---------------------------
(***************************************************************************)
(* Proofs about the session locks and the keyboard, for any number of      *)
(* clients, drawins, outputs, covers and keys.                             *)
(*                                                                         *)
(* What the locks keep is inductive with three more facts (Held): the lock *)
(* object of the protocol exists only while its session is locked, its     *)
(* surfaces only while it does, and Lua is authenticated only by a         *)
(* password that was proved since the session locked.  That the keyboard   *)
(* comes back needs also that nobody focuses a client behind the lock      *)
(* (FocusKept), which is Lua's part: it assumes ~FocusesLocked.            *)
(***************************************************************************)
EXTENDS Keyboard, SequenceTheorems, TLAPS

Held ==
    /\ ext.lock => ext.locked
    /\ panes # {} => ext.lock
    /\ lua.auth => proved

LockInv == LockTypeOK /\ LockPointersSound /\ OneLockAtATime /\ Held

FocusKept ==
    /\ ext.locked => focus = None
    /\ lua.locked /\ focus # None => focus = pre

-----------------------------------------------------------------------------
(* Facts about the operators.                                              *)

LEMMA Removed ==
    ASSUME NEW S, NEW s \in Seq(S), NEW i \in 1..Len(s)
    PROVE  /\ RemoveAt(s, i) \in Seq(S)
           /\ Len(RemoveAt(s, i)) = Len(s) - 1
           /\ \A j \in 1..(Len(s) - 1) :
                 RemoveAt(s, i)[j] = IF j < i THEN s[j] ELSE s[j + 1]
  <1> DEFINE a == SubSeq(s, 1, i - 1)
             b == SubSeq(s, i + 1, Len(s))
  <1>1. a \in Seq(S) /\ Len(a) = i - 1 /\ \A j \in 1..(i - 1) : a[j] = s[j]
    OBVIOUS
  <1>2. b \in Seq(S) /\ Len(b) = Len(s) - i /\ \A j \in 1..(Len(s) - i) : b[j] = s[j + i]
    OBVIOUS
  <1>3. RemoveAt(s, i) = a \o b
    BY DEF RemoveAt
  <1> HIDE DEF a, b
  <1>4. /\ a \o b \in Seq(S) /\ Len(a \o b) = Len(a) + Len(b)
        /\ \A j \in 1..(Len(a) + Len(b)) :
              (a \o b)[j] = IF j <= Len(a) THEN a[j] ELSE b[j - Len(a)]
    BY <1>1, <1>2, ConcatProperties
  <1>5. ASSUME NEW j \in 1..(Len(s) - 1)
        PROVE  (a \o b)[j] = IF j < i THEN s[j] ELSE s[j + 1]
    <2>1. CASE j < i
      BY <1>1, <1>2, <1>4, <2>1
    <2>2. CASE ~(j < i)
      <3>1. (a \o b)[j] = b[j - (i - 1)] /\ j - (i - 1) \in 1..(Len(s) - i)
        BY <1>1, <1>2, <1>4, <2>2
      <3>2. b[j - (i - 1)] = s[(j - (i - 1)) + i] /\ (j - (i - 1)) + i = j + 1
        BY <1>2, <3>1
      <3> QED
        BY <2>2, <3>1, <3>2
    <2> QED
      BY <2>1, <2>2
  <1> QED
    BY <1>1, <1>2, <1>3, <1>4, <1>5

LEMMA RemovedInjective ==
    ASSUME NEW S, NEW s \in Seq(S), NEW i \in 1..Len(s), IsInjective(s)
    PROVE  IsInjective(RemoveAt(s, i))
  <1> DEFINE r == RemoveAt(s, i)
  <1>1. /\ r \in Seq(S) /\ Len(r) = Len(s) - 1
        /\ \A j \in 1..(Len(s) - 1) : r[j] = IF j < i THEN s[j] ELSE s[j + 1]
    BY Removed
  <1> HIDE DEF r
  <1> SUFFICES ASSUME NEW j \in 1..(Len(s) - 1), NEW k \in 1..(Len(s) - 1), r[j] = r[k]
               PROVE  j = k
    BY <1>1 DEF r, IsInjective
  <1>2. \A m, n \in 1..Len(s) : s[m] = s[n] => m = n
    BY DEF IsInjective
  <1>3. PICK m \in 1..Len(s), n \in 1..Len(s) :
            /\ m = (IF j < i THEN j ELSE j + 1) /\ r[j] = s[m]
            /\ n = (IF k < i THEN k ELSE k + 1) /\ r[k] = s[n]
    BY <1>1
  <1>4. m = n
    BY <1>2, <1>3
  <1> QED
    BY <1>3, <1>4

LEMMA AppendedInjective ==
    ASSUME NEW S, NEW s \in Seq(S), NEW x \in S, x \notin Range(s), IsInjective(s)
    PROVE  /\ Append(s, x) \in Seq(S) /\ Len(Append(s, x)) = Len(s) + 1
           /\ IsInjective(Append(s, x))
  <1>1. /\ Append(s, x) \in Seq(S) /\ Len(Append(s, x)) = Len(s) + 1
        /\ \A j \in 1..Len(s) : Append(s, x)[j] = s[j] /\ s[j] # x
        /\ Append(s, x)[Len(s) + 1] = x
        /\ DOMAIN Append(s, x) = 1..(Len(s) + 1)
    BY DEF Range
  <1>2. \A m, n \in 1..Len(s) : s[m] = s[n] => m = n
    BY DEF IsInjective
  <1> QED
    BY <1>1, <1>2 DEF IsInjective

(* A lock surface or cover that goes away.                                 *)
LEMMA CoverRemoved ==
    ASSUME LockTypeOK, LockPointersSound, NEW i \in DOMAIN covers, remove_lock_cover_at(i)
    PROVE  /\ covers' \in Seq(Drawin) /\ coverRefs' = covers'
           /\ Len(covers') <= MaxCovers /\ IsInjective(covers')
  <1>1. /\ covers \in Seq(Drawin) /\ coverRefs = covers /\ IsInjective(covers)
        /\ Len(covers) <= MaxCovers /\ i \in 1..Len(covers)
    BY DEF LockTypeOK, LockPointersSound
  <1>2. covers' = RemoveAt(covers, i) /\ coverRefs' = covers'
    BY <1>1 DEF remove_lock_cover_at
  <1>3. covers' \in Seq(Drawin) /\ Len(covers') = Len(covers) - 1 /\ IsInjective(covers')
    BY <1>1, <1>2, Removed, RemovedInjective
  <1> QED
    BY <1>1, <1>2, <1>3, MaxCoversAssumption

(* The end of the Lua lock puts the focus, and with it the keyboard, on    *)
(* clients that are shown, or leaves them where they are.                  *)
LEMMA Deactivation ==
    ASSUME LockTypeOK, Deactivated(Unlocked)
    PROVE  /\ pre' = None
           /\ focus' \in shown \cup {None}
           /\ seat' \in shown \cup {seat}
  BY DEF Deactivated, focusclient, focus_restore, LockTypeOK

-----------------------------------------------------------------------------
(* The locks: each action preserves LockInv.                               *)

LEMMA InitLockInv == Init => LockInv /\ FocusKept
  <1> SUFFICES ASSUME Init PROVE LockInv /\ FocusKept
    OBVIOUS
  <1>1. LockTypeOK
    <2>1. covers \in Seq(Drawin) /\ coverRefs \in Seq(Drawin) /\ Len(covers) = 0
      BY DEF Init
    <2>2. /\ lua \in [locked : BOOLEAN, auth : BOOLEAN]
          /\ ext \in [locked : BOOLEAN, lock : BOOLEAN]
      BY DEF Init
    <2>3. /\ {surface, pinned} \subseteq Drawin \cup {None}
          /\ panes \subseteq Output /\ selmon \in Output
          /\ shown \subseteq listed /\ listed \subseteq Client
          /\ pre \in Client \cup {None} /\ focus \in shown \cup {None}
          /\ seat \in shown \cup panes \cup {None} /\ proved \in BOOLEAN
      BY DEF Init
    <2> QED
      BY <2>1, <2>2, <2>3, MaxCoversAssumption DEF LockTypeOK
  <1>2. LockPointersSound /\ OneLockAtATime /\ Held /\ FocusKept
    BY DEF Init, LockPointersSound, OneLockAtATime, Held, FocusKept, IsInjective
  <1> QED
    BY <1>1, <1>2 DEF LockInv

(* The steps that leave the locks, what they remember and the outputs as   *)
(* they are.                                                               *)
LEMMA FocusSteps ==
    ASSUME LockInv,
           UNCHANGED <<lua, surface, pinned, covers, coverRefs, ext, panes, selmon, proved>>,
           listed' \subseteq Client, shown' \subseteq listed',
           pre' \in listed' \cup {None},
           focus' \in shown' \cup {None}, seat' \in shown' \cup panes \cup {None}
    PROVE  LockInv'
  BY DEF LockInv, LockTypeOK, LockPointersSound, OneLockAtATime, Held

LEMMA ClientSteps ==
    ASSUME LockInv, NEW c \in Client,
           LuaFocuses(c) \/ MapNotify(c) \/ UnmapNotify(c) \/ client_unmanage(c)
    PROVE  LockInv'
  <1>1. /\ UNCHANGED <<lua, surface, pinned, covers, coverRefs, ext, panes, selmon, proved>>
    BY DEF LuaFocuses, MapNotify, UnmapNotify, client_unmanage, lockVars
  <1>2. /\ listed \subseteq Client /\ shown \subseteq listed /\ pre \in listed \cup {None}
        /\ focus \in shown \cup {None} /\ seat \in shown \cup panes \cup {None}
        /\ None \notin Client
    BY NoneAssumption DEF LockInv, LockTypeOK, LockPointersSound
  <1>3. CASE LuaFocuses(c)
    BY <1>1, <1>2, <1>3, FocusSteps DEF LuaFocuses, lockVars
  <1>4. CASE MapNotify(c)
    BY <1>1, <1>2, <1>4, FocusSteps DEF MapNotify, lockVars
  <1>5. CASE UnmapNotify(c)
    BY <1>1, <1>2, <1>5, FocusSteps DEF UnmapNotify, lockVars
  <1>6. CASE client_unmanage(c)
    BY <1>1, <1>2, <1>6, FocusSteps DEF client_unmanage
  <1> QED
    BY <1>3, <1>4, <1>5, <1>6

LEMMA RefreshLockInv ==
    ASSUME LockInv, client_focus_refresh
    PROVE  LockInv'
  <1>1. /\ UNCHANGED <<lua, surface, pinned, covers, coverRefs, ext, panes, selmon, proved>>
        /\ UNCHANGED <<listed, shown, pre, focus>> /\ seat' = None
    BY DEF client_focus_refresh, lockVars
  <1> QED
    BY <1>1, FocusSteps DEF LockInv, LockTypeOK, LockPointersSound

(* The steps of the Lua lock.                                              *)
LEMMA LuaLockSteps ==
    ASSUME LockInv,
           UNCHANGED <<ext, panes, selmon, listed, shown>>,
           lua' \in [locked : BOOLEAN, auth : BOOLEAN],
           lua'.locked => ~ext.locked,
           proved' \in BOOLEAN, lua'.auth => proved',
           surface' \in Drawin \cup {None}, pinned' = surface',
           covers' \in Seq(Drawin), coverRefs' = covers', Len(covers') <= MaxCovers,
           IsInjective(covers'),
           pre' \in listed \cup {None},
           focus' \in shown \cup {None}, seat' \in shown \cup {seat, None}
    PROVE  LockInv'
  <1>1. LockTypeOK'
    BY DEF LockInv, LockTypeOK
  <1>2. LockPointersSound' /\ OneLockAtATime' /\ Held'
    BY DEF LockInv, LockPointersSound, OneLockAtATime, Held
  <1> QED
    BY <1>1, <1>2 DEF LockInv

LEMMA LockAndUnlock ==
    ASSUME LockInv, Lock \/ Unlock \/ \E success \in BOOLEAN : authenticate(success)
    PROVE  LockInv'
  <1>0. LockTypeOK /\ LockPointersSound /\ OneLockAtATime /\ Held
    BY DEF LockInv
  <1>1. /\ UNCHANGED <<surface, pinned, covers, coverRefs, ext, panes, selmon, listed, shown>>
    BY DEF Lock, Unlock, authenticate, focusVars
  <1>2. /\ surface \in Drawin \cup {None} /\ pinned = surface
        /\ covers \in Seq(Drawin) /\ coverRefs = covers /\ Len(covers) <= MaxCovers
        /\ IsInjective(covers) /\ pre \in listed \cup {None}
        /\ focus \in shown \cup {None} /\ shown \subseteq listed
        /\ proved \in BOOLEAN /\ lua \in [locked : BOOLEAN, auth : BOOLEAN]
    BY <1>0 DEF LockTypeOK, LockPointersSound
  <1>3. CASE Lock
    <2>1. /\ lua' = [locked |-> TRUE, auth |-> FALSE] /\ ~ext.locked
          /\ pre' = focus /\ seat' = None /\ proved' = FALSE /\ focus' = focus
      BY <1>3 DEF Lock
    <2> QED
      BY <1>1, <1>2, <2>1, LuaLockSteps
  <1>4. CASE Unlock
    <2>1. lua' = Unlocked /\ Deactivated(Unlocked) /\ proved' = proved
      BY <1>4 DEF Unlock
    <2>2. lua' \in [locked : BOOLEAN, auth : BOOLEAN] /\ ~lua'.locked /\ ~lua'.auth
      BY <2>1 DEF Unlocked
    <2>3. pre' = None /\ focus' \in shown \cup {None} /\ seat' \in shown \cup {seat}
      BY <1>0, <2>1, Deactivation
    <2> QED
      BY <1>1, <1>2, <2>1, <2>2, <2>3, LuaLockSteps
  <1>5. ASSUME NEW success \in BOOLEAN, authenticate(success) PROVE LockInv'
    <2>1. /\ lua' = [lua EXCEPT !.auth = @ \/ success]
          /\ proved' = (proved \/ success)
          /\ UNCHANGED <<pre, focus, seat>>
      BY <1>5 DEF authenticate, focusVars
    <2>2. /\ lua' \in [locked : BOOLEAN, auth : BOOLEAN]
          /\ lua'.locked = lua.locked /\ lua'.auth = (lua.auth \/ success)
      BY <1>2, <2>1
    <2>3. lua'.auth => proved'
      BY <1>0, <2>1, <2>2 DEF Held
    <2>4. lua'.locked => ~ext.locked
      BY <1>0, <2>2 DEF OneLockAtATime
    <2>5. proved' \in BOOLEAN
      BY <2>1
    <2> QED
      BY <1>1, <1>2, <2>1, <2>2, <2>3, <2>4, <2>5, LuaLockSteps
  <1> QED
    BY <1>3, <1>4, <1>5

(* The drawins that Lua registers.                                         *)
LEMMA DrawinSteps ==
    ASSUME LockInv,
           \/ \E d \in Drawin : set_lock_surface(d) \/ add_lock_cover(d) \/ RemoveLockCover(d)
           \/ clear_lock_surface \/ clear_lock_covers
    PROVE  LockInv'
  <1>0. LockTypeOK /\ LockPointersSound /\ OneLockAtATime /\ Held
    BY DEF LockInv
  <1>1. UNCHANGED <<lua, pre, ext, panes, selmon, listed, shown, focus, seat, proved>>
    BY DEF set_lock_surface, add_lock_cover, RemoveLockCover, clear_lock_surface,
           clear_lock_covers, focusVars
  <1>2. /\ surface \in Drawin \cup {None} /\ pinned = surface
        /\ covers \in Seq(Drawin) /\ coverRefs = covers /\ Len(covers) <= MaxCovers
        /\ IsInjective(covers) /\ pre \in listed \cup {None}
        /\ focus \in shown \cup {None}
        /\ proved \in BOOLEAN /\ lua \in [locked : BOOLEAN, auth : BOOLEAN]
        /\ (lua.locked => ~ext.locked) /\ (lua.auth => proved)
    BY <1>0 DEF LockTypeOK, LockPointersSound, OneLockAtATime, Held
  <1>3. ASSUME /\ surface' \in Drawin \cup {None} /\ pinned' = surface'
               /\ covers' \in Seq(Drawin) /\ coverRefs' = covers'
               /\ Len(covers') <= MaxCovers /\ IsInjective(covers')
        PROVE  LockInv'
    BY <1>1, <1>3, <1>2, LuaLockSteps
  <1>4. CASE (\E d \in Drawin : set_lock_surface(d)) \/ clear_lock_surface
    BY <1>2, <1>3, <1>4 DEF set_lock_surface, clear_lock_surface
  <1>5. ASSUME NEW d \in Drawin, add_lock_cover(d) PROVE LockInv'
    <2>1. /\ d \notin Range(covers) /\ Len(covers) < MaxCovers
          /\ covers' = Append(covers, d) /\ coverRefs' = Append(coverRefs, d)
          /\ UNCHANGED <<surface, pinned>>
      BY <1>5 DEF add_lock_cover
    <2>2. covers' \in Seq(Drawin) /\ Len(covers') = Len(covers) + 1 /\ IsInjective(covers')
      BY <1>2, <2>1, AppendedInjective
    <2>3. Len(covers') <= MaxCovers
      BY <1>2, <2>1, <2>2, MaxCoversAssumption
    <2> QED
      BY <1>2, <1>3, <2>1, <2>2, <2>3
  <1>6. ASSUME NEW d \in Drawin, RemoveLockCover(d) PROVE LockInv'
    <2>1. PICK i \in DOMAIN covers : remove_lock_cover_at(i)
      BY <1>6 DEF RemoveLockCover
    <2>2. UNCHANGED <<surface, pinned>>
      BY <1>6 DEF RemoveLockCover
    <2> QED
      BY <1>0, <1>2, <1>3, <2>1, <2>2, CoverRemoved
  <1>7. CASE clear_lock_covers
    <2>1. covers' = <<>> /\ coverRefs' = <<>> /\ UNCHANGED <<surface, pinned>>
      BY <1>7 DEF clear_lock_covers
    <2>2. covers' \in Seq(Drawin) /\ Len(covers') = 0 /\ IsInjective(covers')
      BY <2>1 DEF IsInjective
    <2> QED
      BY <1>2, <1>3, <2>1, <2>2, MaxCoversAssumption
  <1> QED
    BY <1>4, <1>5, <1>6, <1>7

LEMMA DrawinDestroyedLockInv ==
    ASSUME LockInv, NEW d \in Drawin, DrawinDestroyed(d)
    PROVE  LockInv'
  <1>0. LockTypeOK /\ LockPointersSound /\ OneLockAtATime /\ Held
    BY DEF LockInv
  <1>1. UNCHANGED <<ext, panes, selmon, listed, shown, proved>>
    BY DEF DrawinDestroyed
  <1>2. /\ pre \in listed \cup {None} /\ focus \in shown \cup {None}
        /\ proved \in BOOLEAN /\ lua \in [locked : BOOLEAN, auth : BOOLEAN]
        /\ (lua.locked => ~ext.locked) /\ (lua.auth => proved)
    BY <1>0 DEF LockTypeOK, LockPointersSound, OneLockAtATime, Held
  <1>3. surface' \in Drawin \cup {None} /\ pinned' = surface'
    BY <1>0 DEF DrawinDestroyed, LockTypeOK, LockPointersSound
  <1>4. /\ covers' \in Seq(Drawin) /\ coverRefs' = covers'
        /\ Len(covers') <= MaxCovers /\ IsInjective(covers')
    <2>1. CASE d \in Range(covers)
      BY <1>0, <2>1, CoverRemoved DEF DrawinDestroyed
    <2>2. CASE d \notin Range(covers)
      BY <1>0, <2>2 DEF DrawinDestroyed, LockTypeOK, LockPointersSound
    <2> QED
      BY <2>1, <2>2
  <1>5. CASE lua' = Unlocked /\ Deactivated(Unlocked)
    <2>1. lua' \in [locked : BOOLEAN, auth : BOOLEAN] /\ ~lua'.locked /\ ~lua'.auth
      BY <1>5 DEF Unlocked
    <2>2. pre' = None /\ focus' \in shown \cup {None} /\ seat' \in shown \cup {seat}
      BY <1>0, <1>5, Deactivation
    <2> QED
      BY <1>1, <1>2, <1>3, <1>4, <2>1, <2>2, LuaLockSteps
  <1>6. CASE UNCHANGED <<lua, pre, focus, seat>>
    BY <1>1, <1>2, <1>3, <1>4, <1>6, LuaLockSteps
  <1> QED
    BY <1>5, <1>6 DEF DrawinDestroyed

LEMMA ReloadLockInv ==
    ASSUME LockInv, NEW safe \in BOOLEAN, lock_hot_reload(safe)
    PROVE  LockInv'
  <1>0. LockTypeOK /\ LockPointersSound /\ OneLockAtATime /\ Held
    BY DEF LockInv
  <1>1. /\ UNCHANGED <<ext, panes, selmon, listed, shown, proved>>
        /\ lua' = Unlocked
        /\ surface' = None /\ pinned' = None /\ covers' = <<>> /\ coverRefs' = <<>>
    BY DEF lock_hot_reload
  <1>2. /\ pre \in listed \cup {None} /\ focus \in shown \cup {None} /\ proved \in BOOLEAN
    BY <1>0 DEF LockTypeOK, LockPointersSound
  <1>3. covers' \in Seq(Drawin) /\ Len(covers') <= MaxCovers /\ IsInjective(covers')
    BY <1>1, MaxCoversAssumption DEF IsInjective
  <1>4. lua' \in [locked : BOOLEAN, auth : BOOLEAN] /\ ~lua'.locked /\ ~lua'.auth
    BY <1>1 DEF Unlocked
  <1>5. /\ pre' \in listed \cup {None} /\ focus' \in shown \cup {None}
        /\ seat' \in shown \cup {seat}
    <2>1. CASE lua.locked /\ safe
      BY <1>0, <2>1, Deactivation DEF lock_hot_reload
    <2>2. CASE ~(lua.locked /\ safe)
      BY <1>2, <2>2 DEF lock_hot_reload
    <2> QED
      BY <2>1, <2>2
  <1> QED
    BY <1>1, <1>2, <1>3, <1>4, <1>5, LuaLockSteps

(* The steps of the protocol's lock.                                       *)
LEMMA ProtocolSteps ==
    ASSUME LockInv,
           UNCHANGED <<lockVars, listed, shown, proved>>,
           ext' \in [locked : BOOLEAN, lock : BOOLEAN],
           panes' \subseteq Output, selmon' \in Output,
           ~(lua.locked /\ ext'.locked), ext'.lock => ext'.locked, panes' # {} => ext'.lock,
           focus' \in shown \cup {None}, seat' \in shown \cup panes' \cup {None}
    PROVE  LockInv'
  <1>1. UNCHANGED <<lua, surface, pinned, covers, coverRefs, pre>>
    BY DEF lockVars
  <1>2. LockTypeOK'
    BY <1>1 DEF LockInv, LockTypeOK
  <1>3. LockPointersSound' /\ OneLockAtATime' /\ Held'
    BY <1>1 DEF LockInv, LockPointersSound, OneLockAtATime, Held
  <1> QED
    BY <1>2, <1>3 DEF LockInv

LEMMA OutputSteps ==
    ASSUME LockInv,
           \/ locksession
           \/ \E m \in Output :
                 createlocksurface(m) \/ destroylocksurface(m) \/ SelectOutput(m)
           \/ \E unlock \in BOOLEAN : destroylock(unlock)
    PROVE  LockInv'
  <1>1. UNCHANGED <<lockVars, listed, shown, proved>>
    BY DEF locksession, createlocksurface, destroylocksurface, SelectOutput, destroylock,
           focusVars
  <1>2. /\ ext \in [locked : BOOLEAN, lock : BOOLEAN]
        /\ panes \subseteq Output /\ selmon \in Output
        /\ ~(lua.locked /\ ext.locked) /\ (ext.lock => ext.locked) /\ (panes # {} => ext.lock)
        /\ focus \in shown \cup {None} /\ seat \in shown \cup panes \cup {None}
        /\ shown \subseteq Client
    BY DEF LockInv, LockTypeOK, OneLockAtATime, Held
  <1>3. CASE locksession
    <2>1. /\ ext' = [locked |-> TRUE, lock |-> TRUE] /\ ~lua.locked
          /\ focusclient(None, lua, ext) /\ UNCHANGED <<panes, selmon>>
      BY <1>3 DEF locksession
    <2>2. focus' \in shown \cup {None} /\ seat' = seat
      BY <1>2, <2>1, NoneAssumption DEF focusclient
    <2> QED
      BY <1>1, <1>2, <2>1, <2>2, ProtocolSteps
  <1>4. ASSUME NEW m \in Output, createlocksurface(m) PROVE LockInv'
    <2>1. /\ ext.lock /\ panes' = panes \cup {m} /\ UNCHANGED <<ext, selmon, focus>>
          /\ seat' = (IF m = selmon THEN m ELSE seat)
      BY <1>4 DEF createlocksurface
    <2> QED
      BY <1>1, <1>2, <2>1, ProtocolSteps
  <1>5. ASSUME NEW m \in Output, destroylocksurface(m) PROVE LockInv'
    <2>1. m \in panes /\ panes' = panes \ {m} /\ UNCHANGED <<ext, selmon>> /\ ext.locked
      BY <1>2, <1>5 DEF destroylocksurface
    <2>2. focus' = focus /\ seat' \in shown \cup panes' \cup {None}
      BY <1>2, <1>5, <2>1 DEF destroylocksurface
    <2> QED
      BY <1>1, <1>2, <2>1, <2>2, ProtocolSteps
  <1>6. ASSUME NEW m \in Output, SelectOutput(m) PROVE LockInv'
    BY <1>1, <1>2, <1>6, ProtocolSteps DEF SelectOutput, focusVars
  <1>7. ASSUME NEW unlock \in BOOLEAN, destroylock(unlock) PROVE LockInv'
    <2>1. /\ ext.lock /\ ext' = [locked |-> ~unlock, lock |-> FALSE] /\ panes' = {}
          /\ selmon' = selmon
          /\ focus' \in shown \cup {None} /\ seat' \in shown \cup {None}
      BY <1>2, <1>7 DEF destroylock, lockVars
    <2>2. ext' \in [locked : BOOLEAN, lock : BOOLEAN] /\ ~ext'.lock
      BY <2>1
    <2> QED
      BY <1>1, <1>2, <2>1, <2>2, ProtocolSteps
  <1> QED
    BY <1>3, <1>4, <1>5, <1>6, <1>7

LEMMA SameLockInv == LockInv /\ UNCHANGED vars => LockInv'
  BY DEF LockInv, LockTypeOK, LockPointersSound, OneLockAtATime, Held, vars, lockVars,
         focusVars

LEMMA NextLockInv ==
    ASSUME LockInv, LockNext \/ (\E safe \in BOOLEAN : lock_hot_reload(safe)) \/ UNCHANGED vars
    PROVE  LockInv'
  <1>1. CASE LockNext
    <2>1. CASE \E c \in Client :
                  LuaFocuses(c) \/ MapNotify(c) \/ UnmapNotify(c) \/ client_unmanage(c)
      BY <2>1, ClientSteps
    <2>2. CASE client_focus_refresh
      BY <2>2, RefreshLockInv
    <2>3. CASE Lock \/ Unlock \/ \E success \in BOOLEAN : authenticate(success)
      BY <2>3, LockAndUnlock
    <2>4. CASE \/ \E d \in Drawin : set_lock_surface(d) \/ add_lock_cover(d) \/ RemoveLockCover(d)
               \/ clear_lock_surface \/ clear_lock_covers
      BY <2>4, DrawinSteps
    <2>5. CASE \E d \in Drawin : DrawinDestroyed(d)
      BY <2>5, DrawinDestroyedLockInv
    <2>6. CASE \/ locksession
               \/ \E m \in Output :
                     createlocksurface(m) \/ destroylocksurface(m) \/ SelectOutput(m)
               \/ \E unlock \in BOOLEAN : destroylock(unlock)
      BY <2>6, OutputSteps
    <2> QED
      BY <1>1, <2>1, <2>2, <2>3, <2>4, <2>5, <2>6 DEF LockNext
  <1> QED
    BY <1>1, ReloadLockInv, SameLockInv

(* While the session is locked the focus is what the Lua lock saved, or    *)
(* nothing.                                                                *)
LEMMA NextFocusKept ==
    ASSUME LockInv, ~FocusesLocked, FocusKept,
           LockNext \/ (\E safe \in BOOLEAN : lock_hot_reload(safe)) \/ UNCHANGED vars
    PROVE  FocusKept'
  <1>0. /\ LockTypeOK /\ OneLockAtATime /\ Held
        /\ (ext.locked => focus = None) /\ (lua.locked /\ focus # None => focus = pre)
    BY DEF LockInv, FocusKept
  <1>1. ASSUME NEW c \in Client,
               LuaFocuses(c) \/ MapNotify(c) \/ UnmapNotify(c) \/ client_unmanage(c)
        PROVE  FocusKept'
    <2>1. CASE LuaFocuses(c)
      <3>1. ~session_is_locked(lua, ext) /\ UNCHANGED <<lua, ext>>
        BY <2>1 DEF LuaFocuses, lockVars
      <3> QED
        BY <3>1 DEF session_is_locked, FocusKept
    <2>2. CASE MapNotify(c)
      BY <1>0, <2>2 DEF MapNotify, lockVars, FocusKept
    <2>3. CASE UnmapNotify(c)
      BY <1>0, <2>3 DEF UnmapNotify, lockVars, FocusKept
    <2>4. CASE client_unmanage(c)
      <3>1. focus # c
        BY <1>0, <2>4, NoneAssumption DEF client_unmanage, LockTypeOK
      <3> QED
        BY <1>0, <2>4, <3>1 DEF client_unmanage, FocusKept
    <2> QED
      BY <1>1, <2>1, <2>2, <2>3, <2>4
  <1>2. CASE client_focus_refresh
    BY <1>0, <1>2 DEF client_focus_refresh, lockVars, FocusKept
  <1>3. CASE Lock
    BY <1>0, <1>3 DEF Lock, FocusKept
  <1>4. CASE Unlock
    <2>1. ~lua'.locked /\ ext' = ext /\ ~ext.locked
      BY <1>0, <1>4 DEF Unlock, Unlocked, OneLockAtATime
    <2> QED
      BY <2>1 DEF FocusKept
  <1>5. ASSUME NEW success \in BOOLEAN, authenticate(success) PROVE FocusKept'
    <2>1. lua'.locked = lua.locked /\ UNCHANGED <<ext, pre, focus>>
      BY <1>0, <1>5 DEF authenticate, focusVars, LockTypeOK
    <2> QED
      BY <1>0, <2>1 DEF FocusKept
  <1>6. CASE \/ \E d \in Drawin : set_lock_surface(d) \/ add_lock_cover(d) \/ RemoveLockCover(d)
             \/ clear_lock_surface \/ clear_lock_covers \/ UNCHANGED vars
    <2>1. UNCHANGED <<lua, pre, ext, focus>>
      BY <1>6 DEF set_lock_surface, add_lock_cover, RemoveLockCover, clear_lock_surface,
                  clear_lock_covers, focusVars, vars, lockVars
    <2> QED
      BY <1>0, <2>1 DEF FocusKept
  <1>7. ASSUME NEW d \in Drawin, DrawinDestroyed(d) PROVE FocusKept'
    <2>1. CASE lua.locked /\ lua' = Unlocked
      <3>1. ~lua'.locked /\ ext' = ext /\ ~ext.locked
        BY <1>0, <1>7, <2>1 DEF DrawinDestroyed, Unlocked, OneLockAtATime
      <3> QED
        BY <3>1 DEF FocusKept
    <2>2. CASE UNCHANGED <<lua, pre, focus, seat>>
      <3>1. ext' = ext
        BY <1>7 DEF DrawinDestroyed
      <3> QED
        BY <1>0, <2>2, <3>1 DEF FocusKept
    <2> QED
      BY <1>7, <2>1, <2>2 DEF DrawinDestroyed
  <1>8. CASE locksession
    <2>1. /\ ~lua.locked /\ lua' = lua
          /\ IF ext.locked THEN focus' = focus ELSE focus' = None
      BY <1>8 DEF locksession, lockVars, focusclient, session_is_locked
    <2> QED
      BY <1>0, <2>1 DEF FocusKept
  <1>9. ASSUME NEW m \in Output,
               createlocksurface(m) \/ destroylocksurface(m) \/ SelectOutput(m)
        PROVE  FocusKept'
    <2>1. UNCHANGED <<lua, pre, ext, focus>>
      BY <1>0, <1>9 DEF createlocksurface, destroylocksurface, SelectOutput, lockVars,
                        focusVars, Held
    <2> QED
      BY <1>0, <2>1 DEF FocusKept
  <1>10. ASSUME NEW unlock \in BOOLEAN, destroylock(unlock) PROVE FocusKept'
    <2>1. /\ ext.locked /\ ~lua.locked /\ lua' = lua
          /\ ext' = [locked |-> ~unlock, lock |-> FALSE]
          /\ unlock \/ focus' = focus
      BY <1>0, <1>10 DEF destroylock, lockVars, Held, OneLockAtATime
    <2> QED
      BY <1>0, <2>1 DEF FocusKept
  <1>11. ASSUME NEW safe \in BOOLEAN, lock_hot_reload(safe) PROVE FocusKept'
    <2>1. ~lua'.locked /\ ext' = ext
      BY <1>11 DEF lock_hot_reload, Unlocked
    <2>2. CASE lua.locked
      BY <1>0, <2>1, <2>2 DEF FocusKept, OneLockAtATime
    <2>3. CASE ~lua.locked
      <3>1. focus' = focus
        BY <1>11, <2>3 DEF lock_hot_reload
      <3> QED
        BY <1>0, <2>1, <3>1 DEF FocusKept
    <2> QED
      BY <2>2, <2>3
  <1> QED
    BY <1>1, <1>2, <1>3, <1>4, <1>5, <1>6, <1>7, <1>8, <1>9, <1>10, <1>11 DEF LockNext

-----------------------------------------------------------------------------
(* The keys: a step moves the keyboard from surface to surface, or moves a *)
(* key, or does neither.                                                   *)

LEMMA RepeatTypes ==
    /\ Idle \in Repeat /\ Idle.key = None
    /\ \A k \in Key : Armed(k) \in Repeat
    /\ \A r \in Repeat : /\ [r EXCEPT !.timer = FALSE] \in Repeat
                         /\ [r EXCEPT !.timer = FALSE].key = r.key
  <1>1. Idle \in Repeat /\ Idle.key = None
    BY DEF Idle, Repeat
  <1>2. \A k \in Key : Armed(k) \in Repeat
    BY DEF Armed, Repeat
  <1>3. ASSUME NEW r \in Repeat
        PROVE  [r EXCEPT !.timer = FALSE] \in Repeat /\ [r EXCEPT !.timer = FALSE].key = r.key
    BY DEF Repeat
  <1> QED
    BY <1>1, <1>2, <1>3

LEMMA InitKeys == KeyboardInit => KeyTypeOK /\ KeysSound
  <1> SUFFICES ASSUME KeyboardInit PROVE KeyTypeOK /\ KeysSound
    OBVIOUS
  <1>1. KeyTypeOK
    BY DEF KeyboardInit, KeyTypeOK, Idle, Repeat
  <1>2. KeysSound
    BY DEF KeyboardInit, KeysSound, RepeatsTheNewest, StuckOnlyIfEaten,
           LayoutChangeWillBeHeard, Idle
  <1> QED
    BY <1>1, <1>2

LEMMA SeatIsSurface == LockTypeOK => seat \in Surface \cup {None}
  BY DEF LockTypeOK, Surface

(* Whoever is entered is told of the held keys, and whoever is left of     *)
(* none.                                                                   *)
LEMMA EnteredKeys ==
    ASSUME KeyTypeOK, KeysSound, told' = Entered,
           UNCHANGED <<down, newest, eaten, repeat>>,
           grabber' \in BOOLEAN,
           xkb' \in [map : BOOLEAN, group : BOOLEAN, pending : BOOLEAN, source : BOOLEAN],
           LayoutChangeWillBeHeard'
    PROVE  (KeyTypeOK /\ KeysSound)'
  <1>1. told' \in [Surface -> SUBSET Key]
    BY DEF KeyTypeOK, Entered
  <1>2. KeyTypeOK'
    BY <1>1 DEF KeyTypeOK
  <1>3. StuckOnlyIfEaten'
    <2> SUFFICES ASSUME NEW s \in Surface
                 PROVE  told'[s] \subseteq (IF s = seat' THEN down' \cup eaten' ELSE {})
      BY DEF StuckOnlyIfEaten
    <2>1. told[s] \subseteq (IF s = seat THEN down \cup eaten ELSE {})
      BY DEF KeysSound, StuckOnlyIfEaten
    <2>2. told'[s] = IF s = seat' /\ s # seat THEN down
                     ELSE IF s # seat' THEN {} ELSE told[s]
      BY DEF Entered
    <2> QED
      BY <2>1, <2>2
  <1>4. RepeatsTheNewest'
    BY DEF KeysSound, RepeatsTheNewest
  <1> QED
    BY <1>2, <1>3, <1>4 DEF KeysSound

LEMMA PressKeys ==
    ASSUME LockTypeOK, KeyTypeOK, KeysSound, NEW k \in Key, Press(k)
    PROVE  (KeyTypeOK /\ KeysSound)'
  <1>1. /\ down' = down \cup {k} /\ newest' = k /\ eaten' = eaten \ {k}
        /\ Handled(k, TRUE) /\ UNCHANGED <<vars, grabber, xkb>> /\ seat' = seat
    BY DEF Press, vars, focusVars
  <1>2. repeat' \in {Armed(k), Idle}
    BY <1>1 DEF Handled, Grabbed, Routed
  <1>3. told' = told \/ (seat # None /\ told' = [told EXCEPT ![seat] = @ \cup {k}])
    BY <1>1 DEF Handled, Grabbed, Routed, notify_key
  <1>4. /\ seat \in Surface \cup {None}
        /\ \A s \in Surface : told[s] \subseteq (IF s = seat THEN down \cup eaten ELSE {})
        /\ told \in [Surface -> SUBSET Key]
    BY SeatIsSurface DEF KeysSound, StuckOnlyIfEaten, KeyTypeOK
  <1>5. /\ told' \in [Surface -> SUBSET Key]
        /\ \A s \in Surface : told'[s] = told[s] \/ (s = seat /\ told'[s] = told[s] \cup {k})
    BY <1>3, <1>4
  <1>6. StuckOnlyIfEaten'
    <2> SUFFICES ASSUME NEW s \in Surface
                 PROVE  told'[s] \subseteq (IF s = seat THEN down' \cup eaten' ELSE {})
      BY <1>1 DEF StuckOnlyIfEaten
    <2>1. down \cup eaten \cup {k} \subseteq down' \cup eaten'
      BY <1>1
    <2> QED
      BY <1>4, <1>5, <2>1
  <1>7. RepeatsTheNewest'
    BY <1>1, <1>2 DEF RepeatsTheNewest, Armed, Idle
  <1>8. KeyTypeOK'
    <2>1. repeat' \in Repeat
      BY <1>2, RepeatTypes
    <2> QED
      BY <1>1, <1>5, <2>1 DEF KeyTypeOK
  <1>9. LayoutChangeWillBeHeard'
    BY <1>1 DEF KeysSound, LayoutChangeWillBeHeard
  <1> QED
    BY <1>6, <1>7, <1>8, <1>9 DEF KeysSound

LEMMA ReleaseKeys ==
    ASSUME LockTypeOK, KeyTypeOK, KeysSound, NEW k \in Key, Release(k)
    PROVE  (KeyTypeOK /\ KeysSound)'
  <1>1. /\ down' = down \ {k} /\ newest' = newest
        /\ eaten' = (IF told' = told /\ (grabber \/ lua.locked) THEN eaten \cup {k} ELSE eaten)
        /\ Handled(k, FALSE) /\ UNCHANGED <<vars, grabber, xkb>> /\ seat' = seat
    BY DEF Release, vars, focusVars
  <1>2. \/ repeat' = repeat /\ told' = told /\ grabber
        \/ repeat' = Idle
    BY <1>1 DEF Handled, Grabbed, Routed
  <1>3. \/ told' = told /\ (grabber \/ lua.locked)
        \/ seat = None /\ told' = told
        \/ seat # None /\ told' = [told EXCEPT ![seat] = @ \ {k}]
    BY <1>1 DEF Handled, Grabbed, Routed, notify_key
  <1>4. /\ seat \in Surface \cup {None}
        /\ \A s \in Surface : told[s] \subseteq (IF s = seat THEN down \cup eaten ELSE {})
        /\ told \in [Surface -> SUBSET Key] /\ None \notin Surface
    BY SeatIsSurface, NoneAssumption DEF KeysSound, StuckOnlyIfEaten, KeyTypeOK, Surface
  <1>5. StuckOnlyIfEaten'
    <2> SUFFICES ASSUME NEW s \in Surface
                 PROVE  told'[s] \subseteq (IF s = seat THEN down' \cup eaten' ELSE {})
      BY <1>1 DEF StuckOnlyIfEaten
    <2>1. CASE told' = told /\ (grabber \/ lua.locked)
      BY <1>1, <1>4, <2>1
    <2>2. CASE seat = None /\ told' = told
      BY <1>4, <2>2
    <2>3. CASE seat # None /\ told' = [told EXCEPT ![seat] = @ \ {k}]
      <3>1. told'[s] = IF s = seat THEN told[s] \ {k} ELSE told[s]
        BY <1>4, <2>3
      <3> QED
        BY <1>1, <1>4, <3>1
    <2> QED
      BY <1>3, <2>1, <2>2, <2>3
  <1>6. RepeatsTheNewest'
    <2>1. CASE repeat' = repeat /\ told' = told /\ grabber
      BY <1>1, <2>1 DEF KeysSound, RepeatsTheNewest
    <2>2. CASE repeat' = Idle
      BY <2>2 DEF RepeatsTheNewest, Idle
    <2> QED
      BY <1>2, <2>1, <2>2
  <1>7. KeyTypeOK'
    <2>1. told' \in [Surface -> SUBSET Key]
      BY <1>3, <1>4
    <2>2. repeat' \in Repeat
      BY <1>2, RepeatTypes DEF KeyTypeOK
    <2> QED
      BY <1>1, <2>1, <2>2 DEF KeyTypeOK
  <1>8. LayoutChangeWillBeHeard'
    BY <1>1 DEF KeysSound, LayoutChangeWillBeHeard
  <1> QED
    BY <1>5, <1>6, <1>7, <1>8 DEF KeysSound

(* The steps that move neither the keyboard nor a key.                     *)
LEMMA OtherKeySteps ==
    ASSUME KeyTypeOK, KeysSound,
           KeyRepeat \/ KeygrabberRun \/ KeygrabberStop \/ RebuildKeymap \/ GroupChanged
               \/ xkb_refresh \/ UNCHANGED allVars
    PROVE  (KeyTypeOK /\ KeysSound)'
  <1>1. UNCHANGED <<vars, keyVars>> /\ seat' = seat
    BY DEF KeyRepeat, KeygrabberRun, KeygrabberStop, RebuildKeymap, GroupChanged, xkb_refresh,
           allVars, vars, focusVars
  <1>2. UNCHANGED <<down, told, newest, eaten>>
    BY <1>1 DEF keyVars
  <1>3. grabber' \in BOOLEAN
    BY DEF KeyRepeat, KeygrabberRun, KeygrabberStop, RebuildKeymap, GroupChanged, xkb_refresh,
           allVars, KeyTypeOK
  <1>4. repeat' \in Repeat /\ (repeat'.key = repeat.key \/ repeat'.key = None)
    <2>1. CASE KeyRepeat
      BY <2>1, RepeatTypes DEF KeyRepeat, KeyTypeOK
    <2>2. CASE UNCHANGED repeat
      BY <2>2 DEF KeyTypeOK
    <2> QED
      BY <2>1, <2>2 DEF KeygrabberRun, KeygrabberStop, RebuildKeymap, GroupChanged,
                        xkb_refresh, allVars
  <1>5. /\ xkb' \in [map : BOOLEAN, group : BOOLEAN, pending : BOOLEAN, source : BOOLEAN]
        /\ LayoutChangeWillBeHeard'
    <2>0. /\ xkb \in [map : BOOLEAN, group : BOOLEAN, pending : BOOLEAN, source : BOOLEAN]
          /\ LayoutChangeWillBeHeard
      BY DEF KeyTypeOK, KeysSound
    <2>1. CASE RebuildKeymap \/ GroupChanged
      BY <2>0, <2>1 DEF RebuildKeymap, GroupChanged, xkb_schedule_refresh,
                        LayoutChangeWillBeHeard
    <2>2. CASE xkb_refresh
      BY <2>2 DEF xkb_refresh, LayoutChangeWillBeHeard
    <2>3. CASE UNCHANGED xkb
      BY <2>0, <2>3 DEF LayoutChangeWillBeHeard
    <2> QED
      BY <2>1, <2>2, <2>3 DEF KeyRepeat, KeygrabberRun, KeygrabberStop, allVars
  <1>6. KeyTypeOK'
    BY <1>2, <1>3, <1>4, <1>5 DEF KeyTypeOK
  <1>7. RepeatsTheNewest' /\ StuckOnlyIfEaten'
    BY <1>1, <1>2, <1>4 DEF KeysSound, RepeatsTheNewest, StuckOnlyIfEaten
  <1> QED
    BY <1>5, <1>6, <1>7 DEF KeysSound

-----------------------------------------------------------------------------

IInv == LockInv /\ KeyTypeOK /\ KeysSound

\* What a step of the keyboard is to the locks.
LEMMA KeyboardSteps ==
    ASSUME [KeyboardNext]_allVars
    PROVE  LockNext \/ (\E safe \in BOOLEAN : lock_hot_reload(safe)) \/ UNCHANGED vars
  BY DEF KeyboardNext, MovesSeat, StateTeardown, Press, Release, KeyRepeat, KeygrabberRun,
         KeygrabberStop, RebuildKeymap, GroupChanged, xkb_refresh, allVars

LEMMA NextIInv == IInv /\ [KeyboardNext]_allVars => IInv'
  <1> SUFFICES ASSUME IInv, [KeyboardNext]_allVars PROVE IInv'
    OBVIOUS
  <1>0. LockTypeOK /\ KeyTypeOK /\ KeysSound
    BY DEF IInv, LockInv
  <1>1. LockInv'
    BY KeyboardSteps, NextLockInv DEF IInv
  <1>2. CASE MovesSeat \/ \E safe \in BOOLEAN : StateTeardown(safe)
    <2>1. told' = Entered /\ UNCHANGED <<down, newest, eaten, repeat>>
      BY <1>2 DEF MovesSeat, StateTeardown
    <2>2. /\ grabber' \in BOOLEAN
          /\ xkb' \in [map : BOOLEAN, group : BOOLEAN, pending : BOOLEAN, source : BOOLEAN]
          /\ LayoutChangeWillBeHeard'
      <3>1. CASE MovesSeat
        BY <1>0, <3>1 DEF MovesSeat, KeyTypeOK, KeysSound, LayoutChangeWillBeHeard
      <3>2. CASE \E safe \in BOOLEAN : StateTeardown(safe)
        <4>1. /\ grabber' = FALSE
              /\ xkb' = [map |-> FALSE, group |-> FALSE, pending |-> FALSE, source |-> FALSE]
          BY <3>2 DEF StateTeardown, xkb_reset_pending
        <4> QED
          BY <4>1 DEF LayoutChangeWillBeHeard
      <3> QED
        BY <1>2, <3>1, <3>2
    <2> QED
      BY <1>0, <1>1, <2>1, <2>2, EnteredKeys DEF IInv
  <1>3. CASE \E k \in Key : Press(k) \/ Release(k)
    BY <1>0, <1>1, <1>3, PressKeys, ReleaseKeys DEF IInv
  <1>4. CASE \/ KeyRepeat \/ KeygrabberRun \/ KeygrabberStop \/ RebuildKeymap \/ GroupChanged
             \/ xkb_refresh \/ UNCHANGED allVars
    BY <1>0, <1>1, <1>4, OtherKeySteps DEF IInv
  <1> QED
    BY <1>2, <1>3, <1>4 DEF KeyboardNext

(* The inductive invariant of the locks and the keys.                      *)
THEOREM Inductive == KeyboardSpec => []IInv
  <1>1. KeyboardInit => IInv
    BY InitLockInv, InitKeys DEF KeyboardInit, IInv
  <1> QED
    BY <1>1, NextIInv, PTL DEF KeyboardSpec

(* Every variable of the locks and of the keyboard keeps its type: the     *)
(* focused client and the one the keyboard is on are never gone.           *)
THEOREM TypeCorrect == KeyboardSpec => []TypeOK
  <1>1. IInv => TypeOK
    BY DEF IInv, LockInv, TypeOK
  <1> QED
    BY <1>1, Inductive, PTL

(* Nothing the Lua lock remembers dangles: not its surface, its covers or  *)
(* the client that gets the focus back.                                    *)
THEOREM LockPointersLive == KeyboardSpec => []LockPointersSound
  <1>1. IInv => LockPointersSound
    BY DEF IInv, LockInv
  <1> QED
    BY <1>1, Inductive, PTL

(* The Lua lock and the protocol's are never on together.                  *)
THEOREM LocksExclude == KeyboardSpec => []OneLockAtATime
  <1>1. IInv => OneLockAtATime
    BY DEF IInv, LockInv
  <1> QED
    BY <1>1, Inductive, PTL

(* No binding repeats but the newest key's, no key sticks in a surface     *)
(* unless its release was eaten, and no change of layout goes unheard.     *)
THEOREM KeysAreSound == KeyboardSpec => []KeysSound
  <1>1. IInv => KeysSound
    BY DEF IInv
  <1> QED
    BY <1>1, Inductive, PTL

(* The Lua lock ends by a proved password, with its surface, or with the   *)
(* Lua state; never by an authentication older than the lock.              *)
THEOREM LockEndsProved == KeyboardSpec => UnlockIsProved
  <1>1. ASSUME IInv, [KeyboardNext]_allVars, lua.locked, ~lua'.locked
        PROVE  proved \/ (surface' = None /\ ~lua.auth)
    <2>0. lua \in [locked : BOOLEAN, auth : BOOLEAN] /\ (lua.auth => proved)
      BY <1>1 DEF IInv, LockInv, LockTypeOK, Held
    <2>1. SUFFICES ASSUME ~lua.auth PROVE surface' = None
      BY <2>0
    <2>2. CASE \E safe \in BOOLEAN : lock_hot_reload(safe)
      BY <2>2 DEF lock_hot_reload
    <2>3. CASE UNCHANGED vars
      BY <1>1, <2>3 DEF vars, lockVars
    <2>4. CASE LockNext
      <3>1. CASE \E d \in Drawin : DrawinDestroyed(d)
        BY <1>1, <3>1 DEF DrawinDestroyed
      <3>2. CASE \E success \in BOOLEAN : authenticate(success)
        BY <1>1, <2>0, <3>2 DEF authenticate
      <3>3. CASE Unlock
        BY <2>1, <3>3 DEF Unlock
      <3>4. CASE \/ \E c \in Client :
                       LuaFocuses(c) \/ MapNotify(c) \/ UnmapNotify(c) \/ client_unmanage(c)
                 \/ client_focus_refresh \/ Lock
                 \/ \E d \in Drawin :
                       set_lock_surface(d) \/ add_lock_cover(d) \/ RemoveLockCover(d)
                 \/ clear_lock_surface \/ clear_lock_covers \/ locksession
                 \/ \E m \in Output :
                       createlocksurface(m) \/ destroylocksurface(m) \/ SelectOutput(m)
                 \/ \E unlock \in BOOLEAN : destroylock(unlock)
        <4>1. lua' = lua \/ lua'.locked
          BY <3>4 DEF LuaFocuses, MapNotify, UnmapNotify, client_unmanage,
                client_focus_refresh, Lock, set_lock_surface, add_lock_cover,
                RemoveLockCover, clear_lock_surface, clear_lock_covers, locksession,
                createlocksurface, destroylocksurface, SelectOutput, destroylock, lockVars
        <4> QED
          BY <1>1, <4>1
      <3> QED
        BY <2>4, <3>1, <3>2, <3>3, <3>4 DEF LockNext
    <2> QED
      BY <1>1, <2>2, <2>3, <2>4, KeyboardSteps
  <1>2. ASSUME IInv, [KeyboardNext]_allVars
        PROVE  [lua.locked /\ ~lua'.locked => proved \/ (surface' = None /\ ~lua.auth)]_vars
    BY <1>1, <1>2
  <1> QED
    BY <1>2, Inductive, PTL DEF KeyboardSpec, UnlockIsProved

-----------------------------------------------------------------------------
(* Who has the keyboard when a lock ends.                                  *)

LEMMA DeactivationFocuses ==
    ASSUME LockInv, FocusKept, lua.locked, Deactivated(Unlocked), shown # {}
    PROVE  seat' = (IF pre \in shown THEN pre ELSE focus')
  <1>0. /\ focus \in shown \cup {None} /\ (focus # None => focus = pre)
        /\ None \notin shown
        /\ ~session_is_locked(Unlocked, ext)
    BY NoneAssumption
       DEF LockInv, LockTypeOK, FocusKept, OneLockAtATime, session_is_locked, Unlocked
  <1>1. CASE pre \in shown
    BY <1>0, <1>1 DEF Deactivated, focusclient
  <1>2. CASE pre \notin shown
    <2>1. focus = None
      BY <1>0, <1>2
    <2>2. focus_restore(Unlocked, ext)
      BY <1>2 DEF Deactivated
    <2>3. \E c \in shown : focus' = c /\ seat' = c
      BY <1>0, <2>1, <2>2 DEF focus_restore
    <2> QED
      BY <1>2, <2>3
  <1> QED
    BY <1>1, <1>2

LEMMA LockEnds ==
    ASSUME LockInv, FocusKept,
           LockNext \/ (\E safe \in BOOLEAN : lock_hot_reload(safe)) \/ UNCHANGED vars,
           session_is_locked(lua, ext), ~session_is_locked(lua', ext'), shown' # {}
    PROVE  \/ lua.locked /\ seat' = (IF pre \in shown THEN pre ELSE focus')
           \/ ext.locked /\ seat' = focus' /\ seat' \in shown
           \/ lua.locked /\ surface' = None /\ UNCHANGED focusVars
  <1>0. /\ lua.locked \/ ext.locked
        /\ ~lua'.locked /\ ~ext'.locked
        /\ ~(lua.locked /\ ext.locked)
        /\ (ext.lock => ext.locked) /\ (ext.locked => focus = None)
        /\ lua \in [locked : BOOLEAN, auth : BOOLEAN]
    BY DEF session_is_locked, LockInv, LockTypeOK, OneLockAtATime, Held, FocusKept
  <1>1. CASE Unlock
    <2>1. lua.locked /\ Deactivated(Unlocked) /\ shown' = shown
      BY <1>1 DEF Unlock
    <2> QED
      BY <2>1, DeactivationFocuses
  <1>2. ASSUME NEW d \in Drawin, DrawinDestroyed(d)
        PROVE  lua.locked /\ seat' = (IF pre \in shown THEN pre ELSE focus')
    <2>1. ext' = ext /\ shown' = shown /\ lua' # lua
      BY <1>0, <1>2 DEF DrawinDestroyed
    <2>2. lua.locked /\ Deactivated(Unlocked)
      BY <1>2, <2>1 DEF DrawinDestroyed
    <2> QED
      BY <2>1, <2>2, DeactivationFocuses
  <1>3. ASSUME NEW unlock \in BOOLEAN, destroylock(unlock)
        PROVE  ext.locked /\ seat' = focus' /\ seat' \in shown
    <2>1. ext.locked /\ focus = None /\ shown' = shown /\ unlock
      BY <1>0, <1>3 DEF destroylock
    <2> QED
      BY <1>3, <2>1 DEF destroylock
  <1>4. ASSUME NEW safe \in BOOLEAN, lock_hot_reload(safe)
        PROVE  \/ lua.locked /\ seat' = (IF pre \in shown THEN pre ELSE focus')
               \/ lua.locked /\ surface' = None /\ UNCHANGED focusVars
    <2>1. ext' = ext /\ shown' = shown /\ listed' = listed /\ surface' = None /\ lua.locked
      BY <1>0, <1>4 DEF lock_hot_reload
    <2>2. CASE safe
      <3>1. Deactivated(Unlocked)
        BY <1>4, <2>1, <2>2 DEF lock_hot_reload
      <3> QED
        BY <2>1, <3>1, DeactivationFocuses
    <2>3. CASE ~safe
      BY <1>4, <2>1, <2>3 DEF lock_hot_reload, focusVars
    <2> QED
      BY <2>2, <2>3
  <1>5. CASE \/ \E c \in Client :
                   LuaFocuses(c) \/ MapNotify(c) \/ UnmapNotify(c) \/ client_unmanage(c)
             \/ client_focus_refresh \/ Lock
             \/ \E success \in BOOLEAN : authenticate(success)
             \/ \E d \in Drawin :
                   set_lock_surface(d) \/ add_lock_cover(d) \/ RemoveLockCover(d)
             \/ clear_lock_surface \/ clear_lock_covers \/ locksession
             \/ \E m \in Output :
                   createlocksurface(m) \/ destroylocksurface(m) \/ SelectOutput(m)
             \/ UNCHANGED vars
    <2>1. lua'.locked = lua.locked \/ lua'.locked
      <3>1. CASE \E success \in BOOLEAN : authenticate(success)
        BY <1>0, <3>1 DEF authenticate
      <3>2. CASE ~\E success \in BOOLEAN : authenticate(success)
        BY <1>5, <3>2 DEF LuaFocuses, MapNotify, UnmapNotify, client_unmanage,
                client_focus_refresh, Lock, set_lock_surface, add_lock_cover,
                RemoveLockCover, clear_lock_surface, clear_lock_covers, locksession,
                createlocksurface, destroylocksurface, SelectOutput, vars, lockVars
      <3> QED
        BY <3>1, <3>2
    <2>2. ext' = ext \/ ext'.locked
      BY <1>5 DEF LuaFocuses, MapNotify, UnmapNotify, client_unmanage, authenticate,
                client_focus_refresh, Lock, set_lock_surface, add_lock_cover,
                RemoveLockCover, clear_lock_surface, clear_lock_covers, locksession,
                createlocksurface, destroylocksurface, SelectOutput, vars, lockVars
    <2> QED
      BY <1>0, <2>1, <2>2
  <1> QED
    BY <1>1, <1>2, <1>3, <1>4, <1>5 DEF LockNext

(* When a lock ends and a client is shown, a client gets the keyboard: the *)
(* one that had it before the Lua lock, if it is still shown.  It assumes  *)
(* that Lua focuses no client while the session is locked.                 *)
THEOREM KeyboardReturns == ASSUME ~FocusesLocked PROVE KeyboardSpec => KeyboardComesBack
  <1>1. KeyboardInit => FocusKept
    BY InitLockInv DEF KeyboardInit
  <1>2. IInv /\ FocusKept /\ [KeyboardNext]_allVars => FocusKept'
    BY KeyboardSteps, NextFocusKept DEF IInv
  <1>3. IInv /\ FocusKept /\ [KeyboardNext]_allVars =>
            [session_is_locked(lua, ext) /\ ~session_is_locked(lua', ext') /\ shown' # {} =>
                \/ lua.locked /\ seat' = (IF pre \in shown THEN pre ELSE focus')
                \/ ext.locked /\ seat' = focus' /\ seat' \in shown
                \/ lua.locked /\ surface' = None /\ UNCHANGED focusVars]_vars
    BY KeyboardSteps, LockEnds DEF IInv
  <1> QED
    BY <1>1, <1>2, <1>3, Inductive, PTL DEF KeyboardSpec, KeyboardComesBack
=============================================================================
