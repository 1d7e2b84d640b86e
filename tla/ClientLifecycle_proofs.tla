------------------------ MODULE ClientLifecycle_proofs ------------------------
(***************************************************************************)
(* Proofs about the life of clients, for any number of surfaces, clients   *)
(* and hot reloads, with or without c:unmanage().                          *)
(*                                                                         *)
(* The inductive invariant says of each client that it was made for a      *)
(* surface or not made yet (Origin), that the arrays agree with its fields *)
(* (Entry), and that its listeners, its reference and the phase of its     *)
(* surface agree (Wiring); and that of the clients of a surface one, and   *)
(* no other, has listeners (Sole, Heard).                                  *)
(***************************************************************************)
EXTENDS ClientLifecycle, TLAPS

Dead == {"none", "gone"}

Origin(c) ==
    IF c > made
    THEN /\ obj[c] = Unmade /\ listed[c] = 0
         /\ c \notin stack /\ c \notin announced
    ELSE obj[c].surface \in Surface /\ phase[obj[c].surface] # "none"

Entry(c) ==
    /\ listed[c] = IF obj[c].linked THEN 1 ELSE 0
    /\ obj[c].linked => obj[c].refs = 1
    /\ c \in stack => obj[c].linked
    /\ obj[c].linked /\ obj[c].scene => c \in stack
    /\ ~IsUnmanaged(c) => (c \in announced <=> obj[c].linked /\ obj[c].scene)
    /\ gen = 0 /\ c \in announced => ~IsUnmanaged(c)

Attached(c) == obj[c].surface \notin strayed /\ obj[c].wired # {}

ToplevelWiring(c) ==
    /\ phase[obj[c].surface] \in {"configured", "mapped"} => obj[c].linked
    /\ gen = 0 => obj[c].linked /\ "initial_commit" \in obj[c].wired

XWindowWiring(c) ==
    /\ "map" \in obj[c].wired <=> phase[obj[c].surface] \in {"paired", "mapped"}
    /\ obj[c].scene => phase[obj[c].surface] = "mapped"

Wiring(c) ==
    /\ obj[c].surface \notin strayed => (obj[c].refs = 1 <=> obj[c].wired # {})
    /\ Attached(c) =>
          /\ obj[c].gen = gen
          /\ "core" \in obj[c].wired
          /\ phase[obj[c].surface] \notin Dead
          /\ obj[c].surface \in Toplevel => ToplevelWiring(c)
          /\ obj[c].surface \in XWindow => XWindowWiring(c)

Sole ==
    \A c, d \in Client :
        Attached(c) /\ Attached(d) /\ obj[c].surface = obj[d].surface => c = d

Heard ==
    \A s \in Surface \ strayed :
        phase[s] \notin Dead => \E c \in Client : obj[c].surface = s /\ obj[c].wired # {}

StrayedExist == \A s \in strayed : phase[s] # "none"

IInv ==
    /\ TypeOK
    /\ \A c \in Client : Origin(c) /\ Entry(c) /\ Wiring(c)
    /\ Sole
    /\ Heard
    /\ StrayedExist
-----------------------------------------------------------------------------

LEMMA InitIInv == Init => IInv
  <1> SUFFICES ASSUME Init PROVE IInv
    OBVIOUS
  <1>1. TypeOK
    BY MaxClientsAssumption DEF Init, TypeOK, Object, Unmade
  <1>2. \A c \in Client : Origin(c)
    BY DEF Init, Origin, Client
  <1>3. \A c \in Client : Entry(c)
    BY NoSurfaceAssumption DEF Init, Entry, Unmade, IsUnmanaged
  <1>4. \A c \in Client : Wiring(c) /\ ~Attached(c)
    BY DEF Init, Wiring, Attached, Unmade
  <1>5. Sole /\ Heard /\ StrayedExist
    BY <1>4 DEF Sole, Heard, StrayedExist, Init, Dead
  <1> QED
    BY <1>1, <1>2, <1>3, <1>4, <1>5 DEF IInv

\* A client that is linked or has listeners was made for a surface.
LEMMA Made ==
    ASSUME IInv, NEW c \in Client, obj[c].linked \/ obj[c].wired # {}
    PROVE  /\ c \in 1..made
           /\ obj[c].surface \in Surface
           /\ phase[obj[c].surface] # "none"
  BY DEF IInv, TypeOK, Origin, Unmade, Client

(* What wlroots tells of one surface changes its phase and the one client  *)
(* that has listeners on it.  Where that client is left with its entries   *)
(* and its wiring right, so are all.                                       *)
LEMMA StepOfOne ==
    ASSUME IInv,
           NEW c \in Client, obj[c].wired # {}, obj[c].surface \notin strayed,
           NEW p, p # "none", phase' = [phase EXCEPT ![obj[c].surface] = p],
           NEW o, o.surface = obj[c].surface, obj' = [obj EXCEPT ![c] = o],
           NEW l, listed' = [listed EXCEPT ![c] = l],
           stack' \ {c} = stack \ {c}, announced' \ {c} = announced \ {c},
           UNCHANGED <<override, made, gen, strayed>>,
           TypeOK', Entry(c)', Wiring(c)', o.wired # {} \/ p = "gone"
    PROVE  IInv'
  <1> DEFINE s == obj[c].surface
  <1>0. TypeOK /\ Sole /\ Heard /\ \A d \in Client : Origin(d) /\ Entry(d) /\ Wiring(d)
    BY DEF IInv
  <1>1. s \in Surface /\ Attached(c) /\ c \in 1..made
    BY Made DEF Attached
  <1>2. /\ phase'[s] = p /\ \A t \in Surface : t # s => phase'[t] = phase[t]
        /\ obj'[c] = o /\ \A d \in Client : d # c => obj'[d] = obj[d]
        /\ \A d \in Client : d # c => listed'[d] = listed[d]
    BY <1>0, <1>1 DEF TypeOK
  <1>3. ASSUME NEW d \in Client, d # c
        PROVE  Origin(d)' /\ Entry(d)' /\ Wiring(d)' /\ (Attached(d)' <=> Attached(d))
    <2>1. /\ obj'[d] = obj[d] /\ listed'[d] = listed[d]
          /\ d \in stack' <=> d \in stack
          /\ d \in announced' <=> d \in announced
      BY <1>2, <1>3
    <2>2. Origin(d)'
      BY <1>0, <1>2, <2>1 DEF Origin
    <2>3. Entry(d)'
      BY <1>0, <2>1 DEF Entry, IsUnmanaged
    <2>4. Attached(d)' <=> Attached(d)
      BY <2>1 DEF Attached
    <2>5. CASE obj[d].surface = s
      <3>1. ~Attached(d)
        BY <1>0, <1>1, <1>3, <2>5 DEF Sole
      <3> QED
        BY <1>0, <2>1, <2>2, <2>3, <2>4, <3>1 DEF Wiring
    <2>6. CASE obj[d].surface # s
      <3>1. Attached(d) => phase'[obj[d].surface] = phase[obj[d].surface]
        BY <1>2, <2>6, Made DEF Attached
      <3>2. Wiring(d)'
        BY <1>0, <2>1, <2>4, <3>1 DEF Wiring, ToplevelWiring, XWindowWiring, Attached
      <3> QED
        BY <2>2, <2>3, <2>4, <3>2
    <2> QED
      BY <2>5, <2>6
  <1>4. Origin(c)'
    BY <1>0, <1>1, <1>2 DEF Origin, TypeOK
  <1>5. Sole'
    BY <1>0, <1>1, <1>2, <1>3 DEF Sole
  <1>6. Heard'
    <2> SUFFICES ASSUME NEW t \in Surface \ strayed, phase'[t] \notin Dead
                 PROVE  \E d \in Client : obj'[d].surface = t /\ obj'[d].wired # {}
      BY DEF Heard
    <2>1. CASE t = s
      BY <1>2, <2>1 DEF Dead
    <2>2. CASE t # s
      <3>1. PICK d \in Client : obj[d].surface = t /\ obj[d].wired # {}
        BY <1>0, <1>2, <2>2 DEF Heard
      <3> QED
        BY <1>2, <2>2, <3>1
    <2> QED
      BY <2>1, <2>2
  <1>7. StrayedExist'
    BY <1>0, <1>2 DEF IInv, StrayedExist, TypeOK
  <1> QED
    BY <1>3, <1>4, <1>5, <1>6, <1>7 DEF IInv

\* mapnotify() makes a scene for the one client that has the listeners.
LEMMA MapNotifyIInv ==
    ASSUME IInv,
           NEW c \in Client, obj[c].wired # {}, obj[c].surface \notin strayed,
           NEW w \in SUBSET Listener, obj[c].wired \subseteq w,
           obj[c].surface \in Toplevel => obj[c].linked,
           obj[c].surface \in XWindow => "map" \in w,
           phase' = [phase EXCEPT ![obj[c].surface] = "mapped"],
           MapNotify(c, [obj[c] EXCEPT !.wired = w]),
           UNCHANGED <<override, made, gen, strayed>>
    PROVE  IInv'
  <1> DEFINE s == obj[c].surface
             o == [[obj[c] EXCEPT !.wired = w]
                      EXCEPT !.scene = TRUE,
                             !.linked = IF Remaps(c) THEN TRUE ELSE @,
                             !.wired = IF IsX11(c) THEN @ ELSE @ \cup {"commit"}]
             l == IF Remaps(c) THEN listed[c] + 1 ELSE listed[c]
  <1>0. TypeOK /\ Entry(c) /\ Wiring(c)
    BY DEF IInv
  <1>1. s \in Surface /\ obj[c] \in Object /\ listed[c] \in 0..1 /\ gen \in Nat
    BY <1>0, Made DEF TypeOK
  <1>2. /\ obj' = [obj EXCEPT ![c] = o]
        /\ stack' = stack \cup {c}
        /\ announced' = IF IsUnmanaged(c) THEN announced ELSE announced \cup {c}
    BY DEF MapNotify
  <1>3. listed' = [listed EXCEPT ![c] = l]
    BY <1>0 DEF MapNotify, TypeOK
  <1>4. /\ o \in Object /\ o.surface = s /\ o.refs = obj[c].refs /\ o.scene = TRUE
        /\ o.gen = obj[c].gen /\ o.linked = TRUE
        /\ o.wired = IF IsX11(c) THEN w ELSE w \cup {"commit"}
    BY <1>1, SurfacesDiffer DEF Object, Remaps, IsX11, Listener, Surface
  <1>5. o.refs = 1 /\ l = 1
    BY <1>0, <1>1 DEF Entry, Wiring, Remaps, IsX11, Surface
  <1>6. /\ obj'[c] = o /\ listed'[c] = l /\ phase'[s] = "mapped"
    BY <1>0, <1>1, <1>2, <1>3 DEF TypeOK
  <1>7. TypeOK'
    BY <1>0, <1>1, <1>2, <1>3, <1>4, <1>5 DEF TypeOK
  <1>8. Entry(c)'
    <2>1. /\ IsUnmanaged(c)' <=> IsUnmanaged(c)
          /\ c \in announced' <=> c \in announced \/ ~IsUnmanaged(c)
          /\ c \in stack'
      BY <1>2, <1>4, <1>6 DEF IsUnmanaged
    <2>2. /\ obj'[c].linked = TRUE /\ obj'[c].scene = TRUE /\ obj'[c].refs = 1
          /\ listed'[c] = 1
      BY <1>4, <1>5, <1>6
    <2> QED
      BY <1>0, <2>1, <2>2 DEF Entry
  <1>9. Wiring(c)'
    <2>1. w # {} /\ (w \cup {"commit"}) # {}
      OBVIOUS
    <2>2. Attached(c)
      BY DEF Attached
    <2> QED
      BY <1>0, <1>1, <1>4, <1>5, <1>6, <2>1, <2>2, SurfacesDiffer
      DEF Wiring, Attached, Dead, ToplevelWiring, XWindowWiring, IsX11
  <1> QED
    <2>1. o.wired # {}
      BY <1>4
    <2> HIDE DEF o, l
    <2> QED
      BY <1>2, <1>3, <1>4, <1>7, <1>8, <1>9, <2>1, StepOfOne

\* Its scene surface may fail to be made.
LEMMA SceneFailsIInv ==
    ASSUME IInv,
           NEW c \in Client, obj[c].wired # {}, obj[c].surface \notin strayed,
           NEW w \in SUBSET Listener, obj[c].wired \subseteq w,
           NEW p \in {"paired", "mapped"},
           phase[obj[c].surface] \in {"configured", "unpaired", "paired"},
           obj[c].surface \in Toplevel => obj[c].linked,
           obj[c].surface \in XWindow => "map" \in w,
           phase' = [phase EXCEPT ![obj[c].surface] = p],
           SceneFails(c, [obj[c] EXCEPT !.wired = w]),
           UNCHANGED <<override, made, gen, strayed>>
    PROVE  IInv'
  <1> DEFINE s == obj[c].surface
             o == [obj[c] EXCEPT !.wired = w]
  <1>0. TypeOK /\ Entry(c) /\ Wiring(c)
    BY DEF IInv
  <1>1. s \in Surface /\ obj[c] \in Object /\ listed[c] \in 0..1 /\ gen \in Nat
    BY <1>0, Made DEF TypeOK
  <1>2. /\ obj' = [obj EXCEPT ![c] = o] /\ listed' = [listed EXCEPT ![c] = listed[c]]
        /\ stack' = stack /\ announced' = announced
    BY <1>0 DEF SceneFails, TypeOK
  <1>3. /\ o \in Object /\ o.surface = s /\ o.refs = obj[c].refs /\ o.scene = obj[c].scene
        /\ o.gen = obj[c].gen /\ o.linked = obj[c].linked /\ o.wired = w
    BY <1>1 DEF Object
  <1>4. /\ obj'[c] = o /\ listed'[c] = listed[c] /\ phase'[s] = p
    BY <1>0, <1>1, <1>2 DEF TypeOK
  <1>5. TypeOK'
    BY <1>0, <1>1, <1>2, <1>3 DEF TypeOK
  <1>6. Entry(c)'
    BY <1>0, <1>2, <1>3, <1>4 DEF Entry, IsUnmanaged
  <1>7. Wiring(c)'
    <2>1. w # {} /\ Attached(c)
      BY DEF Attached
    <2> QED
      BY <1>0, <1>1, <1>3, <1>4, <2>1, SurfacesDiffer
      DEF Wiring, Attached, Dead, ToplevelWiring, XWindowWiring
  <1> QED
    <2> HIDE DEF o
    <2> QED
      BY <1>2, <1>3, <1>5, <1>6, <1>7, StepOfOne

\* What an unmap leaves of a client.
LEMMA UnmappedFields ==
    ASSUME TypeOK, NEW c \in Client
    PROVE  /\ Unmapped(c) \in Object
           /\ Unmapped(c).surface = obj[c].surface
           /\ Unmapped(c).refs = obj[c].refs
           /\ Unmapped(c).gen = obj[c].gen
           /\ Unmapped(c).scene = FALSE
           /\ Unmapped(c).linked = (obj[c].linked /\ ~Unmanages(c))
           /\ Unmapped(c).wired \subseteq obj[c].wired
           /\ obj[c].wired \subseteq Unmapped(c).wired \cup {"commit"}
  <1>1. obj[c] \in Object
    BY DEF TypeOK
  <1>2. CASE Unmanages(c)
    BY <1>1, <1>2 DEF Unmapped, Object
  <1>3. CASE ~Unmanages(c)
    BY <1>1, <1>3 DEF Unmapped, Object
  <1> QED
    BY <1>2, <1>3

\* A client is taken off the screen, and out of the arrays if it was on it
\* and managed, or if it goes away.
LEMMA UnshownIInv ==
    ASSUME IInv,
           NEW c \in Client, obj[c].wired # {}, obj[c].surface \notin strayed,
           NEW p \in {"unconfigured", "unpaired", "gone"},
           phase' = [phase EXCEPT ![obj[c].surface] = p],
           NEW u \in BOOLEAN, Unmanages(c) => u, ForgetIf(u, c),
           NEW o \in Object, obj' = [obj EXCEPT ![c] = o],
           o.surface = obj[c].surface, o.gen = obj[c].gen, o.scene = FALSE,
           o.linked <=> obj[c].linked /\ ~u, o.linked => o.refs = 1,
           UNCHANGED <<override, made, gen, strayed>>,
           Wiring(c)', o.wired # {} \/ p = "gone"
    PROVE  IInv'
  <1> DEFINE s == obj[c].surface
             l == IF u THEN 0 ELSE listed[c]
  <1>0. TypeOK /\ Entry(c)
    BY DEF IInv
  <1>1. s \in Surface /\ listed[c] \in 0..1
    BY <1>0, Made DEF TypeOK
  <1>2. listed' = [listed EXCEPT ![c] = l]
    <2>1. CASE u
      <3>1. (IF listed[c] = 0 THEN 0 ELSE listed[c] - 1) = 0
        BY <1>1
      <3> QED
        BY <2>1, <3>1 DEF ForgetIf, Delist
    <2>2. CASE ~u
      BY <1>0, <2>2 DEF ForgetIf, TypeOK
    <2> QED
      BY <2>1, <2>2
  <1>3. /\ obj'[c] = o /\ listed'[c] = l
        /\ stack' = IF u THEN stack \ {c} ELSE stack
        /\ announced' = IF u THEN announced \ {c} ELSE announced
    BY <1>0, <1>2 DEF TypeOK, ForgetIf
  <1>4. TypeOK'
    BY <1>0, <1>1, <1>2, <1>3 DEF TypeOK
  <1>5. Entry(c)'
    <2>1. IsUnmanaged(c)' <=> IsUnmanaged(c)
      BY <1>3 DEF IsUnmanaged
    <2>2. CASE u
      BY <1>0, <1>3, <2>1, <2>2 DEF Entry
    <2>3. CASE ~u
      BY <1>0, <1>3, <2>1, <2>3 DEF Entry, Unmanages
    <2> QED
      BY <2>2, <2>3
  <1> QED
    <2> HIDE DEF l
    <2> QED
      BY <1>2, <1>3, <1>4, <1>5, StepOfOne

-----------------------------------------------------------------------------
(* The steps of Next.                                                      *)

LEMMA InitialCommitIInv ==
    ASSUME IInv, NEW s \in Toplevel, InitialCommit(s)
    PROVE  IInv'
  <1>0. TypeOK /\ Sole /\ Heard /\ \A d \in Client : Origin(d) /\ Entry(d) /\ Wiring(d)
    BY DEF IInv
  <1>1. PICK c \in Client :
           obj[c].surface = s /\ "initial_commit" \in obj[c].wired /\ obj[c].linked
    BY DEF InitialCommit, Hears
  <1>2. /\ phase[s] = "unconfigured" /\ phase' = [phase EXCEPT ![s] = "configured"]
        /\ UNCHANGED <<override, made, obj, listed, stack, announced, gen, strayed>>
    BY DEF InitialCommit, SetPhase, objects
  <1>3. s \in Surface /\ phase'[s] = "configured"
        /\ \A t \in Surface : t # s => phase'[t] = phase[t]
    BY <1>0, <1>2 DEF TypeOK, Surface
  <1>4. TypeOK'
    BY <1>0, <1>2 DEF TypeOK
  <1>5. ASSUME NEW d \in Client PROVE Origin(d)' /\ Entry(d)' /\ Wiring(d)'
    <2>1. Origin(d)' /\ Entry(d)'
      BY <1>0, <1>2, <1>3 DEF Origin, Entry, IsUnmanaged
    <2>2. Wiring(d)'
      <3>1. CASE obj[d].surface = s /\ Attached(d)
        <4>1. d = c
          BY <1>0, <1>1, <3>1 DEF Sole, Attached
        <4> QED
          BY <1>0, <1>1, <1>2, <1>3, <3>1, <4>1, SurfacesDiffer
          DEF Wiring, Attached, Dead, ToplevelWiring
      <3>2. CASE obj[d].surface # s \/ ~Attached(d)
        <4>1. Attached(d) => phase'[obj[d].surface] = phase[obj[d].surface]
          BY <1>3, <3>2, Made DEF Attached
        <4> QED
          BY <1>0, <1>2, <4>1 DEF Wiring, Attached, ToplevelWiring, XWindowWiring
      <3> QED
        BY <3>1, <3>2
    <2> QED
      BY <2>1, <2>2
  <1>6. Sole' /\ Heard' /\ StrayedExist'
    BY <1>0, <1>2, <1>3 DEF IInv, Sole, Heard, StrayedExist, Attached, Dead, TypeOK
  <1> QED
    BY <1>4, <1>5, <1>6 DEF IInv

LEMMA MapIInv ==
    ASSUME IInv, NEW s \in Surface, Map(s)
    PROVE  IInv'
  <1>0. TypeOK /\ \A d \in Client : Origin(d) /\ Entry(d) /\ Wiring(d)
    BY DEF IInv
  <1>1. PICK c \in Hears(s, "map") : MapNotify(c, obj[c]) \/ SceneFails(c, obj[c])
    BY DEF Map
  <1>2. /\ s \notin strayed
        /\ phase[s] = IF s \in Toplevel THEN "configured" ELSE "paired"
        /\ phase' = [phase EXCEPT ![s] = "mapped"]
        /\ UNCHANGED <<override, made, gen, strayed>>
    BY DEF Map, SetPhase
  <1>3. c \in Client /\ obj[c].surface = s /\ "map" \in obj[c].wired /\ Attached(c)
    BY <1>1, <1>2 DEF Hears, Attached
  <1>4. /\ obj[c].wired \in SUBSET Listener
        /\ obj[c] = [obj[c] EXCEPT !.wired = obj[c].wired]
    <2>1. obj[c] \in Object
      BY <1>0, <1>3 DEF TypeOK
    <2> QED
      BY <2>1 DEF Object
  <1>5. s \in Toplevel => obj[c].linked
    BY <1>0, <1>2, <1>3 DEF Wiring, ToplevelWiring
  <1>6. CASE MapNotify(c, obj[c])
    <2>1. PICK w : w = obj[c].wired
      OBVIOUS
    <2>2. w \in SUBSET Listener /\ obj[c].wired \subseteq w /\ "map" \in w /\ w # {}
      BY <1>3, <1>4, <2>1
    <2>3. MapNotify(c, [obj[c] EXCEPT !.wired = w])
      BY <1>4, <1>6, <2>1
    <2>4. phase' = [phase EXCEPT ![obj[c].surface] = "mapped"]
      BY <1>2, <1>3
    <2>5. obj[c].surface \notin strayed /\ (obj[c].surface \in Toplevel => obj[c].linked)
      BY <1>2, <1>3, <1>5
    <2> QED
      BY <1>2, <1>3, <2>1, <2>2, <2>3, <2>4, <2>5, MapNotifyIInv
  <1>7. CASE SceneFails(c, obj[c])
    BY <1>2, <1>3, <1>4, <1>5, <1>7, SceneFailsIInv
  <1> QED
    BY <1>1, <1>6, <1>7

LEMMA AssociateIInv ==
    ASSUME IInv, NEW s \in XWindow, Associate(s)
    PROVE  IInv'
  <1>0. TypeOK
    BY DEF IInv
  <1> DEFINE w(c) == obj[c].wired \cup {"map"}
             o(c) == [obj[c] EXCEPT !.wired = w(c)]
  <1>1. PICK c \in Hears(s, "core") :
           \/ SetPhase(s, "paired") /\ SceneFails(c, o(c))
           \/ SetPhase(s, "mapped") /\ (MapNotify(c, o(c)) \/ SceneFails(c, o(c)))
    BY DEF Associate
  <1>2. /\ s \notin strayed /\ phase[s] = "unpaired"
        /\ UNCHANGED <<override, made, gen, strayed>>
    BY DEF Associate
  <1>3. c \in Client /\ obj[c].surface = s /\ "core" \in obj[c].wired
    BY <1>1 DEF Hears
  <1>4. w(c) \in SUBSET Listener /\ "map" \in w(c) /\ obj[c].wired \subseteq w(c)
    BY <1>0, <1>3 DEF TypeOK, Object, Listener
  <1>5. s \notin Toplevel
    BY SurfacesDiffer
  <1> HIDE DEF w
  <1>6. CASE SetPhase(s, "paired") /\ SceneFails(c, o(c))
    BY <1>2, <1>3, <1>4, <1>5, <1>6, SceneFailsIInv DEF SetPhase
  <1>7. CASE SetPhase(s, "mapped") /\ MapNotify(c, o(c))
    BY <1>2, <1>3, <1>4, <1>5, <1>7, MapNotifyIInv DEF SetPhase
  <1>8. CASE SetPhase(s, "mapped") /\ SceneFails(c, o(c))
    BY <1>2, <1>3, <1>4, <1>5, <1>8, SceneFailsIInv DEF SetPhase
  <1> QED
    BY <1>1, <1>6, <1>7, <1>8

LEMMA DissociateIInv ==
    ASSUME IInv, NEW s \in XWindow, Dissociate(s)
    PROVE  IInv'
  <1>0. TypeOK /\ \A d \in Client : Entry(d) /\ Wiring(d)
    BY DEF IInv
  <1> DEFINE o(c) == [Unmapped(c) EXCEPT !.wired = @ \ {"map"}]
  <1>1. PICK c \in Hears(s, "core") :
           obj' = [obj EXCEPT ![c] = o(c)] /\ ForgetIf(Unmanages(c), c)
    BY DEF Dissociate
  <1>2. /\ s \notin strayed /\ phase[s] \in {"paired", "mapped"}
        /\ phase' = [phase EXCEPT ![s] = "unpaired"]
        /\ UNCHANGED <<override, made, gen, strayed>>
    BY DEF Dissociate, SetPhase
  <1>3. c \in Client /\ obj[c].surface = s /\ "core" \in obj[c].wired /\ s \in Surface
    BY <1>1 DEF Hears, Surface
  <1>4. /\ o(c) \in Object /\ o(c).surface = s /\ o(c).gen = obj[c].gen
        /\ o(c).scene = FALSE /\ o(c).linked = (obj[c].linked /\ ~Unmanages(c))
        /\ o(c).refs = obj[c].refs /\ "core" \in o(c).wired /\ "map" \notin o(c).wired
    <2> HIDE DEF Unmapped
    <2>1. o(c).wired = Unmapped(c).wired \ {"map"}
      BY <1>0, <1>3, UnmappedFields DEF Object
    <2> QED
      BY <1>0, <1>3, <2>1, UnmappedFields DEF Object
  <1>5. Unmanages(c) \in BOOLEAN
    BY <1>0, <1>3 DEF Unmanages, TypeOK, Object
  <1>6. obj'[c] = o(c) /\ phase'[s] = "unpaired"
    BY <1>0, <1>1, <1>2, <1>3 DEF TypeOK
  <1> HIDE DEF o
  <1>7. Attached(c) /\ obj[c].refs = 1
    BY <1>0, <1>2, <1>3 DEF Attached, Wiring
  <1>8. Wiring(c)'
    BY <1>0, <1>2, <1>3, <1>4, <1>6, <1>7, SurfacesDiffer
    DEF Wiring, Attached, Dead, XWindowWiring
  <1> QED
    BY <1>1, <1>2, <1>3, <1>4, <1>5, <1>7, <1>8, UnshownIInv

\* The client of a toplevel or window that goes, and of a toplevel that
\* another client takes, loses its reference and its listeners.
LEMMA LetGoFields ==
    ASSUME NEW u \in Object, u.refs = 1
    PROVE  /\ LET o == [u EXCEPT !.linked = FALSE, !.refs = @ - 1, !.wired = {}]
              IN  /\ o \in Object /\ o.surface = u.surface /\ o.gen = u.gen
                  /\ o.scene = u.scene /\ ~o.linked /\ o.refs = 0 /\ o.wired = {}
           /\ LET o == [u EXCEPT !.wired = {}, !.refs = @ - 1]
              IN  /\ o \in Object /\ o.surface = u.surface /\ o.gen = u.gen
                  /\ o.scene = u.scene /\ o.linked = u.linked /\ o.refs = 0 /\ o.wired = {}
  <1> DEFINE destroyed == [u EXCEPT !.linked = FALSE, !.refs = @ - 1, !.wired = {}]
             handedOver == [u EXCEPT !.wired = {}, !.refs = @ - 1]
  <1>1. destroyed \in Object /\ handedOver \in Object
    <2> PICK n \in 0..1 : n = u.refs - 1
      OBVIOUS
    <2>1. destroyed \in Object
      BY DEF Object
    <2>2. handedOver \in Object
      BY DEF Object
    <2> QED
      BY <2>1, <2>2
  <1>2. /\ destroyed.surface = u.surface /\ destroyed.gen = u.gen
        /\ destroyed.scene = u.scene /\ ~destroyed.linked /\ destroyed.refs = 0
        /\ destroyed.wired = {}
    BY DEF Object
  <1>3. /\ handedOver.surface = u.surface /\ handedOver.gen = u.gen
        /\ handedOver.scene = u.scene /\ handedOver.linked = u.linked
        /\ handedOver.refs = 0 /\ handedOver.wired = {}
    BY DEF Object
  <1> QED
    BY <1>1, <1>2, <1>3

LEMMA DestroyIInv ==
    ASSUME IInv, NEW s \in Surface, Destroy(s)
    PROVE  IInv'
  <1>0. TypeOK /\ \A d \in Client : Entry(d) /\ Wiring(d)
    BY DEF IInv
  <1>1. PICK c \in Hears(s, "core") :
           obj' = [obj EXCEPT ![c] = Destroyed(c)] /\ ForgetIf(TRUE, c)
    BY DEF Destroy
  <1>2. /\ s \notin strayed /\ phase' = [phase EXCEPT ![s] = "gone"]
        /\ UNCHANGED <<override, made, gen, strayed>>
    BY DEF Destroy, SetPhase
  <1>3. c \in Client /\ obj[c].surface = s /\ "core" \in obj[c].wired
    BY <1>1 DEF Hears
  <1>4. obj[c].refs = 1
    BY <1>0, <1>2, <1>3 DEF Wiring
  <1>5. /\ Destroyed(c) \in Object /\ Destroyed(c).surface = s
        /\ Destroyed(c).gen = obj[c].gen /\ Destroyed(c).scene = FALSE
        /\ ~Destroyed(c).linked /\ Destroyed(c).refs = 0 /\ Destroyed(c).wired = {}
    <2>1. Unmapped(c) \in Object /\ Unmapped(c).surface = s /\ Unmapped(c).refs = 1
          /\ Unmapped(c).gen = obj[c].gen /\ Unmapped(c).scene = FALSE
      BY <1>0, <1>3, <1>4, UnmappedFields
    <2> QED
      BY <2>1, LetGoFields DEF Destroyed
  <1>6. obj'[c] = Destroyed(c)
    BY <1>0, <1>1, <1>3 DEF TypeOK
  <1>7. Wiring(c)'
    BY <1>5, <1>6 DEF Wiring, Attached
  <1> QED
    <2>1. TRUE \in BOOLEAN
      OBVIOUS
    <2> QED
      BY <1>1, <1>2, <1>3, <1>5, <1>7, <2>1, UnshownIInv

(* A client enters: a new one, for a surface that no other has listeners   *)
(* on.  The one that the toplevel is taken from is let go of in the step.  *)
\* What a step that makes a client for s does to another one: nothing, or it
\* takes s from it for good.
LeftAlone(d, s) ==
    \/ /\ obj'[d] = obj[d] /\ listed'[d] = listed[d]
       /\ d \in stack' <=> d \in stack
       /\ d \in announced' <=> d \in announced
       /\ obj[d].surface = s => obj[d].wired = {}
    \/ /\ obj[d].surface = s /\ obj'[d].surface = s
       /\ ~obj'[d].linked /\ obj'[d].wired = {}
       /\ obj'[d].refs = 0 /\ listed'[d] = 0
       /\ d \notin stack' /\ d \notin announced'

LEMMA EnterIInv ==
    ASSUME IInv, TypeOK',
           NEW s \in Surface \ strayed, made < MaxClients, made' = made + 1,
           NEW n \in Client, n = made + 1,
           NEW p \in {"unconfigured", "unpaired"}, p = "unpaired" <=> s \in XWindow,
           phase' = [phase EXCEPT ![s] = p],
           obj'[n] = NewClient(s), listed'[n] = 1,
           override \subseteq override', override' \subseteq override \cup {s},
           s \in override' => s \in override \/ phase[s] = "none",
           stack' \subseteq stack, announced' \subseteq announced,
           UNCHANGED <<gen, strayed>>,
           \A d \in Client \ {n} : LeftAlone(d, s)
    PROVE  IInv'
  <1>0. TypeOK /\ Sole /\ Heard /\ \A d \in Client : Origin(d) /\ Entry(d) /\ Wiring(d)
    BY DEF IInv
  <1>1. /\ made \in Nat /\ gen \in Nat /\ n \notin stack' /\ n \notin announced'
        /\ phase'[s] = p /\ \A t \in Surface : t # s => phase'[t] = phase[t]
    BY <1>0 DEF TypeOK, Origin, Unmade
  <1>2. Origin(n)' /\ Entry(n)' /\ Wiring(n)' /\ Attached(n)'
    <2>1. /\ obj'[n].surface = s /\ obj'[n].refs = 1 /\ obj'[n].linked = TRUE
          /\ obj'[n].scene = FALSE /\ obj'[n].gen = gen
          /\ obj'[n].wired = IF s \in Toplevel THEN {"core", "initial_commit", "map"}
                             ELSE {"core"}
      BY DEF NewClient
    <2> QED
      BY <1>1, <2>1, SurfacesDiffer
      DEF Origin, Entry, Wiring, Attached, Dead, ToplevelWiring, XWindowWiring, Surface
  <1>3. ASSUME NEW d \in Client \ {n}
        PROVE  /\ Origin(d)' /\ Entry(d)' /\ Wiring(d)'
               /\ Attached(d)' => /\ Attached(d) /\ obj'[d].surface = obj[d].surface
                                  /\ obj'[d].surface # s
    <2>1. CASE /\ obj'[d] = obj[d] /\ listed'[d] = listed[d]
               /\ d \in stack' <=> d \in stack
               /\ d \in announced' <=> d \in announced
               /\ obj[d].surface = s => obj[d].wired = {}
      <3>1. Origin(d)'
        BY <1>0, <1>1, <2>1 DEF Origin, Client
      <3>2. IsUnmanaged(d)' <=> IsUnmanaged(d)
        <4>1. CASE obj[d].surface = s /\ s \notin override
          <5>1. phase[s] # "none"
            BY <1>0, <4>1, NoSurfaceAssumption DEF Origin, Unmade, Surface
          <5> QED
            BY <2>1, <4>1, <5>1 DEF IsUnmanaged
        <4>2. CASE obj[d].surface # s \/ s \in override
          BY <2>1, <4>2 DEF IsUnmanaged
        <4> QED
          BY <4>1, <4>2
      <3>3. Entry(d)'
        BY <1>0, <2>1, <3>2 DEF Entry
      <3>4. Attached(d)' => Attached(d) /\ obj'[d].surface # s
        BY <2>1 DEF Attached
      <3>5. Attached(d) => phase'[obj[d].surface] = phase[obj[d].surface]
        BY <1>1, <2>1, Made DEF Attached
      <3>6. Wiring(d)'
        BY <1>0, <2>1, <3>5 DEF Wiring, Attached, ToplevelWiring, XWindowWiring
      <3> QED
        BY <2>1, <3>1, <3>3, <3>4, <3>6
    <2>2. CASE /\ obj[d].surface = s /\ obj'[d].surface = s
               /\ ~obj'[d].linked /\ obj'[d].wired = {}
               /\ obj'[d].refs = 0 /\ listed'[d] = 0
               /\ d \notin stack' /\ d \notin announced'
      <3>1. d <= made
        BY <1>0, <2>2, NoSurfaceAssumption DEF Origin, Unmade, TypeOK, Client, Surface
      <3>2. Origin(d)'
        BY <1>1, <2>2, <3>1 DEF Origin, Client
      <3> QED
        BY <2>2, <3>2 DEF Entry, Wiring, Attached
    <2> QED
      BY <2>1, <2>2 DEF LeftAlone
  <1>4. Sole'
    <2> SUFFICES ASSUME NEW c \in Client, NEW d \in Client, Attached(c)', Attached(d)',
                        obj'[c].surface = obj'[d].surface, c # d
                 PROVE  FALSE
      BY DEF Sole
    <2>1. obj'[n].surface = s
      BY DEF NewClient
    <2>2. CASE c # n /\ d # n
      BY <1>0, <1>3, <2>2 DEF Sole
    <2>3. CASE c = n \/ d = n
      BY <1>3, <2>1, <2>3
    <2> QED
      BY <2>2, <2>3
  <1>5. Heard'
    <2> SUFFICES ASSUME NEW t \in Surface \ strayed, phase'[t] \notin Dead
                 PROVE  \E d \in Client : obj'[d].surface = t /\ obj'[d].wired # {}
      BY DEF Heard
    <2>1. CASE t = s
      <3>1. obj'[n].surface = s /\ obj'[n].wired # {}
        BY DEF NewClient
      <3> QED
        BY <2>1, <3>1
    <2>2. CASE t # s
      <3>1. PICK d \in Client : obj[d].surface = t /\ obj[d].wired # {}
        BY <1>0, <1>1, <2>2 DEF Heard
      <3>2. d # n
        BY <1>0, <1>1, <3>1 DEF Origin, Unmade
      <3>3. obj'[d] = obj[d]
        BY <2>2, <3>1, <3>2 DEF LeftAlone
      <3> QED
        BY <3>1, <3>3
    <2> QED
      BY <2>1, <2>2
  <1>6. StrayedExist'
    BY <1>0, <1>1 DEF IInv, StrayedExist, TypeOK
  <1> QED
    BY <1>2, <1>3, <1>4, <1>5, <1>6 DEF IInv

LEMMA NewClientType == ASSUME TypeOK, NEW s \in Surface PROVE NewClient(s) \in Object
  <1>1. 1 \in 0..1 /\ gen \in Nat
    BY DEF TypeOK
  <1>2. PICK w \in SUBSET Listener :
           w = IF s \in Toplevel THEN {"core", "initial_commit", "map"} ELSE {"core"}
    BY DEF Listener
  <1> QED
    BY <1>1, <1>2 DEF NewClient, Object

LEMMA CreateIInv ==
    ASSUME IInv, NEW s \in Surface, Create(s)
    PROVE  IInv'
  <1>0. TypeOK /\ StrayedExist /\ \A d \in Client : Origin(d)
    BY DEF IInv
  <1> DEFINE n == made + 1
             p == IF s \in Toplevel THEN "unconfigured" ELSE "unpaired"
  <1>1. /\ phase[s] = "none" /\ made < MaxClients /\ made' = made + 1
        /\ phase' = [phase EXCEPT ![s] = p]
        /\ obj' = [obj EXCEPT ![n] = NewClient(s)]
        /\ listed' = [listed EXCEPT ![n] = 1]
        /\ override \subseteq override' /\ override' \subseteq override \cup {s}
        /\ override' \subseteq override \cup XWindow
        /\ UNCHANGED <<stack, announced, gen, strayed>>
    BY DEF Create, SetPhase
  <1>2. n \in Client /\ s \notin strayed /\ made \in Nat
    BY <1>0, <1>1, MaxClientsAssumption DEF TypeOK, Client, StrayedExist
  <1>3. p \in {"unconfigured", "unpaired"} /\ (p = "unpaired" <=> s \in XWindow)
    BY SurfacesDiffer DEF Surface
  <1>4. /\ obj'[n] = NewClient(s) /\ listed'[n] = 1
        /\ \A d \in Client \ {n} : obj'[d] = obj[d] /\ listed'[d] = listed[d]
    BY <1>0, <1>1, <1>2 DEF TypeOK
  <1>5. TypeOK'
    <2>1. NewClient(s) \in Object
      BY <1>0, NewClientType
    <2>2. phase' \in [Surface -> {"none", "unconfigured", "configured",
                                  "unpaired", "paired", "mapped", "gone"}]
      BY <1>0, <1>1, <1>3 DEF TypeOK
    <2>3. made' \in 0..MaxClients
      BY <1>1, <1>2, MaxClientsAssumption
    <2> HIDE DEF p, n
    <2> QED
      BY <1>0, <1>1, <1>2, <2>1, <2>2, <2>3 DEF TypeOK
  <1>6. \A d \in Client : obj[d].surface # s
    BY <1>0, <1>1, NoSurfaceAssumption DEF Origin, Unmade, Surface
  <1>7. \A d \in Client \ {n} : LeftAlone(d, s)
    BY <1>1, <1>4, <1>6 DEF LeftAlone
  <1>8. stack' \subseteq stack /\ announced' \subseteq announced
    BY <1>1
  <1>9. s \in override' => s \in override \/ phase[s] = "none"
    BY <1>1
  <1>10. s \in Surface \ strayed
    BY <1>2
  <1> HIDE DEF p, n
  <1> QED
    BY <1>1, <1>2, <1>3, <1>4, <1>5, <1>7, <1>8, <1>9, <1>10, EnterIInv DEF n

LEMMA HandOverIInv ==
    ASSUME IInv, NEW s \in Toplevel \ strayed, phase' = [phase EXCEPT ![s] = "unconfigured"],
           NEW c \in Client, obj[c].surface = s, obj[c].wired # {},
           HandsOver(c), HandOver(c, s), UNCHANGED <<override, gen, strayed>>
    PROVE  IInv'
  <1>0. TypeOK /\ Sole /\ \A d \in Client : Origin(d) /\ Entry(d) /\ Wiring(d)
    BY DEF IInv
  <1> DEFINE n == made + 1
             o == [Unmapped(c) EXCEPT !.wired = {}, !.refs = @ - 1]
  <1>1. /\ made < MaxClients /\ made' = made + 1
        /\ obj' = [obj EXCEPT ![c] = o, ![n] = NewClient(s)]
        /\ listed' = [Delist(c) EXCEPT ![n] = 1]
        /\ stack' = stack \ {c} /\ announced' = announced \ {c}
    BY DEF HandOver
  <1>2. /\ n \in Client /\ made \in Nat /\ c \in 1..made /\ c # n
        /\ s \in Surface \ strayed /\ s \notin XWindow
    BY <1>0, <1>1, Made, MaxClientsAssumption, SurfacesDiffer DEF TypeOK, Client, Surface
  <1>3. obj[c].refs = 1
    BY <1>0 DEF Wiring
  <1>4. /\ o \in Object /\ o.surface = s /\ ~o.linked /\ o.refs = 0 /\ o.wired = {}
    BY <1>0, <1>3, UnmappedFields, LetGoFields DEF HandsOver
  <1> HIDE DEF o
  <1>5. /\ obj'[n] = NewClient(s) /\ listed'[n] = 1 /\ obj'[c] = o /\ listed'[c] = 0
        /\ \A d \in Client \ {n, c} : obj'[d] = obj[d] /\ listed'[d] = listed[d]
    <2>1. listed[c] \in 0..1 /\ (IF listed[c] = 0 THEN 0 ELSE listed[c] - 1) = 0
      BY <1>0 DEF TypeOK
    <2>2. Delist(c) = [listed EXCEPT ![c] = 0]
      BY <2>1 DEF Delist
    <2> QED
      BY <1>0, <1>1, <1>2, <2>2 DEF TypeOK
  <1>6. TypeOK'
    <2>1. NewClient(s) \in Object
      BY <1>0, <1>2, NewClientType
    <2>2. phase' \in [Surface -> {"none", "unconfigured", "configured",
                                  "unpaired", "paired", "mapped", "gone"}]
      BY <1>0, <1>2 DEF TypeOK
    <2>3. made' \in 0..MaxClients
      BY <1>1, <1>2, MaxClientsAssumption
    <2>4. obj' \in [Client -> Object]
      BY <1>0, <1>1, <1>2, <1>4, <2>1 DEF TypeOK
    <2>5. listed' \in [Client -> 0..1]
      <3>1. DOMAIN listed' = Client
        BY <1>0, <1>1 DEF Delist, TypeOK
      <3>2. \A d \in Client : listed'[d] \in 0..1
        BY <1>0, <1>2, <1>5 DEF TypeOK
      <3>3. listed' = [d \in Client |-> listed'[d]]
        BY <1>0, <1>1, <3>1 DEF Delist, TypeOK
      <3> QED
        BY <3>2, <3>3
    <2> QED
      BY <1>0, <1>1, <2>2, <2>3, <2>4, <2>5 DEF TypeOK
  <1>7. \A d \in Client \ {n, c} : obj[d].surface = s => obj[d].wired = {}
    BY <1>0, <1>2 DEF Sole, Attached
  <1>8. \A d \in Client \ {n} : LeftAlone(d, s)
    BY <1>1, <1>4, <1>5, <1>7 DEF LeftAlone
  <1>9. "unconfigured" \in {"unconfigured", "unpaired"} /\ "unconfigured" # "unpaired"
    OBVIOUS
  <1>10. stack' \subseteq stack /\ announced' \subseteq announced
    BY <1>1
  <1>11. override \subseteq override' /\ override' \subseteq override \cup {s}
         /\ (s \in override' => s \in override)
    OBVIOUS
  <1>12. /\ made < MaxClients /\ made' = made + 1 /\ n = made + 1 /\ UNCHANGED <<gen, strayed>>
         /\ phase' = [phase EXCEPT ![s] = "unconfigured"]
    BY <1>1, <1>2
  <1> HIDE DEF n
  <1>13. "unconfigured" = "unpaired" <=> s \in XWindow
    BY <1>2, <1>9
  <1> QED
    BY <1>2, <1>5, <1>6, <1>8, <1>9, <1>10, <1>11, <1>12, <1>13, EnterIInv

LEMMA NullCommitIInv ==
    ASSUME IInv, NEW s \in Toplevel, NullCommit(s)
    PROVE  IInv'
  <1>0. TypeOK /\ \A d \in Client : Origin(d) /\ Entry(d) /\ Wiring(d)
    BY DEF IInv
  <1>1. PICK c \in Hears(s, "core") : IF HandsOver(c) THEN HandOver(c, s) ELSE KeepClient(c)
    BY DEF NullCommit
  <1>2. /\ s \in Toplevel \ strayed /\ phase' = [phase EXCEPT ![s] = "unconfigured"]
        /\ UNCHANGED <<override, gen, strayed>>
    BY DEF NullCommit, SetPhase
  <1>3. /\ c \in Client /\ obj[c].surface = s /\ "core" \in obj[c].wired /\ obj[c].wired # {}
        /\ s \in Surface /\ s \notin XWindow
    BY <1>1, SurfacesDiffer DEF Hears, Surface
  <1>4. CASE HandsOver(c)
    BY <1>1, <1>2, <1>3, <1>4, HandOverIInv
  <1>5. CASE ~HandsOver(c)
    <2> DEFINE o == Unmapped(c)
               u == Unmanages(c)
    <2>1. obj' = [obj EXCEPT ![c] = o] /\ ForgetIf(u, c) /\ made' = made
      BY <1>1, <1>5 DEF KeepClient
    <2>2. /\ o \in Object /\ o.surface = s /\ o.refs = obj[c].refs /\ o.gen = obj[c].gen
          /\ o.scene = FALSE /\ o.linked = (obj[c].linked /\ ~u)
          /\ o.wired \subseteq obj[c].wired /\ obj[c].wired \subseteq o.wired \cup {"commit"}
      BY <1>0, <1>3, UnmappedFields
    <2>3. u \in BOOLEAN
      BY <1>0, <1>3 DEF Unmanages, TypeOK, Object
    <2>4. "core" \in o.wired /\ ("initial_commit" \in o.wired => o.linked)
      BY <1>3, <1>5, <2>2 DEF HandsOver
    <2>5. obj'[c] = o /\ phase'[s] = "unconfigured"
      BY <1>0, <1>2, <1>3, <2>1 DEF TypeOK
    <2>6. Attached(c) /\ obj[c].refs = 1
      BY <1>0, <1>2, <1>3 DEF Attached, Wiring
    <2> HIDE DEF o, u
    <2>7. Wiring(c)'
      BY <1>0, <1>2, <1>3, <2>2, <2>4, <2>5, <2>6
      DEF Wiring, Attached, Dead, ToplevelWiring
    <2>8. o.linked <=> obj[c].linked /\ ~u
      BY <2>2
    <2>9. (o.linked => o.refs = 1) /\ (Unmanages(c) => u) /\ o.wired # {}
      BY <2>2, <2>4, <2>6 DEF u
    <2> QED
      BY <1>2, <1>3, <2>1, <2>2, <2>3, <2>7, <2>8, <2>9, UnshownIInv
  <1> QED
    BY <1>4, <1>5

\* c:unmanage() leaves its surface to stray.
LEMMA LuaUnmanageIInv ==
    ASSUME IInv, NEW c \in Client, LuaUnmanage(c)
    PROVE  IInv'
  <1> DEFINE s == obj[c].surface
             o == [[obj[c] EXCEPT !.linked = FALSE] EXCEPT !.refs = @ - 1]
  <1>0. TypeOK /\ Sole /\ Heard /\ StrayedExist
        /\ \A d \in Client : Origin(d) /\ Entry(d) /\ Wiring(d)
    BY DEF IInv
  <1>1. /\ obj[c].linked /\ obj' = [obj EXCEPT ![c].linked = FALSE, ![c].refs = @ - 1]
        /\ ForgetIf(TRUE, c) /\ strayed' = strayed \cup {s}
        /\ UNCHANGED <<phase, override, made, gen>>
    BY DEF LuaUnmanage, protocol
  <1>2. s \in Surface /\ phase[s] # "none" /\ obj[c] \in Object
        /\ obj[c].refs = 1 /\ listed[c] = 1
    BY <1>0, <1>1, Made DEF Entry, TypeOK
  <1>3. o \in Object /\ o.surface = s /\ ~o.linked
    <2>1. PICK n \in 0..1 : n = obj[c].refs - 1
      BY <1>2
    <2>2. o \in Object
      BY <1>2, <2>1 DEF Object
    <2>3. o.surface = s /\ ~o.linked
      BY <1>2 DEF Object
    <2> QED
      BY <2>2, <2>3
  <1>4. /\ obj' = [obj EXCEPT ![c] = o] /\ listed' = [listed EXCEPT ![c] = 0]
        /\ stack' = stack \ {c} /\ announced' = announced \ {c}
    <2>1. (IF listed[c] = 0 THEN 0 ELSE listed[c] - 1) = 0
      BY <1>2
    <2>2. obj' = [obj EXCEPT ![c] = o]
      BY <1>0, <1>1, <1>2 DEF TypeOK, Object
    <2> QED
      BY <1>1, <2>1, <2>2 DEF ForgetIf, Delist
  <1> HIDE DEF o
  <1>5. obj'[c] = o /\ listed'[c] = 0
        /\ \A d \in Client \ {c} : obj'[d] = obj[d] /\ listed'[d] = listed[d]
    BY <1>0, <1>4 DEF TypeOK
  <1>6. TypeOK'
    <2>1. strayed' \subseteq Surface /\ obj' \in [Client -> Object]
      <3>1. obj' \in [Client -> Object]
        BY <1>0, <1>3, <1>4 DEF TypeOK
      <3>2. strayed' \subseteq Surface
        BY <1>0, <1>1, <1>2 DEF TypeOK
      <3> QED
        BY <3>1, <3>2
    <2>2. listed' \in [Client -> 0..1]
      BY <1>0, <1>4 DEF TypeOK
    <2> QED
      BY <1>0, <1>1, <1>4, <2>1, <2>2 DEF TypeOK
  <1>7. ASSUME NEW d \in Client
        PROVE  /\ Origin(d)' /\ Entry(d)' /\ Wiring(d)'
               /\ Attached(d)' => d # c /\ Attached(d)
    <2>1. CASE d = c
      <3>1. c <= made
        BY <1>0, <1>1 DEF Origin, Unmade, TypeOK, Client
      <3>2. Origin(c)'
        BY <1>0, <1>1, <1>2, <1>3, <1>5, <3>1 DEF Origin, TypeOK, Client
      <3>3. Entry(c)'
        BY <1>1, <1>3, <1>4, <1>5 DEF Entry
      <3>4. obj'[c].surface \in strayed'
        BY <1>1, <1>3, <1>5
      <3> QED
        BY <2>1, <3>2, <3>3, <3>4 DEF Wiring, Attached
    <2>2. CASE d # c
      <3>1. /\ obj'[d] = obj[d] /\ listed'[d] = listed[d]
            /\ d \in stack' <=> d \in stack
            /\ d \in announced' <=> d \in announced
        BY <1>4, <1>5, <2>2
      <3>2. Origin(d)' /\ Entry(d)'
        BY <1>0, <1>1, <1>4, <2>2, <3>1 DEF Origin, Entry, IsUnmanaged
      <3>3. Wiring(d)' /\ (Attached(d)' => Attached(d))
        <4>1. Wiring(d)
          BY <1>0
        <4>2. strayed \subseteq strayed' /\ gen' = gen /\ phase' = phase
          BY <1>1
        <4> QED
          BY <3>1, <4>1, <4>2 DEF Wiring, Attached, ToplevelWiring, XWindowWiring
      <3> QED
        BY <2>2, <3>2, <3>3
    <2> QED
      BY <2>1, <2>2
  <1>8. Sole'
    BY <1>0, <1>5, <1>7 DEF Sole
  <1>9. Heard'
    <2> SUFFICES ASSUME NEW t \in Surface \ strayed', phase'[t] \notin Dead
                 PROVE  \E d \in Client : obj'[d].surface = t /\ obj'[d].wired # {}
      BY DEF Heard
    <2>1. PICK d \in Client : obj[d].surface = t /\ obj[d].wired # {}
      BY <1>0, <1>1 DEF Heard
    <2>2. d # c
      BY <1>1, <2>1
    <2> QED
      BY <1>5, <2>1, <2>2
  <1>10. StrayedExist'
    BY <1>0, <1>1, <1>2 DEF StrayedExist
  <1> QED
    BY <1>6, <1>7, <1>8, <1>9, <1>10 DEF IInv

(* A reload wires the listed clients again.  The surfaces of the others    *)
(* that had listeners stray, so that what is left of them does not count.  *)
LEMMA HotReloadIInv ==
    ASSUME IInv, HotReload
    PROVE  IInv'
  <1>0. TypeOK /\ Sole /\ Heard /\ StrayedExist
        /\ \A d \in Client : Origin(d) /\ Entry(d) /\ Wiring(d)
    BY DEF IInv
  <1>1. /\ gen' = gen + 1 /\ gen \in Nat
        /\ obj' = [c \in Client |-> IF listed[c] > 0 THEN Restored(c) ELSE obj[c]]
        /\ stack' = {c \in Client : listed[c] > 0}
        /\ announced' = {c \in Client : listed[c] > 0 /\ obj[c].scene}
        /\ strayed' = strayed \cup {obj[c].surface : c \in {d \in Client : StraysOnReload(d)}}
        /\ UNCHANGED <<phase, override, made, listed>>
    BY <1>0 DEF HotReload, protocol, TypeOK
  <1>2. ASSUME NEW c \in Client
        PROVE  /\ obj[c].linked <=> listed[c] > 0
               /\ obj[c].linked => obj[c].refs = 1
               /\ StraysOnReload(c) => obj[c].surface \in strayed'
               /\ obj[c].surface \notin strayed' => obj[c].surface \notin strayed
               /\ ~obj[c].linked => obj'[c] = obj[c]
    BY <1>0, <1>1 DEF Entry
  <1>3. ASSUME NEW c \in Client, obj[c].linked
        PROVE  /\ obj'[c] \in Object /\ obj'[c].surface = obj[c].surface
               /\ obj'[c].refs = 1 /\ obj'[c].linked /\ obj'[c].scene = obj[c].scene
               /\ obj'[c].wired = Rewired(c) /\ obj'[c].gen = gen + 1
    <2>1. Rewired(c) \in SUBSET Listener
      BY DEF Rewired, Listener
    <2>2. obj'[c] = [obj[c] EXCEPT !.wired = Rewired(c), !.gen = gen + 1]
      BY <1>1, <1>2, <1>3 DEF Restored
    <2>3. obj[c] \in Object /\ gen + 1 \in Nat
      BY <1>0, <1>1 DEF TypeOK
    <2> HIDE DEF Rewired
    <2> QED
      <3>1. PICK w \in SUBSET Listener : w = Rewired(c)
        BY <2>1
      <3>2. PICK g \in Nat : g = gen + 1
        BY <2>3
      <3>3. PICK r \in Object : r = obj[c]
        BY <2>3
      <3>4. obj'[c] = [r EXCEPT !.wired = w, !.gen = g]
        BY <2>2, <3>1, <3>2, <3>3
      <3>5. /\ obj'[c] \in Object /\ obj'[c].surface = r.surface /\ obj'[c].refs = r.refs
            /\ obj'[c].linked = r.linked /\ obj'[c].scene = r.scene
            /\ obj'[c].wired = w /\ obj'[c].gen = g
        BY <3>4 DEF Object
      <3> QED
        BY <1>2, <1>3, <3>1, <3>2, <3>3, <3>5
  <1>4. TypeOK'
    <2>1. obj' \in [Client -> Object]
      <3>1. \A c \in Client : obj'[c] \in Object
        BY <1>0, <1>2, <1>3 DEF TypeOK
      <3> QED
        BY <1>1, <3>1
    <2>2. strayed' \subseteq Surface
      BY <1>0, <1>1, Made DEF StraysOnReload, TypeOK
    <2> QED
      BY <1>0, <1>1, <2>1, <2>2 DEF TypeOK
  <1>5. ASSUME NEW c \in Client
        PROVE  Origin(c)' /\ Entry(c)'
    <2>1. CASE obj[c].linked
      <3>1. ~(c > made)
        BY <1>0, <2>1 DEF Origin, Unmade
      <3>2. IsUnmanaged(c)' <=> IsUnmanaged(c)
        BY <1>1, <1>3, <2>1 DEF IsUnmanaged
      <3>3. (c \in announced' <=> obj[c].scene) /\ c \in stack'
        BY <1>1, <1>2, <2>1
      <3> QED
        BY <1>0, <1>1, <1>3, <2>1, <3>1, <3>2, <3>3 DEF Origin, Entry
    <2>2. CASE ~obj[c].linked
      <3>1. c \notin announced' /\ c \notin stack' /\ obj'[c] = obj[c]
        BY <1>1, <1>2, <2>2
      <3> QED
        BY <1>0, <1>1, <2>2, <3>1 DEF Origin, Entry
    <2> QED
      BY <2>1, <2>2
  <1>6. ASSUME NEW c \in Client, obj'[c].surface \notin strayed'
        PROVE  /\ obj'[c].surface = obj[c].surface /\ obj[c].surface \notin strayed
               /\ obj'[c].wired # {} <=> obj[c].wired # {}
               /\ obj'[c].wired # {} => obj[c].linked
    <2>1. CASE obj[c].linked
      BY <1>0, <1>2, <1>3, <1>6, <2>1 DEF Wiring, Rewired
    <2>2. CASE ~obj[c].linked
      <3>1. listed[c] = 0
        BY <1>0, <2>2 DEF Entry
      <3> QED
        BY <1>2, <1>6, <2>2, <3>1 DEF StraysOnReload
    <2> QED
      BY <2>1, <2>2
  <1>7. ASSUME NEW c \in Client
        PROVE  Wiring(c)'
    <2> SUFFICES ASSUME obj'[c].surface \notin strayed' PROVE Wiring(c)'
      BY DEF Wiring, Attached
    <2>1. obj'[c].refs = 1 <=> obj'[c].wired # {}
      BY <1>0, <1>2, <1>3, <1>6 DEF Wiring
    <2>2. ASSUME obj'[c].wired # {}
          PROVE  /\ obj'[c].gen = gen' /\ "core" \in obj'[c].wired
                 /\ phase'[obj'[c].surface] \notin Dead
                 /\ obj'[c].surface \in Toplevel => ToplevelWiring(c)'
                 /\ obj'[c].surface \in XWindow => XWindowWiring(c)'
      <3>1. Attached(c) /\ obj[c].linked /\ ~StraysOnReload(c)
        BY <1>2, <1>6, <2>2 DEF Attached
      <3>2. obj'[c].gen = gen' /\ "core" \in obj'[c].wired
        BY <1>1, <1>3, <3>1 DEF Rewired
      <3>3. phase'[obj'[c].surface] \notin Dead
        BY <1>0, <1>1, <1>6, <3>1 DEF Wiring
      <3>4. obj'[c].surface \in Toplevel => ToplevelWiring(c)'
        BY <1>1, <1>3, <3>1 DEF ToplevelWiring
      <3>5. ASSUME obj'[c].surface \in XWindow
            PROVE  XWindowWiring(c)'
        <4>1. IsX11(c) /\ XWindowWiring(c)
          BY <1>0, <1>6, <3>1, <3>5 DEF IsX11, Wiring
        <4>2. "map" \in obj'[c].wired <=> obj[c].scene
          <5>1. obj'[c].wired = IF obj[c].scene THEN {"core", "map"} ELSE {"core"}
            BY <1>3, <3>1, <4>1 DEF Rewired
          <5> QED
            BY <5>1
        <4>3. "map" \in obj[c].wired => obj[c].scene
          BY <3>1, <4>1 DEF StraysOnReload
        <4> QED
          BY <1>1, <1>3, <3>1, <4>1, <4>2, <4>3 DEF XWindowWiring
      <3> QED
        BY <3>2, <3>3, <3>4, <3>5
    <2> QED
      BY <2>1, <2>2 DEF Wiring, Attached
  <1>8. Sole'
    BY <1>0, <1>6 DEF Sole, Attached
  <1>9. Heard'
    <2> SUFFICES ASSUME NEW t \in Surface \ strayed', phase'[t] \notin Dead
                 PROVE  \E d \in Client : obj'[d].surface = t /\ obj'[d].wired # {}
      BY DEF Heard
    <2>1. PICK d \in Client : obj[d].surface = t /\ obj[d].wired # {}
      BY <1>0, <1>1 DEF Heard
    <2>2. obj'[d].surface = t
      BY <1>2, <1>3, <2>1
    <2> QED
      BY <1>6, <2>1, <2>2
  <1>10. StrayedExist'
    BY <1>0, <1>1, Made DEF StrayedExist, StraysOnReload
  <1> QED
    BY <1>4, <1>5, <1>7, <1>8, <1>9, <1>10 DEF IInv

-----------------------------------------------------------------------------

(* The inductive invariant holds in every reachable state, whether or not  *)
(* Lua calls c:unmanage().                                                 *)
THEOREM Inductive == Spec => []IInv
  <1>1. IInv /\ [Next]_vars => IInv'
    <2> SUFFICES ASSUME IInv, [Next]_vars PROVE IInv'
      OBVIOUS
    <2>1. CASE \E s \in Surface : Create(s)
      BY <2>1, CreateIInv
    <2>2. CASE \E s \in Toplevel : InitialCommit(s)
      BY <2>2, InitialCommitIInv
    <2>3. CASE \E s \in Surface : Map(s)
      BY <2>3, MapIInv
    <2>4. CASE \E s \in XWindow : Associate(s)
      BY <2>4, AssociateIInv
    <2>5. CASE \E s \in XWindow : Dissociate(s)
      BY <2>5, DissociateIInv
    <2>6. CASE \E s \in Toplevel : NullCommit(s)
      BY <2>6, NullCommitIInv
    <2>7. CASE \E s \in Surface : Destroy(s)
      BY <2>7, DestroyIInv
    <2>8. CASE \E c \in Client : LuaUnmanage(c)
      BY <2>8, LuaUnmanageIInv
    <2>9. CASE HotReload
      BY <2>9, HotReloadIInv
    <2>10. CASE UNCHANGED vars
      BY <2>10 DEF vars, IInv, TypeOK, Origin, Entry, Wiring, Attached, ToplevelWiring,
                   XWindowWiring, IsUnmanaged, Sole, Heard, StrayedExist
    <2> QED
      BY <2>1, <2>2, <2>3, <2>4, <2>5, <2>6, <2>7, <2>8, <2>9, <2>10 DEF Next
  <1> QED
    BY <1>1, InitIInv, PTL DEF Spec

(* Every variable keeps its type: a client has at most one reference and   *)
(* one entry of globalconf.clients.                                        *)
THEOREM TypeCorrect == Spec => []TypeOK
  <1>1. IInv => TypeOK
    BY DEF IInv
  <1> QED
    BY <1>1, Inductive, PTL

(* Userdata with a listener in it is referenced and of the running Lua     *)
(* state, but for the surfaces that c:unmanage() or a reload left behind.  *)
THEOREM ListenersAreLive == Spec => []SoundListenersLive
  <1>1. IInv => SoundListenersLive
    BY DEF IInv, Wiring, Attached, SoundListenersLive, Live
  <1> QED
    BY <1>1, Inductive, PTL

(* The reference taken when a client is made is released exactly when its  *)
(* listeners are removed.                                                  *)
THEOREM ReferencesBalance == Spec => []RefsBalanced
  <1>1. IInv => RefsBalanced
    BY DEF IInv, Wiring, RefsBalanced
  <1> QED
    BY <1>1, Inductive, PTL

(* From its creation to its destruction a surface has exactly one client   *)
(* that hears of it, client.valid tells the members of globalconf.clients, *)
(* and the stack holds the members that are shown and no other client.     *)
THEOREM ClientsDoAgree == Spec => []ClientsAgree
  <1>1. IInv => ClientsAgree
    <2> SUFFICES ASSUME IInv PROVE ClientsAgree
      OBVIOUS
    <2>0. Sole /\ Heard /\ stack \subseteq Client
          /\ \A c \in Client : Entry(c) /\ Wiring(c)
      BY DEF IInv, TypeOK
    <2>1. OneClientPerSurface
      <3> SUFFICES ASSUME NEW s \in Surface \ strayed
                   PROVE  IF phase[s] \in Dead
                          THEN \A c \in Client : obj[c].surface = s => obj[c].wired = {}
                          ELSE \E c \in Client : Hears(s, "core") = {c} /\
                                 \A d \in Client \ {c} : obj[d].surface = s => obj[d].wired = {}
        BY DEF OneClientPerSurface, Dead
      <3>1. CASE phase[s] \in Dead
        BY <2>0, <3>1 DEF Wiring, Attached
      <3>2. CASE phase[s] \notin Dead
        <4>1. PICK c \in Client : obj[c].surface = s /\ obj[c].wired # {}
          BY <2>0, <3>2 DEF Heard
        <4>2. \A d \in Client \ {c} : obj[d].surface = s => obj[d].wired = {}
          BY <2>0, <4>1 DEF Sole, Attached
        <4>3. "core" \in obj[c].wired
          BY <2>0, <4>1 DEF Wiring, Attached
        <4>4. Hears(s, "core") = {c}
          BY <4>1, <4>2, <4>3 DEF Hears
        <4> QED
          BY <3>2, <4>2, <4>4
      <3> QED
        BY <3>1, <3>2
    <2>2. ValidIffListed /\ StackIsListed
      BY <2>0 DEF Entry, ValidIffListed, StackIsListed
    <2> QED
      BY <2>1, <2>2 DEF ClientsAgree
  <1> QED
    BY <1>1, Inductive, PTL

(* Lua has been asked to manage exactly the managed clients on the screen, *)
(* and before a reload no override-redirect one.                           *)
THEOREM AnnouncedAreShown == Spec => []AnnouncedIsShown
  <1>1. IInv => AnnouncedIsShown
    BY DEF IInv, TypeOK, Entry, AnnouncedIsShown
  <1> QED
    BY <1>1, Inductive, PTL

(* A toplevel that waits to be configured is heard until a reload comes,   *)
(* also by the client that takes it from another, and an X11 window hears  *)
(* of its map and unmap as long as it has a surface, reload or not.        *)
THEOREM WaitingAreHeard == Spec => []WaitingIsHeard
  <1>1. IInv => WaitingIsHeard
    <2> SUFFICES ASSUME IInv PROVE WaitingIsHeard
      OBVIOUS
    <2>0. Heard /\ \A c \in Client : Wiring(c)
      BY DEF IInv
    <2>1. InitialCommitHeardBeforeReload
      <3> SUFFICES ASSUME gen = 0, NEW s \in Toplevel, phase[s] = "unconfigured", s \notin strayed
                   PROVE  \E c \in Hears(s, "initial_commit") : obj[c].linked
        BY DEF InitialCommitHeardBeforeReload, InitialCommitHeard
      <3>1. PICK c \in Client : obj[c].surface = s /\ obj[c].wired # {}
        BY <2>0 DEF Heard, Dead, Surface
      <3> QED
        BY <2>0, <3>1 DEF Wiring, Attached, ToplevelWiring, Hears
    <2>2. PairedIsHeard
      <3> SUFFICES ASSUME NEW s \in XWindow \ strayed
                   PROVE  phase[s] \in {"paired", "mapped"} <=> Hears(s, "map") # {}
        BY DEF PairedIsHeard
      <3>1. \A c \in Client : obj[c].surface = s /\ obj[c].wired # {} =>
               ("map" \in obj[c].wired <=> phase[s] \in {"paired", "mapped"})
        BY <2>0 DEF Wiring, Attached, XWindowWiring
      <3>2. ASSUME phase[s] \in {"paired", "mapped"} PROVE Hears(s, "map") # {}
        <4>1. PICK c \in Client : obj[c].surface = s /\ obj[c].wired # {}
          BY <2>0, <3>2 DEF Heard, Dead, Surface
        <4> QED
          BY <3>1, <3>2, <4>1 DEF Hears
      <3>3. ASSUME Hears(s, "map") # {} PROVE phase[s] \in {"paired", "mapped"}
        BY <3>1, <3>3 DEF Hears
      <3> QED
        BY <3>2, <3>3
    <2> QED
      BY <2>1, <2>2 DEF WaitingIsHeard
  <1> QED
    BY <1>1, Inductive, PTL
=============================================================================
