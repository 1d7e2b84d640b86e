---------------------------- MODULE Input_proofs ----------------------------
(***************************************************************************)
(* Proofs about the pointer, its streams of events, the idle timeouts,     *)
(* touch, tablets and the settings of input devices, for any number of     *)
(* clients, drawins, buttons, fingers, tools, timeouts, inhibitors, rules  *)
(* and outputs, any length of a click and any size of the table.  The      *)
(* parts share no variable; each has an inductive invariant of its own.    *)
(***************************************************************************)
EXTENDS MC_Input, Touch, Tablets, DeviceSettings,
        SequenceTheorems, FiniteSetTheorems, WellFoundedInduction, TLAPS

-----------------------------------------------------------------------------
(* Idle timeouts.  A name is registered once (Distinct), so that the entry *)
(* that goes when a timeout is cleared is the only one of that name.       *)

Distinct == \A i, j \in 1..timeouts : tab[i] = tab[j] => i = j

IdleInv == IdleTypeOK /\ Distinct /\ IdleSound

At(n) == CHOOSE i \in 1..timeouts : tab[i] = n

\* What the table holds once the entry of n has gone.
LEMMA CompactedAt ==
    ASSUME IdleTypeOK, Distinct, NEW n \in Registered
    PROVE  /\ timeouts \in Nat /\ timeouts >= 1 /\ timeouts - 1 \in 0..(Slots - 1)
           /\ Compacted(At(n)) \in [1..Slots -> Name \cup {NoName}]
           /\ \A i, j \in 1..(timeouts - 1) :
                 Compacted(At(n))[i] = Compacted(At(n))[j] => i = j
           /\ {Compacted(At(n))[i] : i \in 1..(timeouts - 1)} = Registered \ {n}
  <1>1. PICK a \in 1..timeouts : a = At(n) /\ tab[a] = n
    BY DEF Registered, At
  <1>2. timeouts \in 0..Slots /\ Slots \in Nat /\ tab \in [1..Slots -> Name \cup {NoName}]
    BY SlotsAssumption DEF IdleTypeOK
  <1>3. /\ timeouts \in Nat /\ timeouts >= 1 /\ timeouts - 1 \in 0..(Slots - 1)
        /\ \A j \in 1..timeouts : j \in 1..Slots
    BY <1>1, <1>2
  <1>4. \A j \in 1..Slots :
            Compacted(a)[j] = IF j \in a..(timeouts - 1) THEN tab[j + 1] ELSE tab[j]
    BY DEF Compacted
  <1>5. Compacted(a) \in [1..Slots -> Name \cup {NoName}]
    <2>1. \A j \in 1..Slots : j \in a..(timeouts - 1) => j + 1 \in 1..Slots
      BY <1>2, <1>3
    <2> QED
      BY <1>2, <2>1 DEF Compacted
  <1>6. ASSUME NEW j \in 1..(timeouts - 1)
        PROVE  \E k \in 1..timeouts : /\ k = IF j < a THEN j ELSE j + 1
                                      /\ Compacted(a)[j] = tab[k]
    <2>1. j \in 1..Slots /\ j \in Nat /\ (j \in a..(timeouts - 1) <=> ~(j < a))
      BY <1>1, <1>2, <1>3
    <2>2. (IF j < a THEN j ELSE j + 1) \in 1..timeouts
      BY <1>1, <1>3, <2>1
    <2> QED
      BY <1>4, <2>1, <2>2
  <1>7. ASSUME NEW i \in 1..(timeouts - 1), NEW j \in 1..(timeouts - 1),
               Compacted(a)[i] = Compacted(a)[j]
        PROVE  i = j
    <2>1. PICK k \in 1..timeouts : k = (IF i < a THEN i ELSE i + 1) /\ Compacted(a)[i] = tab[k]
      BY <1>6
    <2>2. PICK l \in 1..timeouts : l = (IF j < a THEN j ELSE j + 1) /\ Compacted(a)[j] = tab[l]
      BY <1>6
    <2>3. k = l
      BY <1>7, <2>1, <2>2 DEF Distinct
    <2> QED
      BY <1>1, <1>3, <2>1, <2>2, <2>3
  <1>8. ASSUME NEW j \in 1..(timeouts - 1) PROVE Compacted(a)[j] \in Registered \ {n}
    <2>1. PICK k \in 1..timeouts : k = (IF j < a THEN j ELSE j + 1) /\ Compacted(a)[j] = tab[k]
      BY <1>6
    <2>2. k # a
      BY <1>1, <1>3, <2>1
    <2> QED
      BY <1>1, <2>1, <2>2 DEF Distinct, Registered
  <1>9. ASSUME NEW m \in Registered, m # n
        PROVE  \E j \in 1..(timeouts - 1) : Compacted(a)[j] = m
    <2>1. PICK k \in 1..timeouts : tab[k] = m
      BY DEF Registered
    <2>2. k # a
      BY <1>1, <1>9, <2>1
    <2>3. CASE k < a
      <3>1. k \in 1..(timeouts - 1)
        BY <1>1, <1>3, <2>3
      <3> QED
        BY <1>3, <1>6, <2>1, <2>3, <3>1
    <2>4. CASE k > a
      <3>1. k - 1 \in 1..(timeouts - 1) /\ ~(k - 1 < a) /\ (k - 1) + 1 = k
        BY <1>1, <1>3, <2>4
      <3>2. Compacted(a)[k - 1] = tab[k]
        BY <1>6, <3>1
      <3> QED
        BY <2>1, <3>1, <3>2
    <2> QED
      BY <1>1, <1>3, <2>2, <2>3, <2>4
  <1> QED
    BY <1>1, <1>3, <1>5, <1>7, <1>8, <1>9

LEMMA InitIdle == IdleInit => IdleInv
  <1> SUFFICES ASSUME IdleInit PROVE IdleInv
    OBVIOUS
  <1>1. timeouts = 0 /\ 1..timeouts = {} /\ 1 \in 1..Slots
    BY SlotsAssumption DEF IdleInit
  <1>2. Registered = {}
    BY <1>1 DEF Registered
  <1>3. IdleTypeOK
    <2>1. called \in [timer : Name \cup {NoName}, callback : Name \cup {NoName}]
      BY DEF IdleInit, Nobody
    <2>2. /\ tab \in [1..Slots -> Name \cup {NoName}]
          /\ data \in [Name -> 1..Slots]
          /\ surface \in [Inhibitor -> {"none", "unmapped", "hidden", "shown"}]
      BY <1>1 DEF IdleInit
    <2>3. armed \subseteq Registered /\ fired \subseteq Registered /\ timeouts \in 0..Slots
      BY <1>1, SlotsAssumption DEF IdleInit
    <2>4. {recompute, lua, inhibited, idle} \subseteq BOOLEAN
      BY DEF IdleInit
    <2> QED
      BY <2>1, <2>2, <2>3, <2>4 DEF IdleTypeOK
  <1>4. Distinct /\ IdleSound
    BY <1>1, <1>2
       DEF IdleInit, Distinct, IdleSound, TimeoutsRunUnlessInhibited, InhibitionIsKnown
  <1> QED
    BY <1>3, <1>4 DEF IdleInv

\* Arming, firing and activity: the table and what inhibits stay.
LEMMA TimerSteps ==
    ASSUME IdleInv, UNCHANGED <<tab, timeouts, data, inhibition>>,
           armed' \subseteq Registered, fired' \subseteq Registered, idle' \in BOOLEAN,
           called' \in [timer : Name \cup {NoName}, callback : Name \cup {NoName}],
           inhibited \/ \A n \in Registered : n \in armed' \/ n \in fired'
    PROVE  IdleInv'
  <1>1. Registered' = Registered /\ UNCHANGED <<surface, recompute, lua, inhibited>>
    BY DEF Registered, inhibition
  <1> QED
    BY <1>1 DEF IdleInv, IdleTypeOK, Distinct, IdleSound, TimeoutsRunUnlessInhibited,
                InhibitionIsKnown

\* Recomputing the inhibition: every timer is armed, or none.
LEMMA ResetSteps ==
    ASSUME IdleInv, UNCHANGED <<tab, timeouts, data, idle>>, called' = Nobody,
           surface' \in [Inhibitor -> {"none", "unmapped", "hidden", "shown"}],
           recompute' \in BOOLEAN, lua' \in BOOLEAN,
           some_recompute_idle_inhibit(surface', lua')
    PROVE  IdleInv'
  <1>1. Registered' = Registered
    BY DEF Registered
  <1>2. /\ inhibited' = (some_is_idle_inhibited(surface') \/ lua')
        /\ armed' = (IF inhibited' THEN {} ELSE Registered) /\ fired' = fired
    BY DEF some_recompute_idle_inhibit, Reset
  <1>3. inhibited' \in BOOLEAN
    BY <1>2 DEF some_is_idle_inhibited
  <1>4. called' \in [timer : Name \cup {NoName}, callback : Name \cup {NoName}]
    BY DEF Nobody
  <1>5. IdleTypeOK'
    BY <1>1, <1>2, <1>3, <1>4 DEF IdleInv, IdleTypeOK
  <1>6. Distinct' /\ TimeoutsRunUnlessInhibited'
    BY <1>1, <1>2 DEF IdleInv, Distinct, TimeoutsRunUnlessInhibited
  <1>7. InhibitionIsKnown'
    BY <1>2 DEF InhibitionIsKnown, some_is_idle_inhibited
  <1> QED
    BY <1>5, <1>6, <1>7 DEF IdleInv, IdleSound

LEMMA SetIdle ==
    ASSUME IdleInv, NEW n \in Name, set_idle_timeout(n)
    PROVE  IdleInv'
  <1>0. IdleTypeOK /\ Distinct /\ TimeoutsRunUnlessInhibited /\ InhibitionIsKnown
    BY DEF IdleInv, IdleSound
  <1> DEFINE t == IF n \in Registered THEN Compacted(At(n)) ELSE tab
             c == IF n \in Registered THEN timeouts - 1 ELSE timeouts
  <1>1. /\ c < Slots /\ tab' = [t EXCEPT ![c + 1] = n] /\ timeouts' = c + 1
        /\ data' = [data EXCEPT ![n] = c + 1]
        /\ armed' = (IF inhibited THEN armed \ {n} ELSE armed \cup {n})
        /\ fired' = fired \ {n} /\ called' = Nobody
        /\ UNCHANGED <<inhibition, idle>>
    BY DEF set_idle_timeout, At
  <1>2. /\ c \in Nat /\ t \in [1..Slots -> Name \cup {NoName}]
        /\ \A i, j \in 1..c : t[i] = t[j] => i = j
        /\ {t[i] : i \in 1..c} = Registered \ {n}
    <2>1. CASE n \in Registered
      BY <1>0, <2>1, CompactedAt
    <2>2. CASE n \notin Registered
      BY <1>0, <2>2, SlotsAssumption DEF IdleTypeOK, Distinct, Registered
    <2> QED
      BY <2>1, <2>2
  <1> HIDE DEF t, c
  <1>3. /\ c + 1 \in 1..Slots /\ c + 1 \in 0..Slots
        /\ 1..(c + 1) = 1..c \cup {c + 1} /\ c + 1 \notin 1..c
        /\ \A i \in 1..c : i \in 1..Slots
    BY <1>1, <1>2, SlotsAssumption
  <1>4. /\ tab' \in [1..Slots -> Name \cup {NoName}]
        /\ tab'[c + 1] = n /\ \A i \in 1..c : tab'[i] = t[i]
    BY <1>1, <1>2, <1>3
  <1>5. Registered' = Registered \cup {n}
    <2>1. Registered' = {tab'[i] : i \in 1..(c + 1)}
      BY <1>1 DEF Registered
    <2>2. {tab'[i] : i \in 1..(c + 1)} = {t[i] : i \in 1..c} \cup {n}
      BY <1>3, <1>4
    <2> QED
      BY <1>2, <2>1, <2>2
  <1>6. Distinct'
    <2>1. \A i \in 1..c : t[i] # n
      BY <1>2
    <2> SUFFICES ASSUME NEW i \in 1..(c + 1), NEW j \in 1..(c + 1), tab'[i] = tab'[j]
                 PROVE  i = j
      BY <1>1 DEF Distinct
    <2> QED
      BY <1>2, <1>3, <1>4, <2>1
  <1>7. UNCHANGED <<surface, recompute, lua, inhibited, idle>>
    BY <1>1 DEF inhibition
  <1>8. IdleTypeOK'
    <2>1. data' \in [Name -> 1..Slots]
      BY <1>0, <1>1, <1>3 DEF IdleTypeOK
    <2>2. called' \in [timer : Name \cup {NoName}, callback : Name \cup {NoName}]
      BY <1>1 DEF Nobody
    <2>3. armed' \subseteq Registered' /\ fired' \subseteq Registered'
      BY <1>0, <1>1, <1>5 DEF IdleTypeOK
    <2> QED
      BY <1>0, <1>1, <1>3, <1>4, <1>7, <2>1, <2>2, <2>3 DEF IdleTypeOK
  <1>9. TimeoutsRunUnlessInhibited'
    BY <1>0, <1>1, <1>5, <1>7 DEF TimeoutsRunUnlessInhibited
  <1>10. InhibitionIsKnown'
    BY <1>0, <1>7 DEF InhibitionIsKnown
  <1> QED
    BY <1>6, <1>8, <1>9, <1>10 DEF IdleInv, IdleSound

LEMMA ClearIdle ==
    ASSUME IdleInv, NEW n \in Name, clear_idle_timeout(n)
    PROVE  IdleInv'
  <1>0. IdleTypeOK /\ Distinct /\ TimeoutsRunUnlessInhibited /\ InhibitionIsKnown
    BY DEF IdleInv, IdleSound
  <1>1. /\ n \in Registered
        /\ tab' = Compacted(At(n)) /\ timeouts' = timeouts - 1
        /\ armed' = armed \ {n} /\ fired' = fired \ {n} /\ called' = Nobody
        /\ UNCHANGED <<data, inhibition, idle>>
    BY DEF clear_idle_timeout, At
  <1>2. /\ timeouts' \in 0..Slots /\ tab' \in [1..Slots -> Name \cup {NoName}]
        /\ Distinct' /\ Registered' = Registered \ {n}
    <2>1. /\ timeouts - 1 \in 0..(Slots - 1)
          /\ Compacted(At(n)) \in [1..Slots -> Name \cup {NoName}]
          /\ \A i, j \in 1..(timeouts - 1) :
                Compacted(At(n))[i] = Compacted(At(n))[j] => i = j
          /\ {Compacted(At(n))[i] : i \in 1..(timeouts - 1)} = Registered \ {n}
      BY <1>0, <1>1, CompactedAt
    <2>2. timeouts' \in 0..Slots
      BY <1>1, <2>1, SlotsAssumption
    <2>3. PICK t : t = Compacted(At(n))
      OBVIOUS
    <2>4. PICK c : c = timeouts - 1
      OBVIOUS
    <2>5. /\ tab' = t /\ timeouts' = c
          /\ \A i, j \in 1..c : t[i] = t[j] => i = j
          /\ {t[i] : i \in 1..c} = Registered \ {n}
      BY <1>1, <2>1, <2>3, <2>4
    <2>6. Distinct'
      BY <2>5 DEF Distinct
    <2>7. Registered' = {tab'[i] : i \in 1..timeouts'}
      BY DEF Registered
    <2>8. Registered' = Registered \ {n}
      BY <2>5, <2>7
    <2> QED
      BY <1>1, <2>1, <2>2, <2>6, <2>8
  <1>3. UNCHANGED <<surface, recompute, lua, inhibited, idle>>
    BY <1>1 DEF inhibition
  <1>4. called' \in [timer : Name \cup {NoName}, callback : Name \cup {NoName}]
    BY <1>1 DEF Nobody
  <1>5. IdleTypeOK'
    BY <1>0, <1>1, <1>2, <1>3, <1>4 DEF IdleTypeOK
  <1>6. TimeoutsRunUnlessInhibited' /\ InhibitionIsKnown'
    BY <1>0, <1>1, <1>2, <1>3 DEF TimeoutsRunUnlessInhibited, InhibitionIsKnown
  <1> QED
    BY <1>2, <1>5, <1>6 DEF IdleInv, IdleSound

LEMMA NextIdle == IdleInv /\ [IdleNext]_idleVars => IdleInv'
  <1> SUFFICES ASSUME IdleInv, [IdleNext]_idleVars PROVE IdleInv'
    OBVIOUS
  <1>0. /\ IdleTypeOK /\ Distinct /\ TimeoutsRunUnlessInhibited /\ InhibitionIsKnown
        /\ Nobody \in [timer : Name \cup {NoName}, callback : Name \cup {NoName}]
    BY DEF IdleInv, IdleSound, Nobody
  <1>1. ASSUME NEW n \in Name, Fire(n) PROVE IdleInv'
    <2>1. data[n] \in 1..Slots /\ tab[data[n]] \in Name \cup {NoName}
      BY <1>0 DEF IdleTypeOK
    <2>2. called' \in [timer : Name \cup {NoName}, callback : Name \cup {NoName}]
      BY <1>1, <2>1 DEF Fire
    <2>3. armed' \subseteq Registered /\ fired' \subseteq Registered
      BY <1>0, <1>1 DEF Fire, IdleTypeOK
    <2>4. inhibited \/ \A m \in Registered : m \in armed' \/ m \in fired'
      BY <1>0, <1>1 DEF Fire, TimeoutsRunUnlessInhibited
    <2> QED
      BY <1>1, <2>2, <2>3, <2>4, TimerSteps DEF Fire
  <1>2. ASSUME NEW reload \in BOOLEAN, ClearAll(reload) PROVE IdleInv'
    <2>1. 1..timeouts' = {} /\ timeouts' \in 0..Slots
      BY <1>2, SlotsAssumption DEF ClearAll
    <2>2. Registered' = {}
      BY <2>1 DEF Registered
    <2>3. IdleTypeOK'
      BY <1>0, <1>2, <2>1 DEF ClearAll, IdleTypeOK, inhibition
    <2>4. Distinct' /\ TimeoutsRunUnlessInhibited' /\ InhibitionIsKnown'
      BY <1>0, <1>2, <2>1, <2>2
         DEF ClearAll, Distinct, TimeoutsRunUnlessInhibited, InhibitionIsKnown, inhibition
    <2> QED
      BY <2>3, <2>4 DEF IdleInv, IdleSound
  <1>3. CASE Activity
    BY <1>0, <1>3, TimerSteps DEF Activity, IdleTypeOK, TimeoutsRunUnlessInhibited
  <1>4. CASE \/ \E b \in BOOLEAN : LuaInhibits(b)
             \/ \E i \in Inhibitor, s \in {"unmapped", "hidden", "shown"} :
                   createidleinhibitor(i, s)
             \/ recompute_idle_inhibit_idle \/ arrange
    <2>1. /\ UNCHANGED <<tab, timeouts, data, idle>> /\ called' = Nobody
          /\ some_recompute_idle_inhibit(surface', lua')
      BY <1>4 DEF LuaInhibits, createidleinhibitor, recompute_idle_inhibit_idle, arrange
    <2>2. surface' \in [Inhibitor -> {"none", "unmapped", "hidden", "shown"}]
      BY <1>0, <1>4
         DEF LuaInhibits, createidleinhibitor, recompute_idle_inhibit_idle, arrange, IdleTypeOK
    <2>3. recompute' \in BOOLEAN /\ lua' \in BOOLEAN
      BY <1>0, <1>4
         DEF LuaInhibits, createidleinhibitor, recompute_idle_inhibit_idle, arrange, IdleTypeOK
    <2> QED
      BY <2>1, <2>2, <2>3, ResetSteps
  <1>5. ASSUME NEW i \in Inhibitor,
               \/ destroyidleinhibitor(i)
               \/ \E s \in {"unmapped", "hidden", "shown"} : Changes(i, s)
        PROVE  IdleInv'
    <2>1. UNCHANGED <<table, lua, inhibited, idle, fired>> /\ called' = Nobody
      BY <1>5 DEF destroyidleinhibitor, Changes
    <2>2. UNCHANGED <<tab, timeouts, data, armed>> /\ Registered' = Registered
      BY <2>1 DEF table, Registered
    <2>3. /\ surface' \in [Inhibitor -> {"none", "unmapped", "hidden", "shown"}]
          /\ recompute' \in BOOLEAN
          /\ recompute' \/ (recompute' = recompute /\
                \A k \in Inhibitor : surface[k] # "none" => surface'[k] # "none")
      <3>0. surface \in [Inhibitor -> {"none", "unmapped", "hidden", "shown"}] /\ recompute \in BOOLEAN
        BY <1>0 DEF IdleTypeOK
      <3>1. CASE destroyidleinhibitor(i)
        BY <3>0, <3>1 DEF destroyidleinhibitor
      <3>2. CASE \E s \in {"unmapped", "hidden", "shown"} : Changes(i, s)
        BY <3>0, <3>2 DEF Changes
      <3> QED
        BY <1>5, <3>1, <3>2
    <2>4. IdleTypeOK'
      BY <1>0, <2>1, <2>2, <2>3 DEF IdleTypeOK
    <2>5. Distinct' /\ TimeoutsRunUnlessInhibited' /\ InhibitionIsKnown'
      BY <1>0, <2>1, <2>2, <2>3 DEF Distinct, TimeoutsRunUnlessInhibited, InhibitionIsKnown
    <2> QED
      BY <2>4, <2>5 DEF IdleInv, IdleSound
  <1>6. CASE UNCHANGED idleVars
    <2>1. UNCHANGED <<tab, timeouts, data, inhibition, armed, fired, idle, called>>
      BY <1>6 DEF idleVars, table
    <2> QED
      BY <1>0, <2>1, TimerSteps DEF IdleTypeOK, TimeoutsRunUnlessInhibited
  <1> QED
    BY <1>1, <1>2, <1>3, <1>4, <1>5, <1>6, SetIdle, ClearIdle DEF IdleNext

(* While nothing inhibits, each timeout's timer runs or it has fired; and  *)
(* the timers are stopped for an inhibitor that is there, or about to be   *)
(* noticed gone.                                                           *)
THEOREM IdleIsSound == IdleSpec => []IdleSound
  <1>1. IdleInv => IdleSound
    BY DEF IdleInv
  <1> QED
    BY <1>1, InitIdle, NextIdle, PTL DEF IdleSpec

-----------------------------------------------------------------------------
(* The wheel.  The clicks given, what is kept for the next one and what    *)
(* was dropped at the last turn add up to the way; less than a click was   *)
(* dropped, so no more than one is missing.                                *)

AddsUp(lost) == clicks * Step + Abs(acc) + lost = Abs(way)

WheelInv ==
    /\ acc \in Int /\ way \in -Way..Way /\ clicks \in Nat
    /\ Abs(acc) < Step
    /\ acc # 0 => Sign(acc) = Sign(way)
    /\ \E lost \in 0..(Step - 1) : AddsUp(lost)

GestureInv ==
    /\ gesture \in Gesture \cup {NoGesture}
    /\ consumed \in [Gesture -> BOOLEAN]
    /\ GesturesEnd

StreamInv == WheelInv /\ GestureInv

LEMMA Division ==
    ASSUME NEW n \in Nat
    PROVE  /\ n \div Step \in Nat
           /\ \E r \in 0..(Step - 1) : n = (n \div Step) * Step + r
  <1>1. n \div Step \in Nat /\ n % Step \in 0..(Step - 1) /\ n = (n \div Step) * Step + (n % Step)
    BY StepAssumption
  <1> QED
    BY <1>1

(* What is gathered: full clicks, and a rest of the same direction.        *)
LEMMA GatheredIs ==
    ASSUME NEW d \in Int, d # 0, acc \in Int, Abs(acc) < Step
    PROVE  LET sum == acc + d
           IN  /\ Gathered(d).ticks \in Nat
               /\ \E r \in 0..(Step - 1) :
                     /\ Abs(sum) = Gathered(d).ticks * Step + r
                     /\ Gathered(d).acc = IF Against(Sign(sum) * r, d) THEN 0 ELSE Sign(sum) * r
  <1> DEFINE sum == acc + d
             ticks == Abs(sum) \div Step
  <1>1. Abs(sum) \in Nat /\ Step \in Nat
    BY StepAssumption DEF Abs
  <1>2. PICK r \in 0..(Step - 1) : Abs(sum) = ticks * Step + r
    BY <1>1, Division
  <1>3. ticks \in Nat
    BY <1>1, Division
  <1>4. sum - Sign(sum) * ticks * Step = Sign(sum) * r
    <2>1. PICK m \in Nat : m = ticks * Step
      BY <1>1, <1>3
    <2>2. CASE sum < 0
      <3>1. Sign(sum) * ticks * Step = -m
        BY <1>1, <1>3, <2>1, <2>2 DEF Sign
      <3> QED
        BY <1>1, <1>2, <2>1, <2>2, <3>1 DEF Abs, Sign
    <2>3. CASE ~(sum < 0)
      <3>1. Sign(sum) * ticks * Step = m
        BY <1>1, <1>3, <2>1, <2>3 DEF Sign
      <3> QED
        BY <1>1, <1>2, <2>1, <2>3, <3>1 DEF Abs, Sign
    <2> QED
      BY <2>2, <2>3
  <1>5. Gathered(d).ticks = ticks
    BY DEF Gathered
  <1>6. Gathered(d).acc = IF Against(Sign(sum) * r, d) THEN 0 ELSE Sign(sum) * r
    BY <1>4 DEF Gathered
  <1> QED
    BY <1>2, <1>3, <1>5, <1>6

LEMMA DiscreteKeeps ==
    ASSUME WheelInv, NEW d \in Int, d # 0, Discrete(d)
    PROVE  WheelInv'
  <1>0. Step \in Nat /\ Step > 0 /\ Way \in Nat
    BY StepAssumption, WayAssumption
  <1>1. PICK lost \in 0..(Step - 1) : AddsUp(lost)
    BY DEF WheelInv
  <1>2. acc \in Int /\ way \in Int /\ clicks \in Nat /\ Abs(acc) < Step
    BY <1>0 DEF WheelInv
  <1>3. PICK t \in Nat, r \in 0..(Step - 1) :
           /\ t = Gathered(d).ticks
           /\ Abs(acc + d) = t * Step + r
           /\ acc' = IF Against(Sign(acc + d) * r, d) THEN 0 ELSE Sign(acc + d) * r
    BY <1>2, GatheredIs DEF Discrete
  <1>4. PICK m \in Nat : m = t * Step
    BY <1>0
  <1>5. acc' \in Int /\ Abs(acc)' < Step
    BY <1>0, <1>2, <1>3 DEF Abs, Sign
  <1>6. CASE Against(way, d)
    <2>1. way' = d /\ clicks' = t
      BY <1>3, <1>6 DEF Discrete
    <2>2. acc' # 0 => Sign(acc') = Sign(way')
      BY <1>0, <1>2, <1>3, <2>1 DEF Against, Sign
    <2>3. acc = 0 \/ Sign(acc) # Sign(d)
      BY <1>6 DEF WheelInv, Against
    <2>4. \E l \in 0..(Step - 1) : t * Step + Abs(acc') + l = Abs(d)
      <3>0. Abs(acc + d) = m + r
        BY <1>3, <1>4
      <3>1. CASE acc = 0
        <4>1. Abs(acc') = r
          BY <1>0, <1>2, <1>3, <3>1 DEF Abs, Sign, Against
        <4> QED
          BY <1>0, <1>4, <3>0, <3>1, <4>1
      <3>2. CASE acc # 0 /\ Sign(acc + d) = Sign(d)
        <4>1. Abs(acc') = r
          BY <1>0, <1>2, <1>3, <3>2 DEF Abs, Sign, Against
        <4>2. Abs(d) = Abs(acc + d) + Abs(acc)
          BY <1>2, <2>3, <3>2 DEF Abs, Sign
        <4>3. Abs(acc) \in 0..(Step - 1)
          BY <1>0, <1>2 DEF Abs
        <4> QED
          BY <1>0, <1>2, <1>4, <3>0, <4>1, <4>2, <4>3
      <3>3. CASE acc # 0 /\ Sign(acc + d) # Sign(d)
        <4>1. acc' = 0
          BY <1>0, <1>2, <1>3, <3>3 DEF Abs, Sign, Against
        <4>2. Abs(d) <= Abs(acc) /\ Abs(acc + d) < Step
          BY <1>0, <1>2, <2>3, <3>3 DEF Abs, Sign
        <4>3. m = 0
          <5>1. t = 0
            <6>1. SUFFICES ASSUME t >= 1 PROVE FALSE
              OBVIOUS
            <6>2. t * Step >= Step
              BY <1>0, <6>1
            <6> QED
              BY <1>0, <1>2, <1>4, <3>0, <4>2, <6>2
          <5> QED
            BY <1>0, <1>4, <5>1
        <4>4. Abs(d) \in 0..(Step - 1) /\ Abs(acc') = 0
          BY <1>0, <1>2, <4>1, <4>2 DEF Abs
        <4> QED
          BY <1>0, <1>4, <4>3, <4>4
      <3> QED
        BY <3>1, <3>2, <3>3
    <2>5. way' \in -Way..Way
      BY <1>0, <1>6, <2>1 DEF Discrete, Abs
    <2> QED
      BY <1>5, <2>1, <2>2, <2>4, <2>5 DEF WheelInv, AddsUp
  <1>7. CASE ~Against(way, d)
    <2>1. way' = way + d /\ clicks' = clicks + t
      BY <1>3, <1>7 DEF Discrete
    <2>2. way = 0 => acc = 0
      <3>1. PICK m0 \in Nat : m0 = clicks * Step
        BY <1>0, <1>2
      <3> QED
        BY <1>0, <1>1, <1>2, <3>1 DEF AddsUp, Abs
    <2>3. (acc = 0 \/ Sign(acc) = Sign(d)) /\ (way = 0 \/ Sign(way) = Sign(d))
      BY <1>7, <2>2 DEF WheelInv, Against
    <2>4. Abs(acc + d) = Abs(acc) + Abs(d) /\ Abs(way') = Abs(way) + Abs(d) /\ Sign(acc + d) = Sign(d)
      BY <1>2, <2>1, <2>3 DEF Abs, Sign
    <2>5. acc' = Sign(d) * r
      BY <1>0, <1>2, <1>3, <2>4 DEF Sign, Against
    <2>6. Abs(acc') = r /\ (acc' # 0 => Sign(acc') = Sign(way'))
      BY <1>0, <1>2, <2>1, <2>3, <2>5 DEF Abs, Sign
    <2>7. (clicks + t) * Step + Abs(acc') + lost = Abs(way')
      <3>1. PICK m0 \in Nat : m0 = clicks * Step
        BY <1>0, <1>2
      <3>2. (clicks + t) * Step = m0 + m
        BY <1>0, <1>2, <1>4, <3>1
      <3>3. Abs(acc) \in Nat /\ Abs(way) \in Nat /\ Abs(d) \in Nat
        BY <1>2 DEF Abs
      <3> QED
        BY <1>0, <1>1, <1>3, <1>4, <2>4, <2>6, <3>1, <3>2, <3>3 DEF AddsUp
    <2>8. way' \in -Way..Way
      BY <1>0, <1>2, <1>7, <2>1 DEF Discrete, Abs
    <2> QED
      BY <1>1, <1>2, <1>5, <2>1, <2>6, <2>7, <2>8 DEF WheelInv, AddsUp
  <1> QED
    BY <1>6, <1>7

LEMMA ContinuousKeeps ==
    ASSUME WheelInv, NEW d \in {-1, 1}, Continuous(d)
    PROVE  WheelInv'
  <1>0. Step \in Nat /\ Step > 0 /\ Way \in Nat
    BY StepAssumption, WayAssumption
  <1>1. PICK lost \in 0..(Step - 1) : AddsUp(lost)
    BY DEF WheelInv
  <1>2. acc \in Int /\ way \in Int /\ clicks \in Nat /\ Abs(acc) < Step
    BY <1>0 DEF WheelInv
  <1>3. CASE Against(way, d)
    <2>1. way' = 0 /\ clicks' = 0 /\ acc' = 0
      BY <1>2, <1>3 DEF Continuous, Against, WheelInv
    <2>2. 0 * Step + Abs(acc') + 0 = Abs(way')
      BY <1>0, <2>1 DEF Abs
    <2> QED
      BY <1>0, <2>1, <2>2 DEF WheelInv, AddsUp, Abs
  <1>4. CASE ~Against(way, d)
    <2>1. way' = way /\ clicks' = clicks
      BY <1>4 DEF Continuous
    <2>2. way = 0 => acc = 0
      <3>1. PICK m0 \in Nat : m0 = clicks * Step
        BY <1>0, <1>2
      <3> QED
        BY <1>0, <1>1, <1>2, <3>1 DEF AddsUp, Abs
    <2>3. acc' = acc
      BY <1>2, <1>4, <2>2 DEF Continuous, Against, WheelInv
    <2> QED
      BY <2>1, <2>3 DEF WheelInv, AddsUp
  <1> QED
    BY <1>3, <1>4

LEMMA GestureSteps ==
    ASSUME GestureInv,
           \/ \E set \in BOOLEAN : SetHandler(set)
           \/ \E g \in Gesture : Begin(g) \/ End(g)
    PROVE  GestureInv'
  <1>1. ASSUME NEW set \in BOOLEAN, SetHandler(set) PROVE GestureInv'
    BY <1>1 DEF SetHandler, GestureInv, GesturesEnd
  <1>2. ASSUME NEW g \in Gesture, Begin(g) PROVE GestureInv'
    <2>1. shown = {} /\ gesture' = g /\ g # NoGesture
      BY <1>2, GestureAssumption DEF Begin, GestureInv, GesturesEnd
    <2>2. PICK answer \in BOOLEAN : /\ consumed' = [consumed EXCEPT ![g] = answer]
                                     /\ shown' = IF answer THEN shown ELSE shown \cup {g}
      BY <1>2 DEF Begin, Answers
    <2>3. consumed' \in [Gesture -> BOOLEAN] /\ consumed'[g] = answer
      BY <2>2 DEF GestureInv
    <2>4. GesturesEnd'
      BY <2>1, <2>2, <2>3 DEF GesturesEnd
    <2> QED
      BY <2>1, <2>3, <2>4 DEF GestureInv
  <1>3. ASSUME NEW g \in Gesture, End(g) PROVE GestureInv'
    <2>1. shown' = {} /\ gesture' = NoGesture
      BY <1>3, GestureAssumption DEF End, GestureInv, GesturesEnd
    <2>2. consumed' \in [Gesture -> BOOLEAN]
      BY <1>3 DEF End, GestureInv
    <2> QED
      BY <2>1, <2>2 DEF GestureInv, GesturesEnd
  <1> QED
    BY <1>1, <1>2, <1>3

LEMMA InitStreams == StreamInit => StreamInv
  <1> SUFFICES ASSUME StreamInit PROVE StreamInv
    OBVIOUS
  <1>1. 0 * Step + Abs(acc) + 0 = Abs(way)
    BY StepAssumption DEF StreamInit, Abs
  <1>2. WheelInv
    BY <1>1, StepAssumption, WayAssumption DEF StreamInit, WheelInv, AddsUp, Abs
  <1> QED
    BY <1>2 DEF StreamInit, StreamInv, GestureInv, GesturesEnd

LEMMA NextStreams == StreamInv /\ [StreamNext]_streamVars => StreamInv'
  <1> SUFFICES ASSUME StreamInv, [StreamNext]_streamVars PROVE StreamInv'
    OBVIOUS
  <1> USE DEF StreamInv
  <1>1. ASSUME NEW d \in (-Step - 1)..(Step + 1) \ {0}, Discrete(d) PROVE StreamInv'
    <2>1. d \in Int /\ d # 0
      BY StepAssumption
    <2> QED
      BY <1>1, <2>1, DiscreteKeeps DEF Discrete, gestureVars, GestureInv, GesturesEnd
  <1>2. ASSUME NEW d \in {-1, 1}, Continuous(d) PROVE StreamInv'
    BY <1>2, ContinuousKeeps DEF Continuous, gestureVars, GestureInv, GesturesEnd
  <1>3. ASSUME \/ \E set \in BOOLEAN : SetHandler(set)
               \/ \E g \in Gesture : Begin(g) \/ End(g)
        PROVE  StreamInv'
    <2>1. UNCHANGED wheelVars
      BY <1>3 DEF SetHandler, Begin, End
    <2> QED
      BY <1>3, <2>1, GestureSteps DEF wheelVars, WheelInv, AddsUp
  <1>4. CASE UNCHANGED streamVars
    BY <1>4 DEF streamVars, wheelVars, gestureVars, WheelInv, AddsUp, GestureInv, GesturesEnd
  <1> QED
    BY <1>1, <1>2, <1>3, <1>4 DEF StreamNext

LEMMA WheelAddsUp ==
    ASSUME WheelInv
    PROVE  WheelMissesOneAtMost /\ clicks \in 0..(Way \div Step)
  <1>0. Step \in Nat /\ Step > 0 /\ Way \in Nat
    BY StepAssumption, WayAssumption
  <1>1. PICK lost \in 0..(Step - 1) : AddsUp(lost)
    BY DEF WheelInv
  <1>2. clicks \in Nat /\ Abs(acc) \in 0..(Step - 1) /\ Abs(way) \in 0..Way
    BY <1>0 DEF WheelInv, Abs
  <1>3. PICK q \in Nat, r \in 0..(Step - 1) : q = Abs(way) \div Step /\ Abs(way) = q * Step + r
    BY <1>2, Division
  <1>4. PICK u \in Nat, v \in 0..(Step - 1) : u = Way \div Step /\ Way = u * Step + v
    BY <1>0, Division
  <1>5. clicks * Step <= q * Step + r /\ q * Step <= clicks * Step + 2 * Step - 2
    BY <1>0, <1>1, <1>2, <1>3 DEF AddsUp
  <1>6. clicks <= q
    <2>1. SUFFICES ASSUME clicks >= q + 1 PROVE FALSE
      BY <1>2
    <2>2. clicks * Step >= (q + 1) * Step /\ (q + 1) * Step = q * Step + Step
      BY <1>0, <1>2, <2>1
    <2> QED
      BY <1>0, <1>2, <1>5, <2>2
  <1>7. q <= clicks + 1
    <2>1. SUFFICES ASSUME q >= clicks + 2 PROVE FALSE
      BY <1>2
    <2>2. q * Step >= (clicks + 2) * Step /\ (clicks + 2) * Step = clicks * Step + 2 * Step
      BY <1>0, <1>2, <2>1
    <2> QED
      BY <1>0, <1>2, <1>5, <2>2
  <1>8. clicks <= u
    <2>1. SUFFICES ASSUME clicks >= u + 1 PROVE FALSE
      BY <1>2
    <2>2. clicks * Step >= (u + 1) * Step /\ (u + 1) * Step = u * Step + Step
      BY <1>0, <1>2, <2>1
    <2>3. clicks * Step <= u * Step + v
      BY <1>0, <1>1, <1>2, <1>4 DEF AddsUp
    <2> QED
      BY <1>0, <1>2, <2>2, <2>3
  <1> QED
    BY <1>0, <1>2, <1>3, <1>4, <1>6, <1>7, <1>8 DEF WheelMissesOneAtMost

LEMMA StreamTypes == StreamInv => StreamTypeOK
  <1> SUFFICES ASSUME StreamInv PROVE StreamTypeOK
    OBVIOUS
  <1>1. clicks \in 0..(Way \div Step)
    BY WheelAddsUp DEF StreamInv
  <1>2. acc \in -Step..Step
    BY StepAssumption DEF StreamInv, WheelInv, Abs
  <1> QED
    BY <1>1, <1>2 DEF StreamInv, WheelInv, GestureInv, GesturesEnd, StreamTypeOK

(* A wheel's clicks miss no more than one of what it was turned, and never *)
(* exceed it, in either direction and for any length of a click; the       *)
(* client is told the end of exactly the gestures it saw begin.            *)
THEOREM StreamsAreSound == StreamSpec => []StreamsAddUp
  <1>1. StreamInv => StreamsAddUp
    BY WheelAddsUp DEF StreamInv, GestureInv, StreamsAddUp
  <1> QED
    BY <1>1, InitStreams, NextStreams, PTL DEF StreamSpec

-----------------------------------------------------------------------------
(* The pointer.  What Lua was told, what is hovered and what is pinned     *)
(* keep each other in step.                                                *)

PointerInv == PointerTypeOK /\ HoverIsTold /\ HoverNests

Owner == Client \cup Drawin

\* The hover h is the one drawable that p keeps alive.
PinnedFor(p, h) ==
    p \in [Owner -> 0..1] /\ \A o \in Owner : p[o] = IF o = h THEN 1 ELSE 0

\* What was told when the mouse is over m, its drawable h, and `there` exist.
ToldOf(m, h, there) == (({m} \cap there) \cup {<<h>>}) \ {<<None>>}

LEMMA NoneIsApart == None \notin Owner /\ \A o, p \in Owner \cup {None} : o # <<p>>
  BY KindsDiffer, PairsAssumption DEF Owner

LEMMA UnpinnedKeeps ==
    ASSUME NEW p, NEW h \in Owner \cup {None}, PinnedFor(p, h)
    PROVE  PinnedFor(Unpinned(p, h), None)
  <1>1. CASE h = None
    BY <1>1 DEF PinnedFor, Unpinned
  <1>2. CASE h \in Owner
    <2>1. h # None /\ Unpinned(p, h) = [p EXCEPT ![h] = @ - 1]
      BY <1>2, NoneIsApart DEF Unpinned
    <2>2. p[h] = 1 /\ p \in [Owner -> 0..1]
      BY <1>2 DEF PinnedFor
    <2>3. \A o \in Owner : Unpinned(p, h)[o] = 0
      BY <1>2, <2>1, <2>2 DEF PinnedFor
    <2>4. Unpinned(p, h) \in [Owner -> 0..1]
      BY <2>1, <2>2, <2>3
    <2> QED
      BY <2>3, <2>4, NoneIsApart DEF PinnedFor
  <1> QED
    BY <1>1, <1>2

LEMMA PinKeeps ==
    ASSUME NEW p, PinnedFor(p, None), NEW d \in Owner
    PROVE  PinnedFor([p EXCEPT ![d] = @ + 1], d)
  <1>1. p \in [Owner -> 0..1] /\ \A o \in Owner : p[o] = 0
    BY NoneIsApart DEF PinnedFor
  <1>2. \A o \in Owner : [p EXCEPT ![d] = @ + 1][o] = IF o = d THEN 1 ELSE 0
    BY <1>1
  <1>3. [p EXCEPT ![d] = @ + 1] \in [Owner -> 0..1]
    BY <1>1, <1>2
  <1> QED
    BY <1>2, <1>3 DEF PinnedFor

LEMMA EnterKeeps ==
    ASSUME NEW m, NEW there, NEW h \in Owner \cup {None}, NEW d \in Owner \cup {None},
           m \in Owner \cup {None}, there \subseteq Owner, NEW s, s.hovered = h,
           s.told = ToldOf(m, h, there), PinnedFor(s.pins, h)
    PROVE  LET new == event_drawable_under_mouse(s, d)
           IN  /\ new.hovered = d /\ new.told = ToldOf(m, d, there)
               /\ PinnedFor(new.pins, d)
  <1>1. CASE d = h
    BY <1>1 DEF event_drawable_under_mouse
  <1>2. CASE d # h
    <2> DEFINE q == Unpinned(s.pins, h)
               new == [told |-> (s.told \ {<<h>>}) \cup ({<<d>>} \ {<<None>>}), hovered |-> d,
                       pins |-> IF d = None THEN q ELSE [q EXCEPT ![d] = @ + 1]]
    <2>1. event_drawable_under_mouse(s, d) = new
      BY <1>2 DEF event_drawable_under_mouse
    <2>2. PinnedFor(q, None)
      BY UnpinnedKeeps
    <2>3. PinnedFor(new.pins, d)
      <3>1. CASE d = None
        BY <2>2, <3>1
      <3>2. CASE d # None
        <4>1. d \in Owner /\ new.pins = [q EXCEPT ![d] = @ + 1]
          BY <3>2
        <4> QED
          BY <2>2, <4>1, PinKeeps
      <3> QED
        BY <3>1, <3>2
    <2>4. (s.told \ {<<h>>}) \cup ({<<d>>} \ {<<None>>}) = ToldOf(m, d, there)
      BY <1>2, NoneIsApart DEF ToldOf
    <2> QED
      BY <2>1, <2>3, <2>4
  <1> QED
    BY <1>1, <1>2

LEMMA LeaveKeeps ==
    ASSUME NEW m \in Owner \cup {None}, NEW there, there \subseteq Owner,
           NEW h \in Owner \cup {None}, NEW e, e = ToldOf(m, h, there),
           NEW p, PinnedFor(p, h), NEW o \in there \cup {None}
    PROVE  /\ (e \ {m, <<h>>}) \cup ({o} \ {None}) = ToldOf(o, None, there)
           /\ PinnedFor(Unpinned(p, h), None)
  BY NoneIsApart, UnpinnedKeeps DEF ToldOf

\* The conjuncts of the invariant about the hover, in these terms.
LEMMA HoverInTerms ==
    ASSUME listed \subseteq Client, alive \subseteq Drawin,
           mouse \in Owner \cup {None}, hovered \in Owner \cup {None}
    PROVE  (pins \in [Owner -> 0..1] /\ HoverIsTold)
              <=> (PinnedFor(pins, hovered)
                     /\ entered = ToldOf(mouse, hovered, listed \cup alive))
  BY DEF HoverIsTold, PinnedFor, ToldOf

LEMMA NodesAre ==
    ASSUME listed \subseteq Client, alive \subseteq Drawin, NEW n \in Nodes(listed, alive)
    PROVE  /\ ObjectAt(n) \in listed \cup alive \cup {None}
           /\ DrawableAt(n) \in {None, ObjectAt(n)}
           /\ SurfaceAt(n) \in listed \cup Pane \cup {None}
  <1>1. \/ \E c \in listed : n = Content(c) \/ n = Title(c)
        \/ \E d \in alive : n = Wibox(d)
        \/ \E p \in Pane : n = Surface(p)
        \/ n = Empty
    <2>1. \/ n \in UNION {{Content(c), Title(c)} : c \in listed}
          \/ n \in {Wibox(d) : d \in alive}
          \/ n \in {Surface(p) : p \in Pane}
          \/ n = Empty
      BY Zenon DEF Nodes
    <2>2. ASSUME n \in UNION {{Content(c), Title(c)} : c \in listed}
          PROVE  \E c \in listed : n = Content(c) \/ n = Title(c)
      BY <2>2, Zenon
    <2> QED
      BY <2>1, <2>2, Zenon
  <1> QED
    BY <1>1 DEF ObjectAt, DrawableAt, SurfaceAt, Content, Title, Wibox, Surface, Empty

LEMMA HoverKeeps ==
    ASSUME PointerInv, NEW n \in Nodes(listed, alive), Hover(n), UNCHANGED <<listed, alive>>
    PROVE  /\ mouse' \in listed' \cup Drawin \cup {None}
           /\ hovered' \in listed' \cup Drawin \cup {None}
           /\ pins' \in [Client \cup Drawin -> 0..1]
           /\ HoverIsTold' /\ HoverNests'
  <1> DEFINE o == ObjectAt(n)
             d == DrawableAt(n)
             here == [told |-> entered, hovered |-> hovered, pins |-> pins]
             gone == [told |-> (entered \ {mouse, <<hovered>>}) \cup ({o} \ {None}),
                      hovered |-> None, pins |-> Unpinned(pins, hovered)]
             left == IF o = mouse THEN here ELSE gone
             new == IF o = None THEN left ELSE event_drawable_under_mouse(left, d)
             there == listed \cup alive
  <1>0. /\ listed \subseteq Client /\ alive \subseteq Drawin /\ there \subseteq Owner
        /\ mouse \in Owner \cup {None} /\ hovered \in Owner \cup {None}
        /\ pins \in [Owner -> 0..1] /\ HoverIsTold /\ hovered \in {None, mouse}
    BY DEF PointerInv, PointerTypeOK, Owner, HoverNests
  <1>1. PinnedFor(pins, hovered) /\ entered = ToldOf(mouse, hovered, there)
    BY <1>0, HoverInTerms
  <1>2. o \in there \cup {None} /\ d \in {None, o} /\ o \in Owner \cup {None}
    BY <1>0, NodesAre
  <1>3. /\ mouse' = o /\ hovered' = new.hovered /\ pins' = new.pins /\ entered' = new.told
    BY DEF Hover, mouse_emit_leave
  <1>4. /\ left.hovered \in {None, o} /\ left.told = ToldOf(o, left.hovered, there)
        /\ PinnedFor(left.pins, left.hovered)
    <2>1. CASE o = mouse
      BY <1>0, <1>1, <2>1
    <2>2. CASE o # mouse
      <3>1. /\ gone.told = ToldOf(o, None, there) /\ PinnedFor(gone.pins, None)
            /\ gone.hovered = None
        <4> HIDE DEF o, there
        <4> QED
          BY <1>0, <1>1, <1>2, LeaveKeeps
      <3> HIDE DEF gone
      <3> QED
        BY <2>2, <3>1
    <2> QED
      BY <2>1, <2>2
  <1>5. /\ new.hovered \in {None, o} /\ new.told = ToldOf(o, new.hovered, there)
        /\ PinnedFor(new.pins, new.hovered)
    <2>1. CASE o = None
      BY <1>4, <2>1
    <2>2. CASE o # None
      <3> HIDE DEF left, o, d, there
      <3> USE DEF new
      <3> QED
        BY <1>0, <1>2, <1>4, <2>2, EnterKeeps
    <2> QED
      BY <2>1, <2>2
  <1> HIDE DEF new, left, gone, here, o, d
  <1>6. /\ mouse' \in there \cup {None} /\ hovered' \in {None, mouse'}
        /\ entered' = ToldOf(mouse', hovered', there) /\ PinnedFor(pins', hovered')
    BY <1>2, <1>3, <1>5
  <1> QED
    BY <1>0, <1>6 DEF HoverIsTold, HoverNests, PinnedFor, ToldOf, Owner

\* A client is unmanaged.
LEMMA UnmanagedKeeps ==
    ASSUME PointerInv, NEW c \in listed, Unmanaged(c), listed' = listed \ {c},
           alive' = alive
    PROVE  /\ mouse' \in listed' \cup Drawin \cup {None}
           /\ hovered' \in listed' \cup Drawin \cup {None}
           /\ pins' \in [Client \cup Drawin -> 0..1]
           /\ HoverIsTold' /\ HoverNests'
  <1>0. /\ listed \subseteq Client /\ alive \subseteq Drawin /\ c \in Owner
        /\ mouse \in listed \cup Drawin \cup {None}
        /\ hovered \in listed \cup Drawin \cup {None}
        /\ mouse \in Owner \cup {None} /\ hovered \in Owner \cup {None}
        /\ pins \in [Owner -> 0..1] /\ HoverIsTold /\ hovered \in {None, mouse}
    BY DEF PointerInv, PointerTypeOK, Owner, HoverNests
  <1>1. PinnedFor(pins, hovered) /\ entered = ToldOf(mouse, hovered, listed \cup alive)
    BY <1>0, HoverInTerms
  <1>2. c \notin alive /\ c # None
    BY <1>0, KindsDiffer, NoneIsApart
  <1>3. /\ mouse' = (IF mouse = c THEN None ELSE mouse)
        /\ hovered' = (IF hovered = c THEN None ELSE hovered)
        /\ entered' = ToldOf(mouse', hovered', listed' \cup alive')
        /\ PinnedFor(pins', hovered')
    <2>1. CASE hovered = c
      <3>1. /\ mouse = c /\ mouse' = None /\ hovered' = None
            /\ entered' = entered \ {c, <<c>>} /\ pins' = Unpinned(pins, hovered)
        BY <1>0, <1>2, <2>1 DEF Unmanaged
      <3>2. entered' = ToldOf(None, None, listed' \cup alive')
        BY <1>0, <1>1, <1>2, <2>1, <3>1, NoneIsApart DEF ToldOf, Owner
      <3> QED
        BY <1>0, <1>1, <2>1, <3>1, <3>2, UnpinnedKeeps
    <2>2. CASE hovered # c
      <3>1. /\ mouse' = (IF mouse = c THEN None ELSE mouse)
            /\ hovered' = hovered /\ pins' = pins /\ entered' = entered \ {c}
        BY <2>2 DEF Unmanaged
      <3>2. entered' = ToldOf(mouse', hovered, listed' \cup alive')
        BY <1>0, <1>1, <1>2, <3>1, NoneIsApart DEF ToldOf, Owner
      <3> QED
        BY <1>1, <2>2, <3>1, <3>2
    <2> QED
      BY <2>1, <2>2
  <1>4. /\ mouse' \in listed' \cup Drawin \cup {None}
        /\ hovered' \in listed' \cup Drawin \cup {None}
        /\ hovered' \in {None, mouse'}
    BY <1>0, <1>3
  <1> QED
    BY <1>3, <1>4 DEF HoverIsTold, HoverNests, PinnedFor, ToldOf, Owner
\* Steps that leave the hover, the clients and the drawins alone.
LEMMA QuietSteps ==
    ASSUME PointerInv, UNCHANGED <<listed, alive, hover>>,
           under' \in Nodes(listed, alive), locked' \in {"no", "lua", "ext"},
           pf' \in Client \cup Pane \cup {None}, count' \subseteq Button,
           held' \subseteq Button, {ignore', grab', warped', noisy'} \subseteq BOOLEAN
    PROVE  PointerInv'
  <1>1. UNCHANGED <<mouse, hovered, pins, entered>>
    BY DEF hover
  <1>2. PointerTypeOK'
    BY <1>1 DEF PointerInv, PointerTypeOK
  <1>3. HoverIsTold' /\ HoverNests'
    BY <1>1 DEF PointerInv, HoverIsTold, HoverNests
  <1> QED
    BY <1>2, <1>3 DEF PointerInv

Focusable == Client \cup Pane \cup {None}

LEMMA FocusIsFocusable ==
    ASSUME PointerTypeOK, NEW n, SurfaceAt(n) \in Focusable, NEW l
    PROVE  pointerfocus(Pinned(n), l) \in Focusable
  BY DEF PointerTypeOK, pointerfocus, Pinned, Focusable

LEMMA GrabberKeeps ==
    ASSUME PointerTypeOK, NEW l, SurfaceAt(under') \in Focusable,
           \/ event_handle_mousegrabber(l)
           \/ Rebased(l) /\ UNCHANGED grab
    PROVE  /\ pf' \in Focusable /\ ignore' \in BOOLEAN /\ grab' \in BOOLEAN
           /\ pf' = pf \/ pf' = pointerfocus(Pinned(under'), l)
  <1>1. pf \in Focusable /\ {ignore, grab} \subseteq BOOLEAN
    BY DEF PointerTypeOK, Focusable
  <1>2. CASE Rebased(l) /\ (UNCHANGED grab \/ grab' = FALSE)
    BY <1>1, <1>2, FocusIsFocusable DEF Rebased
  <1>3. CASE event_handle_mousegrabber(l) /\ grab' = TRUE /\ UNCHANGED <<pf, ignore>>
    BY <1>1, <1>3
  <1> QED
    BY <1>2, <1>3 DEF event_handle_mousegrabber

\* A node stays, when what it belongs to does.
LEMMA NodesStay ==
    ASSUME NEW clients, NEW drawins, NEW more, NEW others, NEW n \in Nodes(clients, drawins),
           \A c \in clients : n = Content(c) \/ n = Title(c) => c \in more,
           \A d \in drawins : n = Wibox(d) => d \in others
    PROVE  n \in Nodes(more, others)
  <1>1. \/ n \in UNION {{Content(c), Title(c)} : c \in clients}
        \/ n \in {Wibox(d) : d \in drawins}
        \/ n \in {Surface(p) : p \in Pane}
        \/ n = Empty
    BY Zenon DEF Nodes
  <1>2. CASE n \in UNION {{Content(c), Title(c)} : c \in clients}
    <2>1. PICK c \in clients : n = Content(c) \/ n = Title(c)
      BY <1>2, Zenon
    <2>2. c \in more /\ n \in {Content(c), Title(c)}
      BY <2>1
    <2>3. {Content(c), Title(c)} \in {{Content(k), Title(k)} : k \in more}
      BY <2>2, Zenon
    <2>4. n \in UNION {{Content(k), Title(k)} : k \in more}
      BY <2>2, <2>3, Zenon
    <2> QED
      BY <2>4, Zenon DEF Nodes
  <1>3. CASE n \in {Wibox(d) : d \in drawins}
    <2>1. PICK d \in drawins : n = Wibox(d)
      BY <1>3, Zenon
    <2> QED
      BY <2>1, Zenon DEF Nodes
  <1> QED
    BY <1>1, <1>2, <1>3, Zenon DEF Nodes

LEMMA InitPointer == PointerInit => PointerInv
  <1> SUFFICES ASSUME PointerInit PROVE PointerInv
    OBVIOUS
  <1>1. under \in Nodes(listed, alive)
    BY Zenon DEF PointerInit, Nodes
  <1>2. pins \in [Client \cup Drawin -> 0..1]
    BY DEF PointerInit
  <1>3. /\ listed \subseteq Client /\ alive \subseteq Drawin
        /\ mouse \in listed \cup Drawin \cup {None}
        /\ hovered \in listed \cup Drawin \cup {None}
        /\ locked \in {"no", "lua", "ext"} /\ pf \in Client \cup Pane \cup {None}
        /\ count \subseteq Button /\ held \subseteq Button
        /\ {ignore, grab, warped, noisy} \subseteq BOOLEAN
    BY DEF PointerInit
  <1>4. HoverIsTold
    <2>1. None \notin listed \cup alive
      BY <1>3, KindsDiffer
    <2> QED
      BY <2>1, KindsDiffer DEF PointerInit, HoverIsTold
  <1>5. HoverNests
    BY DEF PointerInit, HoverNests
  <1>6. PointerTypeOK
    BY <1>1, <1>2, <1>3 DEF PointerTypeOK
  <1> QED
    BY <1>4, <1>5, <1>6 DEF PointerInv

LEMMA NextPointer == PointerInv /\ [PointerNext]_pointerVars => PointerInv'
  <1> SUFFICES ASSUME PointerInv, [PointerNext]_pointerVars PROVE PointerInv'
    OBVIOUS
  <1>0. /\ PointerTypeOK /\ HoverIsTold /\ HoverNests
        /\ under \in Nodes(listed, alive) /\ listed \subseteq Client /\ alive \subseteq Drawin
        /\ mouse \in listed \cup Drawin \cup {None}
        /\ hovered \in listed \cup Drawin \cup {None}
        /\ pins \in [Client \cup Drawin -> 0..1]
        /\ locked \in {"no", "lua", "ext"} /\ pf \in Client \cup Pane \cup {None}
        /\ count \subseteq Button /\ held \subseteq Button
        /\ {ignore, grab, warped, noisy} \subseteq BOOLEAN
    BY DEF PointerInv, PointerTypeOK
  <1>n. \A n \in Nodes(listed, alive) : SurfaceAt(n) \in Focusable
    BY <1>0, NodesAre DEF Focusable
  <1>1. ASSUME NEW n \in Nodes(listed, alive), Motion(n) PROVE PointerInv'
    <2>1. /\ under' = n /\ warped' = (warped /\ grab)
          /\ noisy' = (warped /\ ~grab /\ mouse' # mouse)
          /\ UNCHANGED <<listed, alive, locked, count, held>>
      BY <1>1 DEF Motion, motionnotify, buttons
    <2>2. /\ warped' \in BOOLEAN /\ noisy' \in BOOLEAN
      BY <1>0, <2>1
    <2>3. pf' \in Client \cup Pane \cup {None} /\ ignore' \in BOOLEAN /\ grab' \in BOOLEAN
      <3>1. CASE event_handle_mousegrabber(locked)
        BY <1>0, <1>n, <2>1, <3>1, GrabberKeeps DEF Focusable
      <3>2. CASE ~grab /\ pf' = pointerfocus(Pinned(n), locked) /\ ignore' = FALSE /\ UNCHANGED grab
        BY <1>0, <1>n, <3>2, FocusIsFocusable DEF Focusable
      <3> QED
        BY <1>1, <3>1, <3>2 DEF Motion, motionnotify
    <2>4. CASE UNCHANGED hover
      BY <1>0, <2>1, <2>2, <2>3, <2>4, QuietSteps
    <2>5. CASE Hover(n)
      <3>1. /\ mouse' \in listed' \cup Drawin \cup {None}
            /\ hovered' \in listed' \cup Drawin \cup {None}
            /\ pins' \in [Client \cup Drawin -> 0..1]
            /\ HoverIsTold' /\ HoverNests'
        BY <2>1, <2>5, HoverKeeps
      <3>2. PointerTypeOK'
        BY <1>0, <2>1, <2>2, <2>3, <3>1 DEF PointerTypeOK
      <3> QED
        BY <3>1, <3>2 DEF PointerInv
    <2> QED
      BY <1>1, <2>4, <2>5 DEF Motion, motionnotify
  <1>2. ASSUME NEW n \in Nodes(listed, alive), SceneChanges(n) \/ SilentWarp(n)
        PROVE  PointerInv'
    <2>1. /\ under' = n /\ noisy' = FALSE
          /\ UNCHANGED <<listed, alive, hover, locked, pf, count, held, grab>>
          /\ (UNCHANGED <<ignore, warped>> \/ (ignore' = TRUE /\ warped' = TRUE))
      BY <1>2 DEF SceneChanges, SilentWarp, buttons
    <2>2. {ignore', grab', warped', noisy'} \subseteq BOOLEAN
      BY <1>0, <2>1
    <2> QED
      BY <1>0, <2>1, <2>2, QuietSteps
  <1>3. CASE Rebase \/ MousegrabberRun \/ MousegrabberStop
    <2>1. /\ under' = under /\ noisy' = FALSE
          /\ UNCHANGED <<listed, alive, hover, warped, locked, count, held>>
      BY <1>3 DEF Rebase, MousegrabberRun, MousegrabberStop, buttons
    <2>2. pf' \in Client \cup Pane \cup {None} /\ ignore' \in BOOLEAN /\ grab' \in BOOLEAN
      <3>1. CASE Rebase
        BY <1>0, <1>n, <2>1, <3>1, GrabberKeeps DEF Rebase, Focusable
      <3>2. CASE MousegrabberRun
        BY <1>0, <3>2 DEF MousegrabberRun
      <3>3. CASE MousegrabberStop
        BY <1>0, <1>n, <2>1, <3>3, FocusIsFocusable DEF MousegrabberStop, Rebased, Focusable
      <3> QED
        BY <1>3, <3>1, <3>2, <3>3
    <2>3. {ignore', grab', warped', noisy'} \subseteq BOOLEAN
      BY <1>0, <2>1, <2>2
    <2> QED
      BY <1>0, <2>1, <2>2, <2>3, QuietSteps
  <1>4. ASSUME NEW b \in Button, Press(b) \/ Release(b) PROVE PointerInv'
    <2>1. PICK pressed \in BOOLEAN :
              /\ buttonpress(b, pressed) /\ under' = under /\ noisy' = FALSE
              /\ UNCHANGED <<listed, alive, hover, warped, locked>>
      BY <1>4 DEF Press, Release
    <2>2. held' \subseteq Button
      BY <1>0, <2>1 DEF buttonpress
    <2>3. /\ pf' \in Client \cup Pane \cup {None} /\ ignore' \in BOOLEAN /\ grab' \in BOOLEAN
          /\ count' \subseteq Button
      <3>1. CASE event_handle_mousegrabber(locked) /\ UNCHANGED count
        BY <1>0, <1>n, <2>1, <3>1, GrabberKeeps DEF Focusable
      <3>2. CASE ~grab /\ UNCHANGED <<pf, ignore>>
                 /\ (IF pressed THEN TakesPress(b) ELSE TakesRelease(b))
        BY <1>0, <3>2 DEF TakesPress, TakesRelease, notify_button
      <3> QED
        BY <2>1, <3>1, <3>2 DEF buttonpress
    <2>4. {ignore', grab', warped', noisy'} \subseteq BOOLEAN
      BY <1>0, <2>1, <2>3
    <2> QED
      BY <1>0, <2>1, <2>2, <2>3, <2>4, QuietSteps
  <1>5. ASSUME NEW l \in {"no", "lua", "ext"}, LockChanges(l) PROVE PointerInv'
    <2>1. /\ locked' = l /\ under' = under /\ noisy' = FALSE
          /\ UNCHANGED <<listed, alive, hover, warped, count, held>>
      BY <1>5 DEF LockChanges, buttons
    <2>2. \/ grab' = FALSE /\ Rebased(l)
          \/ Rebased(l) /\ UNCHANGED grab
          \/ event_handle_mousegrabber(l)
          \/ UNCHANGED <<grab, pf, ignore>>
      BY <1>5 DEF LockChanges
    <2>3. pf' \in Client \cup Pane \cup {None} /\ ignore' \in BOOLEAN /\ grab' \in BOOLEAN
      <3>1. CASE grab' = FALSE /\ Rebased(l)
        BY <1>0, <1>n, <2>1, <3>1, FocusIsFocusable DEF Rebased, Focusable
      <3> QED
        BY <1>0, <1>n, <2>1, <2>2, <3>1, GrabberKeeps DEF Focusable
    <2>4. {ignore', grab', warped', noisy'} \subseteq BOOLEAN
      BY <1>0, <2>1, <2>3
    <2> QED
      BY <1>0, <2>1, <2>3, <2>4, QuietSteps
  <1>6. ASSUME NEW c \in Client, NEW below \in BOOLEAN, MapNotify(c, below)
        PROVE  PointerInv'
    <2>1. /\ listed' = listed \cup {c} /\ c \notin listed /\ noisy' = FALSE
          /\ UNCHANGED <<alive, hover, ignore, warped, grab, locked, count, held>>
      BY <1>6 DEF MapNotify, buttons
    <2>2. UNCHANGED <<mouse, hovered, pins, entered>>
      BY <2>1 DEF hover
    <2>3. under' \in Nodes(listed', alive') /\ pf' \in Client \cup Pane \cup {None}
      <3>1. CASE UNCHANGED <<under, pf>>
        <4>1. under \in Nodes(listed', alive)
          BY <1>0, <2>1, NodesStay
        <4> QED
          BY <1>0, <2>1, <3>1, <4>1
      <3>2. CASE under' = Content(c) /\ pf' = pointerfocus(c, locked)
        <4>1. under' \in Nodes(listed', alive')
          <5>1. c \in listed' /\ under' \in {Content(c), Title(c)}
            BY <2>1, <3>2
          <5>2. {Content(c), Title(c)} \in {{Content(k), Title(k)} : k \in listed'}
            BY <5>1, Zenon
          <5>3. under' \in UNION {{Content(k), Title(k)} : k \in listed'}
            BY <5>1, <5>2, Zenon
          <5> QED
            BY <5>3, Zenon DEF Nodes
        <4> QED
          BY <3>2, <4>1 DEF pointerfocus
      <3> QED
        BY <1>6, <3>1, <3>2 DEF MapNotify
    <2>4. PointerTypeOK'
      BY <1>0, <2>1, <2>2, <2>3 DEF PointerTypeOK
    <2>5. HoverIsTold'
      <3>1. mouse # c /\ {mouse} \cap (listed' \cup alive') = {mouse} \cap (listed \cup alive)
        BY <1>0, <2>1, KindsDiffer
      <3> QED
        BY <1>0, <2>2, <3>1 DEF HoverIsTold
    <2> QED
      BY <1>0, <2>2, <2>4, <2>5 DEF PointerInv, HoverNests
  <1>7. ASSUME NEW n \in Nodes(listed, alive), NEW c \in Client, UnmapNotify(c, n)
        PROVE  PointerInv'
    <2>1. /\ c \in listed /\ listed' = listed \ {c} /\ under' = n /\ noisy' = FALSE
          /\ UNCHANGED <<alive, warped, locked, count, held>> /\ Unmanaged(c)
          /\ n.of # c
      BY <1>7 DEF UnmapNotify, buttons
    <2>2. n \in Nodes(listed', alive')
      <3>1. \A k \in listed : n = Content(k) \/ n = Title(k) => k \in listed'
        BY <2>1 DEF Content, Title
      <3> QED
        BY <2>1, <3>1, NodesStay
    <2>3. /\ mouse' \in listed' \cup Drawin \cup {None}
          /\ hovered' \in listed' \cup Drawin \cup {None}
          /\ pins' \in [Client \cup Drawin -> 0..1]
          /\ HoverIsTold' /\ HoverNests'
      BY <2>1, UnmanagedKeeps
    <2>4. pf' \in Client \cup Pane \cup {None} /\ ignore' \in BOOLEAN /\ grab' \in BOOLEAN
      <3>1. SurfaceAt(under') \in Focusable
        BY <1>n, <2>1
      <3>2. event_handle_mousegrabber(locked) \/ (Rebased(locked) /\ UNCHANGED grab)
        BY <1>7 DEF UnmapNotify
      <3> QED
        BY <1>0, <3>1, <3>2, GrabberKeeps DEF Focusable
    <2>5. PointerTypeOK'
      BY <1>0, <2>1, <2>2, <2>3, <2>4 DEF PointerTypeOK
    <2> QED
      BY <2>3, <2>5 DEF PointerInv
  <1>8. ASSUME NEW n \in Nodes(listed, alive), NEW d \in Drawin, DrawinCollected(d, n)
        PROVE  PointerInv'
    <2>1. /\ d \in alive /\ alive' = alive \ {d} /\ under' = n /\ n.of # d
          /\ entered' = entered \ {d} /\ noisy' = FALSE
          /\ UNCHANGED <<listed, mouse, hovered, pins, ignore, warped, grab, locked, pf, count, held>>
      BY <1>8 DEF DrawinCollected, buttons
    <2>2. n \in Nodes(listed', alive')
      <3>1. \A k \in alive : n = Wibox(k) => k \in alive'
        BY <2>1 DEF Wibox
      <3> QED
        BY <2>1, <3>1, NodesStay
    <2>3. PointerTypeOK'
      BY <1>0, <2>1, <2>2 DEF PointerTypeOK
    <2>4. HoverIsTold'
      <3>1. /\ d \in Owner /\ d \notin listed /\ hovered \in Owner \cup {None}
        BY <1>0, KindsDiffer DEF Owner
      <3>2. entered' = (({mouse} \cap (listed \cup alive')) \cup {<<hovered>>}) \ {<<None>>}
        BY <1>0, <2>1, <3>1, NoneIsApart DEF HoverIsTold
      <3> QED
        BY <1>0, <2>1, <3>2 DEF HoverIsTold
    <2> QED
      BY <1>0, <2>1, <2>3, <2>4 DEF PointerInv, HoverNests
  <1>9. ASSUME NEW n \in Nodes(listed, alive), StateTeardown(n) PROVE PointerInv'
    <2>1. /\ alive' = Drawin /\ mouse' = None /\ hovered' = None
          /\ pins' = [o \in DOMAIN pins |-> 0] /\ entered' = {}
          /\ grab' = FALSE /\ under' = n /\ noisy' = FALSE
          /\ locked' \in {"no", "lua", "ext"}
          /\ UNCHANGED <<listed, warped, count, held>>
          /\ (Rebased(locked') \/ UNCHANGED <<pf, ignore>>)
      BY <1>0, <1>9 DEF StateTeardown, buttons
    <2>2. n \in Nodes(listed', alive')
      BY <1>0, <2>1, NodesStay
    <2>3. pf' \in Client \cup Pane \cup {None} /\ ignore' \in BOOLEAN
      BY <1>0, <1>n, <2>1, FocusIsFocusable DEF Rebased, Focusable
    <2>4. DOMAIN pins = Client \cup Drawin /\ pins' \in [Client \cup Drawin -> 0..1]
      BY <1>0, <2>1
    <2>5. PointerTypeOK'
      BY <1>0, <2>1, <2>2, <2>3, <2>4 DEF PointerTypeOK
    <2>6. HoverIsTold'
      <3>1. None \notin listed' \cup alive' /\ None \notin Client \cup Drawin
        BY <1>0, <2>1, KindsDiffer
      <3> QED
        BY <2>1, <2>4, <3>1 DEF HoverIsTold
    <2> QED
      BY <2>1, <2>5, <2>6 DEF PointerInv, HoverNests
  <1>10. ASSUME NEW c \in Client, SurfaceDestroyed(c) PROVE PointerInv'
    <2>1. /\ under' = under /\ pf' = None /\ noisy' = FALSE
          /\ UNCHANGED <<listed, alive, hover, ignore, warped, grab, locked, count, held>>
      BY <1>10 DEF SurfaceDestroyed, buttons
    <2>2. {ignore', grab', warped', noisy'} \subseteq BOOLEAN
      BY <1>0, <2>1
    <2> QED
      BY <1>0, <2>1, <2>2, QuietSteps
  <1>11. CASE UNCHANGED pointerVars
    <2>1. UNCHANGED <<under, listed, alive, hover, ignore, warped, noisy, grab, locked, pf, count, held>>
      BY <1>11 DEF pointerVars, warp, buttons
    <2> QED
      BY <1>0, <2>1, QuietSteps
  <1> QED
    BY <1>1, <1>2, <1>3, <1>4, <1>5, <1>6, <1>7, <1>8, <1>9, <1>10, <1>11 DEF PointerNext
(* What the mouse is over, as C knows it, as Lua was told and as the       *)
(* hovered drawable is pinned, agree: nothing stays entered that is gone   *)
(* or left, and no drawable is kept alive or dropped by a wrong count.     *)
THEOREM HoverIsSound == PointerSpec => []HoverSound
  <1>1. PointerInv => HoverSound
    BY DEF PointerInv, HoverSound
  <1> QED
    BY <1>1, InitPointer, NextPointer, PTL DEF PointerSpec

-----------------------------------------------------------------------------
(* What no step does to the pointer.                                       *)

NothingEntered == grab => entered' \subseteq entered
NoClientGetsIt == locked' # "no" /\ pf' # pf => pf' \notin Client
ButtonKeepsIt == count # {} /\ pf # None /\ pf' # pf => pf' = None /\ (locked' # "no" \/ pf \notin listed)

Kept == NothingEntered /\ NoClientGetsIt /\ (MapsUnderPress \/ ButtonKeepsIt)

LEMMA FollowsLockAndButton ==
    ASSUME PointerTypeOK, NEW n,
           pf' = pf \/ pf' = pointerfocus(Pinned(n), locked')
    PROVE  NoClientGetsIt /\ ButtonKeepsIt
  BY KindsDiffer
     DEF PointerTypeOK, pointerfocus, Pinned, NoClientGetsIt, ButtonKeepsIt

LEMMA PointerStep ==
    ASSUME PointerInv, [PointerNext]_pointerVars
    PROVE  Kept
  <1>0. PointerTypeOK
    BY DEF PointerInv
  <1>n. \A n \in Nodes(listed, alive) : SurfaceAt(n) \in Focusable
    BY <1>0, NodesAre DEF PointerTypeOK, Focusable
  <1>u. under \in Nodes(listed, alive)
    BY <1>0 DEF PointerTypeOK
  \* A step whose focus follows the cursor, for the lock that it leaves.
  <1>f. ASSUME SurfaceAt(under') \in Focusable,
               \/ event_handle_mousegrabber(locked')
               \/ Rebased(locked')
               \/ UNCHANGED pf
        PROVE  NoClientGetsIt /\ ButtonKeepsIt
    <2>1. pf' = pf \/ pf' = pointerfocus(Pinned(under'), locked')
      BY <1>f DEF event_handle_mousegrabber, Rebased
    <2> QED
      BY <1>0, <2>1, FollowsLockAndButton
  <1>1. ASSUME NEW n \in Nodes(listed, alive), Motion(n)
        PROVE  Kept
    <2>1. under' = n /\ locked' = locked
      BY <1>1 DEF Motion, motionnotify
    <2>2. CASE event_handle_mousegrabber(locked) /\ UNCHANGED hover
      BY <1>n, <1>f, <2>1, <2>2 DEF hover, Kept, NothingEntered
    <2>3. CASE ~grab /\ pf' = pointerfocus(Pinned(n), locked)
      BY <1>0, <2>1, <2>3, FollowsLockAndButton DEF Kept, NothingEntered
    <2> QED
      BY <1>1, <2>2, <2>3 DEF Motion, motionnotify
  <1>2. ASSUME NEW n \in Nodes(listed, alive), SceneChanges(n) \/ SilentWarp(n)
        PROVE  Kept
    BY <1>2 DEF SceneChanges, SilentWarp, hover, Kept, NothingEntered, NoClientGetsIt, ButtonKeepsIt
  <1>3. CASE Rebase \/ MousegrabberRun \/ MousegrabberStop
    <2>1. /\ under' = under /\ UNCHANGED hover /\ locked' = locked
          /\ \/ event_handle_mousegrabber(locked')
             \/ Rebased(locked')
             \/ UNCHANGED pf
      BY <1>3 DEF Rebase, MousegrabberRun, MousegrabberStop
    <2> QED
      BY <1>n, <1>u, <1>f, <2>1 DEF hover, Kept, NothingEntered
  <1>4. ASSUME NEW b \in Button, Press(b) \/ Release(b)
        PROVE  Kept
    <2>1. /\ under' = under /\ UNCHANGED hover /\ locked' = locked
          /\ event_handle_mousegrabber(locked') \/ UNCHANGED pf
      BY <1>4 DEF Press, Release, buttonpress
    <2> QED
      BY <1>n, <1>u, <1>f, <2>1 DEF hover, Kept, NothingEntered
  <1>5. ASSUME NEW l \in {"no", "lua", "ext"}, LockChanges(l)
        PROVE  Kept
    <2>1. /\ under' = under /\ UNCHANGED hover /\ locked' = l
          /\ \/ event_handle_mousegrabber(l)
             \/ Rebased(l)
             \/ UNCHANGED pf
      BY <1>5 DEF LockChanges
    <2> QED
      BY <1>n, <1>u, <1>f, <2>1 DEF hover, Kept, NothingEntered
  <1>6. ASSUME NEW c \in Client, NEW below \in BOOLEAN, MapNotify(c, below)
        PROVE  Kept
    <2>1. UNCHANGED <<hover, locked>>
      BY <1>6 DEF MapNotify
    <2>2. CASE below /\ locked = "no"
      <3>1. count = {} \/ MapsUnderPress
        BY <1>6, <2>2 DEF MapNotify
      <3> QED
        BY <2>1, <2>2, <3>1 DEF hover, Kept, NothingEntered, NoClientGetsIt, ButtonKeepsIt
    <2>3. CASE UNCHANGED pf
      BY <2>1, <2>3 DEF hover, Kept, NothingEntered, NoClientGetsIt, ButtonKeepsIt
    <2> QED
      BY <1>6, <2>2, <2>3 DEF MapNotify
  <1>7. ASSUME NEW n \in Nodes(listed, alive), NEW c \in Client, UnmapNotify(c, n)
        PROVE  Kept
    <2>1. /\ under' = n /\ locked' = locked /\ entered' \subseteq entered
          /\ event_handle_mousegrabber(locked') \/ Rebased(locked')
      BY <1>7 DEF UnmapNotify, Unmanaged
    <2> QED
      BY <1>n, <1>f, <2>1 DEF Kept, NothingEntered
  <1>8. ASSUME NEW n \in Nodes(listed, alive), NEW d \in Drawin, DrawinCollected(d, n)
        PROVE  Kept
    BY <1>8 DEF DrawinCollected, Kept, NothingEntered, NoClientGetsIt, ButtonKeepsIt
  <1>9. ASSUME NEW n \in Nodes(listed, alive), StateTeardown(n)
        PROVE  Kept
    <2>1. under' = n /\ entered' = {} /\ (Rebased(locked') \/ UNCHANGED pf)
      BY <1>9 DEF StateTeardown
    <2> QED
      BY <1>n, <1>f, <2>1 DEF Kept, NothingEntered
  <1>10. ASSUME NEW c \in Client, SurfaceDestroyed(c)
         PROVE  Kept
    BY <1>10, KindsDiffer
       DEF SurfaceDestroyed, hover, Kept, NothingEntered, NoClientGetsIt, ButtonKeepsIt
  <1>11. CASE UNCHANGED pointerVars
    BY <1>11 DEF pointerVars, hover, Kept, NothingEntered, NoClientGetsIt, ButtonKeepsIt
  <1> QED
    BY <1>1, <1>2, <1>3, <1>4, <1>5, <1>6, <1>7, <1>8, <1>9, <1>10, <1>11 DEF PointerNext

(* Nothing new is entered while a mousegrabber runs, and no client gets    *)
(* the pointer of a locked session, not even one that maps below it.       *)
THEOREM GrabAndLockHold == PointerSpec => GrabHidesHover /\ LockKeepsPointer
  <1>1. PointerInv /\ [PointerNext]_pointerVars
            => [NothingEntered]_pointerVars /\ [NoClientGetsIt]_pointerVars
    BY PointerStep DEF Kept
  <1>2. PointerSpec => [][NothingEntered]_pointerVars /\ [][NoClientGetsIt]_pointerVars
    BY <1>1, InitPointer, NextPointer, PTL DEF PointerSpec
  <1> QED
    BY <1>2 DEF GrabHidesHover, LockKeepsPointer, NothingEntered, NoClientGetsIt

(* No step gives the pointer away: besides, a held button keeps its        *)
(* surface, where no client maps below the cursor while one is held.       *)
THEOREM PointerKept ==
    ASSUME ~MapsUnderPress
    PROVE  PointerSpec => PointerSteps
  <1>1. PointerInv /\ [PointerNext]_pointerVars => [ButtonKeepsIt]_pointerVars
    BY PointerStep DEF Kept
  <1>2. PointerSpec => [][ButtonKeepsIt]_pointerVars
    BY <1>1, InitPointer, NextPointer, PTL DEF PointerSpec
  <1>3. PointerSpec => ButtonPinsSurface
    BY <1>2 DEF ButtonPinsSurface, ButtonKeepsIt
  <1> QED
    BY <1>3, GrabAndLockHold DEF PointerSteps

-----------------------------------------------------------------------------
(* The three parts in one instance.                                        *)

PartsInv == PointerInv /\ StreamInv /\ IdleInv

LEMMA PartsArePlayed ==
    ASSUME [Next]_inputVars
    PROVE  [PointerNext]_pointerVars /\ [StreamNext]_streamVars /\ [IdleNext]_idleVars
  BY DEF Next, inputVars

(* In each state of the pointer, of the wheel and its gestures, and of the *)
(* idle timers every variable is in its set.                               *)
THEOREM TypeCorrect == Spec => []InputTypes
  <1>1. Init => PartsInv
    BY InitPointer, InitStreams, InitIdle DEF Init, PartsInv
  <1>2. PartsInv /\ [Next]_inputVars => PartsInv'
    BY PartsArePlayed, NextPointer, NextStreams, NextIdle DEF PartsInv
  <1>3. PartsInv => InputTypes
    BY StreamTypes DEF PartsInv, PointerInv, IdleInv, InputTypes
  <1> QED
    BY <1>1, <1>2, <1>3, PTL DEF Spec

-----------------------------------------------------------------------------
(* Fingers.  The window of a point is one of the windows (On), so where its *)
(* finger is told to be is a number.                                        *)

TouchInv ==
    /\ finger \in [Finger -> Int] /\ point \in [Finger -> [window : Window \cup {NoWindow},
                                                         client : Window \cup {NoWindow}, told : Int]]
    /\ mapped \subseteq Window
    /\ PointsAreFingers

LEMMA PlacesAreNumbers == \A x \in Line : x \in Int /\ x # Lifted
  BY DEF Line, Lifted

\* A finger's point becomes another one, or none.
LEMMA PointStep ==
    ASSUME TouchInv, NEW f \in Finger, NEW x \in Int,
           NEW q \in [window : Window \cup {NoWindow}, client : Window \cup {NoWindow}, told : Int],
           q # NoPoint => x # Lifted, mapped' \subseteq Window,
           finger' = [finger EXCEPT ![f] = x], point' = [point EXCEPT ![f] = q]
    PROVE  TouchInv'
  BY DEF TouchInv, PointsAreFingers

LEMMA NoPointIs == NoPoint \in [window : Window \cup {NoWindow}, client : Window \cup {NoWindow}, told : Int]
  BY DEF NoPoint, Lifted

LEMMA DownTouch ==
    ASSUME TouchInv, NEW f \in Finger, NEW x \in Line, touchnotifydown(f, x)
    PROVE  TouchInv' /\ (SameFingerSamePlace => SameFingerSamePlace')
  <1>1. x \in Int /\ x # Lifted /\ mapped' = mapped /\ finger[f] = Lifted /\ finger' = [finger EXCEPT ![f] = x]
    BY PlacesAreNumbers DEF touchnotifydown
  <1>2. CASE point' = point
    <2>1. point[f] = NoPoint
      BY <1>1 DEF TouchInv, PointsAreFingers
    <2> QED
      BY <1>1, <1>2, <2>1 DEF TouchInv, PointsAreFingers, SameFingerSamePlace, NoPoint
  <1>3. ASSUME NEW w \in Window,
               point' = [point EXCEPT ![f] = [window |-> w, client |-> w, told |-> Inside(w, x)]]
        PROVE  TouchInv' /\ (SameFingerSamePlace => SameFingerSamePlace')
    <2>1. PICK q : q = [window |-> w, client |-> w, told |-> Inside(w, x)]
      OBVIOUS
    <2>2. /\ q \in [window : Window \cup {NoWindow}, client : Window \cup {NoWindow}, told : Int]
          /\ q.window = w /\ q.told = Inside(w, x) /\ point' = [point EXCEPT ![f] = q]
      BY <1>1, <1>3, <2>1, WindowAssumption DEF Inside
    <2>3. TouchInv'
      BY <1>1, <2>2, PointStep DEF TouchInv
    <2>4. SameFingerSamePlace => SameFingerSamePlace'
      BY <1>1, <2>2 DEF TouchInv, SameFingerSamePlace
    <2> QED
      BY <2>3, <2>4
  <1> QED
    BY <1>2, <1>3 DEF touchnotifydown, WindowsAt, TouchInv

\* Where windows have a rim, the place that is told moves by its width.
LEMMA MotionTouch ==
    ASSUME TouchInv, NEW f \in Finger, NEW x \in Line, touchnotifymotion(f, x)
    PROVE  TouchInv' /\ (Rim = 0 /\ SameFingerSamePlace => SameFingerSamePlace')
  <1>1. x \in Int /\ x # Lifted /\ mapped' = mapped /\ finger[f] # Lifted /\ finger' = [finger EXCEPT ![f] = x]
    BY PlacesAreNumbers DEF touchnotifymotion
  <1>2. CASE point[f].window = NoWindow
    BY <1>1, <1>2 DEF touchnotifymotion, TouchInv, PointsAreFingers, SameFingerSamePlace
  <1>3. CASE point[f].window # NoWindow
    <2>1. PICK q : q = [point[f] EXCEPT !.told = Projected(f, x)]
      OBVIOUS
    <2>0. point[f].window \in Window /\ Origin[point[f].window] \in Int
      BY <1>3, WindowAssumption DEF TouchInv
    <2>2. /\ q \in [window : Window \cup {NoWindow}, client : Window \cup {NoWindow}, told : Int]
          /\ q.window = point[f].window /\ q.told = x - Origin[point[f].window]
          /\ point' = [point EXCEPT ![f] = q]
      BY <1>1, <1>3, <2>0, <2>1 DEF Projected, touchnotifymotion, TouchInv
    <2>3. TouchInv'
      BY <1>1, <2>2, PointStep DEF TouchInv
    <2>4. ASSUME Rim = 0, SameFingerSamePlace PROVE SameFingerSamePlace'
      <3>1. q.told = Inside(q.window, x)
        BY <1>1, <2>0, <2>2, <2>4 DEF Inside
      <3> QED
        BY <1>1, <2>2, <2>4, <3>1 DEF TouchInv, SameFingerSamePlace
    <2> QED
      BY <2>3, <2>4
  <1> QED
    BY <1>2, <1>3

LEMMA LiftTouch ==
    ASSUME TouchInv, NEW f \in Finger, touchnotifyup(f) \/ touchnotifycancel(f)
    PROVE  TouchInv' /\ (SameFingerSamePlace => SameFingerSamePlace')
  <1>1. mapped' = mapped /\ finger' = [finger EXCEPT ![f] = Lifted] /\ Lifted \in Int
    BY DEF touchnotifyup, touchnotifycancel, Lifted
  <1>2. /\ point' \in [Finger -> [window : Window \cup {NoWindow}, client : Window \cup {NoWindow}, told : Int]]
        /\ point'[f] = NoPoint
        /\ \A g \in Finger : point'[g] \in {NoPoint, point[g]}
    BY NoPointIs DEF touchnotifyup, touchnotifycancel, TouchInv, Up
  <1>3. NoPoint.window = NoWindow
    BY DEF NoPoint
  <1> QED
    BY <1>1, <1>2, <1>3 DEF TouchInv, PointsAreFingers, SameFingerSamePlace

LEMMA OtherTouch ==
    ASSUME TouchInv, \/ \E w \in Window : Map(w) \/ Destroy(w) \/ PointAt(w)
                     \/ UNCHANGED touchVars
    PROVE  TouchInv' /\ (SameFingerSamePlace => SameFingerSamePlace')
  <1>1. ASSUME NEW w \in Window, Destroy(w)
        PROVE  TouchInv' /\ (SameFingerSamePlace => SameFingerSamePlace')
    <2>1. /\ finger' = finger /\ mapped' \subseteq mapped
          /\ point' = [f \in Finger |-> IF point[f].window = w THEN [point[f] EXCEPT !.window = NoWindow]
                                        ELSE point[f]]
      BY <1>1 DEF Destroy
    <2>2. ASSUME NEW f \in Finger
          PROVE  /\ point'[f] \in [window : Window \cup {NoWindow}, client : Window \cup {NoWindow}, told : Int]
                 /\ point'[f] = point[f] \/ point'[f].window = NoWindow
                 /\ point[f] = NoPoint => point'[f] = NoPoint
      BY <2>1 DEF TouchInv, NoPoint
    <2> QED
      BY <2>1, <2>2 DEF TouchInv, PointsAreFingers, SameFingerSamePlace
  <1>2. ASSUME UNCHANGED <<finger, point>>, mapped' \subseteq Window
        PROVE  TouchInv' /\ (SameFingerSamePlace => SameFingerSamePlace')
    BY <1>2 DEF TouchInv, PointsAreFingers, SameFingerSamePlace
  <1> QED
    BY <1>1, <1>2 DEF Map, PointAt, touchVars, TouchInv

LEMMA NextTouch ==
    ASSUME TouchInv, [TouchNext]_touchVars
    PROVE  TouchInv' /\ (Rim = 0 /\ SameFingerSamePlace => SameFingerSamePlace')
  BY DownTouch, MotionTouch, LiftTouch, OtherTouch DEF TouchNext

LEMMA InitTouch == TouchInit => TouchInv /\ SameFingerSamePlace
  BY NoPointIs DEF TouchInit, TouchInv, PointsAreFingers, SameFingerSamePlace, Lifted, NoPoint

(* A finger that is lifted leaves nothing of it in the seat, though windows   *)
(* go while fingers are on them (input.c).                                    *)
THEOREM FingersLeaveNothing == TouchSpec => []PointsAreFingers
  <1>1. TouchInv /\ [TouchNext]_touchVars => TouchInv'
    BY NextTouch
  <1>2. TouchInv => PointsAreFingers
    BY DEF TouchInv
  <1> QED
    BY <1>1, <1>2, InitTouch, PTL DEF TouchSpec

(* Where windows have no border, each is told where its finger is, however    *)
(* the finger moves.                                                          *)
THEOREM FingersAreTold == Rim = 0 => (TouchSpec => []SameFingerSamePlace)
  <1> SUFFICES ASSUME Rim = 0 PROVE TouchSpec => []SameFingerSamePlace
    OBVIOUS
  <1>1. TouchInv /\ SameFingerSamePlace /\ [TouchNext]_touchVars => TouchInv' /\ SameFingerSamePlace'
    BY NextTouch
  <1> QED
    BY <1>1, InitTouch, PTL DEF TouchSpec

-----------------------------------------------------------------------------
(* Tablets.  A tool that is near one has it as its tablet, so the tablet    *)
(* cannot go; a pad has its surface by way of a tablet.                     *)

PadType == [there : BOOLEAN, attached_tablet : Tablet \cup {Nought}, current_surface : Face \cup {Nought}]
PenType == [there : BOOLEAN, tablet : Tablet \cup {Nought}, last : Place, has : SUBSET Axis,
            on : Tablet \cup {Nought}, near : Face \cup {Nought}, down : BOOLEAN]

PadHolds(p) ==
    /\ p.attached_tablet \in tablets \cup {Nought}
    /\ p.current_surface # Nought =>
          p.current_surface \in faces \cap Takes /\ p.attached_tablet # Nought
PenHolds(k) ==
    /\ k.tablet \in tablets \cup {Nought}
    /\ k.on # Nought => k.on = k.tablet /\ k.has = Axis

TabletInv ==
    /\ tablets \subseteq Tablet /\ faces \subseteq Face
    /\ pads \in [Pad -> PadType] /\ tools \in [Pen -> PenType] /\ at \in [Pen -> Place]
    /\ \A p \in Pad : PadHolds(pads[p])
    /\ \A k \in Pen : PenHolds(tools[k]) /\ (tools[k].on # Nought => tools[k].last = at[k])

LEMMA FaceAtIs == FaceAt(cursor) \in faces \cup {Nought}
  BY DEF FaceAt

LEMMA ClearedIs ==
    ASSUME NEW p \in PadType
    PROVE  /\ tabletpad_clear_focus(p) \in PadType /\ tabletpad_clear_focus(p).current_surface = Nought
           /\ tabletpad_clear_focus(p).attached_tablet = p.attached_tablet
  BY DEF tabletpad_clear_focus, PadType

LEMMA AttachedIs ==
    ASSUME NEW p \in PadType, NEW t \in Tablet \cup {Nought}
    PROVE  /\ tabletpad_attach_tablet(p, t) \in PadType
           /\ tabletpad_attach_tablet(p, t).attached_tablet = t
           /\ tabletpad_attach_tablet(p, t).current_surface \in {Nought, p.current_surface}
           /\ p.attached_tablet # t => tabletpad_attach_tablet(p, t).current_surface = Nought
  <1>1. PICK q : q = tabletpad_clear_focus(p)
    OBVIOUS
  <1>2. q \in PadType /\ q.current_surface = Nought
    BY <1>1, ClearedIs
  <1>3. tabletpad_attach_tablet(p, t) = IF p.attached_tablet = t THEN p ELSE [q EXCEPT !.attached_tablet = t]
    BY <1>1 DEF tabletpad_attach_tablet
  <1> QED
    BY <1>2, <1>3 DEF PadType

LEMMA PadFocusIs ==
    ASSUME faces \subseteq Face, NEW p \in PadType
    PROVE  /\ tabletpad_set_focus_for_cursor(p) \in PadType
           /\ tabletpad_set_focus_for_cursor(p).attached_tablet = p.attached_tablet
           /\ \/ tabletpad_set_focus_for_cursor(p).current_surface \in {Nought, p.current_surface}
              \/ /\ tabletpad_set_focus_for_cursor(p).current_surface \in faces \cap Takes
                 /\ p.attached_tablet \in tablets
  <1>1. PICK s : s = FaceAt(cursor)
    OBVIOUS
  <1>2. s \in faces \cup {Nought}
    BY <1>1, FaceAtIs
  <1>3. tabletpad_set_focus_for_cursor(p)
        = IF p.attached_tablet \notin tablets \/ s = p.current_surface THEN p
          ELSE [p EXCEPT !.current_surface = IF s \in Takes THEN s ELSE Nought]
    BY <1>1 DEF tabletpad_set_focus_for_cursor
  <1> QED
    BY <1>2, <1>3 DEF PadType

\* Pads change one at a time or all at once; the tools stay as they are.
LEMMA PadsStep ==
    ASSUME TabletInv, UNCHANGED <<tools, at, faces>>, tablets' \subseteq Tablet,
           pads' \in [Pad -> PadType], \A p \in Pad : PadHolds(pads[p])',
           \A k \in Pen : PenHolds(tools[k])'
    PROVE  TabletInv'
  BY DEF TabletInv

LEMMA PadTablets ==
    ASSUME TabletInv, NEW p \in Pad,
           \/ createtabletpad(p) \/ destroytrackedtabletpad(p) \/ tabletpadnotify(p)
           \/ \E t \in tablets \cup {Nought} : tabletpadnotifyattach(p, t)
           \/ \E k \in Pen : tabletpadnotifyattach(p, find_tracked_tablet_by_tool(k))
    PROVE  TabletInv'
  <1>1. ASSUME NEW q \in PadType, PadHolds(q), UNCHANGED <<tablets, tools, at, cursor, faces>>,
               pads' = [pads EXCEPT ![p] = q]
        PROVE  TabletInv'
    BY <1>1 DEF TabletInv, PadHolds, PenHolds
  <1>2. pads[p] \in PadType /\ PadHolds(pads[p])
    BY DEF TabletInv
  <1>3. NoPad \in PadType /\ NoPad.attached_tablet = Nought /\ NoPad.current_surface = Nought
    BY DEF NoPad, PadType
  <1>4. CASE createtabletpad(p)
    <2>1. PICK t \in tablets \cup {Nought} :
            pads' = [pads EXCEPT ![p] = [NoPad EXCEPT !.there = TRUE, !.attached_tablet = t]]
      BY ZenonT(30), <1>4 DEF createtabletpad
    <2>2. PICK q : q = [NoPad EXCEPT !.there = TRUE, !.attached_tablet = t]
      OBVIOUS
    <2>3. q \in PadType /\ q.attached_tablet = t /\ q.current_surface = Nought
      BY <1>3, <2>2 DEF PadType, TabletInv
    <2> QED
      BY ZenonT(30), <1>1, <1>4, <2>1, <2>2, <2>3 DEF createtabletpad, PadHolds
  <1>5. CASE destroytrackedtabletpad(p)
    BY <1>1, <1>3, <1>5 DEF destroytrackedtabletpad, PadHolds
  <1>6. CASE tabletpadnotify(p)
    <2>1. PICK q : q = tabletpad_set_focus_for_cursor(pads[p])
      OBVIOUS
    <2>2. q \in PadType /\ PadHolds(q)
      BY <1>2, <2>1, PadFocusIs, NoughtAssumption DEF PadHolds, TabletInv
    <2> QED
      BY <1>1, <1>6, <2>1, <2>2 DEF tabletpadnotify
  <1>7. ASSUME NEW t \in tablets \cup {Nought}, tabletpadnotifyattach(p, t) PROVE TabletInv'
    <2>1. PICK q : q = tabletpad_attach_tablet(pads[p], t)
      OBVIOUS
    <2>2. t \in Tablet \cup {Nought}
      BY DEF TabletInv
    <2>3. q \in PadType /\ PadHolds(q)
      BY <1>2, <2>1, <2>2, AttachedIs DEF PadHolds
    <2> QED
      BY <1>1, <1>7, <2>1, <2>3 DEF tabletpadnotifyattach
  <1>8. \A k \in Pen : find_tracked_tablet_by_tool(k) \in tablets \cup {Nought}
    BY DEF find_tracked_tablet_by_tool
  <1> QED
    BY <1>4, <1>5, <1>6, <1>7, <1>8

LEMMA CreateTablets ==
    ASSUME TabletInv, NEW t \in Tablet, createtablet(t)
    PROVE  TabletInv'
  <1>1. /\ tablets' = tablets \cup {t} /\ UNCHANGED <<tools, at, cursor, faces>>
        /\ pads' = [p \in Pad |-> IF pads[p].there /\ SharesGroup(p, t)
                                  THEN tabletpad_attach_tablet(pads[p], t) ELSE pads[p]]
    BY DEF createtablet
  <1>2. ASSUME NEW p \in Pad
        PROVE  pads'[p] \in PadType /\ PadHolds(pads[p])'
    <2>1. pads[p] \in PadType /\ PadHolds(pads[p])
      BY DEF TabletInv
    <2>2. PICK q : q = tabletpad_attach_tablet(pads[p], t)
      OBVIOUS
    <2>3. /\ q \in PadType /\ q.attached_tablet = t /\ q.current_surface \in {Nought, pads[p].current_surface}
          /\ pads[p].attached_tablet # t => q.current_surface = Nought
      BY <2>1, <2>2, AttachedIs
    <2>4. pads'[p] \in {q, pads[p]}
      BY <1>1, <2>2
    <2> QED
      BY <1>1, <2>1, <2>3, <2>4, NoughtAssumption DEF PadHolds
  <1>3. \A k \in Pen : PenHolds(tools[k])'
    BY <1>1 DEF TabletInv, PenHolds
  <1>4. pads' \in [Pad -> PadType]
    BY <1>1, <1>2
  <1> QED
    BY <1>1, <1>2, <1>3, <1>4, PadsStep DEF TabletInv

\* No tool is near the tablet that goes, and no pad keeps a surface it led to.
LEMMA DestroyTablets ==
    ASSUME TabletInv, NEW t \in Tablet, destroytrackedtablet(t)
    PROVE  TabletInv'
  <1>1. /\ tablets' = tablets \ {t} /\ UNCHANGED <<at, cursor, faces>> /\ pads' = Detached(t)
        /\ tools' = [k \in Pen |-> IF tools[k].tablet = t THEN [tools[k] EXCEPT !.tablet = Nought] ELSE tools[k]]
        /\ \A k \in Pen : tools[k].tablet = t => tools[k].on = Nought
    BY DEF destroytrackedtablet
  <1>2. ASSUME NEW p \in Pad
        PROVE  pads'[p] \in PadType /\ PadHolds(pads[p])'
    <2>1. pads[p] \in PadType /\ PadHolds(pads[p])
      BY DEF TabletInv
    <2>2. PICK q : q = tabletpad_clear_focus(pads[p])
      OBVIOUS
    <2>3. q \in PadType /\ q.current_surface = Nought
      BY <2>1, <2>2, ClearedIs
    <2>4. PICK r : r = [q EXCEPT !.attached_tablet = Nought]
      OBVIOUS
    <2>5. r \in PadType /\ r.current_surface = Nought /\ r.attached_tablet = Nought
      BY <2>3, <2>4 DEF PadType
    <2>6. pads'[p] = IF pads[p].attached_tablet = t THEN r ELSE pads[p]
      BY <1>1, <2>2, <2>4 DEF Detached
    <2> QED
      BY <1>1, <2>1, <2>5, <2>6 DEF PadHolds
  <1>3. ASSUME NEW k \in Pen
        PROVE  /\ tools'[k] \in PenType /\ PenHolds(tools[k])'
               /\ tools'[k].on = tools[k].on /\ tools'[k].last = tools[k].last
    <2>1. tools[k] \in PenType /\ PenHolds(tools[k])
      BY DEF TabletInv
    <2>2. PICK r : r = [tools[k] EXCEPT !.tablet = Nought]
      OBVIOUS
    <2>3. /\ r \in PenType /\ r.tablet = Nought /\ r.on = tools[k].on /\ r.last = tools[k].last
          /\ r.has = tools[k].has
      BY <2>1, <2>2 DEF PenType
    <2>4. tools'[k] = IF tools[k].tablet = t THEN r ELSE tools[k]
      BY <1>1, <2>2
    <2> QED
      BY <1>1, <2>1, <2>3, <2>4 DEF PenHolds
  <1>4. pads' \in [Pad -> PadType] /\ tools' \in [Pen -> PenType]
    BY <1>1, <1>2, <1>3 DEF Detached
  <1> QED
    BY <1>1, <1>2, <1>3, <1>4 DEF TabletInv

\* One tool changes; what is near it, if anything is, is a surface.
LEMMA PenStep ==
    ASSUME TabletInv, UNCHANGED <<tablets, pads, faces>>, NEW k \in Pen, NEW q \in PenType, PenHolds(q),
           tools' = [tools EXCEPT ![k] = q], at' \in [Pen -> Place],
           q.on # Nought => q.last = at'[k], \A j \in Pen \ {k} : at'[j] = at[j]
    PROVE  TabletInv'
  <1>1. \A j \in Pen : tools'[j] = IF j = k THEN q ELSE tools[j]
    BY DEF TabletInv
  <1>2. tools' \in [Pen -> PenType]
    BY DEF TabletInv
  <1>3. \A j \in Pen : PenHolds(tools[j])' /\ (tools'[j].on # Nought => tools'[j].last = at'[j])
    BY <1>1 DEF TabletInv, PenHolds
  <1>4. \A p \in Pad : PadHolds(pads[p])'
    BY DEF TabletInv, PadHolds
  <1> QED
    BY <1>2, <1>3, <1>4 DEF TabletInv

LEMMA NearIs ==
    ASSUME faces \subseteq Face, NEW q \in PenType, NEW place
    PROVE  \E r \in PenType : /\ r = proximity_in_for_cursor(q, place)
                              /\ r.tablet = q.tablet /\ r.on = q.on /\ r.has = q.has /\ r.last = q.last
                              /\ r.down = q.down
  <1>1. PICK s : s = FaceAt(place)
    OBVIOUS
  <1>2. s \in faces \cup {Nought}
    BY <1>1 DEF FaceAt
  <1>3. PICK r : r = [q EXCEPT !.near = s]
    OBVIOUS
  <1>4. /\ r \in PenType /\ r.tablet = q.tablet /\ r.on = q.on /\ r.has = q.has /\ r.last = q.last
        /\ r.down = q.down
    BY <1>2, <1>3 DEF PenType
  <1>5. proximity_in_for_cursor(q, place) \in {q, r}
    BY <1>1, <1>3 DEF proximity_in_for_cursor
  <1> QED
    BY <1>4, <1>5

\* A tool all of whose axes are known is where the hardware has it.
LEMMA AxesTablets ==
    ASSUME TabletInv, NEW k \in Pen, NEW t \in tablets, NEW moved \in SUBSET Axis, NEW place \in Place,
           moved \cup tools[k].has = Axis, \A a \in Axis \ moved : place[a] = tools[k].last[a],
           Axes(k, t, moved, place)
    PROVE  TabletInv' /\ cursor' = place /\ at' = [at EXCEPT ![k] = place]
  <1>1. tools[k] \in PenType /\ t \in Tablet /\ place \in [Axis -> 0..1] /\ tools[k].last \in [Axis -> 0..1]
    BY DEF TabletInv, PenType, Place
  <1>2. PICK tool : tool = find_or_create_tracked_tablet_tool(k, t)
    OBVIOUS
  <1>3. /\ tool \in PenType /\ tool.tablet = t /\ tool.last = tools[k].last /\ tool.has = tools[k].has
    BY <1>1, <1>2 DEF find_or_create_tracked_tablet_tool, PenType
  <1>4. [a \in Axis |-> IF a \in moved THEN place[a] ELSE tool.last[a]] = place
    BY <1>1, <1>3
  <1>5. PICK near : near = [tool EXCEPT !.on = t, !.has = @ \cup moved,
                              !.last = [a \in Axis |-> IF a \in moved THEN place[a] ELSE @[a]]]
    BY ZenonT(30)
  <1>6. near = [tool EXCEPT !.on = t, !.has = Axis, !.last = place]
    BY <1>3, <1>4, <1>5
  <1>7. /\ near \in PenType /\ near.tablet = t /\ near.on = t /\ near.has = Axis /\ near.last = place
    BY <1>1, <1>3, <1>6 DEF PenType, Place
  <1>8. Position(tool, moved, place) = place
    BY <1>4 DEF Position
  <1>9. /\ at' = [at EXCEPT ![k] = place] /\ cursor' = place /\ UNCHANGED <<tablets, pads, faces>>
        /\ tools' = [tools EXCEPT ![k] = proximity_in_for_cursor(near, place)]
    BY <1>2, <1>3, <1>5, <1>8 DEF Axes, tablet_apply_absolute_motion
  <1>10. PICK r \in PenType : /\ r = proximity_in_for_cursor(near, place)
                              /\ r.tablet = t /\ r.on = t /\ r.has = Axis /\ r.last = place
    BY <1>7, NearIs DEF TabletInv
  <1>11. TabletInv'
    <2>1. PenHolds(r)
      BY <1>10 DEF PenHolds
    <2>2. at' \in [Pen -> Place] /\ at'[k] = place /\ \A j \in Pen \ {k} : at'[j] = at[j]
      BY <1>9 DEF TabletInv
    <2> QED
      BY <1>9, <1>10, <2>1, <2>2, PenStep
  <1> QED
    BY <1>9, <1>11

LEMMA PenTablets ==
    ASSUME TabletInv, NEW k \in Pen, NEW place \in Place,
           \/ ProximityOut(k) \/ tabletnotifytip(k) \/ destroytrackedtablettool(k)
           \/ \E t \in Tablet : ProximityIn(k, t, place)
           \/ \E moved \in {{"x"}, {"y"}, Axis} : tabletnotifyaxis(k, moved, place)
    PROVE  TabletInv' /\ ((\A j \in Pen : j = k) /\ CursorIsAtTool => CursorIsAtTool')
  <1>1. tools[k] \in PenType /\ PenHolds(tools[k]) /\ (tools[k].on # Nought => tools[k].last = at[k])
    BY DEF TabletInv
  <1>2. ASSUME cursor' = at'[k] PROVE (\A j \in Pen : j = k) => CursorIsAtTool'
    BY <1>2 DEF CursorIsAtTool
  <1>3. ASSUME NEW t \in Tablet, ProximityIn(k, t, place)
        PROVE  TabletInv' /\ cursor' = at'[k]
    <2>1. t \in tablets /\ Axes(k, t, Axis, place)
      BY <1>3 DEF ProximityIn
    <2>2. Axis \cup tools[k].has = Axis
      BY <1>1 DEF PenType
    <2>3. TabletInv' /\ cursor' = place /\ at' = [at EXCEPT ![k] = place]
      BY <2>1, <2>2, AxesTablets
    <2> QED
      BY <2>3 DEF TabletInv
  <1>4. ASSUME NEW moved \in {{"x"}, {"y"}, Axis}, tabletnotifyaxis(k, moved, place)
        PROVE  TabletInv' /\ cursor' = at'[k]
    <2>1. moved \in SUBSET Axis
      BY DEF Axis
    <2>2. tools[k].on \in tablets /\ moved \cup tools[k].has = Axis
      BY <1>1, <1>4, <2>1 DEF tabletnotifyaxis, PenHolds
    <2>3. \A a \in Axis \ moved : place[a] = tools[k].last[a]
      BY <1>1, <1>4 DEF tabletnotifyaxis
    <2>4. TabletInv' /\ cursor' = place /\ at' = [at EXCEPT ![k] = place]
      BY <1>4, <2>1, <2>2, <2>3, AxesTablets DEF tabletnotifyaxis
    <2> QED
      BY <2>4 DEF TabletInv
  <1>5. CASE tabletnotifytip(k)
    <2>1. /\ tools[k].on # Nought /\ cursor' = at[k] /\ UNCHANGED <<tablets, pads, at, faces>>
          /\ tools' = [tools EXCEPT ![k] = [proximity_in_for_cursor(tools[k], at[k]) EXCEPT !.down = ~tools[k].down]]
      BY <1>5 DEF tabletnotifytip, tablet_apply_absolute_motion
    <2>2. PICK r \in PenType : /\ r = proximity_in_for_cursor(tools[k], at[k]) /\ r.tablet = tools[k].tablet
                              /\ r.on = tools[k].on /\ r.has = tools[k].has /\ r.last = tools[k].last
      BY <1>1, NearIs DEF TabletInv
    <2>3. PICK q : q = [r EXCEPT !.down = ~tools[k].down]
      OBVIOUS
    <2>4. q \in PenType /\ q.tablet = r.tablet /\ q.on = r.on /\ q.has = r.has /\ q.last = r.last
      <3>1. tools[k].down \in BOOLEAN
        BY <1>1 DEF PenType
      <3>2. PICK b : b = ~tools[k].down
        OBVIOUS
      <3>3. b \in BOOLEAN /\ q = [r EXCEPT !.down = b]
        BY <2>3, <3>2
      <3> QED
        BY <2>2, <3>3 DEF PenType
    <2>5. PenHolds(q) /\ q.last = at[k] /\ tools' = [tools EXCEPT ![k] = q]
      BY <1>1, <2>1, <2>2, <2>3, <2>4 DEF PenHolds
    <2>6. TabletInv'
      BY <2>1, <2>4, <2>5, PenStep DEF TabletInv
    <2> QED
      BY <1>2, <2>1, <2>6
  <1>6. ASSUME NEW q \in PenType, PenHolds(q), q.on = Nought, UNCHANGED <<tablets, pads, at, cursor, faces>>,
               tools' = [tools EXCEPT ![k] = q]
        PROVE  TabletInv' /\ ((\A j \in Pen : j = k) => CursorIsAtTool')
    <2>1. TabletInv'
      BY <1>6, PenStep DEF TabletInv
    <2>2. tools'[k].on = Nought
      BY <1>6 DEF TabletInv
    <2> QED
      BY <2>1, <2>2 DEF CursorIsAtTool
  <1>7. CASE ProximityOut(k)
    <2>1. PICK q : q = [tools[k] EXCEPT !.on = Nought, !.near = Nought]
      OBVIOUS
    <2>2. q \in PenType /\ q.on = Nought /\ q.tablet = tools[k].tablet
      BY <1>1, <2>1 DEF PenType
    <2>3. tools' = [tools EXCEPT ![k] = q]
      BY <1>7, <2>1 DEF ProximityOut, TabletInv
    <2> QED
      BY <1>1, <1>6, <1>7, <2>2, <2>3 DEF ProximityOut, PenHolds
  <1>8. CASE destroytrackedtablettool(k)
    <2>1. NoPen \in PenType /\ NoPen.on = Nought /\ NoPen.tablet = Nought
      BY DEF NoPen, PenType, Place
    <2> QED
      BY <1>6, <1>8, <2>1 DEF destroytrackedtablettool, PenHolds
  <1> QED
    BY <1>2, <1>3, <1>4, <1>5, <1>7, <1>8

LEMMA FaceTablets ==
    ASSUME TabletInv, NEW s \in Face, Appear(s) \/ Vanish(s)
    PROVE  TabletInv' /\ (CursorIsAtTool => CursorIsAtTool')
  <1>1. CASE Appear(s)
    BY <1>1 DEF Appear, TabletInv, PadHolds, PenHolds, CursorIsAtTool
  <1>2. CASE Vanish(s)
    <2>1. /\ faces' = faces \ {s} /\ UNCHANGED <<tablets, at, cursor>>
          /\ pads' = [p \in Pad |-> IF pads[p].current_surface = s THEN tabletpad_clear_focus(pads[p]) ELSE pads[p]]
          /\ tools' = [k \in Pen |-> IF tools[k].near = s THEN [tools[k] EXCEPT !.near = Nought] ELSE tools[k]]
      BY <1>2 DEF Vanish
    <2>2. ASSUME NEW p \in Pad
          PROVE  pads'[p] \in PadType /\ PadHolds(pads[p])'
      <3>1. pads[p] \in PadType /\ PadHolds(pads[p])
        BY DEF TabletInv
      <3>2. PICK q : q = tabletpad_clear_focus(pads[p])
        OBVIOUS
      <3>3. q \in PadType /\ q.current_surface = Nought /\ q.attached_tablet = pads[p].attached_tablet
        BY <3>1, <3>2, ClearedIs
      <3>4. pads'[p] = IF pads[p].current_surface = s THEN q ELSE pads[p]
        BY <2>1, <3>2
      <3> QED
        BY <2>1, <3>1, <3>3, <3>4 DEF PadHolds
    <2>3. ASSUME NEW k \in Pen
          PROVE  /\ tools'[k] \in PenType /\ PenHolds(tools[k])'
                 /\ tools'[k].on = tools[k].on /\ tools'[k].last = tools[k].last
      <3>1. tools[k] \in PenType /\ PenHolds(tools[k])
        BY DEF TabletInv
      <3>2. PICK r : r = [tools[k] EXCEPT !.near = Nought]
        OBVIOUS
      <3>3. /\ r \in PenType /\ r.tablet = tools[k].tablet /\ r.on = tools[k].on /\ r.last = tools[k].last
            /\ r.has = tools[k].has
        BY <3>1, <3>2 DEF PenType
      <3>4. tools'[k] \in {r, tools[k]}
        BY <2>1, <3>2
      <3> QED
        BY <2>1, <3>1, <3>3, <3>4 DEF PenHolds
    <2>4. pads' \in [Pad -> PadType] /\ tools' \in [Pen -> PenType]
      BY <2>1, <2>2, <2>3
    <2> QED
      BY <2>1, <2>2, <2>3, <2>4 DEF TabletInv, CursorIsAtTool
  <1> QED
    BY <1>1, <1>2

LEMMA InitTablets == TabletInit => TabletInv /\ CursorIsAtTool
  <1>1. NoPad \in PadType /\ NoPad.attached_tablet = Nought /\ NoPad.current_surface = Nought
    BY DEF NoPad, PadType
  <1>2. NoPen \in PenType /\ NoPen.on = Nought /\ NoPen.tablet = Nought
    BY DEF NoPen, PenType, Place
  <1>3. [a \in Axis |-> 0] \in Place
    BY DEF Place
  <1> QED
    BY <1>1, <1>2, <1>3 DEF TabletInit, TabletInv, CursorIsAtTool, PadHolds, PenHolds

LEMMA NextTablets ==
    ASSUME TabletInv, [TabletNext]_tabletVars
    PROVE  TabletInv' /\ ((\A j, k \in Pen : j = k) /\ CursorIsAtTool => CursorIsAtTool')
  <1>0. [a \in Axis |-> 0] \in Place
    BY DEF Place
  <1>1. ASSUME UNCHANGED <<tools, at, cursor>> PROVE CursorIsAtTool => CursorIsAtTool'
    BY <1>1 DEF CursorIsAtTool
  <1>2. ASSUME NEW p \in Pad,
               \/ createtabletpad(p) \/ destroytrackedtabletpad(p) \/ tabletpadnotify(p)
               \/ \E t \in tablets \cup {Nought} : tabletpadnotifyattach(p, t)
               \/ \E k \in Pen : tabletpadnotifyattach(p, find_tracked_tablet_by_tool(k))
        PROVE  TabletInv' /\ (CursorIsAtTool => CursorIsAtTool')
    BY ZenonT(30), <1>1, <1>2, PadTablets
    DEF createtabletpad, destroytrackedtabletpad, tabletpadnotify, tabletpadnotifyattach
  <1>3. ASSUME NEW t \in Tablet, createtablet(t) PROVE TabletInv' /\ (CursorIsAtTool => CursorIsAtTool')
    BY <1>1, <1>3, CreateTablets DEF createtablet
  <1>4. ASSUME NEW t \in Tablet, destroytrackedtablet(t)
        PROVE  TabletInv' /\ (CursorIsAtTool => CursorIsAtTool')
    <2>1. \A k \in Pen : tools'[k].on = tools[k].on
      BY <1>4 DEF destroytrackedtablet, TabletInv, PenType
    <2>2. at' = at /\ cursor' = cursor
      BY <1>4 DEF destroytrackedtablet
    <2> QED
      BY <1>4, <2>1, <2>2, DestroyTablets DEF CursorIsAtTool
  <1>5. ASSUME UNCHANGED tabletVars PROVE TabletInv' /\ (CursorIsAtTool => CursorIsAtTool')
    BY <1>5 DEF tabletVars, TabletInv, PadHolds, PenHolds, CursorIsAtTool
  <1> QED
    BY <1>0, <1>2, <1>3, <1>4, <1>5, PenTablets, FaceTablets DEF TabletNext

(* Whatever is unplugged or destroyed first, no pad and no tool points at a   *)
(* tablet or a surface that is gone (input.c).                                *)
THEOREM NothingDangles == TabletSpec => []NoneDangles
  <1>1. TabletInv /\ [TabletNext]_tabletVars => TabletInv'
    BY NextTablets
  <1>2. TabletInv => NoneDangles
    BY DEF TabletInv, PadHolds, PenHolds, NoneDangles
  <1> QED
    BY <1>1, <1>2, InitTablets, PTL DEF TabletSpec

(* With one pen, the cursor is where it is, though its axes are told one by   *)
(* one (two would take turns at the one cursor).                              *)
THEOREM CursorFollowsTool == (\A j, k \in Pen : j = k) => (TabletSpec => []CursorIsAtTool)
  <1> SUFFICES ASSUME \A j, k \in Pen : j = k PROVE TabletSpec => []CursorIsAtTool
    OBVIOUS
  <1>1. TabletInv /\ CursorIsAtTool /\ [TabletNext]_tabletVars => TabletInv' /\ CursorIsAtTool'
    BY NextTablets
  <1> QED
    BY <1>1, InitTablets, PTL DEF TabletSpec

-----------------------------------------------------------------------------
(* Settings of input devices.  Going over the rules leaves of each field what *)
(* the last rule says that sets it (Said); so that the rules that are used    *)
(* are those that were asked for, each device has what they say of it, and    *)
(* what a tool is mapped to is a region or an area whatever they say.         *)

\* Of the first i rules those that set a field, and what they make of it.
Setters(list, m, key, none, i) == {j \in 1..i : j \in m /\ list[j][key] # none}
Said(list, m, key, none, i, below) ==
    LET by == Setters(list, m, key, none, i)
    IN IF by = {} THEN below ELSE list[Max(by)][key]
Matching(list, tool, d) == {j \in 1..Len(list) : input_rule_matches(list[j], KindOf[d], tool, d)}
Overlaid(in, list, m, i) ==
    [tap |-> Said(list, m, "tap", NotSet, i, in.tap),
     dwtp |-> Said(list, m, "dwtp", NotSet, i, in.dwtp),
     click |-> Said(list, m, "click", Unset, i, in.click),
     mode |-> Said(list, m, "mode", Unset, i, in.mode),
     to |-> Said(list, m, "to", <<>>, i, in.to),
     from |-> Said(list, m, "from", <<>>, i, in.from),
     region |-> Said(list, m, "region", <<>>, i, in.region)]
Whole(in) == in = [tap |-> in.tap, dwtp |-> in.dwtp, click |-> in.click, mode |-> in.mode,
                   to |-> in.to, from |-> in.from, region |-> in.region]

Legal(r) ==
    /\ r.to \in Seq(Nat)
    /\ r.from \in {<<>>} \cup (0..2) \X (0..2)
    /\ r.region \in {<<>>} \cup Int \X Int

\* What is set applies to a device as it has it.
SetUp(in, list, d, has) ==
    LET says(key, none) == Said(list, Matching(list, "any", d), key, none, Len(list), in[key])
    IN /\ KindOf[d] = "touchpad" /\ says("tap", NotSet) >= 0 => has.tap = says("tap", NotSet)
       /\ says("dwtp", NotSet) >= 0 => has.dwtp = says("dwtp", NotSet)
       /\ says("click", Unset) # Unset => has.click = says("click", Unset)

DeviceInv ==
    /\ Whole(input) /\ input.to = <<>> /\ input.from = <<>> /\ input.region = <<>>
    /\ Len(rules) \in Nat /\ \A j \in 1..Len(rules) : Legal(rules[j])
    /\ asked \in Seq(Rules)
    /\ device = [d \in InputDevice |-> device[d]]
    /\ enabled \subseteq Display /\ enabled # {}
    /\ rules = asked => \A d \in InputDevice : device[d] # Unplugged => SetUp(input, asked, d, device[d])

LEMMA Climbs ==
    ASSUME NEW T, NEW a \in Nat, NEW b \in Nat, a \in T,
           \A n \in a..b : n \in T /\ n < b => n + 1 \in T
    PROVE  \A n \in a..b : n \in T
  <1>1. PICK Un : Un = (a..b) \ T
    OBVIOUS
  <1>2. SUFFICES ASSUME Un # {} PROVE FALSE
    BY <1>1
  <1>3. PICK R : R = OpToRel(<, Nat)
    OBVIOUS
  <1>4. IsWellFoundedOn(R, Nat)
    BY <1>3, NatLessThanWellFounded
  <1>5. \A m, n \in Nat : <<m, n>> \in R <=> m < n
    BY <1>3 DEF OpToRel
  <1>6. Un \subseteq Nat
    BY <1>1
  <1>7. PICK n \in Un : \A m \in Un : ~(<<m, n>> \in R)
    BY <1>2, <1>4, <1>6, WFMin
  <1>8. n \in a..b /\ n \notin T /\ n # a
    BY <1>1, <1>7
  <1>9. n - 1 \in a..b /\ n - 1 < n /\ n - 1 \in Nat /\ n \in Nat /\ n - 1 < b
    BY <1>8
  <1>10. n - 1 \notin Un
    BY <1>7, <1>9, <1>5
  <1>11. n - 1 + 1 \in T
    BY <1>1, <1>9, <1>10
  <1> QED
    BY <1>8, <1>9, <1>11

LEMMA LeastOf ==
    ASSUME NEW T, T \subseteq Nat, T # {}
    PROVE  \E n \in T : \A m \in T : n <= m
  <1>1. PICK R : R = OpToRel(<, Nat)
    BY ZenonT(30)
  <1>2. IsWellFoundedOn(R, Nat)
    BY ZenonT(30), <1>1, NatLessThanWellFounded
  <1>3. \A m, n \in Nat : <<m, n>> \in R <=> m < n
    BY <1>1 DEF OpToRel
  <1>4. PICK n \in T : \A m \in T : ~(<<m, n>> \in R)
    BY <1>2, WFMin
  <1>5. ASSUME NEW m \in T PROVE n <= m
    <2>1. m \in Nat /\ n \in Nat /\ ~(m < n)
      BY <1>3, <1>4
    <2> QED
      BY <2>1
  <1> QED
    BY <1>5

LEMMA LastIs ==
    ASSUME NEW S \in SUBSET Int, NEW n \in S, \A x \in S : x <= n
    PROVE  Max(S) = n
  <1>1. PICK x : x = CHOOSE y \in S : \A z \in S : y >= z
    OBVIOUS
  <1>2. n \in S /\ \A z \in S : n >= z
    OBVIOUS
  <1>3. x \in S /\ \A z \in S : x >= z
    BY <1>1, <1>2
  <1>4. x = n
    BY <1>2, <1>3
  <1> QED
    BY <1>1, <1>4 DEF Max

LEMMA FirstIs ==
    ASSUME NEW S \in SUBSET Int, NEW n \in S, \A x \in S : n <= x
    PROVE  Min(S) = n
  <1>1. PICK x : x = CHOOSE y \in S : \A z \in S : y =< z
    OBVIOUS
  <1>2. n \in S /\ \A z \in S : n =< z
    OBVIOUS
  <1>3. x \in S /\ \A z \in S : x =< z
    BY <1>1, <1>2
  <1>4. x = n
    BY <1>2, <1>3
  <1> QED
    BY <1>1, <1>4 DEF Min

LEMMA SaidNext ==
    ASSUME NEW list, NEW m, NEW key, NEW none, NEW below, NEW i \in Nat, i > 0
    PROVE  Said(list, m, key, none, i, below) =
             IF i \in m /\ list[i][key] # none THEN list[i][key]
             ELSE Said(list, m, key, none, i - 1, below)
  <1>1. PICK by : by = Setters(list, m, key, none, i)
    OBVIOUS
  <1>2. PICK h : h = i - 1
    OBVIOUS
  <1>3. CASE i \in m /\ list[i][key] # none
    <2>1. by \in SUBSET Int /\ i \in by /\ \A x \in by : x <= i
      BY <1>1, <1>3 DEF Setters
    <2>2. Max(by) = i /\ by # {}
      BY <2>1, LastIs
    <2> QED
      BY <1>1, <1>3, <2>2 DEF Said
  <1>4. CASE ~(i \in m /\ list[i][key] # none)
    <2>1. \A j \in 1..i : j = i \/ j \in 1..h
      BY <1>2
    <2>2. \A j \in 1..h : j \in 1..i
      BY <1>2
    <2>3. by = Setters(list, m, key, none, h)
      BY <1>1, <1>4, <2>1, <2>2 DEF Setters
    <2> QED
      BY <1>1, <1>2, <1>4, <2>3 DEF Said
  <1> QED
    BY <1>3, <1>4

LEMMA SaidNone ==
    ASSUME NEW list, NEW m, NEW key, NEW none, NEW below
    PROVE  Said(list, m, key, none, 0, below) = below
  <1>1. Setters(list, m, key, none, 0) = {}
    BY DEF Setters
  <1> QED
    BY <1>1 DEF Said

LEMMA SaidBySome ==
    ASSUME NEW list, NEW m, NEW key, NEW none, NEW below, NEW n \in Nat
    PROVE  \/ Said(list, m, key, none, n, below) = below
           \/ \E j \in 1..n : Said(list, m, key, none, n, below) = list[j][key]
  <1>1. PICK T : T = {i \in 0..n : \/ Said(list, m, key, none, i, below) = below
                                  \/ \E j \in 1..n : Said(list, m, key, none, i, below) = list[j][key]}
    OBVIOUS
  <1>2. 0 \in T
    BY <1>1, SaidNone
  <1>3. ASSUME NEW i \in 0..n, i \in T, i < n PROVE i + 1 \in T
    <2>1. PICK k : k = i + 1
      OBVIOUS
    <2>2. k \in Nat /\ k > 0 /\ k - 1 = i /\ k \in 0..n /\ k \in 1..n
      BY <1>3, <2>1
    <2>3. Said(list, m, key, none, k, below) =
             IF k \in m /\ list[k][key] # none THEN list[k][key]
             ELSE Said(list, m, key, none, k - 1, below)
      BY <2>2, SaidNext
    <2> QED
      BY <1>1, <1>3, <2>1, <2>2, <2>3
  <1>4. \A i \in 0..n : i \in T
    BY <1>2, <1>3, Climbs
  <1> QED
    BY <1>1, <1>4

LEMMA OverlaidNext ==
    ASSUME NEW in, NEW list, NEW m, NEW i \in Nat, i > 0
    PROVE  Overlaid(in, list, m, i) =
             IF i \in m THEN Overlay(Overlaid(in, list, m, i - 1), list[i])
             ELSE Overlaid(in, list, m, i - 1)
  <1>1. \A key, none, below :
          Said(list, m, key, none, i, below) =
             IF i \in m /\ list[i][key] # none THEN list[i][key]
             ELSE Said(list, m, key, none, i - 1, below)
    BY SaidNext
  <1>2. CASE i \in m
    BY <1>1, <1>2 DEF Overlaid, Overlay
  <1>3. CASE i \notin m
    BY <1>1, <1>3 DEF Overlaid
  <1> QED
    BY <1>2, <1>3

\* Going over the rules, each that matches laid over what is there, leaves of every
\* field what the last rule says that sets it.
LEMMA Resolved ==
    ASSUME NEW in, Whole(in), NEW list, Len(list) \in Nat, NEW tool, NEW d
    PROVE  resolve_input_settings(in, list, tool, d) =
             Overlaid(in, list, Matching(list, tool, d), Len(list))
  <1>1. PICK n \in Nat : n = Len(list)
    OBVIOUS
  <1>2. PICK m : m = Matching(list, tool, d)
    OBVIOUS
  <1>3. \A i \in 1..n : i \in m <=> input_rule_matches(list[i], KindOf[d], tool, d)
    BY <1>1, <1>2 DEF Matching
  <1>4. PICK w : w = [i \in 0..n |-> Overlaid(in, list, m, i)]
    OBVIOUS
  <1>5. w[0] = in
    BY <1>4, SaidNone DEF Overlaid, Whole
  <1>6. ASSUME NEW i \in 1..n
        PROVE  w[i] = IF input_rule_matches(list[i], KindOf[d], tool, d) THEN Overlay(w[i - 1], list[i])
                      ELSE w[i - 1]
    <2>1. PICK h : h = i - 1
      OBVIOUS
    <2>2. i \in 0..n /\ h \in 0..n /\ i \in Nat /\ i > 0
      BY <2>1
    <2>3. w[i] = Overlaid(in, list, m, i) /\ w[h] = Overlaid(in, list, m, h)
      BY <1>4, <2>2
    <2>4. Overlaid(in, list, m, i) = IF i \in m THEN Overlay(Overlaid(in, list, m, i - 1), list[i])
                                     ELSE Overlaid(in, list, m, i - 1)
      BY <2>2, OverlaidNext
    <2> QED
      BY <1>3, <2>1, <2>3, <2>4
  <1>7. w = [i \in 0..n |-> IF i = 0 THEN in
                            ELSE IF input_rule_matches(list[i], KindOf[d], tool, d)
                            THEN Overlay(w[i - 1], list[i]) ELSE w[i - 1]]
    <2>1. \A i \in 0..n : w[i] = IF i = 0 THEN in
                                 ELSE IF input_rule_matches(list[i], KindOf[d], tool, d)
                                 THEN Overlay(w[i - 1], list[i]) ELSE w[i - 1]
      <3>1. \A i \in 0..n : i = 0 \/ i \in 1..n
        OBVIOUS
      <3> QED
        BY <1>5, <1>6, <3>1
    <2> QED
      BY <1>4, <2>1
  <1>8. PICK g : g = CHOOSE h : h = [i \in 0..n |->
                            IF i = 0 THEN in
                            ELSE IF input_rule_matches(list[i], KindOf[d], tool, d)
                            THEN Overlay(h[i - 1], list[i]) ELSE h[i - 1]]
    OBVIOUS
  <1>9. g = [i \in 0..n |-> IF i = 0 THEN in
                            ELSE IF input_rule_matches(list[i], KindOf[d], tool, d)
                            THEN Overlay(g[i - 1], list[i]) ELSE g[i - 1]]
    BY <1>7, <1>8
  <1>10. PICK T : T = {i \in 0..n : g[i] = w[i]}
    OBVIOUS
  <1>11. 0 \in T
    BY <1>5, <1>9, <1>10
  <1>12. ASSUME NEW i \in 0..n, i \in T, i < n PROVE i + 1 \in T
    <2>1. PICK k : k = i + 1
      OBVIOUS
    <2>2. k \in 1..n /\ k \in 0..n /\ k # 0 /\ k - 1 = i
      BY <1>12, <2>1
    <2>3. g[k] = IF input_rule_matches(list[k], KindOf[d], tool, d) THEN Overlay(g[k - 1], list[k])
                 ELSE g[k - 1]
      BY <1>9, <2>2
    <2>4. w[k] = IF input_rule_matches(list[k], KindOf[d], tool, d) THEN Overlay(w[k - 1], list[k])
                 ELSE w[k - 1]
      BY <1>6, <2>2
    <2>5. g[i] = w[i]
      BY <1>10, <1>12
    <2> QED
      BY <1>10, <2>1, <2>2, <2>3, <2>4, <2>5
  <1>13. \A i \in 0..n : i \in T
    BY <1>11, <1>12, Climbs
  <1>14. n \in 0..n
    OBVIOUS
  <1>15. g[n] = Overlaid(in, list, m, n)
    BY <1>4, <1>10, <1>13, <1>14
  <1>16. resolve_input_settings(in, list, tool, d) = g[n]
    BY <1>1, <1>8 DEF resolve_input_settings
  <1> QED
    BY <1>1, <1>2, <1>15, <1>16

LEMMA Applied ==
    ASSUME NEW in, Whole(in), NEW list, Len(list) \in Nat, NEW d, NEW has
    PROVE  SetUp(in, list, d, apply_input_settings_to_device(in, list, d, has))
  <1>1. PICK m : m = Matching(list, "any", d)
    OBVIOUS
  <1>2. resolve_input_settings(in, list, "any", d) = Overlaid(in, list, m, Len(list))
    BY <1>1, Resolved
  <1>3. PICK s : s = Overlaid(in, list, m, Len(list))
    OBVIOUS
  <1>4. /\ s.tap = Said(list, m, "tap", NotSet, Len(list), in["tap"])
        /\ s.dwtp = Said(list, m, "dwtp", NotSet, Len(list), in["dwtp"])
        /\ s.click = Said(list, m, "click", Unset, Len(list), in["click"])
    BY <1>3 DEF Overlaid
  <1>5. PICK is : is = apply_input_settings_to_device(in, list, d, has)
    OBVIOUS
  <1>6. /\ KindOf[d] = "touchpad" /\ s.tap >= 0 => is.tap = s.tap
        /\ s.dwtp >= 0 => is.dwtp = s.dwtp
        /\ s.click # Unset => is.click = s.click
    BY <1>2, <1>3, <1>5 DEF apply_input_settings_to_device
  <1> QED
    BY <1>1, <1>4, <1>5, <1>6 DEF SetUp

LEMMA AllApplied ==
    ASSUME NEW in, Whole(in), NEW list, Len(list) \in Nat, NEW has,
           has = apply_input_settings_to_all_devices(in, list)
    PROVE  /\ has = [d \in InputDevice |-> has[d]]
           /\ \A d \in InputDevice : has[d] # Unplugged => SetUp(in, list, d, has[d])
  <1>1. has = [d \in InputDevice |-> IF device[d] = Unplugged THEN Unplugged
                      ELSE apply_input_settings_to_device(in, list, d, device[d])]
    BY DEF apply_input_settings_to_all_devices
  <1>2. ASSUME NEW d \in InputDevice, has[d] # Unplugged PROVE SetUp(in, list, d, has[d])
    <2>1. has[d] = apply_input_settings_to_device(in, list, d, device[d])
      BY <1>1, <1>2
    <2> QED
      BY <2>1, Applied
  <1>3. has = [d \in InputDevice |-> has[d]]
    BY <1>1
  <1> QED
    BY <1>2, <1>3

LEMMA DeviceStarts == DeviceInit => DeviceInv
  <1> SUFFICES ASSUME DeviceInit PROVE DeviceInv
    OBVIOUS
  <1>1. Whole(input) /\ input.to = <<>> /\ input.from = <<>> /\ input.region = <<>>
    BY DEF DeviceInit, Whole
  <1>2. rules = <<>> /\ asked = <<>> /\ Len(rules) = 0 /\ asked \in Seq(Rules)
    BY EmptySeq DEF DeviceInit
  <1>3. /\ device = [d \in InputDevice |-> device[d]]
        /\ \A d \in InputDevice : device[d] = Unplugged
    BY DEF DeviceInit
  <1>4. enabled \subseteq Display /\ enabled # {}
    BY DisplayAssumption DEF DeviceInit
  <1> QED
    BY <1>1, <1>2, <1>3, <1>4 DEF DeviceInv

LEMMA AfterSetting ==
    ASSUME DeviceInv, NEW key \in {"tap", "click"}, NEW value, set_input_setting(key, value)
    PROVE  DeviceInv'
  <1>1. PICK in : in = [input EXCEPT ![key] = value]
    OBVIOUS
  <1>2. /\ input' = in /\ device' = apply_input_settings_to_all_devices(in, rules)
        /\ UNCHANGED <<rules, asked, enabled>>
    BY <1>1 DEF set_input_setting
  <1>3. Whole(input) /\ input.to = <<>> /\ input.from = <<>> /\ input.region = <<>>
    BY DEF DeviceInv
  <1>4. PICK a, b, c, e, f, g, h :
          input = [tap |-> a, dwtp |-> b, click |-> c, mode |-> e, to |-> f, from |-> g, region |-> h]
    BY <1>3 DEF Whole
  <1>5. \/ in = [tap |-> value, dwtp |-> b, click |-> c, mode |-> e, to |-> f, from |-> g, region |-> h]
        \/ in = [tap |-> a, dwtp |-> b, click |-> value, mode |-> e, to |-> f, from |-> g, region |-> h]
    BY <1>1, <1>4
  <1>6. Whole(in) /\ in.to = <<>> /\ in.from = <<>> /\ in.region = <<>>
    BY <1>3, <1>4, <1>5 DEF Whole
  <1>7. Len(rules) \in Nat
    BY DEF DeviceInv
  <1>8. /\ device' = [d \in InputDevice |-> device'[d]]
        /\ \A d \in InputDevice : device'[d] # Unplugged => SetUp(in, rules, d, device'[d])
    <2>1. PICK has : has = apply_input_settings_to_all_devices(in, rules)
      OBVIOUS
    <2>2. /\ has = [d \in InputDevice |-> has[d]]
          /\ \A d \in InputDevice : has[d] # Unplugged => SetUp(in, rules, d, has[d])
      BY <1>6, <1>7, <2>1, AllApplied
    <2> QED
      BY <1>2, <2>1, <2>2
  <1> QED
    BY <1>2, <1>6, <1>8 DEF DeviceInv

LEMMA Fetched ==
    ASSUME NEW list \in Seq(Rules)
    PROVE  \/ /\ SelectInSeq(list, LAMBDA r : r.bad # "no") = 0
              /\ \A j \in 1..Len(list) : ~(list[j].bad # "no")
           \/ /\ SelectInSeq(list, LAMBDA r : r.bad # "no") \in 1..Len(list)
              /\ list[SelectInSeq(list, LAMBDA r : r.bad # "no")].bad # "no"
  <1>1. PICK I : I = {i \in 1..Len(list) : list[i].bad # "no"}
    OBVIOUS
  <1>2. PICK stop : stop = SelectInSeq(list, LAMBDA r : r.bad # "no")
    OBVIOUS
  <1>3. stop = IF I # {} THEN Min(I) ELSE 0
    BY <1>1, <1>2 DEF SelectInSeq
  <1>4. I \subseteq Nat
    BY <1>1, LenProperties
  <1>5. CASE I = {}
    BY <1>1, <1>2, <1>3, <1>5
  <1>6. CASE I # {}
    <2>1. PICK n \in I : \A x \in I : n <= x
      BY <1>4, <1>6, LeastOf
    <2>2. stop = n
      BY <1>3, <1>4, <1>6, <2>1, FirstIs
    <2> QED
      BY <1>1, <1>2, <2>2
  <1> QED
    BY <1>5, <1>6

LEMMA RulesAre ==
    ASSUME NEW list \in Seq(Rules)
    PROVE  /\ Len(list) \in Nat /\ DOMAIN list = 1..Len(list)
           /\ \A j \in 1..Len(list) : list[j] \in Rules /\ Legal(list[j])
  <1>1. Len(list) \in Nat /\ DOMAIN list = 1..Len(list)
    BY LenProperties
  <1>2. \A j \in 1..Len(list) : list[j] \in Rules
    BY ElementOfSeq
  <1> QED
    BY <1>1, <1>2, RulesAssumption DEF Legal

LEMMA Halved ==
    ASSUME NEW r \in Rules
    PROVE  Legal(Half(r)) /\ Half(r).bad = "torn" /\ Legal(Zeros)
  <1>1. /\ DOMAIN r = {"type", "name", "tap", "dwtp", "click", "mode", "to", "from", "region", "bad"}
        /\ Legal(r)
    BY RulesAssumption DEF Legal
  <1>2. PICK h : h = Half(r)
    OBVIOUS
  <1>3. h.bad = "torn" /\ h.region = <<>> /\ h.from \in {<<>>, r.from} /\ h.to \in {<<>>, r.to}
    BY <1>1, <1>2 DEF Half
  <1>4. <<>> \in Seq(Nat)
    BY EmptySeq
  <1>5. Legal(h)
    BY <1>1, <1>3, <1>4 DEF Legal
  <1>6. Legal(Zeros)
    BY <1>4 DEF Legal, Zeros
  <1> QED
    BY <1>2, <1>3, <1>5, <1>6

LEMMA AfterRules ==
    ASSUME DeviceInv, NEW list \in RuleLists, set_input_rules(list)
    PROVE  DeviceInv'
  <1>1. PICK stop : stop = SelectInSeq(list, LAMBDA r : r.bad # "no")
    OBVIOUS
  <1>2. list \in Seq(Rules)
    BY RuleListsAssumption
  <1>3. /\ Len(list) \in Nat /\ DOMAIN list = 1..Len(list)
        /\ \A j \in 1..Len(list) : list[j] \in Rules /\ Legal(list[j])
    BY <1>2, RulesAre
  <1>4. /\ asked' = list /\ UNCHANGED <<input, enabled>>
        /\ stop = 0 => rules' = list /\ device' = apply_input_settings_to_all_devices(input, list)
        /\ stop # 0 => /\ rules' = [i \in DOMAIN list |-> IF i < stop THEN list[i]
                                        ELSE IF i = stop THEN Half(list[i]) ELSE Zeros]
                       /\ UNCHANGED device
    BY <1>1 DEF set_input_rules
  <1>5. Whole(input)
    BY DEF DeviceInv
  <1>6. CASE stop = 0
    <2>1. PICK has : has = apply_input_settings_to_all_devices(input, list)
      OBVIOUS
    <2>2. /\ has = [d \in InputDevice |-> has[d]]
          /\ \A d \in InputDevice : has[d] # Unplugged => SetUp(input, list, d, has[d])
      BY <1>3, <1>5, <2>1, AllApplied
    <2>3. rules' = list /\ device' = has /\ input' = input
      BY <1>4, <1>6, <2>1
    <2> QED
      BY <1>2, <1>3, <1>4, <2>2, <2>3 DEF DeviceInv
  <1>7. CASE stop # 0
    <2>1. stop \in 1..Len(list)
      BY <1>1, <1>2, <1>7, Fetched
    <2>2. PICK n \in Nat : n = Len(list)
      BY <1>3
    <2>3. PICK kept : kept = [i \in 1..n |-> IF i < stop THEN list[i]
                                        ELSE IF i = stop THEN Half(list[i]) ELSE Zeros]
      OBVIOUS
    <2>4. rules' = kept
      BY <1>3, <1>4, <1>7, <2>2, <2>3
    <2>5. \A j \in 1..n : Legal(kept[j])
      BY <1>3, <2>2, <2>3, Halved
    <2>6. Len(kept) = n
      <3>1. PICK X : X = {kept[i] : i \in 1..n}
        OBVIOUS
      <3>2. kept \in [1..n -> X] /\ DOMAIN kept = 1..n
        BY <2>3, <3>1
      <3>3. kept \in Seq(X)
        BY <3>2, SeqDef
      <3>4. Len(kept) \in Nat /\ DOMAIN kept = 1..Len(kept)
        BY <3>3, LenProperties
      <3> QED
        BY <3>2, <3>4
    <2>7. kept[stop].bad = "torn" /\ list[stop].bad # "torn"
      BY <1>3, <2>1, <2>2, <2>3, Halved, RulesAssumption
    <2>8. rules' # asked'
      BY <1>4, <2>4, <2>7
    <2> QED
      BY <1>2, <1>4, <1>7, <2>2, <2>4, <2>5, <2>6, <2>8 DEF DeviceInv
  <1> QED
    BY <1>6, <1>7

LEMMA AfterPlug ==
    ASSUME DeviceInv, NEW d \in InputDevice, PlugIn(d) \/ PullOut(d)
    PROVE  DeviceInv'
  <1>1. UNCHANGED <<input, rules, asked, enabled>>
    BY DEF PlugIn, PullOut
  <1>2. PICK has : /\ device' = [device EXCEPT ![d] = has]
                   /\ has = Unplugged \/ has = apply_input_settings_to_device(input, rules, d, Default)
    BY DEF PlugIn, PullOut
  <1>3. device = [e \in InputDevice |-> device[e]]
    BY DEF DeviceInv
  <1>4. /\ device' = [e \in InputDevice |-> device'[e]] /\ device'[d] = has
        /\ \A e \in InputDevice \ {d} : device'[e] = device[e]
    BY <1>2, <1>3
  <1>5. has # Unplugged => SetUp(input, rules, d, has)
    <2>1. Whole(input) /\ Len(rules) \in Nat
      BY DEF DeviceInv
    <2>2. SetUp(input, rules, d, apply_input_settings_to_device(input, rules, d, Default))
      BY <2>1, Applied
    <2> QED
      BY <1>2, <2>2
  <1> QED
    BY <1>1, <1>4, <1>5 DEF DeviceInv

LEMMA DeviceSteps == DeviceInv /\ [DeviceNext]_deviceVars => DeviceInv'
  <1> SUFFICES ASSUME DeviceInv, [DeviceNext]_deviceVars PROVE DeviceInv'
    OBVIOUS
  <1>1. CASE \E v \in Number \ {NotSet} : set_input_setting("tap", v)
    BY <1>1, AfterSetting
  <1>2. CASE \E v \in {Unset, "areas"} : set_input_setting("click", v)
    BY <1>2, AfterSetting
  <1>3. CASE \E list \in RuleLists : set_input_rules(list)
    BY <1>3, AfterRules
  <1>4. CASE \E d \in InputDevice : PlugIn(d) \/ PullOut(d)
    BY <1>4, AfterPlug
  <1>5. CASE \E some \in (SUBSET Display) \ {{}} : Enable(some)
    <2>1. UNCHANGED <<input, rules, asked, device>> /\ enabled' \subseteq Display /\ enabled' # {}
      BY <1>5 DEF Enable
    <2> QED
      BY <2>1 DEF DeviceInv
  <1>6. CASE UNCHANGED deviceVars
    BY <1>6 DEF deviceVars, DeviceInv
  <1> QED
    BY <1>1, <1>2, <1>3, <1>4, <1>5, <1>6 DEF DeviceNext

LEMMA AreSetUp == DeviceInv => DevicesFollow
  <1> SUFFICES ASSUME DeviceInv, rules = asked, NEW d \in InputDevice, device[d] # Unplugged
               PROVE LET says(key, none) ==
                  LET by == {i \in DOMAIN asked :
                               /\ asked[i].type \in {"any", KindOf[d]} /\ asked[i].name \in {"any", d}
                               /\ asked[i][key] # none}
                  IN IF by = {} THEN input[key] ELSE asked[Max(by)][key]
            IN /\ KindOf[d] = "touchpad" /\ says("tap", NotSet) >= 0 => device[d].tap = says("tap", NotSet)
               /\ says("dwtp", NotSet) >= 0 => device[d].dwtp = says("dwtp", NotSet)
               /\ says("click", Unset) # Unset => device[d].click = says("click", Unset)
    BY DEF DevicesFollow
  <1> DEFINE by(key, none) == {i \in DOMAIN asked :
                               /\ asked[i].type \in {"any", KindOf[d]} /\ asked[i].name \in {"any", d}
                               /\ asked[i][key] # none}
             says(key, none) == IF by(key, none) = {} THEN input[key] ELSE asked[Max(by(key, none))][key]
             said(key, none) == Said(asked, Matching(asked, "any", d), key, none, Len(asked), input[key])
  <1>1. SetUp(input, asked, d, device[d])
    BY DEF DeviceInv
  <1>2. Len(asked) \in Nat /\ DOMAIN asked = 1..Len(asked)
    BY LenProperties DEF DeviceInv
  <1>3. \A key, none : by(key, none) = Setters(asked, Matching(asked, "any", d), key, none, Len(asked))
    BY <1>2 DEF Setters, Matching, input_rule_matches
  <1>4. \A key, none : says(key, none) = said(key, none)
    BY <1>3 DEF Said
  <1>5. /\ KindOf[d] = "touchpad" /\ said("tap", NotSet) >= 0 => device[d].tap = said("tap", NotSet)
        /\ said("dwtp", NotSet) >= 0 => device[d].dwtp = said("dwtp", NotSet)
        /\ said("click", Unset) # Unset => device[d].click = said("click", Unset)
    BY <1>1 DEF SetUp
  <1>6. /\ KindOf[d] = "touchpad" /\ says("tap", NotSet) >= 0 => device[d].tap = says("tap", NotSet)
        /\ says("dwtp", NotSet) >= 0 => device[d].dwtp = says("dwtp", NotSet)
        /\ says("click", Unset) # Unset => device[d].click = says("click", Unset)
    <2> HIDE DEF says, said
    <2> QED
      BY <1>4, <1>5
  <1> QED
    BY <1>6

LEMMA GreatestOf ==
    ASSUME NEW S \in SUBSET Nat, IsFiniteSet(S), S # {}
    PROVE  \E n \in S : \A x \in S : x <= n
  <1>1. PICK n \in Nat : ExistsSurjection(1..n, S)
    BY FS_NatSurjection
  <1>2. PICK f : f \in [1..n -> S] /\ \A x \in S : \E j \in 1..n : f[j] = x
    BY <1>1 DEF ExistsSurjection, Surjection
  <1>3. PICK T : T = {k \in 0..n : \E b \in Nat : \A j \in 1..k : f[j] <= b}
    OBVIOUS
  <1>4. 0 \in T
    BY <1>3
  <1>5. ASSUME NEW k \in 0..n, k \in T, k < n PROVE k + 1 \in T
    <2>1. PICK b \in Nat : \A j \in 1..k : f[j] <= b
      BY <1>3, <1>5
    <2>2. PICK l : l = k + 1
      OBVIOUS
    <2>3. l \in 1..n /\ l \in 0..n /\ \A j \in 1..l : j = l \/ j \in 1..k
      BY <1>5, <2>2
    <2>4. f[l] \in Nat /\ \A j \in 1..n : f[j] \in Nat
      BY <1>2, <2>3
    <2>5. PICK c \in Nat : b <= c /\ f[l] <= c
      <3>1. CASE b <= f[l]
        BY <2>4, <3>1
      <3>2. CASE f[l] <= b
        BY <3>2
      <3> QED
        BY <2>4, <3>1, <3>2
    <2>6. ASSUME NEW j \in 1..l PROVE f[j] <= c
      <3>1. CASE j = l
        BY <2>5, <3>1
      <3>2. CASE j \in 1..k
        <4>1. f[j] \in Nat /\ f[j] <= b
          BY <1>5, <2>1, <2>4, <3>2
        <4> QED
          BY <2>5, <4>1
      <3> QED
        BY <2>3, <3>1, <3>2
    <2> QED
      BY <1>3, <2>2, <2>3, <2>6
  <1>6. \A k \in 0..n : k \in T
    BY <1>4, <1>5, Climbs
  <1>7. PICK b \in Nat : \A j \in 1..n : f[j] <= b
    BY <1>3, <1>6
  <1>8. \A x \in S : x \in Nat /\ x <= b
    <2>1. ASSUME NEW x \in S PROVE x <= b
      <3>1. PICK j \in 1..n : f[j] = x
        BY <1>2
      <3> QED
        BY <1>7, <3>1
    <2> QED
      BY <2>1
  <1>9. PICK U : U = {b - x : x \in S}
    OBVIOUS
  <1>10. U \subseteq Nat /\ U # {}
    <2>1. ASSUME NEW x \in S PROVE b - x \in Nat
      BY <1>8
    <2>2. PICK x : x \in S
      OBVIOUS
    <2>3. b - x \in U
      BY <1>9, <2>2
    <2> QED
      BY <1>9, <2>1, <2>3
  <1>11. PICK u \in U : \A v \in U : u <= v
    BY <1>10, LeastOf
  <1>12. PICK m \in S : u = b - m
    BY <1>9, <1>11
  <1>13. \A x \in S : b - m <= b - x
    BY <1>9, <1>11, <1>12
  <1> QED
    BY <1>8, <1>12, <1>13

LEMMA OfTwo ==
    ASSUME NEW a \in Int, NEW b \in Int
    PROVE  /\ Min({a, b}) = IF a <= b THEN a ELSE b
           /\ Max({a, b}) = IF a <= b THEN b ELSE a
  <1>1. CASE a <= b
    BY <1>1, FirstIs, LastIs
  <1>2. CASE ~(a <= b)
    <2>1. b <= a
      BY <1>2
    <2>2. Min({a, b}) = b /\ Max({a, b}) = a
      BY <2>1, FirstIs, LastIs
    <2> QED
      BY <1>2, <2>2
  <1> QED
    BY <1>1, <1>2

\* Both ends of what a point is told across are reached, and all is between them.
LEMMA Crossed ==
    ASSUME NEW a \in Int, NEW b \in Int
    PROVE  /\ Across(<<a, b>>, 0) = a /\ Across(<<a, b>>, 2) = b
           /\ Across(<<a, b>>, 1) \in Min({a, b})..Max({a, b})
  <1>1. /\ Across(<<a, b>>, 0) = a + (0 * (b - a)) \div 2
        /\ Across(<<a, b>>, 1) = a + (1 * (b - a)) \div 2
        /\ Across(<<a, b>>, 2) = a + (2 * (b - a)) \div 2
    BY DEF Across
  <1>2. PICK w \in Int : w = b - a
    OBVIOUS
  <1>3. (0 * w) \div 2 = 0 /\ (2 * w) \div 2 = w
    OBVIOUS
  <1>4. PICK h \in Int : h = (1 * w) \div 2 /\ (2 * h = w \/ 2 * h + 1 = w)
    OBVIOUS
  <1>5. (a <= b => a <= a + h /\ a + h <= b) /\ (~(a <= b) => b <= a + h /\ a + h <= a)
    BY <1>2, <1>4
  <1>6. a + h \in Min({a, b})..Max({a, b})
    BY <1>5, OfTwo
  <1> QED
    BY <1>1, <1>2, <1>3, <1>4, <1>6

\* Where t is across the part of the tablet that is stretched over the target.
Stretched(s, t) ==
    IF s.from = <<>> \/ s.from[1] = s.from[2] THEN t
    ELSE LET cut == IF s.from[1] < s.from[2] THEN (2 * (t - s.from[1])) \div (s.from[2] - s.from[1])
                    ELSE (2 * (s.from[1] - t)) \div (s.from[1] - s.from[2])
         IN Max({0, Min({2, cut})})

LEMMA StretchedIs ==
    ASSUME NEW s, s.from \in {<<>>} \cup (0..2) \X (0..2)
    PROVE  /\ \A t \in 0..2 : Stretched(s, t) \in 0..2
           /\ \E t \in 0..2 : Stretched(s, t) = 0
           /\ \E t \in 0..2 : Stretched(s, t) = 2
  <1>1. CASE s.from = <<>> \/ s.from[1] = s.from[2]
    BY <1>1 DEF Stretched
  <1>2. CASE s.from # <<>> /\ s.from[1] # s.from[2]
    <2>1. PICK a \in 0..2, b \in 0..2 : s.from[1] = a /\ s.from[2] = b /\ a # b
      BY <1>2
    <2>2. PICK cut : cut = [t \in 0..2 |-> IF a < b THEN (2 * (t - a)) \div (b - a)
                                          ELSE (2 * (a - t)) \div (a - b)]
      OBVIOUS
    <2>3. \A t \in 0..2 : Stretched(s, t) = Max({0, Min({2, cut[t]})})
      BY <1>2, <2>1, <2>2 DEF Stretched
    <2>4. (\A t \in 0..2 : cut[t] \in Int) /\ cut[a] = 0 /\ cut[b] = 2
      <3>1. (a = 0 \/ a = 1 \/ a = 2) /\ (b = 0 \/ b = 1 \/ b = 2)
        OBVIOUS
      <3>2. cut[a] = 0 /\ cut[b] = 2
        BY <2>1, <2>2, <3>1
      <3>3. ASSUME NEW t \in 0..2 PROVE cut[t] \in Int
        <4>1. CASE a < b
          <5>1. PICK p \in Int, q \in Int : p = 2 * (t - a) /\ q = b - a /\ q > 0
            BY <4>1
          <5>2. p \div q \in Int
            BY <5>1
          <5> QED
            BY <2>2, <4>1, <5>1, <5>2
        <4>2. CASE ~(a < b)
          <5>1. PICK p \in Int, q \in Int : p = 2 * (a - t) /\ q = a - b /\ q > 0
            BY <2>1, <4>2
          <5>2. p \div q \in Int
            BY <5>1
          <5> QED
            BY <2>2, <4>2, <5>1, <5>2
        <4> QED
          BY <4>1, <4>2
      <3> QED
        BY <3>2, <3>3
    <2>5. ASSUME NEW t \in 0..2
          PROVE  /\ Stretched(s, t) \in 0..2
                 /\ cut[t] = 0 => Stretched(s, t) = 0
                 /\ cut[t] = 2 => Stretched(s, t) = 2
      <3>1. PICK c \in Int : c = cut[t]
        BY <2>4
      <3>2. PICK m \in Int : m = Min({2, c}) /\ m = IF 2 <= c THEN 2 ELSE c
        BY OfTwo
      <3>3. Max({0, m}) = IF 0 <= m THEN m ELSE 0
        <4>1. \A x, y \in Int : Max({x, y}) = IF x <= y THEN y ELSE x
          BY OfTwo
        <4> QED
          BY <4>1
      <3>4. Stretched(s, t) = IF 0 <= m THEN m ELSE 0
        BY <2>3, <3>1, <3>2, <3>3
      <3> QED
        BY <3>1, <3>2, <3>4
    <2> QED
      BY <2>4, <2>5
  <1> QED
    BY <1>1, <1>2

LEMMA ReachedAre ==
    ASSUME NEW s, s.from \in {<<>>} \cup (0..2) \X (0..2),
           NEW a \in Int, NEW b \in Int, Bounds(s) = <<a, b>>
    PROVE  LET on == Bounds(s)
               reached == {tablet_map_coords(s, t) : t \in 0..2}
               Ends == {Min({on[1], on[2]}), Max({on[1], on[2]})}
           IN reached \subseteq Min(Ends)..Max(Ends) /\ Ends \subseteq reached
  <1>1. PICK reached : reached = {tablet_map_coords(s, t) : t \in 0..2}
    OBVIOUS
  <1>2. \A t \in 0..2 : tablet_map_coords(s, t) = Across(<<a, b>>, Stretched(s, t))
    BY DEF tablet_map_coords, input_map_coords, Stretched
  <1>3. PICK lo \in Int, hi \in Int : /\ lo = Min({a, b}) /\ hi = Max({a, b}) /\ lo <= hi
                                      /\ {lo, hi} = {a, b} /\ lo <= a /\ lo <= b /\ a <= hi /\ b <= hi
    BY OfTwo
  <1>4. /\ Across(<<a, b>>, 0) = a /\ Across(<<a, b>>, 2) = b
        /\ Across(<<a, b>>, 1) \in lo..hi
    BY <1>3, Crossed
  <1>5. \A u \in 0..2 : Across(<<a, b>>, u) \in lo..hi
    <2>1. \A u \in 0..2 : u = 0 \/ u = 1 \/ u = 2
      OBVIOUS
    <2> QED
      BY <1>3, <1>4, <2>1
  <1>6. reached \subseteq lo..hi
    BY <1>1, <1>2, <1>5, StretchedIs
  <1>7. a \in reached /\ b \in reached
    BY <1>1, <1>2, <1>4, StretchedIs
  <1>8. Min({lo, hi}) = lo /\ Max({lo, hi}) = hi
    BY <1>3, OfTwo
  <1>9. Bounds(s)[1] = a /\ Bounds(s)[2] = b
    OBVIOUS
  <1> QED
    BY <1>1, <1>3, <1>6, <1>7, <1>8, <1>9

LEMMA ResolvedLegally ==
    ASSUME DeviceInv, NEW tool, NEW d
    PROVE  Legal(resolve_tablet_settings(tool, d))
  <1>1. PICK n \in Nat : n = Len(rules) /\ \A j \in 1..n : Legal(rules[j])
    BY DEF DeviceInv
  <1>2. Whole(input) /\ input.to = <<>> /\ input.from = <<>> /\ input.region = <<>>
    BY DEF DeviceInv
  <1>3. PICK m : m = Matching(rules, tool, d)
    OBVIOUS
  <1>4. PICK s : s = Overlaid(input, rules, m, n)
    OBVIOUS
  <1>5. resolve_input_settings(input, rules, tool, d) = s
    BY <1>1, <1>2, <1>3, <1>4, Resolved
  <1>6. /\ s.to = Said(rules, m, "to", <<>>, n, <<>>)
        /\ s.from = Said(rules, m, "from", <<>>, n, <<>>)
        /\ s.region = Said(rules, m, "region", <<>>, n, <<>>)
    BY <1>2, <1>4 DEF Overlaid
  <1>7. \A key : \/ Said(rules, m, key, <<>>, n, <<>>) = <<>>
                 \/ \E j \in 1..n : Said(rules, m, key, <<>>, n, <<>>) = rules[j][key]
    BY SaidBySome
  <1>8. <<>> \in Seq(Nat)
    BY EmptySeq
  <1>9. s.to \in Seq(Nat)
    BY <1>1, <1>6, <1>7, <1>8 DEF Legal
  <1>10. s.from \in {<<>>} \cup (0..2) \X (0..2)
    BY <1>1, <1>6, <1>7 DEF Legal
  <1>11. s.region \in {<<>>} \cup Int \X Int
    BY <1>1, <1>6, <1>7 DEF Legal
  <1>12. PICK is : is = resolve_tablet_settings(tool, d)
    OBVIOUS
  <1>13. is = s \/ is = [s EXCEPT !.mode = "relative"]
    BY <1>5, <1>12 DEF resolve_tablet_settings
  <1>14. is.to = s.to /\ is.from = s.from /\ is.region = s.region
    BY <1>4, <1>13 DEF Overlaid
  <1> QED
    BY <1>9, <1>10, <1>11, <1>12, <1>14 DEF Legal

\* A tool is told across the output that the first name leads to, or the only one.
LEMMA TargetIs ==
    ASSUME NEW to \in Seq(Nat), Target(to) # {}, enabled \subseteq Display,
           ~\E i \in DOMAIN to : to[i] \in Display \ enabled
    PROVE  (CHOOSE o \in Target(to) : TRUE) \in enabled
  <1>1. PICK l : l = SelectInSeq(to, LAMBDA c : c = Everywhere \/ c \in Display)
    OBVIOUS
  <1>2. PICK I : I = {i \in 1..Len(to) : to[i] = Everywhere \/ to[i] \in Display}
    OBVIOUS
  <1>3. l = IF I # {} THEN Min(I) ELSE 0
    BY <1>1, <1>2 DEF SelectInSeq
  <1>4. I \subseteq Nat /\ DOMAIN to = 1..Len(to)
    BY <1>2, LenProperties
  <1>5. l # 0 => l \in I
    <2>1. SUFFICES ASSUME l # 0 PROVE l \in I
      OBVIOUS
    <2>2. PICK n \in I : \A x \in I : n <= x
      BY <1>3, <1>4, <2>1, LeastOf
    <2>3. Min(I) = n
      BY <1>4, <2>2, FirstIs
    <2> QED
      BY <1>3, <2>1, <2>3
  <1>6. Target(to) = IF l # 0 /\ to[l] # Everywhere THEN {to[l]} ELSE single_enabled_monitor
    BY <1>1 DEF Target
  <1>7. l # 0 /\ to[l] # Everywhere => to[l] \in enabled
    BY <1>2, <1>4, <1>5
  <1>8. Target(to) \subseteq enabled
    BY <1>6, <1>7 DEF single_enabled_monitor
  <1>9. (CHOOSE o \in Target(to) : TRUE) \in Target(to)
    OBVIOUS
  <1> QED
    BY <1>8, <1>9

LEMMA AreasAre ==
    ASSUME enabled \subseteq Display, enabled # {}
    PROVE  /\ Layout \in Int \X Int
           /\ \A o : Area(o) \in Int \X Int
  <1>1. enabled \in SUBSET Nat /\ IsFiniteSet(enabled)
    BY DisplayAssumption, FS_Subset
  <1>2. PICK a \in enabled : \A x \in enabled : a <= x
    BY <1>1, LeastOf
  <1>3. PICK b \in enabled : \A x \in enabled : x <= b
    BY <1>1, GreatestOf
  <1>4. Min(enabled) = a /\ Max(enabled) = b
    BY <1>1, <1>2, <1>3, FirstIs, LastIs
  <1>5. \A o \in Nat : Width * (o - 1) \in Int /\ Width * o \in Int
    BY WidthAssumption
  <1>6. Layout \in Int \X Int
    BY <1>1, <1>4, <1>5 DEF Layout
  <1>7. ASSUME NEW o PROVE Area(o) \in Int \X Int
    <2>1. CASE o \in enabled
      <3>1. o \in Nat /\ Area(o) = <<Width * (o - 1), Width * o>>
        BY <1>1, <2>1 DEF Area
      <3> QED
        BY <1>5, <3>1
    <2>2. CASE o \notin enabled
      BY <2>2 DEF Area
    <2> QED
      BY <2>1, <2>2
  <1> QED
    BY <1>6, <1>7

LEMMA StayOnTarget == DeviceInv => PointsStayOnTarget
  <1> SUFFICES ASSUME DeviceInv, NEW d \in InputDevice, NEW tool \in Tool, NEW s,
                      s = resolve_tablet_settings(tool, d)
               PROVE  LET on == Bounds(s)
                          reached == {tablet_map_coords(s, t) : t \in 0..2}
                          Ends == {Min({on[1], on[2]}), Max({on[1], on[2]})}
                          lost == \E i \in DOMAIN s.to : s.to[i] \in Display \ enabled
                      IN /\ reached \subseteq Min(Ends)..Max(Ends)
                         /\ Ends \subseteq reached
                         /\ s.region = <<>> /\ ~lost => \E o \in enabled : on = Area(o) \/ on = Layout
    BY DEF PointsStayOnTarget
  <1>1. Legal(s)
    BY ResolvedLegally
  <1>2. s.to \in Seq(Nat) /\ s.from \in {<<>>} \cup (0..2) \X (0..2) /\ s.region \in {<<>>} \cup Int \X Int
    BY <1>1 DEF Legal
  <1>3. enabled \subseteq Display /\ enabled # {}
    BY DEF DeviceInv
  <1>4. Bounds(s) \in Int \X Int
    BY <1>2, <1>3, AreasAre DEF Bounds
  <1>5. PICK a \in Int, b \in Int : Bounds(s) = <<a, b>>
    BY <1>4
  <1>6. LET on == Bounds(s)
            reached == {tablet_map_coords(s, t) : t \in 0..2}
            Ends == {Min({on[1], on[2]}), Max({on[1], on[2]})}
        IN reached \subseteq Min(Ends)..Max(Ends) /\ Ends \subseteq reached
    BY <1>2, <1>5, ReachedAre
  <1>7. ASSUME s.region = <<>>, ~\E i \in DOMAIN s.to : s.to[i] \in Display \ enabled
        PROVE  \E o \in enabled : Bounds(s) = Area(o) \/ Bounds(s) = Layout
    <2>1. CASE Target(s.to) = {}
      <3>1. Bounds(s) = Layout
        BY <1>7, <2>1 DEF Bounds
      <3> QED
        BY <1>3, <3>1
    <2>2. CASE Target(s.to) # {}
      <3>1. PICK o : o = CHOOSE p \in Target(s.to) : TRUE
        OBVIOUS
      <3>2. Bounds(s) = Area(o)
        BY <1>7, <2>2, <3>1 DEF Bounds
      <3>3. o \in enabled
        BY <1>2, <1>3, <1>7, <2>2, <3>1, TargetIs
      <3> QED
        BY <3>2, <3>3
    <2> QED
      BY <2>1, <2>2
  <1> QED
    BY <1>6, <1>7

(* Whatever is set and plugged in whatever order, each device has what the    *)
(* last rule that matches it sets, and a tool reaches both ends of what it is *)
(* mapped to and nothing else, for any devices, rules and outputs             *)
(* (apply_input_settings_to_all_devices, tablet_map_coords in input.c).       *)
THEOREM DevicesAreSet == DeviceSpec => [](DevicesFollow /\ PointsStayOnTarget)
  BY DeviceStarts, DeviceSteps, AreSetUp, StayOnTarget, PTL DEF DeviceSpec
=============================================================================
