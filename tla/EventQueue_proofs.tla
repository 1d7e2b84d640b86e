-------------------------- MODULE EventQueue_proofs --------------------------
(***************************************************************************)
(* Proofs about the deferred event queue, for any number of objects,       *)
(* posts and reloads.  They assume that no handler injects pointer motion  *)
(* while the drain runs: with that, TLC finds both properties violated.    *)
(*                                                                         *)
(* The inductive invariant says where the drain stands in the buffer       *)
(* (Shape), that no two events of the buffer were made or last written by  *)
(* the same post (Ids), which events own the registry keys in use (Live),  *)
(* and which posts the snapshot covers (Snapshot).                         *)
(*                                                                         *)
(* After the queue come two parts that MC_Services plays by themselves,    *)
(* the tags of clients and the states of a window: the three share no      *)
(* variable.                                                               *)
(***************************************************************************)
EXTENDS EventQueue, Tags, WindowStates, SequencesExt,
        SequenceTheorems, FiniteSetTheorems, WellFoundedInduction,
        TLAPS

Working == pc \in {"handlers", "dropped"}

Shape ==
    /\ pc = "idle" => pos = 0 /\ count = 0
    /\ pc # "idle" => pos \in 1..count /\ count <= Len(buf) /\ ~swapping
    /\ Working => cur = {buf[pos]}
    /\ ~Working => cur = {}

Ids ==
    /\ \A i \in DOMAIN buf :
          /\ buf[i].first <= Len(posted) /\ buf[i].last <= Len(posted)
          /\ buf[i].move => buf[i].args
    /\ \A i, j \in DOMAIN buf :
          i # j => buf[i].first # buf[j].first /\ buf[i].last # buf[j].last

FirstLive == IF pc = "idle" THEN 1 ELSE pos

LiveKey(k) == \E i \in DOMAIN buf : i >= FirstLive /\ k \in Refs(buf[i])

Live == \A k \in Key : k \in live <=> LiveKey(k)

Snapshot == pc # "idle" => \A i \in 1..count : buf[i].last <= mark

Fresh == ~swapping => \A i \in DOMAIN buf : buf[i].gen = gen

IInv == TypeOK /\ Shape /\ Ids /\ Live /\ Snapshot /\ Fresh

(* The buffer after a push, a fold and the end of a drain, by position.    *)
LEMMA AppendAt ==
    ASSUME NEW S, NEW s \in Seq(S), NEW e \in S
    PROVE  /\ Append(s, e) \in Seq(S)
           /\ Len(Append(s, e)) = Len(s) + 1
           /\ DOMAIN Append(s, e) = DOMAIN s \cup {Len(s) + 1}
           /\ \A i \in DOMAIN s : i # Len(s) + 1 /\ Append(s, e)[i] = s[i]
           /\ Append(s, e)[Len(s) + 1] = e
  OBVIOUS

LEMMA SuffixAt ==
    ASSUME NEW S, NEW s \in Seq(S), NEW n \in Nat, n <= Len(s)
    PROVE  /\ SubSeq(s, n + 1, Len(s)) \in Seq(S)
           /\ Len(SubSeq(s, n + 1, Len(s))) = Len(s) - n
           /\ \A i \in 1..(Len(s) - n) : SubSeq(s, n + 1, Len(s))[i] = s[i + n]
  OBVIOUS

LEMMA ExceptAt ==
    ASSUME NEW S, NEW s \in Seq(S), NEW i \in DOMAIN s, NEW e \in S
    PROVE  /\ [s EXCEPT ![i] = e] \in Seq(S)
           /\ Len([s EXCEPT ![i] = e]) = Len(s)
           /\ DOMAIN [s EXCEPT ![i] = e] = DOMAIN s
           /\ [s EXCEPT ![i] = e][i] = e
           /\ \A j \in DOMAIN s : j # i => [s EXCEPT ![i] = e][j] = s[j]
  OBVIOUS

LEMMA FoldAt ==
    ASSUME NEW i \in DOMAIN buf, TypeOK, NEW n \in Nat
    PROVE  LET b == [buf EXCEPT ![i].last = n]
           IN  /\ b \in Seq(Event)
               /\ Len(b) = Len(buf)
               /\ DOMAIN b = DOMAIN buf
               /\ b[i] = [buf[i] EXCEPT !.last = n]
               /\ \A j \in DOMAIN buf : j # i => b[j] = buf[j]
  <1> DEFINE e == [buf[i] EXCEPT !.last = n]
  <1>1. buf \in Seq(Event) /\ buf[i] \in Event
    BY DEF TypeOK
  <1>2. e \in Event
    BY <1>1 DEF Event
  <1>3. [buf EXCEPT ![i].last = n] = [buf EXCEPT ![i] = e]
    OBVIOUS
  <1> QED
    BY <1>1, <1>2, <1>3, ExceptAt

-----------------------------------------------------------------------------
(* Each action preserves the inductive invariant.                          *)

LEMMA NewEventFacts ==
    ASSUME TypeOK, NEW move \in BOOLEAN, NEW o \in Object \cup {NoObj}, NEW args \in BOOLEAN
    PROVE  /\ NewEvent(move, o, args) \in Event
           /\ NewEvent(move, o, args).move = move
           /\ NewEvent(move, o, args).obj = o
           /\ NewEvent(move, o, args).args = args
           /\ NewEvent(move, o, args).first = Len(posted) + 1
           /\ NewEvent(move, o, args).last = Len(posted) + 1
           /\ NewEvent(move, o, args).gen = gen
  BY DEF NewEvent, TypeOK, Event

LEMMA InitIInv == Init => IInv
  <1> SUFFICES ASSUME Init PROVE IInv
    OBVIOUS
  <1> USE DEF Init
  <1>1. TypeOK
    <2>1. buf \in Seq(Event) /\ log \in Seq(Nat)
      OBVIOUS
    <2>2. posted \in Seq([move : BOOLEAN, obj : Object \cup {NoObj}])
      OBVIOUS
    <2> QED
      BY <2>1, <2>2 DEF TypeOK
  <1>2. Shape /\ Ids /\ Snapshot /\ Fresh
    BY DEF Shape, Working, Ids, Snapshot, Fresh
  <1>3. Live
    BY DEF Live, LiveKey
  <1> QED
    BY <1>1, <1>2, <1>3 DEF IInv

\* Pushing an event that carries the number of a new post, as Queue does and
\* as Move does when it finds nothing to fold into.
LEMMA PushIInv ==
    ASSUME IInv, MayPost,
           NEW move \in BOOLEAN, NEW o \in Object \cup {NoObj}, NEW args \in BOOLEAN,
           move => args,
           PushEvent(NewEvent(move, o, args)),
           posted' = Append(posted, [move |-> move, obj |-> o]),
           UNCHANGED <<pc, pos, count, cur, valid, gen, swapping, done, log, mark>>
    PROVE  IInv'
  <1> DEFINE e == NewEvent(move, o, args)
  <1>0. TypeOK /\ Shape /\ Ids /\ Live /\ Snapshot /\ Fresh
    BY DEF IInv
  <1>1. /\ e \in Event
        /\ e.move = move /\ e.args = args /\ e.gen = gen
        /\ e.first = Len(posted) + 1 /\ e.last = Len(posted) + 1
    BY <1>0, NewEventFacts
  <1>2. buf' = Append(buf, e) /\ live' = live \cup Refs(e)
    BY DEF PushEvent
  <1> HIDE DEF e
  <1>3. buf \in Seq(Event) /\ Len(buf) \in Nat /\ DOMAIN buf = 1..Len(buf)
    BY <1>0 DEF TypeOK
  <1>4. /\ buf' \in Seq(Event)
        /\ Len(buf') = Len(buf) + 1
        /\ DOMAIN buf' = DOMAIN buf \cup {Len(buf) + 1}
        /\ \A i \in DOMAIN buf : i # Len(buf) + 1 /\ buf'[i] = buf[i]
        /\ buf'[Len(buf) + 1] = e
    BY <1>1, <1>2, <1>3, AppendAt
  <1>5. Len(posted') = Len(posted) + 1 /\ Len(posted) \in Nat
        /\ posted' \in Seq([move : BOOLEAN, obj : Object \cup {NoObj}])
    BY <1>0 DEF TypeOK
  <1>6. Refs(e) \subseteq Key
    BY <1>1 DEF Refs, ObjectRef, ArgsRef, Key, Event
  <1>7. TypeOK'
    BY <1>0, <1>2, <1>4, <1>5, <1>6 DEF TypeOK
  <1>8. Shape'
    <2>1. ASSUME pc # "idle" PROVE buf'[pos] = buf[pos] /\ count <= Len(buf')
      <3>1. pos \in 1..count /\ count <= Len(buf) /\ count \in Nat
        BY <1>0, <2>1 DEF Shape, TypeOK
      <3>2. pos \in DOMAIN buf
        BY <1>3, <3>1
      <3>3. Len(buf') = Len(buf) + 1 /\ \A i \in DOMAIN buf : buf'[i] = buf[i]
        BY <1>4
      <3> QED
        BY <1>3, <3>1, <3>2, <3>3
    <2>2. Working' = Working
      BY DEF Working
    <2> QED
      BY <1>0, <2>1, <2>2 DEF Shape, Working
  <1>9. Ids'
    <2>1. \A i \in DOMAIN buf' :
              /\ buf'[i].first <= Len(posted') /\ buf'[i].last <= Len(posted')
              /\ buf'[i].move => buf'[i].args
      <3> SUFFICES ASSUME NEW i \in DOMAIN buf'
                   PROVE  /\ buf'[i].first <= Len(posted') /\ buf'[i].last <= Len(posted')
                          /\ buf'[i].move => buf'[i].args
        OBVIOUS
      <3>1. CASE i \in DOMAIN buf
        <4>0. buf'[i] = buf[i] /\ buf[i] \in Event
          BY <3>1, <1>3, <1>4
        <4>1. buf'[i] = buf[i] /\ buf[i].first \in Nat /\ buf[i].last \in Nat
          BY <4>0 DEF Event
        <4> QED
          BY <3>1, <4>1, <1>0, <1>5 DEF Ids
      <3>2. CASE i = Len(buf) + 1
        BY <3>2, <1>1, <1>4, <1>5
      <3> QED
        BY <3>1, <3>2, <1>4
    <2>2. \A i, j \in DOMAIN buf' :
              i # j => buf'[i].first # buf'[j].first /\ buf'[i].last # buf'[j].last
      <3> SUFFICES ASSUME NEW i \in DOMAIN buf', NEW j \in DOMAIN buf', i # j
                   PROVE  buf'[i].first # buf'[j].first /\ buf'[i].last # buf'[j].last
        OBVIOUS
      <3>1. CASE i \in DOMAIN buf /\ j \in DOMAIN buf
        BY <3>1, <1>0, <1>4 DEF Ids
      <3>2. CASE i \in DOMAIN buf /\ j = Len(buf) + 1
        <4>1. buf'[i] = buf[i] /\ buf'[j] = e
          BY <3>2, <1>4
        <4> QED
          BY <3>2, <4>1, <1>0, <1>1, <1>5 DEF Ids
      <3>3. CASE i = Len(buf) + 1 /\ j \in DOMAIN buf
        <4>1. buf'[i] = e /\ buf'[j] = buf[j]
          BY <3>3, <1>4
        <4> QED
          BY <3>3, <4>1, <1>0, <1>1, <1>5 DEF Ids
      <3> QED
        BY <3>1, <3>2, <3>3, <1>4
    <2> QED
      BY <2>1, <2>2 DEF Ids
  <1>10. Live'
    <2>1. FirstLive' = FirstLive /\ FirstLive \in Nat /\ FirstLive <= Len(buf) + 1
      BY <1>0, <1>3 DEF FirstLive, Shape, TypeOK
    <2>2. \A k : LiveKey(k)' <=> LiveKey(k) \/ k \in Refs(e)
      <3> SUFFICES ASSUME NEW k PROVE LiveKey(k)' <=> LiveKey(k) \/ k \in Refs(e)
        OBVIOUS
      <3>1. ASSUME LiveKey(k) PROVE LiveKey(k)'
        <4>1. PICK i \in DOMAIN buf : i >= FirstLive /\ k \in Refs(buf[i])
          BY <3>1 DEF LiveKey
        <4> QED
          BY <4>1, <2>1, <1>4 DEF LiveKey
      <3>2. ASSUME k \in Refs(e) PROVE LiveKey(k)'
        <4>1. Len(buf) + 1 \in DOMAIN buf' /\ Len(buf) + 1 >= FirstLive'
          BY <2>1, <1>3, <1>4
        <4> QED
          BY <4>1, <3>2, <1>4 DEF LiveKey
      <3>3. ASSUME LiveKey(k)', k \notin Refs(e) PROVE LiveKey(k)
        <4>1. PICK i \in DOMAIN buf' : i >= FirstLive' /\ k \in Refs(buf'[i])
          BY <3>3 DEF LiveKey
        <4>2. i \in DOMAIN buf /\ buf'[i] = buf[i]
          BY <4>1, <3>3, <1>4
        <4> QED
          BY <4>1, <4>2, <2>1 DEF LiveKey
      <3> QED
        BY <3>1, <3>2, <3>3
    <2> QED
      BY <1>0, <2>2, <1>2 DEF Live
  <1>11. Snapshot'
    <2>1. pc # "idle" => \A i \in 1..count : i \in DOMAIN buf /\ buf'[i] = buf[i]
      BY <1>0, <1>3, <1>4 DEF Shape, TypeOK
    <2> QED
      BY <1>0, <2>1 DEF Snapshot
  <1>12. Fresh'
    BY <1>0, <1>1, <1>4 DEF Fresh
  <1> QED
    BY <1>7, <1>8, <1>9, <1>10, <1>11, <1>12 DEF IInv

\* Two events of the buffer never share a registry key.
LEMMA RefsDisjoint ==
    ASSUME TypeOK, Ids, NEW i \in DOMAIN buf, NEW j \in DOMAIN buf, i # j
    PROVE  Refs(buf[i]) \cap Refs(buf[j]) = {}
  <1>1. buf[i].first # buf[j].first /\ buf[i].last # buf[j].last
    BY DEF Ids
  <1> QED
    BY <1>1 DEF Refs, ObjectRef, ArgsRef

LEMMA RewrittenEvent ==
    ASSUME NEW e \in Event, NEW n \in Nat
    PROVE  /\ [e EXCEPT !.last = n].first = e.first
           /\ [e EXCEPT !.last = n].last = n
           /\ [e EXCEPT !.last = n].obj = e.obj
           /\ [e EXCEPT !.last = n].gen = e.gen
           /\ [e EXCEPT !.last = n].move = e.move
           /\ [e EXCEPT !.last = n].args = e.args
  BY DEF Event

\* Folding a move into the event at position i while no drain runs.
LEMMA FoldIInv ==
    ASSUME IInv, pc = "idle", NEW i \in DOMAIN buf, buf[i].move, Fold(i), NEW o \in Object,
           posted' = Append(posted, [move |-> TRUE, obj |-> o]),
           UNCHANGED <<pc, pos, count, cur, valid, gen, swapping, log, mark>>
    PROVE  IInv'
  <1> DEFINE n == Len(posted) + 1
  <1>0. TypeOK /\ Shape /\ Ids /\ Live /\ Snapshot /\ Fresh
    BY DEF IInv
  <1>1. /\ n \in Nat /\ Len(posted') = n /\ Len(posted) \in Nat
        /\ posted' \in Seq([move : BOOLEAN, obj : Object \cup {NoObj}])
    BY <1>0 DEF TypeOK
  <1>2. /\ buf' = [buf EXCEPT ![i].last = n]
        /\ live' = (live \ {<<"args", buf[i].last>>}) \cup {<<"args", n>>}
        /\ done' = done \cup {buf[i].last}
    BY DEF Fold
  <1> HIDE DEF n
  <1>3. /\ buf \in Seq(Event) /\ Len(buf) \in Nat /\ DOMAIN buf = 1..Len(buf)
        /\ \A j \in DOMAIN buf : buf[j] \in Event
    BY <1>0 DEF TypeOK
  <1>4. /\ buf' \in Seq(Event)
        /\ Len(buf') = Len(buf)
        /\ DOMAIN buf' = DOMAIN buf
        /\ buf'[i] = [buf[i] EXCEPT !.last = n]
        /\ \A j \in DOMAIN buf : j # i => buf'[j] = buf[j]
    BY <1>0, <1>1, <1>2, FoldAt
  <1>5. /\ buf'[i].first = buf[i].first /\ buf'[i].last = n
        /\ buf'[i].obj = buf[i].obj /\ buf'[i].gen = buf[i].gen
        /\ buf'[i].move = buf[i].move /\ buf'[i].args = buf[i].args
        /\ buf[i].args
    <2>1. buf[i].args
      BY <1>0 DEF Ids
    <2>2. buf[i] \in Event
      BY <1>3
    <2> DEFINE e == buf[i]
    <2>3. e \in Event /\ buf'[i] = [e EXCEPT !.last = n]
      BY <2>2, <1>4
    <2> HIDE DEF e
    <2>4. /\ buf'[i].first = e.first /\ buf'[i].last = n
          /\ buf'[i].obj = e.obj /\ buf'[i].gen = e.gen
          /\ buf'[i].move = e.move /\ buf'[i].args = e.args
      BY <2>3, <1>1, RewrittenEvent
    <2> QED
      BY <2>1, <2>4 DEF e
  <1>6. \A j \in DOMAIN buf : buf[j].first \in Nat /\ buf[j].last \in Nat
    BY <1>3 DEF Event
  <1>7. TypeOK'
    BY <1>0, <1>1, <1>2, <1>4, <1>6 DEF TypeOK, Key
  <1>8. Shape'
    BY <1>0 DEF Shape, Working
  <1>9. Ids'
    <2>1. \A j \in DOMAIN buf' :
              /\ buf'[j].first <= Len(posted') /\ buf'[j].last <= Len(posted')
              /\ buf'[j].move => buf'[j].args
      <3> SUFFICES ASSUME NEW j \in DOMAIN buf'
                   PROVE  /\ buf'[j].first <= Len(posted') /\ buf'[j].last <= Len(posted')
                          /\ buf'[j].move => buf'[j].args
        OBVIOUS
      <3>0. Len(posted) <= n
        BY <1>1 DEF n
      <3>1. CASE j = i
        BY <3>0, <3>1, <1>0, <1>1, <1>4, <1>5, <1>6 DEF Ids
      <3>2. CASE j # i
        BY <3>0, <3>2, <1>0, <1>1, <1>4, <1>6 DEF Ids
      <3> QED
        BY <3>1, <3>2
    <2>2. \A j, k \in DOMAIN buf' :
              j # k => buf'[j].first # buf'[k].first /\ buf'[j].last # buf'[k].last
      <3> SUFFICES ASSUME NEW j \in DOMAIN buf', NEW k \in DOMAIN buf', j # k
                   PROVE  buf'[j].first # buf'[k].first /\ buf'[j].last # buf'[k].last
        OBVIOUS
      <3>0. \A h \in DOMAIN buf : buf[h].last # n
        BY <1>0, <1>1, <1>6 DEF Ids, n
      <3>1. CASE j # i /\ k # i
        BY <3>1, <1>0, <1>4 DEF Ids
      <3>2. CASE j = i
        BY <3>0, <3>2, <1>0, <1>4, <1>5 DEF Ids
      <3>3. CASE k = i
        BY <3>0, <3>3, <1>0, <1>4, <1>5 DEF Ids
      <3> QED
        BY <3>1, <3>2, <3>3
    <2> QED
      BY <2>1, <2>2 DEF Ids
  <1>10. Live'
    <2>0. FirstLive = 1 /\ FirstLive' = 1
      BY DEF FirstLive
    <2>1. Refs(buf[i]) = ObjectRef(buf[i]) \cup {<<"args", buf[i].last>>}
      BY <1>5 DEF Refs, ArgsRef
    <2>2. Refs(buf'[i]) = ObjectRef(buf[i]) \cup {<<"args", n>>}
      BY <1>5 DEF Refs, ArgsRef, ObjectRef
    <2>3. <<"args", buf[i].last>> \notin ObjectRef(buf[i])
      BY DEF ObjectRef
    <2>4. Refs(buf'[i]) = (Refs(buf[i]) \ {<<"args", buf[i].last>>}) \cup {<<"args", n>>}
      BY <2>1, <2>2, <2>3
    <2>5. \A j \in DOMAIN buf : j # i => /\ Refs(buf'[j]) = Refs(buf[j])
                                        /\ <<"args", buf[i].last>> \notin Refs(buf[j])
      BY <1>0, <1>4, <2>1, RefsDisjoint
    <2>6. \A j \in DOMAIN buf : j >= 1
      BY <1>3
    <2>7. ASSUME NEW k \in Key PROVE k \in live' <=> LiveKey(k)'
      <3>1. k \in live <=> \E j \in DOMAIN buf : k \in Refs(buf[j])
        BY <1>0, <2>0, <2>6 DEF Live, LiveKey
      <3>2. LiveKey(k)' <=> \E j \in DOMAIN buf : k \in Refs(buf'[j])
        BY <1>4, <2>0, <2>6 DEF LiveKey
      <3>3. CASE k = <<"args", n>>
        BY <3>2, <3>3, <2>4, <1>2
      <3>4. CASE k # <<"args", n>>
        BY <3>1, <3>2, <3>4, <2>4, <2>5, <1>2
      <3> QED
        BY <3>3, <3>4
    <2> QED
      BY <2>7 DEF Live
  <1>11. Snapshot'
    BY DEF Snapshot
  <1>12. Fresh'
    <2>1. \A j \in DOMAIN buf' : buf'[j].gen = buf[j].gen
      BY <1>4, <1>5
    <2> QED
      BY <2>1, <1>0, <1>4 DEF Fresh
  <1> QED
    BY <1>7, <1>8, <1>9, <1>10, <1>11, <1>12 DEF IInv

LEMMA QueueIInv ==
    ASSUME IInv, NEW o \in Object \cup {NoObj}, NEW args \in BOOLEAN, Queue(o, args)
    PROVE  IInv'
  <1>1. /\ MayPost /\ PushEvent(NewEvent(FALSE, o, args))
        /\ posted' = Append(posted, [move |-> FALSE, obj |-> o])
        /\ UNCHANGED <<pc, pos, count, cur, valid, gen, swapping, done, log, mark>>
    BY DEF Queue
  <1> QED
    BY <1>1, PushIInv

LEMMA MoveIInv ==
    ASSUME IInv, ~HandlerMoves, NEW o \in Object, Move(o)
    PROVE  IInv'
  <1>1. /\ MayPost /\ pc = "idle"
        /\ posted' = Append(posted, [move |-> TRUE, obj |-> o])
        /\ UNCHANGED <<pc, pos, count, cur, valid, gen, swapping, log, mark>>
    BY DEF Move, MayPost, InHandler
  <1>2. PICK stale \in SUBSET Dispatched :
          \/ PushEvent(NewEvent(TRUE, o, TRUE)) /\ done' = done
          \/ \E i \in DOMAIN buf : IsLast(i, Matches(o, stale)) /\ Fold(i)
    BY DEF Move
  <1>3. CASE PushEvent(NewEvent(TRUE, o, TRUE)) /\ done' = done
    BY <1>1, <1>3, PushIInv
  <1>4. CASE \E i \in DOMAIN buf : IsLast(i, Matches(o, stale)) /\ Fold(i)
    <2>1. PICK i \in DOMAIN buf : IsLast(i, Matches(o, stale)) /\ Fold(i)
      BY <1>4
    <2>2. buf \in Seq(Event)
      BY DEF IInv, TypeOK
    <2>3. buf[i].move
      BY <2>1, <2>2 DEF IsLast, Matches
    <2> QED
      BY <1>1, <2>1, <2>3, FoldIInv
  <1> QED
    BY <1>2, <1>3, <1>4

LEMMA InvalidateIInv ==
    ASSUME IInv, NEW o \in Object, Invalidate(o)
    PROVE  IInv'
  <1>1. valid' \subseteq valid /\ UNCHANGED <<queueVars, live, gen, swapping, history>>
    BY DEF Invalidate
  <1>2. TypeOK'
    BY <1>1 DEF IInv, TypeOK, queueVars, history
  <1>3. Shape' /\ Ids' /\ Snapshot' /\ Fresh'
    BY <1>1 DEF IInv, Shape, Working, Ids, Snapshot, Fresh, queueVars, history
  <1>4. Live'
    BY <1>1 DEF IInv, Live, LiveKey, FirstLive, queueVars
  <1> QED
    BY <1>2, <1>3, <1>4 DEF IInv

LEMMA BeginDrainIInv ==
    ASSUME IInv, BeginDrain
    PROVE  IInv'
  <1>0. TypeOK /\ Shape /\ Ids /\ Live /\ Snapshot /\ Fresh
    BY DEF IInv
  <1>1. /\ pc = "idle" /\ ~swapping /\ buf # <<>>
        /\ pc' = "next" /\ pos' = 1 /\ count' = Len(buf) /\ mark' = Len(posted)
        /\ UNCHANGED <<buf, cur, live, valid, gen, swapping, posted, done, log>>
    BY DEF BeginDrain, luaVars
  <1>2. Len(buf) \in Nat /\ Len(buf) # 0 /\ Len(posted) \in Nat /\ DOMAIN buf = 1..Len(buf)
    BY <1>0, <1>1 DEF TypeOK
  <1>3. TypeOK'
    BY <1>0, <1>1, <1>2 DEF TypeOK
  <1>4. Shape'
    BY <1>0, <1>1, <1>2 DEF Shape, Working
  <1>5. Ids' /\ Fresh'
    BY <1>0, <1>1 DEF Ids, Fresh
  <1>6. Live'
    BY <1>0, <1>1 DEF Live, LiveKey, FirstLive
  <1>7. Snapshot'
    BY <1>0, <1>1, <1>2 DEF Snapshot, Ids
  <1> QED
    BY <1>3, <1>4, <1>5, <1>6, <1>7 DEF IInv

LEMMA DispatchIInv ==
    ASSUME IInv, Dispatch
    PROVE  IInv'
  <1>0. TypeOK /\ Shape /\ Ids /\ Live /\ Snapshot /\ Fresh
    BY DEF IInv
  <1>1. /\ pc = "next" /\ cur' = {buf[pos]} /\ done' = done \cup {buf[pos].last}
        /\ pc' \in {"handlers", "dropped"} /\ log' \in {log, Append(log, buf[pos].last)}
        /\ UNCHANGED <<buf, pos, count, live, valid, gen, swapping, posted, mark>>
    BY DEF Dispatch, luaVars
  <1>2. buf[pos] \in Event
    BY <1>0, <1>1 DEF TypeOK, Shape
  <1>3. buf[pos].last \in Nat
    BY <1>2 DEF Event
  <1>4. TypeOK'
    <2>1. log' \in Seq(Nat)
      <3>1. log \in Seq(Nat)
        BY <1>0 DEF TypeOK
      <3> QED
        BY <1>1, <1>3, <3>1, AppendAt
    <2> QED
      BY <1>0, <1>1, <1>2, <1>3, <2>1 DEF TypeOK
  <1>5. Shape'
    BY <1>0, <1>1 DEF Shape, Working
  <1>6. Ids' /\ Fresh' /\ Snapshot'
    BY <1>0, <1>1 DEF Ids, Fresh, Snapshot
  <1>7. Live'
    BY <1>0, <1>1 DEF Live, LiveKey, FirstLive
  <1> QED
    BY <1>4, <1>5, <1>6, <1>7 DEF IInv

\* Releasing the references of the event at pos leaves those of the others.
LEMMA CleanupIInv ==
    ASSUME IInv, Cleanup
    PROVE  IInv'
  <1>0. TypeOK /\ Shape /\ Ids /\ Live /\ Snapshot /\ Fresh
    BY DEF IInv
  <1>1. /\ Working /\ cur' = {}
        /\ live' = live \ UNION {Refs(e) : e \in cur}
        /\ UNCHANGED <<valid, gen, swapping, posted, done, log, mark>>
    BY DEF Cleanup, Working, history
  <1>2. /\ cur = {buf[pos]} /\ pos \in 1..count /\ count <= Len(buf) /\ ~swapping
        /\ pos \in Nat /\ count \in Nat /\ Len(buf) \in Nat /\ DOMAIN buf = 1..Len(buf)
        /\ pos \in DOMAIN buf /\ buf \in Seq(Event)
    BY <1>0, <1>1 DEF Shape, Working, TypeOK
  <1>3. live' = live \ Refs(buf[pos])
    BY <1>1, <1>2
  <1>4. \A k \in Key : k \in live' <=>
            \E i \in DOMAIN buf : i > pos /\ k \in Refs(buf[i])
    <2> SUFFICES ASSUME NEW k \in Key
                 PROVE  k \in live' <=> \E i \in DOMAIN buf : i > pos /\ k \in Refs(buf[i])
      OBVIOUS
    <2>1. k \in live <=> \E i \in DOMAIN buf : i >= pos /\ k \in Refs(buf[i])
      BY <1>0, <1>1 DEF Live, LiveKey, FirstLive, Working
    <2>2. \A i \in DOMAIN buf : i > pos => Refs(buf[i]) \cap Refs(buf[pos]) = {}
      BY <1>0, <1>2, RefsDisjoint
    <2>3. \A i \in DOMAIN buf : i >= pos <=> (i = pos \/ i > pos)
      BY <1>2
    <2> QED
      BY <1>2, <1>3, <2>1, <2>2, <2>3
  <1>5. CASE pos < count
    <2>1. pos' = pos + 1 /\ pc' = "next" /\ UNCHANGED <<buf, count>>
      BY <1>5 DEF Cleanup
    <2>2. TypeOK'
      BY <1>0, <1>1, <1>2, <2>1 DEF TypeOK
    <2>3. Shape'
      BY <1>1, <1>2, <1>5, <2>1 DEF Shape, Working
    <2>4. Ids' /\ Fresh' /\ Snapshot'
      BY <1>0, <1>1, <2>1 DEF Ids, Fresh, Snapshot, Working
    <2>5. Live'
      <3>1. FirstLive' = pos + 1
        BY <2>1 DEF FirstLive
      <3>2. \A i \in DOMAIN buf : i > pos <=> i >= pos + 1
        BY <1>2
      <3> QED
        BY <1>4, <2>1, <3>1, <3>2 DEF Live, LiveKey
    <2> QED
      BY <2>2, <2>3, <2>4, <2>5 DEF IInv
  <1>6. CASE pos = count
    <2>1. /\ buf' = SubSeq(buf, count + 1, Len(buf))
          /\ pos' = 0 /\ count' = 0 /\ pc' = "idle"
      BY <1>2, <1>6 DEF Cleanup
    <2>2. /\ buf' \in Seq(Event) /\ Len(buf') = Len(buf) - count
          /\ DOMAIN buf' = 1..(Len(buf) - count)
          /\ \A i \in DOMAIN buf' : i + count \in DOMAIN buf /\ buf'[i] = buf[i + count]
      <3>1. /\ buf' \in Seq(Event) /\ Len(buf') = Len(buf) - count
            /\ \A i \in 1..(Len(buf) - count) : buf'[i] = buf[i + count]
        BY <1>2, <2>1, SuffixAt
      <3>2. DOMAIN buf' = 1..(Len(buf) - count)
        BY <3>1
      <3>3. \A i \in 1..(Len(buf) - count) : i + count \in 1..Len(buf)
        BY <1>2
      <3> QED
        BY <1>2, <3>1, <3>2, <3>3
    <2>3. TypeOK'
      BY <1>0, <1>1, <2>1, <2>2 DEF TypeOK
    <2>4. Shape' /\ Snapshot'
      BY <1>1, <2>1 DEF Shape, Working, Snapshot
    <2>5. Ids'
      <3>1. \A i, j \in DOMAIN buf' : i # j => i + count # j + count
        BY <1>2, <2>2
      <3> QED
        BY <1>0, <1>1, <2>2, <3>1 DEF Ids
    <2>6. Fresh'
      BY <1>0, <1>1, <2>2 DEF Fresh
    <2>7. Live'
      <3> SUFFICES ASSUME NEW k \in Key PROVE k \in live' <=> LiveKey(k)'
        BY DEF Live
      <3>1. LiveKey(k)' <=> \E i \in DOMAIN buf' : k \in Refs(buf'[i])
        <4>1. FirstLive' = 1
          BY <2>1 DEF FirstLive
        <4>2. \A i \in 1..(Len(buf) - count) : i >= 1
          BY <1>2
        <4>3. \A i \in DOMAIN buf' : i >= 1
          BY <2>2, <4>2
        <4> QED
          BY <4>1, <4>3 DEF LiveKey
      <3>2. ASSUME NEW i \in DOMAIN buf', k \in Refs(buf'[i])
            PROVE  \E j \in DOMAIN buf : j > pos /\ k \in Refs(buf[j])
        BY <3>2, <1>2, <1>6, <2>2
      <3>3. ASSUME NEW j \in DOMAIN buf, j > pos, k \in Refs(buf[j])
            PROVE  \E i \in DOMAIN buf' : k \in Refs(buf'[i])
        <4>1. j - count \in DOMAIN buf' /\ (j - count) + count = j
          BY <3>3, <1>2, <1>6, <2>2
        <4> QED
          BY <4>1, <3>3, <2>2
      <3> QED
        BY <1>4, <3>1, <3>2, <3>3
    <2> QED
      BY <2>3, <2>4, <2>5, <2>6, <2>7 DEF IInv
  <1> QED
    BY <1>2, <1>5, <1>6

LEMMA TeardownIInv ==
    ASSUME IInv, Teardown
    PROVE  IInv'
  <1>0. TypeOK /\ Shape /\ Ids /\ Live /\ Snapshot /\ Fresh
    BY DEF IInv
  <1>1. /\ pc = "idle" /\ swapping' = TRUE /\ buf' = <<>> /\ done' = DOMAIN posted
        /\ live' = live \ UNION {Refs(buf[i]) : i \in DOMAIN buf}
        /\ UNCHANGED <<pc, pos, count, cur, valid, gen, posted, log, mark>>
    BY DEF Teardown
  <1>2. TypeOK'
    BY <1>0, <1>1 DEF TypeOK
  <1>3. Shape' /\ Ids' /\ Snapshot' /\ Fresh'
    BY <1>0, <1>1 DEF Shape, Working, Ids, Snapshot, Fresh
  <1>4. Live'
    <2>1. \A k \in Key : k \notin live'
      BY <1>0, <1>1 DEF Live, LiveKey
    <2>2. \A k : ~LiveKey(k)'
      BY <1>1 DEF LiveKey
    <2> QED
      BY <2>1, <2>2 DEF Live
  <1> QED
    BY <1>2, <1>3, <1>4 DEF IInv

LEMMA FreshStateIInv ==
    ASSUME IInv, FreshState
    PROVE  IInv'
  <1>0. TypeOK /\ Shape
    BY DEF IInv
  <1>1. /\ swapping /\ swapping' = FALSE /\ gen' = gen + 1 /\ live' = {}
        /\ valid' = Object /\ buf' = <<>> /\ done' = DOMAIN posted
        /\ UNCHANGED <<pc, pos, count, cur, posted, log, mark>>
    BY DEF FreshState
  <1>2. TypeOK'
    <2>1. buf' \in Seq(Event) /\ gen' \in Nat /\ done' \subseteq Nat
      BY <1>0, <1>1 DEF TypeOK
    <2> QED
      BY <1>0, <1>1, <2>1 DEF TypeOK
  <1>3. Shape' /\ Ids' /\ Snapshot' /\ Fresh'
    BY <1>0, <1>1 DEF Shape, Working, Ids, Snapshot, Fresh
  <1>4. Live'
    BY <1>1 DEF Live, LiveKey
  <1> QED
    BY <1>2, <1>3, <1>4 DEF IInv

-----------------------------------------------------------------------------

(* The inductive invariant holds in every reachable state when handlers    *)
(* inject no pointer motion.                                               *)
THEOREM Inductive == ASSUME ~HandlerMoves PROVE Spec => []IInv
  <1>1. IInv /\ [Next]_vars => IInv'
    <2> SUFFICES ASSUME IInv, [Next]_vars PROVE IInv'
      OBVIOUS
    <2>1. CASE \E o \in Object \cup {NoObj}, args \in BOOLEAN : Queue(o, args)
      BY <2>1, QueueIInv
    <2>2. CASE \E o \in Object : Move(o)
      BY <2>2, MoveIInv
    <2>3. CASE \E o \in Object : Invalidate(o)
      BY <2>3, InvalidateIInv
    <2>4. CASE BeginDrain
      BY <2>4, BeginDrainIInv
    <2>5. CASE Dispatch
      BY <2>5, DispatchIInv
    <2>6. CASE Cleanup
      BY <2>6, CleanupIInv
    <2>7. CASE Teardown
      BY <2>7, TeardownIInv
    <2>8. CASE FreshState
      BY <2>8, FreshStateIInv
    <2>9. CASE UNCHANGED vars
      <3>1. /\ UNCHANGED <<buf, pc, pos, count, cur, live, valid, gen, swapping>>
            /\ UNCHANGED <<posted, done, log, mark>>
        BY <2>9 DEF vars
      <3>2. TypeOK' /\ Shape' /\ Ids' /\ Snapshot' /\ Fresh'
        BY <3>1 DEF IInv, TypeOK, Shape, Working, Ids, Snapshot, Fresh
      <3>3. Live'
        BY <3>1 DEF IInv, Live, LiveKey, FirstLive
      <3> QED
        BY <3>2, <3>3 DEF IInv
    <2> QED
      BY <2>1, <2>2, <2>3, <2>4, <2>5, <2>6, <2>7, <2>8, <2>9 DEF Next
  <1> QED
    BY <1>1, InitIInv, PTL DEF Spec

(* Every variable keeps its type.                                          *)
THEOREM TypeCorrect == ASSUME ~HandlerMoves PROVE Spec => []TypeOK
  <1>1. IInv => TypeOK
    BY DEF IInv
  <1> QED
    BY <1>1, Inductive, PTL

(* A drain never dispatches what was queued after it began, so that it     *)
(* ends however much its handlers queue.                                   *)
THEOREM SnapshotHolds == ASSUME ~HandlerMoves PROVE Spec => []AddedWaitForNextDrain
  <1>1. IInv => AddedWaitForNextDrain
    <2> SUFFICES ASSUME IInv, NEW e \in cur PROVE e.last <= mark
      BY DEF AddedWaitForNextDrain
    <2>1. Working /\ e = buf[pos]
      BY DEF IInv, Shape
    <2> QED
      BY <2>1 DEF IInv, Shape, Snapshot, Working
  <1> QED
    BY <1>1, Inductive, PTL

(* No registry reference leaks, and none is released twice.                *)
THEOREM RefsAreOwned == ASSUME ~HandlerMoves PROVE Spec => []RefsOwned
  <1>1. IInv => RefsOwned
    <2> SUFFICES ASSUME IInv PROVE RefsOwned
      OBVIOUS
    <2>0. TypeOK /\ Shape /\ Ids /\ Live
      BY DEF IInv
    <2>1. buf \in Seq(Event) /\ DOMAIN buf = 1..Len(buf) /\ Len(buf) \in Nat /\ pos \in Nat
      BY <2>0 DEF TypeOK
    <2>2. Owners = {buf[i] : i \in {j \in DOMAIN buf : j >= FirstLive}}
      <3>1. CASE Working
        <4>1. /\ cur = {buf[pos]} /\ pos \in DOMAIN buf
              /\ FirstLive = pos /\ FirstOwned = pos + 1
          <5>1. /\ cur = {buf[pos]} /\ pos \in 1..count /\ count <= Len(buf)
                /\ pc \in {"handlers", "dropped"} /\ pc # "idle"
            BY <3>1, <2>0 DEF Shape, Working
          <5>2. count \in Nat
            BY <2>0 DEF TypeOK
          <5> QED
            BY <5>1, <5>2, <2>1 DEF FirstLive, FirstOwned
        <4>2. \A j \in DOMAIN buf : j >= pos <=> (j >= pos + 1 \/ j = pos)
          BY <2>1
        <4> QED
          BY <4>1, <4>2 DEF Owners
      <3>2. CASE ~Working
        <4>1. cur = {} /\ FirstOwned = FirstLive
          BY <3>2, <2>0 DEF Shape, FirstLive, FirstOwned, Working, TypeOK
        <4> QED
          BY <4>1 DEF Owners
      <3> QED
        BY <3>1, <3>2
    <2>3. \A e \in Owners : Refs(e) \subseteq Key
      <3>1. \A i \in DOMAIN buf : buf[i] \in Event
        BY <2>1
      <3>2. \A e \in Event : Refs(e) \subseteq Key
        BY DEF Event, Refs, ObjectRef, ArgsRef, Key
      <3> QED
        BY <2>2, <3>1, <3>2
    <2>4. live = UNION {Refs(e) : e \in Owners}
      <3>1. live \subseteq Key
        BY <2>0 DEF TypeOK
      <3>2. \A k \in Key : k \in live <=> k \in UNION {Refs(e) : e \in Owners}
        BY <2>0, <2>2 DEF Live, LiveKey
      <3> QED
        BY <2>3, <3>1, <3>2
    <2>5. \A e, f \in Owners : e # f => Refs(e) \cap Refs(f) = {}
      BY <2>0, <2>2, RefsDisjoint
    <2> QED
      BY <2>4, <2>5 DEF RefsOwned
  <1> QED
    BY <1>1, Inductive, PTL

(* No reference made in one Lua state reaches a drain against another.     *)
THEOREM ReferencesStayInTheirState == ASSUME ~HandlerMoves PROVE Spec => []NoStaleRefs
  <1>1. IInv => NoStaleRefs
    BY DEF IInv, Fresh, NoStaleRefs
  <1> QED
    BY <1>1, Inductive, PTL

-----------------------------------------------------------------------------
(* The order of delivery.  A second invariant relates the buffer to the    *)
(* history that EventDelivery is about: what is pending is what the drain  *)
(* has yet to dispatch (Waiting), as it was posted (AsPosted); a post that *)
(* is no move is behind all that is older (Behind), so that only within a  *)
(* run of moves a later event is the older one (Overtaken); of a run, one  *)
(* event is of each object (Apart); and no event still to be dispatched is *)
(* older than an emitted one, but for those of a run (Logged).             *)

Run(m, n) == Delivery!SameRun(m, n)

Awaits(n) == \E i \in DOMAIN buf : i >= FirstOwned /\ buf[i].last = n

Waiting ==
    /\ done \subseteq 1..Len(posted)
    /\ \A n \in 1..Len(posted) : n \notin done <=> Awaits(n)

AsPosted ==
    \A i \in DOMAIN buf :
        /\ buf[i].last >= 1
        /\ posted[buf[i].last].move <=> buf[i].move
        /\ posted[buf[i].last].obj = buf[i].obj

Behind ==
    \A j \in DOMAIN buf, n \in 1..Len(posted) :
        n > buf[j].last =>
            posted[n].move \/ \E k \in DOMAIN buf : k > j /\ buf[k].last = n

Overtaken ==
    \A i, j \in DOMAIN buf :
        i < j /\ buf[j].last < buf[i].last => Run(buf[j].last, buf[i].last)

Apart ==
    \A i, j \in DOMAIN buf :
        i < j /\ buf[i].move /\ buf[j].move /\ buf[i].obj = buf[j].obj =>
            \E k \in DOMAIN buf : i < k /\ k < j /\ ~buf[k].move

Logged ==
    /\ \A a \in DOMAIN log : log[a] \in 1..Len(posted)
    /\ \A a \in DOMAIN log, i \in DOMAIN buf :
          i >= FirstOwned /\ buf[i].last < log[a] =>
              Run(buf[i].last, log[a]) /\ posted[log[a]].obj # buf[i].obj

OInv == Waiting /\ AsPosted /\ Behind /\ Overtaken /\ Apart /\ Logged /\ OrderKept

\* What the first invariant says of positions and posts.
LEMMA Positions ==
    ASSUME IInv
    PROVE  /\ Len(buf) \in Nat /\ DOMAIN buf = 1..Len(buf)
           /\ Len(posted) \in Nat /\ DOMAIN posted = 1..Len(posted)
           /\ \A i \in DOMAIN buf : /\ buf[i] \in Event /\ buf[i].last \in Nat
                                    /\ buf[i].last <= Len(posted)
           /\ \A i, j \in DOMAIN buf : i # j => buf[i].last # buf[j].last
           /\ FirstOwned \in Nat /\ 1 <= FirstOwned /\ FirstOwned <= Len(buf) + 1
  <1>0. TypeOK /\ Shape /\ Ids
    BY DEF IInv
  <1>1. /\ Len(buf) \in Nat /\ DOMAIN buf = 1..Len(buf)
        /\ Len(posted) \in Nat /\ DOMAIN posted = 1..Len(posted)
        /\ \A i \in DOMAIN buf : buf[i] \in Event
    BY <1>0 DEF TypeOK
  <1>2. \A i \in DOMAIN buf : buf[i].last \in Nat
    BY <1>1 DEF Event
  <1>3. FirstOwned \in Nat /\ 1 <= FirstOwned /\ FirstOwned <= Len(buf) + 1
    <2>1. CASE pc = "idle"
      BY <1>1, <2>1 DEF FirstOwned
    <2>2. CASE pc # "idle"
      BY <1>0, <1>1, <2>2 DEF FirstOwned, Shape, TypeOK
    <2> QED
      BY <2>1, <2>2
  <1> QED
    BY <1>0, <1>1, <1>2, <1>3 DEF Ids

\* A new post leaves the posts before it, and so the runs among them.
LEMMA PostedGrows ==
    ASSUME IInv, NEW p \in [move : BOOLEAN, obj : Object \cup {NoObj}],
           posted' = Append(posted, p)
    PROVE  /\ Len(posted') = Len(posted) + 1
           /\ \A n \in 1..Len(posted) : posted'[n] = posted[n]
           /\ posted'[Len(posted) + 1] = p
           /\ \A m, n \in 1..Len(posted) : Run(m, n)' <=> Run(m, n)
  <1>1. posted \in Seq([move : BOOLEAN, obj : Object \cup {NoObj}]) /\ Len(posted) \in Nat
    BY DEF IInv, TypeOK
  <1>2. /\ Len(posted') = Len(posted) + 1 /\ posted'[Len(posted) + 1] = p
        /\ \A n \in 1..Len(posted) : posted'[n] = posted[n]
    BY <1>1, AppendAt
  <1>3. \A m, n \in 1..Len(posted) : Run(m, n)' <=> Run(m, n)
    BY <1>1, <1>2 DEF Run, Delivery!SameRun
  <1> QED
    BY <1>2, <1>3

\* The signals emitted so far stay in order when there is one more post.
LEMMA OrderStays ==
    ASSUME IInv, OInv, NEW p \in [move : BOOLEAN, obj : Object \cup {NoObj}],
           posted' = Append(posted, p), log' = log
    PROVE  OrderKept'
  BY PostedGrows DEF OInv, Logged, OrderKept, Delivery!OrderKept, Run

LEMMA InitOInv == Init => OInv
  BY DEF Init, OInv, Waiting, Awaits, AsPosted, Behind, Overtaken, Apart, Logged,
         OrderKept, Delivery!OrderKept

\* A pushed event is the newest; if it is a move, what it might have been
\* folded into is beyond a signal of another kind.
LEMMA PushOInv ==
    ASSUME IInv, OInv,
           NEW move \in BOOLEAN, NEW o \in Object \cup {NoObj}, NEW args \in BOOLEAN,
           PushEvent(NewEvent(move, o, args)),
           move => \A i \in DOMAIN buf : buf[i].move /\ buf[i].obj = o =>
                       \E k \in DOMAIN buf : i < k /\ ~buf[k].move,
           posted' = Append(posted, [move |-> move, obj |-> o]),
           UNCHANGED <<pc, pos, count, done, log>>
    PROVE  OInv'
  <1>n. PICK n \in Nat : n = Len(posted) + 1
    BY Positions
  <1>h. PICK h \in Nat : h = Len(buf) + 1
    BY Positions
  <1>e. PICK e \in Event : e = NewEvent(move, o, args)
    BY NewEventFacts DEF IInv
  <1>0. Waiting /\ AsPosted /\ Behind /\ Overtaken /\ Apart /\ Logged
    BY DEF OInv
  <1>1. e \in Event /\ e.move = move /\ e.obj = o /\ e.last = n
    BY <1>n, <1>e, NewEventFacts DEF IInv
  <1>2. buf' = Append(buf, e)
    BY <1>e DEF PushEvent
  <1>3. /\ DOMAIN buf' = DOMAIN buf \cup {h} /\ buf'[h] = e
        /\ \A i \in DOMAIN buf : i < h /\ buf'[i] = buf[i]
    <2>1. buf \in Seq(Event)
      BY DEF IInv, TypeOK
    <2> QED
      BY <1>1, <1>2, <1>h, <2>1, AppendAt
  <1>4. /\ Len(posted') = n /\ posted'[n] = [move |-> move, obj |-> o]
        /\ \A m \in 1..Len(posted) : m < n /\ posted'[m] = posted[m]
        /\ \A l, m \in 1..Len(posted) : Run(l, m)' <=> Run(l, m)
        /\ 1..n = 1..Len(posted) \cup {n}
    <2>1. [move |-> move, obj |-> o] \in [move : BOOLEAN, obj : Object \cup {NoObj}]
      OBVIOUS
    <2>2. \A m \in 1..Len(posted) : m < n
      BY <1>n, Positions
    <2>3. 1..n = 1..Len(posted) \cup {n}
      BY <1>n, Positions
    <2> QED
      BY <1>n, <2>1, <2>2, <2>3, PostedGrows
  <1>5. FirstOwned' = FirstOwned /\ FirstOwned <= h
    BY <1>h, Positions DEF FirstOwned
  <1>6. \A i \in DOMAIN buf : buf[i].last \in 1..Len(posted) /\ buf[i].last < n
    <2> SUFFICES ASSUME NEW i \in DOMAIN buf
                 PROVE  buf[i].last \in 1..Len(posted) /\ buf[i].last < n
      OBVIOUS
    <2>1. buf[i].last \in Nat /\ buf[i].last <= Len(posted) /\ Len(posted) \in Nat
      BY Positions
    <2>2. buf[i].last >= 1
      BY <1>0 DEF AsPosted
    <2> QED
      BY <1>n, <2>1, <2>2
  <1>7. Waiting'
    <2>1. \A m \in 1..Len(posted) : Awaits(m)' <=> Awaits(m)
      <3> SUFFICES ASSUME NEW m \in 1..Len(posted) PROVE Awaits(m)' <=> Awaits(m)
        OBVIOUS
      <3>1. e.last # m
        BY <1>1, <1>4
      <3> QED
        BY <1>3, <1>5, <3>1 DEF Awaits
    <2>2. Awaits(n)'
      <3>1. h \in DOMAIN buf' /\ buf'[h].last = n /\ FirstOwned' <= h
        BY <1>1, <1>3, <1>5
      <3>2. FirstOwned' \in Nat /\ h \in Nat
        BY <1>5, Positions, <1>h
      <3>3. h >= FirstOwned'
        BY <3>1, <3>2
      <3> QED
        BY <3>1, <3>3 DEF Awaits
    <2>3. n \notin done /\ done \subseteq 1..n
      BY <1>0, <1>4 DEF Waiting
    <2>4. ASSUME NEW m \in 1..n PROVE m \notin done <=> Awaits(m)'
      <3>1. CASE m = n
        BY <2>2, <2>3, <3>1
      <3>2. CASE m # n
        BY <1>0, <1>4, <2>1, <2>4, <3>2 DEF Waiting
      <3> QED
        BY <3>1, <3>2
    <2>5. done' = done /\ Len(posted') = n
      BY <1>4
    <2> QED
      BY <2>3, <2>4, <2>5 DEF Waiting
  <1>8. AsPosted'
    <2>1. n >= 1
      BY Positions, <1>n
    <2> QED
      BY <1>0, <1>1, <1>3, <1>4, <1>6, <2>1 DEF AsPosted
  <1>9. Behind'
    <2> SUFFICES ASSUME NEW j \in DOMAIN buf', NEW m \in 1..n, m > buf'[j].last
                 PROVE  posted'[m].move \/ \E k \in DOMAIN buf' : k > j /\ buf'[k].last = m
      BY <1>4 DEF Behind
    <2>1. CASE j = h
      <3>1. ~(m > n)
        BY <1>4, Positions, <1>n
      <3> QED
        BY <1>1, <1>3, <2>1, <3>1
    <2>2. CASE j # h /\ m = n
      <3>1. j \in DOMAIN buf /\ h > j
        BY <1>3, <2>2
      <3> QED
        BY <1>1, <1>3, <2>2, <3>1
    <2>3. CASE j # h /\ m # n
      <3>1. j \in DOMAIN buf /\ m \in 1..Len(posted) /\ m > buf[j].last
        BY <1>3, <1>4, <2>3
      <3> QED
        BY <1>0, <1>3, <1>4, <3>1 DEF Behind
    <2> QED
      BY <2>1, <2>2, <2>3
  <1>10. Overtaken'
    <2> SUFFICES ASSUME NEW i \in DOMAIN buf', NEW j \in DOMAIN buf', i < j,
                        buf'[j].last < buf'[i].last
                 PROVE  \A k \in buf'[j].last..buf'[i].last : posted'[k].move
      BY DEF Overtaken, Run, Delivery!SameRun
    <2>1. i # h
      BY <1>3, <1>h, Positions
    <2>2. i \in DOMAIN buf /\ buf'[i] = buf[i]
      BY <1>3, <2>1
    <2>3. j # h
      BY <1>1, <1>3, <1>6, <2>2, Positions, <1>n
    <2>4. j \in DOMAIN buf /\ buf'[j] = buf[j]
      BY <1>3, <2>3
    <2>5. \A k \in buf[j].last..buf[i].last : posted[k].move
      BY <1>0, <2>2, <2>4 DEF Overtaken, Run, Delivery!SameRun
    <2>6. \A k \in buf[j].last..buf[i].last : k \in 1..Len(posted)
      BY <1>6, <2>2, <2>4, Positions
    <2> QED
      BY <1>4, <2>2, <2>4, <2>5, <2>6
  <1>11. Apart'
    <2> SUFFICES ASSUME NEW i \in DOMAIN buf', NEW j \in DOMAIN buf', i < j,
                        buf'[i].move, buf'[j].move, buf'[i].obj = buf'[j].obj
                 PROVE  \E k \in DOMAIN buf' : i < k /\ k < j /\ ~buf'[k].move
      BY DEF Apart
    <2>1. i \in DOMAIN buf /\ buf'[i] = buf[i]
      <3>1. i # h
        <4>1. CASE j = h
          BY <4>1, Positions, <1>h
        <4>2. CASE j # h
          BY <1>3, <4>2, Positions, <1>h
        <4> QED
          BY <4>1, <4>2
      <3> QED
        BY <1>3, <3>1
    <2>2. CASE j = h
      <3>1. PICK k \in DOMAIN buf : i < k /\ ~buf[k].move
        BY <1>1, <1>3, <2>1, <2>2
      <3> QED
        BY <1>3, <2>2, <3>1
    <2>3. CASE j # h
      <3>1. j \in DOMAIN buf /\ buf'[j] = buf[j]
        BY <1>3, <2>3
      <3>2. PICK k \in DOMAIN buf : i < k /\ k < j /\ ~buf[k].move
        BY <1>0, <2>1, <3>1 DEF Apart
      <3> QED
        BY <1>3, <3>2
    <2> QED
      BY <2>2, <2>3
  <1>12. Logged'
    <2>1. \A a \in DOMAIN log : log[a] \in 1..n
      BY <1>0, <1>4 DEF Logged
    <2>2. ASSUME NEW a \in DOMAIN log, NEW i \in DOMAIN buf', i >= FirstOwned,
                 buf'[i].last < log[a]
          PROVE  /\ \A k \in buf'[i].last..log[a] : posted'[k].move
                 /\ posted'[log[a]].obj # buf'[i].obj
      <3>1. log[a] \in 1..Len(posted) /\ log[a] < n
        BY <1>0, <1>4 DEF Logged
      <3>2. i # h
        BY <1>1, <1>3, <1>n, <2>2, <3>1, Positions
      <3>3. i \in DOMAIN buf /\ buf'[i] = buf[i]
        BY <1>3, <3>2
      <3>4. /\ \A k \in buf[i].last..log[a] : posted[k].move
            /\ posted[log[a]].obj # buf[i].obj
        BY <1>0, <2>2, <3>3 DEF Logged, Run, Delivery!SameRun
      <3>5. \A k \in buf[i].last..log[a] : k \in 1..Len(posted)
        BY <1>6, <3>1, <3>3, Positions
      <3> QED
        BY <1>4, <3>1, <3>3, <3>4, <3>5
    <2>3. log' = log /\ FirstOwned' = FirstOwned /\ Len(posted') = n
      BY <1>4, <1>5
    <2> QED
      BY <2>1, <2>2, <2>3 DEF Logged, Run, Delivery!SameRun
  <1>13. OrderKept'
    <2>1. [move |-> move, obj |-> o] \in [move : BOOLEAN, obj : Object \cup {NoObj}]
      OBVIOUS
    <2> QED
      BY <2>1, OrderStays
  <1> QED
    BY <1>7, <1>8, <1>9, <1>10, <1>11, <1>12, <1>13 DEF OInv

\* When only moves follow an event in the buffer, only moves were posted
\* since it was.
LEMMA TailRun ==
    ASSUME IInv, AsPosted, Behind, NEW i \in DOMAIN buf,
           \A k \in i..Len(buf) : buf[k].move
    PROVE  \A m \in 1..Len(posted) : m >= buf[i].last => posted[m].move
  <1> SUFFICES ASSUME NEW m \in 1..Len(posted), m >= buf[i].last PROVE posted[m].move
    OBVIOUS
  <1>1. \A k \in DOMAIN buf : k >= i => posted[buf[k].last].move
    <2>1. \A k \in DOMAIN buf : k >= i => buf[k].move
      BY Positions
    <2> QED
      BY <2>1 DEF AsPosted
  <1>2. CASE m = buf[i].last
    BY <1>1, <1>2, Positions
  <1>3. CASE m # buf[i].last
    <2>1. m > buf[i].last
      BY <1>3, Positions
    <2>2. posted[m].move \/ \E k \in DOMAIN buf : k > i /\ buf[k].last = m
      BY <2>1 DEF Behind
    <2> QED
      BY <1>1, <2>2, Positions
  <1> QED
    BY <1>2, <1>3

\* A fold makes the newest post of an event that only moves follow.
LEMMA FoldOInv ==
    ASSUME IInv, OInv, pc = "idle", NEW o \in Object, NEW i \in DOMAIN buf,
           \A k \in i..Len(buf) : buf[k].move,
           buf[i].obj = o, Fold(i),
           posted' = Append(posted, [move |-> TRUE, obj |-> o]),
           UNCHANGED <<pc, pos, count, log>>
    PROVE  OInv'
  <1>n. PICK n \in Nat : n = Len(posted) + 1
    BY Positions
  <1>0. Waiting /\ AsPosted /\ Behind /\ Overtaken /\ Apart /\ Logged
    BY DEF OInv
  <1>1. TypeOK /\ buf' = [buf EXCEPT ![i].last = n] /\ done' = done \cup {buf[i].last}
    BY <1>n DEF Fold, IInv
  <1>m. buf[i].move
    BY Positions
  <1>2. /\ DOMAIN buf' = DOMAIN buf
        /\ \A j \in DOMAIN buf : j # i => buf'[j] = buf[j]
        /\ buf'[i].last = n
        /\ \A j \in DOMAIN buf : buf'[j].move = buf[j].move /\ buf'[j].obj = buf[j].obj
    <2>1. PICK e \in Event : e = buf[i]
      BY Positions
    <2>2. /\ DOMAIN buf' = DOMAIN buf
          /\ \A j \in DOMAIN buf : j # i => buf'[j] = buf[j]
          /\ buf'[i] = [e EXCEPT !.last = n]
      BY <1>1, <2>1, FoldAt
    <2>3. buf'[i].last = n /\ buf'[i].move = buf[i].move /\ buf'[i].obj = buf[i].obj
      BY <2>1, <2>2, RewrittenEvent
    <2> QED
      BY <2>2, <2>3
  <1>3. /\ Len(posted') = n /\ posted'[n] = [move |-> TRUE, obj |-> o]
        /\ \A m \in 1..Len(posted) : m < n /\ posted'[m] = posted[m]
        /\ 1..n = 1..Len(posted) \cup {n}
    <2>1. [move |-> TRUE, obj |-> o] \in [move : BOOLEAN, obj : Object \cup {NoObj}]
      OBVIOUS
    <2>2. (\A m \in 1..Len(posted) : m < n) /\ 1..n = 1..Len(posted) \cup {n}
      BY <1>n, Positions
    <2> QED
      BY <1>n, <2>1, <2>2, PostedGrows
  <1>4. FirstOwned' = 1 /\ FirstOwned = 1 /\ \A j \in DOMAIN buf : j >= 1
    BY Positions DEF FirstOwned
  <1>5. \A j \in DOMAIN buf : buf[j].last \in 1..Len(posted) /\ buf[j].last < n
    <2> SUFFICES ASSUME NEW j \in DOMAIN buf
                 PROVE  buf[j].last \in 1..Len(posted) /\ buf[j].last < n
      OBVIOUS
    <2>1. buf[j].last \in Nat /\ buf[j].last <= Len(posted) /\ Len(posted) \in Nat
      BY Positions
    <2>2. buf[j].last >= 1
      BY <1>0 DEF AsPosted
    <2> QED
      BY <1>n, <2>1, <2>2
  <1>6. Waiting'
    <2>1. done \subseteq 1..Len(posted) /\ done' \subseteq 1..n
      BY <1>0, <1>1, <1>3, <1>5 DEF Waiting
    <2>2. ASSUME NEW m \in 1..n
          PROVE  m \notin done' <=> \E j \in DOMAIN buf' : j >= FirstOwned' /\ buf'[j].last = m
      <3>1. CASE m = n
        <4>1. n \notin done'
          BY <1>1, <1>3, <1>5, <2>1
        <4> QED
          BY <1>2, <1>4, <3>1, <4>1
      <3>2. CASE m \in 1..Len(posted)
        <4>1. m \notin done <=> \E j \in DOMAIN buf : buf[j].last = m
          BY <1>0, <1>4, <3>2 DEF Waiting, Awaits
        <4>2. m # n
          BY <1>3, <3>2
        <4>3. (\E j \in DOMAIN buf' : buf'[j].last = m)
                 <=> (m # buf[i].last /\ \E j \in DOMAIN buf : buf[j].last = m)
          BY <1>2, <4>2, Positions
        <4> QED
          BY <1>1, <1>2, <1>4, <4>1, <4>3
      <3> QED
        BY <1>3, <3>1, <3>2
    <2> QED
      BY <1>3, <2>1, <2>2 DEF Waiting, Awaits
  <1>7. AsPosted'
    <2>1. n >= 1
      BY <1>n, Positions
    <2>2. ASSUME NEW j \in DOMAIN buf
          PROVE  /\ buf'[j].last >= 1
                 /\ posted'[buf'[j].last].move <=> buf'[j].move
                 /\ posted'[buf'[j].last].obj = buf'[j].obj
      <3>1. CASE j = i
        BY <1>2, <1>3, <1>m, <2>1, <3>1
      <3>2. CASE j # i
        BY <1>0, <1>2, <1>3, <1>5, <3>2 DEF AsPosted
      <3> QED
        BY <3>1, <3>2
    <2> QED
      BY <1>2, <2>2 DEF AsPosted
  <1>8. Behind'
    <2> SUFFICES ASSUME NEW j \in DOMAIN buf, NEW m \in 1..n, m > buf'[j].last
                 PROVE  posted'[m].move \/ \E k \in DOMAIN buf : k > j /\ buf'[k].last = m
      BY <1>2, <1>3 DEF Behind
    <2>1. CASE m = n
      BY <1>3, <2>1
    <2>2. CASE m \in 1..Len(posted)
      <3>1. j # i /\ m > buf[j].last
        BY <1>2, <1>3, <1>n, <2>2, Positions
      <3>2. posted[m].move \/ \E k \in DOMAIN buf : k > j /\ buf[k].last = m
        BY <1>0, <2>2, <3>1 DEF Behind
      <3>3. posted[buf[i].last].move
        BY <1>0, <1>m DEF AsPosted
      <3> QED
        BY <1>2, <1>3, <2>2, <3>2, <3>3
    <2> QED
      BY <1>3, <2>1, <2>2
  <1>9. Overtaken'
    <2> SUFFICES ASSUME NEW j \in DOMAIN buf, NEW k \in DOMAIN buf, j < k,
                        buf'[k].last < buf'[j].last
                 PROVE  \A m \in buf'[k].last..buf'[j].last : posted'[m].move
      BY <1>2 DEF Overtaken, Run, Delivery!SameRun
    <2>1. k # i
      <3>1. SUFFICES ASSUME k = i PROVE FALSE
        OBVIOUS
      <3>2. j # i /\ j \in Nat /\ k \in Nat
        BY <3>1, Positions
      <3>3. buf'[k].last = n /\ buf'[j] = buf[j]
        BY <1>2, <3>1, <3>2
      <3>4. buf[j].last < n /\ buf[j].last \in Nat
        BY <1>5, Positions
      <3> QED
        BY <1>n, <3>3, <3>4
    <2>2. CASE j = i
      <3>1. \A h \in k..Len(buf) : buf[h].move
        BY <2>2, Positions
      <3>2. \A m \in 1..Len(posted) : m >= buf[k].last => posted[m].move
        BY <1>0, <3>1, TailRun
      <3>3. \A m \in buf[k].last..n : m = n \/ (m \in 1..Len(posted) /\ m >= buf[k].last)
        BY <1>5, <1>n, Positions
      <3> QED
        BY <1>2, <1>3, <2>1, <2>2, <3>2, <3>3
    <2>3. CASE j # i
      <3>1. \A m \in buf[k].last..buf[j].last : posted[m].move
        BY <1>0, <1>2, <2>1, <2>3 DEF Overtaken, Run, Delivery!SameRun
      <3>2. \A m \in buf[k].last..buf[j].last : m \in 1..Len(posted)
        BY <1>5, Positions
      <3> QED
        BY <1>2, <1>3, <2>1, <2>3, <3>1, <3>2
    <2> QED
      BY <2>2, <2>3
  <1>10. Apart'
    BY <1>0, <1>2 DEF Apart
  <1>11. Logged'
    <2>1. \A a \in DOMAIN log : log[a] \in 1..n
      BY <1>0, <1>3 DEF Logged
    <2>2. ASSUME NEW a \in DOMAIN log, NEW j \in DOMAIN buf, buf'[j].last < log[a]
          PROVE  /\ \A k \in buf'[j].last..log[a] : posted'[k].move
                 /\ posted'[log[a]].obj # buf'[j].obj
      <3>1. log[a] \in 1..Len(posted) /\ log[a] < n
        BY <1>0, <1>3 DEF Logged
      <3>2. j # i /\ buf'[j] = buf[j]
        BY <1>2, <1>n, <2>2, <3>1, Positions
      <3>3. /\ \A k \in buf[j].last..log[a] : posted[k].move
            /\ posted[log[a]].obj # buf[j].obj
        BY <1>0, <1>4, <2>2, <3>2 DEF Logged, Run, Delivery!SameRun
      <3>4. \A k \in buf[j].last..log[a] : k \in 1..Len(posted)
        BY <1>5, <3>1, Positions
      <3> QED
        BY <1>3, <3>1, <3>2, <3>3, <3>4
    <2>3. log' = log /\ Len(posted') = n
      BY <1>3
    <2>4. \A a \in DOMAIN log', j \in DOMAIN buf' :
              j >= FirstOwned' /\ buf'[j].last < log'[a] =>
                  /\ \A k \in buf'[j].last..log'[a] : posted'[k].move
                  /\ posted'[log'[a]].obj # buf'[j].obj
      <3> SUFFICES ASSUME NEW a \in DOMAIN log', NEW j \in DOMAIN buf', buf'[j].last < log'[a]
                   PROVE  /\ \A k \in buf'[j].last..log'[a] : posted'[k].move
                          /\ posted'[log'[a]].obj # buf'[j].obj
        OBVIOUS
      <3>1. log' = log /\ j \in DOMAIN buf /\ buf'[j].last < log[a]
        BY <1>2, <2>3
      <3> QED
        BY <2>2, <3>1
    <2>5. \A a \in DOMAIN log' : log'[a] \in 1..Len(posted')
      BY <2>1, <2>3
    <2> QED
      BY <2>4, <2>5 DEF Logged, Run, Delivery!SameRun
  <1>12. OrderKept'
    <2>1. [move |-> TRUE, obj |-> o] \in [move : BOOLEAN, obj : Object \cup {NoObj}]
      OBVIOUS
    <2> QED
      BY <2>1, OrderStays
  <1> QED
    BY <1>6, <1>7, <1>8, <1>9, <1>10, <1>11, <1>12 DEF OInv

\* An older event behind a newer one is of another object.
LEMMA OvertakenDiffer ==
    ASSUME IInv, OInv, NEW i \in DOMAIN buf, NEW j \in DOMAIN buf, i < j,
           buf[j].last < buf[i].last
    PROVE  buf[i].obj # buf[j].obj
  <1>0. AsPosted /\ Overtaken /\ Apart
    BY DEF OInv
  <1>1. \A g, h \in DOMAIN buf :
            g < h /\ buf[h].last < buf[g].last => buf[g].move /\ buf[h].move
    <2> SUFFICES ASSUME NEW g \in DOMAIN buf, NEW h \in DOMAIN buf,
                        g < h, buf[h].last < buf[g].last
                 PROVE  buf[g].move /\ buf[h].move
      OBVIOUS
    <2>1. \A m \in buf[h].last..buf[g].last : posted[m].move
      BY <1>0 DEF Overtaken, Run, Delivery!SameRun
    <2>2. posted[buf[g].last].move /\ posted[buf[h].last].move
      BY <2>1, Positions
    <2> QED
      BY <1>0, <2>2 DEF AsPosted
  <1>2. SUFFICES ASSUME buf[i].obj = buf[j].obj PROVE FALSE
    OBVIOUS
  <1>3. PICK k \in DOMAIN buf : i < k /\ k < j /\ ~buf[k].move
    BY <1>0, <1>1, <1>2 DEF Apart
  <1>4. buf[k].last < buf[i].last \/ buf[j].last < buf[k].last
    <2>1. buf[i].last \in Nat /\ buf[j].last \in Nat /\ buf[k].last \in Nat
      BY Positions
    <2> QED
      BY <2>1
  <1> QED
    BY <1>1, <1>3, <1>4

LEMMA DispatchOInv ==
    ASSUME IInv, OInv, Dispatch
    PROVE  OInv'
  <1>0. /\ Waiting /\ AsPosted /\ Behind /\ Overtaken /\ Apart /\ Logged /\ OrderKept
        /\ TypeOK /\ Shape
    BY DEF OInv, IInv
  <1>1. /\ pc = "next" /\ pc' \in {"handlers", "dropped"}
        /\ UNCHANGED <<buf, pos, posted>>
        /\ done' = done \cup {buf[pos].last}
        /\ log' = Append(log, buf[pos].last) \/ log' = log
    BY DEF Dispatch
  <1>2. pos \in DOMAIN buf /\ FirstOwned = pos /\ FirstOwned' = pos + 1
    <2>1. pos \in 1..count /\ count <= Len(buf) /\ count \in Nat
      BY <1>0, <1>1 DEF Shape, TypeOK
    <2> QED
      BY <1>1, <2>1, Positions DEF FirstOwned
  <1>3. AsPosted' /\ Behind' /\ Overtaken' /\ Apart'
    BY <1>0, <1>1 DEF AsPosted, Behind, Overtaken, Apart, Run, Delivery!SameRun
  <1>p. PICK m \in 1..Len(posted) : m = buf[pos].last
    <2>1. buf[pos].last >= 1
      BY <1>0, <1>2 DEF AsPosted
    <2> QED
      BY <1>2, <2>1, Positions
  <1>4. Waiting'
    <2>1. ASSUME NEW n \in 1..Len(posted)
          PROVE  n \notin done' <=> \E i \in DOMAIN buf : i >= pos + 1 /\ buf[i].last = n
      <3>1. n \notin done <=> \E i \in DOMAIN buf : i >= pos /\ buf[i].last = n
        BY <1>0, <1>2 DEF Waiting, Awaits
      <3>2. \A i \in DOMAIN buf : i >= pos + 1 <=> i >= pos /\ i # pos
        BY <1>2, Positions
      <3>3. \A i \in DOMAIN buf : i # pos <=> buf[i].last # m
        BY <1>p, <1>2, Positions
      <3> QED
        BY <1>1, <1>p, <3>1, <3>2, <3>3
    <2>2. done' \subseteq 1..Len(posted)
      BY <1>0, <1>1, <1>p DEF Waiting
    <2> QED
      BY <1>1, <1>2, <2>1, <2>2 DEF Waiting, Awaits
  <1>5. /\ posted[m].obj = buf[pos].obj
        /\ \A a \in DOMAIN log : m < log[a] => Run(m, log[a]) /\ posted[log[a]].obj # buf[pos].obj
    <2>1. posted[m].obj = buf[pos].obj
      BY <1>0, <1>2, <1>p DEF AsPosted
    <2>2. pos >= FirstOwned
      BY <1>2, Positions
    <2> QED
      BY <1>0, <1>2, <1>p, <2>1, <2>2 DEF Logged
  <1>6. \A i \in DOMAIN buf : i >= pos + 1 => i >= FirstOwned /\ pos < i
    BY <1>2, Positions
  <1>7. CASE log' = log
    <2>1. Logged'
      BY <1>0, <1>1, <1>2, <1>6, <1>7 DEF Logged, Run, Delivery!SameRun
    <2>2. OrderKept'
      BY <1>0, <1>1, <1>7 DEF OrderKept, Delivery!OrderKept, Delivery!SameRun
    <2> QED
      BY <1>3, <1>4, <2>1, <2>2 DEF OInv
  <1>8. CASE log' = Append(log, m)
    <2>0. PICK z \in Nat : z = Len(log) + 1
      BY <1>0 DEF TypeOK
    <2>1. /\ DOMAIN log' = DOMAIN log \cup {z} /\ log'[z] = m
          /\ \A a \in DOMAIN log : log'[a] = log[a] /\ a < z
      <3>1. log \in Seq(Nat) /\ m \in Nat
        BY <1>0 DEF TypeOK
      <3> QED
        BY <1>8, <2>0, <3>1, AppendAt
    <2>2. Logged'
      <3>1. \A a \in DOMAIN log' : log'[a] \in 1..Len(posted)
        BY <1>0, <2>1 DEF Logged
      <3>2. ASSUME NEW a \in DOMAIN log', NEW i \in DOMAIN buf, i >= pos + 1,
                   buf[i].last < log'[a]
            PROVE  /\ \A k \in buf[i].last..log'[a] : posted[k].move
                   /\ posted[log'[a]].obj # buf[i].obj
        <4>1. CASE a = z
          <5>1. buf[i].last < buf[pos].last /\ pos < i
            BY <1>6, <1>p, <2>1, <3>2, <4>1
          <5>2. buf[pos].obj # buf[i].obj
            BY <1>2, <5>1, OvertakenDiffer
          <5>3. \A k \in buf[i].last..buf[pos].last : posted[k].move
            BY <1>0, <1>2, <5>1 DEF Overtaken, Run, Delivery!SameRun
          <5> QED
            BY <1>5, <1>p, <2>1, <4>1, <5>2, <5>3
        <4>2. CASE a \in DOMAIN log
          BY <1>0, <1>6, <2>1, <3>2, <4>2 DEF Logged, Run, Delivery!SameRun
        <4> QED
          BY <2>1, <4>1, <4>2
      <3> QED
        BY <1>1, <1>2, <3>1, <3>2 DEF Logged, Run, Delivery!SameRun
    <2>3. OrderKept'
      <3> SUFFICES ASSUME NEW a \in DOMAIN log', NEW b \in DOMAIN log', a < b,
                          log'[b] < log'[a]
                   PROVE  /\ \A k \in log'[b]..log'[a] : posted[k].move
                          /\ posted[log'[a]].obj # posted[log'[b]].obj
        BY <1>1 DEF OrderKept, Delivery!OrderKept, Delivery!SameRun
      <3>1. a \in DOMAIN log
        BY <1>0, <2>0, <2>1 DEF TypeOK
      <3>2. CASE b = z
        BY <1>5, <2>1, <3>1, <3>2 DEF Run, Delivery!SameRun
      <3>3. CASE b \in DOMAIN log
        BY <1>0, <2>1, <3>1, <3>3 DEF OrderKept, Delivery!OrderKept, Delivery!SameRun
      <3> QED
        BY <2>1, <3>2, <3>3
    <2> QED
      BY <1>3, <1>4, <2>2, <2>3 DEF OInv
  <1> QED
    BY <1>1, <1>p, <1>7, <1>8

\* While the loop goes on nothing changes; at its end what was dispatched
\* leaves the front of the buffer.
LEMMA CleanupOInv ==
    ASSUME IInv, OInv, Cleanup
    PROVE  OInv'
  <1>0. /\ Waiting /\ AsPosted /\ Behind /\ Overtaken /\ Apart /\ Logged /\ OrderKept
        /\ TypeOK /\ Shape
    BY DEF OInv, IInv
  <1>1. /\ pc \in {"handlers", "dropped"} /\ UNCHANGED <<posted, done, log>>
        /\ \/ pos < count /\ pos' = pos + 1 /\ pc' = "next" /\ buf' = buf
           \/ ~(pos < count) /\ buf' = SubSeq(buf, count + 1, Len(buf)) /\ pc' = "idle"
    BY DEF Cleanup, history
  <1>2. pos \in 1..count /\ count <= Len(buf) /\ count \in Nat /\ FirstOwned = pos + 1
    BY <1>0, <1>1 DEF Shape, TypeOK, FirstOwned
  <1>3. OrderKept'
    BY <1>0, <1>1 DEF OrderKept, Delivery!OrderKept, Delivery!SameRun
  <1>4. CASE pos < count
    <2>1. FirstOwned' = FirstOwned /\ buf' = buf
      BY <1>1, <1>2, <1>4 DEF FirstOwned
    <2>2. Waiting' /\ AsPosted' /\ Behind' /\ Overtaken' /\ Apart' /\ Logged'
      BY <1>0, <1>1, <2>1
         DEF Waiting, Awaits, AsPosted, Behind, Overtaken, Apart, Logged, Run, Delivery!SameRun
    <2> QED
      BY <1>3, <2>2 DEF OInv
  <1>5. CASE ~(pos < count)
    <2>1. FirstOwned' = 1 /\ FirstOwned = count + 1
      BY <1>1, <1>2, <1>5 DEF FirstOwned
    <2>2. /\ DOMAIN buf' = 1..(Len(buf) - count)
          /\ \A i \in DOMAIN buf' : buf'[i] = buf[i + count]
      <3>1. buf \in Seq(Event) /\ count \in Nat /\ count <= Len(buf)
        BY <1>0, <1>2 DEF TypeOK
      <3>2. buf' = SubSeq(buf, count + 1, Len(buf))
        BY <1>1, <1>5
      <3>3. /\ buf' \in Seq(Event) /\ Len(buf') = Len(buf) - count
            /\ \A i \in 1..(Len(buf) - count) : buf'[i] = buf[i + count]
        BY <3>1, <3>2, SuffixAt
      <3> QED
        BY <3>3
    <2>3. \A i \in DOMAIN buf' : i \in Nat /\ i >= 1 /\ i + count \in DOMAIN buf /\ i + count >= count + 1
      BY <1>2, <2>2, Positions
    <2>4. \A k \in DOMAIN buf : k >= count + 1 => k - count \in DOMAIN buf' /\ buf'[k - count] = buf[k]
      <3> SUFFICES ASSUME NEW k \in DOMAIN buf, k >= count + 1
                   PROVE  k - count \in DOMAIN buf' /\ buf'[k - count] = buf[k]
        OBVIOUS
      <3>1. k - count \in DOMAIN buf' /\ (k - count) + count = k
        BY <1>2, <2>2, Positions
      <3> QED
        BY <2>2, <3>1
    <2>5. Waiting'
      <3>1. ASSUME NEW n \in 1..Len(posted)
            PROVE  n \notin done' <=> \E i \in DOMAIN buf' : i >= 1 /\ buf'[i].last = n
        <4>1. n \notin done <=> \E i \in DOMAIN buf : i >= count + 1 /\ buf[i].last = n
          BY <1>0, <2>1 DEF Waiting, Awaits
        <4>2. ASSUME NEW i \in DOMAIN buf, i >= count + 1, buf[i].last = n
              PROVE  \E j \in DOMAIN buf' : j >= 1 /\ buf'[j].last = n
          BY <2>3, <2>4, <4>2
        <4>3. ASSUME NEW j \in DOMAIN buf', buf'[j].last = n
              PROVE  \E i \in DOMAIN buf : i >= count + 1 /\ buf[i].last = n
          BY <2>2, <2>3, <4>3
        <4> QED
          BY <1>1, <4>1, <4>2, <4>3
      <3> QED
        BY <1>0, <1>1, <2>1, <3>1 DEF Waiting, Awaits
    <2>6. AsPosted'
      BY <1>0, <1>1, <2>2, <2>3 DEF AsPosted
    <2>7. Behind'
      <3> SUFFICES ASSUME NEW j \in DOMAIN buf', NEW n \in 1..Len(posted), n > buf'[j].last
                   PROVE  posted[n].move \/ \E k \in DOMAIN buf' : k > j /\ buf'[k].last = n
        BY <1>1 DEF Behind
      <3>1. posted[n].move \/ \E k \in DOMAIN buf : k > j + count /\ buf[k].last = n
        BY <1>0, <2>2, <2>3 DEF Behind
      <3>2. ASSUME NEW k \in DOMAIN buf, k > j + count PROVE k >= count + 1 /\ k - count > j
        BY <1>2, <2>3, <3>2, Positions
      <3> QED
        BY <2>4, <3>1, <3>2
    <2>8. \A i, j \in DOMAIN buf' : i < j => i + count < j + count
      BY <1>2, <2>3
    <2>9. Overtaken'
      <3> SUFFICES ASSUME NEW i \in DOMAIN buf', NEW j \in DOMAIN buf', i < j,
                          buf'[j].last < buf'[i].last
                   PROVE  \A k \in buf'[j].last..buf'[i].last : posted[k].move
        BY <1>1 DEF Overtaken, Run, Delivery!SameRun
      <3> QED
        BY <1>0, <2>2, <2>3, <2>8 DEF Overtaken, Run, Delivery!SameRun
    <2>10. Apart'
      <3> SUFFICES ASSUME NEW i \in DOMAIN buf', NEW j \in DOMAIN buf', i < j,
                          buf'[i].move, buf'[j].move, buf'[i].obj = buf'[j].obj
                   PROVE  \E k \in DOMAIN buf' : i < k /\ k < j /\ ~buf'[k].move
        BY DEF Apart
      <3>1. PICK k \in DOMAIN buf : i + count < k /\ k < j + count /\ ~buf[k].move
        BY <1>0, <2>2, <2>3, <2>8 DEF Apart
      <3>2. k >= count + 1 /\ i < k - count /\ k - count < j
        BY <1>2, <2>3, <3>1, Positions
      <3> QED
        BY <2>4, <3>1, <3>2
    <2>11. Logged'
      <3>1. \A a \in DOMAIN log : log[a] \in 1..Len(posted)
        BY <1>0 DEF Logged
      <3>2. ASSUME NEW a \in DOMAIN log, NEW i \in DOMAIN buf', buf'[i].last < log[a]
            PROVE  /\ \A k \in buf'[i].last..log[a] : posted[k].move
                   /\ posted[log[a]].obj # buf'[i].obj
        BY <1>0, <2>1, <2>2, <2>3, <3>2 DEF Logged, Run, Delivery!SameRun
      <3> QED
        BY <1>1, <3>1, <3>2 DEF Logged, Run, Delivery!SameRun
    <2> QED
      BY <1>3, <2>5, <2>6, <2>7, <2>9, <2>10, <2>11 DEF OInv
  <1> QED
    BY <1>4, <1>5

\* Emptying the buffer with everything settled.
LEMMA DiscardOInv ==
    ASSUME IInv, OInv, buf' = <<>>, done' = DOMAIN posted, UNCHANGED <<posted, log>>
    PROVE  OInv'
  <1>1. DOMAIN buf' = {}
    OBVIOUS
  <1>2. done' = 1..Len(posted)
    BY Positions
  <1>3. OrderKept'
    BY DEF OInv, OrderKept, Delivery!OrderKept, Delivery!SameRun
  <1> QED
    BY <1>1, <1>2, <1>3
       DEF OInv, Waiting, Awaits, AsPosted, Behind, Overtaken, Apart, Logged

LEMMA SameOInv ==
    ASSUME IInv, OInv, UNCHANGED <<buf, posted, done, log>>, FirstOwned' = FirstOwned
    PROVE  OInv'
  BY DEF OInv, Waiting, Awaits, AsPosted, Behind, Overtaken, Apart, Logged, Run,
         OrderKept, Delivery!OrderKept, Delivery!SameRun

\* What a move does when no handler injects motion: it is pushed when every
\* event it could be folded into is beyond a signal that is no move.
LEMMA MoveCases ==
    ASSUME IInv, ~HandlerMoves, NEW o \in Object, Move(o)
    PROVE  /\ MayPost /\ pc = "idle" /\ FirstOwned = 1
           /\ posted' = Append(posted, [move |-> TRUE, obj |-> o])
           /\ UNCHANGED <<pc, pos, count, log, valid>>
           /\ \/ /\ PushEvent(NewEvent(TRUE, o, TRUE)) /\ done' = done
                 /\ \A i \in DOMAIN buf : buf[i].move /\ buf[i].obj = o =>
                        \E k \in DOMAIN buf : i < k /\ ~buf[k].move
              \/ \E i \in DOMAIN buf :
                    (\A k \in i..Len(buf) : buf[k].move) /\ buf[i].obj = o /\ Fold(i)
  <1>1. /\ MayPost /\ pc = "idle" /\ FirstOwned = 1
        /\ posted' = Append(posted, [move |-> TRUE, obj |-> o])
        /\ UNCHANGED <<pc, pos, count, log, valid>>
    BY DEF Move, MayPost, InHandler, FirstOwned
  <1>2. Dispatched = {}
    BY <1>1, Positions DEF Dispatched, IInv, Shape
  <1>3. PICK stale \in SUBSET Dispatched :
          \/ /\ Matches(o, stale) = {}
             /\ PushEvent(NewEvent(TRUE, o, TRUE)) /\ done' = done
          \/ \E i \in DOMAIN buf : IsLast(i, Matches(o, stale)) /\ Fold(i)
    BY DEF Move
  <1>4. \A i \in DOMAIN buf :
            i \in Matches(o, stale) <=> (\A k \in i..Len(buf) : buf[k].move) /\ buf[i].obj = o
    BY <1>2 DEF Matches
  <1>5. CASE Matches(o, stale) = {} /\ PushEvent(NewEvent(TRUE, o, TRUE)) /\ done' = done
    <2>1. ASSUME NEW i \in DOMAIN buf, buf[i].move, buf[i].obj = o
          PROVE  \E k \in DOMAIN buf : i < k /\ ~buf[k].move
      <3>1. PICK k \in i..Len(buf) : ~buf[k].move
        BY <1>4, <1>5, <2>1
      <3>2. k # i
        BY <2>1, <3>1
      <3>3. k \in DOMAIN buf /\ i < k
        BY <3>2, Positions
      <3> QED
        BY <3>1, <3>3
    <2> QED
      BY <1>1, <1>5, <2>1
  <1>6. CASE \E i \in DOMAIN buf : IsLast(i, Matches(o, stale)) /\ Fold(i)
    BY <1>1, <1>4, <1>6 DEF IsLast
  <1> QED
    BY <1>3, <1>5, <1>6

LEMMA NextOInv == ~HandlerMoves /\ IInv /\ OInv /\ [Next]_vars => OInv'
  <1> SUFFICES ASSUME ~HandlerMoves, IInv, OInv, [Next]_vars PROVE OInv'
    OBVIOUS
  <1>1. ASSUME NEW o \in Object \cup {NoObj}, NEW args \in BOOLEAN, Queue(o, args)
        PROVE  OInv'
    <2>1. /\ PushEvent(NewEvent(FALSE, o, args))
          /\ posted' = Append(posted, [move |-> FALSE, obj |-> o])
          /\ UNCHANGED <<pc, pos, count, done, log>>
      BY <1>1 DEF Queue
    <2> QED
      BY <2>1, PushOInv
  <1>2. ASSUME NEW o \in Object, Move(o) PROVE OInv'
    <2>1. CASE /\ PushEvent(NewEvent(TRUE, o, TRUE)) /\ done' = done
               /\ \A i \in DOMAIN buf : buf[i].move /\ buf[i].obj = o =>
                      \E k \in DOMAIN buf : i < k /\ ~buf[k].move
      <3>1. posted' = Append(posted, [move |-> TRUE, obj |-> o])
            /\ UNCHANGED <<pc, pos, count, done, log>>
        BY <1>2, <2>1, MoveCases
      <3> QED
        BY <2>1, <3>1, PushOInv
    <2>2. CASE \E i \in DOMAIN buf :
                  (\A k \in i..Len(buf) : buf[k].move) /\ buf[i].obj = o /\ Fold(i)
      <3>1. posted' = Append(posted, [move |-> TRUE, obj |-> o]) /\ pc = "idle"
            /\ UNCHANGED <<pc, pos, count, log>>
        BY <1>2, MoveCases
      <3> QED
        BY <2>2, <3>1, FoldOInv
    <2> QED
      BY <1>2, <2>1, <2>2, MoveCases
  <1>3. ASSUME NEW o \in Object, Invalidate(o) PROVE OInv'
    <2>1. UNCHANGED <<buf, posted, done, log>> /\ FirstOwned' = FirstOwned
      BY <1>3 DEF Invalidate, queueVars, history, FirstOwned
    <2> QED
      BY <2>1, SameOInv
  <1>4. CASE BeginDrain
    <2>1. UNCHANGED <<buf, posted, done, log>> /\ FirstOwned' = FirstOwned
      BY <1>4 DEF BeginDrain, FirstOwned
    <2> QED
      BY <2>1, SameOInv
  <1>5. CASE Teardown \/ FreshState
    <2>1. buf' = <<>> /\ done' = DOMAIN posted /\ UNCHANGED <<posted, log>>
      BY <1>5 DEF Teardown, FreshState
    <2> QED
      BY <2>1, DiscardOInv
  <1>6. CASE UNCHANGED vars
    <2>1. UNCHANGED <<buf, posted, done, log>> /\ FirstOwned' = FirstOwned
      BY <1>6 DEF vars, FirstOwned
    <2> QED
      BY <2>1, SameOInv
  <1> QED
    BY <1>1, <1>2, <1>3, <1>4, <1>5, <1>6, DispatchOInv, CleanupOInv DEF Next

THEOREM Ordered == ASSUME ~HandlerMoves PROVE Spec => [](IInv /\ OInv)
  <1>1. Spec => []IInv
    BY Inductive
  <1>2. IInv /\ OInv /\ [Next]_vars => OInv'
    BY NextOInv
  <1> QED
    BY <1>1, <1>2, InitOInv, PTL DEF Spec

(* Signals reach Lua in the order they were queued, but for moves of       *)
(* different objects with nothing but moves between.                       *)
THEOREM ChronologicalOrder == ASSUME ~HandlerMoves PROVE Spec => []OrderKept
  <1>1. OInv => OrderKept
    BY DEF OInv
  <1> QED
    BY <1>1, Ordered, PTL

-----------------------------------------------------------------------------
(* The queue implements EventDelivery: a step of the queue is a step of it *)
(* or leaves its variables alone.                                          *)

\* A post is not in one run with the newest when a signal of another kind is
\* behind it in the buffer.
LEMMA NoRunAcross ==
    ASSUME IInv, AsPosted, Overtaken, NEW i \in DOMAIN buf, NEW k \in DOMAIN buf,
           i < k, ~buf[k].move
    PROVE  ~Delivery!SameRun(buf[i].last, Len(posted))
  <1>1. ~posted[buf[k].last].move
    BY DEF AsPosted
  <1>2. buf[k].last \in Nat /\ buf[i].last \in Nat /\ buf[k].last # buf[i].last
        /\ buf[k].last <= Len(posted) /\ Len(posted) \in Nat
    BY Positions
  <1>3. CASE buf[k].last > buf[i].last
    <2>1. buf[k].last \in buf[i].last..Len(posted)
      BY <1>2, <1>3
    <2> QED
      BY <1>1, <2>1 DEF Delivery!SameRun
  <1>4. CASE buf[k].last < buf[i].last
    <2>1. buf[k].last \in buf[k].last..buf[i].last
      BY <1>2, <1>4
    <2> QED
      BY <1>1, <1>4, <2>1 DEF Overtaken, Run, Delivery!SameRun
  <1> QED
    BY <1>2, <1>3, <1>4

\* A pending post is the last of an event the drain has yet to dispatch.
LEMMA PendingAt ==
    ASSUME IInv, OInv, NEW m
    PROVE  m \in Delivery!Pending <=> \E i \in DOMAIN buf : i >= FirstOwned /\ buf[i].last = m
  <1>1. m \in Delivery!Pending <=> m \in 1..Len(posted) /\ m \notin done
    BY Positions DEF Delivery!Pending
  <1>2. \A i \in DOMAIN buf : buf[i].last \in 1..Len(posted)
    <2> SUFFICES ASSUME NEW i \in DOMAIN buf PROVE buf[i].last \in 1..Len(posted)
      OBVIOUS
    <2>1. buf[i].last >= 1
      BY DEF OInv, AsPosted
    <2> QED
      BY <2>1, Positions
  <1>3. m \in 1..Len(posted) => (m \notin done <=> Awaits(m))
    BY DEF OInv, Waiting
  <1> QED
    BY <1>1, <1>2, <1>3 DEF Awaits

LEMMA MoveImplements ==
    ASSUME IInv, OInv, ~HandlerMoves, NEW o \in Object, Move(o)
    PROVE  Delivery!PostMove(o)
  <1> DEFINE superseded == {m \in Delivery!Pending :
                                posted[m].obj = o /\ Delivery!SameRun(m, Len(posted))}
  <1>0. AsPosted /\ Behind /\ Overtaken /\ Apart
    BY DEF OInv
  <1>1. /\ Len(posted) < MaxPosts /\ FirstOwned = 1
        /\ posted' = Append(posted, [move |-> TRUE, obj |-> o])
        /\ UNCHANGED <<log, valid>>
    BY MoveCases DEF MayPost
  <1>2. \A m : m \in superseded =>
            \E i \in DOMAIN buf : /\ buf[i].last = m /\ buf[i].obj = o /\ buf[i].move
                                  /\ Delivery!SameRun(buf[i].last, Len(posted))
    <2> SUFFICES ASSUME NEW m \in superseded
                 PROVE  \E i \in DOMAIN buf :
                            /\ buf[i].last = m /\ buf[i].obj = o /\ buf[i].move
                            /\ Delivery!SameRun(buf[i].last, Len(posted))
      OBVIOUS
    <2>1. PICK i \in DOMAIN buf : buf[i].last = m
      BY PendingAt
    <2>2. posted[m].move
      <3>1. m \in m..Len(posted)
        BY <2>1, Positions
      <3> QED
        BY <3>1 DEF Delivery!SameRun
    <2> QED
      BY <1>0, <2>1, <2>2 DEF AsPosted
  <1>3. CASE /\ done' = done
             /\ \A i \in DOMAIN buf : buf[i].move /\ buf[i].obj = o =>
                    \E k \in DOMAIN buf : i < k /\ ~buf[k].move
    <2>1. superseded = {}
      BY <1>0, <1>2, <1>3, NoRunAcross
    <2> QED
      BY <1>1, <1>3, <2>1 DEF Delivery!PostMove
  <1>4. ASSUME NEW i \in DOMAIN buf, \A k \in i..Len(buf) : buf[k].move, buf[i].obj = o, Fold(i)
        PROVE  Delivery!PostMove(o)
    <2>1. done' = done \cup {buf[i].last}
      BY <1>4 DEF Fold
    <2>2. buf[i].last \in superseded
      <3>1. i >= FirstOwned
        BY <1>1, Positions
      <3>2. buf[i].last \in Delivery!Pending
        BY <3>1, PendingAt
      <3>3. posted[buf[i].last].obj = o
        BY <1>0, <1>4 DEF AsPosted
      <3>4. \A m \in 1..Len(posted) : m >= buf[i].last => posted[m].move
        BY <1>0, <1>4, TailRun
      <3>5. \A m \in buf[i].last..Len(posted) : m \in 1..Len(posted) /\ m >= buf[i].last
        <4>1. buf[i].last >= 1
          BY <1>0 DEF AsPosted
        <4> QED
          BY <4>1, Positions
      <3> QED
        BY <3>2, <3>3, <3>4, <3>5 DEF Delivery!SameRun
    <2>3. ASSUME NEW m \in superseded PROVE m = buf[i].last
      <3>1. PICK j \in DOMAIN buf : /\ buf[j].last = m /\ buf[j].obj = o /\ buf[j].move
                                    /\ Delivery!SameRun(buf[j].last, Len(posted))
        BY <1>2
      <3>2. buf[i].move
        BY <1>4, Positions
      <3>3. \A k \in DOMAIN buf : i < k => buf[k].move
        BY <1>4, Positions
      <3>4. CASE i < j
        BY <1>0, <1>4, <3>1, <3>2, <3>3, <3>4 DEF Apart
      <3>5. CASE j < i
        <4>1. PICK k \in DOMAIN buf : j < k /\ ~buf[k].move
          BY <1>0, <1>4, <3>1, <3>2, <3>5 DEF Apart
        <4> QED
          BY <1>0, <3>1, <4>1, NoRunAcross
      <3> QED
        BY <3>1, <3>4, <3>5, Positions
    <2>4. superseded = {buf[i].last}
      BY <2>2, <2>3
    <2> QED
      BY <1>1, <2>1, <2>4 DEF Delivery!PostMove
  <1> QED
    BY <1>3, <1>4, MoveCases

LEMMA DispatchImplements ==
    ASSUME IInv, OInv, Dispatch
    PROVE  \E n \in DOMAIN posted : Delivery!Settle(n)
  <1>1. /\ pc = "next" /\ UNCHANGED <<buf, pos, posted, valid>>
        /\ done' = done \cup {buf[pos].last}
        /\ log' = IF buf[pos].obj \in valid \cup {NoObj}
                  THEN Append(log, buf[pos].last) ELSE log
    BY DEF Dispatch, luaVars
  <1>2. pos \in DOMAIN buf /\ FirstOwned = pos
    <2>1. pos \in 1..count /\ count <= Len(buf) /\ count \in Nat
      BY <1>1 DEF IInv, Shape, TypeOK
    <2> QED
      BY <1>1, <2>1, Positions DEF FirstOwned
  <1>3. buf[pos].last \in Delivery!Pending
    <2>1. pos >= FirstOwned
      BY <1>2, Positions
    <2> QED
      BY <1>2, <2>1, PendingAt
  <1>4. posted[buf[pos].last].obj = buf[pos].obj
    BY <1>2 DEF OInv, AsPosted
  <1>5. ASSUME NEW m \in Delivery!Pending, m < buf[pos].last
        PROVE  Delivery!SameRun(m, buf[pos].last)
    <2>1. PICK i \in DOMAIN buf : i >= pos /\ buf[i].last = m
      BY <1>2, PendingAt
    <2>2. pos < i
      <3>1. i # pos
        BY <1>5, <1>2, <2>1, Positions
      <3> QED
        BY <1>2, <2>1, <3>1, Positions
    <2> QED
      BY <1>2, <1>5, <2>1, <2>2 DEF OInv, Overtaken, Run
  <1>6. Delivery!Settle(buf[pos].last)
    BY <1>1, <1>3, <1>4, <1>5 DEF Delivery!Settle
  <1> QED
    BY <1>3, <1>6 DEF Delivery!Pending

LEMMA StepImplements ==
    ASSUME ~HandlerMoves, IInv, OInv, [Next]_vars
    PROVE  [Delivery!Next]_(Delivery!vars)
  <1>1. ASSUME NEW o \in Object \cup {NoObj}, NEW args \in BOOLEAN, Queue(o, args)
        PROVE  Delivery!PostSignal(o)
    BY <1>1 DEF Queue, MayPost, Delivery!PostSignal
  <1>2. ASSUME NEW o \in Object, Move(o) PROVE Delivery!PostMove(o)
    BY <1>2, MoveImplements
  <1>3. ASSUME NEW o \in Object, Invalidate(o) PROVE Delivery!Invalidate(o)
    BY <1>3 DEF Invalidate, history, Delivery!Invalidate
  <1>4. CASE Teardown \/ FreshState
    <2>1. Delivery!Discard
      BY <1>4 DEF Teardown, FreshState, Delivery!Discard
    <2> QED
      BY <2>1 DEF Delivery!Next
  <1>5. CASE BeginDrain \/ Cleanup \/ UNCHANGED vars
    <2>1. UNCHANGED <<posted, done, log, valid>>
      BY <1>5 DEF BeginDrain, Cleanup, vars, luaVars, history
    <2> QED
      BY <2>1 DEF Delivery!vars
  <1>6. CASE Dispatch
    BY <1>6, DispatchImplements DEF Delivery!Next
  <1> QED
    BY <1>1, <1>2, <1>3, <1>4, <1>5, <1>6 DEF Next, Delivery!Next

(* The queue delivers what EventDelivery promises: each post is settled    *)
(* once, in order, superseded only by a move that follows it in its run.   *)
THEOREM Implements == ASSUME ~HandlerMoves PROVE Spec => DeliverySpec
  <1>1. Init => Delivery!Init
    BY DEF Init, Delivery!Init
  <1>2. IInv /\ OInv /\ [Next]_vars => [Delivery!Next]_(Delivery!vars)
    BY StepImplements
  <1> QED
    BY <1>1, <1>2, Ordered, PTL DEF Spec, DeliverySpec, Delivery!Spec

-----------------------------------------------------------------------------
(* Tags.  A loop over the list has dealt with the tags before its index    *)
(* (Passed), the one that moved under it excepted.                         *)

Hidden == {c \in managed : ~client_on_selected_tags(c)}

Balanced(t) == tagrefs[t] = Cardinality(Clients(t)) + IF t \in Active THEN 1 ELSE 0

TagShape ==
    /\ tags \in Seq(Tag) /\ \A i, j \in 1..Len(tags) : tags[i] = tags[j] => i = j
    /\ selected \subseteq Active
    /\ members \in [Tag -> [Client -> {0, 1}]] /\ tagrefs \in [Tag -> Int]
    /\ managed \subseteq Client /\ banned \subseteq Client /\ lazy \in BOOLEAN
    /\ missed \subseteq Client \X Tag

Looping(c) ==
    /\ taking.on = {c} /\ taking.i \in Nat \ {0} /\ taking.want \subseteq Active
    /\ taking \in [for : {"tags", "unmanage", "done"}, on : SUBSET Client, want : SUBSET Tag, i : Nat]
    /\ IF taking.for = "unmanage" THEN taking.want = {} /\ c \notin managed ELSE c \in managed

Task == taking = NoTask \/ \E c \in Client : Looping(c)

Passed ==
    taking.for \in {"tags", "unmanage"} =>
        \A c \in taking.on : \A j \in 1..Len(tags) :
            j < taking.i /\ tags[j] \notin taking.want /\ Tagged(c, tags[j]) => <<c, tags[j]>> \in missed

TagInv ==
    /\ TagShape /\ Task /\ Passed
    /\ \A t \in Tag : Balanced(t)
    /\ TagsHoldTheManaged /\ TagsAreAsAsked
    /\ ~lazy => banned = Hidden

LEMMA RemovedAt ==
    ASSUME NEW S, NEW s \in Seq(S), NEW i \in 1..Len(s)
    PROVE  /\ RemoveAt(s, i) \in Seq(S)
           /\ Len(RemoveAt(s, i)) = Len(s) - 1
           /\ \A j \in 1..(Len(s) - 1) :
                 RemoveAt(s, i)[j] = IF j < i THEN s[j] ELSE s[j + 1]
  <1> DEFINE a == SubSeq(s, 1, i - 1)
             b == SubSeq(s, i + 1, Len(s))
  <1>1. a \in Seq(S) /\ Len(a) = i - 1 /\ \A j \in 1..(i - 1) : a[j] = s[j]
    OBVIOUS
  <1>2. b \in Seq(S) /\ Len(b) = Len(s) - i /\ \A j \in 1..(Len(s) - i) : b[j] = s[j + i]
    OBVIOUS
  <1>3. RemoveAt(s, i) = a \o b
    BY DEF RemoveAt
  <1> HIDE DEF a, b
  <1>4. /\ a \o b \in Seq(S) /\ Len(a \o b) = Len(a) + Len(b)
        /\ \A j \in 1..(Len(a) + Len(b)) :
              (a \o b)[j] = IF j <= Len(a) THEN a[j] ELSE b[j - Len(a)]
    BY <1>1, <1>2, ConcatProperties
  <1>5. ASSUME NEW j \in 1..(Len(s) - 1)
        PROVE  (a \o b)[j] = IF j < i THEN s[j] ELSE s[j + 1]
    <2>1. CASE j < i
      BY <1>1, <1>2, <1>4, <2>1
    <2>2. CASE ~(j < i)
      <3>1. (a \o b)[j] = b[j - (i - 1)] /\ j - (i - 1) \in 1..(Len(s) - i)
        BY <1>1, <1>2, <1>4, <2>2
      <3>2. b[j - (i - 1)] = s[(j - (i - 1)) + i] /\ (j - (i - 1)) + i = j + 1
        BY <1>2, <3>1
      <3> QED
        BY <2>2, <3>1, <3>2
    <2> QED
      BY <2>1, <2>2
  <1> QED
    BY <1>1, <1>2, <1>3, <1>4, <1>5

LEMMA ActiveIs == TagShape => /\ Active \subseteq Tag
                              /\ \A t : t \in Active <=> \E j \in 1..Len(tags) : tags[j] = t
                              /\ Len(tags) \in Nat /\ DOMAIN tags = 1..Len(tags)
                              /\ \A j \in 1..Len(tags) : tags[j] \in Tag
  BY LenProperties, ElementOfSeq DEF TagShape, Active, ToSet

LEMMA ClientsAreFinite ==
    ASSUME NEW t PROVE IsFiniteSet(Clients(t)) /\ Cardinality(Clients(t)) \in Nat
  <1>1. Clients(t) \in SUBSET Client
    BY DEF Clients
  <1>2. IsFiniteSet(Clients(t))
    BY <1>1, ClientAssumption, FS_Subset
  <1> QED
    BY <1>2, FS_CardinalityType

\* A client is added to tags: their references grow with their lists.
LEMMA TagClientIs ==
    ASSUME TagShape, NEW c \in Client, NEW ts \in SUBSET Tag, tag_client(c, ts)
    PROVE  /\ members' \in [Tag -> [Client -> {0, 1}]] /\ tagrefs' \in [Tag -> Int]
           /\ \A t \in Tag, d \in Client : Tagged(d, t)' <=> Tagged(d, t) \/ (d = c /\ t \in ts)
           /\ \A t \in Tag : tagrefs'[t] - Cardinality(Clients(t))' = tagrefs[t] - Cardinality(Clients(t))
  <1>1. /\ members' = [t \in Tag |-> IF t \in ts /\ ~Tagged(c, t)
                                     THEN [members[t] EXCEPT ![c] = @ + 1] ELSE members[t]]
        /\ tagrefs' = [t \in Tag |-> IF t \in ts /\ ~Tagged(c, t) THEN tagrefs[t] + 1 ELSE tagrefs[t]]
    BY DEF tag_client, is_client_tagged
  <1>2. members' \in [Tag -> [Client -> {0, 1}]] /\ tagrefs' \in [Tag -> Int]
    BY <1>1 DEF TagShape, Tagged
  <1>3. \A t \in Tag, d \in Client : Tagged(d, t)' <=> Tagged(d, t) \/ (d = c /\ t \in ts)
    BY <1>1 DEF TagShape, Tagged
  <1>4. ASSUME NEW t \in Tag
        PROVE  tagrefs'[t] - Cardinality(Clients(t))' = tagrefs[t] - Cardinality(Clients(t))
    <2>1. CASE t \in ts /\ ~Tagged(c, t)
      <3>1. Clients(t)' = Clients(t) \cup {c} /\ c \notin Clients(t)
        BY <1>3, <2>1 DEF Clients
      <3>2. Cardinality(Clients(t) \cup {c}) = Cardinality(Clients(t)) + 1
        BY <3>1, ClientsAreFinite, FS_AddElement
      <3>3. tagrefs'[t] = tagrefs[t] + 1 /\ tagrefs[t] \in Int
        BY <1>1, <2>1 DEF TagShape
      <3> QED
        BY <3>1, <3>2, <3>3, ClientsAreFinite
    <2>2. CASE ~(t \in ts /\ ~Tagged(c, t))
      <3>1. Clients(t)' = Clients(t) /\ tagrefs'[t] = tagrefs[t]
        BY <1>1, <1>3, <2>2 DEF Clients
      <3> QED
        BY <3>1
    <2> QED
      BY <2>1, <2>2
  <1> QED
    BY <1>2, <1>3, <1>4

\* A tag leaves the list: those after it move one place to the front.
LEMMA DeactivatedIs ==
    ASSUME TagShape, NEW t \in Active, NEW i \in Nat, Deactivated(t, i), taking.on \subseteq Client
    PROVE  /\ tags' \in Seq(Tag) /\ Len(tags') = Len(tags) - 1
           /\ \A k \in 1..Len(tags), j \in 1..Len(tags') :
                  tags[k] = t => tags'[j] = IF j < k THEN tags[j] ELSE tags[j + 1]
           /\ \A m, n \in 1..Len(tags') : tags'[m] = tags'[n] => m = n
           /\ Active' = Active \ {t} /\ selected' \subseteq Active'
           /\ t \notin selected /\ selected' = selected => Active' \cap selected' = Active \cap selected
           /\ missed' \subseteq Client \X Tag
           /\ \A p \in missed : p[2] # t => p \in missed'
           /\ \A d \in taking.on : i + 1 \in 1..Len(tags) /\ Tagged(d, tags[i + 1]) => <<d, tags[i + 1]>> \in missed'
  <1>1. PICK k \in 1..Len(tags) : k = (CHOOSE j \in DOMAIN tags : tags[j] = t) /\ tags[k] = t
    BY ActiveIs
  <1>2. tags' = RemoveAt(tags, k)
    BY <1>1 DEF Deactivated
  <1>3. /\ tags' \in Seq(Tag) /\ Len(tags') = Len(tags) - 1
        /\ \A j \in 1..Len(tags') : tags'[j] = IF j < k THEN tags[j] ELSE tags[j + 1]
    <2>1. tags \in Seq(Tag)
      BY DEF TagShape
    <2> QED
      BY <1>2, <2>1, RemovedAt
  <1>4. \A m, n \in 1..Len(tags') : tags'[m] = tags'[n] => m = n
    <2> SUFFICES ASSUME NEW m \in 1..Len(tags'), NEW n \in 1..Len(tags'), tags'[m] = tags'[n]
                 PROVE  m = n
      OBVIOUS
    <2>1. PICK a \in 1..Len(tags), b \in 1..Len(tags) :
              /\ a = (IF m < k THEN m ELSE m + 1) /\ tags'[m] = tags[a]
              /\ b = (IF n < k THEN n ELSE n + 1) /\ tags'[n] = tags[b]
      BY <1>3, ActiveIs
    <2>2. a = b
      BY <2>1 DEF TagShape
    <2> QED
      BY <2>1, <2>2
  <1>5. Active' = Active \ {t}
    <2>1. ASSUME NEW u \in Active' PROVE u \in Active /\ u # t
      <3>1. PICK j \in 1..Len(tags') : tags'[j] = u
        BY <1>3, <2>1, LenProperties DEF Active, ToSet
      <3>2. PICK a \in 1..Len(tags) : a # k /\ tags[a] = u
        BY <1>3, <3>1, ActiveIs
      <3> QED
        BY <1>1, <3>2, ActiveIs DEF TagShape
    <2>2. ASSUME NEW u \in Active, u # t PROVE u \in Active'
      <3>1. PICK a \in 1..Len(tags) : a # k /\ tags[a] = u
        BY <1>1, <2>2, ActiveIs
      <3>2. PICK j \in 1..Len(tags') : j = IF a < k THEN a ELSE a - 1
        BY <1>3, <3>1, ActiveIs
      <3>3. tags'[j] = u
        BY <1>3, <3>1, <3>2, ActiveIs
      <3> QED
        BY <1>3, <3>3, LenProperties DEF Active, ToSet
    <2> QED
      BY <2>1, <2>2
  <1>6. selected' \subseteq Active' /\ (t \notin selected /\ selected' = selected => Active' \cap selected' = Active \cap selected)
    <2>1. \/ selected' = selected \ {t}
          \/ \E u \in Active' : selected' = {u}
      BY DEF Deactivated, Active
    <2> QED
      BY <1>5, <2>1 DEF TagShape
  <1>7. missed' = {p \in missed : p[2] # t}
                    \cup {p \in taking.on \X Active :
                             i < Len(tags) /\ p[2] = tags[i + 1] /\ Tagged(p[1], p[2])}
    BY DEF Deactivated
  <1>8. missed' \subseteq Client \X Tag /\ \A p \in missed : p[2] # t => p \in missed'
    BY <1>7, ActiveIs DEF TagShape
  <1>9. ASSUME NEW d \in taking.on, i + 1 \in 1..Len(tags), Tagged(d, tags[i + 1])
        PROVE  <<d, tags[i + 1]>> \in missed'
    <2>1. tags[i + 1] \in Active /\ i < Len(tags)
      BY <1>9, ActiveIs
    <2> QED
      BY <1>7, <1>9, <2>1
  <1>10. \A m \in 1..Len(tags) : tags[m] = t => m = k
    BY <1>1 DEF TagShape
  <1> QED
    BY <1>3, <1>4, <1>5, <1>6, <1>8, <1>9, <1>10

LEMMA InitTags == TagInit => TagInv
  <1> SUFFICES ASSUME TagInit PROVE TagInv
    OBVIOUS
  <1>1. tags = << >> /\ Len(tags) = 0 /\ tags \in Seq(Tag) /\ Active = {}
    BY EmptySeq DEF TagInit, Active, ToSet
  <1>2. \A t \in Tag : Clients(t) = {} /\ tagrefs[t] = 0
    BY DEF TagInit, Clients, Tagged, Ones
  <1>3. TagShape
    <2>1. members \in [Tag -> [Client -> {0, 1}]] /\ tagrefs \in [Tag -> Int]
      BY DEF TagInit, Ones
    <2>2. \A i, j \in 1..Len(tags) : tags[i] = tags[j] => i = j
      BY <1>1
    <2> QED
      BY <1>1, <2>1, <2>2 DEF TagInit, TagShape
  <1>4. Task /\ Passed /\ TagsHoldTheManaged /\ TagsAreAsAsked
    BY <1>1 DEF TagInit, Task, Passed, TagsHoldTheManaged, TagsAreAsAsked, NoTask
  <1>5. \A t \in Tag : Balanced(t)
    <2>1. Cardinality({}) = 0
      BY FS_EmptySet
    <2>2. ASSUME NEW t \in Tag PROVE Balanced(t)
      <3>1. Clients(t) = {} /\ tagrefs[t] = 0 /\ t \notin Active
        BY <1>1, <1>2
      <3> QED
        BY <2>1, <3>1 DEF Balanced
    <2> QED
      BY <2>2
  <1>6. banned = Hidden
    BY DEF TagInit, Hidden
  <1> QED
    BY <1>3, <1>4, <1>5, <1>6 DEF TagInv

\* What a step has to show of a client's lists, outside of any loop.
LEMMA TaskIs ==
    TagInv => /\ taking.on \subseteq Client /\ taking.want \subseteq Tag
              /\ NoneTaken => taking.on = {} /\ taking.for = "none"
              /\ ~NoneTaken => \E c \in Client : Looping(c)
  BY ActiveIs DEF TagInv, Task, NoneTaken, NoTask, Looping

LEMMA ManageTags ==
    ASSUME TagInv, NEW c \in Client, Manage(c)
    PROVE  TagInv'
  <1>1. PICK ts \in SUBSET Tag : tag_client(c, ts) /\ ts \subseteq Active
    BY ActiveIs DEF Manage, TagInv
  <1>2. /\ members' \in [Tag -> [Client -> {0, 1}]] /\ tagrefs' \in [Tag -> Int]
        /\ \A t \in Tag, d \in Client : Tagged(d, t)' <=> Tagged(d, t) \/ (d = c /\ t \in ts)
        /\ \A t \in Tag : tagrefs'[t] - Cardinality(Clients(t))' = tagrefs[t] - Cardinality(Clients(t))
    BY <1>1, TagClientIs DEF TagInv
  <1>3. /\ NoneTaken /\ lazy' /\ managed' = managed \cup {c} /\ banned' = banned \ {c}
        /\ tags' = tags /\ selected' = selected /\ taking' = taking /\ missed' = missed /\ Active' = Active
    BY DEF Manage, Active
  <1>4. TagShape'
    BY <1>2, <1>3 DEF TagInv, TagShape, Manage
  <1>5. taking' = NoTask
    BY <1>3 DEF NoneTaken
  <1>6. Task' /\ Passed' /\ TagsAreAsAsked'
    BY <1>5 DEF Task, Passed, TagsAreAsAsked, NoTask
  <1>7. \A t \in Tag : Balanced(t)'
    <2> SUFFICES ASSUME NEW t \in Tag PROVE Balanced(t)'
      OBVIOUS
    <2>1. Balanced(t) /\ tagrefs[t] \in Int /\ tagrefs'[t] \in Int /\ Cardinality(Clients(t)) \in Nat
      BY <1>2, ClientsAreFinite DEF TagInv, TagShape
    <2>2. Cardinality(Clients(t))' \in Nat
      <3>1. Clients(t)' \in SUBSET Client
        BY DEF Clients
      <3> QED
        BY <3>1, ClientAssumption, FS_Subset, FS_CardinalityType
    <2> QED
      BY <1>2, <1>3, <2>1, <2>2 DEF Balanced
  <1>8. TagsHoldTheManaged'
    BY ZenonT(30), <1>2, <1>3, ActiveIs DEF TagInv, TagsHoldTheManaged, Clients, NoneTaken, NoTask
  <1> QED
    BY <1>3, <1>4, <1>6, <1>7, <1>8 DEF TagInv

\* A round that takes the client off a tag.
LEMMA UntagTags ==
    ASSUME TagInv, NEW c \in Client, Looping(c), taking.for \in {"tags", "unmanage"},
           taking.i \in 1..Len(tags), NEW t, t = tags[taking.i], t \notin taking.want, Tagged(c, t),
           untag_client(c, t, taking.i), taking' = [taking EXCEPT !.i = @ + 1],
           managed' = managed, banned' = banned
    PROVE  TagInv'
  <1>0. t \in Tag /\ t \in Active /\ taking.on = {c} /\ taking.i \in Nat
    BY ActiveIs DEF TagInv, Looping
  <1>1. /\ members' = [members EXCEPT ![t][c] = @ - 1] /\ lazy'
    BY DEF untag_client
  <1>2. /\ members' \in [Tag -> [Client -> {0, 1}]]
        /\ \A u \in Tag, d \in Client : members'[u][d] > 0 <=> Tagged(d, u) /\ ~(u = t /\ d = c)
    BY <1>0, <1>1 DEF TagInv, TagShape, Tagged
  <1>3. /\ Clients(t)' = Clients(t) \ {c} /\ c \in Clients(t)
        /\ \A u \in Tag : u # t => Clients(u)' = Clients(u)
    BY <1>0, <1>2 DEF Clients, Tagged
  <1>4. Cardinality(Clients(t))' = Cardinality(Clients(t)) - 1
    <2>1. PICK S : S = Clients(t)
      OBVIOUS
    <2>2. IsFiniteSet(S) /\ c \in S
      BY <1>3, <2>1, ClientsAreFinite
    <2>3. Cardinality(S \ {c}) = Cardinality(S) - 1
      BY <2>2, FS_RemoveElement
    <2>4. Cardinality(Clients(t))' = Cardinality(Clients(t)')
      OBVIOUS
    <2> QED
      BY <1>3, <2>1, <2>3, <2>4
  <1>5. /\ taking'.on = {c} /\ taking'.want = taking.want /\ taking'.for = taking.for
        /\ taking'.i = taking.i + 1
        /\ taking' \in [for : {"tags", "unmanage", "done"}, on : SUBSET Client, want : SUBSET Tag, i : Nat]
    BY <1>0 DEF Looping
  <1>6. CASE Deactivated(t, taking.i) /\ tagrefs' = [tagrefs EXCEPT ![t] = @ - 2]
    <2>0. \A k \in 1..Len(tags), j \in 1..Len(tags') :
              tags[k] = t => tags'[j] = IF j < k THEN tags[j] ELSE tags[j + 1]
      BY <1>0, <1>6, DeactivatedIs DEF TagInv
    <2>1. \A j \in 1..Len(tags') : tags'[j] = IF j < taking.i THEN tags[j] ELSE tags[j + 1]
      BY <2>0
    <2>2. /\ tags' \in Seq(Tag) /\ Len(tags') = Len(tags) - 1 /\ Len(tags) \in Nat
          /\ \A m, n \in 1..Len(tags') : tags'[m] = tags'[n] => m = n
          /\ Active' = Active \ {t} /\ selected' \subseteq Active'
          /\ missed' \subseteq Client \X Tag
          /\ \A p \in missed : p[2] # t => p \in missed'
      BY ZenonT(30), <1>0, <1>6, DeactivatedIs, ActiveIs DEF TagInv
    <2>3. taking.i + 1 \in 1..Len(tags) /\ Tagged(c, tags[taking.i + 1]) => <<c, tags[taking.i + 1]>> \in missed'
      BY <1>0, <1>6, DeactivatedIs DEF TagInv
    <2>5. TagShape'
      <3>1. tagrefs' \in [Tag -> Int] /\ managed' \subseteq Client /\ banned' \subseteq Client /\ lazy' \in BOOLEAN
        BY <1>0, <1>1, <1>6 DEF TagInv, TagShape
      <3> QED
        BY <1>2, <2>2, <3>1 DEF TagShape
    <2>6. Task'
      BY <1>5, <2>2 DEF Task, Looping
    <2>7. Passed'
      <3> SUFFICES ASSUME NEW j \in 1..Len(tags'), j < taking.i + 1, tags'[j] \notin taking.want,
                          members'[tags'[j]][c] > 0
                   PROVE  <<c, tags'[j]>> \in missed'
        BY <1>5 DEF Passed, Tagged
      <3>1. CASE j < taking.i
        <4>1. tags'[j] = tags[j] /\ j \in 1..Len(tags) /\ tags[j] # t /\ tags[j] \in Tag
          BY <2>1, <2>2, <3>1, ActiveIs DEF TagInv, TagShape
        <4>2. Tagged(c, tags[j])
          BY <1>2, <4>1
        <4>3. <<c, tags[j]>> \in missed
          BY <1>0, <3>1, <4>1, <4>2 DEF TagInv, Passed
        <4> QED
          BY <2>2, <4>1, <4>3
      <3>2. CASE j = taking.i
        <4>1. tags'[j] = tags[taking.i + 1] /\ taking.i + 1 \in 1..Len(tags)
          BY <2>1, <2>2, <3>2
        <4>2. Tagged(c, tags[taking.i + 1])
          BY <1>2, <4>1, ActiveIs DEF TagInv
        <4> QED
          BY <2>3, <4>1, <4>2
      <3> QED
        BY <1>0, <3>1, <3>2
    <2>8. \A u \in Tag : Balanced(u)'
      <3> SUFFICES ASSUME NEW u \in Tag PROVE Balanced(u)'
        OBVIOUS
      <3>1. Balanced(u) /\ tagrefs[u] \in Int /\ Cardinality(Clients(u)) \in Nat
        BY ClientsAreFinite DEF TagInv, TagShape
      <3>2. CASE u = t
        <4>1. Balanced(t) /\ tagrefs[t] \in Int /\ Cardinality(Clients(t)) \in Nat
          BY <1>0, ClientsAreFinite DEF TagInv, TagShape
        <4>2. Balanced(t)'
          BY <1>0, <1>4, <1>6, <2>2, <4>1 DEF TagInv, TagShape, Balanced
        <4> QED
          BY <3>2, <4>2 DEF Balanced, Clients, Tagged
      <3>3. CASE u # t
        <4>1. Clients(u)' = Clients(u) /\ tagrefs'[u] = tagrefs[u] /\ (u \in Active' <=> u \in Active)
          BY <1>3, <1>6, <2>2, <3>3 DEF TagInv, TagShape
        <4> QED
          BY <3>1, <4>1 DEF Balanced
      <3> QED
        BY <3>2, <3>3
    <2>9. TagsHoldTheManaged'
      <3> SUFFICES ASSUME NEW u \in Active', NEW d \in Clients(u)', d \notin managed', d \notin taking'.on
                   PROVE  <<d, u>> \in missed'
        BY ZenonT(30) DEF TagsHoldTheManaged
      <3>1. u \in Active /\ u # t /\ u \in Tag /\ d \in Clients(u)
        BY <1>3, <2>2, ActiveIs DEF TagInv
      <3>2. <<d, u>> \in missed
        BY <1>0, <1>5, <3>1 DEF TagInv, TagsHoldTheManaged
      <3> QED
        BY <2>2, <3>1, <3>2
    <2>10. TagsAreAsAsked'
      BY <1>5 DEF TagsAreAsAsked
    <2> QED
      BY <1>1, <2>5, <2>6, <2>7, <2>8, <2>9, <2>10 DEF TagInv
  <1>7. CASE tagrefs' = [tagrefs EXCEPT ![t] = @ - 1] /\ UNCHANGED <<tags, selected, missed>>
    <2>1. Active' = Active /\ tags' = tags /\ selected' = selected /\ missed' = missed
      BY <1>7 DEF Active
    <2>2. TagShape'
      BY <1>0, <1>1, <1>2, <1>7, <2>1 DEF TagInv, TagShape
    <2>3. Task'
      BY <1>5, <2>1 DEF Task, Looping
    <2>4. Passed'
      <3> SUFFICES ASSUME NEW j \in 1..Len(tags), j < taking.i + 1, tags[j] \notin taking.want,
                          members'[tags[j]][c] > 0
                   PROVE  <<c, tags[j]>> \in missed
        BY <1>5, <2>1 DEF Passed, Tagged
      <3>1. tags[j] # t /\ Tagged(c, tags[j])
        BY <1>2, ActiveIs DEF TagInv
      <3>2. j < taking.i
        BY <1>0, <3>1
      <3> QED
        BY <1>0, <3>1, <3>2 DEF TagInv, Passed
    <2>5. \A u \in Tag : Balanced(u)'
      <3> SUFFICES ASSUME NEW u \in Tag PROVE Balanced(u)'
        OBVIOUS
      <3>1. Balanced(u) /\ tagrefs[u] \in Int /\ Cardinality(Clients(u)) \in Nat
        BY ClientsAreFinite DEF TagInv, TagShape
      <3>2. CASE u = t
        <4>1. Balanced(t) /\ tagrefs[t] \in Int /\ Cardinality(Clients(t)) \in Nat
          BY <1>0, ClientsAreFinite DEF TagInv, TagShape
        <4>2. Balanced(t)'
          BY <1>0, <1>4, <1>7, <2>1, <4>1 DEF TagInv, TagShape, Balanced
        <4> QED
          BY <3>2, <4>2 DEF Balanced, Clients, Tagged
      <3>3. CASE u # t
        <4>1. Clients(u)' = Clients(u) /\ tagrefs'[u] = tagrefs[u] /\ (u \in Active' <=> u \in Active)
          BY <1>3, <1>7, <2>1, <3>3 DEF TagInv, TagShape
        <4> QED
          BY <3>1, <4>1 DEF Balanced
      <3> QED
        BY <3>2, <3>3
    <2>6. TagsHoldTheManaged'
      BY ZenonT(30), <1>3, <1>5, <1>0, <2>1, ActiveIs DEF TagInv, TagsHoldTheManaged
    <2>7. TagsAreAsAsked'
      BY <1>5 DEF TagsAreAsAsked
    <2> QED
      BY <1>1, <2>2, <2>3, <2>4, <2>5, <2>6, <2>7 DEF TagInv
  <1> QED
    BY <1>6, <1>7 DEF untag_client

LEMMA RoundTags ==
    ASSUME TagInv, Round
    PROVE  TagInv'
  <1>0. PICK c \in Client : Looping(c)
    BY DEF Round, TagInv, Task, NoTask
  <1>1. taking.on = {c} /\ (CHOOSE x \in taking.on : TRUE) = c /\ taking.i \in Nat \ {0}
    BY <1>0 DEF Looping
  <1>2. /\ taking.for \in {"tags", "unmanage"} /\ taking.i \in 1..Len(tags)
        /\ taking' = [taking EXCEPT !.i = @ + 1] /\ managed' = managed /\ banned' = banned
    BY <1>1, ActiveIs DEF Round, TagInv
  <1>3. PICK t : t = tags[taking.i]
    OBVIOUS
  <1>4. CASE t \notin taking.want /\ Tagged(c, t)
    <2>1. untag_client(c, t, taking.i)
      BY <1>1, <1>3, <1>4 DEF Round, is_client_tagged
    <2> QED
      BY <1>0, <1>2, <1>3, <1>4, <2>1, UntagTags
  <1>5. CASE ~(t \notin taking.want /\ Tagged(c, t))
    <2>1. UNCHANGED <<tags, selected, members, tagrefs, lazy, missed>>
      BY <1>1, <1>3, <1>5 DEF Round, is_client_tagged
    <2>2. /\ taking'.on = {c} /\ taking'.want = taking.want /\ taking'.for = taking.for
          /\ taking'.i = taking.i + 1
          /\ taking' \in [for : {"tags", "unmanage", "done"}, on : SUBSET Client, want : SUBSET Tag, i : Nat]
      BY <1>0, <1>2 DEF Looping
    <2>3. TagShape' /\ Active' = Active
      BY <1>2, <2>1 DEF TagInv, TagShape, Active
    <2>4. Task'
      BY <1>0, <1>1, <1>2, <2>2, <2>3 DEF Task, Looping
    <2>5. Passed'
      BY <1>1, <1>2, <1>3, <1>5, <2>1, <2>2 DEF TagInv, Passed, Tagged
    <2>6. (\A u \in Tag : Balanced(u)') /\ TagsHoldTheManaged' /\ TagsAreAsAsked' /\ (~lazy' => banned' = Hidden')
      BY <1>1, <1>2, <2>1, <2>2, <2>3
         DEF TagInv, Balanced, TagsHoldTheManaged, TagsAreAsAsked, Clients, Tagged, Hidden, client_on_selected_tags
    <2> QED
      BY <2>3, <2>4, <2>5, <2>6 DEF TagInv
  <1> QED
    BY <1>4, <1>5

\* After the loop the tags that were asked for are set.
LEMMA TagAllTags ==
    ASSUME TagInv, TagAll
    PROVE  TagInv'
  <1>0. PICK c \in Client : Looping(c)
    BY DEF TagAll, TagInv, Task, NoTask
  <1>1. taking.on = {c} /\ taking.want \subseteq Active /\ taking.want \in SUBSET Tag /\ taking.for = "tags"
        /\ c \in managed /\ taking.i \in Nat /\ taking.i > Len(tags)
    BY <1>0 DEF Looping, TagAll
  <1>2. /\ tag_client(c, taking.want)
        /\ lazy' = (lazy \/ taking.want \ {t \in Tag : Tagged(c, t)} # {})
        /\ tags' = tags /\ selected' = selected /\ managed' = managed /\ banned' = banned
        /\ missed' = missed /\ Active' = Active
    BY <1>1 DEF TagAll, Active
  <1>3. /\ members' \in [Tag -> [Client -> {0, 1}]] /\ tagrefs' \in [Tag -> Int]
        /\ \A t \in Tag, d \in Client : Tagged(d, t)' <=> Tagged(d, t) \/ (d = c /\ t \in taking.want)
        /\ \A t \in Tag : tagrefs'[t] - Cardinality(Clients(t))' = tagrefs[t] - Cardinality(Clients(t))
    BY <1>0, <1>1, <1>2, TagClientIs DEF TagInv
  <1>4. /\ taking'.on = {c} /\ taking'.want = taking.want /\ taking'.for = "done" /\ taking'.i = taking.i
        /\ taking' \in [for : {"tags", "unmanage", "done"}, on : SUBSET Client, want : SUBSET Tag, i : Nat]
    BY <1>0 DEF TagAll, Looping
  <1>5. TagShape'
    BY <1>2, <1>3 DEF TagInv, TagShape
  <1>6. Task'
    BY <1>0, <1>1, <1>2, <1>4 DEF Task, Looping
  <1>7. Passed'
    BY <1>4 DEF Passed
  <1>8. \A t \in Tag : Balanced(t)'
    <2> SUFFICES ASSUME NEW t \in Tag PROVE Balanced(t)'
      OBVIOUS
    <2>1. Balanced(t) /\ tagrefs[t] \in Int /\ tagrefs'[t] \in Int /\ Cardinality(Clients(t)) \in Nat
      BY <1>3, ClientsAreFinite DEF TagInv, TagShape
    <2>2. Cardinality(Clients(t))' \in Nat
      <3>1. Clients(t)' \in SUBSET Client
        BY DEF Clients
      <3> QED
        BY <3>1, ClientAssumption, FS_Subset, FS_CardinalityType
    <2> QED
      BY <1>2, <1>3, <2>1, <2>2 DEF Balanced
  <1>9. TagsHoldTheManaged'
    BY ZenonT(30), <1>1, <1>2, <1>3, <1>4, ActiveIs DEF TagInv, TagsHoldTheManaged, Clients
  <1>10. TagsAreAsAsked'
    <2>1. \A j \in 1..Len(tags) : tags[j] \notin taking.want /\ Tagged(c, tags[j]) => <<c, tags[j]>> \in missed
      BY <1>1, ActiveIs DEF TagInv, Passed
    <2>2. \A t \in Active : t \notin taking.want /\ Tagged(c, t)' => <<c, t>> \in missed
      BY <1>3, <2>1, ActiveIs DEF TagInv
    <2>3. \A t \in taking.want : Tagged(c, t)'
      BY <1>1, <1>3
    <2> QED
      BY <1>2, <1>4, <2>2, <2>3 DEF TagsAreAsAsked
  <1>11. ~lazy' => banned' = Hidden'
    <2> SUFFICES ASSUME ~lazy' PROVE banned' = Hidden'
      OBVIOUS
    <2>1. ~lazy /\ \A t \in taking.want : Tagged(c, t)
      BY <1>2
    <2>2. \A t \in Tag, d \in Client : Tagged(d, t)' <=> Tagged(d, t)
      BY <1>3, <2>1
    <2>3. Hidden' = Hidden
      BY <1>2, <2>2, ActiveIs DEF TagInv, TagShape, Hidden, client_on_selected_tags
    <2> QED
      BY <1>2, <2>1, <2>3 DEF TagInv
  <1> QED
    BY <1>5, <1>6, <1>7, <1>8, <1>9, <1>10, <1>11 DEF TagInv

LEMMA TagReturnTags ==
    ASSUME TagInv, TagReturn
    PROVE  TagInv'
  <1>0. /\ taking' = NoTask /\ Active' = Active
        /\ UNCHANGED <<tags, selected, members, tagrefs, managed, banned, lazy, missed>>
    BY DEF TagReturn, Active
  <1>1. TagShape'
    BY <1>0 DEF TagInv, TagShape
  <1>2. Task' /\ Passed' /\ TagsAreAsAsked'
    BY <1>0 DEF Task, Passed, TagsAreAsAsked, NoTask
  <1>3. (\A u \in Tag : Balanced(u)') /\ (~lazy' => banned' = Hidden')
    BY <1>0 DEF TagInv, Balanced, Clients, Tagged, Hidden, client_on_selected_tags
  <1>4. TagsHoldTheManaged'
    <2> SUFFICES ASSUME NEW t \in Active, NEW d \in Clients(t), d \notin managed
                 PROVE  <<d, t>> \in missed
      BY ZenonT(30), <1>0 DEF TagsHoldTheManaged, Clients, Tagged
    <2>1. CASE d \notin taking.on
      BY <2>1 DEF TagInv, TagsHoldTheManaged
    <2>2. CASE d \in taking.on
      <3>1. Looping(d)
        BY <2>2 DEF TagInv, Task, NoTask, Looping
      <3>2. taking.for = "unmanage" /\ taking.want = {} /\ taking.i > Len(tags) /\ taking.i \in Nat
        BY <3>1 DEF Looping, TagReturn
      <3>3. PICK j \in 1..Len(tags) : tags[j] = t
        BY ActiveIs DEF TagInv
      <3>4. j < taking.i /\ Tagged(d, tags[j])
        BY <3>2, <3>3, ActiveIs DEF TagInv, Clients
      <3> QED
        BY <2>2, <3>2, <3>3, <3>4 DEF TagInv, Passed
    <2> QED
      BY <2>1, <2>2
  <1> QED
    BY <1>1, <1>2, <1>3, <1>4 DEF TagInv

\* A loop begins: c:tags(want) keeps its client, client_unmanage() drops it.
LEMMA BeginTags ==
    ASSUME TagInv, NEW c \in Client, NEW want \in SUBSET Active,
           luaA_client_tags(c, want) \/ client_unmanage(c)
    PROVE  TagInv'
  <1>0. /\ NoneTaken /\ c \in managed /\ missed' = {p \in missed : p[1] # c} /\ Active' = Active
        /\ taking'.on = {c} /\ taking'.i = 1 /\ taking'.want \subseteq Active
        /\ taking' \in [for : {"tags", "unmanage", "done"}, on : SUBSET Client, want : SUBSET Tag, i : Nat]
        /\ taking'.for # "done" /\ managed' \subseteq managed /\ managed \subseteq managed' \cup {c}
        /\ IF taking'.for = "unmanage" THEN taking'.want = {} /\ c \notin managed' ELSE c \in managed'
        /\ banned' = banned \ (managed \ managed')
        /\ UNCHANGED <<tags, selected, members, tagrefs, lazy>>
    <2>1. CASE luaA_client_tags(c, want)
      BY <2>1, ActiveIs DEF luaA_client_tags, TagInv, Active
    <2>2. CASE client_unmanage(c)
      BY <2>2, ActiveIs DEF client_unmanage, TagInv, Active
    <2> QED
      BY <2>1, <2>2
  <1>1. TagShape'
    BY <1>0 DEF TagInv, TagShape
  <1>2. Task' /\ TagsAreAsAsked' /\ Passed'
    BY <1>0, ActiveIs DEF TagInv, Task, Looping, TagsAreAsAsked, Passed
  <1>3. \A u \in Tag : Balanced(u)'
    BY <1>0 DEF TagInv, Balanced, Clients, Tagged
  <1>4. ~lazy' => banned' = Hidden'
    BY <1>0 DEF TagInv, TagShape, Hidden, client_on_selected_tags, Tagged
  <1>5. TagsHoldTheManaged'
    BY ZenonT(30), <1>0 DEF TagInv, TagsHoldTheManaged, Clients, Tagged, NoneTaken, NoTask
  <1> QED
    BY <1>1, <1>2, <1>3, <1>4, <1>5 DEF TagInv

\* A step outside of the loops, which leaves lists of clients that balance.
LEMMA IdleTags ==
    ASSUME NoneTaken, taking' = taking
    PROVE  Task' /\ Passed' /\ TagsAreAsAsked'
  BY DEF NoneTaken, Task, Passed, TagsAreAsAsked, NoTask

LEMMA ActivateTags ==
    ASSUME TagInv, NEW t \in Tag, luaA_tag_set_activated(t)
    PROVE  TagInv'
  <1>0. /\ NoneTaken /\ taking' = taking /\ t \notin Active /\ Clients(t) = {} /\ tagrefs[t] = 0
        /\ tags' = Append(tags, t) /\ tagrefs' = [tagrefs EXCEPT ![t] = 1]
        /\ UNCHANGED <<selected, members, managed, banned, lazy, missed>>
    BY DEF luaA_tag_set_activated, Unused
  <1>1. /\ tags' \in Seq(Tag) /\ Len(tags') = Len(tags) + 1 /\ Len(tags) \in Nat
        /\ \A j \in 1..Len(tags) : tags'[j] = tags[j] /\ tags[j] # t
        /\ tags'[Len(tags) + 1] = t
    <2>1. tags \in Seq(Tag)
      BY DEF TagInv, TagShape
    <2> QED
      BY <1>0, <2>1, ActiveIs, AppendProperties DEF TagInv
  <1>2. Active' = Active \cup {t}
    <2>1. \A u : u \in Active' <=> \E j \in 1..(Len(tags) + 1) : tags'[j] = u
      BY <1>1, LenProperties DEF Active, ToSet
    <2>2. ASSUME NEW u \in Active PROVE u \in Active'
      <3>1. PICK j \in 1..Len(tags) : tags[j] = u
        BY <2>2, ActiveIs DEF TagInv
      <3> QED
        BY <1>1, <2>1, <3>1
    <2>3. ASSUME NEW u \in Active' PROVE u \in Active \cup {t}
      <3>1. PICK j \in 1..(Len(tags) + 1) : tags'[j] = u
        BY <2>1
      <3>2. CASE j = Len(tags) + 1
        BY <1>1, <3>1, <3>2
      <3>3. CASE j # Len(tags) + 1
        BY <1>1, <3>1, <3>3, ActiveIs DEF TagInv
      <3> QED
        BY <3>2, <3>3
    <2>4. t \in Active'
      BY <1>1, <2>1
    <2> QED
      BY <2>2, <2>3, <2>4
  <1>3. \A m, n \in 1..Len(tags') : tags'[m] = tags'[n] => m = n
    <2> SUFFICES ASSUME NEW m \in 1..Len(tags'), NEW n \in 1..Len(tags'), tags'[m] = tags'[n]
                 PROVE  m = n
      OBVIOUS
    <2>1. \A j \in 1..Len(tags') : j \in 1..Len(tags) \/ j = Len(tags) + 1
      BY <1>1
    <2>2. CASE m \in 1..Len(tags) /\ n \in 1..Len(tags)
      BY <1>1, <2>2 DEF TagInv, TagShape
    <2>3. CASE m = Len(tags) + 1 \/ n = Len(tags) + 1
      BY <1>1, <2>1, <2>3
    <2> QED
      BY <2>1, <2>2, <2>3
  <1>4. TagShape'
    BY <1>0, <1>1, <1>2, <1>3 DEF TagInv, TagShape
  <1>5. \A u \in Tag : Balanced(u)'
    <2> SUFFICES ASSUME NEW u \in Tag PROVE Balanced(u)'
      OBVIOUS
    <2>1. Clients(u)' = Clients(u)
      BY <1>0 DEF Clients, Tagged
    <2>2. CASE u = t
      <3>1. Clients(u)' = {} /\ tagrefs'[u] = 1 /\ u \in Active'
        BY <1>0, <1>2, <2>1, <2>2 DEF TagInv, TagShape
      <3> QED
        BY <3>1, FS_EmptySet DEF Balanced
    <2>3. CASE u # t
      BY <1>0, <1>2, <2>1, <2>3 DEF TagInv, TagShape, Balanced
    <2> QED
      BY <2>2, <2>3
  <1>6. TagsHoldTheManaged'
    BY ZenonT(30), <1>0, <1>2 DEF TagInv, TagsHoldTheManaged, Clients, Tagged
  <1>7. ~lazy' => banned' = Hidden'
    <2>1. Active' \cap selected' = Active \cap selected
      BY <1>0, <1>2 DEF TagInv, TagShape
    <2> QED
      BY <1>0, <2>1 DEF TagInv, Hidden, client_on_selected_tags, Tagged
  <1> QED
    BY <1>0, <1>4, <1>5, <1>6, <1>7, IdleTags DEF TagInv

\* A tag that is deleted leaves the list; the clients it still has stay.
LEMMA DeletedTags ==
    ASSUME TagInv, NoneTaken, NEW t \in Active, Deactivated(t, 0)
    PROVE  /\ tags' \in Seq(Tag) /\ \A m, n \in 1..Len(tags') : tags'[m] = tags'[n] => m = n
           /\ Active' = Active \ {t} /\ selected' \subseteq Active'
           /\ t \notin selected /\ selected' = selected => Active' \cap selected' = Active \cap selected
           /\ missed' \subseteq Client \X Tag
           /\ \A p \in missed : p[2] # t => p \in missed'
  BY DeactivatedIs, TaskIs DEF TagInv

LEMMA DeleteTags ==
    ASSUME TagInv, NEW t \in Tag, Delete(t)
    PROVE  TagInv'
  <1>0. /\ NoneTaken /\ t \in Active /\ Deactivated(t, 0) /\ taking' = taking
        /\ tagrefs' = [tagrefs EXCEPT ![t] = @ - 1]
        /\ lazy' = (lazy \/ t \in selected \/ selected' # selected)
        /\ UNCHANGED <<members, managed, banned>>
    BY DEF Delete
  <1>1. /\ tags' \in Seq(Tag) /\ \A m, n \in 1..Len(tags') : tags'[m] = tags'[n] => m = n
        /\ Active' = Active \ {t} /\ selected' \subseteq Active'
        /\ t \notin selected /\ selected' = selected => Active' \cap selected' = Active \cap selected
        /\ missed' \subseteq Client \X Tag
        /\ \A p \in missed : p[2] # t => p \in missed'
    BY <1>0, DeletedTags
  <1>2. TagShape'
    BY <1>0, <1>1 DEF TagInv, TagShape
  <1>3. \A u \in Tag : Balanced(u)'
    <2> SUFFICES ASSUME NEW u \in Tag PROVE Balanced(u)'
      OBVIOUS
    <2>1. /\ Clients(u)' = Clients(u) /\ Balanced(u) /\ tagrefs[u] \in Int
          /\ Cardinality(Clients(u)) \in Nat
      BY <1>0, ClientsAreFinite DEF Clients, Tagged, TagInv, TagShape
    <2>2. tagrefs'[u] = IF u = t THEN tagrefs[u] - 1 ELSE tagrefs[u]
      BY <1>0 DEF TagInv, TagShape
    <2> QED
      BY <1>0, <1>1, <2>1, <2>2 DEF Balanced
  <1>4. TagsHoldTheManaged'
    <2> SUFFICES ASSUME NEW u \in Active', NEW d \in Clients(u), d \notin managed
                 PROVE  <<d, u>> \in missed'
      BY ZenonT(30), <1>0 DEF TagsHoldTheManaged, Clients, Tagged
    <2>1. <<d, u>> \in missed
      BY <1>0, <1>1 DEF TagInv, TagsHoldTheManaged, NoneTaken, NoTask
    <2> QED
      BY <1>1, <2>1
  <1>5. ~lazy' => banned' = Hidden'
    BY <1>0, <1>1 DEF TagInv, Hidden, client_on_selected_tags, Tagged
  <1> QED
    BY <1>0, <1>2, <1>3, <1>4, <1>5, IdleTags DEF TagInv

\* tag:clients(want): those that go and those that come are counted.
LEMMA TagClientsTags ==
    ASSUME TagInv, NEW t \in Tag, NEW want \in SUBSET managed, luaA_tag_clients(t, want)
    PROVE  TagInv'
  <1> DEFINE off == Clients(t) \ want
             fresh == want \ Clients(t)
             goes == t \in Volatile /\ off # {} /\ off = Clients(t)
  <1>0. /\ NoneTaken /\ t \in Active /\ taking' = taking /\ managed' = managed /\ banned' = banned
        /\ members' = [members EXCEPT ![t] =
                             [c \in Client |-> IF c \in off THEN 0 ELSE IF c \in fresh THEN 1 ELSE @[c]]]
        /\ tagrefs' = [tagrefs EXCEPT ![t] =
                          @ + Cardinality(fresh) - Cardinality(off) - IF goes THEN 1 ELSE 0]
        /\ IF goes THEN Deactivated(t, 0) ELSE UNCHANGED <<tags, selected, missed>>
        /\ lazy' = (lazy \/ off \cup fresh # {})
    BY DEF luaA_tag_clients
  <1>1. want \in SUBSET Client /\ IsFiniteSet(want) /\ IsFiniteSet(off) /\ IsFiniteSet(fresh)
    <2>1. want \in SUBSET Client /\ off \in SUBSET Client /\ fresh \in SUBSET Client
      BY DEF TagInv, TagShape, Clients
    <2> QED
      BY <2>1, ClientAssumption, FS_Subset
  <1>2. Cardinality(off) \in Nat /\ Cardinality(fresh) \in Nat /\ Cardinality(want) \in Nat
    BY <1>1, FS_CardinalityType
  <1>3. Cardinality(want) = Cardinality(Clients(t)) + Cardinality(fresh) - Cardinality(off)
    <2>1. IsFiniteSet(Clients(t)) /\ Cardinality(Clients(t)) \in Nat
      BY ClientsAreFinite
    <2>2. Cardinality(off) = Cardinality(Clients(t)) - Cardinality(Clients(t) \cap want)
      BY <2>1, FS_Difference
    <2>3. Cardinality(fresh) = Cardinality(want) - Cardinality(want \cap Clients(t))
      BY <1>1, FS_Difference
    <2>4. want \cap Clients(t) = Clients(t) \cap want
      OBVIOUS
    <2>5. Cardinality(Clients(t) \cap want) \in Nat
      BY <2>1, FS_Intersection, FS_CardinalityType
    <2>6. PICK a \in Nat, b \in Nat, k \in Nat, m \in Nat, n \in Nat :
              /\ a = Cardinality(off) /\ b = Cardinality(fresh) /\ k = Cardinality(Clients(t) \cap want)
              /\ m = Cardinality(Clients(t)) /\ n = Cardinality(want)
      BY <1>2, <2>1, <2>5
    <2>7. a = m - k /\ b = n - k
      BY <2>2, <2>3, <2>4, <2>6
    <2> QED
      BY <2>6, <2>7
  <1>4. /\ members' \in [Tag -> [Client -> {0, 1}]]
        /\ \A u \in Tag : u # t => members'[u] = members[u]
        /\ \A d \in Client : members'[t][d] > 0 <=> d \in want
    <2>1. members'[t] = [c \in Client |-> IF c \in off THEN 0 ELSE IF c \in fresh THEN 1 ELSE members[t][c]]
      BY <1>0 DEF TagInv, TagShape
    <2>2. members'[t] \in [Client -> {0, 1}]
      BY <2>1 DEF TagInv, TagShape
    <2>3. \A d \in Client : members'[t][d] > 0 <=> d \in want
      BY <2>1 DEF TagInv, TagShape, Clients, Tagged
    <2>4. \A u \in Tag : u # t => members'[u] = members[u]
      BY <1>0 DEF TagInv, TagShape
    <2>5. members' \in [Tag -> [Client -> {0, 1}]]
      BY <1>0, <2>1, <2>2 DEF TagInv, TagShape
    <2> QED
      BY <2>3, <2>4, <2>5
  <1>5. Clients(t)' = want /\ \A u \in Tag : u # t => Clients(u)' = Clients(u)
    BY <1>1, <1>4 DEF Clients, Tagged
  <1>6. /\ tags' \in Seq(Tag) /\ \A m, n \in 1..Len(tags') : tags'[m] = tags'[n] => m = n
        /\ Active' = (IF goes THEN Active \ {t} ELSE Active) /\ selected' \subseteq Active'
        /\ missed' \subseteq Client \X Tag
        /\ \A p \in missed : p[2] # t => p \in missed'
    <2>1. CASE goes
      BY <1>0, <2>1, DeletedTags
    <2>2. CASE ~goes
      BY <1>0, <2>2 DEF TagInv, TagShape, Active
    <2> QED
      BY <2>1, <2>2
  <1>7. TagShape'
    <2>1. tagrefs' \in [Tag -> Int]
      BY <1>0, <1>2 DEF TagInv, TagShape
    <2> QED
      BY <1>0, <1>4, <1>6, <2>1 DEF TagInv, TagShape
  <1>8. \A u \in Tag : Balanced(u)'
    <2> SUFFICES ASSUME NEW u \in Tag PROVE Balanced(u)'
      OBVIOUS
    <2>1. CASE u # t
      <3>1. tagrefs'[u] = tagrefs[u] /\ (u \in Active' <=> u \in Active) /\ Balanced(u)
        BY <1>0, <1>6, <2>1 DEF TagInv, TagShape
      <3> QED
        BY <1>5, <2>1, <3>1 DEF Balanced
    <2>2. CASE u = t
      <3>1. tagrefs[t] = Cardinality(Clients(t)) + 1
        BY <1>0 DEF TagInv, Balanced
      <3>2. tagrefs'[t] = tagrefs[t] + Cardinality(fresh) - Cardinality(off) - IF goes THEN 1 ELSE 0
        BY <1>0 DEF TagInv, TagShape
      <3>3. tagrefs'[t] = Cardinality(want) + IF t \in Active' THEN 1 ELSE 0
        BY <1>0, <1>2, <1>3, <1>6, <3>1, <3>2, ClientsAreFinite
      <3> QED
        BY <1>5, <2>2, <3>3 DEF Balanced
    <2> QED
      BY <2>1, <2>2
  <1>9. TagsHoldTheManaged'
    <2> SUFFICES ASSUME NEW u \in Active', NEW d \in Clients(u)', d \notin managed
                 PROVE  <<d, u>> \in missed'
      BY ZenonT(30), <1>0 DEF TagsHoldTheManaged
    <2>1. u \in Active /\ u \in Tag /\ u # t /\ d \in Clients(u)
      BY <1>5, <1>6, ActiveIs DEF TagInv
    <2>2. <<d, u>> \in missed
      BY <1>0, <2>1 DEF TagInv, TagsHoldTheManaged, NoneTaken, NoTask
    <2> QED
      BY <1>6, <2>1, <2>2
  <1>10. ~lazy' => banned' = Hidden'
    <2> SUFFICES ASSUME ~lazy' PROVE banned' = Hidden'
      OBVIOUS
    <2>1. ~lazy /\ ~goes /\ Clients(t) = want
      BY <1>0
    <2>2. selected' = selected /\ Active' = Active
      BY <1>0, <1>6, <2>1
    <2>3. \A u \in Tag : Clients(u)' = Clients(u)
      BY <1>5, <2>1
    <2>4. \A u \in Tag, d \in Client : members'[u][d] > 0 <=> members[u][d] > 0
      BY <2>3 DEF Clients, Tagged
    <2>5. Hidden' = Hidden
      BY <1>0, <2>2, <2>4, ActiveIs DEF TagInv, TagShape, Hidden, client_on_selected_tags, Tagged
    <2> QED
      BY <1>0, <2>1, <2>5 DEF TagInv
  <1> QED
    BY <1>0, <1>7, <1>8, <1>9, <1>10, IdleTags DEF TagInv

LEMMA ViewTags ==
    ASSUME TagInv, NEW t \in Tag, NEW view \in BOOLEAN, tag_view(t, view)
    PROVE  TagInv'
  <1>0. /\ NoneTaken /\ t \in Active /\ lazy' /\ taking' = taking
        /\ selected' = (IF view THEN selected \cup {t} ELSE selected \ {t})
        /\ UNCHANGED <<tags, members, tagrefs, managed, banned, missed>> /\ Active' = Active
    BY DEF tag_view, Active
  <1>1. TagShape'
    BY <1>0 DEF TagInv, TagShape
  <1>2. (\A u \in Tag : Balanced(u)') /\ TagsHoldTheManaged'
    BY <1>0 DEF TagInv, Balanced, Clients, Tagged, TagsHoldTheManaged
  <1> QED
    BY <1>0, <1>1, <1>2, IdleTags DEF TagInv

LEMMA BanTags ==
    ASSUME TagInv, banning_refresh
    PROVE  TagInv'
  <1>0. /\ NoneTaken /\ lazy' = FALSE /\ taking' = taking /\ banned' = Hidden
        /\ UNCHANGED <<tags, selected, members, tagrefs, managed, missed>> /\ Active' = Active
    BY DEF banning_refresh, Active, Hidden
  <1>1. TagShape'
    <2>1. Hidden \subseteq Client
      BY DEF Hidden, TagInv, TagShape
    <2> QED
      BY <1>0, <2>1 DEF TagInv, TagShape
  <1>2. (\A u \in Tag : Balanced(u)') /\ TagsHoldTheManaged' /\ banned' = Hidden'
    BY <1>0 DEF TagInv, Balanced, Clients, Tagged, TagsHoldTheManaged, Hidden, client_on_selected_tags
  <1> QED
    BY <1>0, <1>1, <1>2, IdleTags DEF TagInv

LEMMA DropTags ==
    ASSUME TagInv, luaA_state_drop_object_pointers
    PROVE  TagInv'
  <1>0. /\ NoneTaken /\ taking' = taking /\ lazy' \in BOOLEAN
        /\ tags' = << >> /\ selected' = {} /\ managed' = {} /\ banned' = {} /\ missed' = {}
        /\ members' = [t \in Tag |-> [c \in Client |-> 0]] /\ tagrefs' = [t \in Tag |-> 0]
    BY DEF luaA_state_drop_object_pointers, Ones, TagInv, TagShape
  <1>1. tags' \in Seq(Tag) /\ Len(tags') = 0 /\ Active' = {}
    BY <1>0, EmptySeq DEF Active, ToSet
  <1>2. TagShape'
    <2>1. members' \in [Tag -> [Client -> {0, 1}]] /\ tagrefs' \in [Tag -> Int]
      BY <1>0
    <2>2. \A i, j \in 1..Len(tags') : tags'[i] = tags'[j] => i = j
      BY <1>1
    <2> QED
      BY <1>0, <1>1, <2>1, <2>2 DEF TagShape
  <1>3. \A u \in Tag : Balanced(u)'
    <2>1. Cardinality({}) = 0
      BY FS_EmptySet
    <2>2. ASSUME NEW u \in Tag PROVE Balanced(u)'
      <3>1. Clients(u)' = {} /\ tagrefs'[u] = 0 /\ u \notin Active'
        BY <1>0, <1>1 DEF Clients, Tagged
      <3> QED
        BY <2>1, <3>1 DEF Balanced
    <2> QED
      BY <2>2
  <1>4. TagsHoldTheManaged' /\ banned' = Hidden'
    BY <1>0, <1>1 DEF TagsHoldTheManaged, Hidden
  <1> QED
    BY <1>0, <1>2, <1>3, <1>4, IdleTags DEF TagInv

LEMMA NextTags == TagInv /\ [TagNext]_tagVars => TagInv'
  <1> SUFFICES ASSUME TagInv, [TagNext]_tagVars PROVE TagInv'
    OBVIOUS
  <1>1. CASE UNCHANGED tagVars
    BY <1>1 DEF tagVars, TagInv, TagShape, Task, Looping, Passed, Balanced, TagsHoldTheManaged,
                TagsAreAsAsked, Hidden, client_on_selected_tags, Clients, Tagged, Active
  <1>2. ASSUME NEW c \in Client, Manage(c) PROVE TagInv'
    BY <1>2, ManageTags
  <1>3. ASSUME NEW c \in Client, client_unmanage(c) PROVE TagInv'
    BY <1>3, BeginTags
  <1>4. ASSUME NEW c \in Client, NEW want \in SUBSET Active, luaA_client_tags(c, want) PROVE TagInv'
    BY <1>4, BeginTags
  <1>5. ASSUME NEW t \in Tag, NEW want \in SUBSET managed, luaA_tag_clients(t, want) PROVE TagInv'
    BY <1>5, TagClientsTags
  <1>6. ASSUME NEW t \in Tag, luaA_tag_set_activated(t) PROVE TagInv'
    BY <1>6, ActivateTags
  <1>7. ASSUME NEW t \in Tag, Delete(t) PROVE TagInv'
    BY <1>7, DeleteTags
  <1>8. ASSUME NEW t \in Tag, NEW view \in BOOLEAN, tag_view(t, view) PROVE TagInv'
    BY <1>8, ViewTags
  <1>9. CASE Round
    BY <1>9, RoundTags
  <1>10. CASE TagAll
    BY <1>10, TagAllTags
  <1>11. CASE TagReturn
    BY <1>11, TagReturnTags
  <1>12. CASE banning_refresh
    BY <1>12, BanTags
  <1>13. CASE luaA_state_drop_object_pointers
    BY <1>13, DropTags
  <1> QED
    BY <1>1, <1>2, <1>3, <1>4, <1>5, <1>6, <1>7, <1>8, <1>9, <1>10, <1>11, <1>12, <1>13 DEF TagNext

\* Whatever Lua deletes under a loop, each tag is referenced once for the list
\* and once for each client, holds the managed only, has what was asked for,
\* and who is hidden is of no tag that is seen (objects/tag.c, banning.c).
THEOREM TagsAreSound == TagSpec => []TagsSound
  <1>1. TagInv => TagsSound
    <2> SUFFICES ASSUME TagInv PROVE TagsSound
      OBVIOUS
    <2>1. TagsAreHeld
      <3>1. \A t \in Tag, c \in Client : members[t][c] \in {0, 1}
        BY DEF TagInv, TagShape
      <3> QED
        BY <3>1 DEF TagInv, TagsAreHeld, Balanced
    <2>2. BansFollowTags
      BY DEF TagInv, BansFollowTags, Hidden
    <2> QED
      BY <2>1, <2>2 DEF TagInv, TagsSound
  <1> QED
    BY <1>1, InitTags, NextTags, PTL DEF TagSpec

-----------------------------------------------------------------------------
(* One window's states.  What Lua heard of the maximized states is kept up  *)
(* while the window is away (Heard), which is when its layers may change    *)
(* without a word; and fullscreen is entered from a box the window has.     *)

HeardInv ==
    /\ heard \in [on : SUBSET Layers, max : SUBSET Ways, min : BOOLEAN]
    /\ on \subseteq Layers /\ max \subseteq Ways /\ cleared \subseteq Ways
    /\ heard.min = min /\ heard.max = max \cup cleared
    /\ phase = "mapped" => heard.on = on

TaskbarInv == TaskbarsKnow /\ handle \subseteq [full : BOOLEAN, max : BOOLEAN, min : BOOLEAN]

\* Whether a window that is fullscreen has a box to go back to.
BackInv ==
    /\ phase = "mapped" => box # NoBox
    /\ "fullscreen" \in on => prev = restore /\ prev # NoBox

LEMMA BoxesAreSome == WholeOutput # NoBox /\ \A b \in Box : b # NoBox
  <1>1. Cardinality(Box) \in Nat
    BY BoxAssumption, FS_CardinalityType
  <1> QED
    BY <1>1, BoxAssumption DEF WholeOutput, NoBox

LEMMA InitWindow == WindowInit => HeardInv /\ TaskbarInv /\ BackInv /\ on = {}
  <1> SUFFICES ASSUME WindowInit PROVE HeardInv /\ TaskbarInv /\ BackInv /\ on = {}
    OBVIOUS
  <1>1. HeardInv
    BY DEF WindowInit, HeardInv
  <1>2. TaskbarInv /\ BackInv /\ on = {}
    BY DEF WindowInit, TaskbarInv, TaskbarsKnow, BackInv
  <1> QED
    BY <1>1, <1>2

\* Telling the handle one field leaves the others.
LEMMA FullTold ==
    ASSUME handle \subseteq [full : BOOLEAN, max : BOOLEAN, min : BOOLEAN], NEW filled \in BOOLEAN
    PROVE  \A h \in Told(filled) : /\ h \in [full : BOOLEAN, max : BOOLEAN, min : BOOLEAN]
                                 /\ \E g \in handle : h.min = g.min /\ h.max = g.max
  <1>1. ASSUME NEW g \in handle
        PROVE  /\ [g EXCEPT !.full = filled] \in [full : BOOLEAN, max : BOOLEAN, min : BOOLEAN]
               /\ [g EXCEPT !.full = filled].min = g.min /\ [g EXCEPT !.full = filled].max = g.max
    OBVIOUS
  <1> QED
    BY <1>1 DEF Told

LEMMA LayerWindow ==
    ASSUME NEW l \in Layers, NEW v \in BOOLEAN, SetLayer(l, v)
    PROVE  /\ HeardInv => HeardInv'
           /\ TaskbarInv => TaskbarInv'
           /\ BackInv /\ (l = "fullscreen" => phase = "mapped") => BackInv'
           /\ on' \in {{l}, on \ {l}}
  <1>1. ASSUME HeardInv PROVE HeardInv'
    <2>1. on' \subseteq Layers /\ heard' = [heard EXCEPT !.on = on']
      BY <1>1 DEF SetLayer, HeardInv
    <2>2. /\ heard' \in [on : SUBSET Layers, max : SUBSET Ways, min : BOOLEAN]
          /\ heard'.on = on' /\ heard'.max = heard.max /\ heard'.min = heard.min
      BY <1>1, <2>1 DEF HeardInv
    <2> QED
      BY <1>1, <2>1, <2>2 DEF SetLayer, HeardInv
  <1>2. ASSUME TaskbarInv PROVE TaskbarInv'
    <2>0. PICK filled : filled = ("fullscreen" \in on')
      OBVIOUS
    <2>1. filled \in BOOLEAN
      BY <2>0
    <2>2. handle' = Told(filled) \/ handle' = handle
      BY <2>0 DEF SetLayer
    <2>5. handle \subseteq [full : BOOLEAN, max : BOOLEAN, min : BOOLEAN]
      BY <1>2 DEF TaskbarInv
    <2>3. \A h \in handle' : /\ h \in [full : BOOLEAN, max : BOOLEAN, min : BOOLEAN]
                             /\ \E g \in handle : h.min = g.min /\ h.max = g.max
      BY <2>1, <2>2, <2>5, FullTold
    <2>4. min' = min /\ max' = max /\ cleared' = cleared
      BY DEF SetLayer
    <2> QED
      BY <1>2, <2>3, <2>4 DEF TaskbarInv, TaskbarsKnow
  <1>3. BackInv /\ (l = "fullscreen" => phase = "mapped") => BackInv'
    BY BoxesAreSome DEF SetLayer, BackInv, Layers
  <1>4. on' \in {{l}, on \ {l}}
    BY DEF SetLayer
  <1> QED
    BY <1>1, <1>2, <1>3, <1>4

\* The ways that change are heard of, and no longer among those nobody told.
LEMMA MaximizedWindow ==
    ASSUME HeardInv, NEW way \in Ways, NEW v \in BOOLEAN, client_set_maximized_common(way, v)
    PROVE  HeardInv' /\ (TaskbarInv => TaskbarInv') /\ (BackInv => BackInv')
  <1>a. PICK next : next = Maximized(IF v THEN max \cup {way} ELSE max \ {way})
    OBVIOUS
  <1>b. PICK told : told = (max \ next) \cup (next \ max)
    OBVIOUS
  <1>1. /\ next = Maximized(IF v THEN max \cup {way} ELSE max \ {way})
        /\ told = (max \ next) \cup (next \ max) /\ max' = next
        /\ heard' = [heard EXCEPT !.max = (@ \ told) \cup (next \cap told)]
        /\ cleared' = cleared \ told
        /\ handle' = IF "both" \in told THEN {[h EXCEPT !.max = "both" \in next] : h \in handle}
                     ELSE handle
    BY <1>a, <1>b DEF client_set_maximized_common
  <1>2. next \subseteq Ways /\ told \subseteq Ways
    BY <1>1 DEF Maximized, Ways, HeardInv
  <1>3. UNCHANGED <<phase, on, min, prev, restore>> /\ box' \in Box \cup {box}
    BY DEF client_set_maximized_common
  <1>4. HeardInv'
    <2>1. (heard.max \ told) \cup (next \cap told) = next \cup (cleared \ told)
      BY <1>1 DEF HeardInv
    <2>2. /\ heard' \in [on : SUBSET Layers, max : SUBSET Ways, min : BOOLEAN]
          /\ heard'.on = heard.on /\ heard'.max = next \cup (cleared \ told) /\ heard'.min = heard.min
      BY <1>1, <1>2, <2>1 DEF HeardInv
    <2> QED
      BY <1>1, <1>2, <1>3, <2>2 DEF HeardInv
  <1>5. ASSUME TaskbarInv PROVE TaskbarInv'
    <2>1. CASE "both" \in told
      <3>a. PICK both : both = ("both" \in next)
        OBVIOUS
      <3>0. both \in BOOLEAN
        BY <3>a
      <3>1. ASSUME NEW g \in handle
            PROVE  /\ [g EXCEPT !.max = both] \in [full : BOOLEAN, max : BOOLEAN, min : BOOLEAN]
                   /\ [g EXCEPT !.max = both].min = g.min /\ [g EXCEPT !.max = both].max = both
        BY <1>5, <3>0 DEF TaskbarInv
      <3>2. handle' = {[h EXCEPT !.max = both] : h \in handle}
        BY <1>1, <2>1, <3>a
      <3>3. \A h \in handle' : /\ h \in [full : BOOLEAN, max : BOOLEAN, min : BOOLEAN] /\ h.max = both
                               /\ \E g \in handle : h.min = g.min
        BY <3>1, <3>2
      <3> QED
        BY <1>1, <1>3, <1>5, <3>a, <3>3 DEF TaskbarInv, TaskbarsKnow
    <2>2. CASE "both" \notin told
      BY <1>1, <1>3, <1>5, <2>2 DEF TaskbarInv, TaskbarsKnow
    <2> QED
      BY <2>1, <2>2
  <1>6. BackInv => BackInv'
    BY <1>3, BoxesAreSome DEF BackInv
  <1> QED
    BY <1>4, <1>5, <1>6

LEMMA MinimizedWindow ==
    ASSUME NEW v \in BOOLEAN, client_set_minimized(v)
    PROVE  (HeardInv => HeardInv') /\ (TaskbarInv => TaskbarInv') /\ (BackInv => BackInv')
  <1>1. /\ UNCHANGED <<phase, on, max, box, prev, restore, cleared>> /\ min' = v
        /\ handle' = {[h EXCEPT !.min = v] : h \in handle} /\ heard' = [heard EXCEPT !.min = v]
    BY DEF client_set_minimized
  <1>2. ASSUME HeardInv PROVE HeardInv'
    <2>1. /\ heard' \in [on : SUBSET Layers, max : SUBSET Ways, min : BOOLEAN]
          /\ heard'.on = heard.on /\ heard'.max = heard.max /\ heard'.min = v
      BY <1>1, <1>2 DEF HeardInv
    <2> QED
      BY <1>1, <1>2, <2>1 DEF HeardInv
  <1>3. ASSUME TaskbarInv PROVE TaskbarInv'
    <2>1. ASSUME NEW g \in handle
          PROVE  /\ [g EXCEPT !.min = v] \in [full : BOOLEAN, max : BOOLEAN, min : BOOLEAN]
                 /\ [g EXCEPT !.min = v].min = v /\ [g EXCEPT !.min = v].max = g.max
      BY <1>3 DEF TaskbarInv
    <2>2. \A h \in handle' : /\ h \in [full : BOOLEAN, max : BOOLEAN, min : BOOLEAN] /\ h.min = v
                             /\ \E g \in handle : h.max = g.max
      BY <1>1, <2>1
    <2> QED
      BY <1>1, <1>3, <2>2 DEF TaskbarInv, TaskbarsKnow
  <1> QED
    BY <1>1, <1>2, <1>3 DEF BackInv

\* What the window's client asks for: the maximized states go without a word,
\* and are remembered as such.
LEMMA FullscreenWindow ==
    ASSUME HeardInv, NEW filled \in BOOLEAN, setfullscreen(filled), UNCHANGED <<phase, min, handle>>
    PROVE  /\ HeardInv'
           /\ TaskbarInv => TaskbarInv'
           /\ BackInv /\ (filled => phase = "mapped") => BackInv'
           /\ on' = IF filled THEN on \cup {"fullscreen"} ELSE on \ {"fullscreen"}
  <1>1. /\ on' = IF filled THEN on \cup {"fullscreen"} ELSE on \ {"fullscreen"}
        /\ \/ max' = max /\ cleared' = cleared
           \/ max' = {} /\ cleared' = cleared \cup max
    BY DEF setfullscreen
  <1>2. HeardInv'
    <2>1. CASE phase # "mapped"
      BY <1>1, <2>1 DEF setfullscreen, HeardInv, Layers
    <2>2. CASE phase = "mapped"
      <3>1. heard' = [heard EXCEPT !.on = IF filled THEN @ \cup {"fullscreen"} ELSE @ \ {"fullscreen"}]
        BY <2>2 DEF setfullscreen
      <3>2. heard.on = on /\ on' \subseteq Layers
        BY <1>1, <2>2 DEF HeardInv, Layers
      <3>3. /\ heard' \in [on : SUBSET Layers, max : SUBSET Ways, min : BOOLEAN]
            /\ heard'.on = on' /\ heard'.max = heard.max /\ heard'.min = heard.min
        BY <1>1, <3>1, <3>2 DEF HeardInv
      <3> QED
        BY <1>1, <3>2, <3>3 DEF HeardInv
    <2> QED
      BY <2>1, <2>2
  <1>3. TaskbarInv => TaskbarInv'
    BY <1>1 DEF TaskbarInv, TaskbarsKnow
  <1>4. BackInv /\ (filled => phase = "mapped") => BackInv'
    BY BoxesAreSome DEF setfullscreen, Kept, BackInv
  <1> QED
    BY <1>1, <1>2, <1>3, <1>4

LEMMA MapWindow ==
    ASSUME NEW b \in Box, mapnotify(b)
    PROVE  (HeardInv => HeardInv') /\ (HeardInv => TaskbarInv') /\ (BackInv => BackInv')
  <1>1. /\ heard' = [heard EXCEPT !.on = on] /\ UNCHANGED <<on, min, prev, restore>>
        /\ \/ max' = max /\ cleared' = cleared
           \/ max' = {} /\ cleared' = cleared \cup max
    BY DEF mapnotify
  <1>2. ASSUME HeardInv PROVE HeardInv'
    <2>1. /\ heard' \in [on : SUBSET Layers, max : SUBSET Ways, min : BOOLEAN]
          /\ heard'.on = on /\ heard'.max = heard.max /\ heard'.min = heard.min
      BY <1>1, <1>2 DEF HeardInv
    <2> QED
      BY <1>1, <1>2, <2>1 DEF HeardInv
  <1>3. ASSUME HeardInv PROVE TaskbarInv'
    <2>a. PICK filled : filled = ("fullscreen" \in on)
      OBVIOUS
    <2>b. PICK both : both = ("both" \in max)
      OBVIOUS
    <2>1. filled \in BOOLEAN /\ both \in BOOLEAN
      BY <2>a, <2>b
    <2>2. handle' = {[full |-> filled, max |-> both, min |-> min]} /\ min \in BOOLEAN
      BY <1>3, <2>a, <2>b DEF mapnotify, HeardInv
    <2>3. \A h \in handle' : /\ h \in [full : BOOLEAN, max : BOOLEAN, min : BOOLEAN]
                             /\ h.min = min /\ h.max = both
      BY <2>1, <2>2
    <2>4. min' = min /\ ("both" \in max' => both) /\ (both => "both" \in max' \cup cleared')
      BY <1>1, <2>b
    <2> QED
      BY <2>3, <2>4 DEF TaskbarInv, TaskbarsKnow
  <1>4. BackInv => BackInv'
    BY BoxesAreSome DEF mapnotify, BackInv
  <1> QED
    BY <1>2, <1>3, <1>4

LEMMA MoveWindow ==
    ASSUME NEW b \in Box, LuaMoves(b)
    PROVE  (HeardInv => HeardInv') /\ (TaskbarInv => TaskbarInv') /\ (BackInv => BackInv')
  BY BoxesAreSome DEF LuaMoves, HeardInv, TaskbarInv, TaskbarsKnow, BackInv

LEMMA OtherWindow ==
    ASSUME unmapnotify \/ Started \/ UNCHANGED windowVars
    PROVE  (HeardInv => HeardInv') /\ (TaskbarInv => TaskbarInv') /\ (BackInv => BackInv') /\ on' = on
  BY DEF unmapnotify, Started, windowVars, HeardInv, TaskbarInv, TaskbarsKnow, BackInv

\* Whatever else is asked for, all parties know.
LEMMA NextHeard == HeardInv /\ TaskbarInv /\ [WindowNext]_windowVars => HeardInv' /\ TaskbarInv'
  <1> SUFFICES ASSUME HeardInv, TaskbarInv, [WindowNext]_windowVars PROVE HeardInv' /\ TaskbarInv'
    OBVIOUS
  <1>1. ASSUME NEW l \in Layers, NEW v \in BOOLEAN, SetLayer(l, v) PROVE HeardInv' /\ TaskbarInv'
    BY <1>1, LayerWindow
  <1>2. ASSUME NEW way \in Ways, NEW v \in BOOLEAN, client_set_maximized_common(way, v)
        PROVE  HeardInv' /\ TaskbarInv'
    BY <1>2, MaximizedWindow
  <1>3. ASSUME NEW v \in BOOLEAN, client_set_minimized(v) PROVE HeardInv' /\ TaskbarInv'
    BY <1>3, MinimizedWindow
  <1>4. ASSUME NEW filled \in BOOLEAN, setfullscreen(filled), UNCHANGED <<phase, min, handle>>
        PROVE  HeardInv' /\ TaskbarInv'
    BY <1>4, FullscreenWindow
  <1>5. ASSUME NEW b \in Box, LuaMoves(b) \/ mapnotify(b) PROVE HeardInv' /\ TaskbarInv'
    BY <1>5, MoveWindow, MapWindow
  <1>6. CASE unmapnotify \/ Started \/ UNCHANGED windowVars
    BY <1>6, OtherWindow
  <1>7. ASSUME NEW v \in BOOLEAN,
               \/ client_set_above(v) \/ client_set_below(v) \/ client_set_ontop(v)
               \/ client_set_fullscreen(v)
        PROVE  HeardInv' /\ TaskbarInv'
    BY <1>1, <1>7 DEF client_set_above, client_set_below, client_set_ontop, client_set_fullscreen, Layers
  <1>8. ASSUME NEW v \in BOOLEAN,
               \/ fullscreennotify(v) \/ foreign_toplevel_request_fullscreen(v)
               \/ maximizenotify(v) \/ foreign_toplevel_request_maximize(v)
               \/ foreign_toplevel_request_minimize(v)
        PROVE  HeardInv' /\ TaskbarInv'
    BY <1>2, <1>3, <1>4, <1>8 DEF fullscreennotify, foreign_toplevel_request_fullscreen, maximizenotify,
       foreign_toplevel_request_maximize, foreign_toplevel_request_minimize, Ways
  <1>9. CASE minimizenotify \/ unset_fullscreen
    BY <1>3, <1>4, <1>9 DEF minimizenotify, unset_fullscreen
  <1> QED
    BY <1>2, <1>3, <1>5, <1>6, <1>7, <1>8, <1>9 DEF WindowNext

\* Lua does not ask for fullscreen early, nor the client's protocol.
LEMMA NextBack ==
    ASSUME "early" \notin Asks, HeardInv, BackInv, [WindowNext]_windowVars
    PROVE  BackInv'
  <1>1. ASSUME NEW l \in Layers, NEW v \in BOOLEAN, SetLayer(l, v), l = "fullscreen" => phase = "mapped"
        PROVE  BackInv'
    BY <1>1, LayerWindow
  <1>2. ASSUME NEW way \in Ways, NEW v \in BOOLEAN, client_set_maximized_common(way, v) PROVE BackInv'
    BY <1>2, MaximizedWindow
  <1>3. ASSUME NEW v \in BOOLEAN, client_set_minimized(v) PROVE BackInv'
    BY <1>3, MinimizedWindow
  <1>4. ASSUME NEW filled \in BOOLEAN, setfullscreen(filled), UNCHANGED <<phase, min, handle>>,
               filled => phase = "mapped"
        PROVE  BackInv'
    BY <1>4, FullscreenWindow
  <1>5. ASSUME NEW b \in Box, LuaMoves(b) \/ mapnotify(b) PROVE BackInv'
    BY <1>5, MoveWindow, MapWindow
  <1>6. CASE unmapnotify \/ Started \/ UNCHANGED windowVars
    BY <1>6, OtherWindow
  <1>7. ASSUME NEW v \in BOOLEAN,
               \/ client_set_above(v) \/ client_set_below(v) \/ client_set_ontop(v)
               \/ client_set_fullscreen(v)
        PROVE  BackInv'
    BY <1>1, <1>7 DEF client_set_above, client_set_below, client_set_ontop, client_set_fullscreen, Layers
  <1>8. ASSUME NEW v \in BOOLEAN,
               \/ fullscreennotify(v) \/ foreign_toplevel_request_fullscreen(v)
               \/ maximizenotify(v) \/ foreign_toplevel_request_maximize(v)
               \/ foreign_toplevel_request_minimize(v)
        PROVE  BackInv'
    BY <1>2, <1>3, <1>4, <1>8 DEF fullscreennotify, foreign_toplevel_request_fullscreen, maximizenotify,
       foreign_toplevel_request_maximize, foreign_toplevel_request_minimize, Ways, Tame
  <1>9. CASE minimizenotify \/ unset_fullscreen
    BY <1>3, <1>4, <1>9 DEF minimizenotify, unset_fullscreen
  <1> QED
    BY <1>2, <1>3, <1>5, <1>6, <1>7, <1>8, <1>9 DEF WindowNext

\* Of the layers, one at most.
Alone == on = {} \/ \E l \in Layers : on = {l}

LEMMA NextAlone ==
    ASSUME "layered" \notin Asks, HeardInv, Alone, [WindowNext]_windowVars
    PROVE  Alone'
  <1>1. ASSUME NEW l \in Layers, NEW v \in BOOLEAN, SetLayer(l, v) PROVE Alone'
    BY <1>1, LayerWindow DEF Alone
  <1>2. ASSUME NEW filled \in BOOLEAN, setfullscreen(filled), filled => on \subseteq {"fullscreen"}
        PROVE  Alone'
    BY <1>2 DEF setfullscreen, Alone, Layers
  <1>3. ASSUME NEW v \in BOOLEAN,
               \/ client_set_above(v) \/ client_set_below(v) \/ client_set_ontop(v)
               \/ client_set_fullscreen(v)
        PROVE  Alone'
    BY <1>1, <1>3 DEF client_set_above, client_set_below, client_set_ontop, client_set_fullscreen, Layers
  <1>4. ASSUME NEW v \in BOOLEAN, fullscreennotify(v) \/ foreign_toplevel_request_fullscreen(v)
        PROVE  Alone'
    BY <1>2, <1>4 DEF fullscreennotify, foreign_toplevel_request_fullscreen, Tame
  <1>5. CASE unset_fullscreen
    BY <1>2, <1>5 DEF unset_fullscreen
  <1>6. CASE on' = on
    BY <1>6 DEF Alone
  <1> QED
    BY <1>3, <1>4, <1>5, <1>6
    DEF WindowNext, windowVars, client_set_maximized_common, client_set_minimized, maximizenotify,
        minimizenotify, foreign_toplevel_request_maximize, foreign_toplevel_request_minimize, LuaMoves,
        mapnotify, unmapnotify, Started

(* Whatever Lua, the window's client and taskbars ask for, each knows of it   *)
(* (client.c, protocols.c).                                                   *)
THEOREM StatesAreKnown == WindowSpec => [](LuaHasHeard /\ TaskbarsKnow)
  <1>1. HeardInv /\ TaskbarInv => LuaHasHeard /\ TaskbarsKnow
    <2> SUFFICES ASSUME HeardInv, TaskbarInv PROVE LuaHasHeard
      BY DEF TaskbarInv
    <2>1. heard = [on |-> heard.on, max |-> heard.max, min |-> heard.min]
      BY DEF HeardInv
    <2> QED
      BY <2>1 DEF HeardInv, LuaHasHeard
  <1> QED
    BY <1>1, InitWindow, NextHeard, PTL DEF WindowSpec

(* If nobody asks for fullscreen before the window maps, nor a client or a    *)
(* taskbar while it is in another layer, the window is besides in one layer,  *)
(* and goes back to where it was.                                             *)
THEOREM StatesAreSound == Asks = {} => (WindowSpec => []StatesSound)
  <1> SUFFICES ASSUME Asks = {} PROVE WindowSpec => []StatesSound
    OBVIOUS
  <1>1. WindowInit => HeardInv /\ TaskbarInv /\ BackInv /\ Alone
    BY InitWindow DEF Alone
  <1>2. HeardInv /\ TaskbarInv /\ BackInv /\ Alone /\ [WindowNext]_windowVars
        => HeardInv' /\ TaskbarInv' /\ BackInv' /\ Alone'
    BY NextHeard, NextBack, NextAlone
  <1>3. BackInv /\ Alone /\ LuaHasHeard /\ TaskbarsKnow => StatesSound
    <2> SUFFICES ASSUME Alone PROVE OneSpecialLayer
      BY DEF StatesSound, BackInv, GoesBack
    <2>1. CASE on = {}
      BY <2>1, FS_EmptySet DEF OneSpecialLayer
    <2>2. ASSUME NEW l, on = {l} PROVE OneSpecialLayer
      BY <2>2, FS_Singleton DEF OneSpecialLayer
    <2> QED
      BY <2>1, <2>2 DEF Alone
  <1> QED
    BY <1>1, <1>2, <1>3, StatesAreKnown, PTL DEF WindowSpec
=============================================================================
