---------------------------- MODULE Stack_proofs ----------------------------
(***************************************************************************)
(* What Stack.tla promises, for any clients: who is in the stack, in which *)
(* order a refresh leaves it, and what raise and lower do.                 *)
(*                                                                         *)
(* Place is built along the length of the stack: a filter for the riders   *)
(* of each client, a tree for each generation, a flattened sequence.  What *)
(* such a definition gives is proved by induction on how far it has come,  *)
(* and put in terms of Ahead, which of two clients comes first, rather     *)
(* than of indices.  Goes is the order a refresh should leave: who is      *)
(* ridden before who rides, and otherwise as their ancestors were that     *)
(* stand on one parent.  It goes one way between two clients, so that a    *)
(* sequence in that order names each once; Place's is one, of the same     *)
(* clients; and in such a sequence transients sit on their parents.        *)
(***************************************************************************)
EXTENDS Stack, SequenceTheorems, FiniteSetTheorems, WellFoundedInduction, TLAPS

-----------------------------------------------------------------------------
(* Induction along a range of numbers, and the functions that are defined  *)
(* along it.                                                               *)

LEMMA Climbs ==
    ASSUME NEW T, NEW a \in Nat, NEW b \in Nat, a \in T,
           \A n \in a..b : n \in T /\ n < b => n + 1 \in T
    PROVE  \A n \in a..b : n \in T
  <1>1. PICK W : W = (a..b) \ T
    OBVIOUS
  <1>2. SUFFICES ASSUME W # {} PROVE FALSE
    BY <1>1
  <1>3. PICK R : R = OpToRel(<, Nat)
    OBVIOUS
  <1>4. IsWellFoundedOn(R, Nat)
    BY <1>3, NatLessThanWellFounded
  <1>5. \A m, n \in Nat : <<m, n>> \in R <=> m < n
    BY <1>3 DEF OpToRel
  <1>6. W \subseteq Nat
    BY <1>1
  <1>7. PICK n \in W : \A m \in W : ~(<<m, n>> \in R)
    BY <1>2, <1>4, <1>6, WFMin
  <1>8. n \in a..b /\ n \notin T /\ n # a
    BY <1>1, <1>7
  <1>9. n - 1 \in a..b /\ n - 1 < n /\ n - 1 \in Nat /\ n \in Nat /\ n - 1 < b
    BY <1>8
  <1>10. n - 1 \notin W
    BY <1>7, <1>9, <1>5
  <1>11. n - 1 + 1 \in T
    BY <1>1, <1>9, <1>10
  <1> QED
    BY <1>8, <1>9, <1>11

\* f is built from x, from a to b, by g.
BuiltAlong(f, a, b, x, g) == f = [n \in a..b |-> IF n = a THEN x ELSE g[<<n, f[n - 1]>>]]

LEMMA Builds ==
    ASSUME NEW D, NEW a \in Nat, NEW b \in Nat, NEW x \in D, NEW g,
           \A n \in Nat, y \in D : g[<<n, y>>] \in D
    PROVE  \E f \in [a..b -> D] : BuiltAlong(f, a, b, x, g)
  <1>1. CASE b < a
    <2>1. PICK f : f = [n \in a..b |-> x]
      OBVIOUS
    <2>2. a..b = {}
      BY <1>1
    <2>3. f \in [a..b -> D] /\ BuiltAlong(f, a, b, x, g)
      BY <2>1, <2>2 DEF BuiltAlong
    <2> QED
      BY <2>3
  <1>2. CASE a <= b
    <2>1. PICK T : T = {m \in Nat : \E f \in [a..m -> D] : BuiltAlong(f, a, m, x, g)}
      OBVIOUS
    <2>2. a \in T
      <3>1. PICK f : f = [n \in a..a |-> x]
        OBVIOUS
      <3>2. \A n \in a..a : n = a
        OBVIOUS
      <3>3. f \in [a..a -> D] /\ BuiltAlong(f, a, a, x, g)
        BY <3>1, <3>2 DEF BuiltAlong
      <3> QED
        BY <2>1, <3>3
    <2>3. ASSUME NEW m \in a..b, m \in T PROVE m + 1 \in T
      <3>1. m \in Nat /\ m + 1 \in Nat /\ a <= m
        OBVIOUS
      <3>2. PICK f \in [a..m -> D] : BuiltAlong(f, a, m, x, g)
        BY <2>1, <2>3
      <3>3. PICK h : h = [n \in a..(m + 1) |-> IF n = m + 1 THEN g[<<n, f[m]>>] ELSE f[n]]
        OBVIOUS
      <3>4. f[m] \in D /\ m \in a..m
        BY <3>1, <3>2
      <3>5. \A n \in a..(m + 1) : n = m + 1 \/ n \in a..m
        BY <3>1
      <3>6. h \in [a..(m + 1) -> D]
        BY <3>1, <3>2, <3>3, <3>4, <3>5
      <3>7. ASSUME NEW n \in a..(m + 1) PROVE h[n] = IF n = a THEN x ELSE g[<<n, h[n - 1]>>]
        <4>1. CASE n = m + 1
          <5>1. n # a /\ n - 1 = m /\ m # m + 1 /\ m \in a..(m + 1)
            BY <3>1, <4>1
          <5>2. h[n] = g[<<n, f[m]>>] /\ h[m] = f[m]
            BY <3>3, <4>1, <5>1
          <5> QED
            BY <5>1, <5>2
        <4>2. CASE n \in a..m
          <5>1. n # m + 1 /\ h[n] = f[n]
            BY <3>1, <3>3, <4>2
          <5>2. f[n] = IF n = a THEN x ELSE g[<<n, f[n - 1]>>]
            BY <3>2, <4>2 DEF BuiltAlong
          <5>3. n # a => n - 1 \in a..(m + 1) /\ n - 1 # m + 1
            BY <3>1, <4>2
          <5>4. n # a => h[n - 1] = f[n - 1]
            BY <3>3, <5>3
          <5> QED
            BY <5>1, <5>2, <5>4
        <4> QED
          BY <3>5, <4>1, <4>2
      <3>8. BuiltAlong(h, a, m + 1, x, g)
        BY <3>3, <3>7 DEF BuiltAlong
      <3> QED
        BY <2>1, <3>1, <3>6, <3>8
    <2>4. \A n \in a..b : n \in T
      BY <2>2, <2>3, Climbs
    <2>5. b \in T
      BY <1>2, <2>4
    <2> QED
      BY <2>1, <2>5
  <1> QED
    BY <1>1, <1>2

-----------------------------------------------------------------------------
(* Orders.  Ahead says that x comes before y in a sequence; one that names *)
(* nothing twice is a sequence in which nothing is ahead of itself.        *)

Ahead(s, x, y) == \E i, j \in 1..Len(s) : i < j /\ s[i] = x /\ s[j] = y

LEMMA Members ==
    ASSUME NEW S, NEW s \in Seq(S)
    PROVE  \A x : x \in ToSet(s) <=> \E i \in 1..Len(s) : s[i] = x
  <1>1. DOMAIN s = 1..Len(s)
    BY LenProperties
  <1> QED
    BY <1>1 DEF ToSet

LEMMA Entries ==
    ASSUME NEW S, NEW s \in Seq(S)
    PROVE  /\ Len(s) \in Nat /\ DOMAIN s = 1..Len(s)
           /\ \A x : x \in ToSet(s) <=> \E i \in 1..Len(s) : s[i] = x
           /\ IsInjective(s) <=> \A x : ~Ahead(s, x, x)
           /\ \A x, y : Ahead(s, x, y) => x \in ToSet(s) /\ y \in ToSet(s)
           /\ ToSet(s) \subseteq S
  <1>1. DOMAIN s = 1..Len(s) /\ Len(s) \in Nat /\ \A i \in 1..Len(s) : s[i] \in S
    BY LenProperties, ElementOfSeq
  <1>2. \A x : x \in ToSet(s) <=> \E i \in 1..Len(s) : s[i] = x
    BY Members
  <1>3. \A i, j \in 1..Len(s) : i = j \/ i < j \/ j < i
    BY <1>1
  <1>4. IsInjective(s) => \A x : ~Ahead(s, x, x)
    BY <1>1 DEF IsInjective, Ahead
  <1>5. (\A x : ~Ahead(s, x, x)) => IsInjective(s)
    BY <1>1, <1>3 DEF IsInjective, Ahead
  <1> QED
    BY <1>1, <1>2, <1>4, <1>5 DEF Ahead

LEMMA Joined ==
    ASSUME NEW S, NEW s \in Seq(S), NEW t \in Seq(S), NEW r, r = s \o t
    PROVE  /\ r \in Seq(S) /\ Len(r) = Len(s) + Len(t)
           /\ \A x : x \in ToSet(r) <=> x \in ToSet(s) \/ x \in ToSet(t)
           /\ \A x, y : Ahead(r, x, y) <=> \/ Ahead(s, x, y) \/ Ahead(t, x, y)
                                           \/ x \in ToSet(s) /\ y \in ToSet(t)
  <1>1. PICK m \in Nat : m = Len(s)
    BY LenProperties
  <1>2. PICK n \in Nat : n = Len(t)
    BY LenProperties
  <1>3. /\ r \in Seq(S) /\ Len(r) = m + n
        /\ \A i \in 1..(m + n) : r[i] = IF i <= m THEN s[i] ELSE t[i - m]
    BY <1>1, <1>2, ConcatProperties
  <1>4. \A i \in 1..m : i \in 1..(m + n) /\ r[i] = s[i]
    BY <1>3
  <1>5. \A i \in 1..n : i + m \in 1..(m + n) /\ r[i + m] = t[i]
    BY <1>3
  <1>6. \A i \in 1..(m + n) : i \in 1..m \/ \E j \in 1..n : i = j + m
    <2>1. ASSUME NEW i \in 1..(m + n), i \notin 1..m PROVE i - m \in 1..n /\ i = (i - m) + m
      BY <2>1
    <2> QED
      BY <2>1
  <1>7. \A x : x \in ToSet(r) <=> x \in ToSet(s) \/ x \in ToSet(t)
    <2>1. \A x : x \in ToSet(r) <=> \E i \in 1..(m + n) : r[i] = x
      <3>1. r \in Seq(S) /\ Len(r) = m + n
        BY <1>3
      <3>2. \A x : x \in ToSet(r) <=> \E i \in 1..Len(r) : r[i] = x
        BY <3>1, Members
      <3> QED
        BY <3>1, <3>2
    <2>2. \A x : x \in ToSet(s) <=> \E i \in 1..m : s[i] = x
      BY <1>1, Members
    <2>3. \A x : x \in ToSet(t) <=> \E i \in 1..n : t[i] = x
      BY <1>2, Members
    <2>4. ASSUME NEW x \in ToSet(r) PROVE x \in ToSet(s) \/ x \in ToSet(t)
      <3>1. PICK i \in 1..(m + n) : r[i] = x
        BY <2>1
      <3>2. CASE i \in 1..m
        BY <1>4, <2>2, <3>1, <3>2
      <3>3. CASE \E j \in 1..n : i = j + m
        <4>1. PICK j \in 1..n : i = j + m
          BY <3>3
        <4>2. t[j] = x
          BY <1>5, <3>1, <4>1
        <4> QED
          BY <2>3, <4>2
      <3> QED
        BY <1>6, <3>2, <3>3
    <2>5. ASSUME NEW x \in ToSet(s) PROVE x \in ToSet(r)
      BY <1>4, <2>1, <2>2
    <2>6. ASSUME NEW x \in ToSet(t) PROVE x \in ToSet(r)
      <3>1. PICK j \in 1..n : t[j] = x
        BY <2>3
      <3> QED
        BY <1>5, <2>1, <3>1
    <2> QED
      BY <2>4, <2>5, <2>6
  <1>8. ASSUME NEW x, NEW y, Ahead(r, x, y)
        PROVE  Ahead(s, x, y) \/ Ahead(t, x, y) \/ (x \in ToSet(s) /\ y \in ToSet(t))
    <2>1. PICK i, j \in 1..(m + n) : i < j /\ r[i] = x /\ r[j] = y
      BY <1>3, <1>8 DEF Ahead
    <2>2. CASE j \in 1..m
      <3>1. i \in 1..m
        BY <2>1, <2>2
      <3>2. s[i] = x /\ s[j] = y
        BY <1>4, <2>1, <2>2, <3>1
      <3>3. \E g, h \in 1..m : g < h /\ s[g] = x /\ s[h] = y
        BY <2>1, <2>2, <3>1, <3>2
      <3>4. Ahead(s, x, y)
        BY <1>1, <3>3 DEF Ahead
      <3> QED
        BY <3>4
    <2>3. CASE \E k \in 1..n : j = k + m
      <3>1. PICK k \in 1..n : j = k + m
        BY <2>3
      <3>2. CASE i \in 1..m
        <4>1. s[i] = x /\ t[k] = y
          BY <1>4, <1>5, <2>1, <3>1, <3>2
        <4> QED
          BY <1>1, <1>2, <3>1, <3>2, <4>1, Entries
      <3>3. CASE \E h \in 1..n : i = h + m
        <4>1. PICK h \in 1..n : i = h + m
          BY <3>3
        <4>2. t[h] = x /\ t[k] = y
          BY <1>5, <2>1, <3>1, <4>1
        <4>3. h < k
          BY <2>1, <3>1, <4>1
        <4>4. \E a, b \in 1..n : a < b /\ t[a] = x /\ t[b] = y
          BY <4>2, <4>3
        <4>5. Ahead(t, x, y)
          BY <1>2, <4>4 DEF Ahead
        <4> QED
          BY <4>5
      <3> QED
        BY <1>6, <3>2, <3>3
    <2> QED
      BY <1>6, <2>2, <2>3
  <1>9. ASSUME NEW x, NEW y, Ahead(s, x, y) PROVE Ahead(r, x, y)
    BY <1>1, <1>3, <1>4, <1>9 DEF Ahead
  <1>10. ASSUME NEW x, NEW y, Ahead(t, x, y) PROVE Ahead(r, x, y)
    <2>1. PICK i, j \in 1..n : i < j /\ t[i] = x /\ t[j] = y
      BY <1>2, <1>10 DEF Ahead
    <2>2. i + m < j + m /\ i + m \in 1..(m + n) /\ j + m \in 1..(m + n)
      BY <2>1
    <2>3. r[i + m] = x /\ r[j + m] = y
      BY <1>5, <2>1
    <2> QED
      BY <1>3, <2>2, <2>3 DEF Ahead
  <1>11. ASSUME NEW x \in ToSet(s), NEW y \in ToSet(t) PROVE Ahead(r, x, y)
    <2>1. PICK i \in 1..m : s[i] = x
      BY <1>1, Entries
    <2>2. PICK j \in 1..n : t[j] = y
      BY <1>2, Entries
    <2>3. i < j + m /\ i \in 1..(m + n) /\ j + m \in 1..(m + n)
      OBVIOUS
    <2>4. r[i] = x /\ r[j + m] = y
      BY <1>4, <1>5, <2>1, <2>2
    <2> QED
      BY <1>3, <2>3, <2>4 DEF Ahead
  <1> QED
    BY <1>1, <1>2, <1>3, <1>7, <1>8, <1>9, <1>10, <1>11

LEMMA Single ==
    ASSUME NEW S, NEW e \in S, NEW r, r = <<e>>
    PROVE  /\ r \in Seq(S) /\ Len(r) = 1 /\ ToSet(r) = {e} /\ \A x, y : ~Ahead(r, x, y)
  <1>1. r \in Seq(S) /\ Len(r) = 1 /\ r[1] = e
    OBVIOUS
  <1>2. \A i \in 1..1 : i = 1
    OBVIOUS
  <1>3. \A x, y : ~Ahead(r, x, y)
    BY <1>1, <1>2 DEF Ahead
  <1>4. \A x : x \in ToSet(r) <=> \E i \in 1..1 : r[i] = x
    <2>1. DOMAIN r = 1..1
      OBVIOUS
    <2> QED
      BY <2>1 DEF ToSet
  <1> QED
    BY <1>1, <1>2, <1>3, <1>4

LEMMA Nothing ==
    ASSUME NEW S, NEW r, r = <<>>
    PROVE  r \in Seq(S) /\ Len(r) = 0 /\ ToSet(r) = {} /\ \A x, y : ~Ahead(r, x, y)
  BY DEF ToSet, Ahead

-----------------------------------------------------------------------------
(* What Filtered and FlattenSeq return.                                         *)

LEMMA FilteredIs ==
    ASSUME NEW S, NEW s \in Seq(S), NEW T
    PROVE  \E f \in [0..Len(s) -> Seq(S)] :
              /\ Filtered(s, T) = f[Len(s)] /\ f[0] = <<>>
              /\ \A n \in 1..Len(s) : f[n] = IF s[n] \in T THEN Append(f[n - 1], s[n]) ELSE f[n - 1]
  <1>1. PICK m \in Nat : m = Len(s)
    BY LenProperties
  <1>2. \A n \in 1..m : s[n] \in S
    BY <1>1, ElementOfSeq
  <1>3. PICK D : D = Seq(S)
    OBVIOUS
  <1>4. PICK g : g = [p \in Nat \X D |->
               IF p[1] \in 1..m /\ s[p[1]] \in T THEN Append(p[2], s[p[1]]) ELSE p[2]]
    OBVIOUS
  <1>5. ASSUME NEW n \in Nat, NEW y \in D PROVE g[<<n, y>>] \in D
    <2>1. g[<<n, y>>] = IF n \in 1..m /\ s[n] \in T THEN Append(y, s[n]) ELSE y
      BY <1>4
    <2>2. CASE n \in 1..m /\ s[n] \in T
      BY <1>2, <1>3, <2>1, <2>2, AppendProperties
    <2>3. CASE ~(n \in 1..m /\ s[n] \in T)
      BY <2>1, <2>3
    <2> QED
      BY <2>2, <2>3
  <1>6. <<>> \in D
    BY <1>3, EmptySeq
  <1>7. PICK f \in [0..m -> D] : BuiltAlong(f, 0, m, <<>>, g)
    BY <1>5, <1>6, Builds
  <1> DEFINE E(h, n) == IF n = 0 THEN <<>> ELSE IF s[n] \in T THEN Append(h[n - 1], s[n])
      ELSE h[n - 1]
  <1>8. ASSUME NEW n \in 0..m PROVE f[n] = E(f, n)
    <2>1. f[n] = IF n = 0 THEN <<>> ELSE g[<<n, f[n - 1]>>]
      BY <1>7 DEF BuiltAlong
    <2>2. CASE n # 0
      <3>1. n \in 1..m /\ n \in Nat /\ n - 1 \in 0..m
        BY <2>2
      <3>2. f[n - 1] \in D
        BY <1>7, <3>1
      <3>3. g[<<n, f[n - 1]>>] = IF n \in 1..m /\ s[n] \in T THEN Append(f[n - 1], s[n])
              ELSE f[n - 1]
        BY <1>4, <3>1, <3>2
      <3> QED
        BY <2>1, <2>2, <3>1, <3>3
    <2> QED
      BY <2>1, <2>2
  <1>9. f = [n \in 0..m |-> E(f, n)]
    BY <1>7, <1>8
  <1>10. PICK k : k = CHOOSE h : h = [n \in 0..m |-> E(h, n)]
    OBVIOUS
  <1>11. k = [n \in 0..m |-> E(k, n)] /\ Filtered(s, T) = k[m]
    BY <1>1, <1>9, <1>10 DEF Filtered
  <1>12. \A n \in 0..m : k[n] = f[n]
    <2>1. PICK A : A = {n \in Nat : n \in 0..m => k[n] = f[n]}
      OBVIOUS
    <2>2. 0 \in A
      BY <1>8, <1>11, <2>1
    <2>3. ASSUME NEW n \in 0..m, n \in A /\ n < m PROVE n + 1 \in A
      <3>1. n + 1 \in 0..m /\ n + 1 # 0 /\ (n + 1) - 1 = n /\ n + 1 \in Nat
        BY <2>3
      <3>2. k[n + 1] = E(k, n + 1) /\ f[n + 1] = E(f, n + 1) /\ k[n] = f[n]
        BY <1>8, <1>11, <2>1, <2>3, <3>1
      <3>3. E(k, n + 1) = E(f, n + 1)
        BY <3>1, <3>2
      <3> QED
        BY <2>1, <3>1, <3>2, <3>3
    <2>4. \A n \in 0..m : n \in A
      BY <2>2, <2>3, Climbs
    <2> QED
      BY <2>1, <2>4
  <1>13. /\ Filtered(s, T) = f[m] /\ f[0] = <<>>
         /\ \A n \in 1..m : f[n] = IF s[n] \in T THEN Append(f[n - 1], s[n]) ELSE f[n - 1]
    <2>1. m \in 0..m /\ 0 \in 0..m
      OBVIOUS
    <2>2. Filtered(s, T) = f[m] /\ f[0] = <<>>
      BY <1>8, <1>11, <1>12, <2>1
    <2>3. ASSUME NEW n \in 1..m
          PROVE  f[n] = IF s[n] \in T THEN Append(f[n - 1], s[n]) ELSE f[n - 1]
      <3>1. n \in 0..m /\ n # 0
        OBVIOUS
      <3> QED
        BY <1>8, <3>1
    <2> QED
      BY <2>2, <2>3
  <1> QED
    BY <1>1, <1>3, <1>13

LEMMA Kept ==
    ASSUME NEW S, NEW s \in Seq(S), NEW T, NEW r, r = Filtered(s, T)
    PROVE  /\ r \in Seq(S)
           /\ \A x : x \in ToSet(r) <=> x \in T /\ x \in ToSet(s)
           /\ \A x, y : Ahead(r, x, y) <=> x \in T /\ y \in T /\ Ahead(s, x, y)
  <1>1. PICK m \in Nat : m = Len(s)
    BY LenProperties
  <1>2. PICK f \in [0..m -> Seq(S)] :
              /\ r = f[m] /\ f[0] = <<>>
              /\ \A n \in 1..m : f[n] = IF s[n] \in T THEN Append(f[n - 1], s[n]) ELSE f[n - 1]
    BY <1>1, FilteredIs
  <1> DEFINE In(n, x) == x \in T /\ \E i \in 1..n : s[i] = x
             Order(n, x, y) == x \in T /\ y \in T /\ \E i, j \in 1..n : i < j /\ s[i] = x
                 /\ s[j] = y
             Right(n) == /\ \A x : x \in ToSet(f[n]) <=> In(n, x)
                         /\ \A x, y : Ahead(f[n], x, y) <=> Order(n, x, y)
  <1>3. PICK A : A = {n \in Nat : n \in 0..m => Right(n)}
    OBVIOUS
  <1>4. 0 \in A
    <2>1. 1..0 = {}
      OBVIOUS
    <2>2. ToSet(f[0]) = {} /\ \A x, y : ~Ahead(f[0], x, y)
      BY <1>2, Nothing
    <2> QED
      BY <1>3, <2>1, <2>2
  <1>5. ASSUME NEW n \in 0..m, n \in A /\ n < m PROVE n + 1 \in A
    <2>1. n + 1 \in 1..m /\ (n + 1) - 1 = n /\ n \in Nat /\ n + 1 \in Nat
      BY <1>5
    <2>2. PICK e : e = s[n + 1]
      OBVIOUS
    <2>3. e \in S
      BY <1>1, <2>1, <2>2, ElementOfSeq
    <2>4. PICK q : q = f[n]
      OBVIOUS
    <2>5. q \in Seq(S) /\ f[n + 1] = IF e \in T THEN Append(q, e) ELSE q
      BY <1>2, <2>1, <2>2, <2>4
    <2>6. /\ \A x : x \in ToSet(q) <=> In(n, x)
          /\ \A x, y : Ahead(q, x, y) <=> Order(n, x, y)
      BY <1>3, <1>5, <2>4
    <2>7. \A i \in 1..(n + 1) : i \in 1..n \/ i = n + 1
      BY <2>1
    <2>8. \A i \in 1..n : i \in 1..(n + 1) /\ i < n + 1
      BY <2>1
    <2>9. \A x : In(n + 1, x) <=> In(n, x) \/ (x = e /\ e \in T)
      <3>1. ASSUME NEW x, In(n + 1, x) PROVE In(n, x) \/ (x = e /\ e \in T)
        BY <2>2, <2>7, <3>1
      <3>2. ASSUME NEW x, In(n, x) PROVE In(n + 1, x)
        BY <2>8, <3>2
      <3>3. n + 1 \in 1..(n + 1)
        BY <2>1
      <3>4. e \in T => In(n + 1, e)
        BY <2>2, <3>3
      <3> QED
        BY <3>1, <3>2, <3>4
    <2>10. \A i, j \in 1..(n + 1) : i < j => i \in 1..n
      BY <2>1
    <2>11. \A x, y : Order(n + 1, x, y) <=> Order(n, x, y) \/ (In(n, x) /\ y = e /\ e \in T)
      <3>1. ASSUME NEW x, NEW y, Order(n + 1, x, y)
            PROVE  Order(n, x, y) \/ (In(n, x) /\ y = e /\ e \in T)
        <4>1. PICK i, j \in 1..(n + 1) : i < j /\ s[i] = x /\ s[j] = y
          BY <3>1
        <4>2. i \in 1..n /\ x \in T /\ y \in T
          BY <2>10, <3>1, <4>1
        <4>3. CASE j \in 1..n
          <5>1. Order(n, x, y)
            BY <4>1, <4>2, <4>3
          <5> QED
            BY <5>1
        <4>4. CASE j = n + 1
          BY <2>2, <4>1, <4>2, <4>4
        <4> QED
          BY <2>7, <4>3, <4>4
      <3>2. ASSUME NEW x, NEW y, Order(n, x, y) PROVE Order(n + 1, x, y)
        BY <2>8, <3>2
      <3>3. ASSUME NEW x, NEW y, In(n, x), y = e, e \in T PROVE Order(n + 1, x, y)
        <4>1. PICK i \in 1..n : s[i] = x
          BY <3>3
        <4>2. i \in 1..(n + 1) /\ n + 1 \in 1..(n + 1) /\ i < n + 1
          BY <2>1, <2>8
        <4> QED
          BY <2>2, <3>3, <4>1, <4>2
      <3> QED
        BY <3>1, <3>2, <3>3
    <2> HIDE DEF In, Order
    <2>12. CASE e \in T
      <3>1. PICK t : t = <<e>>
        OBVIOUS
      <3>2. t \in Seq(S) /\ (\A x : x \in ToSet(t) <=> x = e) /\ \A x, y : ~Ahead(t, x, y)
        BY <2>3, <3>1, Single
      <3>3. PICK u : u = q \o t
        OBVIOUS
      <3>4. f[n + 1] = u
        <4>1. Append(q, e) = q \o <<e>>
          BY <2>3, <2>5, AppendIsConcat
        <4> QED
          BY <2>5, <2>12, <3>1, <3>3, <4>1
      <3>5. /\ \A x : x \in ToSet(u) <=> x \in ToSet(q) \/ x \in ToSet(t)
            /\ \A x, y : Ahead(u, x, y) <=> \/ Ahead(q, x, y) \/ Ahead(t, x, y)
                                            \/ x \in ToSet(q) /\ y \in ToSet(t)
        BY <2>5, <3>2, <3>3, Joined
      <3>6. \A x : x \in ToSet(u) <=> In(n + 1, x)
        BY <2>6, <2>9, <2>12, <3>2, <3>5
      <3>7. \A x, y : Ahead(u, x, y) <=> Order(n + 1, x, y)
        <4>1. ASSUME NEW x, NEW y, Ahead(u, x, y) PROVE Order(n + 1, x, y)
          <5>1. CASE Ahead(q, x, y)
            BY <2>6, <2>11, <2>12, <5>1
          <5>2. CASE x \in ToSet(q) /\ y \in ToSet(t)
            BY <2>6, <2>11, <2>12, <3>2, <5>2
          <5> QED
            BY <3>2, <3>5, <4>1, <5>1, <5>2
        <4>2. ASSUME NEW x, NEW y, Order(n + 1, x, y) PROVE Ahead(u, x, y)
          <5>1. CASE Order(n, x, y)
            BY <2>6, <3>5, <5>1
          <5>2. CASE In(n, x) /\ y = e
            BY <2>6, <3>2, <3>5, <5>2
          <5> QED
            BY <2>11, <4>2, <5>1, <5>2
        <4> QED
          BY <4>1, <4>2
      <3> QED
        BY <1>3, <2>1, <3>4, <3>6, <3>7
    <2>13. CASE e \notin T
      <3>1. f[n + 1] = q
        BY <2>5, <2>13
      <3>2. Right(n + 1)
        BY <2>6, <2>9, <2>11, <2>13, <3>1
      <3> QED
        BY <1>3, <2>1, <3>2
    <2> QED
      BY <2>12, <2>13
  <1>6. m \in A
    <2>1. \A n \in 0..m : n \in A
      BY <1>4, <1>5, Climbs
    <2> QED
      BY <2>1
  <1>7. Right(m) /\ r = f[m] /\ f[m] \in Seq(S)
    <2>1. m \in 0..m
      OBVIOUS
    <2>2. Right(m)
      BY <1>3, <1>6, <2>1
    <2> QED
      BY <1>2, <2>1, <2>2
  <1>8. \A x : x \in ToSet(s) <=> \E i \in 1..m : s[i] = x
    BY <1>1, Entries
  <1>9. \A x, y : Ahead(s, x, y) <=> \E i, j \in 1..m : i < j /\ s[i] = x /\ s[j] = y
    BY <1>1 DEF Ahead
  <1> QED
    BY <1>7, <1>8, <1>9

\* f joins more and more of the sequences of q.
Flattens(f, S, q, m) ==
    /\ f \in [1..m -> Seq(S)] /\ FlattenSeq(q) = f[m] /\ f[1] = q[1]
    /\ \A n \in 2..m : f[n] = f[n - 1] \o q[n]

LEMMA FlattenIs ==
    ASSUME NEW S, NEW q \in Seq(Seq(S)), NEW m \in Nat, m = Len(q), m # 0
    PROVE  \E f : Flattens(f, S, q, m)
  <1>1. \A n \in 1..m : q[n] \in Seq(S)
    BY ElementOfSeq
  <1>2. PICK D : D = Seq(S)
    OBVIOUS
  <1>3. PICK g : g = [p \in Nat \X D |-> IF p[1] \in 1..m THEN p[2] \o q[p[1]] ELSE p[2]]
    OBVIOUS
  <1>4. ASSUME NEW n \in Nat, NEW y \in D PROVE g[<<n, y>>] \in D
    <2>1. g[<<n, y>>] = IF n \in 1..m THEN y \o q[n] ELSE y
      BY <1>3
    <2>2. CASE n \in 1..m
      <3>1. q[n] \in Seq(S) /\ y \in Seq(S)
        BY <1>1, <1>2, <2>2
      <3>2. y \o q[n] \in Seq(S)
        BY <3>1, ConcatProperties
      <3> QED
        BY <1>2, <2>1, <2>2, <3>2
    <2>3. CASE n \notin 1..m
      BY <2>1, <2>3
    <2> QED
      BY <2>2, <2>3
  <1>5. q[1] \in D /\ 1 \in 1..m
    BY <1>1, <1>2
  <1>6. PICK f \in [1..m -> D] : BuiltAlong(f, 1, m, q[1], g)
    BY <1>4, <1>5, Builds
  <1> DEFINE E(h, n) == IF n = 1 THEN q[n] ELSE h[n - 1] \o q[n]
  <1>7. ASSUME NEW n \in 1..m PROVE f[n] = E(f, n)
    <2>1. f[n] = IF n = 1 THEN q[1] ELSE g[<<n, f[n - 1]>>]
      BY <1>6 DEF BuiltAlong
    <2>2. CASE n # 1
      <3>1. n \in Nat /\ n - 1 \in 1..m
        BY <2>2
      <3>2. f[n - 1] \in D
        BY <1>6, <3>1
      <3>3. g[<<n, f[n - 1]>>] = IF n \in 1..m THEN f[n - 1] \o q[n] ELSE f[n - 1]
        BY <1>3, <3>1, <3>2
      <3> QED
        BY <2>1, <2>2, <3>3
    <2> QED
      BY <2>1, <2>2
  <1>8. f = [n \in 1..m |-> E(f, n)]
    BY <1>6, <1>7
  <1>9. PICK k : k = CHOOSE h : h = [n \in 1..m |-> E(h, n)]
    OBVIOUS
  <1>10. k = [n \in 1..m |-> E(k, n)] /\ FlattenSeq(q) = k[m]
    BY <1>8, <1>9 DEF FlattenSeq
  <1>11. \A n \in 1..m : k[n] = f[n]
    <2>1. PICK A : A = {n \in Nat : n \in 1..m => k[n] = f[n]}
      OBVIOUS
    <2>2. 1 \in A
      <3>1. f[1] = q[1] /\ k[1] = q[1]
        BY <1>5, <1>7, <1>10
      <3> QED
        BY <2>1, <3>1
    <2>3. ASSUME NEW n \in 1..m, n \in A /\ n < m PROVE n + 1 \in A
      <3>1. n + 1 \in 1..m /\ n + 1 # 1 /\ (n + 1) - 1 = n /\ n + 1 \in Nat
        BY <2>3
      <3>2. k[n + 1] = E(k, n + 1) /\ f[n + 1] = E(f, n + 1) /\ k[n] = f[n]
        BY <1>7, <1>10, <2>1, <2>3, <3>1
      <3>3. E(k, n + 1) = E(f, n + 1)
        BY <3>1, <3>2
      <3> QED
        BY <2>1, <3>1, <3>2, <3>3
    <2>4. \A n \in 1..m : n \in A
      BY <2>2, <2>3, Climbs
    <2> QED
      BY <2>1, <2>4
  <1>12. FlattenSeq(q) = f[m] /\ f[1] = q[1]
    <2>1. m \in 1..m /\ 1 \in 1..m
      OBVIOUS
    <2>2. E(f, 1) = q[1]
      OBVIOUS
    <2> QED
      BY <1>7, <1>10, <1>11, <2>1, <2>2
  <1>13. ASSUME NEW n \in 2..m PROVE f[n] = f[n - 1] \o q[n]
    <2>1. n \in 1..m /\ n # 1
      OBVIOUS
    <2> QED
      BY <1>7, <2>1
  <1> QED
    BY <1>2, <1>6, <1>12, <1>13 DEF Flattens

\* r is the sequences of q, of which there are m, one after the other.
Flat(r, S, q, m) ==
    /\ r \in Seq(S)
    /\ \A x : x \in ToSet(r) <=> \E i \in 1..m : x \in ToSet(q[i])
    /\ \A x, y : Ahead(r, x, y) <=>
          \/ \E i \in 1..m : Ahead(q[i], x, y)
          \/ \E i, j \in 1..m : i < j /\ x \in ToSet(q[i]) /\ y \in ToSet(q[j])

LEMMA Flattened ==
    ASSUME NEW S, NEW q \in Seq(Seq(S)), NEW r, r = FlattenSeq(q), NEW m \in Nat, m = Len(q)
    PROVE  Flat(r, S, q, m)
  <1>1. CASE m = 0
    <2>1. r = <<>> /\ 1..m = {}
      <3>1. q = <<>>
        BY <1>1, EmptySeq
      <3> QED
        BY <1>1, <3>1 DEF FlattenSeq
    <2>2. r \in Seq(S) /\ ToSet(r) = {} /\ \A x, y : ~Ahead(r, x, y)
      BY <2>1, Nothing
    <2> QED
      BY <2>1, <2>2 DEF Flat
  <1>2. CASE m # 0
    <2>1. \E f : Flattens(f, S, q, m)
      BY <1>2, FlattenIs
    <2>2. PICK f \in [1..m -> Seq(S)] :
              /\ r = f[m] /\ f[1] = q[1]
              /\ \A n \in 2..m : f[n] = f[n - 1] \o q[n]
      BY <2>1 DEF Flattens
    <2> DEFINE In(n, x) == \E i \in 1..n : x \in ToSet(q[i])
               Order(n, x, y) == \/ \E i \in 1..n : Ahead(q[i], x, y)
                                 \/ \E i, j \in 1..n : i < j /\ x \in ToSet(q[i])
                                      /\ y \in ToSet(q[j])
               Right(n) == /\ \A x : x \in ToSet(f[n]) <=> In(n, x)
                           /\ \A x, y : Ahead(f[n], x, y) <=> Order(n, x, y)
    <2>3. PICK A : A = {n \in Nat : n \in 1..m => Right(n)}
      OBVIOUS
    <2>4. 1 \in A
      <3>1. \A i \in 1..1 : i = 1
        OBVIOUS
      <3>2. 1 \in 1..1
        OBVIOUS
      <3>3. \A i, j \in 1..1 : ~(i < j)
        BY <3>1
      <3>4. \A x : x \in ToSet(f[1]) <=> In(1, x)
        BY <2>2, <3>1, <3>2
      <3>5. \A x, y : Ahead(f[1], x, y) <=> Order(1, x, y)
        BY <2>2, <3>1, <3>2, <3>3
      <3> QED
        BY <2>3, <3>4, <3>5
    <2>5. ASSUME NEW n \in 1..m, n \in A /\ n < m PROVE n + 1 \in A
      <3>1. n + 1 \in 2..m /\ n + 1 \in 1..m /\ (n + 1) - 1 = n /\ n \in Nat /\ n + 1 \in Nat
        BY <2>5
      <3>2. PICK e : e = q[n + 1]
        OBVIOUS
      <3>3. e \in Seq(S)
        BY <3>1, <3>2, ElementOfSeq
      <3>4. PICK p : p = f[n]
        OBVIOUS
      <3>5. PICK u : u = p \o e
        OBVIOUS
      <3>6. p \in Seq(S) /\ f[n + 1] = u
        BY <2>2, <3>1, <3>2, <3>4, <3>5
      <3>7. /\ \A x : x \in ToSet(p) <=> In(n, x)
            /\ \A x, y : Ahead(p, x, y) <=> Order(n, x, y)
        BY <2>3, <2>5, <3>4
      <3>8. \A i \in 1..(n + 1) : i \in 1..n \/ i = n + 1
        BY <3>1
      <3>9. \A i \in 1..n : i \in 1..(n + 1) /\ i < n + 1
        BY <3>1
      <3>10. n + 1 \in 1..(n + 1)
        BY <3>1
      <3>11. \A i, j \in 1..(n + 1) : i < j => i \in 1..n
        BY <3>1
      <3>12. \A x : In(n + 1, x) <=> In(n, x) \/ x \in ToSet(e)
        <4>1. ASSUME NEW x, In(n + 1, x) PROVE In(n, x) \/ x \in ToSet(e)
          BY <3>2, <3>8, <4>1
        <4>2. ASSUME NEW x, In(n, x) PROVE In(n + 1, x)
          BY <3>9, <4>2
        <4>3. ASSUME NEW x \in ToSet(e) PROVE In(n + 1, x)
          BY <3>2, <3>10, <4>3
        <4> QED
          BY <4>1, <4>2, <4>3
      <3>13. \A x, y : Order(n + 1, x, y) <=> \/ Order(n, x, y) \/ Ahead(e, x, y)
                                              \/ In(n, x) /\ y \in ToSet(e)
        <4>1. ASSUME NEW x, NEW y, NEW i \in 1..(n + 1), Ahead(q[i], x, y)
              PROVE  Order(n, x, y) \/ Ahead(e, x, y)
          BY <3>2, <3>8, <4>1
        <4>2. ASSUME NEW x, NEW y, NEW i \in 1..(n + 1), NEW j \in 1..(n + 1),
                     i < j, x \in ToSet(q[i]), y \in ToSet(q[j])
              PROVE  Order(n, x, y) \/ (In(n, x) /\ y \in ToSet(e))
          <5>1. i \in 1..n
            BY <3>11, <4>2
          <5>2. CASE j \in 1..n
            BY <4>2, <5>1, <5>2
          <5>3. CASE j = n + 1
            BY <3>2, <4>2, <5>1, <5>3
          <5> QED
            BY <3>8, <5>2, <5>3
        <4>3. ASSUME NEW x, NEW y, Order(n, x, y) PROVE Order(n + 1, x, y)
          BY <3>9, <4>3
        <4>4. ASSUME NEW x, NEW y, Ahead(e, x, y) PROVE Order(n + 1, x, y)
          BY <3>2, <3>10, <4>4
        <4>5. ASSUME NEW x, NEW y, In(n, x), y \in ToSet(e) PROVE Order(n + 1, x, y)
          <5>1. PICK i \in 1..n : x \in ToSet(q[i])
            BY <4>5
          <5> QED
            BY <3>2, <3>9, <3>10, <4>5, <5>1
        <4> QED
          BY <4>1, <4>2, <4>3, <4>4, <4>5
      <3> HIDE DEF In, Order
      <3>14. \A x : x \in ToSet(u) <=> x \in ToSet(p) \/ x \in ToSet(e)
        BY <3>3, <3>5, <3>6, Joined
      <3>15. \A x, y : Ahead(u, x, y) <=> \/ Ahead(p, x, y) \/ Ahead(e, x, y)
                                          \/ x \in ToSet(p) /\ y \in ToSet(e)
        BY <3>3, <3>5, <3>6, Joined
      <3>16. \A x : x \in ToSet(u) <=> In(n + 1, x)
        BY <3>7, <3>12, <3>14
      <3>17. \A x, y : Ahead(u, x, y) <=> Order(n + 1, x, y)
        BY <3>7, <3>13, <3>15
      <3> QED
        BY <2>3, <3>1, <3>6, <3>16, <3>17
    <2>6. m \in A
      <3>1. \A n \in 1..m : n \in A
        BY <2>4, <2>5, Climbs
      <3> QED
        BY <1>2, <3>1
    <2>7. Right(m) /\ r \in Seq(S)
      BY <1>2, <2>2, <2>3, <2>6
    <2> QED
      BY <2>2, <2>7 DEF Flat
  <1> QED
    BY <1>1, <1>2

-----------------------------------------------------------------------------
(* Chains.                                                                 *)

Linked == Client \cup {NoClient}
Links == [Client -> Linked]

IsChain(ch, up, c, len) ==
    /\ ch \in [0..len -> Linked] /\ ch[0] = c
    /\ \A n \in 1..len : ch[n] = IF ch[n - 1] = NoClient THEN NoClient ELSE up[ch[n - 1]]

LEMMA NoneIsNoClient == NoClient \notin Client
  BY NoClientAssumption DEF Client

LEMMA ChainIs ==
    ASSUME NEW up \in Links, NEW c \in Linked, NEW len \in Nat
    PROVE  IsChain(Chain(up, c, len), up, c, len)
  <1> DEFINE Step(d) == IF d = NoClient THEN NoClient ELSE up[d]
             E(h, n) == IF n = 0 THEN c ELSE Step(h[n - 1])
  <1>1. PICK g : g = [p \in Nat \X Linked |-> Step(p[2])]
    OBVIOUS
  <1>2. ASSUME NEW n \in Nat, NEW y \in Linked PROVE g[<<n, y>>] \in Linked
    <2>1. g[<<n, y>>] = Step(y)
      BY <1>1
    <2>2. y # NoClient => y \in Client
      BY DEF Linked
    <2> QED
      BY <2>1, <2>2 DEF Links, Linked
  <1>3. PICK f \in [0..len -> Linked] : BuiltAlong(f, 0, len, c, g)
    BY <1>2, Builds
  <1>4. ASSUME NEW n \in 0..len PROVE f[n] = E(f, n)
    <2>1. f[n] = IF n = 0 THEN c ELSE g[<<n, f[n - 1]>>]
      BY <1>3 DEF BuiltAlong
    <2>2. CASE n # 0
      <3>1. n \in Nat /\ n - 1 \in 0..len
        BY <2>2
      <3>2. f[n - 1] \in Linked
        BY <1>3, <3>1
      <3>3. g[<<n, f[n - 1]>>] = Step(f[n - 1])
        BY <1>1, <3>1, <3>2
      <3> QED
        BY <2>1, <2>2, <3>3
    <2> QED
      BY <2>1, <2>2
  <1>5. f = [n \in 0..len |-> E(f, n)]
    BY <1>3, <1>4
  <1>6. PICK k : k = CHOOSE h : h = [n \in 0..len |-> E(h, n)]
    OBVIOUS
  <1>7. k = [n \in 0..len |-> E(k, n)]
    BY <1>5, <1>6
  <1>8. Chain(up, c, len) = k
    BY <1>6 DEF Chain
  <1>9. \A n \in 0..len : k[n] = f[n]
    <2>1. PICK A : A = {n \in Nat : n \in 0..len => k[n] = f[n]}
      OBVIOUS
    <2>2. 0 \in A
      <3>1. 0 \in 0..len
        OBVIOUS
      <3>2. E(f, 0) = c /\ E(k, 0) = c
        OBVIOUS
      <3>3. k[0] = E(k, 0)
        BY <1>7, <3>1
      <3>4. f[0] = E(f, 0)
        BY <1>4, <3>1
      <3> QED
        BY <2>1, <3>2, <3>3, <3>4
    <2>3. ASSUME NEW n \in 0..len, n \in A /\ n < len PROVE n + 1 \in A
      <3>1. n + 1 \in 0..len /\ n + 1 # 0 /\ (n + 1) - 1 = n /\ n + 1 \in Nat
        BY <2>3
      <3>2. k[n + 1] = E(k, n + 1)
        BY <1>7, <3>1
      <3>3. f[n + 1] = E(f, n + 1) /\ k[n] = f[n]
        BY <1>4, <2>1, <2>3, <3>1
      <3>4. E(k, n + 1) = E(f, n + 1)
        BY <3>1, <3>3
      <3> QED
        BY <2>1, <3>1, <3>2, <3>3, <3>4
    <2>4. \A n \in 0..len : n \in A
      BY <2>2, <2>3, Climbs
    <2> QED
      BY <2>1, <2>4
  <1>10. k = f
    BY <1>3, <1>7, <1>9
  <1>11. \A n \in 1..len : n \in 0..len /\ n # 0
    OBVIOUS
  <1>12. 0 \in 0..len
    OBVIOUS
  <1>13. f[0] = c
    BY <1>4, <1>12
  <1> QED
    BY <1>3, <1>4, <1>8, <1>10, <1>11, <1>13 DEF IsChain

\* Two chains by one relation go together from where they meet.
LEMMA Together ==
    ASSUME NEW up \in Links, NEW a, NEW c, NEW l \in Nat, IsChain(a, up, c, l),
           NEW b, NEW d, NEW m \in Nat, IsChain(b, up, d, m),
           NEW i \in 0..l, NEW j \in 0..m, a[i] = b[j],
           NEW k \in Nat, i + k <= l, j + k <= m
    PROVE  a[i + k] = b[j + k]
  <1>1. PICK A : A = {n \in Nat : n \in 0..k => a[i + n] = b[j + n]}
    OBVIOUS
  <1>2. 0 \in A
    <2>1. i + 0 = i /\ j + 0 = j
      OBVIOUS
    <2> QED
      BY <1>1, <2>1
  <1>3. ASSUME NEW n \in 0..k, n \in A /\ n < k PROVE n + 1 \in A
    <2>1. a[i + n] = b[j + n]
      BY <1>1, <1>3
    <2>2. i + (n + 1) \in 1..l /\ j + (n + 1) \in 1..m /\ (i + (n + 1)) - 1 = i + n
            /\ (j + (n + 1)) - 1 = j + n
      BY <1>3
    <2>3. a[i + (n + 1)] = IF a[i + n] = NoClient THEN NoClient ELSE up[a[i + n]]
      BY <2>2 DEF IsChain
    <2>4. b[j + (n + 1)] = IF b[j + n] = NoClient THEN NoClient ELSE up[b[j + n]]
      BY <2>2 DEF IsChain
    <2> QED
      BY <1>1, <2>1, <2>3, <2>4
  <1>4. \A n \in 0..k : n \in A
    BY <1>2, <1>3, Climbs
  <1> QED
    BY <1>1, <1>4

\* Past its end a chain has no client.
LEMMA StaysEnded ==
    ASSUME NEW up, NEW a, NEW c, NEW l \in Nat, IsChain(a, up, c, l),
           NEW i \in 0..l, a[i] = NoClient, NEW j \in i..l
    PROVE  a[j] = NoClient
  <1>1. PICK A : A = {n \in Nat : n \in i..l => a[n] = NoClient}
    OBVIOUS
  <1>2. i \in A /\ i \in Nat
    BY <1>1
  <1>3. ASSUME NEW n \in i..l, n \in A /\ n < l PROVE n + 1 \in A
    <2>1. a[n] = NoClient /\ n + 1 \in 1..l /\ (n + 1) - 1 = n /\ n + 1 \in Nat
      BY <1>1, <1>3
    <2>2. a[n + 1] = NoClient
      BY <2>1 DEF IsChain
    <2> QED
      BY <1>1, <2>1, <2>2
  <1>4. \A n \in i..l : n \in A
    BY <1>2, <1>3, Climbs
  <1> QED
    BY <1>1, <1>4

-----------------------------------------------------------------------------
(* Who rides whom.  A client that rides stands one level above its parent,  *)
(* so that the ancestors of a client are known by their level.              *)

Placeable(s) == transient_for \in Links /\ s \in Seq(Client) /\ IsInjective(s)

Ridden(s) == [c \in Client |-> IF c \in ToSet(s) /\ Rides(s, c) THEN transient_for[c] ELSE NoClient]

EndsAt(s, c, n) ==
    /\ n \in 1..Len(s) - 1
    /\ Chain(Within(s), c, Len(s))[n] # NoClient /\ Chain(Within(s), c, Len(s))[n + 1] = NoClient

Level(s, c) == IF Rides(s, c) THEN CHOOSE n \in 1..Len(s) - 1 : EndsAt(s, c, n) ELSE 0

LEMMA WithinIs ==
    ASSUME NEW s, Placeable(s)
    PROVE  /\ Within(s) \in Links
           /\ \A d \in Client : Within(s)[d] = IF transient_for[d] \in ToSet(s) THEN transient_for[d] ELSE NoClient
  <1>1. \A e : Contains(s, e) <=> e \in ToSet(s)
    <2>1. \A e : e \in ToSet(s) <=> \E i \in 1..Len(s) : s[i] = e
      BY Entries DEF Placeable
    <2> QED
      BY <2>1 DEF Contains
  <1> QED
    BY <1>1 DEF Placeable, Within, Links, Linked

LEMMA LevelIs ==
    ASSUME NEW s, Placeable(s), NEW c \in Client, NEW n, EndsAt(s, c, n)
    PROVE  Rides(s, c) /\ Level(s, c) = n
  <1>1. PICK m \in Nat : m = Len(s)
    BY LenProperties DEF Placeable
  <1>2. PICK a : a = Chain(Within(s), c, m)
    OBVIOUS
  <1>3. IsChain(a, Within(s), c, m)
    BY <1>2, ChainIs, WithinIs DEF Linked
  <1>4. \A k : EndsAt(s, c, k) <=> k \in 1..m - 1 /\ a[k] # NoClient /\ a[k + 1] = NoClient
    BY <1>1, <1>2 DEF EndsAt
  <1>5. ASSUME NEW i, NEW j, EndsAt(s, c, i), EndsAt(s, c, j), i < j PROVE FALSE
    <2>1. i \in 1..m - 1 /\ j \in 1..m - 1 /\ a[i + 1] = NoClient /\ a[j] # NoClient
      BY <1>4, <1>5
    <2>2. i + 1 \in 0..m /\ j \in (i + 1)..m
      BY <1>5, <2>1
    <2> QED
      BY <1>3, <2>1, <2>2, StaysEnded
  <1>6. n \in 1..m - 1
    BY <1>4
  <1>7. \A k \in 1..m - 1 : EndsAt(s, c, k) => k = n
    <2>1. \A k \in 1..m - 1 : k < n \/ n < k \/ k = n
      BY <1>6
    <2> QED
      BY <1>5, <2>1
  <1>8. Rides(s, c)
    BY <1>1, <1>2, <1>4 DEF Rides
  <1>9. (CHOOSE k \in 1..Len(s) - 1 : EndsAt(s, c, k)) = n
    BY <1>1, <1>6, <1>7
  <1> QED
    BY <1>8, <1>9 DEF Level

LEMMA RidesOne ==
    ASSUME NEW s, Placeable(s), NEW c \in ToSet(s), Rides(s, c)
    PROVE  /\ transient_for[c] \in ToSet(s) /\ Level(s, c) \in 1..Len(s) - 1
           /\ Level(s, c) = Level(s, transient_for[c]) + 1
  <1>1. PICK m \in Nat : m = Len(s)
    BY LenProperties DEF Placeable
  <1>2. PICK a : a = Chain(Within(s), c, m)
    OBVIOUS
  <1>3. c \in Client /\ NoClient \notin Client
    BY Entries, NoneIsNoClient DEF Placeable
  <1>4. IsChain(a, Within(s), c, m)
    BY <1>2, <1>3, ChainIs, WithinIs DEF Linked
  <1>5. PICK n : EndsAt(s, c, n)
    BY DEF Rides, EndsAt
  <1>6. n \in 1..m - 1 /\ a[n] # NoClient /\ a[n + 1] = NoClient /\ Level(s, c) = n
    BY <1>1, <1>2, <1>3, <1>5, LevelIs DEF EndsAt
  <1>7. PICK p : p = transient_for[c]
    OBVIOUS
  <1>8. a[1] # NoClient
    <2>1. 1 \in 0..m /\ n \in 1..m
      BY <1>6
    <2> QED
      BY <1>4, <1>6, <2>1, StaysEnded
  <1>9. a[1] = Within(s)[c]
    <2>1. 1 \in 1..m /\ 1 - 1 = 0
      BY <1>6
    <2> QED
      BY <1>3, <1>4, <2>1 DEF IsChain
  <1>10. a[1] = p /\ p \in ToSet(s) /\ p \in Client
    BY <1>3, <1>7, <1>8, <1>9, WithinIs, Entries DEF Placeable
  <1>11. PICK b : b = Chain(Within(s), p, m)
    OBVIOUS
  <1>12. IsChain(b, Within(s), p, m)
    BY <1>10, <1>11, ChainIs, WithinIs DEF Linked
  <1>13. b[0] = p
    BY <1>12 DEF IsChain
  <1>14. ASSUME NEW k \in 0..m - 1 PROVE b[k] = a[k + 1]
    <2>1. 1 \in 0..m /\ 0 \in 0..m /\ k \in Nat /\ 1 + k <= m /\ 0 + k <= m /\ 1 + k = k + 1
            /\ 0 + k = k
      BY <1>6
    <2>2. a[1 + k] = b[0 + k]
      BY <1>4, <1>10, <1>12, <1>13, <2>1, Together, WithinIs
    <2> QED
      BY <2>1, <2>2
  <1>15. b[n - 1] # NoClient /\ b[n] = NoClient
    <2>1. n - 1 \in 0..m - 1 /\ n \in 0..m - 1 /\ (n - 1) + 1 = n
      BY <1>6
    <2> QED
      BY <1>6, <1>14, <2>1
  <1>16. CASE n = 1
    <2>1. ~Rides(s, p)
      <3>1. SUFFICES ASSUME Rides(s, p) PROVE FALSE
        OBVIOUS
      <3>2. PICK k \in 1..m - 1 : b[k] # NoClient
        BY <1>1, <1>11, <3>1 DEF Rides
      <3>3. 1 \in 0..m /\ k \in 1..m
        BY <1>6
      <3> QED
        BY <1>12, <1>15, <1>16, <3>2, <3>3, StaysEnded
    <2>2. Level(s, p) = 0
      BY <2>1 DEF Level
    <2> QED
      BY <1>1, <1>6, <1>7, <1>10, <1>16, <2>2
  <1>17. CASE n # 1
    <2>1. n - 1 \in 1..m - 1 /\ (n - 1) + 1 = n
      BY <1>6, <1>17
    <2>2. EndsAt(s, p, n - 1)
      BY <1>1, <1>11, <1>15, <2>1 DEF EndsAt
    <2>3. Level(s, p) = n - 1
      BY <1>10, <2>2, LevelIs
    <2> QED
      BY <1>1, <1>6, <1>7, <1>10, <2>1, <2>3
  <1> QED
    BY <1>16, <1>17

\* The levels of a stack, and of whom each client rides.
Leveled(s) ==
    /\ Ridden(s) \in Links
    /\ \A c \in ToSet(s) :
          /\ Level(s, c) \in 0..Len(s) - 1
          /\ Ridden(s)[c] = NoClient => Level(s, c) = 0
          /\ Ridden(s)[c] # NoClient => Ridden(s)[c] \in ToSet(s)
               /\ Level(s, c) = Level(s, Ridden(s)[c]) + 1

LEMMA LevelsAre ==
    ASSUME NEW s, Placeable(s)
    PROVE  Leveled(s)
  <1>1. Ridden(s) \in Links
    BY DEF Placeable, Ridden, Links, Linked
  <1>2. ASSUME NEW c \in ToSet(s)
        PROVE  /\ Level(s, c) \in 0..Len(s) - 1
               /\ Ridden(s)[c] = NoClient => Level(s, c) = 0
               /\ Ridden(s)[c] # NoClient => Ridden(s)[c] \in ToSet(s)
                    /\ Level(s, c) = Level(s, Ridden(s)[c]) + 1
    <2>1. c \in Client /\ Len(s) \in Nat /\ \E i \in 1..Len(s) : s[i] = c
      BY Entries DEF Placeable
    <2>2. CASE Rides(s, c)
      <3>1. Ridden(s)[c] = transient_for[c]
        BY <2>1, <2>2 DEF Ridden
      <3>2. transient_for[c] \in ToSet(s) /\ Level(s, c) \in 1..Len(s) - 1
        BY <2>2, RidesOne
      <3>3. Level(s, c) = Level(s, transient_for[c]) + 1
        BY <2>2, RidesOne
      <3>4. transient_for[c] # NoClient
        BY <3>2, Entries, NoneIsNoClient DEF Placeable
      <3> QED
        BY <2>1, <3>1, <3>2, <3>3, <3>4
    <2>3. CASE ~Rides(s, c)
      <3>1. Ridden(s)[c] = NoClient /\ Level(s, c) = 0
        BY <2>1, <2>3 DEF Ridden, Level
      <3>2. 0 \in 0..Len(s) - 1
        BY <2>1
      <3> QED
        BY <3>1, <3>2
    <2> QED
      BY <2>2, <2>3
  <1> QED
    BY <1>1, <1>2 DEF Leveled

\* x is c, or rides it, at whatever distance.
Kin(s, x, c) ==
    /\ c \in ToSet(s) /\ Level(s, c) <= Level(s, x)
    /\ Chain(Ridden(s), x, Len(s))[Level(s, x) - Level(s, c)] = c

LEMMA AncestorsAre ==
    ASSUME NEW s, Placeable(s), NEW x \in ToSet(s), NEW a, a = Chain(Ridden(s), x, Len(s)),
           NEW k \in 0..Level(s, x)
    PROVE  /\ IsChain(a, Ridden(s), x, Len(s))
           /\ a[k] \in ToSet(s) /\ Level(s, a[k]) = Level(s, x) - k
  <1>1. PICK m \in Nat : m = Len(s)
    BY LenProperties DEF Placeable
  <1>2. x \in Linked /\ Ridden(s) \in Links
    BY Entries, LevelsAre DEF Placeable, Leveled, Linked
  <1>3. IsChain(a, Ridden(s), x, m)
    BY <1>1, <1>2, ChainIs
  <1>4. PICK l : l = Level(s, x)
    OBVIOUS
  <1>5. l \in 0..m - 1
    BY <1>1, <1>4, LevelsAre DEF Leveled
  <1>6. PICK A : A = {n \in Nat : n \in 0..l => a[n] \in ToSet(s) /\ Level(s, a[n]) = l - n}
    OBVIOUS
  <1>7. 0 \in A
    <2>1. a[0] = x /\ l - 0 = l
      BY <1>3, <1>5 DEF IsChain
    <2> QED
      BY <1>4, <1>6, <2>1
  <1>8. ASSUME NEW n \in 0..l, n \in A /\ n < l PROVE n + 1 \in A
    <2>1. a[n] \in ToSet(s) /\ Level(s, a[n]) = l - n
      BY <1>6, <1>8
    <2>2. l - n # 0 /\ n + 1 \in 1..m /\ (n + 1) - 1 = n /\ n + 1 \in Nat
      BY <1>5, <1>8
    <2>3. Ridden(s)[a[n]] \in ToSet(s) /\ Level(s, a[n]) = Level(s, Ridden(s)[a[n]]) + 1
      BY <2>1, <2>2, LevelsAre DEF Leveled
    <2>4. a[n] # NoClient
      BY <2>1, Entries, NoneIsNoClient DEF Placeable
    <2>5. a[n + 1] = Ridden(s)[a[n]]
      BY <1>3, <2>2, <2>4 DEF IsChain
    <2>6. Level(s, Ridden(s)[a[n]]) \in 0..m - 1
      BY <1>1, <2>3, LevelsAre DEF Leveled
    <2>7. Level(s, a[n + 1]) = l - (n + 1)
      BY <1>5, <2>1, <2>3, <2>5, <2>6
    <2> QED
      BY <1>6, <2>2, <2>3, <2>5, <2>7
  <1>9. k \in A
    <2>1. \A n \in 0..l : n \in A
      BY <1>5, <1>7, <1>8, Climbs
    <2> QED
      BY <1>4, <2>1
  <1> QED
    BY <1>1, <1>3, <1>4, <1>5, <1>6, <1>9

LEMMA LevelNat ==
    ASSUME NEW s, Placeable(s), NEW x \in ToSet(s)
    PROVE  Level(s, x) \in Nat /\ Level(s, x) < Len(s) /\ Len(s) \in Nat
  BY LevelsAre, LenProperties DEF Leveled, Placeable

LEMMA KinSelf ==
    ASSUME NEW s, Placeable(s), NEW x \in ToSet(s)
    PROVE  Kin(s, x, x)
  <1>1. PICK a : a = Chain(Ridden(s), x, Len(s))
    OBVIOUS
  <1>2. Level(s, x) \in Nat /\ 0 \in 0..Level(s, x) /\ Level(s, x) - Level(s, x) = 0
          /\ Level(s, x) <= Level(s, x)
    BY LevelNat
  <1>3. a[0] = x
    BY <1>1, <1>2, AncestorsAre DEF IsChain
  <1> QED
    BY <1>1, <1>2, <1>3 DEF Kin

\* On each level a client has one ancestor.
LEMMA KinOnce ==
    ASSUME NEW s, NEW x, NEW c, NEW d, Kin(s, x, c), Kin(s, x, d), Level(s, c) = Level(s, d)
    PROVE  c = d
  BY DEF Kin

\* The chains of x and of its ancestor c go on together.
LEMMA KinChain ==
    ASSUME NEW s, Placeable(s), NEW x \in ToSet(s), NEW c, Kin(s, x, c), NEW k \in 0..Level(s, c)
    PROVE  Chain(Ridden(s), x, Len(s))[Level(s, x) - Level(s, c) + k] = Chain(Ridden(s), c, Len(s))[k]
  <1>1. PICK m \in Nat : m = Len(s)
    BY LenProperties DEF Placeable
  <1>2. PICK a : a = Chain(Ridden(s), x, Len(s))
    OBVIOUS
  <1>3. PICK b : b = Chain(Ridden(s), c, Len(s))
    OBVIOUS
  <1>4. c \in ToSet(s) /\ a[Level(s, x) - Level(s, c)] = c /\ Level(s, c) <= Level(s, x)
    BY <1>2 DEF Kin
  <1>5. PICK l \in Nat : l = Level(s, x)
    BY LevelNat
  <1>6. PICK n \in Nat : n = Level(s, c)
    BY <1>4, LevelNat
  <1>7. l < m /\ n <= l /\ k \in 0..n
    BY <1>1, <1>4, <1>5, <1>6, LevelNat
  <1>8. 0 \in 0..l /\ 0 \in 0..n
    OBVIOUS
  <1>9. IsChain(a, Ridden(s), x, m)
    BY <1>1, <1>2, <1>5, <1>8, AncestorsAre
  <1>10. IsChain(b, Ridden(s), c, m)
    BY <1>1, <1>3, <1>4, <1>6, <1>8, AncestorsAre
  <1>11. Ridden(s) \in Links
    BY LevelsAre DEF Leveled
  <1>12. b[0] = c
    BY <1>10 DEF IsChain
  <1>13. l - n \in 0..m /\ 0 \in 0..m /\ k \in Nat /\ (l - n) + k <= m /\ 0 + k <= m /\ 0 + k = k
    BY <1>7
  <1>14. a[l - n] = b[0]
    BY <1>4, <1>5, <1>6, <1>12
  <1>15. a[(l - n) + k] = b[0 + k]
    BY <1>9, <1>10, <1>11, <1>13, <1>14, Together
  <1> QED
    BY <1>2, <1>3, <1>5, <1>6, <1>13, <1>15

\* Of two ancestors of x the lower one rides the higher.
LEMMA KinOfKin ==
    ASSUME NEW s, Placeable(s), NEW x \in ToSet(s), NEW c, NEW d, Kin(s, x, c), d \in ToSet(s),
           Level(s, d) <= Level(s, c)
    PROVE  Kin(s, x, d) <=> Kin(s, c, d)
  <1>1. c \in ToSet(s) /\ Level(s, c) <= Level(s, x)
    BY DEF Kin
  <1>2. /\ Level(s, x) \in Nat /\ Level(s, c) \in Nat /\ Level(s, d) \in Nat
    BY <1>1, LevelNat
  <1>3. Level(s, c) - Level(s, d) \in 0..Level(s, c)
    BY <1>2
  <1>4. Level(s, x) - Level(s, c) + (Level(s, c) - Level(s, d)) = Level(s, x) - Level(s, d)
    BY <1>1, <1>2
  <1>5. Chain(Ridden(s), x, Len(s))[Level(s, x) - Level(s, d)]
          = Chain(Ridden(s), c, Len(s))[Level(s, c) - Level(s, d)]
    BY <1>3, <1>4, KinChain
  <1>6. Level(s, d) <= Level(s, x)
    BY <1>1, <1>2
  <1> QED
    BY <1>5, <1>6 DEF Kin

LEMMA KinUp ==
    ASSUME NEW s, Placeable(s), NEW x \in ToSet(s), Ridden(s)[x] # NoClient
    PROVE  Kin(s, x, Ridden(s)[x]) /\ Level(s, x) = Level(s, Ridden(s)[x]) + 1
  <1>1. PICK p : p = Ridden(s)[x]
    OBVIOUS
  <1>2. p \in ToSet(s) /\ Level(s, x) = Level(s, p) + 1
    BY <1>1, LevelsAre DEF Leveled
  <1>3. Level(s, x) \in Nat /\ Level(s, p) \in Nat /\ Level(s, x) < Len(s) /\ Len(s) \in Nat
    BY <1>2, LevelNat
  <1>4. 1 \in 0..Level(s, x) /\ Level(s, x) - Level(s, p) = 1 /\ 1 \in 1..Len(s) /\ 1 - 1 = 0
    BY <1>2, <1>3
  <1>5. PICK a : a = Chain(Ridden(s), x, Len(s))
    OBVIOUS
  <1>6. IsChain(a, Ridden(s), x, Len(s))
    BY <1>4, <1>5, AncestorsAre
  <1>7. x # NoClient
    BY Entries, NoneIsNoClient DEF Placeable
  <1>8. a[1] = p
    BY <1>1, <1>4, <1>6, <1>7 DEF IsChain
  <1> QED
    BY <1>1, <1>2, <1>3, <1>4, <1>5, <1>8 DEF Kin

\* Under an ancestor there is the one of the next level, which rides it.
LEMMA KinNext ==
    ASSUME NEW s, Placeable(s), NEW x \in ToSet(s), NEW c, Kin(s, x, c), x # c
    PROVE  \E d \in ToSet(s) : Kin(s, x, d) /\ Ridden(s)[d] = c
  <1>1. PICK a : a = Chain(Ridden(s), x, Len(s))
    OBVIOUS
  <1>2. c \in ToSet(s) /\ Level(s, c) <= Level(s, x) /\ a[Level(s, x) - Level(s, c)] = c
    BY <1>1 DEF Kin
  <1>3. PICK l \in Nat : l = Level(s, x)
    BY LevelNat
  <1>4. PICK n \in Nat : n = Level(s, c)
    BY <1>2, LevelNat
  <1>5. PICK m \in Nat : m = Len(s)
    BY LevelNat
  <1>6. l < m /\ n <= l
    BY <1>2, <1>3, <1>4, <1>5, LevelNat
  <1>7. 0 \in 0..l
    OBVIOUS
  <1>8. IsChain(a, Ridden(s), x, m)
    BY <1>1, <1>3, <1>5, <1>7, AncestorsAre
  <1>9. l # n
    <2>1. a[0] = x
      BY <1>8 DEF IsChain
    <2>2. l = n => l - n = 0
      OBVIOUS
    <2> QED
      BY <1>2, <1>3, <1>4, <2>1, <2>2
  <1>10. PICK k : k = l - n
    OBVIOUS
  <1>11. k \in 1..m /\ k - 1 \in 0..l /\ l - (k - 1) = n + 1 /\ l - (n + 1) = k - 1 /\ n + 1 <= l
    BY <1>6, <1>9, <1>10
  <1>12. PICK d : d = a[k - 1]
    OBVIOUS
  <1>13. d \in ToSet(s) /\ Level(s, d) = n + 1
    BY <1>1, <1>3, <1>11, <1>12, AncestorsAre
  <1>14. d # NoClient
    BY <1>13, Entries, NoneIsNoClient DEF Placeable
  <1>15. a[k] = Ridden(s)[d]
    BY <1>8, <1>11, <1>12, <1>14 DEF IsChain
  <1>16. Kin(s, x, d)
    BY <1>1, <1>3, <1>11, <1>12, <1>13 DEF Kin
  <1> QED
    BY <1>2, <1>3, <1>4, <1>10, <1>13, <1>15, <1>16

LEMMA KinRoot ==
    ASSUME NEW s, Placeable(s), NEW x \in ToSet(s)
    PROVE  \E d \in ToSet(s) : Kin(s, x, d) /\ Ridden(s)[d] = NoClient
  <1>1. PICK a : a = Chain(Ridden(s), x, Len(s))
    OBVIOUS
  <1>2. PICK l \in Nat : l = Level(s, x)
    BY LevelNat
  <1>3. l \in 0..l /\ l - 0 = l /\ l - l = 0 /\ 0 <= l
    OBVIOUS
  <1>4. PICK d : d = a[l]
    OBVIOUS
  <1>5. d \in ToSet(s) /\ Level(s, d) = 0
    <2>1. l \in 0..Level(s, x)
      BY <1>2, <1>3
    <2>2. a[l] \in ToSet(s) /\ Level(s, a[l]) = Level(s, x) - l
      BY <1>1, <2>1, AncestorsAre
    <2> QED
      BY <1>2, <1>3, <1>4, <2>2
  <1>6. Kin(s, x, d)
    BY <1>1, <1>2, <1>3, <1>4, <1>5 DEF Kin
  <1>7. Ridden(s)[d] = NoClient
    <2>1. SUFFICES ASSUME Ridden(s)[d] # NoClient PROVE FALSE
      OBVIOUS
    <2>2. Level(s, d) = Level(s, Ridden(s)[d]) + 1 /\ Ridden(s)[d] \in ToSet(s)
      BY <1>5, <2>1, LevelsAre DEF Leveled
    <2>3. Level(s, Ridden(s)[d]) \in Nat
      BY <2>2, LevelNat
    <2> QED
      BY <1>5, <2>2, <2>3
  <1> QED
    BY <1>5, <1>6, <1>7

-----------------------------------------------------------------------------
(* The order of a refreshed stack: who is ridden is ahead of who rides, and  *)
(* two clients that neither rides the other are as their ancestors were that *)
(* stand on one parent, or on none.                                          *)

Siblings(s, d, e) == d \in ToSet(s) /\ e \in ToSet(s) /\ Ridden(s)[d] = Ridden(s)[e]

Parted(s, x, y) == \E d, e : Siblings(s, d, e) /\ Ahead(s, d, e) /\ Kin(s, x, d) /\ Kin(s, y, e)

Goes(s, x, y) == (x # y /\ Kin(s, y, x)) \/ Parted(s, x, y)

LEMMA SiblingsAre ==
    ASSUME NEW s, Placeable(s), NEW d, NEW e, Siblings(s, d, e)
    PROVE  Level(s, d) = Level(s, e)
  <1>1. Leveled(s) /\ d \in ToSet(s) /\ e \in ToSet(s) /\ Ridden(s)[d] = Ridden(s)[e]
    BY LevelsAre DEF Siblings
  <1>2. CASE Ridden(s)[d] = NoClient
    BY <1>1, <1>2 DEF Leveled
  <1>3. CASE Ridden(s)[d] # NoClient
    BY <1>1, <1>3 DEF Leveled
  <1> QED
    BY <1>2, <1>3

\* A client and who it rides are under one of the siblings.
LEMMA PartedApart ==
    ASSUME NEW s, Placeable(s), NEW x \in ToSet(s), NEW y \in ToSet(s), Kin(s, y, x)
    PROVE  ~Parted(s, x, y) /\ ~Parted(s, y, x)
  <1>1. ASSUME NEW d, NEW e, Siblings(s, d, e), Ahead(s, d, e) \/ Ahead(s, e, d), Kin(s, x, d), Kin(s, y, e)
        PROVE  FALSE
    <2>1. d \in ToSet(s) /\ Level(s, d) <= Level(s, x) /\ Level(s, d) = Level(s, e)
      BY <1>1, SiblingsAre DEF Kin
    <2>2. Kin(s, y, d)
      BY <1>1, <2>1, KinOfKin
    <2>3. d = e
      BY <1>1, <2>1, <2>2, KinOnce
    <2>4. ~Ahead(s, d, d)
      BY Entries DEF Placeable
    <2> QED
      BY <1>1, <2>3, <2>4
  <1> QED
    BY <1>1 DEF Parted, Siblings

LEMMA PartedOnce ==
    ASSUME NEW s, Placeable(s), NEW x \in ToSet(s), NEW y \in ToSet(s), Parted(s, x, y)
    PROVE  ~Parted(s, y, x)
  <1>1. SUFFICES ASSUME Parted(s, y, x) PROVE FALSE
    OBVIOUS
  <1>2. PICK d, e : Siblings(s, d, e) /\ Ahead(s, d, e) /\ Kin(s, x, d) /\ Kin(s, y, e)
    BY DEF Parted
  <1>3. PICK b, c : Siblings(s, b, c) /\ Ahead(s, b, c) /\ Kin(s, y, b) /\ Kin(s, x, c)
    BY <1>1 DEF Parted
  <1>4. /\ d \in ToSet(s) /\ e \in ToSet(s) /\ b \in ToSet(s) /\ c \in ToSet(s)
        /\ Level(s, d) = Level(s, e) /\ Level(s, b) = Level(s, c)
        /\ Level(s, d) \in Nat /\ Level(s, b) \in Nat
    BY <1>2, <1>3, SiblingsAre, LevelNat DEF Siblings
  <1>5. CASE Level(s, b) = Level(s, d)
    <2>1. b = e /\ c = d
      BY <1>2, <1>3, <1>4, <1>5, KinOnce
    <2>2. Ahead(s, d, e) /\ Ahead(s, e, d)
      BY <1>2, <1>3, <2>1
    <2>3. PICK i, j \in 1..Len(s) : i < j /\ s[i] = d /\ s[j] = e
      BY <2>2 DEF Ahead
    <2>4. PICK f, g \in 1..Len(s) : f < g /\ s[f] = e /\ s[g] = d
      BY <2>2 DEF Ahead
    <2>5. Len(s) \in Nat /\ DOMAIN s = 1..Len(s)
      BY Entries DEF Placeable
    <2>6. i = g /\ j = f
      BY <2>3, <2>4, <2>5 DEF Placeable, IsInjective
    <2> QED
      BY <2>3, <2>4, <2>5, <2>6
  <1>6. ASSUME NEW u \in ToSet(s), NEW v \in ToSet(s), NEW d1 \in ToSet(s), NEW e1 \in ToSet(s),
               NEW b1 \in ToSet(s), NEW c1 \in ToSet(s),
               Siblings(s, d1, e1), Siblings(s, b1, c1), b1 # c1,
               Kin(s, u, d1), Kin(s, v, e1), Kin(s, u, c1), Kin(s, v, b1),
               Level(s, b1) < Level(s, d1)
        PROVE  FALSE
    <2>1. Level(s, d1) = Level(s, e1) /\ Level(s, b1) = Level(s, c1) /\ Level(s, d1) \in Nat
            /\ Level(s, b1) \in Nat
      BY <1>6, SiblingsAre, LevelNat
    <2>2. Level(s, b1) <= Level(s, e1) /\ Level(s, c1) <= Level(s, d1)
      BY <1>6, <2>1
    <2>3. Kin(s, e1, b1) /\ Kin(s, d1, c1)
      BY <1>6, <2>2, KinOfKin
    <2>4. PICK p : p = Ridden(s)[d1] /\ p = Ridden(s)[e1]
      BY <1>6 DEF Siblings
    <2>5. p # NoClient
      BY <1>6, <2>1, <2>4, LevelsAre DEF Leveled
    <2>6. Kin(s, e1, p) /\ Kin(s, d1, p) /\ Level(s, d1) = Level(s, p) + 1 /\ p \in ToSet(s)
      <3>1. Ridden(s)[d1] # NoClient /\ Ridden(s)[e1] # NoClient
        BY <2>4, <2>5
      <3>2. Kin(s, d1, Ridden(s)[d1]) /\ Level(s, d1) = Level(s, Ridden(s)[d1]) + 1
        BY <3>1, KinUp
      <3>3. Kin(s, e1, Ridden(s)[e1])
        BY <3>1, KinUp
      <3>4. p \in ToSet(s)
        BY <2>4, <3>2 DEF Kin
      <3> QED
        BY <2>4, <3>2, <3>3, <3>4
    <2>7. Level(s, p) \in Nat /\ Level(s, b1) <= Level(s, p) /\ Level(s, c1) <= Level(s, p)
      BY <1>6, <2>1, <2>6, LevelNat
    <2>8. Kin(s, p, b1)
      BY <2>3, <2>6, <2>7, KinOfKin
    <2>9. Kin(s, p, c1)
      BY <2>3, <2>6, <2>7, KinOfKin
    <2>10. b1 = c1
      BY <2>1, <2>8, <2>9, KinOnce
    <2> QED
      BY <1>6, <2>10
  <1>7. b # c /\ d # e
    <2>1. ~Ahead(s, b, b) /\ ~Ahead(s, d, d)
      BY Entries DEF Placeable
    <2> QED
      BY <1>2, <1>3, <2>1
  <1>8. CASE Level(s, b) < Level(s, d)
    BY <1>2, <1>3, <1>4, <1>6, <1>7, <1>8
  <1>9. CASE Level(s, d) < Level(s, b)
    <2>1. Level(s, d) < Level(s, c) /\ Siblings(s, c, b) /\ Siblings(s, e, d)
      BY <1>2, <1>3, <1>4, <1>9 DEF Siblings
    <2>2. Level(s, e) < Level(s, c)
      BY <1>4, <2>1
    <2> QED
      BY <1>2, <1>3, <1>4, <1>6, <1>7, <2>1, <2>2
  <1> QED
    BY <1>4, <1>5, <1>8, <1>9

LEMMA GoesOneWay ==
    ASSUME NEW s, Placeable(s), NEW x \in ToSet(s), NEW y \in ToSet(s), Goes(s, x, y)
    PROVE  ~Goes(s, y, x) /\ x # y
  <1>1. CASE x # y /\ Kin(s, y, x)
    <2>1. ~Parted(s, y, x)
      BY <1>1, PartedApart
    <2>2. ~Kin(s, x, y)
      <3>1. SUFFICES ASSUME Kin(s, x, y) PROVE FALSE
        OBVIOUS
      <3>2. Level(s, x) = Level(s, y)
        BY <1>1, <3>1, LevelNat DEF Kin
      <3>3. Kin(s, x, x)
        BY KinSelf
      <3> QED
        BY <1>1, <3>1, <3>2, <3>3, KinOnce
    <2> QED
      BY <1>1, <2>1, <2>2 DEF Goes
  <1>2. CASE Parted(s, x, y)
    <2>1. ~Parted(s, y, x)
      BY <1>2, PartedOnce
    <2>2. ~Kin(s, x, y)
      BY <1>2, PartedApart
    <2>3. x # y
      BY <1>2, <2>1
    <2> QED
      BY <2>1, <2>2, <2>3 DEF Goes
  <1> QED
    BY <1>1, <1>2 DEF Goes

-----------------------------------------------------------------------------
(* What Place returns.                                                      *)

Trees == [Client -> Seq(Client)]

\* q is what h has of the clients of r, one after the other.
Gathers(q, r, h) ==
    /\ q \in Seq(Client)
    /\ \A x : x \in ToSet(q) <=> \E d \in ToSet(r) : x \in ToSet(h[d])
    /\ \A x, y : Ahead(q, x, y) =>
          \/ \E d \in ToSet(r) : Ahead(h[d], x, y)
          \/ \E d, e : Ahead(r, d, e) /\ x \in ToSet(h[d]) /\ y \in ToSet(h[e])

LEMMA Gathered ==
    ASSUME NEW r \in Seq(Client), NEW h \in Trees, NEW q, q = FlattenSeq([i \in DOMAIN r |-> h[r[i]]])
    PROVE  Gathers(q, r, h)
  <1>1. PICK m \in Nat : m = Len(r) /\ DOMAIN r = 1..m
    BY Entries
  <1>2. PICK p : p = [i \in 1..m |-> h[r[i]]]
    OBVIOUS
  <1>3. ASSUME NEW i \in 1..m PROVE r[i] \in Client /\ h[r[i]] \in Seq(Client)
    BY <1>1, ElementOfSeq DEF Trees
  <1>4. p \in Seq(Seq(Client)) /\ Len(p) = m
    BY <1>1, <1>2, <1>3, IsASeq, LenProperties
  <1>5. q = FlattenSeq(p)
    BY <1>1, <1>2
  <1>6. Flat(q, Client, p, m)
    BY <1>4, <1>5, Flattened
  <1>7. /\ q \in Seq(Client)
        /\ \A x : x \in ToSet(q) <=> \E i \in 1..m : x \in ToSet(p[i])
        /\ \A x, y : Ahead(q, x, y) <=>
              \/ \E i \in 1..m : Ahead(p[i], x, y)
              \/ \E i, j \in 1..m : i < j /\ x \in ToSet(p[i]) /\ y \in ToSet(p[j])
    BY <1>6 DEF Flat
  <1>8. \A i \in 1..m : p[i] = h[r[i]]
    BY <1>2
  <1>9. \A d : d \in ToSet(r) <=> \E i \in 1..m : r[i] = d
    BY <1>1, Entries
  <1>10. ASSUME NEW x PROVE x \in ToSet(q) <=> \E d \in ToSet(r) : x \in ToSet(h[d])
    BY <1>7, <1>8, <1>9
  <1>11. ASSUME NEW x, NEW y, Ahead(q, x, y)
         PROVE  \/ \E d \in ToSet(r) : Ahead(h[d], x, y)
                \/ \E d, e : Ahead(r, d, e) /\ x \in ToSet(h[d]) /\ y \in ToSet(h[e])
    <2>1. CASE \E i \in 1..m : Ahead(p[i], x, y)
      BY <1>8, <1>9, <2>1
    <2>2. CASE \E i, j \in 1..m : i < j /\ x \in ToSet(p[i]) /\ y \in ToSet(p[j])
      <3>1. PICK i \in 1..m, j \in 1..m : i < j /\ x \in ToSet(p[i]) /\ y \in ToSet(p[j])
        BY <2>2
      <3>2. Ahead(r, r[i], r[j])
        BY <1>1, <3>1 DEF Ahead
      <3> QED
        BY <1>8, <3>1, <3>2
    <2> QED
      BY <1>7, <1>11, <2>1, <2>2
  <1> QED
    BY <1>7, <1>10, <1>11 DEF Gathers

\* r has the clients of s that ride c, in their order.
Carries(s, r, c) ==
    /\ r \in Seq(Client)
    /\ \A x : x \in ToSet(r) <=> x \in ToSet(s) /\ Ridden(s)[x] = c
    /\ \A x, y : Ahead(r, x, y) <=>
          Ahead(s, x, y) /\ x \in ToSet(r) /\ y \in ToSet(r)

LEMMA RiddenIs ==
    ASSUME NEW s, Placeable(s), NEW x \in ToSet(s)
    PROVE  /\ x \in Client /\ (x \in Riding(s) <=> Rides(s, x))
           /\ Ridden(s)[x] = IF Rides(s, x) THEN transient_for[x] ELSE NoClient
           /\ Rides(s, x) => transient_for[x] \in Client
  <1>1. ToSet(s) \subseteq Client
    BY Entries DEF Placeable
  <1>2. x \in Riding(s) <=> Rides(s, x)
    BY DEF Riding
  <1>3. Rides(s, x) => transient_for[x] \in ToSet(s)
    BY RidesOne
  <1> QED
    BY <1>1, <1>2, <1>3 DEF Ridden

LEMMA RidersAre ==
    ASSUME NEW s, Placeable(s), NEW c \in Client
    PROVE  Carries(s, Riders(s)[c], c)
  <1>1. PICK T : T = {d \in Riding(s) : transient_for[d] = c}
    OBVIOUS
  <1>2. Riders(s)[c] = Filtered(s, T)
    BY <1>1 DEF Riders
  <1>3. ASSUME NEW x \in ToSet(s) PROVE x \in T <=> Ridden(s)[x] = c
    BY <1>1, RiddenIs, NoneIsNoClient
  <1>4. s \in Seq(Client)
    BY DEF Placeable
  <1>5. PICK r : r = Filtered(s, T)
    OBVIOUS
  <1>6. /\ r \in Seq(Client)
        /\ \A x : x \in ToSet(r) <=> x \in T /\ x \in ToSet(s)
        /\ \A x, y : Ahead(r, x, y) <=> x \in T /\ y \in T /\ Ahead(s, x, y)
    BY <1>4, <1>5, Kept
  <1>7. \A x, y : Ahead(s, x, y) => x \in ToSet(s) /\ y \in ToSet(s)
    BY <1>4, Entries
  <1>8. Carries(s, r, c)
    BY <1>3, <1>6, <1>7 DEF Carries
  <1> QED
    BY <1>2, <1>5, <1>8

LEMMA RootsAre ==
    ASSUME NEW s, Placeable(s)
    PROVE  Carries(s, Roots(s), NoClient)
  <1>1. PICK T : T = ToSet(s) \ Riding(s)
    OBVIOUS
  <1>2. Roots(s) = Filtered(s, T)
    BY <1>1 DEF Roots, Without
  <1>3. ASSUME NEW x \in ToSet(s) PROVE x \in T <=> Ridden(s)[x] = NoClient
    BY <1>1, RiddenIs, NoneIsNoClient
  <1>4. s \in Seq(Client)
    BY DEF Placeable
  <1>5. PICK r : r = Filtered(s, T)
    OBVIOUS
  <1>6. /\ r \in Seq(Client)
        /\ \A x : x \in ToSet(r) <=> x \in T /\ x \in ToSet(s)
        /\ \A x, y : Ahead(r, x, y) <=> x \in T /\ y \in T /\ Ahead(s, x, y)
    BY <1>4, <1>5, Kept
  <1>7. \A x, y : Ahead(s, x, y) => x \in ToSet(s) /\ y \in ToSet(s)
    BY <1>4, Entries
  <1>8. Carries(s, r, NoClient)
    BY <1>3, <1>6, <1>7 DEF Carries
  <1> QED
    BY <1>2, <1>5, <1>8

LEMMA GrownIs ==
    ASSUME NEW s, Placeable(s), NEW h \in Trees
    PROVE  /\ Grown(Riders(s), h) \in Trees
           /\ \A c \in Client : \E q :
                 /\ Grown(Riders(s), h)[c] = <<c>> \o q
                 /\ Gathers(q, Riders(s)[c], h)
  <1>1. ASSUME NEW c \in Client
        PROVE  /\ Grown(Riders(s), h)[c] \in Seq(Client)
               /\ \E q : /\ Grown(Riders(s), h)[c] = <<c>> \o q
                         /\ Gathers(q, Riders(s)[c], h)
    <2>1. PICK r : r = Riders(s)[c] /\ r \in Seq(Client)
      BY RidersAre DEF Carries
    <2>2. PICK q : q = FlattenSeq([i \in DOMAIN r |-> h[r[i]]])
      OBVIOUS
    <2>3. Gathers(q, r, h)
      BY <2>1, <2>2, Gathered
    <2>4. Grown(Riders(s), h)[c] = <<c>> \o q
      BY <2>1, <2>2 DEF Grown
    <2>5. PICK e : e = <<c>> /\ e \in Seq(Client)
      BY Single
    <2>6. e \o q \in Seq(Client)
      BY <2>3, <2>5, ConcatProperties DEF Gathers
    <2> QED
      BY <2>1, <2>3, <2>4, <2>5, <2>6
  <1>2. Grown(Riders(s), h) = [c \in Client |-> Grown(Riders(s), h)[c]]
    BY DEF Grown
  <1> QED
    BY <1>1, <1>2 DEF Trees

\* f has the generations of trees that Place goes through.
Forest(f, s, m) ==
    /\ f \in [0..m -> Trees] /\ f[0] = [c \in Client |-> <<>>]
    /\ \A n \in 1..m : f[n] = Grown(Riders(s), f[n - 1])

LEMMA ForestIs ==
    ASSUME NEW s, Placeable(s), NEW m \in Nat, m = Len(s)
    PROVE  \E f : Forest(f, s, m) /\ Gathers(Place(s), Roots(s), f[m])
  <1>1. PICK D : D = Trees
    OBVIOUS
  <1>2. PICK z : z = [c \in Client |-> <<>>]
    OBVIOUS
  <1>3. z \in D
    BY <1>1, <1>2, EmptySeq DEF Trees
  <1>4. PICK r : r = Riders(s)
    OBVIOUS
  <1>5. PICK g : g = [p \in Nat \X D |-> Grown(r, p[2])]
    OBVIOUS
  <1>6. ASSUME NEW n \in Nat, NEW y \in D PROVE g[<<n, y>>] = Grown(r, y) /\ g[<<n, y>>] \in D
    <2>1. g[<<n, y>>] = Grown(r, y)
      BY <1>5
    <2>2. Grown(r, y) \in D
      BY <1>1, <1>4, GrownIs
    <2> QED
      BY <2>1, <2>2
  <1>7. PICK f \in [0..m -> D] : BuiltAlong(f, 0, m, z, g)
    BY <1>3, <1>6, Builds
  <1> DEFINE E(h, n) == IF n = 0 THEN z ELSE Grown(r, h[n - 1])
  <1>8. ASSUME NEW n \in 0..m PROVE f[n] = E(f, n)
    <2>1. f[n] = IF n = 0 THEN z ELSE g[<<n, f[n - 1]>>]
      BY <1>7 DEF BuiltAlong
    <2>2. CASE n # 0
      <3>1. n \in Nat /\ n - 1 \in 0..m
        BY <2>2
      <3>2. f[n - 1] \in D
        BY <1>7, <3>1
      <3>3. g[<<n, f[n - 1]>>] = Grown(r, f[n - 1])
        BY <1>6, <3>1, <3>2
      <3> QED
        BY <2>1, <2>2, <3>3
    <2> QED
      BY <2>1, <2>2
  <1>9. f = [n \in 0..m |-> E(f, n)]
    BY <1>7, <1>8
  <1>10. PICK k : k = CHOOSE h : h = [n \in 0..m |-> E(h, n)]
    OBVIOUS
  <1>11. k = [n \in 0..m |-> E(k, n)]
    BY <1>9, <1>10
  <1>12. \A n \in 0..m : k[n] = f[n]
    <2>1. PICK A : A = {n \in Nat : n \in 0..m => k[n] = f[n]}
      OBVIOUS
    <2>2. 0 \in A
      BY <1>8, <1>11, <2>1
    <2>3. ASSUME NEW n \in 0..m, n \in A /\ n < m PROVE n + 1 \in A
      <3>1. n + 1 \in 0..m /\ n + 1 # 0 /\ (n + 1) - 1 = n /\ n + 1 \in Nat
        BY <2>3
      <3>2. k[n + 1] = E(k, n + 1) /\ f[n + 1] = E(f, n + 1) /\ k[n] = f[n]
        BY <1>8, <1>11, <2>1, <2>3, <3>1
      <3>3. E(k, n + 1) = E(f, n + 1)
        BY <3>1, <3>2
      <3> QED
        BY <2>1, <3>1, <3>2, <3>3
    <2>4. \A n \in 0..m : n \in A
      BY <2>2, <2>3, Climbs
    <2> QED
      BY <2>1, <2>4
  <1>13. m \in 0..m /\ 0 \in 0..m /\ f[m] \in Trees /\ k[m] = f[m]
    BY <1>1, <1>7, <1>12
  <1>14. Place(s) = FlattenSeq([i \in DOMAIN Roots(s) |-> k[m][Roots(s)[i]]])
    BY <1>2, <1>4, <1>10 DEF Place
  <1>15. Roots(s) \in Seq(Client)
    BY RootsAre DEF Carries
  <1>16. Gathers(Place(s), Roots(s), f[m])
    BY <1>13, <1>14, <1>15, Gathered
  <1>17. f[0] = [c \in Client |-> <<>>]
    BY <1>2, <1>8, <1>13
  <1>18. \A n \in 1..m : f[n] = Grown(Riders(s), f[n - 1])
    BY <1>4, <1>8
  <1>19. Forest(f, s, m)
    BY <1>1, <1>7, <1>17, <1>18 DEF Forest
  <1> QED
    BY <1>16, <1>19

\* t has c and who rides it, to the nth generation, in the order of Goes.
Bears(s, t, c, n) ==
    /\ \A x : x \in ToSet(t) <=> x \in ToSet(s) /\ Kin(s, x, c) /\ Level(s, x) - Level(s, c) < n
    /\ \A x, y : Ahead(t, x, y) => Goes(s, x, y)

LEMMA BearsNone ==
    ASSUME NEW s, Placeable(s), NEW c \in ToSet(s)
    PROVE  Bears(s, <<>>, c, 0)
  <1>1. PICK t : t = <<>>
    OBVIOUS
  <1>2. ToSet(t) = {} /\ \A x, y : ~Ahead(t, x, y)
    BY <1>1, Nothing
  <1>3. ASSUME NEW x \in ToSet(s), Kin(s, x, c) PROVE ~(Level(s, x) - Level(s, c) < 0)
    BY <1>3, LevelNat DEF Kin
  <1>4. Bears(s, t, c, 0)
    BY <1>2, <1>3 DEF Bears
  <1> QED
    BY <1>1, <1>4

LEMMA BearsMore ==
    ASSUME NEW s, Placeable(s), NEW h \in Trees, NEW n \in Nat,
           \A d \in ToSet(s) : Bears(s, h[d], d, n), NEW c \in ToSet(s)
    PROVE  Bears(s, Grown(Riders(s), h)[c], c, n + 1)
  <1>1. c \in Client
    BY RiddenIs
  <1>2. PICK q : Grown(Riders(s), h)[c] = <<c>> \o q /\ Gathers(q, Riders(s)[c], h)
    BY <1>1, GrownIs
  <1>3. PICK r : r = Riders(s)[c]
    OBVIOUS
  <1>4. Carries(s, r, c) /\ Gathers(q, r, h)
    BY <1>1, <1>2, <1>3, RidersAre
  <1>5. PICK e : e = <<c>> /\ e \in Seq(Client) /\ ToSet(e) = {c} /\ \A x, y : ~Ahead(e, x, y)
    BY <1>1, Single
  <1>6. PICK t : t = e \o q
    OBVIOUS
  <1>7. q \in Seq(Client)
    BY <1>4 DEF Gathers
  <1>8. /\ \A x : x \in ToSet(t) <=> x = c \/ x \in ToSet(q)
        /\ \A x, y : Ahead(t, x, y) <=> Ahead(q, x, y) \/ (x = c /\ y \in ToSet(q))
    <2>1. e \in Seq(Client)
      BY <1>5
    <2>2. /\ \A x : x \in ToSet(t) <=> x \in ToSet(e) \/ x \in ToSet(q)
          /\ \A x, y : Ahead(t, x, y) <=> \/ Ahead(e, x, y) \/ Ahead(q, x, y)
                                          \/ x \in ToSet(e) /\ y \in ToSet(q)
      BY <2>1, <1>6, <1>7, Joined
    <2>3. \A x : x \in ToSet(e) <=> x = c
      BY <1>5
    <2> QED
      BY <1>5, <2>1, <2>2, <2>3
  <1>9. ASSUME NEW d \in ToSet(r)
        PROVE  /\ d \in ToSet(s) /\ Ridden(s)[d] = c /\ Kin(s, d, c)
                 /\ Level(s, d) = Level(s, c) + 1
    <2>1. d \in ToSet(s) /\ Ridden(s)[d] = c
      BY <1>4 DEF Carries
    <2>2. c # NoClient
      BY <1>1, NoneIsNoClient
    <2> QED
      BY <2>1, <2>2, KinUp
  <1>10. Level(s, c) \in Nat
    BY LevelNat
  <1>11. ASSUME NEW d \in ToSet(r), NEW x \in ToSet(h[d])
         PROVE  x \in ToSet(s) /\ Kin(s, x, c) /\ Level(s, x) - Level(s, c) < n + 1 /\ x # c
                  /\ Kin(s, x, d)
    <2>1. d \in ToSet(s) /\ Kin(s, d, c) /\ Level(s, d) = Level(s, c) + 1
      BY <1>9
    <2>2. x \in ToSet(s) /\ Kin(s, x, d) /\ Level(s, x) - Level(s, d) < n
      BY <2>1 DEF Bears
    <2>3. Level(s, x) \in Nat /\ Level(s, d) \in Nat
      BY <2>1, <2>2, LevelNat
    <2>4. Level(s, d) <= Level(s, x)
      BY <2>2 DEF Kin
    <2>5. Level(s, c) <= Level(s, d)
      BY <1>10, <2>1
    <2>6. Kin(s, x, c)
      BY <2>1, <2>2, <2>5, KinOfKin
    <2>7. Level(s, x) - Level(s, c) < n + 1 /\ Level(s, x) # Level(s, c)
      BY <1>10, <2>1, <2>2, <2>3, <2>4
    <2> QED
      BY <2>2, <2>6, <2>7
  <1>12. \A x : x \in ToSet(q) <=> \E d \in ToSet(r) : x \in ToSet(h[d])
    BY <1>4 DEF Gathers
  <1>13. ASSUME NEW x \in ToSet(s), Kin(s, x, c), Level(s, x) - Level(s, c) < n + 1, x # c
         PROVE  x \in ToSet(q)
    <2>1. PICK d \in ToSet(s) : Kin(s, x, d) /\ Ridden(s)[d] = c
      BY <1>13, KinNext
    <2>2. d \in ToSet(r)
      BY <1>4, <2>1 DEF Carries
    <2>3. Level(s, d) = Level(s, c) + 1
      BY <1>9, <2>2
    <2>4. Level(s, x) \in Nat
      BY LevelNat
    <2>5. Level(s, x) - Level(s, d) < n
      BY <1>10, <1>13, <2>3, <2>4
    <2>6. x \in ToSet(h[d])
      BY <2>1, <2>5 DEF Bears
    <2> QED
      BY <1>12, <2>2, <2>6
  <1>14. ASSUME NEW x
         PROVE  x \in ToSet(t) <=> x \in ToSet(s) /\ Kin(s, x, c)
                  /\ Level(s, x) - Level(s, c) < n + 1
    <2>1. Kin(s, c, c) /\ Level(s, c) - Level(s, c) < n + 1
      BY <1>10, KinSelf
    <2>2. CASE x = c
      BY <1>8, <2>1, <2>2
    <2>3. CASE x # c
      BY <1>8, <1>11, <1>12, <1>13, <2>3
    <2> QED
      BY <2>2, <2>3
  <1>15. ASSUME NEW x, NEW y, Ahead(t, x, y) PROVE Goes(s, x, y)
    <2>1. CASE x = c /\ y \in ToSet(q)
      BY <1>11, <1>12, <2>1 DEF Goes
    <2>2. CASE Ahead(q, x, y)
      <3>1. \/ \E d \in ToSet(r) : Ahead(h[d], x, y)
            \/ \E d, f : Ahead(r, d, f) /\ x \in ToSet(h[d]) /\ y \in ToSet(h[f])
        BY <1>4, <2>2 DEF Gathers
      <3>2. CASE \E d \in ToSet(r) : Ahead(h[d], x, y)
        BY <1>9, <3>2 DEF Bears
      <3>3. ASSUME NEW d, NEW f, Ahead(r, d, f), x \in ToSet(h[d]), y \in ToSet(h[f])
            PROVE  Goes(s, x, y)
        <4>1. d \in ToSet(r) /\ f \in ToSet(r) /\ Ahead(s, d, f)
          BY <1>4, <3>3 DEF Carries
        <4>2. Siblings(s, d, f)
          BY <1>9, <4>1 DEF Siblings
        <4>3. Kin(s, x, d) /\ Kin(s, y, f)
          BY <1>11, <3>3, <4>1
        <4> QED
          BY <4>1, <4>2, <4>3 DEF Goes, Parted
      <3> QED
        BY <3>1, <3>2, <3>3
    <2> QED
      BY <1>8, <1>15, <2>1, <2>2
  <1>16. Bears(s, t, c, n + 1)
    BY <1>14, <1>15 DEF Bears
  <1> QED
    BY <1>2, <1>5, <1>6, <1>16

LEMMA TreesBear ==
    ASSUME NEW s, Placeable(s), NEW m \in Nat, NEW f, Forest(f, s, m)
    PROVE  \A d \in ToSet(s) : Bears(s, f[m][d], d, m)
  <1>1. PICK A : A = {n \in Nat : n \in 0..m => \A d \in ToSet(s) : Bears(s, f[n][d], d, n)}
    OBVIOUS
  <1>2. 0 \in A
    <2>1. ASSUME NEW d \in ToSet(s) PROVE f[0][d] = <<>>
      BY RiddenIs DEF Forest
    <2>2. ASSUME NEW d \in ToSet(s) PROVE Bears(s, f[0][d], d, 0)
      BY <2>1, BearsNone
    <2> QED
      BY <1>1, <2>2
  <1>3. ASSUME NEW n \in 0..m, n \in A /\ n < m PROVE n + 1 \in A
    <2>1. n + 1 \in 1..m /\ (n + 1) - 1 = n /\ n \in Nat /\ n + 1 \in Nat
      BY <1>3
    <2>2. PICK h : h = f[n]
      OBVIOUS
    <2>3. h \in Trees /\ f[n + 1] = Grown(Riders(s), h)
      BY <2>1, <2>2 DEF Forest
    <2>4. \A d \in ToSet(s) : Bears(s, h[d], d, n)
      BY <1>1, <1>3, <2>2
    <2>5. ASSUME NEW d \in ToSet(s) PROVE Bears(s, f[n + 1][d], d, n + 1)
      <3>1. Bears(s, Grown(Riders(s), h)[d], d, n + 1)
        BY <2>1, <2>3, <2>4, BearsMore
      <3> QED
        BY <2>3, <3>1
    <2> QED
      BY <1>1, <2>1, <2>5
  <1>4. \A n \in 0..m : n \in A
    BY <1>2, <1>3, Climbs
  <1>5. m \in 0..m
    OBVIOUS
  <1> QED
    BY <1>1, <1>4, <1>5

\* p has what s has, in the order of Goes.
Placed(s, p) ==
    /\ p \in Seq(Client) /\ IsInjective(p) /\ ToSet(p) = ToSet(s)
    /\ \A x, y : Ahead(p, x, y) => Goes(s, x, y)

LEMMA PlacedRight ==
    ASSUME NEW s, Placeable(s)
    PROVE  Placed(s, Place(s))
  <1>1. PICK m \in Nat : m = Len(s)
    BY Entries DEF Placeable
  <1>2. PICK f : Forest(f, s, m) /\ Gathers(Place(s), Roots(s), f[m])
    BY <1>1, ForestIs
  <1>3. PICK h : h = f[m]
    OBVIOUS
  <1>4. \A d \in ToSet(s) : Bears(s, h[d], d, m)
    BY <1>2, <1>3, TreesBear
  <1>5. PICK p : p = Place(s)
    OBVIOUS
  <1>6. PICK r : r = Roots(s) /\ Carries(s, r, NoClient) /\ Gathers(p, r, h)
    BY <1>2, <1>3, <1>5, RootsAre
  <1>7. \A d : d \in ToSet(r) <=> d \in ToSet(s) /\ Ridden(s)[d] = NoClient
    BY <1>6 DEF Carries
  <1>8. ASSUME NEW x PROVE x \in ToSet(p) <=> x \in ToSet(s)
    <2>1. x \in ToSet(p) <=> \E d \in ToSet(r) : x \in ToSet(h[d])
      BY <1>6 DEF Gathers
    <2>2. ASSUME NEW d \in ToSet(r), x \in ToSet(h[d]) PROVE x \in ToSet(s)
      BY <1>4, <1>7, <2>2 DEF Bears
    <2>3. ASSUME x \in ToSet(s) PROVE \E d \in ToSet(r) : x \in ToSet(h[d])
      <3>1. PICK d \in ToSet(s) : Kin(s, x, d) /\ Ridden(s)[d] = NoClient
        BY <2>3, KinRoot
      <3>2. Level(s, x) < m /\ Level(s, x) \in Nat /\ Level(s, d) \in Nat
        BY <1>1, <2>3, <3>1, LevelNat
      <3>3. Level(s, x) - Level(s, d) < m
        BY <3>2
      <3>4. x \in ToSet(h[d])
        BY <1>4, <2>3, <3>1, <3>3 DEF Bears
      <3> QED
        BY <1>7, <3>1, <3>4
    <2> QED
      BY <2>1, <2>2, <2>3
  <1>9. ASSUME NEW x, NEW y, Ahead(p, x, y) PROVE Goes(s, x, y)
    <2>1. \/ \E d \in ToSet(r) : Ahead(h[d], x, y)
          \/ \E d, e : Ahead(r, d, e) /\ x \in ToSet(h[d]) /\ y \in ToSet(h[e])
      BY <1>6, <1>9 DEF Gathers
    <2>2. CASE \E d \in ToSet(r) : Ahead(h[d], x, y)
      BY <1>4, <1>7, <2>2 DEF Bears
    <2>3. ASSUME NEW d, NEW e, Ahead(r, d, e), x \in ToSet(h[d]), y \in ToSet(h[e])
          PROVE  Goes(s, x, y)
      <3>1. d \in ToSet(r) /\ e \in ToSet(r) /\ Ahead(s, d, e)
        BY <1>6, <2>3 DEF Carries
      <3>2. Siblings(s, d, e)
        BY <1>7, <3>1 DEF Siblings
      <3>3. Kin(s, x, d) /\ Kin(s, y, e)
        BY <1>4, <1>7, <2>3, <3>1 DEF Bears
      <3> QED
        BY <3>1, <3>2, <3>3 DEF Goes, Parted
    <2> QED
      BY <2>1, <2>2, <2>3
  <1>10. p \in Seq(Client)
    BY <1>6 DEF Gathers
  <1>11. ToSet(p) = ToSet(s)
    BY <1>8
  <1>12. ASSUME NEW x PROVE ~Ahead(p, x, x)
    <2>1. SUFFICES ASSUME Ahead(p, x, x) PROVE FALSE
      OBVIOUS
    <2>2. x \in ToSet(s)
      BY <1>10, <1>11, <2>1, Entries
    <2> QED
      BY <1>9, <2>1, <2>2, GoesOneWay
  <1>13. IsInjective(p)
    BY <1>10, <1>12, Entries
  <1>14. Placed(s, p)
    BY <1>9, <1>10, <1>11, <1>13 DEF Placed
  <1> QED
    BY <1>5, <1>14

-----------------------------------------------------------------------------
(* What depends on what a stack has, and not on its order.                  *)

LEMMA Counted ==
    ASSUME NEW S, NEW s \in Seq(S), IsInjective(s)
    PROVE  Len(s) = Cardinality(ToSet(s))
  <1>1. PICK m \in Nat : m = Len(s) /\ DOMAIN s = 1..m
    BY Entries
  <1>2. PICK T : T = ToSet(s)
    OBVIOUS
  <1>3. \A x : x \in T <=> \E i \in 1..m : s[i] = x
    BY <1>1, <1>2, Entries
  <1>4. s \in [1..m -> T]
    <2>1. s = [i \in 1..m |-> s[i]]
      BY <1>1, LenProperties
    <2>2. \A i \in 1..m : s[i] \in T
      BY <1>3
    <2> QED
      BY <2>1, <2>2
  <1>5. s \in Injection(1..m, T)
    BY <1>1, <1>4 DEF Injection, IsInjective
  <1>6. s \in Surjection(1..m, T)
    BY <1>3, <1>4 DEF Surjection
  <1>7. ExistsBijection(1..m, T)
    BY <1>5, <1>6 DEF ExistsBijection, Bijection
  <1>8. Cardinality(T) = m
    BY <1>7, FS_CountingElements
  <1> QED
    BY <1>1, <1>2, <1>8

LEMMA ShortEnough ==
    ASSUME NEW s \in Seq(Client), IsInjective(s)
    PROVE  Longest \in Nat /\ Len(s) <= Longest
  <1>1. PICK C : C = Client
    OBVIOUS
  <1>2. IsFiniteSet(C)
    BY <1>1, ClientsAssumption DEF Client
  <1>3. PICK T : T = ToSet(s) /\ T \in SUBSET C
    BY <1>1, Entries
  <1>4. Cardinality(T) <= Cardinality(C) /\ Cardinality(C) \in Nat
    BY <1>2, <1>3, FS_Subset, FS_CardinalityType
  <1>5. Len(s) = Cardinality(T)
    BY <1>3, Counted
  <1> QED
    BY <1>1, <1>4, <1>5 DEF Longest

LEMMA RidesAlike ==
    ASSUME NEW s, Placeable(s), NEW p, Placeable(p), ToSet(p) = ToSet(s)
    PROVE  Len(p) = Len(s) /\ \A c \in Client : Rides(p, c) <=> Rides(s, c)
  <1>1. Len(p) = Len(s)
    BY Counted DEF Placeable
  <1>2. Within(p) = Within(s)
    <2>1. \A d \in Client : Within(p)[d] = Within(s)[d]
      BY WithinIs
    <2> QED
      BY <2>1 DEF Within
  <1> QED
    BY <1>1, <1>2 DEF Rides

LEMMA PositionIs ==
    ASSUME NEW s \in Seq(Client), IsInjective(s), NEW i \in 1..Len(s)
    PROVE  Position(s, s[i]) = i
  <1>1. DOMAIN s = 1..Len(s)
    BY Entries
  <1> QED
    BY <1>1 DEF Position, IsInjective

LEMMA PositionAhead ==
    ASSUME NEW s \in Seq(Client), IsInjective(s), NEW x \in ToSet(s), NEW y \in ToSet(s)
    PROVE  /\ Position(s, x) \in 1..Len(s) /\ s[Position(s, x)] = x
           /\ Position(s, x) < Position(s, y) <=> Ahead(s, x, y)
  <1>1. PICK i \in 1..Len(s), j \in 1..Len(s) : s[i] = x /\ s[j] = y
    BY Entries
  <1>2. Position(s, x) = i /\ Position(s, y) = j
    BY <1>1, PositionIs
  <1>3. ASSUME Ahead(s, x, y) PROVE i < j
    <2>1. PICK k \in 1..Len(s), l \in 1..Len(s) : k < l /\ s[k] = x /\ s[l] = y
      BY <1>3 DEF Ahead
    <2>2. Position(s, x) = k /\ Position(s, y) = l
      BY <2>1, PositionIs
    <2> QED
      BY <1>2, <2>1, <2>2
  <1>4. ASSUME i < j PROVE Ahead(s, x, y)
    BY <1>1, <1>4 DEF Ahead
  <1> QED
    BY <1>1, <1>2, <1>3, <1>4

\* Who rides another is a transient of it, at whatever distance.
LEMMA KinDescends ==
    ASSUME NEW s, Placeable(s), NEW x \in ToSet(s), NEW c, Kin(s, x, c), x # c
    PROVE  Descends(transient_for, x, c)
  <1>1. PICK m \in Nat : m = Len(s)
    BY Entries DEF Placeable
  <1>2. PICK l : l = Longest
    OBVIOUS
  <1>3. l \in Nat /\ m <= l
    BY <1>1, <1>2, ShortEnough DEF Placeable
  <1>4. PICK a : a = Chain(Ridden(s), x, m)
    OBVIOUS
  <1>5. PICK k : k = Level(s, x) - Level(s, c)
    OBVIOUS
  <1>6. Level(s, x) \in Nat /\ Level(s, x) < m /\ Level(s, c) \in Nat /\ c \in ToSet(s)
          /\ Level(s, c) <= Level(s, x)
    BY <1>1, LevelNat DEF Kin
  <1>7. a[k] = c /\ k \in 0..Level(s, x) /\ Level(s, x) \in 0..m
    BY <1>1, <1>4, <1>5, <1>6 DEF Kin
  <1>8. /\ IsChain(a, Ridden(s), x, m)
        /\ \A n \in 0..Level(s, x) : a[n] \in ToSet(s)
    <2>1. ASSUME NEW n \in 0..Level(s, x) PROVE IsChain(a, Ridden(s), x, m) /\ a[n] \in ToSet(s)
      BY <1>1, <1>4, AncestorsAre
    <2>2. 0 \in 0..Level(s, x)
      BY <1>7
    <2> QED
      BY <2>1, <2>2
  <1>9. PICK b : b = Chain(transient_for, x, l)
    OBVIOUS
  <1>10. x \in Linked
    BY RiddenIs DEF Linked
  <1>11. IsChain(b, transient_for, x, l)
    BY <1>3, <1>9, <1>10, ChainIs DEF Placeable
  <1>12. PICK A : A = {n \in Nat : n \in 0..k => b[n] = a[n]}
    OBVIOUS
  <1>13. 0 \in A
    BY <1>8, <1>11, <1>12 DEF IsChain
  <1>14. ASSUME NEW n \in 0..k, n \in A /\ n < k PROVE n + 1 \in A
    <2>1. /\ n \in 0..Level(s, x) /\ n + 1 \in 0..Level(s, x) /\ n \in Nat /\ n + 1 \in Nat
          /\ (n + 1) - 1 = n /\ n + 1 \in 1..m /\ n + 1 \in 1..l
      BY <1>3, <1>6, <1>7, <1>14
    <2>2. a[n] \in ToSet(s) /\ a[n + 1] \in ToSet(s) /\ b[n] = a[n]
      BY <1>8, <1>12, <1>14, <2>1
    <2>3. a[n] # NoClient /\ a[n + 1] # NoClient
      BY <2>2, RiddenIs, NoneIsNoClient
    <2>4. a[n + 1] = Ridden(s)[a[n]]
      BY <1>8, <2>1, <2>3 DEF IsChain
    <2>5. Ridden(s)[a[n]] = transient_for[a[n]]
      BY <2>2, <2>3, <2>4, RiddenIs
    <2>6. b[n + 1] = transient_for[b[n]]
      BY <1>11, <2>1, <2>2, <2>3 DEF IsChain
    <2> QED
      BY <1>12, <2>1, <2>2, <2>4, <2>5, <2>6
  <1>15. \A n \in 0..k : n \in A
    BY <1>7, <1>13, <1>14, Climbs
  <1>16. k # 0
    <2>1. a[0] = x
      BY <1>8 DEF IsChain
    <2> QED
      BY <1>7, <2>1
  <1>17. k \in 0..k /\ k \in 1..l /\ k \in Nat
    BY <1>3, <1>6, <1>7, <1>16
  <1>18. b[k] = c
    BY <1>7, <1>12, <1>15, <1>17
  <1> QED
    BY <1>2, <1>9, <1>17, <1>18 DEF Descends

-----------------------------------------------------------------------------
(* A refreshed stack has every transient right above who it rides.          *)

Sits(s) ==
    \A c \in ToSet(s) : Rides(s, c) =>
        LET p == transient_for[c]
        IN  /\ Position(s, p) < Position(s, c)
            /\ \A i \in Position(s, p) + 1..Position(s, c) : Descends(transient_for, s[i], p)

LEMMA PlacedIsPlaceable ==
    ASSUME NEW s, Placeable(s)
    PROVE  Placeable(Place(s)) /\ ToSet(Place(s)) = ToSet(s) /\ Len(Place(s)) = Len(s)
  <1>1. Placeable(Place(s)) /\ ToSet(Place(s)) = ToSet(s)
    BY PlacedRight DEF Placed, Placeable
  <1> QED
    BY <1>1, RidesAlike

LEMMA PlacedSits ==
    ASSUME NEW s, Placeable(s)
    PROVE  Sits(Place(s))
  <1>1. PICK p : p = Place(s)
    OBVIOUS
  <1>2. Placeable(p) /\ ToSet(p) = ToSet(s) /\ Len(p) = Len(s) /\ Placed(s, p)
    BY <1>1, PlacedIsPlaceable, PlacedRight
  <1>3. p \in Seq(Client) /\ IsInjective(p)
    BY <1>2 DEF Placeable
  <1>4. ASSUME NEW c \in ToSet(s), Rides(p, c), NEW q, q = transient_for[c]
        PROVE  /\ Position(p, q) < Position(p, c)
               /\ \A i \in Position(p, q) + 1..Position(p, c) : Descends(transient_for, p[i], q)
    <2>1. Rides(s, c) /\ c \in Client
      BY <1>2, <1>4, RidesAlike, RiddenIs
    <2>2. Ridden(s)[c] = q /\ q # NoClient
      BY <1>4, <2>1, RiddenIs, NoneIsNoClient
    <2>3. Kin(s, c, q) /\ Level(s, c) = Level(s, q) + 1 /\ q \in ToSet(s)
      BY <2>2, KinUp DEF Kin
    <2>4. Level(s, q) \in Nat
      BY <2>3, LevelNat
    <2>5. q # c
      BY <2>3, <2>4
    <2>6. Goes(s, q, c)
      BY <2>3, <2>5 DEF Goes
    <2>7. \A x, y : Ahead(p, x, y) => Goes(s, x, y)
      BY <1>2 DEF Placed
    <2>8. ~Ahead(p, c, q)
      BY <2>3, <2>6, <2>7, GoesOneWay
    <2>9. /\ Position(p, q) \in 1..Len(p) /\ p[Position(p, q)] = q
          /\ Position(p, c) \in 1..Len(p) /\ p[Position(p, c)] = c
          /\ ~(Position(p, c) < Position(p, q))
      BY <1>2, <1>3, <2>3, <2>8, PositionAhead
    <2>10. Position(p, q) # Position(p, c)
      BY <2>5, <2>9
    <2>11. Position(p, q) < Position(p, c)
      BY <1>3, <2>9, <2>10
    <2>12. ASSUME NEW i \in Position(p, q) + 1..Position(p, c)
           PROVE  Descends(transient_for, p[i], q)
      <3>1. i \in 1..Len(p) /\ Position(p, q) < i /\ (i < Position(p, c) \/ i = Position(p, c))
        BY <2>9, <2>12
      <3>2. PICK y : y = p[i]
        OBVIOUS
      <3>3. y \in ToSet(s) /\ Ahead(p, q, y)
        <4>1. Ahead(p, q, y)
          BY <2>9, <3>1, <3>2 DEF Ahead
        <4> QED
          BY <1>2, <1>3, <4>1, Entries
      <3>4. Goes(s, q, y)
        BY <2>7, <3>3
      <3>5. CASE q # y /\ Kin(s, y, q)
        BY <3>2, <3>3, <3>5, KinDescends
      <3>6. CASE Parted(s, q, y)
        <4>1. PICK d, e : Siblings(s, d, e) /\ Ahead(s, d, e) /\ Kin(s, q, d) /\ Kin(s, y, e)
          BY <3>6 DEF Parted
        <4>2. d \in ToSet(s) /\ Level(s, d) <= Level(s, q)
          BY <4>1 DEF Kin
        <4>3. Kin(s, c, d)
          BY <2>3, <4>1, <4>2, KinOfKin
        <4>4. Goes(s, c, y)
          BY <4>1, <4>3 DEF Goes, Parted
        <4>5. y # c /\ ~Goes(s, y, c)
          BY <3>3, <4>4, GoesOneWay
        <4>6. i < Position(p, c)
          BY <2>9, <3>1, <3>2, <4>5
        <4>7. Ahead(p, y, c)
          BY <2>9, <3>1, <3>2, <4>6 DEF Ahead
        <4> QED
          BY <2>7, <4>5, <4>7
      <3> QED
        BY <3>4, <3>5, <3>6 DEF Goes
    <2> QED
      BY <2>11, <2>12
  <1>5. Sits(p)
    BY <1>2, <1>4 DEF Sits
  <1> QED
    BY <1>1, <1>5

-----------------------------------------------------------------------------
(* What is done to the stack besides: none of it names a client twice.      *)

\* r names, once each, the clients of S.
Lists(r, S) == r \in Seq(Client) /\ IsInjective(r) /\ ToSet(r) = S

LEMMA WithoutIs ==
    ASSUME NEW s, NEW S, Lists(s, S), NEW T, NEW r, r = Without(s, T)
    PROVE  /\ Lists(r, S \ T)
           /\ \A x, y : Ahead(r, x, y) <=> x \notin T /\ y \notin T /\ Ahead(s, x, y)
  <1>1. PICK U : U = ToSet(s) \ T
    OBVIOUS
  <1>2. r = Filtered(s, U) /\ s \in Seq(Client) /\ IsInjective(s) /\ ToSet(s) = S
    BY <1>1 DEF Without, Lists
  <1>3. /\ r \in Seq(Client)
        /\ \A x : x \in ToSet(r) <=> x \in U /\ x \in ToSet(s)
        /\ \A x, y : Ahead(r, x, y) <=> x \in U /\ y \in U /\ Ahead(s, x, y)
    BY <1>2, Kept
  <1>4. ToSet(r) = S \ T
    BY <1>1, <1>2, <1>3
  <1>5. \A x, y : Ahead(s, x, y) => x \in ToSet(s) /\ y \in ToSet(s)
    BY <1>2, Entries
  <1>6. \A x, y : Ahead(r, x, y) <=> x \notin T /\ y \notin T /\ Ahead(s, x, y)
    BY <1>1, <1>3, <1>5
  <1>7. \A x : ~Ahead(s, x, x)
    BY <1>2, Entries
  <1>8. \A x : ~Ahead(r, x, x)
    BY <1>6, <1>7
  <1>9. IsInjective(r)
    BY <1>3, <1>8, Entries
  <1> QED
    BY <1>3, <1>4, <1>6, <1>9 DEF Lists

\* In r the clients of S stand as in s, before those of T, as in t.
Follows(r, s, S, t, T) ==
    \A x, y : Ahead(r, x, y) <=> \/ Ahead(s, x, y) \/ Ahead(t, x, y)
                                 \/ x \in S /\ y \in T

LEMMA JoinedLists ==
    ASSUME NEW s, NEW S, Lists(s, S), NEW t, NEW T, Lists(t, T), S \cap T = {}, NEW r, r = s \o t
    PROVE  Lists(r, S \cup T) /\ Follows(r, s, S, t, T)
  <1>1. /\ s \in Seq(Client) /\ IsInjective(s) /\ ToSet(s) = S
        /\ t \in Seq(Client) /\ IsInjective(t) /\ ToSet(t) = T
    BY DEF Lists
  <1>2. r \in Seq(Client) /\ \A x : x \in ToSet(r) <=> x \in ToSet(s) \/ x \in ToSet(t)
    BY <1>1, Joined
  <1>3. \A x, y : Ahead(r, x, y) <=> \/ Ahead(s, x, y) \/ Ahead(t, x, y)
                                     \/ x \in ToSet(s) /\ y \in ToSet(t)
    BY <1>1, Joined
  <1>4. \A x : ~Ahead(s, x, x) /\ ~Ahead(t, x, x)
    BY <1>1, Entries
  <1>5. \A x : ~Ahead(r, x, x)
    BY <1>1, <1>3, <1>4
  <1>6. IsInjective(r)
    BY <1>2, <1>5, Entries
  <1>7. ToSet(r) = S \cup T
    BY <1>1, <1>2
  <1> QED
    BY <1>1, <1>2, <1>3, <1>6, <1>7 DEF Lists, Follows

LEMMA SingleLists ==
    ASSUME NEW c \in Client
    PROVE  Lists(<<c>>, {c}) /\ \A x, y : ~Ahead(<<c>>, x, y)
  <1>1. PICK e : e = <<c>>
    OBVIOUS
  <1>2. e \in Seq(Client) /\ ToSet(e) = {c} /\ \A x, y : ~Ahead(e, x, y)
    BY <1>1, Single
  <1>3. IsInjective(e)
    BY <1>2, Entries
  <1> QED
    BY <1>1, <1>2, <1>3 DEF Lists

LEMMA Pushed ==
    ASSUME NEW s, NEW S, Lists(s, S), NEW c \in Client
    PROVE  Lists(PushTo(s, c), S \cup {c}) /\ Lists(AppendTo(s, c), S \cup {c})
  <1>1. PICK e : e = <<c>> /\ Lists(e, {c})
    BY SingleLists
  <1>2. PICK w : w = Without(s, {c}) /\ Lists(w, S \ {c})
    BY WithoutIs
  <1>3. {c} \cap (S \ {c}) = {} /\ (S \ {c}) \cap {c} = {} /\ {c} \cup (S \ {c}) = S \cup {c}
          /\ (S \ {c}) \cup {c} = S \cup {c}
    OBVIOUS
  <1>4. Lists(e \o w, S \cup {c})
    BY <1>1, <1>2, <1>3, JoinedLists
  <1>5. Lists(w \o e, S \cup {c})
    BY <1>1, <1>2, <1>3, JoinedLists
  <1> QED
    BY <1>1, <1>2, <1>4, <1>5 DEF PushTo, AppendTo

LEMMA FocusedLists ==
    ASSUME NEW s, NEW S, Lists(s, S), NEW c \in S, NEW lift
    PROVE  Lists(Lifted(s, c, lift), S) /\ Lists(Focused(s, c, lift), S)
  <1>1. c \in Client /\ S \cup {c} = S
    BY Entries DEF Lists
  <1>2. Lists(Lifted(s, c, lift), S)
    BY <1>1, Pushed DEF Lifted
  <1>3. Lists(PushTo(Lifted(s, c, lift), c), S)
    BY <1>1, <1>2, Pushed
  <1> QED
    BY <1>2, <1>3 DEF Focused

LEMMA PlacedLists ==
    ASSUME transient_for \in Links, NEW s, NEW S, Lists(s, S)
    PROVE  Lists(Place(s), S) /\ Sits(Place(s))
  <1>1. Placeable(s)
    BY DEF Lists, Placeable
  <1> QED
    BY <1>1, PlacedRight, PlacedSits DEF Lists, Placed

-----------------------------------------------------------------------------
(* The lineage of a client.                                                 *)

\* l is the chain of c, which has a client up to n, from its end.
Ancestry(l, up, c, n) ==
    /\ n \in 0..Longest - 1
    /\ \A k \in 0..n : Chain(up, c, Longest)[k] \in Client
    /\ Chain(up, c, Longest)[n + 1] = NoClient
    /\ l \in [1..n + 1 -> Client]
    /\ \A i \in 1..n + 1 : l[i] = Chain(up, c, Longest)[n + 1 - i]

LEMMA LongestIs == Longest \in Nat
  <1>1. IsFiniteSet(Client)
    BY ClientsAssumption DEF Client
  <1> QED
    BY <1>1, FS_CardinalityType DEF Longest

LEMMA LineageIs ==
    ASSUME NEW up \in Links, NEW c \in Client, Ends(up, c)
    PROVE  \E n : Ancestry(Lineage(up, c), up, c, n)
  <1>1. PICK m \in Nat : m = Longest
    BY LongestIs
  <1>2. PICK a : a = Chain(up, c, m)
    OBVIOUS
  <1>3. IsChain(a, up, c, m) /\ c # NoClient
    BY <1>2, ChainIs, NoneIsNoClient DEF Linked
  <1>4. a[m] = NoClient /\ a[0] = c
    BY <1>1, <1>2, <1>3 DEF Ends, IsChain
  <1>5. \E n \in 0..m - 1 : a[n] # NoClient /\ a[n + 1] = NoClient
    <2>1. SUFFICES ASSUME \A n \in 0..m - 1 : a[n] # NoClient => a[n + 1] # NoClient PROVE FALSE
      OBVIOUS
    <2>2. PICK A : A = {n \in Nat : a[n] # NoClient}
      OBVIOUS
    <2>3. 0 \in A
      BY <1>3, <1>4, <2>2
    <2>4. ASSUME NEW n \in 0..m, n \in A /\ n < m PROVE n + 1 \in A
      <3>1. n \in 0..m - 1 /\ n + 1 \in Nat
        BY <2>4
      <3> QED
        BY <2>1, <2>2, <2>4, <3>1
    <2>5. \A n \in 0..m : n \in A
      BY <2>3, <2>4, Climbs
    <2> QED
      BY <1>4, <2>2, <2>5
  <1>6. PICK n : n = CHOOSE k \in 0..m - 1 : a[k] # NoClient /\ a[k + 1] = NoClient
    OBVIOUS
  <1>7. n \in 0..m - 1 /\ a[n] # NoClient /\ a[n + 1] = NoClient
    BY <1>5, <1>6
  <1>8. ASSUME NEW k \in 0..n PROVE a[k] \in Client
    <2>1. k \in 0..m /\ n \in k..m
      BY <1>7
    <2>2. a[k] # NoClient
      BY <1>3, <1>7, <2>1, StaysEnded
    <2>3. a[k] \in Linked
      BY <1>3, <2>1 DEF IsChain
    <2> QED
      BY <2>2, <2>3 DEF Linked
  <1>9. PICK l : l = [i \in 1..n + 1 |-> a[n + 1 - i]]
    OBVIOUS
  <1>10. l = Lineage(up, c)
    BY <1>1, <1>2, <1>6, <1>9 DEF Lineage
  <1>11. ASSUME NEW i \in 1..n + 1 PROVE l[i] = a[n + 1 - i] /\ l[i] \in Client
    <2>1. n + 1 - i \in 0..n
      BY <1>7
    <2> QED
      BY <1>8, <1>9, <2>1
  <1>12. l \in [1..n + 1 -> Client]
    BY <1>9, <1>11
  <1>13. Ancestry(l, up, c, n)
    BY <1>1, <1>2, <1>7, <1>8, <1>11, <1>12 DEF Ancestry
  <1> QED
    BY <1>10, <1>13

\* What the chain of c meets is in the lineage, each client once.
LEMMA LineageLists ==
    ASSUME NEW up \in Links, NEW c \in Client, NEW l, NEW n, Ancestry(l, up, c, n)
    PROVE  /\ Lists(l, ToSet(l)) /\ Len(l) = n + 1
           /\ c \in ToSet(l) /\ l[n + 1] = c
           /\ \A x : x \in ToSet(l) <=> \E k \in 0..n : Chain(up, c, Longest)[k] = x
  <1>1. PICK m \in Nat : m = Longest
    BY LongestIs
  <1>2. PICK a : a = Chain(up, c, m)
    OBVIOUS
  <1>3. IsChain(a, up, c, m)
    BY <1>2, ChainIs DEF Linked
  <1>4. /\ n \in 0..m - 1 /\ \A k \in 0..n : a[k] \in Client
        /\ a[n + 1] = NoClient /\ l \in [1..n + 1 -> Client]
        /\ \A i \in 1..n + 1 : l[i] = a[n + 1 - i]
    BY <1>1, <1>2 DEF Ancestry
  <1>5. n + 1 \in Nat /\ n \in Nat
    BY <1>4
  <1>6. l \in Seq(Client) /\ Len(l) = n + 1 /\ DOMAIN l = 1..n + 1
    BY <1>4, <1>5, SeqDef, LenProperties
  <1>7. ASSUME NEW i \in 0..n, NEW j \in 0..n, i < j PROVE a[i] # a[j]
    <2>1. SUFFICES ASSUME a[i] = a[j] PROVE FALSE
      OBVIOUS
    <2>2. PICK k : k = n + 1 - j
      OBVIOUS
    <2>3. k \in Nat /\ i + k <= m /\ j + k <= m /\ i \in 0..m /\ j \in 0..m /\ j + k = n + 1
            /\ i + k \in 0..n
      BY <1>4, <1>7, <2>2
    <2>4. a[i + k] = a[j + k]
      BY <1>3, <2>1, <2>3, Together
    <2> QED
      BY <1>4, <2>3, <2>4, NoneIsNoClient
  <1>8. IsInjective(l)
    <2>1. ASSUME NEW i \in 1..n + 1, NEW j \in 1..n + 1, i < j PROVE l[i] # l[j]
      <3>1. n + 1 - i \in 0..n /\ n + 1 - j \in 0..n /\ n + 1 - j < n + 1 - i
        BY <1>5, <2>1
      <3>2. l[i] = a[n + 1 - i] /\ l[j] = a[n + 1 - j]
        BY <1>4
      <3> QED
        BY <1>7, <3>1, <3>2
    <2>2. ASSUME NEW i \in 1..n + 1, NEW j \in 1..n + 1, l[i] = l[j] PROVE i = j
      <3>1. i < j \/ j < i \/ i = j
        BY <1>5
      <3> QED
        BY <2>1, <2>2, <3>1
    <2> QED
      BY <1>6, <2>2 DEF IsInjective
  <1>9. \A x : x \in ToSet(l) <=> \E i \in 1..n + 1 : l[i] = x
    BY <1>6, Entries
  <1>10. ASSUME NEW x PROVE x \in ToSet(l) <=> \E k \in 0..n : a[k] = x
    <2>1. ASSUME NEW i \in 1..n + 1, l[i] = x PROVE \E k \in 0..n : a[k] = x
      <3>1. n + 1 - i \in 0..n /\ a[n + 1 - i] = x
        BY <1>4, <1>5, <2>1
      <3> QED
        BY <3>1
    <2>2. ASSUME NEW k \in 0..n, a[k] = x PROVE \E i \in 1..n + 1 : l[i] = x
      <3>1. n + 1 - k \in 1..n + 1 /\ n + 1 - (n + 1 - k) = k
        BY <1>5
      <3>2. l[n + 1 - k] = a[n + 1 - (n + 1 - k)]
        BY <1>4, <3>1
      <3> QED
        BY <2>2, <3>1, <3>2
    <2> QED
      BY <1>9, <2>1, <2>2
  <1>11. a[0] = c /\ 0 \in 0..n /\ n + 1 \in 1..n + 1 /\ n + 1 - (n + 1) = 0
    BY <1>3, <1>5 DEF IsChain
  <1>12. c \in ToSet(l) /\ l[n + 1] = c
    BY <1>4, <1>10, <1>11
  <1> QED
    BY <1>1, <1>2, <1>6, <1>8, <1>10, <1>12 DEF Lists

LEMMA LineageListed ==
    ASSUME transient_for \in Links, Followed, NEW c \in Client, c \in listed,
           NEW l, NEW n, Ancestry(l, transient_for, c, n)
    PROVE  ToSet(l) \subseteq listed
  <1>1. PICK m \in Nat : m = Longest
    BY LongestIs
  <1>2. PICK a : a = Chain(transient_for, c, m)
    OBVIOUS
  <1>3. IsChain(a, transient_for, c, m)
    BY <1>2, ChainIs DEF Linked
  <1>4. n \in 0..m - 1 /\ \A k \in 0..n : a[k] \in Client
    BY <1>1, <1>2 DEF Ancestry
  <1>5. PICK A : A = {k \in Nat : k \in 0..n => a[k] \in listed}
    OBVIOUS
  <1>6. 0 \in A
    BY <1>3, <1>5 DEF IsChain
  <1>7. ASSUME NEW k \in 0..n, k \in A /\ k < n PROVE k + 1 \in A
    <2>1. k + 1 \in 1..m /\ (k + 1) - 1 = k /\ k + 1 \in 0..n /\ k + 1 \in Nat
      BY <1>4, <1>7
    <2>2. a[k] \in listed /\ a[k] # NoClient /\ a[k + 1] # NoClient
      BY <1>4, <1>5, <1>7, <2>1, NoneIsNoClient
    <2>3. a[k + 1] = transient_for[a[k]]
      BY <1>3, <2>1, <2>2 DEF IsChain
    <2>4. a[k + 1] \in listed
      BY <2>2, <2>3 DEF Followed
    <2> QED
      BY <1>5, <2>4, <2>1
  <1>8. \A k \in 0..n : k \in A
    BY <1>4, <1>6, <1>7, Climbs
  <1>9. \A x : x \in ToSet(l) <=> \E k \in 0..n : a[k] = x
    BY <1>1, <1>2, LineageLists
  <1> QED
    BY <1>4, <1>5, <1>8, <1>9

LEMMA RaisedLists ==
    ASSUME transient_for \in Links, Followed, NEW c \in Client, c \in listed, Ends(transient_for, c),
           NEW S, Lists(stack, S), S \subseteq listed
    PROVE  \E T : /\ Lists(Raised(c), T) /\ Lists(Lowered(c), T) /\ T \subseteq listed
             /\ S \subseteq T
  <1>1. PICK l, n : l = Lineage(transient_for, c) /\ Ancestry(l, transient_for, c, n)
    BY LineageIs
  <1>2. PICK L : L = ToSet(l) /\ Lists(l, L) /\ L \subseteq listed
    BY <1>1, LineageLists, LineageListed
  <1>3. PICK w : w = Without(stack, L) /\ Lists(w, S \ L)
    BY WithoutIs
  <1>4. (S \ L) \cap L = {} /\ L \cap (S \ L) = {} /\ (S \ L) \cup L = S \cup L
          /\ L \cup (S \ L) = S \cup L
    OBVIOUS
  <1>5. Lists(w \o l, S \cup L)
    BY <1>2, <1>3, <1>4, JoinedLists
  <1>6. Lists(l \o w, S \cup L)
    BY <1>2, <1>3, <1>4, JoinedLists
  <1>7. Raised(c) = w \o l /\ Lowered(c) = l \o w
    BY <1>1, <1>2, <1>3 DEF Raised, Lowered
  <1> QED
    BY <1>2, <1>5, <1>6, <1>7

-----------------------------------------------------------------------------
(* The inductive invariant.  An override-redirect window stays in           *)
(* globalconf.clients while its surface lives, mapped or not: it is in the  *)
(* stack only as one that is.                                               *)

Shown == \A c \in Client : phase[c] = "mapped" => c \in ToSet(stack)

OverridesStay == \A c \in OverrideRedirect : phase[c] \notin {"none", "gone"} => c \in listed

Held ==
    /\ TypeOK /\ Lists(stack, ToSet(stack)) /\ ToSet(stack) \subseteq listed
    /\ Shown /\ OverridesStay

LEMMA HeldInit == Init => Held
  <1> SUFFICES ASSUME Init PROVE Held
    OBVIOUS
  <1>1. PICK e : e = <<>>
    OBVIOUS
  <1>2. e \in Seq(Client) /\ ToSet(e) = {} /\ \A x, y : ~Ahead(e, x, y)
    BY <1>1, Nothing
  <1>3. IsInjective(e)
    BY <1>2, Entries
  <1>4. Lists(stack, ToSet(stack)) /\ ToSet(stack) = {} /\ stack \in Seq(Client)
    BY <1>1, <1>2, <1>3 DEF Init, Lists
  <1>5. TypeOK
    BY <1>4 DEF Init, TypeOK
  <1>6. Shown /\ OverridesStay
    BY OverrideAssumption DEF Init, Shown, OverridesStay, Client
  <1> QED
    BY <1>4, <1>5, <1>6 DEF Held

\* What a step has to leave of the stack.
LEMMA HeldBy ==
    ASSUME TypeOK', NEW S, Lists(stack', S), S \subseteq listed',
           \A c \in Client : phase'[c] = "mapped" => c \in S, OverridesStay'
    PROVE  Held'
  <1>1. ToSet(stack') = S
    BY DEF Lists
  <1> QED
    BY <1>1 DEF Held, Shown

Phases == {"none", "unpaired", "ready", "mapped", "gone"}

LEMMA HeldTypes ==
    ASSUME Held
    PROVE  /\ phase \in [Client -> Phases] /\ parent \in Links /\ listed \subseteq Client
           /\ transient_for \in Links /\ stack \in Seq(Client) /\ dirty \in BOOLEAN
  BY DEF Held, TypeOK, Phases, Links, Linked

LEMMA TypesHeld ==
    ASSUME phase' \in [Client -> Phases], parent' \in Links, listed' \subseteq Client,
           transient_for' \in Links, NEW S, Lists(stack', S), dirty' \in BOOLEAN
    PROVE  TypeOK'
  BY DEF Lists, TypeOK, Phases, Links, Linked

LEMMA OrphansType ==
    ASSUME parent \in Links, NEW c \in Client
    PROVE  Orphans(c) \in Links /\ [Orphans(c) EXCEPT ![c] = NoClient] \in Links
  BY DEF Orphans, Links, Linked

LEMMA UnmanageHolds ==
    ASSUME Held, NEW c \in Client, Unmanage(c), parent' \in Links,
           phase' \in [Client -> Phases], phase'[c] # "mapped",
           \A d \in Client \ {c} : phase'[d] = phase[d],
           c \in OverrideRedirect => phase'[c] = "gone"
    PROVE  Held'
  <1>1. PICK S : S = ToSet(stack) /\ Lists(stack, S) /\ S \subseteq listed
    BY DEF Held
  <1>2. stack' = Without(stack, {c}) /\ listed' = listed \ {c} /\ dirty' = TRUE
    BY DEF Unmanage
  <1>3. Lists(stack', S \ {c})
    BY <1>1, <1>2, WithoutIs
  <1>4. transient_for' \in Links
    BY HeldTypes DEF Unmanage, Links, Linked
  <1>5. TypeOK'
    BY <1>2, <1>3, <1>4, HeldTypes, TypesHeld
  <1>6. \A d \in Client : phase'[d] = "mapped" => d \in S \ {c}
    BY <1>1 DEF Held, Shown
  <1>7. OverridesStay'
    BY <1>2, OverrideAssumption DEF Held, OverridesStay, Client
  <1> QED
    BY <1>1, <1>2, <1>3, <1>5, <1>6, <1>7, HeldBy

LEMMA HeldNext == Held /\ [Next]_vars => Held'
  <1> SUFFICES ASSUME Held, [Next]_vars PROVE Held'
    OBVIOUS
  <1>1. PICK S : S = ToSet(stack) /\ Lists(stack, S) /\ S \subseteq listed /\ Shown /\ OverridesStay
    BY DEF Held
  <1>2. /\ phase \in [Client -> Phases] /\ parent \in Links /\ listed \subseteq Client
        /\ transient_for \in Links /\ stack \in Seq(Client) /\ dirty \in BOOLEAN
    BY HeldTypes
  <1>3. \A c \in Client : phase[c] = "mapped" => c \in S
    BY <1>1 DEF Shown
  <1>4. OverrideRedirect \subseteq Client /\ XWindow \subseteq Client
    BY OverrideAssumption DEF Client
  <1>5. ASSUME NEW c \in Client, SetParent(c) PROVE Held'
    <2>1. parent' \in Links
      BY <1>2, <1>5 DEF SetParent, Links, Linked
    <2>2. TypeOK'
      BY <1>1, <1>2, <1>5, <2>1, TypesHeld DEF SetParent
    <2>3. OverridesStay'
      BY <1>1, <1>5 DEF SetParent, OverridesStay
    <2> QED
      BY <1>1, <1>3, <1>5, <2>2, <2>3, HeldBy DEF SetParent
  <1>6. ASSUME NEW c \in Client, Create(c) PROVE Held'
    <2>1. phase' \in [Client -> Phases] /\ phase'[c] # "mapped"
            /\ \A d \in Client \ {c} : phase'[d] = phase[d]
      BY <1>2, <1>6 DEF Create, SetPhase, Phases
    <2>2. listed' = listed \cup {c} /\ UNCHANGED <<parent, transient_for, stack, dirty>>
      BY <1>6 DEF Create
    <2>3. TypeOK'
      BY <1>1, <1>2, <2>1, <2>2, TypesHeld
    <2>4. OverridesStay'
      BY <1>1, <1>4, <2>1, <2>2 DEF OverridesStay
    <2>5. \A d \in Client : phase'[d] = "mapped" => d \in S
      BY <1>3, <2>1
    <2> QED
      BY <1>1, <2>2, <2>3, <2>4, <2>5, HeldBy
  <1>7. ASSUME NEW c \in XWindow, Associate(c) \/ Dissociate(c) PROVE Held'
    <2>1. /\ c \in Client /\ phase[c] \notin {"none", "gone"}
          /\ phase' \in [Client -> Phases] /\ phase'[c] # "mapped"
               /\ \A d \in Client \ {c} : phase'[d] = phase[d]
      BY <1>2, <1>4, <1>7 DEF Associate, Dissociate, SetPhase, Phases
    <2>2. UNCHANGED <<parent, listed, transient_for, stack, dirty>>
      BY <1>7 DEF Associate, Dissociate
    <2>3. TypeOK'
      BY <1>1, <1>2, <2>1, <2>2, TypesHeld
    <2>4. OverridesStay'
      BY <1>1, <1>4, <2>1, <2>2 DEF OverridesStay
    <2>5. \A d \in Client : phase'[d] = "mapped" => d \in S
      BY <1>3, <2>1
    <2> QED
      BY <1>1, <2>2, <2>3, <2>4, <2>5, HeldBy
  <1>8. ASSUME NEW c \in OverrideRedirect, MapOverride(c) PROVE Held'
    <2>1. c \in Client /\ c \in listed
      BY <1>1, <1>4, <1>8 DEF MapOverride, OverridesStay
    <2>2. phase' \in [Client -> Phases] /\ \A d \in Client \ {c} : phase'[d] = phase[d]
      BY <1>2, <1>8, <2>1 DEF MapOverride, SetPhase, Phases
    <2>3. UNCHANGED <<parent, listed, transient_for>> /\ dirty' \in BOOLEAN
      BY <1>8, OverlaysAssumption DEF MapOverride
    <2>4. PICK T : T = S \cup {c}
      OBVIOUS
    <2>5. PICK s : s = PushTo(stack, c) /\ Lists(s, T)
      BY <1>1, <2>1, <2>4, Pushed
    <2>6. PICK f : f = Focused(s, c, TRUE) /\ Lists(f, T) /\ Lists(Place(f), T)
      BY <1>2, <2>4, <2>5, FocusedLists, PlacedLists
    <2>7. stack' = s \/ stack' = f \/ stack' = Place(f)
      BY <1>8, <2>5, <2>6 DEF MapOverride
    <2>8. Lists(stack', T)
      BY <2>5, <2>6, <2>7
    <2>9. TypeOK'
      BY <1>2, <2>2, <2>3, <2>8, TypesHeld
    <2>10. OverridesStay'
      BY <1>1, <1>4, <2>1, <2>2, <2>3 DEF OverridesStay
    <2>11. \A d \in Client : phase'[d] = "mapped" => d \in T
      BY <1>3, <2>2, <2>4
    <2>12. T \subseteq listed'
      BY <1>1, <2>1, <2>3, <2>4
    <2> QED
      BY <2>8, <2>9, <2>10, <2>11, <2>12, HeldBy
  <1>9. ASSUME NEW c \in Client, Map(c) PROVE Held'
    <2>1. phase' \in [Client -> Phases] /\ \A d \in Client \ {c} : phase'[d] = phase[d]
      BY <1>2, <1>9 DEF Map, SetPhase, Phases
    <2>2. listed' = listed \cup {c} /\ parent' = parent /\ dirty' = TRUE
      BY <1>9 DEF Map
    <2>3. MappedTransientFor(c) \in Linked
      <3>1. parent[c] \in Linked /\ transient_for[c] \in Linked /\ NoClient \in Linked
        BY <1>2 DEF Links, Linked
      <3>2. FindTransientFor(c, parent[c], listed \cup {c}, Len(PushTo(stack, c))) \in {parent[c], NoClient}
        BY DEF FindTransientFor
      <3> QED
        BY <3>1, <3>2 DEF MappedTransientFor
    <2>4. transient_for' \in Links
      BY <1>2, <1>9, <2>3 DEF Map, Links
    <2>5. stack' = PushTo(stack, c) /\ c \notin OverrideRedirect
      BY <1>9 DEF Map
    <2>6. PICK T : T = S \cup {c} /\ Lists(stack', T)
      BY <1>1, <2>5, Pushed
    <2>7. TypeOK'
      BY <1>2, <2>1, <2>2, <2>4, <2>6, TypesHeld
    <2>8. OverridesStay'
      BY <1>1, <1>4, <2>1, <2>2, <2>5 DEF OverridesStay
    <2>9. \A d \in Client : phase'[d] = "mapped" => d \in T
      BY <1>3, <2>1, <2>6
    <2>10. T \subseteq listed'
      BY <1>1, <2>2, <2>6
    <2> QED
      BY <2>6, <2>7, <2>8, <2>9, <2>10, HeldBy
  <1>10. ASSUME NEW c \in Client, Unmap(c) PROVE Held'
    <2>1. /\ phase' \in [Client -> Phases] /\ phase'[c] # "mapped"
            /\ \A d \in Client \ {c} : phase'[d] = phase[d]
          /\ phase[c] \notin {"none", "gone"}
      BY <1>2, <1>10 DEF Unmap, SetPhase, Phases
    <2>2. parent' \in Links
      BY <1>2, <1>10, OrphansType DEF Unmap
    <2>3. CASE c \in OverrideRedirect
      <3>1. UNCHANGED <<listed, transient_for, stack, dirty>>
        BY <1>10, <2>3 DEF Unmap
      <3>2. TypeOK'
        BY <1>1, <1>2, <2>1, <2>2, <3>1, TypesHeld
      <3>3. OverridesStay'
        BY <1>1, <1>4, <2>1, <3>1 DEF OverridesStay
      <3>4. \A d \in Client : phase'[d] = "mapped" => d \in S
        BY <1>3, <2>1
      <3> QED
        BY <1>1, <3>1, <3>2, <3>3, <3>4, HeldBy
    <2>4. CASE c \notin OverrideRedirect
      <3>1. Unmanage(c)
        BY <1>10, <2>4 DEF Unmap
      <3> QED
        BY <2>1, <2>2, <2>4, <3>1, UnmanageHolds
    <2> QED
      BY <2>3, <2>4
  <1>11. ASSUME NEW c \in Client, Destroy(c) PROVE Held'
    <2>1. phase' \in [Client -> Phases] /\ phase'[c] = "gone"
            /\ \A d \in Client \ {c} : phase'[d] = phase[d]
      BY <1>2, <1>11 DEF Destroy, SetPhase, Phases
    <2>2. parent' \in Links
      BY <1>2, <1>11, OrphansType DEF Destroy
    <2>3. CASE c \notin listed
      <3>1. UNCHANGED <<listed, transient_for, stack, dirty>>
        BY <1>11, <2>3 DEF Destroy
      <3>2. TypeOK'
        BY <1>1, <1>2, <2>1, <2>2, <3>1, TypesHeld
      <3>3. OverridesStay'
        BY <1>1, <1>4, <2>1, <3>1 DEF OverridesStay
      <3>4. \A d \in Client : phase'[d] = "mapped" => d \in S
        BY <1>3, <2>1
      <3> QED
        BY <1>1, <3>1, <3>2, <3>3, <3>4, HeldBy
    <2>4. CASE c \in listed
      <3>1. Unmanage(c)
        BY <1>11, <2>4 DEF Destroy
      <3> QED
        BY <2>1, <2>2, <3>1, UnmanageHolds
    <2> QED
      BY <2>3, <2>4
  <1>12. ASSUME NEW c \in Client, Raise(c) \/ Lower(c) PROVE Held'
    <2>1. /\ Followed /\ c \in listed /\ Ends(transient_for, c) /\ dirty' \in BOOLEAN
          /\ UNCHANGED <<phase, parent, listed, transient_for>>
               /\ stack' \in {Raised(c), Lowered(c)}
      BY <1>12 DEF Raise, Lower
    <2>2. PICK T : Lists(stack', T) /\ T \subseteq listed /\ S \subseteq T
      BY <1>1, <1>2, <2>1, RaisedLists
    <2>3. TypeOK'
      BY <1>2, <2>1, <2>2, TypesHeld
    <2>4. OverridesStay'
      BY <1>1, <2>1 DEF OverridesStay
    <2>5. \A d \in Client : phase'[d] = "mapped" => d \in T
      BY <1>3, <2>1, <2>2
    <2> QED
      BY <2>1, <2>2, <2>3, <2>4, <2>5, HeldBy
  <1>13. ASSUME NEW c \in Client, NEW lift \in BOOLEAN, Focus(c, lift) PROVE Held'
    <2>1. UNCHANGED <<phase, parent, listed, transient_for>> /\ dirty' \in BOOLEAN /\ c \in S
      BY <1>2, <1>3, <1>13 DEF Focus
    <2>2. PICK f : f = Focused(stack, c, lift) /\ Lists(f, S) /\ Lists(Place(f), S)
                 /\ Lists(Lifted(stack, c, lift), S)
      BY <1>1, <1>2, <2>1, FocusedLists, PlacedLists
    <2>3. Lists(stack', S)
      BY <1>13, <2>2 DEF Focus
    <2>4. TypeOK'
      BY <1>2, <2>1, <2>3, TypesHeld
    <2>5. OverridesStay'
      BY <1>1, <2>1 DEF OverridesStay
    <2> QED
      BY <1>1, <1>3, <2>1, <2>3, <2>4, <2>5, HeldBy
  <1>14. ASSUME Refresh PROVE Held'
    <2>1. UNCHANGED <<phase, parent, listed, transient_for>> /\ dirty' \in BOOLEAN
            /\ stack' = Place(stack)
      BY <1>14 DEF Refresh
    <2>2. Lists(stack', S)
      BY <1>1, <1>2, <2>1, PlacedLists
    <2>3. TypeOK'
      BY <1>2, <2>1, <2>2, TypesHeld
    <2>4. OverridesStay'
      BY <1>1, <2>1 DEF OverridesStay
    <2> QED
      BY <1>1, <1>3, <2>1, <2>2, <2>3, <2>4, HeldBy
  <1>15. CASE UNCHANGED vars
    BY <1>15 DEF vars, Held, TypeOK, Shown, OverridesStay
  <1> QED
    BY <1>5, <1>6, <1>7, <1>8, <1>9, <1>10, <1>11, <1>12, <1>13, <1>14, <1>15 DEF Next

LEMMA AlwaysHeld == Spec => []Held
  BY HeldInit, HeldNext, PTL DEF Spec

\* Every client is in the stack once at most, and only while it is in
\* globalconf.clients, and every mapped client is in it: the pushes, appends
\* and removals of stack.c, client_unmanage() and stack_refresh() together.
THEOREM StackHolds == Spec => []StackHoldsTheListed
  <1>1. Held => StackHoldsTheListed
    <2> SUFFICES ASSUME Held PROVE StackHoldsTheListed
      OBVIOUS
    <2>1. stack \in Seq(Client) /\ IsInjective(stack) /\ ToSet(stack) \subseteq listed
      BY DEF Held, Lists
    <2>2. ASSUME NEW c \in Client, phase[c] = "mapped" PROVE Contains(stack, c)
      BY <2>1, <2>2, Entries DEF Held, Shown, Contains
    <2> QED
      BY <2>1, <2>2 DEF StackHoldsTheListed
  <1> QED
    BY <1>1, AlwaysHeld, PTL

-----------------------------------------------------------------------------
(* While no refresh is asked for, the transients sit on their parents.      *)

Settled == ~dirty => Sits(stack)

LEMMA SitsAgain ==
    ASSUME transient_for' = transient_for, Sits(stack')
    PROVE  Sits(stack)'
  <1>1. PICK s : s = stack'
    OBVIOUS
  <1>2. Within(stack)' = Within(s)
    BY <1>1 DEF Within
  <1>3. \A c : Rides(stack, c)' <=> Rides(s, c)
    BY <1>1, <1>2 DEF Rides
  <1>4. Sits(s)
    BY <1>1
  <1> QED
    BY <1>1, <1>3, <1>4 DEF Sits

LEMMA SettledNext == ASSUME ~Overlays PROVE Held /\ Settled /\ [Next]_vars => Settled'
  <1> SUFFICES ASSUME Held, Settled, [Next]_vars PROVE Settled'
    OBVIOUS
  <1>1. PICK S : S = ToSet(stack) /\ Lists(stack, S) /\ Shown
    BY DEF Held
  <1>2. transient_for \in Links
    BY HeldTypes
  <1>3. ASSUME UNCHANGED <<transient_for, stack, dirty>> PROVE Settled'
    BY <1>3, SitsAgain DEF Settled
  <1>4. ASSUME dirty' PROVE Settled'
    BY <1>4 DEF Settled
  <1>5. ASSUME NEW T, NEW f, Lists(f, T), stack' = Place(f), transient_for' = transient_for
        PROVE  Settled'
    <2>1. Sits(stack')
      BY <1>2, <1>5, PlacedLists
    <2> QED
      BY <1>5, <2>1, SitsAgain DEF Settled
  <1>6. ASSUME NEW c \in Client, SetParent(c) \/ Create(c) PROVE Settled'
    BY <1>3, <1>6 DEF SetParent, Create
  <1>7. ASSUME NEW c \in XWindow, Associate(c) \/ Dissociate(c) PROVE Settled'
    BY <1>3, <1>7 DEF Associate, Dissociate
  <1>8. ASSUME NEW c \in OverrideRedirect, MapOverride(c) PROVE Settled'
    <2>1. c \in Client
      BY OverrideAssumption DEF Client
    <2>2. PICK T : T = S \cup {c} /\ Lists(PushTo(stack, c), T)
      BY <1>1, <2>1, Pushed
    <2>3. PICK f : f = Focused(PushTo(stack, c), c, TRUE) /\ Lists(f, T)
      BY <2>2, FocusedLists
    <2>4. UNCHANGED transient_for /\ (dirty' \/ stack' = Place(f))
      <3>1. /\ UNCHANGED transient_for
            /\ dirty' = TRUE \/ \E held \in {FALSE, Overlays} :
                                    dirty' = held /\ stack' = IF held THEN f ELSE Place(f)
        BY <1>8, <2>3 DEF MapOverride
      <3>2. ASSUME NEW held, dirty' = held, stack' = IF held THEN f ELSE Place(f)
            PROVE  dirty' \/ stack' = Place(f)
        BY <3>2
      <3> QED
        BY <3>1, <3>2
    <2> QED
      BY <1>4, <1>5, <2>3, <2>4
  <1>9. ASSUME NEW c \in Client, Map(c) PROVE Settled'
    BY <1>4, <1>9 DEF Map
  <1>10. ASSUME NEW c \in Client, Unmap(c) \/ Destroy(c) PROVE Settled'
    <2>1. dirty' \/ UNCHANGED <<transient_for, stack, dirty>>
      BY <1>10 DEF Unmap, Destroy, Unmanage
    <2> QED
      BY <1>3, <1>4, <2>1
  <1>11. ASSUME NEW c \in Client, Raise(c) \/ Lower(c) PROVE Settled'
    BY <1>4, <1>11 DEF Raise, Lower
  <1>12. ASSUME NEW c \in Client, NEW lift \in BOOLEAN, Focus(c, lift) PROVE Settled'
    <2>1. c \in S /\ UNCHANGED transient_for
      BY <1>1, <1>12 DEF Focus, Shown
    <2>2. PICK f : f = Focused(stack, c, lift) /\ Lists(f, S)
      BY <1>1, <2>1, FocusedLists
    <2>3. \/ stack' = Lifted(stack, c, lift) /\ dirty' = (dirty \/ lift)
          \/ stack' = Place(f)
      BY <1>12, <2>2 DEF Focus
    <2>4. CASE stack' = Place(f)
      BY <1>5, <2>1, <2>2, <2>4
    <2>5. CASE stack' = Lifted(stack, c, lift) /\ dirty' = (dirty \/ lift) /\ lift
      BY <1>4, <2>5
    <2>6. CASE stack' = Lifted(stack, c, lift) /\ dirty' = (dirty \/ lift) /\ ~lift
      <3>1. stack' = stack
        BY <2>6 DEF Lifted
      <3>2. dirty' = dirty
        BY <2>6, HeldTypes
      <3> QED
        BY <1>3, <2>1, <3>1, <3>2
    <2> QED
      BY <2>3, <2>4, <2>5, <2>6
  <1>13. ASSUME Refresh PROVE Settled'
    BY <1>1, <1>5, <1>13 DEF Refresh
  <1>14. CASE UNCHANGED vars
    BY <1>3, <1>14 DEF vars
  <1> QED
    BY <1>6, <1>7, <1>8, <1>9, <1>10, <1>11, <1>12, <1>13, <1>14 DEF Next

LEMMA SettledInit == Init => Settled
  <1> SUFFICES ASSUME Init PROVE Settled
    OBVIOUS
  <1>1. PICK e : e = <<>>
    OBVIOUS
  <1>2. ToSet(e) = {}
    BY <1>1, Nothing
  <1>3. Sits(e)
    BY <1>2 DEF Sits
  <1> QED
    BY <1>1, <1>3 DEF Init, Settled

\* "Every transient sits right above its parent": where no overlay can keep
\* the keyboard from a client, between a transient and who it rides there are
\* only transients of that client, whenever no refresh is asked for.
THEOREM TransientsSit ==
    ASSUME ~Overlays
    PROVE  Spec => []TransientsSitOnTheirParents
  <1>1. Settled => TransientsSitOnTheirParents
    BY DEF Settled, Sits, TransientsSitOnTheirParents
  <1>2. Held /\ Settled /\ [Next]_vars => Settled'
    BY SettledNext
  <1>3. Spec => []Settled
    BY <1>2, SettledInit, AlwaysHeld, PTL DEF Spec
  <1> QED
    BY <1>1, <1>3, PTL

-----------------------------------------------------------------------------
(* Raise and lower.  A client's lineage, wherever it stands in a stack,     *)
(* rides there in one line: no two of it stand on one level.                *)

LEMMA LineageLevel ==
    ASSUME NEW u, Placeable(u), NEW c \in Client, NEW l, NEW n, Ancestry(l, transient_for, c, n),
           ToSet(l) \subseteq ToSet(u), NEW k \in 0..n
    PROVE  Level(u, Chain(transient_for, c, Longest)[k]) = n - k
  <1>1. PICK m \in Nat : m = Longest
    BY LongestIs
  <1>2. PICK a : a = Chain(transient_for, c, m)
    OBVIOUS
  <1>3. IsChain(a, transient_for, c, m) /\ transient_for \in Links
    BY <1>2, ChainIs DEF Linked, Placeable
  <1>4. /\ n \in 0..m - 1 /\ \A j \in 0..n : a[j] \in Client
        /\ a[n + 1] = NoClient
    BY <1>1, <1>2 DEF Ancestry
  <1>5. PICK h \in Nat : h = Len(u) /\ n + 1 <= h
    <2>1. u \in Seq(Client) /\ IsInjective(u) /\ Len(u) \in Nat
      BY Entries DEF Placeable
    <2>2. PICK L : L = ToSet(l) /\ Lists(l, L) /\ Len(l) = n + 1
      BY <1>3, LineageLists
    <2>3. Len(l) = Cardinality(L)
      BY <2>2, Counted DEF Lists
    <2>4. PICK U : U = ToSet(u)
      OBVIOUS
    <2>5. Len(u) = Cardinality(U) /\ IsFiniteSet(U)
      <3>1. IsFiniteSet(Client) /\ U \in SUBSET Client
        BY <2>1, <2>4, Entries, ClientsAssumption DEF Client
      <3>2. IsFiniteSet(U)
        BY <3>1, FS_Subset
      <3> QED
        BY <2>1, <2>4, <3>2, Counted
    <2>6. Cardinality(L) <= Cardinality(U)
      BY <2>2, <2>4, <2>5, FS_Subset
    <2> QED
      BY <2>1, <2>2, <2>3, <2>5, <2>6
  <1>6. \A j \in 0..n : a[j] \in ToSet(u)
    BY <1>1, <1>2, <1>3, LineageLists
  <1>7. PICK x : x = a[k] /\ x \in ToSet(u) /\ x \in Client
    BY <1>4, <1>6
  <1>8. PICK b : b = Chain(Within(u), x, h)
    OBVIOUS
  <1>9. IsChain(b, Within(u), x, h)
    BY <1>7, <1>8, WithinIs, ChainIs DEF Linked
  <1>10. PICK A : A = {j \in Nat : j \in 0..n - k => b[j] = a[k + j]}
    OBVIOUS
  <1>11. 0 \in A
    BY <1>7, <1>9, <1>10 DEF IsChain
  <1>12. ASSUME NEW j \in 0..n - k, j \in A /\ j < n - k PROVE j + 1 \in A
    <2>1. /\ j + 1 \in 1..h /\ (j + 1) - 1 = j /\ k + (j + 1) \in 1..m /\ k + (j + 1) - 1 = k + j
          /\ k + j \in 0..n /\ k + (j + 1) \in 0..n /\ j + 1 \in Nat
      BY <1>4, <1>5, <1>12
    <2>2. b[j] = a[k + j] /\ a[k + j] \in Client /\ a[k + j] # NoClient
      BY <1>4, <1>10, <1>12, <2>1, NoneIsNoClient
    <2>3. a[k + (j + 1)] = transient_for[a[k + j]] /\ a[k + (j + 1)] \in ToSet(u)
      BY <1>3, <1>6, <2>1, <2>2 DEF IsChain
    <2>4. b[j + 1] = Within(u)[a[k + j]]
      BY <1>9, <2>1, <2>2 DEF IsChain
    <2>5. Within(u)[a[k + j]] = transient_for[a[k + j]]
      BY <2>2, <2>3, WithinIs
    <2> QED
      BY <1>10, <2>1, <2>3, <2>4, <2>5
  <1>13. n - k \in Nat
    BY <1>4
  <1>14. \A j \in 0..n - k : j \in A
    BY <1>11, <1>12, <1>13, Climbs
  <1>15. b[n - k] = a[n] /\ a[n] \in Client /\ a[n] # NoClient
    <2>1. n - k \in 0..n - k /\ k + (n - k) = n /\ n \in 0..n
      BY <1>4
    <2> QED
      BY <1>4, <1>10, <1>14, <2>1, NoneIsNoClient
  <1>16. a[n + 1] = transient_for[a[n]]
    <2>1. n + 1 \in 1..m /\ (n + 1) - 1 = n
      BY <1>4
    <2> QED
      BY <1>3, <1>15, <2>1 DEF IsChain
  <1>17. CASE k # n
    <2>1. n - k \in 1..h - 1 /\ (n - k) + 1 \in 1..h /\ ((n - k) + 1) - 1 = n - k
      BY <1>4, <1>5, <1>17
    <2>2. b[(n - k) + 1] = Within(u)[a[n]]
      BY <1>9, <1>15, <2>1 DEF IsChain
    <2>3. ~(NoClient \in ToSet(u))
      BY RiddenIs, NoneIsNoClient
    <2>4. b[(n - k) + 1] = NoClient
      BY <1>4, <1>15, <1>16, <2>2, <2>3, WithinIs
    <2>5. EndsAt(u, x, n - k)
      BY <1>5, <1>8, <1>15, <2>1, <2>4 DEF EndsAt
    <2> QED
      BY <1>1, <1>2, <1>7, <2>5, LevelIs
  <1>18. CASE k = n
    <2>1. transient_for[x] = NoClient
      BY <1>4, <1>7, <1>16, <1>18
    <2>2. ~Rides(u, x)
      BY <1>7, <2>1, RiddenIs, NoneIsNoClient
    <2> QED
      BY <1>1, <1>2, <1>4, <1>7, <1>18, <2>2 DEF Level
  <1> QED
    BY <1>17, <1>18

LEMMA LineageApart ==
    ASSUME NEW u, Placeable(u), NEW c \in Client, NEW l, NEW n, Ancestry(l, transient_for, c, n),
           ToSet(l) \subseteq ToSet(u), NEW d \in ToSet(l), NEW e \in ToSet(l), Level(u, d) = Level(u, e)
    PROVE  d = e
  <1>1. transient_for \in Links
    BY DEF Placeable
  <1>2. PICK i \in 0..n, j \in 0..n : /\ d = Chain(transient_for, c, Longest)[i]
                                     /\ e = Chain(transient_for, c, Longest)[j]
    BY <1>1, LineageLists
  <1>3. Level(u, d) = n - i /\ Level(u, e) = n - j
    BY <1>2, LineageLevel
  <1>4. n \in Int
    BY LongestIs DEF Ancestry
  <1>5. n - i = n - j
    BY <1>3
  <1>6. i = j
    BY <1>4, <1>5
  <1> QED
    BY <1>2, <1>6

\* Who a client rides, at whatever distance, is of its lineage.
LEMMA KinInLineage ==
    ASSUME NEW u, Placeable(u), NEW c \in ToSet(u), NEW l, NEW n, Ancestry(l, transient_for, c, n),
           NEW d, Kin(u, c, d)
    PROVE  d \in ToSet(l)
  <1>1. transient_for \in Links /\ c \in Client /\ d \in ToSet(u)
    BY RiddenIs DEF Placeable, Kin
  <1>2. d \in Client
    BY <1>1, RiddenIs
  <1>3. CASE d = c
    BY <1>1, <1>3, LineageLists
  <1>4. CASE d # c
    <2>1. PICK m \in Nat : m = Longest
      BY LongestIs
    <2>2. PICK a : a = Chain(transient_for, c, m)
      OBVIOUS
    <2>3. PICK k \in 1..m : a[k] = d
      BY <1>4, <2>1, <2>2, KinDescends DEF Descends
    <2>4. IsChain(a, transient_for, c, m)
      BY <1>1, <2>2, ChainIs DEF Linked
    <2>5. n \in 0..m - 1 /\ a[n + 1] = NoClient
      BY <2>1, <2>2 DEF Ancestry
    <2>6. k \in 0..n
      <3>1. SUFFICES ASSUME n + 1 <= k PROVE FALSE
        BY <2>3, <2>5
      <3>2. n + 1 \in 0..m /\ k \in n + 1..m
        BY <2>3, <2>5, <3>1
      <3>3. a[k] = NoClient
        BY <2>4, <2>5, <3>2, StaysEnded
      <3> QED
        BY <1>2, <2>3, <3>3, NoneIsNoClient
    <2> QED
      BY <1>1, <2>1, <2>2, <2>3, <2>6, LineageLists
  <1> QED
    BY <1>3, <1>4

\* Where its lineage stands above all others, nothing but its own transients
\* will stand above a client; where it stands below, nothing but its parents
\* will stand below it.
LEMMA RaisedAbove ==
    ASSUME NEW u, Placeable(u), NEW c \in ToSet(u),
           \A d, e : Kin(u, c, d) /\ Ahead(u, d, e) => ~Siblings(u, d, e),
           NEW i \in DOMAIN Place(u), i > Position(Place(u), c)
    PROVE  Descends(transient_for, Place(u)[i], c)
  <1>1. PICK s : s = Place(u)
    OBVIOUS
  <1>2. Placed(u, s)
    BY <1>1, PlacedRight
  <1>3. /\ s \in Seq(Client) /\ IsInjective(s) /\ ToSet(s) = ToSet(u)
        /\ \A x, y : Ahead(s, x, y) => Goes(u, x, y)
    BY <1>2 DEF Placed
  <1>4. PICK y : y = s[i] /\ y \in ToSet(u) /\ Position(s, y) = i
    BY <1>1, <1>3, Entries, PositionIs
  <1>5. Ahead(s, c, y)
    BY <1>1, <1>3, <1>4, PositionAhead
  <1>6. Goes(u, c, y) /\ ~Parted(u, c, y)
    BY <1>3, <1>5 DEF Goes, Parted
  <1> QED
    BY <1>1, <1>4, <1>6, KinDescends DEF Goes

LEMMA LoweredBelow ==
    ASSUME NEW u, Placeable(u), NEW c \in ToSet(u),
           \A d, e : Kin(u, c, e) /\ Ahead(u, d, e) => ~Siblings(u, d, e),
           NEW i \in DOMAIN Place(u), i < Position(Place(u), c)
    PROVE  Descends(transient_for, c, Place(u)[i])
  <1>1. PICK s : s = Place(u)
    OBVIOUS
  <1>2. Placed(u, s)
    BY <1>1, PlacedRight
  <1>3. /\ s \in Seq(Client) /\ IsInjective(s) /\ ToSet(s) = ToSet(u)
        /\ \A x, y : Ahead(s, x, y) => Goes(u, x, y)
    BY <1>2 DEF Placed
  <1>4. PICK y : y = s[i] /\ y \in ToSet(u) /\ Position(s, y) = i
    BY <1>1, <1>3, Entries, PositionIs
  <1>5. Ahead(s, y, c)
    BY <1>1, <1>3, <1>4, PositionAhead
  <1>6. Goes(u, y, c) /\ ~Parted(u, y, c)
    BY <1>3, <1>5 DEF Goes, Parted
  <1> QED
    BY <1>1, <1>4, <1>6, KinDescends DEF Goes

\* The order of the lineage and the rest, once c is raised or lowered.
LEMMA RaisedStack ==
    ASSUME Held, Followed, NEW c \in listed, Ends(transient_for, c)
    PROVE  /\ Placeable(Raised(c)) /\ c \in ToSet(Raised(c))
           /\ \A d, e : Kin(Raised(c), c, d) /\ Ahead(Raised(c), d, e) => ~Siblings(Raised(c), d, e)
           /\ Placeable(Lowered(c)) /\ c \in ToSet(Lowered(c))
           /\ \A d, e : Kin(Lowered(c), c, e) /\ Ahead(Lowered(c), d, e)
                => ~Siblings(Lowered(c), d, e)
  <1>1. transient_for \in Links /\ c \in Client
    BY HeldTypes
  <1>2. PICK l, n : l = Lineage(transient_for, c) /\ Ancestry(l, transient_for, c, n)
    BY <1>1, LineageIs
  <1>3. PICK L : L = ToSet(l) /\ Lists(l, L) /\ c \in L
    BY <1>1, <1>2, LineageLists
  <1>4. PICK S : S = ToSet(stack) /\ Lists(stack, S)
    BY DEF Held
  <1>5. PICK W : W = S \ L
    OBVIOUS
  <1>6. PICK w : w = Without(stack, L) /\ Lists(w, W)
    BY <1>4, <1>5, WithoutIs
  <1>7. W \cap L = {} /\ L \cap W = {}
    BY <1>5
  <1>8. PICK r : r = w \o l
    OBVIOUS
  <1>9. PICK o : o = l \o w
    OBVIOUS
  <1>10. Lists(r, W \cup L)
    BY <1>3, <1>6, <1>7, <1>8, JoinedLists
  <1>11. Lists(o, L \cup W)
    BY <1>3, <1>6, <1>7, <1>9, JoinedLists
  <1>12. \A x, y : Ahead(r, x, y) <=> \/ Ahead(w, x, y) \/ Ahead(l, x, y)
                                      \/ x \in W /\ y \in L
    <2>1. Follows(r, w, W, l, L)
      BY <1>3, <1>6, <1>7, <1>8, JoinedLists
    <2> QED
      BY <2>1 DEF Follows
  <1>13. \A x, y : Ahead(o, x, y) <=> \/ Ahead(l, x, y) \/ Ahead(w, x, y)
                                      \/ x \in L /\ y \in W
    <2>1. Follows(o, l, L, w, W)
      BY <1>3, <1>6, <1>7, <1>9, JoinedLists
    <2> QED
      BY <2>1 DEF Follows
  <1>14. /\ \A x, y : Ahead(l, x, y) => x \in L /\ y \in L
         /\ \A x, y : Ahead(w, x, y) => x \in W /\ y \in W
    BY <1>3, <1>6, Entries DEF Lists
  <1>15. /\ Placeable(r) /\ L \subseteq ToSet(r) /\ \A x : ~Ahead(r, x, x)
         /\ Placeable(o) /\ L \subseteq ToSet(o) /\ \A x : ~Ahead(o, x, x)
    BY <1>1, <1>10, <1>11, Entries DEF Lists, Placeable
  <1>16. ASSUME NEW d, NEW e, Kin(r, c, d), Ahead(r, d, e), Siblings(r, d, e) PROVE FALSE
    <2>1. d \in L
      BY <1>2, <1>3, <1>15, <1>16, KinInLineage
    <2>2. e \in L
      BY <1>7, <1>14, <1>16, <1>12, <2>1
    <2>3. d = e
      BY <1>1, <1>2, <1>3, <1>15, <1>16, <2>1, <2>2, SiblingsAre, LineageApart
    <2> QED
      BY <1>15, <1>16, <2>3
  <1>17. ASSUME NEW d, NEW e, Kin(o, c, e), Ahead(o, d, e), Siblings(o, d, e) PROVE FALSE
    <2>1. e \in L
      BY <1>2, <1>3, <1>15, <1>17, KinInLineage
    <2>2. d \in L
      BY <1>7, <1>14, <1>17, <1>13, <2>1
    <2>3. d = e
      BY <1>1, <1>2, <1>3, <1>15, <1>17, <2>1, <2>2, SiblingsAre, LineageApart
    <2> QED
      BY <1>15, <1>17, <2>3
  <1>18. Raised(c) = r /\ Lowered(c) = o
    BY <1>2, <1>3, <1>6, <1>8, <1>9 DEF Raised, Lowered
  <1> QED
    BY <1>3, <1>15, <1>16, <1>17, <1>18

LEMMA RaisesHeld == Held => RaiseAndLower
  <1> SUFFICES ASSUME Held PROVE RaiseAndLower
    OBVIOUS
  <1>1. ASSUME Followed, NEW c \in listed, Ends(transient_for, c), ~IsRaised(c),
               NEW s, s = Place(Raised(c)), NEW i \in DOMAIN s, i > Position(s, c)
        PROVE  Descends(transient_for, s[i], c)
    BY <1>1, RaisedStack, RaisedAbove
  <1>2. ASSUME Followed, NEW c \in listed, IsRaised(c),
               NEW s, s = Place(stack), NEW i \in DOMAIN s, i > Position(s, c)
        PROVE  Descends(transient_for, s[i], c)
    <2>1. PICK S : S = ToSet(stack) /\ Lists(stack, S)
      BY DEF Held
    <2>2. Placeable(stack) /\ transient_for \in Links /\ c \in Client
      BY <2>1, HeldTypes DEF Placeable, Lists
    <2>3. transient_for[c] = NoClient /\ stack # <<>> /\ Last(stack) = c
      BY <1>2 DEF IsRaised
    <2>4. PICK m \in Nat : m = Len(stack) /\ m # 0
      BY <2>2, <2>3, Entries, EmptySeq DEF Placeable
    <2>5. stack[m] = c /\ m \in 1..m
      BY <2>3, <2>4 DEF Last
    <2>6. c \in ToSet(stack)
      BY <2>2, <2>4, <2>5, Entries DEF Placeable
    <2>7. ~Rides(stack, c)
      BY <2>2, <2>3, <2>6, RiddenIs, NoneIsNoClient
    <2>8. ASSUME NEW d, NEW e, Kin(stack, c, d), Ahead(stack, d, e), Siblings(stack, d, e)
          PROVE  FALSE
      <3>1. Level(stack, c) = 0
        BY <2>7 DEF Level
      <3>2. d \in ToSet(stack) /\ Level(stack, d) <= 0
        BY <2>8, <3>1 DEF Kin
      <3>3. Level(stack, d) = 0
        BY <2>2, <3>2, LevelNat
      <3>4. d = c
        BY <2>2, <2>6, <2>8, <3>1, <3>3, KinSelf, KinOnce
      <3>5. PICK j \in 1..m, k \in 1..m : j < k /\ stack[j] = c /\ stack[k] = e
        BY <2>4, <2>8, <3>4 DEF Ahead
      <3>6. Ahead(stack, c, c)
        <4>1. j < m
          BY <3>5
        <4> QED
          BY <2>4, <2>5, <3>5, <4>1 DEF Ahead
      <3> QED
        BY <2>2, <3>6, Entries DEF Placeable
    <2> QED
      BY <1>2, <2>2, <2>6, <2>8, RaisedAbove
  <1>3. RaiseRaises
    BY <1>1, <1>2 DEF RaiseRaises
  <1>4. ASSUME Followed, NEW c \in listed, Ends(transient_for, c),
               NEW s, s = Place(Lowered(c)), NEW i \in DOMAIN s, i < Position(s, c)
        PROVE  Descends(transient_for, c, s[i])
    BY <1>4, RaisedStack, LoweredBelow
  <1>5. LowerLowers
    BY <1>4 DEF LowerLowers
  <1> QED
    BY <1>3, <1>5 DEF RaiseAndLower

-----------------------------------------------------------------------------
(* "... siblings in their old order".                                       *)

\* The lineage of c by whom each client rides: one ancestor on each level.
LevelLine(s, c, l) ==
    /\ Len(l) = Level(s, c) + 1 /\ DOMAIN l = 1..Level(s, c) + 1
    /\ \A i \in 1..Level(s, c) + 1 : l[i] \in ToSet(s) /\ Kin(s, c, l[i]) /\ Level(s, l[i]) = i - 1

LEMMA LevelLineIs ==
    ASSUME NEW s, Placeable(s), NEW c \in ToSet(s)
    PROVE  LevelLine(s, c, Lineage(Ridden(s), c))
  <1>1. PICK h \in Nat : h = Len(s)
    BY Entries DEF Placeable
  <1>2. PICK m \in Nat : m = Longest /\ h <= m
    BY <1>1, ShortEnough DEF Placeable
  <1>3. PICK v : v = Level(s, c) /\ v \in 0..h - 1
    BY <1>1, LevelNat
  <1>4. PICK a : a = Chain(Ridden(s), c, h)
    OBVIOUS
  <1>5. PICK b : b = Chain(Ridden(s), c, m)
    OBVIOUS
  <1>6. Ridden(s) \in Links /\ c \in Linked /\ c \in Client
    BY LevelsAre, RiddenIs DEF Leveled, Linked
  <1>7. IsChain(a, Ridden(s), c, h) /\ IsChain(b, Ridden(s), c, m)
    BY <1>4, <1>5, <1>6, ChainIs
  <1>8. \A k \in 0..h : b[k] = a[k]
    <2>1. ASSUME NEW k \in 0..h PROVE b[k] = a[k]
      <3>1. k \in Nat /\ 0 \in 0..h /\ 0 \in 0..m /\ 0 + k <= h /\ 0 + k <= m /\ 0 + k = k
        BY <1>2
      <3>2. a[0] = b[0]
        BY <1>7 DEF IsChain
      <3>3. a[0 + k] = b[0 + k]
        BY <1>6, <1>7, <3>1, <3>2, Together
      <3> QED
        BY <3>1, <3>3
    <2> QED
      BY <2>1
  <1>9. ASSUME NEW k \in 0..v PROVE b[k] \in ToSet(s) /\ b[k] \in Client /\ Level(s, b[k]) = v - k
    <2>1. a[k] \in ToSet(s) /\ Level(s, a[k]) = v - k
      BY <1>1, <1>3, <1>4, AncestorsAre
    <2>2. k \in 0..h
      BY <1>3
    <2> QED
      BY <1>8, <2>1, <2>2, RiddenIs
  <1>10. b[v + 1] = NoClient
    <2>1. v \in 0..v /\ v - v = 0 /\ v + 1 \in 1..m /\ (v + 1) - 1 = v
      BY <1>2, <1>3
    <2>2. b[v] \in ToSet(s) /\ Level(s, b[v]) = 0 /\ b[v] # NoClient
      BY <1>9, <2>1, NoneIsNoClient
    <2>3. Ridden(s)[b[v]] = NoClient
      <3>1. SUFFICES ASSUME Ridden(s)[b[v]] # NoClient PROVE FALSE
        OBVIOUS
      <3>2. Level(s, b[v]) = Level(s, Ridden(s)[b[v]]) + 1 /\ Ridden(s)[b[v]] \in ToSet(s)
        BY <2>2, <3>1, LevelsAre DEF Leveled
      <3>3. Level(s, Ridden(s)[b[v]]) \in Nat
        BY <3>2, LevelNat
      <3> QED
        BY <2>2, <3>2, <3>3
    <2> QED
      BY <1>7, <2>1, <2>2, <2>3 DEF IsChain
  <1>11. Ends(Ridden(s), c)
    <2>1. v + 1 \in 0..m /\ m \in v + 1..m
      BY <1>2, <1>3
    <2>2. b[m] = NoClient
      BY <1>7, <1>10, <2>1, StaysEnded
    <2> QED
      BY <1>2, <1>5, <2>2 DEF Ends
  <1>12. PICK l, n : l = Lineage(Ridden(s), c) /\ Ancestry(l, Ridden(s), c, n)
    BY <1>6, <1>11, LineageIs
  <1>13. /\ n \in 0..m - 1 /\ \A k \in 0..n : b[k] \in Client
         /\ b[n + 1] = NoClient /\ l \in [1..n + 1 -> Client]
         /\ \A i \in 1..n + 1 : l[i] = b[n + 1 - i]
    BY <1>2, <1>5, <1>12 DEF Ancestry
  <1>14. n = v
    <2>1. CASE n < v
      <3>1. n + 1 \in 0..v
        BY <1>3, <1>13, <2>1
      <3> QED
        BY <1>9, <1>13, <3>1, NoneIsNoClient
    <2>2. CASE v < n
      <3>1. v + 1 \in 0..n
        BY <1>3, <1>13, <2>2
      <3> QED
        BY <1>10, <1>13, <3>1, NoneIsNoClient
    <2> QED
      BY <1>3, <1>13, <2>1, <2>2
  <1>15. Len(l) = v + 1 /\ DOMAIN l = 1..v + 1
    <2>1. Len(l) = n + 1
      BY <1>6, <1>12, LineageLists
    <2> QED
      BY <1>13, <1>14, <2>1
  <1>16. ASSUME NEW i \in 1..v + 1
         PROVE  l[i] \in ToSet(s) /\ Kin(s, c, l[i]) /\ Level(s, l[i]) = i - 1
    <2>1. PICK k : k = v + 1 - i
      OBVIOUS
    <2>2. k \in 0..v /\ v - k = i - 1 /\ v - (i - 1) = k /\ k \in 0..h /\ i - 1 <= v
      BY <1>3, <2>1
    <2>3. l[i] = b[k] /\ b[k] = a[k]
      BY <1>8, <1>13, <1>14, <2>1, <2>2
    <2>4. l[i] \in ToSet(s) /\ Level(s, l[i]) = i - 1
      BY <1>9, <2>2, <2>3
    <2>5. Kin(s, c, l[i])
      BY <1>1, <1>3, <1>4, <2>2, <2>3, <2>4 DEF Kin
    <2> QED
      BY <2>4, <2>5
  <1>17. LevelLine(s, c, l)
    BY <1>3, <1>15, <1>16 DEF LevelLine
  <1> QED
    BY <1>12, <1>17

\* An ancestor is where its level says.
LEMMA LineHas ==
    ASSUME NEW s, Placeable(s), NEW c \in ToSet(s), NEW l, LevelLine(s, c, l), NEW d, Kin(s, c, d)
    PROVE  Level(s, d) + 1 \in 1..Len(l) /\ l[Level(s, d) + 1] = d
  <1>1. d \in ToSet(s) /\ Level(s, d) <= Level(s, c)
    BY DEF Kin
  <1>2. Level(s, d) \in Nat /\ Level(s, c) \in Nat
    BY <1>1, LevelNat
  <1>3. PICK i : i = Level(s, d) + 1
    OBVIOUS
  <1>4. i \in 1..Level(s, c) + 1 /\ i - 1 = Level(s, d)
    BY <1>1, <1>2, <1>3
  <1>5. Kin(s, c, l[i]) /\ Level(s, l[i]) = i - 1 /\ Len(l) = Level(s, c) + 1
    BY <1>4 DEF LevelLine
  <1>6. l[i] = d
    BY <1>4, <1>5, KinOnce
  <1> QED
    BY <1>3, <1>4, <1>5, <1>6

\* Where x and y have an ancestor in common, all above it are.
LEMMA LinesAgree ==
    ASSUME NEW s, Placeable(s), NEW x \in ToSet(s), NEW y \in ToSet(s),
           NEW p, LevelLine(s, x, p), NEW q, LevelLine(s, y, q),
           NEW c, Kin(s, x, c), Kin(s, y, c), NEW i \in 1..Level(s, c) + 1
    PROVE  p[i] = q[i]
  <1>1. c \in ToSet(s) /\ Level(s, c) <= Level(s, x) /\ Level(s, c) <= Level(s, y)
    BY DEF Kin
  <1>2. Level(s, c) \in Nat /\ Level(s, x) \in Nat /\ Level(s, y) \in Nat
    BY <1>1, LevelNat
  <1>3. i \in 1..Level(s, x) + 1 /\ i \in 1..Level(s, y) + 1 /\ i - 1 <= Level(s, c)
    BY <1>1, <1>2
  <1>4. PICK d : d = p[i] /\ d \in ToSet(s) /\ Kin(s, x, d) /\ Level(s, d) = i - 1
    BY <1>3 DEF LevelLine
  <1>5. Kin(s, c, d)
    BY <1>1, <1>3, <1>4, KinOfKin
  <1>6. Kin(s, y, d)
    BY <1>3, <1>4, <1>5, KinOfKin
  <1>7. Kin(s, y, q[i]) /\ Level(s, q[i]) = i - 1
    BY <1>3 DEF LevelLine
  <1> QED
    BY <1>4, <1>6, <1>7, KinOnce

LEMMA GoesEarlier ==
    ASSUME NEW s, Placeable(s), NEW x \in ToSet(s), NEW y \in ToSet(s), Goes(s, x, y),
           NEW p, LevelLine(s, x, p), NEW q, LevelLine(s, y, q)
    PROVE  Earlier(Places(s, p), Places(s, q))
  <1>1. Level(s, x) \in Nat /\ Level(s, y) \in Nat
    BY LevelNat
  <1>2. PICK a \in Nat, b \in Nat : a = Level(s, x) + 1 /\ b = Level(s, y) + 1
    BY <1>1
  <1>3. PICK f : f = Places(s, p) /\ f = [i \in 1..a |-> Position(s, p[i])]
    BY <1>2 DEF LevelLine, Places
  <1>4. PICK g : g = Places(s, q) /\ g = [i \in 1..b |-> Position(s, q[i])]
    BY <1>2 DEF LevelLine, Places
  <1>5. Len(f) = a /\ Len(g) = b
    BY <1>3, <1>4, LenProperties, IsASeq, SeqDef
  <1>6. CASE x # y /\ Kin(s, y, x)
    <2>1. Kin(s, x, x) /\ Kin(s, y, y)
      BY KinSelf
    <2>2. Level(s, x) <= Level(s, y) /\ Level(s, x) # Level(s, y)
      BY <1>6, <2>1, KinOnce DEF Kin
    <2>3. PICK k : k = a + 1
      OBVIOUS
    <2>4. k \in 1..b /\ k <= a + 1 /\ ~(k <= a)
      BY <1>1, <1>2, <2>2, <2>3
    <2>5. ASSUME NEW i \in 1..k - 1 PROVE f[i] = g[i]
      <3>1. i \in 1..Level(s, x) + 1 /\ i \in 1..a /\ i \in 1..b
        BY <1>2, <2>3, <2>4, <2>5
      <3>2. p[i] = q[i]
        BY <1>6, <2>1, <3>1, LinesAgree
      <3> QED
        BY <1>3, <1>4, <3>1, <3>2
    <2>6. Earlier(f, g)
      BY <1>5, <2>4, <2>5 DEF Earlier
    <2> QED
      BY <1>3, <1>4, <2>6
  <1>7. CASE Parted(s, x, y)
    <2>1. PICK d, e : Siblings(s, d, e) /\ Ahead(s, d, e) /\ Kin(s, x, d) /\ Kin(s, y, e)
      BY <1>7 DEF Parted
    <2>2. d \in ToSet(s) /\ e \in ToSet(s) /\ Ridden(s)[d] = Ridden(s)[e]
            /\ Level(s, d) = Level(s, e)
      BY <2>1, SiblingsAre DEF Siblings
    <2>3. PICK k : k = Level(s, d) + 1 /\ Level(s, d) \in Nat
      BY <2>2, LevelNat
    <2>4. k \in 1..Len(p) /\ p[k] = d /\ k \in 1..Len(q) /\ q[k] = e
      BY <2>1, <2>2, <2>3, LineHas
    <2>5. k \in 1..a /\ k \in 1..b /\ k <= a + 1
      BY <1>2, <2>4 DEF LevelLine
    <2>6. f[k] < g[k]
      <3>1. Position(s, d) < Position(s, e)
        BY <2>1, <2>2, PositionAhead DEF Placeable
      <3> QED
        BY <1>3, <1>4, <2>4, <2>5, <3>1
    <2>7. ASSUME NEW i \in 1..k - 1 PROVE f[i] = g[i]
      <3>1. i \in 1..a /\ i \in 1..b /\ Level(s, d) # 0
        BY <2>3, <2>5, <2>7
      <3>2. PICK r : r = Ridden(s)[d]
        OBVIOUS
      <3>3. r # NoClient
        BY <2>2, <3>1, <3>2, LevelsAre DEF Leveled
      <3>4. Kin(s, d, r) /\ Kin(s, e, r) /\ Level(s, d) = Level(s, r) + 1
        BY <2>2, <3>2, <3>3, KinUp
      <3>5. r \in ToSet(s) /\ Level(s, r) <= Level(s, d) /\ Level(s, r) <= Level(s, e)
        BY <3>4 DEF Kin
      <3>6. Kin(s, x, r) /\ Kin(s, y, r)
        BY <2>1, <3>4, <3>5, KinOfKin
      <3>7. Level(s, r) \in Nat
        BY <3>5, LevelNat
      <3>8. i \in 1..Level(s, r) + 1
        BY <2>3, <2>7, <3>4, <3>7
      <3>9. p[i] = q[i]
        BY <3>6, <3>8, LinesAgree
      <3> QED
        BY <1>3, <1>4, <3>1, <3>9
    <2>8. Earlier(f, g)
      BY <1>5, <2>5, <2>6, <2>7 DEF Earlier
    <2> QED
      BY <1>3, <1>4, <2>8
  <1> QED
    BY <1>6, <1>7 DEF Goes

LEMMA SortedHeld == Held => SortedByAncestry
  <1> SUFFICES ASSUME Held PROVE SortedByAncestry
    OBVIOUS
  <1>1. Placeable(stack)
    BY HeldTypes DEF Held, Lists, Placeable
  <1>2. PICK s : s = Place(stack) /\ Placed(stack, s)
    BY <1>1, PlacedRight
  <1>3. Len(s) = Len(stack) /\ ToSet(s) = ToSet(stack)
    BY <1>1, <1>2, PlacedIsPlaceable
  <1>4. PICK Up : Up = [c \in Client |-> IF Contains(stack, c) /\ Rides(stack, c)
                                         THEN transient_for[c] ELSE NoClient]
    OBVIOUS
  <1>5. Up = Ridden(stack)
    <2>1. \A c : Contains(stack, c) <=> c \in ToSet(stack)
      BY <1>1, Entries DEF Contains, Placeable
    <2> QED
      BY <1>4, <2>1 DEF Ridden
  <1>6. ASSUME NEW i \in DOMAIN s, NEW j \in DOMAIN s, i < j
        PROVE  Earlier(Places(stack, Lineage(Up, s[i])), Places(stack, Lineage(Up, s[j])))
    <2>1. s \in Seq(Client) /\ DOMAIN s = 1..Len(s)
      BY <1>2, Entries DEF Placed
    <2>2. Ahead(s, s[i], s[j])
      BY <1>6, <2>1 DEF Ahead
    <2>3. Goes(stack, s[i], s[j]) /\ s[i] \in ToSet(stack) /\ s[j] \in ToSet(stack)
      BY <1>2, <1>3, <2>1, <2>2, Entries DEF Placed
    <2>4. LevelLine(stack, s[i], Lineage(Up, s[i])) /\ LevelLine(stack, s[j], Lineage(Up, s[j]))
      BY <1>1, <1>5, <2>3, LevelLineIs
    <2> QED
      BY <1>1, <2>3, <2>4, GoesEarlier
  <1> QED
    BY <1>2, <1>3, <1>4, <1>6 DEF SortedByAncestry

\* The stack holds each listed client once, in an order a refresh makes agree
\* with ancestry; raise and lower take a client above, or below, all but its
\* own family.
THEOREM StackIsSound == Spec => []StackSound
  <1>1. Held => SortedByAncestry /\ RaiseAndLower
    BY SortedHeld, RaisesHeld
  <1>2. StackHoldsTheListed /\ SortedByAncestry /\ RaiseAndLower => StackSound
    BY DEF StackSound
  <1> QED
    BY <1>1, <1>2, AlwaysHeld, StackHolds, PTL
=============================================================================
