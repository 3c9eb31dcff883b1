------------------------- MODULE EventMetadataProofs -------------------------
(***************************************************************************)
(* What the decoder of the event format makes of metadata and payload that *)
(* were appended field by field.  Both producers build an event that way,  *)
(* and both are shown to build it right with the lemmas of this module.    *)
(*                                                                         *)
(* A wire is what a producer appends for one field: a name, an InFlag, the *)
(* OutFlag if any, and items.  Wires put end to end are decoded, one by    *)
(* one, wherever each of them is read alone.                               *)
(***************************************************************************)
EXTENDS EventMetadata, TLAPS

Join(s, r) == s \o r

Sizes   == INSTANCE FoldTheorems WITH op <- AddItem
Joining == INSTANCE FoldTheorems WITH op <- Join

-----------------------------------------------------------------------------
(* The recursive functions of the decoder exist.                           *)

\* The fields that begin at token m or later.
FieldsFrom(f, meta, m) ==
  f = [i \in m..Len(meta) + 1 |->
         IF i > Len(meta) THEN <<>>
         ELSE IF ~WellFormed(meta, i) THEN <<Garbled>>
         ELSE <<FieldAt(meta, i)>> \o f[After(meta, i)]]

\* A field ends after it began, and within the metadata.
LEMMA FieldsAdvance ==
  ASSUME NEW meta, Len(meta) \in Nat, NEW i \in 1..Len(meta), WellFormed(meta, i)
  PROVE  After(meta, i) \in i + 1..Len(meta) + 1
BY DEF WellFormed, After, NameAt

\* Backwards from the end, where there are none.
LEMMA FieldsExist ==
  ASSUME NEW meta, Len(meta) \in Nat
  PROVE  \E f : FieldsFrom(f, meta, 1)
<1> DEFINE n == Len(meta)
           S == {k \in 0..n : \E f : FieldsFrom(f, meta, n + 1 - k)}
<1>1. 0 \in S
  <2> DEFINE f == [i \in n + 1..n + 1 |-> <<>>]
  <2>1. f = [i \in n + 1..n + 1 |->
               IF i > n THEN <<>>
               ELSE IF ~WellFormed(meta, i) THEN <<Garbled>>
               ELSE <<FieldAt(meta, i)>> \o f[After(meta, i)]]
    OBVIOUS
  <2>2. FieldsFrom(f, meta, n + 1)
    BY <2>1, Zenon DEF FieldsFrom
  <2>3. n + 1 - 0 = n + 1
    OBVIOUS
  <2> HIDE DEF f
  <2> QED
    BY <2>2, <2>3
<1>2. ASSUME NEW k \in 0..n - 1, k \in S PROVE k + 1 \in S
  <2>1. PICK f : FieldsFrom(f, meta, n + 1 - k)
    BY <1>2
  <2>2. PICK m \in 1..n : m = n - k
    OBVIOUS
  <2>3. n + 1 - k = m + 1 /\ n + 1 - (k + 1) = m /\ m <= n
    BY <2>2
  <2> DEFINE here == IF ~WellFormed(meta, m) THEN <<Garbled>>
                     ELSE <<FieldAt(meta, m)>> \o f[After(meta, m)]
             g == [i \in m..n + 1 |-> IF i = m THEN here ELSE f[i]]
             Body(h, i) == IF i > n THEN <<>>
                           ELSE IF ~WellFormed(meta, i) THEN <<Garbled>>
                           ELSE <<FieldAt(meta, i)>> \o h[After(meta, i)]
  <2>4. \A i \in m + 1..n + 1 : f[i] = Body(f, i)
    <3>1. FieldsFrom(f, meta, m + 1)
      BY <2>1, <2>3, Zenon
    <3> QED
      BY <3>1, Zenon DEF FieldsFrom
  <2>5. \A i \in m + 1..n + 1 : g[i] = f[i]
    <3> HIDE DEF here
    <3> QED
      BY <2>3
  <2>6. ASSUME NEW i \in m..n + 1 PROVE g[i] = Body(g, i)
    <3>1. CASE i > n
      <4>1. i \in m + 1..n + 1
        BY <2>3, <3>1
      <4> QED
        BY <2>4, <2>5, <3>1, <4>1, Zenon
    <3>2. CASE i <= n /\ ~WellFormed(meta, i)
      <4>1. CASE i = m
        BY <2>3, <3>2, <4>1
      <4>2. CASE i # m
        <5>1. i \in m + 1..n + 1 /\ ~(i > n)
          BY <3>2, <4>2
        <5> QED
          BY <2>4, <2>5, <3>2, <5>1, Zenon
      <4> QED
        BY <4>1, <4>2
    <3>3. CASE i <= n /\ WellFormed(meta, i)
      <4>1. After(meta, i) \in i + 1..n + 1 /\ i \in 1..n
        BY <2>3, <3>3, FieldsAdvance
      <4>2. After(meta, i) \in m + 1..n + 1
        BY <4>1
      <4>3. g[After(meta, i)] = f[After(meta, i)]
        BY <2>5, <4>2, Zenon
      <4>4. CASE i = m
        <5>1. ~(m > n) /\ m \in m..n + 1
          BY <2>3
        <5>2. g[m] = here
          BY <5>1, Zenon
        <5> QED
          BY <3>3, <4>3, <4>4, <5>1, <5>2, Zenon
      <4>5. CASE i # m
        <5>1. i \in m + 1..n + 1 /\ ~(i > n)
          BY <3>3, <4>5
        <5> QED
          BY <2>4, <2>5, <3>3, <4>3, <5>1, Zenon
      <4> QED
        BY <4>4, <4>5
    <3> QED
      BY <3>1, <3>2, <3>3
  <2>7. g = [i \in m..n + 1 |-> Body(g, i)]
    <3>1. g = [i \in m..n + 1 |-> g[i]]
      BY Zenon
    <3> HIDE DEF g
    <3> QED
      BY <2>6, <3>1, Zenon
  <2>8. FieldsFrom(g, meta, m)
    <3> HIDE DEF g
    <3> QED
      BY <2>7, Zenon DEF FieldsFrom
  <2> HIDE DEF g
  <2> QED
    BY <2>3, <2>8
<1>3. 0..n \subseteq S
  <2> HIDE DEF S
  <2> QED
    BY <1>1, <1>2, Sizes!UpTo
<1>4. n \in S /\ n + 1 - n = 1
  BY <1>3
<1> QED
  BY <1>4

\* DecodeMetadata is such a function at the first token.
LEMMA DecodeMetadataIs ==
  ASSUME NEW meta, Len(meta) \in Nat
  PROVE  \E f : FieldsFrom(f, meta, 1) /\ DecodeMetadata(meta) = f[1]
<1> DEFINE F == CHOOSE f : f = [i \in 1..Len(meta) + 1 |->
                     IF i > Len(meta) THEN <<>>
                     ELSE IF ~WellFormed(meta, i) THEN <<Garbled>>
                     ELSE <<FieldAt(meta, i)>> \o f[After(meta, i)]]
<1>1. FieldsFrom(F, meta, 1)
  BY FieldsExist, Zenon DEF FieldsFrom
<1>2. DecodeMetadata(meta) = F[1]
  BY Zenon DEF DecodeMetadata
<1> QED
  BY <1>1, <1>2, Zenon

\* Where each field is read, field by field.
Reading(fields, payload, i, p) ==
  IF fields[i] = Garbled THEN [v |-> Garbled, next |-> p] ELSE ValueAt(fields[i], payload, p)

Positions(f, fields, payload, n) ==
  f = [i \in 1..n + 1 |-> IF i = 1 THEN 1 ELSE Reading(fields, payload, i - 1, f[i - 1]).next]

LEMMA PositionsExist ==
  ASSUME NEW fields, NEW payload, NEW n \in Nat
  PROVE  \E f : Positions(f, fields, payload, n)
<1> DEFINE S == {k \in 0..n : \E f : Positions(f, fields, payload, k)}
           Body(h, i) == IF i = 1 THEN 1 ELSE Reading(fields, payload, i - 1, h[i - 1]).next
<1>1. 0 \in S
  <2> DEFINE f == [i \in 1..0 + 1 |-> 1]
  <2>1. f = [i \in 1..0 + 1 |-> Body(f, i)]
    OBVIOUS
  <2>2. Positions(f, fields, payload, 0)
    BY <2>1, Zenon DEF Positions
  <2> HIDE DEF f
  <2> QED
    BY <2>2
<1>2. ASSUME NEW k \in 0..n - 1, k \in S PROVE k + 1 \in S
  <2>1. PICK f : Positions(f, fields, payload, k)
    BY <1>2
  <2>2. PICK m \in Nat : m = k + 1
    OBVIOUS
  <2> DEFINE next == Reading(fields, payload, m, f[m]).next
             g == [i \in 1..m + 1 |-> IF i = m + 1 THEN next ELSE f[i]]
  <2>3. \A i \in 1..m : f[i] = Body(f, i)
    BY <2>1, <2>2, Zenon DEF Positions
  <2>4. \A i \in 1..m : g[i] = f[i]
    <3> HIDE DEF next
    <3> QED
      OBVIOUS
  <2>5. ASSUME NEW i \in 1..m + 1 PROVE g[i] = Body(g, i)
    <3>1. CASE i = m + 1
      <4>1. i # 1 /\ i - 1 = m /\ m \in 1..m
        BY <2>2, <3>1
      <4>2. g[i] = next
        BY <3>1, Zenon
      <4>3. g[m] = f[m]
        BY <2>4, <4>1, Zenon
      <4> HIDE DEF g
      <4> QED
        BY <4>1, <4>2, <4>3, Zenon
    <3>2. CASE i # m + 1 /\ i # 1
      <4>1. i \in 1..m /\ i - 1 \in 1..m
        BY <3>2
      <4>2. g[i] = f[i] /\ g[i - 1] = f[i - 1]
        BY <2>4, <4>1, Zenon
      <4> HIDE DEF g
      <4> QED
        BY <2>3, <3>2, <4>1, <4>2, Zenon
    <3>3. CASE i = 1
      <4>1. i \in 1..m
        BY <2>2, <3>3
      <4> HIDE DEF g
      <4> QED
        BY <2>3, <2>4, <3>3, <4>1, Zenon
    <3> QED
      BY <3>1, <3>2, <3>3
  <2>6. g = [i \in 1..m + 1 |-> g[i]]
    BY Zenon
  <2> HIDE DEF g
  <2>7. g = [i \in 1..m + 1 |-> Body(g, i)]
    BY <2>5, <2>6, Zenon
  <2>8. Positions(g, fields, payload, m)
    BY <2>7, Zenon DEF Positions
  <2> QED
    BY <2>2, <2>8
<1>3. 0..n \subseteq S
  <2> HIDE DEF S
  <2> QED
    BY <1>1, <1>2, Sizes!UpTo
<1> QED
  BY <1>3

\* Decode shows what is read there.
DecodedAt(fields, payload, at) ==
  [i \in 1..Len(fields) |->
     IF fields[i] = Garbled THEN Garbled
     ELSE [name |-> fields[i].name, value |-> Reading(fields, payload, i, at[i]).v,
           out |-> fields[i].out]]
  \o (IF at[Len(fields) + 1] > Len(payload) THEN <<>> ELSE <<Garbled>>)

LEMMA DecodeIs ==
  ASSUME NEW meta, NEW payload, Len(DecodeMetadata(meta)) \in Nat
  PROVE  LET fields == DecodeMetadata(meta)
         IN  \E at : /\ Positions(at, fields, payload, Len(fields))
                     /\ Decode(meta, payload) = DecodedAt(fields, payload, at)
<1> DEFINE fields == DecodeMetadata(meta)
           n == Len(fields)
           F == CHOOSE f : f = [i \in 1..n + 1 |->
                  IF i = 1 THEN 1
                  ELSE (IF fields[i - 1] = Garbled THEN [v |-> Garbled, next |-> f[i - 1]]
                        ELSE ValueAt(fields[i - 1], payload, f[i - 1])).next]
<1>1. \E f : Positions(f, fields, payload, n)
  BY PositionsExist, Zenon
<1>2. Positions(F, fields, payload, n)
  BY <1>1, Zenon DEF Positions, Reading
<1>3. Decode(meta, payload) = DecodedAt(fields, payload, F)
  BY Zenon DEF Decode, DecodedAt, Reading
<1> QED
  BY <1>2, <1>3, Zenon

-----------------------------------------------------------------------------
(* Pieces put end to end.                                                  *)

LEMMA SequenceParts ==
  ASSUME NEW s, IsSequence(s)
  PROVE  Len(s) \in Nat /\ DOMAIN s = 1..Len(s)
<1>1. PICK S : S = ToSet(s) /\ s \in Seq(S)
  BY DEF IsSequence
<1> QED
  BY <1>1

LEMMA SequenceIs == ASSUME NEW S, NEW s \in Seq(S) PROVE IsSequence(s)
<1>1. PICK T : T = ToSet(s)
  OBVIOUS
<1>2. \A i \in 1..Len(s) : s[i] \in T
  BY <1>1 DEF ToSet
<1>3. s \in Seq(T)
  <2>1. Len(s) \in Nat /\ s = [i \in 1..Len(s) |-> s[i]]
    OBVIOUS
  <2> QED
    BY <1>2, <2>1
<1> QED
  BY <1>1, <1>3 DEF IsSequence

LEMMA SequencesJoin ==
  ASSUME NEW s, NEW t, IsSequence(s), IsSequence(t)
  PROVE  /\ IsSequence(s \o t) /\ Len(s \o t) = Len(s) + Len(t)
         /\ \A i \in 1..Len(s) : (s \o t)[i] = s[i]
         /\ \A i \in 1..Len(t) : (s \o t)[Len(s) + i] = t[i]
<1>1. PICK S : s \in Seq(S)
  BY DEF IsSequence
<1>2. PICK T : t \in Seq(T)
  BY DEF IsSequence
<1>3. PICK U : U = S \cup T
  OBVIOUS
<1>4. s \in Seq(U) /\ t \in Seq(U)
  BY <1>1, <1>2, <1>3
<1>5. s \o t \in Seq(U) /\ Len(s \o t) = Len(s) + Len(t)
  BY <1>4
<1>6. \A i \in 1..Len(s) : (s \o t)[i] = s[i]
  BY <1>4
<1>7. \A i \in 1..Len(t) : (s \o t)[Len(s) + i] = t[i]
  BY <1>4
<1> QED
  BY <1>5, <1>6, <1>7, SequenceIs

LEMMA FunctionIsSequence ==
  ASSUME NEW n \in Nat, NEW h, DOMAIN h = 1..n, h = [i \in 1..n |-> h[i]]
  PROVE  IsSequence(h) /\ Len(h) = n
<1>1. PICK S : S = {h[i] : i \in 1..n}
  OBVIOUS
<1>2. h \in [1..n -> S]
  BY <1>1
<1>3. h \in Seq(S) /\ Len(h) = n
  BY <1>2
<1> QED
  BY <1>3, SequenceIs

LEMMA SameSequence ==
  ASSUME NEW a, NEW b, IsSequence(a), IsSequence(b), Len(a) = Len(b),
         \A i \in 1..Len(a) : a[i] = b[i]
  PROVE  a = b
<1>1. PICK A, B : a \in Seq(A) /\ b \in Seq(B)
  BY DEF IsSequence
<1>2. PICK n \in Nat : n = Len(a) /\ a = [i \in 1..n |-> a[i]] /\ b = [i \in 1..n |-> b[i]]
  BY <1>1
<1> QED
  BY <1>2

LEMMA SamePrefix ==
  ASSUME NEW s, NEW t, IsSequence(s), IsSequence(t), NEW n \in Nat, n <= Len(s), n <= Len(t),
         \A i \in 1..n : s[i] = t[i]
  PROVE  SubSeq(s, 1, n) = SubSeq(t, 1, n)
<1>1. PICK S, T : s \in Seq(S) /\ t \in Seq(T)
  BY DEF IsSequence
<1>2. PICK U : U = S \cup T
  OBVIOUS
<1>3. s \in Seq(U) /\ t \in Seq(U)
  BY <1>1, <1>2
<1>4. PICK p, q : p = SubSeq(s, 1, n) /\ q = SubSeq(t, 1, n)
  OBVIOUS
<1>5. p \in Seq(U) /\ Len(p) = n /\ \A i \in 1..n : p[i] = s[i]
  BY <1>3, <1>4
<1>6. q \in Seq(U) /\ Len(q) = n /\ \A i \in 1..n : q[i] = t[i]
  BY <1>3, <1>4
<1>7. p = q
  BY <1>5, <1>6, SequenceIs, SameSequence
<1> QED
  BY <1>4, <1>7

LEMMA EmptyJoin == ASSUME NEW s, IsSequence(s) PROVE <<>> \o s = s /\ s \o <<>> = s
<1>1. PICK S : s \in Seq(S)
  BY DEF IsSequence
<1> QED
  BY <1>1

LEMMA JoinAssoc ==
  ASSUME NEW a, NEW b, NEW c, IsSequence(a), IsSequence(b), IsSequence(c)
  PROVE  (a \o b) \o c = a \o (b \o c)
<1>1. PICK A, B, C : a \in Seq(A) /\ b \in Seq(B) /\ c \in Seq(C)
  BY DEF IsSequence
<1>2. PICK S : S = A \cup B \cup C
  OBVIOUS
<1>3. a \in Seq(S) /\ b \in Seq(S) /\ c \in Seq(S)
  BY <1>1, <1>2
<1> QED
  BY <1>3

\* An element at the end.
LEMMA AppendIs ==
  ASSUME NEW s, IsSequence(s), NEW e
  PROVE  /\ Append(s, e) = s \o <<e>> /\ IsSequence(Append(s, e)) /\ Len(Append(s, e)) = Len(s) + 1
         /\ \A i \in 1..Len(s) : Append(s, e)[i] = s[i]
         /\ Append(s, e)[Len(s) + 1] = e
<1>1. PICK A : s \in Seq(A)
  BY DEF IsSequence
<1>2. PICK S : S = A \cup {e}
  OBVIOUS
<1>3. s \in Seq(S) /\ e \in S
  BY <1>1, <1>2
<1>4. PICK a : a = Append(s, e)
  OBVIOUS
<1>6. a \in Seq(S)
  BY <1>3, <1>4
<1>5. IsSequence(a)
  BY <1>6, SequenceIs
<1> QED
  BY <1>3, <1>4, <1>5

\* What has the elements of one and then those of the other is the two joined.
LEMMA JoinIs ==
  ASSUME NEW s, NEW t, NEW u, IsSequence(s), IsSequence(t), IsSequence(u), Len(u) = Len(s) + Len(t),
         \A i \in 1..Len(s) : u[i] = s[i], \A i \in 1..Len(t) : u[Len(s) + i] = t[i]
  PROVE  s \o t = u
<1>1. PICK r : r = s \o t
  OBVIOUS
<1>2. /\ IsSequence(r) /\ Len(r) = Len(s) + Len(t)
      /\ \A i \in 1..Len(s) : r[i] = s[i]
      /\ \A i \in 1..Len(t) : r[Len(s) + i] = t[i]
  BY <1>1, SequencesJoin
<1>3. PICK m \in Nat, n \in Nat : m = Len(s) /\ n = Len(t)
  BY SequenceParts
<1>4. ASSUME NEW i \in 1..m + n PROVE r[i] = u[i]
  <2>1. CASE i <= m
    BY <1>2, <1>3, <2>1
  <2>2. CASE ~(i <= m)
    <3>1. i - m \in 1..n /\ m + (i - m) = i
      BY <2>2
    <3>2. r[m + (i - m)] = t[i - m] /\ u[m + (i - m)] = t[i - m]
      BY <1>2, <1>3, <3>1
    <3> QED
      BY <3>1, <3>2
  <2> QED
    BY <2>1, <2>2
<1>5. r = u
  BY <1>2, <1>3, <1>4, SameSequence
<1> QED
  BY <1>1, <1>5

\* Elements put side by side.
LEMMA SideBySide ==
  ASSUME NEW a, NEW b, NEW c
  PROVE  <<a>> \o <<>> = <<a>> /\ <<a>> \o <<b>> = <<a, b>> /\ <<a, b>> \o <<c>> = <<a, b, c>>
<1>1. PICK S, s, t, u, v, w :
        /\ S = {a, b, c} /\ s = <<a>> /\ t = <<b>> /\ u = <<a, b>> /\ v = <<c>> /\ w = <<a, b, c>>
  OBVIOUS
<1>2. s \in Seq(S) /\ t \in Seq(S) /\ u \in Seq(S) /\ v \in Seq(S) /\ w \in Seq(S)
  BY <1>1
<1>3. IsSequence(s) /\ IsSequence(t) /\ IsSequence(u) /\ IsSequence(v) /\ IsSequence(w)
  BY <1>2, SequenceIs
<1>4. /\ Len(s) = 1 /\ Len(t) = 1 /\ Len(u) = 2 /\ Len(v) = 1 /\ Len(w) = 3
      /\ s[1] = a /\ t[1] = b /\ u[1] = a /\ u[2] = b /\ v[1] = c
      /\ w[1] = a /\ w[2] = b /\ w[3] = c
  BY <1>1
<1>5. s \o t = u
  <2>1. Len(u) = Len(s) + Len(t) /\ \A i \in 1..Len(s) : u[i] = s[i]
    BY <1>4
  <2>2. \A i \in 1..Len(t) : u[Len(s) + i] = t[i]
    BY <1>4
  <2> QED
    BY <1>3, <2>1, <2>2, JoinIs
<1>6. u \o v = w
  <2>1. Len(w) = Len(u) + Len(v) /\ \A i \in 1..Len(u) : w[i] = u[i]
    BY <1>4
  <2>2. \A i \in 1..Len(v) : w[Len(u) + i] = v[i]
    BY <1>4
  <2> QED
    BY <1>3, <2>1, <2>2, JoinIs
<1>7. s \o <<>> = s
  BY <1>3, EmptyJoin
<1> QED
  BY <1>1, <1>5, <1>6, <1>7

LEMMA MinIs ==
  ASSUME NEW S \in SUBSET Nat, S # {}
  PROVE  Min(S) \in S /\ \A y \in S : Min(S) <= y
BY Sizes!Least, Zenon DEF Min

\* s is the first n of the pieces, each where the one before it ends.
Laid(s, pieces, n, pos) ==
  /\ pos \in [0..n -> 0..Len(s)] /\ pos[0] = 0 /\ pos[n] = Len(s)
  /\ \A k \in 1..n :
       /\ pos[k] = pos[k - 1] + Len(pieces[k])
       /\ \A j \in 1..Len(pieces[k]) : s[pos[k - 1] + j] = pieces[k][j]

\* A place in a piece that ends within the whole.
LEMMA Within ==
  ASSUME NEW b \in Nat, NEW c \in Nat, NEW a \in Nat, a = b + c, NEW e \in Nat, a <= e, NEW l \in Nat
  PROVE  \A j \in 1..c : b + j \in 1..e /\ (l + b) + j = l + (b + j)
OBVIOUS

LEMMA LaidJoin ==
  ASSUME NEW s, NEW t, IsSequence(s), IsSequence(t), NEW m \in Nat, NEW n \in Nat,
         NEW P, NEW Q, NEW p, NEW q, Laid(s, P, m, p), Laid(t, Q, n, q),
         NEW R, \A k \in 1..m : R[k] = P[k], \A k \in 1..n : R[m + k] = Q[k],
         \A k \in 1..m : Len(P[k]) \in Nat, \A k \in 1..n : Len(Q[k]) \in Nat
  PROVE  \E r : Laid(s \o t, R, m + n, r)
<1> DEFINE r == [k \in 0..m + n |-> IF k <= m THEN p[k] ELSE Len(s) + q[k - m]]
           u == s \o t
<1>1. /\ Len(s) \in Nat /\ Len(t) \in Nat /\ Len(u) = Len(s) + Len(t)
      /\ \A i \in 1..Len(s) : u[i] = s[i]
      /\ \A i \in 1..Len(t) : u[Len(s) + i] = t[i]
  BY SequenceParts, SequencesJoin
<1> HIDE DEF u
<1>2. /\ p \in [0..m -> 0..Len(s)] /\ p[0] = 0 /\ p[m] = Len(s)
      /\ q \in [0..n -> 0..Len(t)] /\ q[0] = 0 /\ q[n] = Len(t)
  BY DEF Laid
<1>3. \A k \in 0..m + n : r[k] = IF k <= m THEN p[k] ELSE Len(s) + q[k - m]
  OBVIOUS
<1>4. \A k \in 0..m : r[k] = p[k] /\ r[k] \in 0..Len(u)
  BY <1>1, <1>2, <1>3
<1>5. \A k \in 0..n : r[m + k] = Len(s) + q[k] /\ r[m + k] \in 0..Len(u)
  <2> SUFFICES ASSUME NEW k \in 0..n PROVE r[m + k] = Len(s) + q[k] /\ r[m + k] \in 0..Len(u)
    OBVIOUS
  <2>1. r[m + k] = Len(s) + q[k]
    <3>1. CASE k = 0
      BY <1>1, <1>2, <1>3, <3>1
    <3>2. CASE k # 0
      <4>1. m + k \in 0..m + n /\ ~(m + k <= m) /\ (m + k) - m = k
        BY <3>2
      <4> QED
        BY <1>3, <4>1, Zenon
    <3> QED
      BY <3>1, <3>2
  <2> QED
    BY <1>1, <1>2, <2>1, SMTT(30)
<1>6. r \in [0..m + n -> 0..Len(u)]
  <2>1. ASSUME NEW k \in 0..m + n PROVE r[k] \in 0..Len(u)
    <3>1. CASE k <= m
      <4>1. k \in 0..m
        BY <3>1
      <4> QED
        BY <1>4, <4>1, Zenon
    <3>2. CASE ~(k <= m)
      <4>1. k - m \in 0..n /\ m + (k - m) = k
        BY <3>2
      <4> QED
        BY <1>5, <4>1, Zenon
    <3> QED
      BY <3>1, <3>2
  <2>2. r = [k \in 0..m + n |-> r[k]]
    BY Zenon
  <2> HIDE DEF r
  <2> QED
    BY <2>1, <2>2, Zenon
<1> HIDE DEF r
<1>7. r[0] = 0 /\ r[m + n] = Len(u)
  <2>1. r[m + n] = Len(s) + q[n]
    BY <1>5
  <2> QED
    BY <1>1, <1>2, <1>4, <2>1
<1>8. ASSUME NEW k \in 1..m
      PROVE  /\ r[k] = r[k - 1] + Len(R[k])
             /\ \A j \in 1..Len(R[k]) : u[r[k - 1] + j] = R[k][j]
  <2>1. /\ p[k] = p[k - 1] + Len(P[k])
        /\ \A j \in 1..Len(P[k]) : s[p[k - 1] + j] = P[k][j]
    BY <1>8 DEF Laid
  <2>2. r[k] = p[k] /\ r[k - 1] = p[k - 1] /\ R[k] = P[k]
    BY <1>4
  <2>3. \A j \in 1..Len(P[k]) : p[k - 1] + j \in 1..Len(s)
    <3>1. p[k] \in 0..Len(s) /\ p[k - 1] \in 0..Len(s) /\ Len(P[k]) \in Nat
      BY <1>2
    <3> QED
      BY <1>1, <2>1, <3>1, SMTT(30)
  <2>4. \A j \in 1..Len(P[k]) : u[p[k - 1] + j] = P[k][j]
    BY <1>1, <2>1, <2>3
  <2> QED
    BY <2>1, <2>2, <2>4
<1>9. ASSUME NEW k \in 1..n
      PROVE  /\ r[m + k] = r[m + k - 1] + Len(R[m + k])
             /\ \A j \in 1..Len(R[m + k]) : u[r[m + k - 1] + j] = R[m + k][j]
  <2>1. /\ q[k] = q[k - 1] + Len(Q[k])
        /\ \A j \in 1..Len(Q[k]) : t[q[k - 1] + j] = Q[k][j]
    BY <1>9 DEF Laid
  <2>2. r[m + k] = Len(s) + q[k] /\ r[m + k - 1] = Len(s) + q[k - 1] /\ R[m + k] = Q[k]
    <3>1. k - 1 \in 0..n /\ m + (k - 1) = m + k - 1 /\ k \in 0..n
      OBVIOUS
    <3>2. r[m + (k - 1)] = Len(s) + q[k - 1]
      BY <1>5, <3>1
    <3> QED
      BY <1>5, <3>1, <3>2
  <2>3. \A j \in 1..Len(Q[k]) : q[k - 1] + j \in 1..Len(t) /\ (Len(s) + q[k - 1]) + j = Len(s) + (q[k - 1] + j)
    <3>1. q[k] \in Nat /\ q[k] <= Len(t) /\ q[k - 1] \in Nat /\ Len(Q[k]) \in Nat
      BY <1>2
    <3> QED
      <4>1. PICK a, b, c, e, l : a = q[k] /\ b = q[k - 1] /\ c = Len(Q[k]) /\ e = Len(t) /\ l = Len(s)
        OBVIOUS
      <4>2. a \in Nat /\ b \in Nat /\ c \in Nat /\ e \in Nat /\ l \in Nat /\ a <= e
        BY <1>1, <3>1, <4>1, Zenon
      <4>3. a = b + c
        BY <2>1, <4>1, Zenon
      <4>4. \A j \in 1..c : b + j \in 1..e /\ (l + b) + j = l + (b + j)
        BY <4>2, <4>3, Within
      <4> QED
        BY <4>1, <4>4, Zenon
  <2>4. \A j \in 1..Len(Q[k]) : u[(Len(s) + q[k - 1]) + j] = Q[k][j]
    BY <1>1, <2>1, <2>3
  <2>5. q[k] \in 0..Len(t) /\ q[k - 1] \in 0..Len(t) /\ Len(Q[k]) \in Nat
    BY <1>2
  <2>6. Len(s) + q[k] = Len(s) + q[k - 1] + Len(Q[k])
    BY <1>1, <2>1, <2>5, SMTT(30)
  <2> QED
    BY <2>2, <2>4, <2>6
<1>10. ASSUME NEW k \in 1..m + n
       PROVE  /\ r[k] = r[k - 1] + Len(R[k])
              /\ \A j \in 1..Len(R[k]) : u[r[k - 1] + j] = R[k][j]
  <2>1. CASE k <= m
    <3>1. k \in 1..m
      BY <2>1
    <3> QED
      BY <1>8, <3>1, Zenon
  <2>2. CASE ~(k <= m)
    <3>1. PICK l \in 1..n : l = k - m
      BY <2>2
    <3>2. m + l = k /\ m + l - 1 = k - 1
      BY <3>1
    <3> QED
      BY <1>9, <3>2, Zenon
  <2> QED
    BY <2>1, <2>2
<1>11. Laid(u, R, m + n, r)
  BY <1>6, <1>7, <1>10, Zenon DEF Laid
<1> QED
  BY <1>11, Zenon DEF u

-----------------------------------------------------------------------------
(* Wires.                                                                  *)

Wire(name, in, out, items) == [name |-> name, in |-> in, out |-> out, items |-> items]

Tokens(w) == <<Name(w.name), w.in>> \o w.out
Chains(w) == "CHAIN" \in w.in.flags

\* An OutFlag is there exactly if the InFlag announces it.
WireOK(w) ==
  /\ w.in.k = "in"
  /\ IF Chains(w) THEN \E o : w.out = <<Out(o)>> ELSE w.out = <<>>
  /\ IsSequence(w.items) /\ \A i \in DOMAIN w.items : ItemSize(w.items[i]) \in Nat

\* The field that a wire stands for.
Desc(w) == FieldDesc(w.name, w.in, IF Chains(w) THEN w.out[1].v ELSE OutFlag.NULL)

\* meta and data are the wires of L, end to end.
Carries(meta, data, L) ==
  /\ IsSequence(meta) /\ IsSequence(data) /\ IsSequence(L)
  /\ \A i \in DOMAIN data : ItemSize(data[i]) \in Nat
  /\ \A k \in DOMAIN L : WireOK(L[k])
  /\ \E p : Laid(meta, [k \in DOMAIN L |-> Tokens(L[k])], Len(L), p)
  /\ \E p : Laid(data, [k \in DOMAIN L |-> L[k].items], Len(L), p)

LEMMA TokensAre ==
  ASSUME NEW w, WireOK(w)
  PROVE  /\ IsSequence(Tokens(w)) /\ Len(Tokens(w)) = IF Chains(w) THEN 3 ELSE 2
         /\ Tokens(w)[1] = Name(w.name) /\ Tokens(w)[2] = w.in
         /\ Chains(w) => Tokens(w)[3] = w.out[1] /\ w.out[1].k = "out"
<1>1. PICK S : S = {Name(w.name), w.in}
  OBVIOUS
<1>2. <<Name(w.name), w.in>> \in Seq(S)
  BY <1>1
<1>3. CASE Chains(w)
  <2>1. PICK o : w.out = <<Out(o)>>
    BY <1>3 DEF WireOK
  <2>2. w.out \in Seq({Out(o)})
    BY <2>1
  <2>3. IsSequence(<<Name(w.name), w.in>>) /\ IsSequence(w.out)
    BY <1>2, <2>2, SequenceIs
  <2>4. Len(<<Name(w.name), w.in>>) = 2 /\ Len(w.out) = 1 /\ w.out[1] = Out(o)
    BY <2>1
  <2>5. Out(o).k = "out"
    BY DEF Out
  <2>6. PICK s : s = <<Name(w.name), w.in>> /\ IsSequence(s)
    BY <2>3
  <2>7. s[1] = Name(w.name) /\ s[2] = w.in /\ Len(s) = 2
    BY <2>6
  <2>8. /\ IsSequence(s \o w.out) /\ Len(s \o w.out) = Len(s) + Len(w.out)
        /\ \A i \in 1..Len(s) : (s \o w.out)[i] = s[i]
        /\ \A i \in 1..Len(w.out) : (s \o w.out)[Len(s) + i] = w.out[i]
    BY <2>3, <2>6, SequencesJoin
  <2>9. PICK t : t = Tokens(w) /\ t = s \o w.out
    BY <2>6 DEF Tokens
  <2>10. Len(t) = 3 /\ t[1] = s[1] /\ t[2] = s[2] /\ t[3] = w.out[1]
    <3>1. 1 \in 1..Len(s) /\ 2 \in 1..Len(s) /\ 1 \in 1..Len(w.out) /\ Len(s) + 1 = 3 /\ Len(s) + Len(w.out) = 3
      BY <2>4, <2>7
    <3> QED
      BY <2>8, <2>9, <3>1
  <2> QED
    BY <1>3, <2>4, <2>5, <2>7, <2>8, <2>9, <2>10, Zenon
<1>4. CASE ~Chains(w)
  <2>1. w.out = <<>>
    BY <1>4 DEF WireOK
  <2>2. w.out \in Seq({})
    BY <2>1
  <2>3. IsSequence(<<Name(w.name), w.in>>) /\ IsSequence(w.out)
    BY <1>2, <2>2, SequenceIs
  <2>4. Len(<<Name(w.name), w.in>>) = 2 /\ Len(w.out) = 0
    BY <2>1
  <2> QED
    BY <1>4, <2>3, <2>4, SequencesJoin DEF Tokens
<1> QED
  BY <1>3, <1>4

\* Two producers' works, one after the other.
LEMMA CarriesJoin ==
  ASSUME NEW m1, NEW d1, NEW L1, Carries(m1, d1, L1),
         NEW m2, NEW d2, NEW L2, Carries(m2, d2, L2)
  PROVE  Carries(m1 \o m2, d1 \o d2, L1 \o L2)
<1> DEFINE L == L1 \o L2
<1>1. /\ IsSequence(m1) /\ IsSequence(d1) /\ IsSequence(L1)
      /\ IsSequence(m2) /\ IsSequence(d2) /\ IsSequence(L2)
  BY DEF Carries
<1>2. /\ IsSequence(m1 \o m2) /\ IsSequence(d1 \o d2)
      /\ IsSequence(L) /\ Len(L) = Len(L1) + Len(L2)
      /\ \A i \in 1..Len(L1) : L[i] = L1[i]
      /\ \A i \in 1..Len(L2) : L[Len(L1) + i] = L2[i]
  BY <1>1, SequencesJoin
<1>3. /\ DOMAIN L1 = 1..Len(L1) /\ DOMAIN L2 = 1..Len(L2) /\ DOMAIN L = 1..Len(L)
      /\ Len(L1) \in Nat /\ Len(L2) \in Nat
  BY <1>1, <1>2, SequenceParts
<1>4. \A k \in 1..Len(L) : \/ k \in 1..Len(L1) /\ L[k] = L1[k]
                           \/ k - Len(L1) \in 1..Len(L2) /\ L[k] = L2[k - Len(L1)]
  <2> SUFFICES ASSUME NEW k \in 1..Len(L), k \notin 1..Len(L1)
               PROVE  k - Len(L1) \in 1..Len(L2) /\ L[k] = L2[k - Len(L1)]
    BY <1>2
  <2>1. k - Len(L1) \in 1..Len(L2) /\ Len(L1) + (k - Len(L1)) = k
    BY <1>2, <1>3
  <2> QED
    BY <1>2, <2>1, Zenon
<1>5. \A k \in 1..Len(L) : WireOK(L[k])
  <2>1. (\A k \in 1..Len(L1) : WireOK(L1[k])) /\ (\A k \in 1..Len(L2) : WireOK(L2[k]))
    BY <1>3, Zenon DEF Carries
  <2> HIDE DEF L
  <2> QED
    BY <1>4, <2>1, Zenon
<1>6. ASSUME NEW i \in DOMAIN (d1 \o d2) PROVE ItemSize((d1 \o d2)[i]) \in Nat
  <2>1. /\ DOMAIN d1 = 1..Len(d1) /\ DOMAIN d2 = 1..Len(d2) /\ Len(d1) \in Nat /\ Len(d2) \in Nat
        /\ DOMAIN (d1 \o d2) = 1..Len(d1) + Len(d2)
        /\ \A j \in 1..Len(d1) : (d1 \o d2)[j] = d1[j]
        /\ \A j \in 1..Len(d2) : (d1 \o d2)[Len(d1) + j] = d2[j]
    BY <1>1, <1>2, SequenceParts, SequencesJoin
  <2>2. CASE i \in 1..Len(d1)
    BY <2>1, <2>2, Zenon DEF Carries
  <2>3. CASE i \notin 1..Len(d1)
    <3>1. PICK j \in 1..Len(d2) : Len(d1) + j = i
      <4>1. i - Len(d1) \in 1..Len(d2) /\ Len(d1) + (i - Len(d1)) = i
        BY <2>1, <2>3
      <4> QED
        BY <4>1, Zenon
    <3> QED
      BY <2>1, <3>1, Zenon DEF Carries
  <2> QED
    BY <2>2, <2>3
<1> DEFINE P(l) == [k \in DOMAIN l |-> Tokens(l[k])]
           Q(l) == [k \in DOMAIN l |-> l[k].items]
<1>7. \E p : Laid(m1 \o m2, P(L), Len(L1) + Len(L2), p)
  <2>1. PICK p, q : Laid(m1, P(L1), Len(L1), p) /\ Laid(m2, P(L2), Len(L2), q)
    BY Zenon DEF Carries
  <2>2. /\ \A k \in 1..Len(L1) : P(L)[k] = P(L1)[k]
        /\ \A k \in 1..Len(L2) : P(L)[Len(L1) + k] = P(L2)[k]
    <3> HIDE DEF L
    <3>1. \A k \in 1..Len(L1) : k \in DOMAIN L
      BY <1>2, <1>3
    <3>2. \A k \in 1..Len(L2) : Len(L1) + k \in DOMAIN L
      BY <1>2, <1>3
    <3> QED
      BY <1>2, <1>3, <3>1, <3>2, Zenon
  <2>3. /\ \A k \in 1..Len(L1) : Len(P(L1)[k]) \in Nat
        /\ \A k \in 1..Len(L2) : Len(P(L2)[k]) \in Nat
    <3>1. \A w : WireOK(w) => Len(Tokens(w)) \in Nat
      BY TokensAre
    <3> QED
      BY <1>3, <3>1, Zenon DEF Carries
  <2> DEFINE P0 == P(L)
             P1 == P(L1)
             P2 == P(L2)
  <2> HIDE DEF P0, P1, P2
  <2>4. \E r : Laid(m1 \o m2, P0, Len(L1) + Len(L2), r)
    BY <1>1, <1>3, <2>1, <2>2, <2>3, LaidJoin DEF P0, P1, P2
  <2> QED
    BY <2>4, Zenon DEF P0
<1>8. \E p : Laid(d1 \o d2, Q(L), Len(L1) + Len(L2), p)
  <2>1. PICK p, q : Laid(d1, Q(L1), Len(L1), p) /\ Laid(d2, Q(L2), Len(L2), q)
    BY Zenon DEF Carries
  <2>2. /\ \A k \in 1..Len(L1) : Q(L)[k] = Q(L1)[k]
        /\ \A k \in 1..Len(L2) : Q(L)[Len(L1) + k] = Q(L2)[k]
    <3> HIDE DEF L
    <3>1. \A k \in 1..Len(L1) : k \in DOMAIN L
      BY <1>2, <1>3
    <3>2. \A k \in 1..Len(L2) : Len(L1) + k \in DOMAIN L
      BY <1>2, <1>3
    <3> QED
      BY <1>2, <1>3, <3>1, <3>2, Zenon
  <2>3. /\ \A k \in 1..Len(L1) : Len(Q(L1)[k]) \in Nat
        /\ \A k \in 1..Len(L2) : Len(Q(L2)[k]) \in Nat
    <3>1. \A w : WireOK(w) => Len(w.items) \in Nat
      BY SequenceParts, Zenon DEF WireOK
    <3> QED
      BY <1>3, <3>1, Zenon DEF Carries
  <2> DEFINE Q0 == Q(L)
             Q1 == Q(L1)
             Q2 == Q(L2)
  <2> HIDE DEF Q0, Q1, Q2
  <2>4. \E r : Laid(d1 \o d2, Q0, Len(L1) + Len(L2), r)
    BY <1>1, <1>3, <2>1, <2>2, <2>3, LaidJoin DEF Q0, Q1, Q2
  <2> QED
    BY <2>4, Zenon DEF Q0
<1> QED
  BY <1>2, <1>3, <1>5, <1>6, <1>7, <1>8, Zenon DEF Carries

\* A work of no field, and of one.
LEMMA CarriesNothing == Carries(<<>>, <<>>, <<>>)
<1>1. IsSequence(<<>>) /\ Len(<<>>) = 0 /\ DOMAIN <<>> = {}
  <2>1. PICK S : S = {}
    OBVIOUS
  <2>2. <<>> \in Seq(S)
    OBVIOUS
  <2>3. IsSequence(<<>>)
    BY <2>2, SequenceIs
  <2> QED
    BY <2>3
<1>2. ASSUME NEW P PROVE \E p : Laid(<<>>, P, 0, p)
  <2> DEFINE p == [k \in 0..0 |-> 0]
  <2>1. p \in [0..0 -> 0..0] /\ p[0] = 0
    OBVIOUS
  <2>2. \A k \in 1..0 : FALSE
    OBVIOUS
  <2> HIDE DEF p
  <2>3. Laid(<<>>, P, 0, p)
    BY <1>1, <2>1, <2>2, Zenon DEF Laid
  <2> QED
    BY <2>3
<1> QED
  BY <1>1, <1>2, Zenon DEF Carries

LEMMA LaidOne ==
  ASSUME NEW s, IsSequence(s), NEW P, P[1] = s
  PROVE  \E p : Laid(s, P, 1, p)
<1> DEFINE p == [k \in 0..1 |-> IF k = 0 THEN 0 ELSE Len(s)]
<1>1. Len(s) \in Nat
  BY SequenceParts
<1>2. p \in [0..1 -> 0..Len(s)] /\ p[0] = 0 /\ p[1] = Len(s)
  BY <1>1
<1> HIDE DEF p
<1>3. ASSUME NEW k \in 1..1
      PROVE  p[k] = p[k - 1] + Len(P[k]) /\ \A j \in 1..Len(P[k]) : s[p[k - 1] + j] = P[k][j]
  <2>1. k = 1 /\ k - 1 = 0
    OBVIOUS
  <2>2. \A j \in 1..Len(s) : 0 + j = j
    BY <1>1
  <2>3. Len(s) = 0 + Len(s)
    BY <1>1
  <2> QED
    BY <1>2, <2>1, <2>2, <2>3, Zenon
<1>4. Laid(s, P, 1, p)
  BY <1>2, <1>3, Zenon DEF Laid
<1> QED
  BY <1>4

LEMMA CarriesOne ==
  ASSUME NEW w, WireOK(w)
  PROVE  Carries(Tokens(w), w.items, <<w>>)
<1>1. IsSequence(<<w>>) /\ Len(<<w>>) = 1 /\ DOMAIN <<w>> = {1} /\ <<w>>[1] = w
  <2>1. PICK S : S = {w}
    OBVIOUS
  <2>2. <<w>> \in Seq(S)
    BY <2>1
  <2>3. IsSequence(<<w>>)
    BY <2>2, SequenceIs
  <2> QED
    BY <2>3
<1>2. IsSequence(Tokens(w)) /\ IsSequence(w.items) /\ \A i \in DOMAIN w.items : ItemSize(w.items[i]) \in Nat
  BY TokensAre, Zenon DEF WireOK
<1>3. PICK L : L = <<w>> /\ L[1] = w /\ DOMAIN L = {1} /\ Len(L) = 1 /\ IsSequence(L)
  BY <1>1
<1>4. /\ [k \in DOMAIN L |-> Tokens(L[k])][1] = Tokens(w)
      /\ [k \in DOMAIN L |-> L[k].items][1] = w.items
  BY <1>3
<1>5. /\ \E p : Laid(Tokens(w), [k \in DOMAIN L |-> Tokens(L[k])], 1, p)
      /\ \E p : Laid(w.items, [k \in DOMAIN L |-> L[k].items], 1, p)
  BY <1>2, <1>4, LaidOne, Zenon
<1>6. \A k \in DOMAIN L : WireOK(L[k])
  BY <1>3
<1> QED
  BY <1>2, <1>3, <1>5, <1>6, Zenon DEF Carries

\* One item is a sequence.
LEMMA OneItem ==
  ASSUME NEW a, ItemSize(a) \in Nat
  PROVE  IsSequence(<<a>>) /\ \A i \in DOMAIN <<a>> : ItemSize(<<a>>[i]) \in Nat
<1>1. PICK S, s : S = {a} /\ s = <<a>>
  OBVIOUS
<1>2. s \in Seq(S) /\ \A i \in DOMAIN s : s[i] = a
  BY <1>1
<1>3. IsSequence(s)
  BY <1>2, SequenceIs
<1> QED
  BY <1>1, <1>2, <1>3

LEMMA InIs ==
  \A type, flags : In(type, flags).k = "in" /\ In(type, flags).type = type /\ In(type, flags).flags = flags
BY DEF In

LEMMA WireIs ==
  \A name, in, out, items :
    /\ Wire(name, in, out, items).name = name /\ Wire(name, in, out, items).in = in
    /\ Wire(name, in, out, items).out = out /\ Wire(name, in, out, items).items = items
BY DEF Wire

\* A wire whose InFlag announces an OutFlag, and one whose does not.
LEMMA ChainedWire ==
  ASSUME NEW name, NEW type, NEW o, NEW items,
         IsSequence(items), \A i \in DOMAIN items : ItemSize(items[i]) \in Nat,
         NEW flags, "CHAIN" \in flags,
         NEW w, w = Wire(name, In(type, flags), <<Out(o)>>, items)
  PROVE  /\ WireOK(w) /\ Desc(w) = FieldDesc(name, In(type, flags), o)
         /\ w.name = name /\ w.items = items
<1>1. /\ w.name = name /\ w.in = In(type, flags) /\ w.out = <<Out(o)>> /\ w.items = items
      /\ w.in.k = "in" /\ Chains(w)
  BY WireIs, InIs DEF Chains
<1>2. WireOK(w)
  BY <1>1, Zenon DEF WireOK
<1>3. w.out[1] = Out(o) /\ Out(o).v = o
  BY <1>1 DEF Out
<1> QED
  BY <1>1, <1>2, <1>3 DEF Desc

LEMMA PlainWire ==
  ASSUME NEW name, NEW type, NEW items,
         IsSequence(items), \A i \in DOMAIN items : ItemSize(items[i]) \in Nat,
         NEW flags, "CHAIN" \notin flags,
         NEW w, w = Wire(name, In(type, flags), <<>>, items)
  PROVE  /\ WireOK(w) /\ Desc(w) = FieldDesc(name, In(type, flags), OutFlag.NULL)
         /\ w.name = name /\ w.items = items
<1>1. /\ w.name = name /\ w.in = In(type, flags) /\ w.out = <<>> /\ w.items = items
      /\ w.in.k = "in" /\ ~Chains(w)
  BY WireIs, InIs DEF Chains
<1>2. WireOK(w)
  BY <1>1, Zenon DEF WireOK
<1> QED
  BY <1>1, <1>2 DEF Desc

-----------------------------------------------------------------------------
(* FlattenSeq, which ends a work of several pieces.                        *)

\* F is the recursive function inside FlattenSeq.
Flattens(F, s) ==
  F = [i \in 1..Len(s) |-> IF i = 1 THEN s[i] ELSE F[i - 1] \o s[i]]

\* The recursive function inside FlattenSeq exists: the fold is one.
LEMMA FlattensExists ==
  ASSUME NEW E, NEW s \in Seq(Seq(E))
  PROVE  \E F : Flattens(F, s)
<1>1. PICK n \in Nat : n = Len(s) /\ DOMAIN s = 1..n
  OBVIOUS
<1>2. PICK g : Joining!Partials(g, <<>>, s, n)
  BY <1>1, Joining!FoldSteps
<1> DEFINE h == [k \in 1..n |-> g[k]]
<1>3. ASSUME NEW k \in 1..n PROVE h[k] = IF k = 1 THEN s[k] ELSE h[k - 1] \o s[k]
  <2>1. k - 1 \in 0..n - 1 /\ (k - 1) + 1 = k /\ g[k] = g[k - 1] \o s[k]
    <3>1. k - 1 \in 0..n - 1 /\ (k - 1) + 1 = k
      OBVIOUS
    <3> QED
      BY <1>2, <3>1 DEF Joining!Partials, Join
  <2>2. CASE k = 1
    <3>1. g[0] = <<>> /\ s[1] \in Seq(E) /\ k - 1 = 0
      BY <1>1, <1>2, <2>2 DEF Joining!Partials
    <3>2. <<>> \o s[1] = s[1]
      BY <3>1
    <3> QED
      BY <2>1, <2>2, <3>1, <3>2
  <2>3. CASE k # 1
    <3>1. k - 1 \in 1..n
      BY <2>3
    <3>2. h[k] = g[k] /\ h[k - 1] = g[k - 1]
      BY <3>1
    <3> QED
      BY <2>1, <2>3, <3>2, Zenon
  <2> QED
    BY <2>2, <2>3
<1>4. Flattens(h, s)
  BY <1>1, <1>3 DEF Flattens
<1> QED
  BY <1>4

\* Flattening is a fold, too.
LEMMA FlattenFolded ==
  ASSUME NEW E, NEW s \in Seq(Seq(E))
  PROVE  FlattenSeq(s) = Joining!Fold(<<>>, s)
<1>1. PICK n \in Nat : n = Len(s) /\ DOMAIN s = 1..n
  OBVIOUS
<1>2. CASE n = 0
  <2>1. s = <<>>
    BY <1>1, <1>2
  <2>2. FlattenSeq(s) = s
    BY <1>1, <1>2, Zenon DEF FlattenSeq
  <2> QED
    BY <2>1, <2>2, Joining!FoldEmpty
<1>3. CASE n # 0
  <2>1. PICK F : Flattens(F, s) /\ FlattenSeq(s) = F[n]
    <3>1. \E F : Flattens(F, s)
      BY FlattensExists
    <3>2. Flattens(CHOOSE F : Flattens(F, s), s)
      BY <3>1, Zenon
    <3>3. FlattenSeq(s) = (CHOOSE F : Flattens(F, s))[n]
      BY <1>1, <1>3, Zenon DEF Flattens, FlattenSeq
    <3> QED
      BY <3>2, <3>3
  <2> DEFINE g == [k \in 0..n |-> IF k = 0 THEN <<>> ELSE F[k]]
  <2>2. ASSUME NEW k \in 0..n - 1 PROVE g[k + 1] = g[k] \o s[k + 1]
    <3>1. k + 1 \in 1..n /\ k + 1 \in 0..n /\ k + 1 # 0 /\ (k + 1) - 1 = k /\ k \in 0..n
      OBVIOUS
    <3>2. F[k + 1] = IF k + 1 = 1 THEN s[k + 1] ELSE F[(k + 1) - 1] \o s[k + 1]
      BY <1>1, <2>1, <3>1, Zenon DEF Flattens
    <3>3. g[k + 1] = F[k + 1]
      BY <3>1
    <3>4. CASE k = 0
      <4>1. s[1] \in Seq(E) /\ g[0] = <<>>
        BY <1>1, <1>3
      <4>2. <<>> \o s[1] = s[1]
        BY <4>1
      <4> QED
        BY <3>2, <3>3, <3>4, <4>1, <4>2
    <3>5. CASE k # 0
      <4>1. g[k] = F[k]
        BY <3>1, <3>5
      <4>2. k + 1 # 1
        BY <3>5
      <4> QED
        BY <3>1, <3>2, <3>3, <4>1, <4>2, Zenon
    <3> QED
      BY <3>4, <3>5
  <2>3. Joining!Partials(g, <<>>, s, n)
    <3>1. DOMAIN g = 0..n /\ g[0] = <<>>
      OBVIOUS
    <3> HIDE DEF g
    <3> QED
      BY <2>2, <3>1, Zenon DEF Joining!Partials, Join
  <2>4. g[n] = F[n]
    BY <1>3
  <2>5. Joining!Fold(<<>>, s) = g[n]
    <3> HIDE DEF g
    <3> QED
      BY <1>1, <2>3, Joining!FoldIs
  <2> QED
    BY <2>1, <2>4, <2>5
<1> QED
  BY <1>2, <1>3

\* The first k pieces of a work are the work of the first k wires.
Carried(g, h, L, k) == Carries(g[k], h[k], SubSeq(L, 1, k))

LEMMA PrefixGrows ==
  ASSUME NEW L, IsSequence(L), NEW k \in Nat, k < Len(L)
  PROVE  SubSeq(L, 1, k + 1) = SubSeq(L, 1, k) \o <<L[k + 1]>>
<1>1. PICK S : L \in Seq(S)
  BY DEF IsSequence
<1> QED
  BY <1>1

LEMMA PrefixEnds ==
  ASSUME NEW L, IsSequence(L)
  PROVE  SubSeq(L, 1, 0) = <<>> /\ SubSeq(L, 1, Len(L)) = L
<1>1. PICK S : L \in Seq(S)
  BY DEF IsSequence
<1> QED
  BY <1>1

\* Sequences are sequences of sequences over all their elements together.
LEMMA Pieces ==
  ASSUME NEW n \in Nat, NEW P, P = [k \in 1..n |-> P[k]], \A k \in 1..n : IsSequence(P[k])
  PROVE  \E E : P \in Seq(Seq(E))
<1>1. PICK E : E = UNION {ToSet(P[k]) : k \in 1..n}
  OBVIOUS
<1>2. ASSUME NEW k \in 1..n PROVE P[k] \in Seq(E)
  <2>1. PICK T : T = ToSet(P[k]) /\ P[k] \in Seq(T)
    BY DEF IsSequence
  <2>2. T \subseteq E
    BY <1>1, <2>1
  <2> QED
    BY <2>1, <2>2
<1>3. P \in Seq(Seq(E))
  BY <1>2
<1> QED
  BY <1>3

\* A work put together with FlattenSeq.
LEMMA ConcatCarries ==
  ASSUME NEW L, IsSequence(L), \A k \in DOMAIN L : WireOK(L[k]),
         NEW P, P = [k \in DOMAIN L |-> Tokens(L[k])], NEW Q, Q = [k \in DOMAIN L |-> L[k].items]
  PROVE  Carries(FlattenSeq(P), FlattenSeq(Q), L)
<1>1. PICK n \in Nat : n = Len(L) /\ DOMAIN L = 1..n
  BY SequenceParts
<1>2. /\ P = [k \in 1..n |-> P[k]] /\ \A k \in 1..n : P[k] = Tokens(L[k]) /\ IsSequence(P[k])
  BY <1>1, TokensAre
<1>3. /\ Q = [k \in 1..n |-> Q[k]] /\ \A k \in 1..n : Q[k] = L[k].items /\ IsSequence(Q[k])
  BY <1>1 DEF WireOK
<1>4. DOMAIN P = 1..n /\ DOMAIN Q = 1..n
  BY <1>2, <1>3
<1>5. PICK E, D : P \in Seq(Seq(E)) /\ Q \in Seq(Seq(D))
  BY <1>2, <1>3, Pieces
<1>6. PICK g : Joining!Partials(g, <<>>, P, n) /\ Joining!Fold(<<>>, P) = g[n]
  BY <1>4, Joining!FoldSteps
<1>7. PICK h : Joining!Partials(h, <<>>, Q, n) /\ Joining!Fold(<<>>, Q) = h[n]
  BY <1>4, Joining!FoldSteps
<1>8. FlattenSeq(P) = g[n] /\ FlattenSeq(Q) = h[n]
  BY <1>5, <1>6, <1>7, FlattenFolded
<1> DEFINE S == {k \in 0..n : Carried(g, h, L, k)}
<1>9. 0 \in S
  <2>1. g[0] = <<>> /\ h[0] = <<>>
    BY <1>6, <1>7, Zenon DEF Joining!Partials
  <2>2. Carried(g, h, L, 0)
    BY <2>1, CarriesNothing, PrefixEnds DEF Carried
  <2> QED
    BY <2>2
<1>10. ASSUME NEW k \in 0..n - 1, k \in S PROVE k + 1 \in S
  <2>1. k \in Nat /\ k < Len(L) /\ k + 1 \in 1..n /\ k + 1 \in 0..n
    BY <1>1
  <2>2. PICK w : w = L[k + 1] /\ WireOK(w)
    BY <1>1, <2>1
  <2>3. g[k + 1] = g[k] \o Tokens(w)
    BY <1>2, <1>6, <2>1, <2>2, Zenon DEF Joining!Partials, Join
  <2>4. h[k + 1] = h[k] \o w.items
    BY <1>3, <1>7, <2>1, <2>2, Zenon DEF Joining!Partials, Join
  <2>5. Carries(g[k], h[k], SubSeq(L, 1, k))
    BY <1>10 DEF Carried
  <2>6. Carries(g[k] \o Tokens(w), h[k] \o w.items, SubSeq(L, 1, k) \o <<w>>)
    BY <2>2, <2>5, CarriesOne, CarriesJoin
  <2>7. SubSeq(L, 1, k + 1) = SubSeq(L, 1, k) \o <<w>>
    BY <2>1, <2>2, PrefixGrows
  <2>8. Carried(g, h, L, k + 1)
    BY <2>3, <2>4, <2>6, <2>7, Zenon DEF Carried
  <2> QED
    BY <2>1, <2>8
<1>11. 0..n \subseteq S
  <2> HIDE DEF S
  <2> QED
    BY <1>9, <1>10, Sizes!UpTo
<1>12. Carried(g, h, L, n)
  BY <1>11
<1> QED
  BY <1>1, <1>8, <1>12, PrefixEnds DEF Carried

-----------------------------------------------------------------------------
(* Decoding the metadata of wires.                                         *)

\* A wire that lies after the first b tokens is one field.
LEMMA FieldOfWire ==
  ASSUME NEW meta, NEW b \in Nat, NEW w, WireOK(w), Len(meta) \in Nat,
         b + Len(Tokens(w)) <= Len(meta),
         \A j \in 1..Len(Tokens(w)) : meta[b + j] = Tokens(w)[j]
  PROVE  /\ WellFormed(meta, b + 1) /\ FieldAt(meta, b + 1) = Desc(w)
         /\ After(meta, b + 1) = b + Len(Tokens(w)) + 1
<1>1. PICK n \in {2, 3} : n = Len(Tokens(w)) /\ n = (IF Chains(w) THEN 3 ELSE 2)
  BY TokensAre
<1>2. /\ meta[b + 1] = Name(w.name) /\ meta[b + 2] = w.in
      /\ Chains(w) => n = 3 /\ meta[b + 3] = w.out[1] /\ w.out[1].k = "out"
      /\ ~Chains(w) => n = 2
  <2>1. 1 \in 1..n /\ 2 \in 1..n /\ (Chains(w) => 3 \in 1..n)
    BY <1>1
  <2> QED
    BY <1>1, <2>1, TokensAre
<1>3. b + 1 + 1 = b + 2 /\ b + 1 + 2 = b + 3
  OBVIOUS
<1>4. meta[b + 1].k = "name" /\ meta[b + 1].v = w.name /\ w.in.k = "in"
  BY <1>2 DEF Name, WireOK
<1>5. ~Glued(meta, b + 1) /\ NameAt(meta, b + 1) = b + 1
  BY <1>4 DEF Glued, NameAt
<1>6. Chained(meta, b + 1) <=> Chains(w)
  BY <1>2, <1>3, <1>5, Zenon DEF Chained, Chains
<1>7. WellFormed(meta, b + 1)
  <2>1. b + 2 <= Len(meta) /\ (Chains(w) => b + 3 <= Len(meta))
    BY <1>1, <1>2
  <2> QED
    BY <1>2, <1>3, <1>4, <1>5, <1>6, <2>1, Zenon DEF WellFormed
<1>8. FieldAt(meta, b + 1) = Desc(w)
  BY <1>2, <1>3, <1>4, <1>5, <1>6, Zenon DEF FieldAt, Desc
<1>9. After(meta, b + 1) = b + n + 1
  BY <1>2, <1>5, <1>6 DEF After
<1> QED
  BY <1>1, <1>7, <1>8, <1>9, Zenon

\* One more in front.
LEMMA InFront ==
  ASSUME NEW k \in Nat, NEW g, DOMAIN g = 1..k, g = [i \in 1..k |-> g[i]], NEW a,
         NEW h, h = <<a>> \o g
  PROVE  h = [i \in 1..k + 1 |-> IF i = 1 THEN a ELSE g[i - 1]]
<1>1. PICK S : S = {g[i] : i \in 1..k} \cup {a}
  OBVIOUS
<1>2. g \in Seq(S) /\ Len(g) = k
  <2>1. \A i \in 1..k : g[i] \in S
    BY <1>1
  <2> QED
    BY <2>1
<1>3. <<a>> \in Seq(S) /\ Len(<<a>>) = 1 /\ <<a>>[1] = a
  BY <1>1
<1>4. h \in Seq(S) /\ Len(h) = k + 1
  BY <1>2, <1>3
<1>5. h[1] = a /\ \A i \in 1..k + 1 : i # 1 => h[i] = g[i - 1]
  BY <1>2, <1>3
<1>6. h = [i \in 1..k + 1 |-> h[i]]
  BY <1>4
<1> QED
  BY <1>5, <1>6

\* The fields of the metadata are those of the wires, one by one.
LEMMA MetadataDecodes ==
  ASSUME NEW meta, NEW data, NEW L, Carries(meta, data, L)
  PROVE  DecodeMetadata(meta) = [k \in 1..Len(L) |-> Desc(L[k])]
<1>1. PICK n \in Nat : n = Len(L) /\ DOMAIN L = 1..n
  BY SequenceParts DEF Carries
<1>2. Len(meta) \in Nat
  BY SequenceParts DEF Carries
<1>3. PICK p : Laid(meta, [k \in DOMAIN L |-> Tokens(L[k])], n, p)
  BY <1>1, Zenon DEF Carries
<1>4. /\ p \in [0..n -> 0..Len(meta)] /\ p[0] = 0 /\ p[n] = Len(meta)
      /\ \A k \in 1..n : /\ p[k] = p[k - 1] + Len(Tokens(L[k]))
                         /\ \A j \in 1..Len(Tokens(L[k])) : meta[p[k - 1] + j] = Tokens(L[k])[j]
  <2>1. \A k \in 1..n : [i \in DOMAIN L |-> Tokens(L[i])][k] = Tokens(L[k])
    BY <1>1, Zenon
  <2> QED
    BY <1>3, <2>1, Zenon DEF Laid
<1>5. PICK f : FieldsFrom(f, meta, 1) /\ DecodeMetadata(meta) = f[1]
  BY <1>2, DecodeMetadataIs
<1>6. \A i \in 1..Len(meta) + 1 :
        f[i] = IF i > Len(meta) THEN <<>>
               ELSE IF ~WellFormed(meta, i) THEN <<Garbled>>
               ELSE <<FieldAt(meta, i)>> \o f[After(meta, i)]
  BY <1>5, Zenon DEF FieldsFrom
<1> DEFINE Rest(m) == [i \in 1..n - m |-> Desc(L[m + i])]
           S == {k \in 0..n : f[p[n - k] + 1] = Rest(n - k)}
<1>7. 0 \in S
  <2>1. n - 0 = n /\ Len(meta) + 1 \in 1..Len(meta) + 1 /\ Len(meta) + 1 > Len(meta)
    BY <1>2
  <2>2. f[p[n] + 1] = <<>>
    BY <1>4, <1>6, <2>1, Zenon
  <2>3. Rest(n) = <<>>
    OBVIOUS
  <2> HIDE DEF Rest
  <2> QED
    BY <2>1, <2>2, <2>3
<1>8. ASSUME NEW k \in 0..n - 1, k \in S PROVE k + 1 \in S
  <2>1. PICK m \in 1..n : m = n - k /\ n - (k + 1) = m - 1 /\ m - 1 \in 0..n
    OBVIOUS
  <2>2. f[p[m] + 1] = Rest(m)
    BY <1>8, <2>1
  <2>3. PICK w : w = L[m] /\ WireOK(w)
    BY <1>1, Zenon DEF Carries
  <2>4. PICK b \in Nat : b = p[m - 1] /\ b <= Len(meta) /\ p[m] \in Nat /\ p[m] <= Len(meta)
    BY <1>4, <2>1
  <2>5. p[m] = b + Len(Tokens(w)) /\ \A j \in 1..Len(Tokens(w)) : meta[b + j] = Tokens(w)[j]
    BY <1>4, <2>3, <2>4, Zenon
  <2>6. /\ WellFormed(meta, b + 1) /\ FieldAt(meta, b + 1) = Desc(w)
        /\ After(meta, b + 1) = p[m] + 1
    BY <1>2, <2>3, <2>4, <2>5, FieldOfWire
  <2>7. b + 1 \in 1..Len(meta) + 1 /\ ~(b + 1 > Len(meta))
    BY <1>2, <2>4, <2>6, SMTT(30) DEF WellFormed, NameAt
  <2>8. f[b + 1] = <<Desc(w)>> \o Rest(m)
    BY <1>6, <2>2, <2>6, <2>7, Zenon
  <2>9. f[b + 1] = [i \in 1..(n - m) + 1 |-> IF i = 1 THEN Desc(w) ELSE Rest(m)[i - 1]]
    <3>1. n - m \in Nat /\ DOMAIN Rest(m) = 1..n - m /\ Rest(m) = [i \in 1..n - m |-> Rest(m)[i]]
      BY <2>1
    <3> HIDE DEF Rest
    <3> QED
      BY <2>8, <3>1, InFront
  <2>10. Rest(m - 1) = [i \in 1..(n - m) + 1 |-> IF i = 1 THEN Desc(w) ELSE Rest(m)[i - 1]]
    <3>1. n - (m - 1) = (n - m) + 1
      BY <2>1
    <3>2. ASSUME NEW i \in 1..(n - m) + 1
          PROVE  Desc(L[(m - 1) + i]) = IF i = 1 THEN Desc(w) ELSE Rest(m)[i - 1]
      <4>1. CASE i = 1
        <5>1. (m - 1) + i = m
          BY <4>1
        <5> QED
          BY <2>3, <4>1, <5>1, Zenon
      <4>2. CASE i # 1
        <5>1. i - 1 \in 1..n - m /\ m + (i - 1) = (m - 1) + i
          BY <4>2
        <5> QED
          BY <4>2, <5>1, Zenon
      <4> QED
        BY <4>1, <4>2
    <3> QED
      BY <3>1, <3>2, Zenon
  <2> HIDE DEF Rest
  <2> QED
    BY <2>1, <2>4, <2>9, <2>10
<1>9. n \in S
  <2>1. 0..n \subseteq S
    <3> HIDE DEF S
    <3> QED
      BY <1>7, <1>8, Sizes!UpTo
  <2> QED
    BY <2>1
<1>10. f[1] = Rest(0)
  <2>1. n - n = 0 /\ 0 + 1 = 1
    OBVIOUS
  <2> HIDE DEF Rest
  <2> QED
    BY <1>4, <1>9, <2>1
<1>11. Rest(0) = [i \in 1..n |-> Desc(L[i])]
  <2>1. n - 0 = n /\ \A i \in 1..n : 0 + i = i
    OBVIOUS
  <2> QED
    BY <2>1, Zenon
<1> QED
  BY <1>1, <1>5, <1>10, <1>11, Zenon

-----------------------------------------------------------------------------
(* Decoding the payload of wires.                                          *)

\* part lies in s from position p.
LiesAt(s, p, part) ==
  /\ p \in Nat /\ p # 0 /\ Len(s) \in Nat /\ p + Len(part) <= Len(s) + 1
  /\ \A j \in 1..Len(part) : s[p + j - 1] = part[j]

\* Wherever the items of w lie, they are read as v, all of them.
Reads(w, v) ==
  \A s, p : LiesAt(s, p, w.items) =>
    ValueAt(Desc(w), s, p) = [v |-> v, next |-> p + Len(w.items)]

Seen(w, v) == [name |-> w.name, value |-> v, out |-> Desc(w).out]

LEMMA DescIsSound == ASSUME NEW w PROVE Desc(w) # Garbled /\ Desc(w).name = w.name
BY DEF Desc, FieldDesc, Garbled

\* The first m wires of L are read as v.
AllRead(L, v, m) == \A k \in 1..m : Reads(L[k], v[k])

\* The payload of n wires and where Decode looks for them.
Lookup(data, L, n, p, fields, at) ==
  /\ Len(data) \in Nat /\ \A k \in 1..n : WireOK(L[k])
  /\ Laid(data, [k \in 1..n |-> L[k].items], n, p)
  /\ \A k \in 1..n : fields[k] = Desc(L[k])
  /\ Positions(at, fields, data, n)

\* The first m wires are found where they lie, and read.
Found(p, at, fields, data, v, m) ==
  /\ \A k \in 0..m : at[k + 1] = p[k] + 1
  /\ \A k \in 1..m : Reading(fields, data, k, at[k]).v = v[k]

\* As long as every wire reads, the next one is read where it lies.
LEMMA ReadInStep ==
  ASSUME NEW data, NEW L, NEW n \in Nat, NEW p, NEW fields, NEW at, Lookup(data, L, n, p, fields, at),
         NEW m \in 0..n, NEW v, AllRead(L, v, m)
  PROVE  Found(p, at, fields, data, v, m)
<1> USE DEF Lookup, AllRead
<1>1. /\ p \in [0..n -> 0..Len(data)] /\ p[0] = 0 /\ p[n] = Len(data)
      /\ \A k \in 1..n : /\ p[k] = p[k - 1] + Len(L[k].items)
                         /\ \A j \in 1..Len(L[k].items) : data[p[k - 1] + j] = L[k].items[j]
  <2>1. \A k \in 1..n : [i \in 1..n |-> L[i].items][k] = L[k].items
    BY Zenon
  <2> QED
    BY <2>1, Zenon DEF Laid
<1>2. \A i \in 1..n + 1 : at[i] = IF i = 1 THEN 1 ELSE Reading(fields, data, i - 1, at[i - 1]).next
  BY Zenon DEF Positions
<1> DEFINE Step(k) == Reading(fields, data, k, p[k - 1] + 1)
<1>3. ASSUME NEW k \in 1..m
      PROVE  Reading(fields, data, k, p[k - 1] + 1) = [v |-> v[k], next |-> p[k] + 1]
  <2>1. k \in 1..n /\ k - 1 \in 0..n /\ k \in 0..n
    OBVIOUS
  <2>2. PICK a, b, c, w : a = p[k - 1] /\ b = p[k] /\ w = L[k] /\ c = Len(w.items)
    OBVIOUS
  <2>3. a \in Nat /\ b \in Nat /\ b <= Len(data) /\ c \in Nat
    <3>1. WireOK(w)
      BY <2>1, <2>2, Zenon
    <3>2. c \in Nat
      BY <2>2, <3>1, SequenceParts, Zenon DEF WireOK
    <3>3. p[k - 1] \in 0..Len(data) /\ p[k] \in 0..Len(data)
      BY <1>1, <2>1, Zenon
    <3> QED
      BY <2>2, <3>2, <3>3
  <2>4. b = a + c /\ \A j \in 1..c : data[a + j] = w.items[j]
    BY <1>1, <2>1, <2>2, Zenon
  <2>5. a + 1 \in Nat /\ a + 1 # 0 /\ (a + 1) + c <= Len(data) + 1 /\ (a + 1) + c = b + 1
    BY <2>3, <2>4
  <2>6. \A j \in 1..c : (a + 1) + j - 1 = a + j
    BY <2>3
  <2>7. LiesAt(data, a + 1, w.items)
    BY <2>2, <2>4, <2>5, <2>6, Zenon DEF LiesAt
  <2>8. ValueAt(Desc(w), data, a + 1) = [v |-> v[k], next |-> b + 1]
    <3>1. Reads(w, v[k])
      BY <2>2, Zenon
    <3>2. ValueAt(Desc(w), data, a + 1) = [v |-> v[k], next |-> (a + 1) + Len(w.items)]
      BY <2>7, <3>1, Zenon DEF Reads
    <3> QED
      BY <2>2, <2>5, <3>2, Zenon
  <2>9. fields[k] = Desc(w) /\ fields[k] # Garbled
    BY <2>1, <2>2, DescIsSound, Zenon
  <2> QED
    BY <2>2, <2>8, <2>9, Zenon DEF Reading
<1>4. \A k \in 0..m : at[k + 1] = p[k] + 1
  <2> DEFINE S == {k \in 0..m : at[k + 1] = p[k] + 1}
  <2>1. 0 \in S
    <3>1. 0 + 1 = 1 /\ 1 \in 1..n + 1
      OBVIOUS
    <3>2. at[1] = 1
      BY <1>2, <3>1, Zenon
    <3> QED
      BY <1>1, <3>1, <3>2
  <2>2. ASSUME NEW k \in 0..m - 1, k \in S PROVE k + 1 \in S
    <3>1. PICK i \in 1..m : i = k + 1 /\ i - 1 = k
      OBVIOUS
    <3>2. i + 1 \in 1..n + 1 /\ i + 1 # 1 /\ (i + 1) - 1 = i /\ i \in 0..m
      BY <3>1
    <3>3. at[i + 1] = Reading(fields, data, i, at[i]).next
      BY <1>2, <3>2, Zenon
    <3>4. at[i] = p[i - 1] + 1
      BY <2>2, <3>1
    <3>5. at[i + 1] = p[i] + 1
      <4>1. Reading(fields, data, i, at[i]) = [v |-> v[i], next |-> p[i] + 1]
        BY <1>3, <3>4, Zenon
      <4>2. PICK next : next = p[i] + 1
        OBVIOUS
      <4>3. [v |-> v[i], next |-> next].next = next
        OBVIOUS
      <4> QED
        BY <3>3, <4>1, <4>2, <4>3, Zenon
    <3> QED
      BY <3>1, <3>2, <3>5
  <2>3. 0..m \subseteq S
    <3>1. m \in Nat
      OBVIOUS
    <3> HIDE DEF S
    <3> QED
      BY <2>1, <2>2, <3>1, Sizes!UpTo
  <2> QED
    BY <2>3
<1>5. ASSUME NEW k \in 1..m PROVE Reading(fields, data, k, at[k]).v = v[k]
  <2>1. k - 1 \in 0..m /\ (k - 1) + 1 = k
    OBVIOUS
  <2>2. at[k] = p[k - 1] + 1
    BY <1>4, <2>1, Zenon
  <2>3. Reading(fields, data, k, at[k]) = [v |-> v[k], next |-> p[k] + 1]
    BY <1>3, <2>2, Zenon
  <2> QED
    BY <2>3
<1> QED
  BY <1>4, <1>5, Zenon DEF Found

\* What Decode shows of wires: those that read, up to the first that does
\* not; and if all do, nothing else.
LEMMA WiresDecode ==
  ASSUME NEW meta, NEW data, NEW L, Carries(meta, data, L),
         NEW m \in 0..Len(L), NEW v, AllRead(L, v, m)
  PROVE  /\ IsSequence(Decode(meta, data)) /\ Len(L) <= Len(Decode(meta, data))
         /\ \A k \in 1..m : Decode(meta, data)[k] = Seen(L[k], v[k])
         /\ m = Len(L) => Decode(meta, data) = [k \in 1..m |-> Seen(L[k], v[k])]
<1>1. PICK n \in Nat : n = Len(L) /\ DOMAIN L = 1..n
  BY SequenceParts DEF Carries
<1>2. Len(data) \in Nat
  BY SequenceParts DEF Carries
<1>3. PICK fields : fields = DecodeMetadata(meta) /\ fields = [k \in 1..n |-> Desc(L[k])]
  BY <1>1, MetadataDecodes
<1>4. Len(fields) = n /\ \A k \in 1..n : fields[k] = Desc(L[k])
  BY <1>3
<1>5. PICK at : Positions(at, fields, data, n) /\ Decode(meta, data) = DecodedAt(fields, data, at)
  BY <1>3, <1>4, DecodeIs
<1>6. PICK p : Laid(data, [k \in 1..n |-> L[k].items], n, p)
  BY <1>1, Zenon DEF Carries
<1>7. \A k \in 1..n : WireOK(L[k])
  BY <1>1, Zenon DEF Carries
<1>8. /\ \A k \in 0..m : at[k + 1] = p[k] + 1
      /\ \A k \in 1..m : Reading(fields, data, k, at[k]).v = v[k]
  <2>1. m \in 0..n
    BY <1>1
  <2>2. Lookup(data, L, n, p, fields, at)
    BY <1>2, <1>4, <1>5, <1>6, <1>7, Zenon DEF Lookup
  <2>3. Found(p, at, fields, data, v, m)
    BY <1>1, <2>1, <2>2, ReadInStep
  <2> QED
    BY <2>3, Zenon DEF Found
<1> DEFINE Show(k) == [name |-> fields[k].name, value |-> Reading(fields, data, k, at[k]).v,
                       out |-> fields[k].out]
           g == [k \in 1..n |-> Show(k)]
           left == IF at[n + 1] > Len(data) THEN <<>> ELSE <<Garbled>>
<1>9. Decode(meta, data) = g \o left
  <2>1. \A k \in 1..n : fields[k] # Garbled
    BY <1>4, DescIsSound, Zenon
  <2>2. [k \in 1..n |-> IF fields[k] = Garbled THEN Garbled ELSE Show(k)] = g
    BY <2>1, Zenon
  <2> QED
    BY <1>4, <1>5, <2>2, Zenon DEF DecodedAt
<1>10. \A k \in 1..m : Show(k) = Seen(L[k], v[k])
  <2> SUFFICES ASSUME NEW k \in 1..m PROVE Show(k) = Seen(L[k], v[k])
    OBVIOUS
  <2>1. fields[k] = Desc(L[k]) /\ Desc(L[k]).name = L[k].name
    <3>1. k \in 1..n
      BY <1>1
    <3> QED
      BY <1>4, <3>1, DescIsSound, Zenon
  <2> QED
    BY <1>8, <2>1, Zenon DEF Seen
<1>11. IsSequence(g) /\ Len(g) = n /\ IsSequence(left) /\ \A k \in 1..n : g[k] = Show(k)
  <2> HIDE DEF Show
  <2>1. PICK S : S = {Show(k) : k \in 1..n} \cup {Garbled}
    OBVIOUS
  <2>2. g \in Seq(S) /\ Len(g) = n
    <3>1. \A k \in 1..n : Show(k) \in S
      BY <2>1
    <3> QED
      BY <3>1
  <2>3. left \in Seq(S)
    <3>1. <<>> \in Seq(S) /\ <<Garbled>> \in Seq(S)
      BY <2>1
    <3> QED
      BY <3>1, Zenon
  <2>4. \A k \in 1..n : g[k] = Show(k)
    BY Zenon
  <2> QED
    BY <2>2, <2>3, <2>4, SequenceIs
<1> HIDE DEF g, left, Show
<1>12. /\ IsSequence(g \o left) /\ Len(g \o left) = n + Len(left) /\ Len(left) \in Nat
       /\ \A k \in 1..n : (g \o left)[k] = Show(k)
  <2>1. Len(left) \in Nat
    BY <1>11, SequenceParts
  <2>2. /\ IsSequence(g \o left) /\ Len(g \o left) = Len(g) + Len(left)
        /\ \A k \in 1..Len(g) : (g \o left)[k] = g[k]
    BY <1>11, SequencesJoin, Zenon
  <2> QED
    BY <1>11, <2>1, <2>2
<1>13. ASSUME m = n PROVE g \o left = [k \in 1..m |-> Seen(L[k], v[k])]
  <2>1. at[n + 1] = Len(data) + 1
    <3>1. n \in 0..m
      BY <1>13
    <3> QED
      BY <1>6, <1>8, <3>1, Zenon DEF Laid
  <2>2. left = <<>>
    BY <1>2, <2>1 DEF left
  <2>3. PICK S : g \in Seq(S)
    BY <1>11 DEF IsSequence
  <2>4. g \o left = g
    BY <2>2, <2>3
  <2>5. g = [k \in 1..m |-> Show(k)]
    BY <1>13, Zenon DEF g
  <2> QED
    BY <1>10, <2>4, <2>5, Zenon
<1>14. n <= Len(g \o left)
  BY <1>12
<1>15. \A k \in 1..m : (g \o left)[k] = Seen(L[k], v[k])
  <2>1. \A k \in 1..m : k \in 1..n
    BY <1>1
  <2> QED
    BY <1>10, <1>12, <2>1, Zenon
<1> QED
  BY <1>1, <1>9, <1>12, <1>13, <1>14, <1>15, Zenon

\* The first n of E are shown; if they are all there is, nothing else is.
ShownAs(shown, E, n) ==
  IF n = Len(E) THEN shown = E ELSE SubSeq(shown, 1, n) = SubSeq(E, 1, n)

\* What the first n wires are seen as is what is shown of them.
LEMMA WiresShown ==
  ASSUME NEW meta, NEW data, NEW L, Carries(meta, data, L), NEW E, IsSequence(E), Len(E) = Len(L),
         NEW n \in 0..Len(E),
         \A k \in 1..n : Reads(L[k], E[k].value) /\ Seen(L[k], E[k].value) = E[k]
  PROVE  ShownAs(Decode(meta, data), E, n)
<1> USE DEF ShownAs
<1>1. PICK l \in Nat : l = Len(E) /\ Len(L) = l
  BY SequenceParts
<1>2. PICK v : v = [k \in 1..l |-> E[k].value]
  OBVIOUS
<1>3. \A k \in 1..l : v[k] = E[k].value
  BY <1>2
<1>4. n \in 0..Len(L) /\ n \in Nat /\ \A k \in 1..n : k \in 1..l
  BY <1>1
<1>5. AllRead(L, v, n)
  BY <1>1, <1>3, <1>4 DEF AllRead
<1>6. PICK shown : shown = Decode(meta, data)
  OBVIOUS
<1>7. /\ IsSequence(shown) /\ Len(L) <= Len(shown)
      /\ \A k \in 1..n : shown[k] = Seen(L[k], v[k])
      /\ n = Len(L) => shown = [k \in 1..n |-> Seen(L[k], v[k])]
  BY <1>4, <1>5, <1>6, WiresDecode
<1>8. \A k \in 1..n : shown[k] = E[k]
  BY <1>3, <1>4, <1>7
<1>10. CASE n = Len(E)
  <2>1. PICK h : h = [k \in 1..n |-> Seen(L[k], v[k])]
    OBVIOUS
  <2>2. shown = h
    BY <1>1, <1>7, <1>10, <2>1
  <2>3. DOMAIN h = 1..n /\ h = [k \in 1..n |-> h[k]]
    BY <2>1
  <2>4. Len(h) = n /\ IsSequence(h)
    BY <1>4, <2>3, FunctionIsSequence
  <2>5. shown = E
    BY <1>8, <1>10, <2>2, <2>4, SameSequence
  <2> QED
    BY <1>6, <1>10, <2>5
<1>11. CASE n # Len(E)
  <2>1. Len(shown) \in Nat
    BY <1>7, SequenceParts
  <2>2. n <= Len(shown) /\ n <= Len(E)
    BY <1>1, <1>4, <1>7, <2>1
  <2>3. SubSeq(shown, 1, n) = SubSeq(E, 1, n)
    BY <1>4, <1>7, <1>8, <2>2, SamePrefix
  <2> QED
    BY <1>6, <1>11, <2>3
<1> QED
  BY <1>10, <1>11

-----------------------------------------------------------------------------
(* What the decoder reads of one field.                                    *)

\* What lies where a part lies.
LEMMA FirstAt ==
  ASSUME NEW s, NEW p, NEW a, LiesAt(s, p, <<a>>)
  PROVE  p <= Len(s) /\ s[p] = a
<1>1. Len(<<a>>) = 1 /\ <<a>>[1] = a /\ 1 \in 1..1
  OBVIOUS
<1>2. p \in Nat /\ Len(s) \in Nat /\ p + 1 <= Len(s) + 1 /\ s[p + 1 - 1] = a
  BY <1>1 DEF LiesAt
<1>3. p + 1 - 1 = p
  BY <1>2
<1> QED
  BY <1>2, <1>3

LEMMA FirstTwoAt ==
  ASSUME NEW s, NEW p, NEW a, NEW b, LiesAt(s, p, <<a, b>>)
  PROVE  p <= Len(s) /\ s[p] = a /\ p + 1 <= Len(s) /\ s[p + 1] = b
<1>1. Len(<<a, b>>) = 2 /\ <<a, b>>[1] = a /\ <<a, b>>[2] = b /\ 1 \in 1..2 /\ 2 \in 1..2
  OBVIOUS
<1>2. p \in Nat /\ Len(s) \in Nat /\ p + 2 <= Len(s) + 1 /\ s[p + 1 - 1] = a /\ s[p + 2 - 1] = b
  BY <1>1 DEF LiesAt
<1>3. p + 1 - 1 = p /\ p + 2 - 1 = p + 1
  BY <1>2
<1> QED
  BY <1>2, <1>3

\* A text or an array of length 0.
LEMMA EmptyReads ==
  ASSUME NEW name, NEW o, NEW type, NEW flags, "VCOUNT" \in flags \/ type \in Counted,
         NEW w, w.items = <<Count(0)>>, Desc(w) = FieldDesc(name, In(type, flags), o)
  PROVE  Reads(w, Nothing)
<1> SUFFICES ASSUME NEW s, NEW p, LiesAt(s, p, w.items)
             PROVE  ValueAt(Desc(w), s, p) = [v |-> Nothing, next |-> p + Len(w.items)]
  BY DEF Reads
<1>1. PICK d, a : d = Desc(w) /\ a = Count(0)
  OBVIOUS
<1>2. d.type = type /\ d.flags = flags
  BY <1>1 DEF FieldDesc, In
<1>3. a.k = "count" /\ a.n = 0
  BY <1>1 DEF Count
<1>4. p <= Len(s) /\ s[p] = a
  BY <1>1, FirstAt
<1>5. Len(w.items) = 1
  OBVIOUS
<1>6. ValueAt(d, s, p) = [v |-> Nothing, next |-> p + 1]
  BY <1>2, <1>3, <1>4 DEF ValueAt
<1> QED
  BY <1>1, <1>5, <1>6

\* A counted text.
LEMMA CountedReads ==
  ASSUME NEW name, NEW o, NEW v, NEW n, n # 0, NEW w, w.items = <<Count(n), Text(v, n)>>,
         NEW type \in Counted, NEW flags, "VCOUNT" \notin flags,
         Desc(w) = FieldDesc(name, In(type, flags), o)
  PROVE  Reads(w, v)
<1> SUFFICES ASSUME NEW s, NEW p, LiesAt(s, p, w.items)
             PROVE  ValueAt(Desc(w), s, p) = [v |-> v, next |-> p + Len(w.items)]
  BY DEF Reads
<1>1. PICK d, a, b : d = Desc(w) /\ a = Count(n) /\ b = Text(v, n)
  OBVIOUS
<1>2. d.type = type /\ d.flags = flags
  BY <1>1 DEF FieldDesc, In
<1>3. a.k = "count" /\ a.n = n /\ b.k = "text" /\ b.v = v /\ b.len = n
  BY <1>1 DEF Count, Text
<1>4. p <= Len(s) /\ s[p] = a /\ p + 1 <= Len(s) /\ s[p + 1] = b
  BY <1>1, FirstTwoAt
<1>5. Len(w.items) = 2
  OBVIOUS
<1>6. ValueAt(d, s, p) = [v |-> b.v, next |-> p + 2]
  BY <1>2, <1>3, <1>4 DEF ValueAt, Counted, Strings
<1> QED
  BY <1>1, <1>3, <1>5, <1>6

\* No type of fixed width is that of a text.
LEMMA WidthsOf ==
  ASSUME NEW type \in DOMAIN Width
  PROVE  type \notin Counted /\ type \notin Strings
BY DEF Width, Counted, Strings, Sizes1, Sizes2, Sizes4, Sizes8

\* An array of values of a width.
LEMMA ArrayReads ==
  ASSUME NEW name, NEW o, NEW v, NEW n, n # 0, NEW type \in DOMAIN Width,
         NEW w, w.items = <<Count(n), Items(v, Width[type], n)>>,
         NEW flags, "VCOUNT" \in flags, Desc(w) = FieldDesc(name, In(type, flags), o)
  PROVE  Reads(w, v)
<1> SUFFICES ASSUME NEW s, NEW p, LiesAt(s, p, w.items)
             PROVE  ValueAt(Desc(w), s, p) = [v |-> v, next |-> p + Len(w.items)]
  BY DEF Reads
<1>1. PICK d, a, b : d = Desc(w) /\ a = Count(n) /\ b = Items(v, Width[type], n)
  OBVIOUS
<1>2. d.type = type /\ d.flags = flags
  BY <1>1 DEF FieldDesc, In
<1>3. /\ a.k = "count" /\ a.n = n
      /\ b.k = "items" /\ b.v = v /\ b.len = n /\ b.width = Width[d.type]
  BY <1>1, <1>2 DEF Count, Items
<1>4. p <= Len(s) /\ s[p] = a /\ p + 1 <= Len(s) /\ s[p + 1] = b
  BY <1>1, FirstTwoAt
<1>5. Len(w.items) = 2
  OBVIOUS
<1>6. d.type \in DOMAIN Width /\ "VCOUNT" \in d.flags
  BY <1>2
<1>7. ValueAt(d, s, p) = [v |-> b.v, next |-> p + 2]
  BY <1>3, <1>4, <1>6 DEF ValueAt
<1> QED
  BY <1>1, <1>3, <1>5, <1>7

\* One value; a GUID is shown as the text of its bytes.
LEMMA NumReads ==
  ASSUME NEW name, NEW o, NEW v, NEW type \in DOMAIN Width, NEW w, w.items = <<Num(Width[type], v)>>,
         NEW flags, "VCOUNT" \notin flags, Desc(w) = FieldDesc(name, In(type, flags), o)
  PROVE  Reads(w, IF type = "GUID" THEN TextOf(v) ELSE v)
<1>0. PICK c : c = IF type = "GUID" THEN TextOf(v) ELSE v
  OBVIOUS
<1> SUFFICES ASSUME NEW s, NEW p, LiesAt(s, p, w.items)
             PROVE  ValueAt(Desc(w), s, p) = [v |-> c, next |-> p + Len(w.items)]
  BY <1>0 DEF Reads
<1>1. PICK d, a : d = Desc(w) /\ a = Num(Width[type], v)
  OBVIOUS
<1>2. d.type = type /\ d.flags = flags
  BY <1>1 DEF FieldDesc, In
<1>3. a.k = "num" /\ a.v = v /\ a.width = Width[d.type]
  BY <1>1, <1>2 DEF Num
<1>4. p <= Len(s) /\ s[p] = a
  BY <1>1, FirstAt
<1>5. Len(w.items) = 1
  OBVIOUS
<1>6. d.type \in DOMAIN Width /\ "VCOUNT" \notin d.flags /\ d.type \notin Counted /\ d.type \notin Strings
  BY <1>2, WidthsOf
<1>7. ValueAt(d, s, p) = [v |-> IF d.type = "GUID" THEN TextOf(a.v) ELSE a.v, next |-> p + 1]
  BY <1>3, <1>4, <1>6 DEF ValueAt
<1> QED
  BY <1>0, <1>1, <1>2, <1>3, <1>5, <1>7

-----------------------------------------------------------------------------
(* Sizes.                                                                  *)

\* A payload is at least as long as each of its items.
LEMMA SizesAdd ==
  ASSUME NEW payload, IsSequence(payload), \A i \in DOMAIN payload : ItemSize(payload[i]) \in Nat
  PROVE  /\ PayloadSize(payload) \in Nat
         /\ \A i \in DOMAIN payload : ItemSize(payload[i]) <= PayloadSize(payload)
<1>1. PICK n \in Nat : n = Len(payload) /\ DOMAIN payload = 1..n
  BY SequenceParts
<1>2. PICK g : Sizes!Partials(g, 0, payload, n) /\ PayloadSize(payload) = g[n]
  <2>1. \E g : Sizes!Partials(g, 0, payload, n) /\ Sizes!Fold(0, payload) = g[n]
    BY <1>1, Sizes!FoldSteps, Zenon
  <2>2. PayloadSize(payload) = Sizes!Fold(0, payload)
    BY Zenon DEF PayloadSize, FoldLeft, MapThenFoldSet, Max,
                 Sizes!Fold, Sizes!FoldLeft, Sizes!MapThenFoldSet, Sizes!Max
  <2> QED
    BY <2>1, <2>2, Zenon
<1>3. g[0] = 0 /\ \A k \in 0..n - 1 : g[k + 1] = g[k] + ItemSize(payload[k + 1])
  BY <1>2 DEF Sizes!Partials, AddItem
<1> DEFINE S == {k \in 0..n : g[k] \in Nat /\ \A i \in 1..k : ItemSize(payload[i]) <= g[k]}
<1>4. 0 \in S
  BY <1>3
<1>5. ASSUME NEW k \in 0..n - 1, k \in S PROVE k + 1 \in S
  <2>1. PICK z \in Nat : z = ItemSize(payload[k + 1])
    <3>1. k + 1 \in 1..n
      OBVIOUS
    <3> QED
      BY <1>1, <3>1
  <2>2. g[k] \in Nat /\ \A i \in 1..k : ItemSize(payload[i]) <= g[k]
    BY <1>5
  <2>3. g[k + 1] = g[k] + z
    BY <1>3, <2>1
  <2>4. ASSUME NEW i \in 1..k + 1 PROVE ItemSize(payload[i]) <= g[k + 1]
    <3>1. CASE i = k + 1
      BY <2>1, <2>2, <2>3, <3>1
    <3>2. CASE i # k + 1
      <4>1. i \in 1..k /\ i \in 1..n
        BY <3>2
      <4>2. PICK y \in Nat : y = ItemSize(payload[i]) /\ y <= g[k]
        BY <1>1, <2>2, <4>1
      <4> QED
        BY <2>2, <2>3, <4>2
    <3> QED
      BY <3>1, <3>2
  <2> QED
    BY <2>2, <2>3, <2>4
<1>6. n \in S
  <2>1. 0..n \subseteq S
    <3> HIDE DEF S
    <3> QED
      BY <1>4, <1>5, Sizes!UpTo
  <2> QED
    BY <2>1
<1> QED
  BY <1>1, <1>2, <1>6

\* So it is as long as any item of its wires.
LEMMA WireFits ==
  ASSUME NEW meta, NEW data, NEW L, Carries(meta, data, L),
         NEW k \in DOMAIN L, NEW j \in DOMAIN L[k].items
  PROVE  /\ PayloadSize(data) \in Nat /\ ItemSize(L[k].items[j]) \in Nat
         /\ ItemSize(L[k].items[j]) <= PayloadSize(data)
<1>1. PICK n \in Nat : n = Len(L) /\ DOMAIN L = 1..n
  BY SequenceParts DEF Carries
<1>2. PICK p : Laid(data, [i \in DOMAIN L |-> L[i].items], n, p)
  BY <1>1, Zenon DEF Carries
<1>3. PICK c \in Nat : c = Len(L[k].items) /\ DOMAIN L[k].items = 1..c
  <2>1. WireOK(L[k])
    BY Zenon DEF Carries
  <2> QED
    BY <2>1, SequenceParts DEF WireOK
<1>4. p \in [0..n -> 0..Len(data)] /\ p[k] = p[k - 1] + c /\ data[p[k - 1] + j] = L[k].items[j]
  <2> DEFINE Q == [i \in DOMAIN L |-> L[i].items]
  <2>0. Q[k] = L[k].items
    BY Zenon
  <2> HIDE DEF Q
  <2>1. PICK P : P = Q /\ P[k] = L[k].items
    BY <2>0
  <2>2. Laid(data, P, n, p)
    BY <1>2, <2>1, Zenon DEF Q
  <2>3. k \in 1..n /\ j \in 1..c /\ Len(P[k]) = c
    BY <1>1, <1>3, <2>1, Zenon
  <2>4. p \in [0..n -> 0..Len(data)] /\ p[k] = p[k - 1] + Len(P[k])
    BY <2>2, <2>3, Zenon DEF Laid
  <2>5. \A i \in 1..Len(P[k]) : data[p[k - 1] + i] = P[k][i]
    BY <2>2, <2>3, Zenon DEF Laid
  <2> QED
    BY <2>1, <2>3, <2>4, <2>5
<1>5. p[k - 1] + j \in 1..Len(data)
  <2>1. p[k - 1] \in Nat /\ p[k] \in Nat /\ p[k] <= Len(data) /\ j \in 1..c
    <3>1. k - 1 \in 0..n /\ k \in 0..n /\ j \in 1..c
      BY <1>1, <1>3
    <3>2. p[k - 1] \in 0..Len(data) /\ p[k] \in 0..Len(data)
      BY <1>4, <3>1, Zenon
    <3>3. Len(data) \in Nat
      BY SequenceParts DEF Carries
    <3> QED
      BY <3>1, <3>2, <3>3
  <2>2. Len(data) \in Nat
    BY SequenceParts DEF Carries
  <2> QED
    BY <1>4, <2>1, <2>2
<1>6. DOMAIN data = 1..Len(data) /\ IsSequence(data) /\ \A i \in DOMAIN data : ItemSize(data[i]) \in Nat
  BY SequenceParts DEF Carries
<1>7. /\ PayloadSize(data) \in Nat
      /\ \A i \in DOMAIN data : ItemSize(data[i]) <= PayloadSize(data)
  BY <1>6, SizesAdd, Zenon
<1> QED
  BY <1>4, <1>5, <1>6, <1>7, Zenon
=============================================================================
