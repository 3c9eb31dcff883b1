---------------------------- MODULE FoldTheorems ----------------------------
(***************************************************************************)
(* What FoldLeft computes, for any operator.  The models fold wherever the *)
(* code runs a loop that carries a value along: over the fields of a call  *)
(* of Span::record (DeferredValues::update), over the parameters of an     *)
(* event method, over the attributes of a trait.                           *)
(*                                                                         *)
(* Induction is by least elements: a set of naturals that is not empty has *)
(* one, so a set with 0 in it and closed under successor leaves none out.  *)
(* The partial results of a fold are such a chain of values.               *)
(***************************************************************************)
EXTENDS SequencesExt, WellFoundedInduction, TLAPS

CONSTANT op(_, _)

Fold(base, s) == FoldLeft(op, base, s)

\* The naturals are well-founded.
LEMMA Least ==
  ASSUME NEW S \in SUBSET Nat, S # {}
  PROVE  \E n \in S : \A m \in S : n <= m
<1>1. PICK n \in S : \A m \in S : <<m, n>> \notin OpToRel(<, Nat)
  BY WFMin, NatLessThanWellFounded, Zenon
<1>2. ASSUME NEW m \in S PROVE ~(m < n)
  <2>1. <<m, n>> \in Nat \X Nat /\ <<m, n>>[1] = m /\ <<m, n>>[2] = n
    OBVIOUS
  <2> QED
    BY <1>1, <2>1, Zenon DEF OpToRel
<1>3. \A m \in S : n <= m
  BY <1>2
<1> QED
  BY <1>3

\* Induction up to n: the least number missing from S would have a
\* predecessor that is in S.
LEMMA UpTo ==
  ASSUME NEW n \in Nat, NEW S, 0 \in S, \A k \in 0..n - 1 : k \in S => k + 1 \in S
  PROVE  0..n \subseteq S
<1> DEFINE Missing == {k \in 0..n : k \notin S}
<1>1. SUFFICES ASSUME Missing # {} PROVE FALSE
  OBVIOUS
<1>2. PICK k \in Missing : \A m \in Missing : k <= m
  <2>1. Missing \in SUBSET Nat
    OBVIOUS
  <2> HIDE DEF Missing
  <2> QED
    BY <1>1, <2>1, Least
<1>3. k # 0 /\ k - 1 \in 0..n - 1 /\ k - 1 \in S
  BY <1>2
<1> QED
  BY <1>2, <1>3

\* The recursive function inside MapThenFoldSet, over the subsets of 1..n.
Folds(f, base, s, n) ==
  f = [x \in SUBSET (1..n) |->
         IF x = {} THEN base ELSE op(f[x \ {Max(x)}], s[Max(x)])]

\* The element that FoldLeft chooses from a set with n and nothing above.
LEMMA MaxIs ==
  ASSUME NEW n \in Nat, NEW x \in SUBSET (1..n), n \in x
  PROVE  Max(x) = n
<1>1. \A m \in x : n >= m
  OBVIOUS
<1>2. \A a \in x : (\A m \in x : a >= m) => a = n
  OBVIOUS
<1> QED
  BY <1>1, <1>2, Zenon DEF Max

\* There is such a function for every n: the one for n, extended by n + 1.
LEMMA FoldsExist ==
  ASSUME NEW base, NEW s, NEW n \in Nat
  PROVE  \E f : Folds(f, base, s, n)
<1> DEFINE S == {k \in 0..n : \E f : Folds(f, base, s, k)}
<1>1. 0 \in S
  <2>1. Folds([x \in SUBSET (1..0) |-> base], base, s, 0)
    BY DEF Folds
  <2> QED
    BY <2>1
<1>2. ASSUME NEW k \in 0..n - 1, k \in S PROVE k + 1 \in S
  <2>1. PICK f : Folds(f, base, s, k)
    BY <1>2
  <2> DEFINE g == [x \in SUBSET (1..k + 1) |->
                     IF k + 1 \in x THEN op(f[x \ {k + 1}], s[k + 1]) ELSE f[x]]
  <2>2. ASSUME NEW x \in SUBSET (1..k + 1)
        PROVE  g[x] = IF x = {} THEN base ELSE op(g[x \ {Max(x)}], s[Max(x)])
    <3>1. CASE k + 1 \in x
      <4>1. Max(x) = k + 1
        BY <3>1, MaxIs
      <4>2. x \ {k + 1} \in SUBSET (1..k + 1) /\ k + 1 \notin x \ {k + 1}
        OBVIOUS
      <4>3. g[x \ {k + 1}] = f[x \ {k + 1}]
        BY <4>2
      <4> QED
        BY <3>1, <4>1, <4>3
    <3>2. CASE k + 1 \notin x
      <4>1. x \in SUBSET (1..k)
        BY <3>2
      <4>2. f[x] = IF x = {} THEN base ELSE op(f[x \ {Max(x)}], s[Max(x)])
        BY <2>1, <4>1, Zenon DEF Folds
      <4>3. x \ {Max(x)} \in SUBSET (1..k + 1) /\ k + 1 \notin x \ {Max(x)}
        BY <3>2
      <4>4. g[x \ {Max(x)}] = f[x \ {Max(x)}] /\ g[x] = f[x]
        BY <3>2, <4>3
      <4> QED
        BY <4>2, <4>4
    <3> QED
      BY <3>1, <3>2
  <2>3. Folds(g, base, s, k + 1)
    BY <2>2 DEF Folds
  <2> QED
    BY <2>3
<1>3. 0..n \subseteq S
  <2> HIDE DEF S
  <2> QED
    BY <1>1, <1>2, UpTo
<1> QED
  BY <1>3

\* So the CHOOSE that defines the recursive function finds one.
LEMMA FoldIsFolds ==
  ASSUME NEW base, NEW s, NEW n \in Nat, DOMAIN s = 1..n
  PROVE  \E f : Folds(f, base, s, n) /\ Fold(base, s) = f[1..n]
<1> DEFINE F == CHOOSE f : f = [x \in SUBSET (1..n) |->
                     IF x = {} THEN base ELSE op(f[x \ {Max(x)}], s[Max(x)])]
<1>1. Folds(F, base, s, n)
  <2>1. \E f : Folds(f, base, s, n)
    BY FoldsExist
  <2>2. F = [x \in SUBSET (1..n) |->
                     IF x = {} THEN base ELSE op(F[x \ {Max(x)}], s[Max(x)])]
    BY <2>1, Zenon DEF Folds
  <2> QED
    BY <2>2, Zenon DEF Folds
<1>2. Fold(base, s) = F[1..n]
  BY Zenon DEF Fold, FoldLeft, MapThenFoldSet
<1> QED
  BY <1>1, <1>2

\* Its values on initial segments are each one step from the last.
LEMMA FoldsStep ==
  ASSUME NEW base, NEW s, NEW n \in Nat, NEW f, Folds(f, base, s, n)
  PROVE  /\ f[1..0] = base
         /\ \A k \in 0..n - 1 : f[1..k + 1] = op(f[1..k], s[k + 1])
<1>1. f[1..0] = base
  <2>1. 1..0 = {} /\ {} \in SUBSET (1..n)
    OBVIOUS
  <2> QED
    BY <2>1, Zenon DEF Folds
<1>2. ASSUME NEW k \in 0..n - 1 PROVE f[1..k + 1] = op(f[1..k], s[k + 1])
  <2>1. /\ 1..k + 1 \in SUBSET (1..n) /\ 1..k + 1 # {}
        /\ (1..k + 1) \ {k + 1} = 1..k
    OBVIOUS
  <2>2. Max(1..k + 1) = k + 1
    BY MaxIs
  <2> QED
    BY <2>1, <2>2, Zenon DEF Folds
<1> QED
  BY <1>1, <1>2

\* g[k] is the fold of the first k elements of s.
Partials(g, base, s, n) ==
  /\ DOMAIN g = 0..n /\ g[0] = base
  /\ \A k \in 0..n - 1 : g[k + 1] = op(g[k], s[k + 1])

\* A fold is the last of its partial results ...
THEOREM FoldSteps ==
  ASSUME NEW base, NEW s, NEW n \in Nat, DOMAIN s = 1..n
  PROVE  \E g : Partials(g, base, s, n) /\ Fold(base, s) = g[n]
<1>1. PICK f : Folds(f, base, s, n) /\ Fold(base, s) = f[1..n]
  BY FoldIsFolds
<1> DEFINE g == [k \in 0..n |-> f[1..k]]
<1>2. /\ f[1..0] = base
      /\ \A k \in 0..n - 1 : f[1..k + 1] = op(f[1..k], s[k + 1])
  BY <1>1, FoldsStep
<1>3. Partials(g, base, s, n) /\ g[n] = f[1..n]
  BY <1>2 DEF Partials
<1> QED
  BY <1>1, <1>3

\* ... which the base and the steps determine.
THEOREM FoldIs ==
  ASSUME NEW base, NEW s, NEW n \in Nat, DOMAIN s = 1..n,
         NEW g, Partials(g, base, s, n)
  PROVE  Fold(base, s) = g[n]
<1>1. PICK h : Partials(h, base, s, n) /\ Fold(base, s) = h[n]
  BY FoldSteps
<1> DEFINE S == {k \in 0..n : h[k] = g[k]}
<1>2. 0 \in S /\ \A k \in 0..n - 1 : k \in S => k + 1 \in S
  BY <1>1 DEF Partials
<1>3. 0..n \subseteq S
  <2> HIDE DEF S
  <2> QED
    BY <1>2, UpTo
<1> QED
  BY <1>1, <1>3

\* Folding nothing gives the base.
THEOREM FoldEmpty ==
  ASSUME NEW base
  PROVE  Fold(base, <<>>) = base
<1>1. DOMAIN <<>> = 1..0 /\ 0 \in Nat
  OBVIOUS
<1>2. PICK g : Partials(g, base, <<>>, 0) /\ Fold(base, <<>>) = g[0]
  BY <1>1, FoldSteps
<1> QED
  BY <1>2 DEF Partials

\* The last element is folded last ...
LEMMA FoldLast ==
  ASSUME NEW base, NEW s, NEW n \in Nat, DOMAIN s = 1..n,
         NEW s2, DOMAIN s2 = 1..n + 1, \A k \in 1..n : s2[k] = s[k]
  PROVE  Fold(base, s2) = op(Fold(base, s), s2[n + 1])
<1>1. PICK g : Partials(g, base, s, n) /\ Fold(base, s) = g[n]
  BY FoldSteps
<1> DEFINE h == [k \in 0..n + 1 |-> IF k = n + 1 THEN op(g[n], s2[n + 1]) ELSE g[k]]
<1>2. Partials(h, base, s2, n + 1) /\ h[n + 1] = op(g[n], s2[n + 1])
  BY <1>1 DEF Partials
<1>3. n + 1 \in Nat
  OBVIOUS
<1>4. Fold(base, s2) = h[n + 1]
  <2> HIDE DEF h
  <2> QED
    BY <1>2, <1>3, FoldIs
<1> QED
  BY <1>1, <1>2, <1>4

\* The same for a sequence and an element appended to it.
THEOREM FoldAppend ==
  ASSUME NEW base, NEW S, NEW s \in Seq(S), NEW e
  PROVE  Fold(base, Append(s, e)) = op(Fold(base, s), e)
<1>1. PICK n \in Nat : n = Len(s)
  OBVIOUS
<1>2. /\ DOMAIN s = 1..n /\ DOMAIN Append(s, e) = 1..n + 1
      /\ Append(s, e)[n + 1] = e /\ \A k \in 1..n : Append(s, e)[k] = s[k]
  BY <1>1
<1> DEFINE s2 == Append(s, e)
<1> HIDE DEF s2
<1>3. DOMAIN s2 = 1..n + 1 /\ \A k \in 1..n : s2[k] = s[k]
  BY <1>2 DEF s2
<1>4. Fold(base, s2) = op(Fold(base, s), s2[n + 1])
  BY <1>2, <1>3, FoldLast
<1> QED
  BY <1>2, <1>4, Zenon DEF s2

\* ... and the first one first.
LEMMA FoldFirst ==
  ASSUME NEW base, NEW r, NEW n \in Nat, DOMAIN r = 1..n,
         NEW s, DOMAIN s = 1..n + 1, \A k \in 1..n : r[k] = s[k + 1]
  PROVE  Fold(base, s) = Fold(op(base, s[1]), r)
<1>1. PICK g : Partials(g, op(base, s[1]), r, n) /\ Fold(op(base, s[1]), r) = g[n]
  BY FoldSteps
<1> DEFINE h == [k \in 0..n + 1 |-> IF k = 0 THEN base ELSE g[k - 1]]
<1>2. ASSUME NEW k \in 0..(n + 1) - 1 PROVE h[k + 1] = op(h[k], s[k + 1])
  <2>1. h[k + 1] = g[k]
    OBVIOUS
  <2>2. CASE k = 0
    BY <1>1, <2>1, <2>2 DEF Partials
  <2>3. CASE k # 0
    <3>1. k - 1 \in 0..n - 1 /\ (k - 1) + 1 = k /\ k \in 1..n /\ h[k] = g[k - 1]
      BY <2>3
    <3>2. g[k] = op(g[k - 1], r[k]) /\ r[k] = s[k + 1]
      BY <1>1, <3>1 DEF Partials
    <3> QED
      BY <2>1, <3>1, <3>2
  <2> QED
    BY <2>2, <2>3
<1>3. n + 1 \in Nat /\ h[0] = base /\ h[n + 1] = g[n] /\ DOMAIN h = 0..n + 1
  OBVIOUS
<1>4. Partials(h, base, s, n + 1)
  <2> HIDE DEF h
  <2> QED
    BY <1>2, <1>3 DEF Partials
<1>5. Fold(base, s) = h[n + 1]
  <2> HIDE DEF h
  <2> QED
    BY <1>3, <1>4, FoldIs
<1> QED
  BY <1>1, <1>3, <1>5

\* The same for a sequence and its tail.
THEOREM FoldHead ==
  ASSUME NEW base, NEW S, NEW s \in Seq(S), s # <<>>
  PROVE  Fold(base, s) = Fold(op(base, Head(s)), Tail(s))
<1>1. PICK n \in Nat : Len(s) = n + 1
  <2>1. Len(s) - 1 \in Nat /\ Len(s) = (Len(s) - 1) + 1
    OBVIOUS
  <2> QED
    BY <2>1, Zenon
<1>2. /\ DOMAIN s = 1..n + 1 /\ DOMAIN Tail(s) = 1..n /\ Head(s) = s[1]
      /\ \A k \in 1..n : Tail(s)[k] = s[k + 1]
  BY <1>1
<1>3. Fold(base, s) = Fold(op(base, s[1]), Tail(s))
  BY <1>2, FoldFirst
<1> QED
  BY <1>2, <1>3, Zenon
=============================================================================
