-------------------------- MODULE SeqSelect_proofs --------------------------
(* How Select and Count grow with the sequence they look at.  Selection is a *)
(* recursive function: that it exists, and what it is at n, is shown by      *)
(* induction on n, which is the least-element principle for sets of naturals.*)
EXTENDS SeqSelect, NaturalsInduction, WellFoundedInduction, FiniteSetTheorems,
        SequenceTheorems, TLAPS

(* A nonempty set of naturals has a least element.                           *)
LEMMA LeastNat ==
  ASSUME NEW T, T \subseteq Nat, T # {}
  PROVE  \E x \in T : \A y \in T : x <= y
<1>1. IsWellFoundedOn(OpToRel(<,Nat), Nat)
  BY NatLessThanWellFounded
<1>2. \E x \in T : \A y \in T : ~ (<<y, x>> \in OpToRel(<,Nat))
  <2> HIDE DEF OpToRel
  <2>1. QED
    BY <1>1, WFMin
<1>3. ASSUME NEW x \in T, NEW y \in T, ~ (<<y, x>> \in OpToRel(<,Nat))
      PROVE  x <= y
  <2>1. x \in Nat /\ y \in Nat
    OBVIOUS
  <2>2. ~(y < x)
    BY <1>3, <2>1 DEF OpToRel
  <2>3. QED
    BY <2>1, <2>2
<1>4. QED
  BY <1>2, <1>3

(* Induction, for a set: the least natural outside it would have a           *)
(* predecessor inside.                                                       *)
LEMMA InductionOnSet ==
  ASSUME NEW T \in SUBSET Nat, 0 \in T, \A n \in T : n + 1 \in T
  PROVE  T = Nat
<1> SUFFICES ASSUME Nat \ T # {} PROVE FALSE
  OBVIOUS
<1>1. PICK x \in Nat \ T : \A y \in Nat \ T : x <= y
  BY LeastNat
<1>2. x - 1 \in T
  BY <1>1
<1>3. QED
  BY <1>1, <1>2
-----------------------------------------------------------------------------
(* Selection.                                                                *)

IsSelection(g, s, S, n) ==
    g = [i \in 0..n |-> IF i = 0 THEN <<>>
                        ELSE IF s[i] \in S THEN Append(g[i - 1], s[i])
                        ELSE g[i - 1]]

(* The recursive definition has a solution, for every length.                *)
LEMMA SelectionExists ==
  ASSUME NEW s, NEW S, NEW n \in Nat
  PROVE  \E g : IsSelection(g, s, S, n)
<1> DEFINE T == {k \in Nat : \E g : IsSelection(g, s, S, k)}
<1>1. 0 \in T
  <2>1. IsSelection([i \in 0..0 |-> <<>>], s, S, 0)
    BY DEF IsSelection
  <2>2. QED
    BY <2>1
<1>2. ASSUME NEW k \in T PROVE k + 1 \in T
  <2>1. PICK g : IsSelection(g, s, S, k)
    OBVIOUS
  <2> DEFINE h == [i \in 0..(k + 1) |-> IF i <= k THEN g[i]
                                        ELSE IF s[i] \in S THEN Append(g[i - 1], s[i])
                                        ELSE g[i - 1]]
  <2>2. ASSUME NEW i \in 0..(k + 1)
        PROVE  h[i] = IF i = 0 THEN <<>>
                      ELSE IF s[i] \in S THEN Append(h[i - 1], s[i]) ELSE h[i - 1]
    <3>1. CASE i = 0
      <4>1. h[0] = g[0] /\ 0 \in 0..k
        OBVIOUS
      <4>2. g[0] = <<>>
        BY <2>1, <4>1 DEF IsSelection
      <4>3. QED
        BY <3>1, <4>1, <4>2
    <3>2. CASE i # 0 /\ i <= k
      <4>1. h[i] = g[i] /\ h[i - 1] = g[i - 1] /\ i \in 0..k
        BY <3>2
      <4> HIDE DEF h
      <4>2. g[i] = IF s[i] \in S THEN Append(g[i - 1], s[i]) ELSE g[i - 1]
        BY <2>1, <3>2, <4>1 DEF IsSelection
      <4>3. QED
        BY <3>2, <4>1, <4>2
    <3>3. CASE i = k + 1
      BY <3>3
    <3>4. QED
      BY <3>1, <3>2, <3>3
  <2>3. h = [i \in 0..(k + 1) |-> h[i]]
    OBVIOUS
  <2> HIDE DEF h
  <2>4. IsSelection(h, s, S, k + 1)
    BY <2>2, <2>3 DEF IsSelection
  <2>5. QED
    BY <2>4
<1> HIDE DEF T
<1>3. T = Nat
  BY <1>1, <1>2, InductionOnSet DEF T
<1>4. QED
  BY <1>3 DEF T

(* What Selection is at each n.                                              *)
LEMMA SelectionStep ==
  ASSUME NEW S, NEW U, NEW s \in Seq(U)
  PROVE  /\ Selection(s, S)[0] = <<>>
         /\ \A i \in 1..Len(s) :
               Selection(s, S)[i] = IF s[i] \in S
                                    THEN Append(Selection(s, S)[i - 1], s[i])
                                    ELSE Selection(s, S)[i - 1]
<1> DEFINE g == Selection(s, S)
<1>1. Len(s) \in Nat
  OBVIOUS
<1>2. g = CHOOSE f : IsSelection(f, s, S, Len(s))
  BY DEF Selection, IsSelection
<1> HIDE DEF g
<1>3. IsSelection(g, s, S, Len(s))
  BY <1>1, <1>2, SelectionExists
<1>4. g = [i \in 0..Len(s) |-> IF i = 0 THEN <<>>
                               ELSE IF s[i] \in S THEN Append(g[i - 1], s[i])
                               ELSE g[i - 1]]
  BY <1>3 DEF IsSelection
<1>5. g[0] = <<>>
  BY <1>1, <1>4
<1>6. ASSUME NEW i \in 1..Len(s)
      PROVE  g[i] = IF s[i] \in S THEN Append(g[i - 1], s[i]) ELSE g[i - 1]
  <2>1. i \in 0..Len(s) /\ i # 0
    BY <1>1
  <2>2. QED
    BY <1>4, <2>1
<1>7. QED
  BY <1>5, <1>6 DEF g

(* It is a sequence over what is selected.                                   *)
LEMMA SelectionType ==
  ASSUME NEW S, NEW U, NEW s \in Seq(U), NEW n \in 0..Len(s)
  PROVE  Selection(s, S)[n] \in Seq(S \cap U)
<1> DEFINE g == Selection(s, S)
           T == {k \in Nat : k <= Len(s) => g[k] \in Seq(S \cap U)}
<1>1. 0 \in T
  <2>1. g[0] = <<>>
    BY SelectionStep
  <2> HIDE DEF g
  <2>2. g[0] \in Seq(S \cap U)
    BY <2>1
  <2>3. QED
    BY <2>2
<1>2. ASSUME NEW k \in T PROVE k + 1 \in T
  <2> SUFFICES ASSUME k + 1 <= Len(s) PROVE g[k + 1] \in Seq(S \cap U)
    OBVIOUS
  <2>1. g[k] \in Seq(S \cap U)
    OBVIOUS
  <2>2. k + 1 \in 1..Len(s) /\ s[k + 1] \in U
    OBVIOUS
  <2>3. g[k + 1] = IF s[k + 1] \in S THEN Append(g[k], s[k + 1]) ELSE g[k]
    BY <2>2, SelectionStep
  <2> HIDE DEF g, T
  <2>4. QED
    BY <2>1, <2>2, <2>3
<1> HIDE DEF T
<1>3. T = Nat
  BY <1>1, <1>2, InductionOnSet DEF T
<1>4. QED
  BY <1>3 DEF T

(* It looks at the first n elements only.                                    *)
LEMMA SelectionPrefix ==
  ASSUME NEW S, NEW U, NEW s \in Seq(U), NEW t \in Seq(U), Len(s) <= Len(t),
         \A i \in 1..Len(s) : t[i] = s[i]
  PROVE  Selection(t, S)[Len(s)] = Selection(s, S)[Len(s)]
<1> DEFINE g == Selection(s, S)
           h == Selection(t, S)
           T == {k \in Nat : k <= Len(s) => h[k] = g[k]}
<1>1. 0 \in T
  BY SelectionStep
<1>2. ASSUME NEW k \in T PROVE k + 1 \in T
  <2> SUFFICES ASSUME k + 1 <= Len(s) PROVE h[k + 1] = g[k + 1]
    OBVIOUS
  <2>1. /\ k + 1 \in 1..Len(s) /\ k + 1 \in 1..Len(t)
        /\ t[k + 1] = s[k + 1] /\ h[k] = g[k]
    OBVIOUS
  <2>2. g[k + 1] = IF s[k + 1] \in S THEN Append(g[k], s[k + 1]) ELSE g[k]
    BY <2>1, SelectionStep
  <2>3. h[k + 1] = IF t[k + 1] \in S THEN Append(h[k], t[k + 1]) ELSE h[k]
    BY <2>1, SelectionStep
  <2> HIDE DEF g, h, T
  <2>4. QED
    BY <2>1, <2>2, <2>3
<1> HIDE DEF T
<1>3. T = Nat
  BY <1>1, <1>2, InductionOnSet DEF T
<1>4. Len(s) \in T
  BY <1>3
<1>5. QED
  BY <1>4 DEF T
(* How far a sequence is selected like another from behind c up to d.        *)
Gap(g, h, c, d, k) ==
  /\ k <= c => h[k] = <<>>
  /\ c <= k /\ k <= d => g[k] = g[c] \o h[k]
  /\ d <= k => h[k] = h[d]

(* What is selected from behind c up to d is what follows the selection from *)
(* the first c elements in that from the first d.                            *)
LEMMA SelectionGap ==
  ASSUME NEW S, NEW U, NEW s \in Seq(U), NEW t \in Seq(U), Len(t) = Len(s),
         NEW c \in Nat, NEW d \in Nat, c <= d, d <= Len(s),
         \A i \in 1..Len(s) : c < i /\ i <= d => t[i] = s[i],
         \A i \in 1..Len(s) : ~(c < i /\ i <= d) => t[i] \notin S
  PROVE  Selection(s, S)[d] = Selection(s, S)[c] \o Select(t, S)
<1> DEFINE g == Selection(s, S)
           h == Selection(t, S)
           T == {k \in Nat : k <= Len(s) => Gap(g, h, c, d, k)}
<1>1. g[c] \in Seq(S \cap U) /\ h[d] \in Seq(S \cap U)
  <2>1. c \in 0..Len(s) /\ d \in 0..Len(t)
    OBVIOUS
  <2>2. QED
    BY <2>1, SelectionType
<1>2. g[c] \o <<>> = g[c]
  <2> HIDE DEF g
  <2>1. QED
    BY <1>1
<1>3. 0 \in T
  <2>1. h[0] = <<>>
    BY SelectionStep
  <2> HIDE DEF g, h
  <2>2. Gap(g, h, c, d, 0)
    BY <1>2, <2>1 DEF Gap
  <2>3. QED
    BY <2>2
<1>4. ASSUME NEW k \in T PROVE k + 1 \in T
  <2> SUFFICES ASSUME k + 1 <= Len(s) PROVE Gap(g, h, c, d, k + 1)
    OBVIOUS
  <2>1. /\ k + 1 \in 1..Len(s) /\ k + 1 \in 1..Len(t) /\ k \in Nat
        /\ (k + 1) - 1 = k /\ k \in 0..Len(t) /\ Gap(g, h, c, d, k)
    <3> HIDE DEF g, h
    <3>1. QED
      OBVIOUS
  <2>2. g[k + 1] = IF s[k + 1] \in S THEN Append(g[k], s[k + 1]) ELSE g[k]
    BY <2>1, SelectionStep
  <2>3. h[k + 1] = IF t[k + 1] \in S THEN Append(h[k], t[k + 1]) ELSE h[k]
    BY <2>1, SelectionStep
  <2>4. h[k] \in Seq(S \cap U)
    BY <2>1, SelectionType
  <2>5. s[k + 1] \in U
    BY <2>1
  <2> HIDE DEF g, h, T
  <2>6. ASSUME k + 1 <= c PROVE h[k + 1] = <<>>
    <3>1. h[k] = <<>> /\ t[k + 1] \notin S
      BY <2>1, <2>6 DEF Gap
    <3>2. QED
      BY <2>3, <3>1
  <2>7. ASSUME c <= k + 1, k + 1 <= d PROVE g[k + 1] = g[c] \o h[k + 1]
    <3>1. CASE k + 1 = c
      <4>1. h[k + 1] = <<>>
        BY <2>6, <3>1
      <4>2. QED
        BY <1>2, <3>1, <4>1
    <3>2. CASE k + 1 # c
      <4>1. c <= k /\ k <= d /\ t[k + 1] = s[k + 1]
        BY <2>1, <2>7, <3>2
      <4>2. g[k] = g[c] \o h[k]
        BY <2>1, <4>1 DEF Gap
      <4>3. Append(g[c] \o h[k], s[k + 1]) = g[c] \o Append(h[k], s[k + 1])
        <5> DEFINE a == g[c]
                   b == h[k]
                   e == s[k + 1]
        <5>1. a \in Seq(U) /\ b \in Seq(U) /\ e \in U
          BY <1>1, <2>4, <2>5
        <5> HIDE DEF a, b, e
        <5>2. <<e>> \in Seq(U) /\ a \o b \in Seq(U)
          BY <5>1
        <5>3. (a \o b) \o <<e>> = a \o (b \o <<e>>)
          BY ONLY <5>1, <5>2, ConcatAssociative, Z3T(60)
        <5>4. Append(a \o b, e) = (a \o b) \o <<e>> /\ Append(b, e) = b \o <<e>>
          BY <5>1, <5>2, AppendIsConcat
        <5>5. QED
          BY <5>3, <5>4, Zenon DEF a, b, e
      <4>4. QED
        BY <2>2, <2>3, <4>1, <4>2, <4>3
    <3>3. QED
      BY <3>1, <3>2
  <2>8. ASSUME d <= k + 1 PROVE h[k + 1] = h[d]
    <3>1. CASE k + 1 = d
      BY <3>1
    <3>2. CASE k + 1 # d
      <4>1. d <= k /\ t[k + 1] \notin S
        BY <2>1, <2>8, <3>2
      <4>2. h[k] = h[d]
        BY <2>1, <4>1 DEF Gap
      <4>3. QED
        BY <2>3, <4>1, <4>2
    <3>3. QED
      BY <3>1, <3>2
  <2>9. QED
    BY <2>6, <2>7, <2>8 DEF Gap
<1> HIDE DEF T
<1>5. T = Nat
  BY <1>3, <1>4, InductionOnSet DEF T
<1>6. Gap(g, h, c, d, d) /\ Gap(g, h, c, d, Len(s))
  <2>1. d \in T /\ Len(s) \in T
    BY <1>5
  <2> HIDE DEF g, h
  <2>2. QED
    BY <2>1 DEF T
<1>7. g[d] = g[c] \o h[d] /\ h[Len(s)] = h[d]
  <2> HIDE DEF g, h
  <2>1. c <= d /\ d <= d /\ d <= Len(s)
    OBVIOUS
  <2>2. QED
    BY <1>6, <2>1 DEF Gap
<1>8. QED
  BY <1>7 DEF Select

(* What is in s up to d and in S is in the selection.                        *)
LEMMA SelectionFinds ==
  ASSUME NEW S, NEW U, NEW s \in Seq(U), NEW d \in Nat, d <= Len(s),
         NEW i \in 1..d, s[i] \in S
  PROVE  \E k \in DOMAIN Selection(s, S)[d] : Selection(s, S)[d][k] = s[i]
<1> DEFINE g == Selection(s, S)
           T == {n \in Nat : i <= n /\ n <= Len(s) =>
                                \E k \in DOMAIN g[n] : g[n][k] = s[i]}
<1>1. 0 \in T
  OBVIOUS
<1>2. ASSUME NEW n \in T PROVE n + 1 \in T
  <2> SUFFICES ASSUME i <= n + 1, n + 1 <= Len(s)
               PROVE  \E k \in DOMAIN g[n + 1] : g[n + 1][k] = s[i]
    OBVIOUS
  <2>1. /\ n + 1 \in 1..Len(s) /\ (n + 1) - 1 = n /\ n \in 0..Len(s)
        /\ i <= n => \E k \in DOMAIN g[n] : g[n][k] = s[i]
    OBVIOUS
  <2>2. g[n + 1] = IF s[n + 1] \in S THEN Append(g[n], s[n + 1]) ELSE g[n]
    BY <2>1, SelectionStep
  <2>3. g[n] \in Seq(S \cap U)
    BY <2>1, SelectionType
  <2>4. s[n + 1] \in U
    BY <2>1
  <2> HIDE DEF g, T
  <2>5. PICK a \in Seq(U) : a = g[n]
    BY <2>3
  <2>6. PICK e \in U : e = s[n + 1]
    BY <2>4
  <2>7. /\ Len(a) + 1 \in DOMAIN Append(a, e) /\ Append(a, e)[Len(a) + 1] = e
        /\ \A k \in DOMAIN a : k \in DOMAIN Append(a, e) /\ Append(a, e)[k] = a[k]
    OBVIOUS
  <2>8. CASE i <= n
    BY <2>1, <2>2, <2>5, <2>6, <2>7, <2>8
  <2>9. CASE i = n + 1
    BY <2>2, <2>5, <2>6, <2>7, <2>9
  <2>10. QED
    BY <2>1, <2>8, <2>9
<1> HIDE DEF T
<1>3. T = Nat
  BY <1>1, <1>2, InductionOnSet DEF T
<1>4. d \in T
  BY <1>3
<1>5. QED
  BY <1>4 DEF T
(* What is selected is in s and in S.                                        *)
LEMMA SelectionFrom ==
  ASSUME NEW S, NEW U, NEW s \in Seq(U), NEW d \in Nat, d <= Len(s),
         NEW k \in DOMAIN Selection(s, S)[d]
  PROVE  \E i \in 1..d : s[i] \in S /\ s[i] = Selection(s, S)[d][k]
<1> DEFINE g == Selection(s, S)
           T == {n \in Nat : n <= Len(s) =>
                    \A j \in DOMAIN g[n] : \E i \in 1..n : s[i] \in S /\ s[i] = g[n][j]}
<1>1. 0 \in T
  <2>1. g[0] = <<>>
    BY SelectionStep
  <2> HIDE DEF g
  <2>2. DOMAIN g[0] = {}
    BY <2>1
  <2>3. QED
    BY <2>2
<1>2. ASSUME NEW n \in T PROVE n + 1 \in T
  <2> SUFFICES ASSUME n + 1 <= Len(s), NEW j \in DOMAIN g[n + 1]
               PROVE  \E i \in 1..(n + 1) : s[i] \in S /\ s[i] = g[n + 1][j]
    OBVIOUS
  <2>1. /\ n + 1 \in 1..Len(s) /\ (n + 1) - 1 = n /\ n \in 0..Len(s) /\ n \in Nat
        /\ \A l \in DOMAIN g[n] : \E i \in 1..n : s[i] \in S /\ s[i] = g[n][l]
    OBVIOUS
  <2>2. g[n + 1] = IF s[n + 1] \in S THEN Append(g[n], s[n + 1]) ELSE g[n]
    BY <2>1, SelectionStep
  <2>3. g[n] \in Seq(S \cap U)
    BY <2>1, SelectionType
  <2>4. s[n + 1] \in U
    BY <2>1
  <2> HIDE DEF g, T
  <2>5. CASE j \in DOMAIN g[n] /\ g[n + 1][j] = g[n][j]
    <3>1. PICK i \in 1..n : s[i] \in S /\ s[i] = g[n][j]
      BY <2>1, <2>5
    <3>2. i \in 1..(n + 1)
      BY <2>1
    <3>3. QED
      BY <2>5, <3>1, <3>2
  <2>6. CASE s[n + 1] \in S /\ g[n + 1][j] = s[n + 1]
    BY <2>1, <2>6
  <2>7. QED
    <3>1. PICK a \in Seq(U) : a = g[n]
      BY <2>3
    <3>2. PICK e \in U : e = s[n + 1]
      BY <2>4
    <3>3. CASE e \in S
      <4>1. g[n + 1] = Append(a, e)
        BY <2>2, <3>1, <3>2, <3>3
      <4>2. j \in DOMAIN Append(a, e)
        BY <4>1
      <4>3. (j \in DOMAIN a /\ Append(a, e)[j] = a[j]) \/ Append(a, e)[j] = e
        BY <4>2
      <4>4. QED
        BY <2>5, <2>6, <3>1, <3>2, <3>3, <4>1, <4>3
    <3>4. CASE e \notin S
      BY <2>2, <2>5, <3>2, <3>4
    <3>5. QED
      BY <3>3, <3>4
<1> HIDE DEF T
<1>3. T = Nat
  BY <1>1, <1>2, InductionOnSet DEF T
<1>4. d \in T
  BY <1>3
<1>5. QED
  BY <1>4 DEF T

(* Nothing is selected twice that is not there twice.                        *)
LEMMA SelectionOnce ==
  ASSUME NEW S, NEW U, NEW s \in Seq(U), NEW d \in Nat, d <= Len(s),
         \A i, j \in 1..Len(s) : s[i] \in S /\ s[i] = s[j] => i = j
  PROVE  \A k, l \in DOMAIN Selection(s, S)[d] :
            Selection(s, S)[d][k] = Selection(s, S)[d][l] => k = l
<1> DEFINE g == Selection(s, S)
           T == {n \in Nat : n <= Len(s) =>
                    \A k, l \in DOMAIN g[n] : g[n][k] = g[n][l] => k = l}
<1>1. 0 \in T
  <2>1. g[0] = <<>>
    BY SelectionStep
  <2> HIDE DEF g
  <2>2. DOMAIN g[0] = {}
    BY <2>1
  <2>3. QED
    BY <2>2
<1>2. ASSUME NEW n \in T PROVE n + 1 \in T
  <2> SUFFICES ASSUME n + 1 <= Len(s)
               PROVE  \A k, l \in DOMAIN g[n + 1] : g[n + 1][k] = g[n + 1][l] => k = l
    OBVIOUS
  <2>1. /\ n + 1 \in 1..Len(s) /\ (n + 1) - 1 = n /\ n \in 0..Len(s) /\ n \in Nat /\ n <= Len(s)
        /\ \A k, l \in DOMAIN g[n] : g[n][k] = g[n][l] => k = l
    OBVIOUS
  <2>2. g[n + 1] = IF s[n + 1] \in S THEN Append(g[n], s[n + 1]) ELSE g[n]
    BY <2>1, SelectionStep
  <2>3. g[n] \in Seq(S \cap U)
    BY <2>1, SelectionType
  <2>4. s[n + 1] \in U
    BY <2>1
  <2>5. \A k \in DOMAIN g[n] : \E i \in 1..n : s[i] \in S /\ s[i] = g[n][k]
    BY <2>1, SelectionFrom
  <2> HIDE DEF g, T
  <2>6. PICK a \in Seq(U) : a = g[n]
    BY <2>3
  <2>7. PICK e \in U : e = s[n + 1]
    BY <2>4
  <2>8. CASE e \in S
    <3>1. ASSUME NEW k \in DOMAIN a PROVE a[k] # e
      <4>1. PICK i \in 1..n : s[i] \in S /\ s[i] = a[k]
        BY <2>5, <2>6
      <4>2. i \in 1..Len(s) /\ i # n + 1
        BY <2>1
      <4>3. QED
        BY <2>1, <2>7, <4>1, <4>2
    <3>2. \A k, l \in DOMAIN Append(a, e) : Append(a, e)[k] = Append(a, e)[l] => k = l
      <4>1. /\ DOMAIN Append(a, e) = DOMAIN a \cup {Len(a) + 1}
            /\ Append(a, e)[Len(a) + 1] = e
            /\ \A k \in DOMAIN a : Append(a, e)[k] = a[k]
        OBVIOUS
      <4>2. \A k, l \in DOMAIN a : a[k] = a[l] => k = l
        BY <2>1, <2>6
      <4>3. QED
        BY <3>1, <4>1, <4>2
    <3>3. g[n + 1] = Append(a, e)
      BY <2>2, <2>6, <2>7, <2>8
    <3>4. QED
      BY <3>2, <3>3
  <2>9. CASE e \notin S
    BY <2>1, <2>2, <2>7, <2>9
  <2>10. QED
    BY <2>8, <2>9
<1> HIDE DEF T
<1>3. T = Nat
  BY <1>1, <1>2, InductionOnSet DEF T
<1>4. d \in T
  BY <1>3
<1>5. QED
  BY <1>4 DEF T
-----------------------------------------------------------------------------
(* Select.                                                                   *)

(* Of an empty sequence.                                                     *)
LEMMA SelectEmpty == \A S : Select(<<>>, S) = <<>>
<1> TAKE S
<1>1. <<>> \in Seq({}) /\ Len(<<>>) = 0
  OBVIOUS
<1>2. Selection(<<>>, S)[0] = <<>>
  BY <1>1, SelectionStep
<1>3. QED
  BY <1>1, <1>2 DEF Select

(* Its type.                                                                 *)
LEMMA SelectType ==
  ASSUME NEW S, NEW U, NEW s \in Seq(U)
  PROVE  Select(s, S) \in Seq(S \cap U)
<1>1. Len(s) \in 0..Len(s)
  OBVIOUS
<1>2. QED
  BY <1>1, SelectionType DEF Select

(* One more element.                                                         *)
LEMMA SelectAppend ==
  ASSUME NEW S, NEW U, NEW s \in Seq(U), NEW e \in U
  PROVE  Select(Append(s, e), S) = IF e \in S THEN Append(Select(s, S), e)
                                              ELSE Select(s, S)
<1> DEFINE t == Append(s, e)
           n == Len(s)
<1>1. /\ t \in Seq(U) /\ Len(t) = n + 1 /\ t[n + 1] = e
      /\ \A i \in 1..n : t[i] = s[i]
      /\ n \in Nat /\ n + 1 \in 1..Len(t) /\ (n + 1) - 1 = n
  OBVIOUS
<1> HIDE DEF t
<1>2. Selection(t, S)[n] = Selection(s, S)[n]
  BY <1>1, SelectionPrefix
<1>3. Selection(t, S)[n + 1] = IF t[n + 1] \in S
                               THEN Append(Selection(t, S)[(n + 1) - 1], t[n + 1])
                               ELSE Selection(t, S)[(n + 1) - 1]
  BY <1>1, SelectionStep
<1>4. Select(t, S) = Selection(t, S)[n + 1] /\ Select(s, S) = Selection(s, S)[n]
  BY <1>1 DEF Select
<1>5. QED
  BY <1>1, <1>2, <1>3, <1>4 DEF t

(* A sequence that goes on: by induction on how far.                         *)
LEMMA SelectConcat ==
  ASSUME NEW S, NEW U, NEW s \in Seq(U), NEW t \in Seq(U)
  PROVE  Select(s \o t, S) = Select(s, S) \o Select(t, S)
<1> DEFINE T == {n \in Nat : n <= Len(t) =>
                    Select(s \o SubSeq(t, 1, n), S) = Select(s, S) \o Select(SubSeq(t, 1, n), S)}
<1>1. 0 \in T
  <2>1. SubSeq(t, 1, 0) = <<>> /\ s \o <<>> = s
    OBVIOUS
  <2>2. Select(s, S) \in Seq(S \cap U)
    BY SelectType
  <2>3. Select(s, S) \o <<>> = Select(s, S)
    BY <2>2
  <2>4. QED
    BY <2>1, <2>3, SelectEmpty
<1>2. ASSUME NEW n \in T PROVE n + 1 \in T
  <2> DEFINE p == SubSeq(t, 1, n)
             q == SubSeq(t, 1, n + 1)
             e == t[n + 1]
  <2> SUFFICES ASSUME n + 1 <= Len(t)
               PROVE  Select(s \o q, S) = Select(s, S) \o Select(q, S)
    OBVIOUS
  <2>1. Select(s \o p, S) = Select(s, S) \o Select(p, S)
    OBVIOUS
  <2>2. p \in Seq(U) /\ e \in U /\ q = Append(p, e)
    OBVIOUS
  <2> HIDE DEF p, q, e, T
  <2>3. s \o q = Append(s \o p, e) /\ s \o p \in Seq(U)
    BY <2>2
  <2>4. Select(s, S) \in Seq(U) /\ Select(p, S) \in Seq(U)
    <3>1. Select(s, S) \in Seq(S \cap U) /\ Select(p, S) \in Seq(S \cap U)
      BY <2>2, SelectType
    <3>2. QED
      BY <3>1
  <2>5. Select(s \o q, S) = IF e \in S THEN Append(Select(s \o p, S), e)
                                        ELSE Select(s \o p, S)
    <3>1. Select(Append(s \o p, e), S) = IF e \in S THEN Append(Select(s \o p, S), e)
                                                     ELSE Select(s \o p, S)
      BY <2>2, <2>3, SelectAppend, ZenonT(60)
    <3>2. QED
      BY <2>3, <3>1
  <2>6. Select(q, S) = IF e \in S THEN Append(Select(p, S), e) ELSE Select(p, S)
    BY <2>2, SelectAppend
  <2>7. Append(Select(s, S) \o Select(p, S), e) = Select(s, S) \o Append(Select(p, S), e)
    <3>1. e \in U
      BY <2>2
    <3> DEFINE a == Select(s, S)
               b == Select(p, S)
    <3>2. a \in Seq(U) /\ b \in Seq(U)
      BY <2>4
    <3> HIDE DEF a, b
    <3>3. <<e>> \in Seq(U) /\ a \o b \in Seq(U)
      BY <3>1, <3>2
    <3>4. (a \o b) \o <<e>> = a \o (b \o <<e>>)
      BY <3>1, <3>2, <3>3, ConcatAssociative, SMTT(60)
    <3>5. Append(a \o b, e) = (a \o b) \o <<e>> /\ Append(b, e) = b \o <<e>>
      BY <3>1, <3>2, <3>3, AppendIsConcat
    <3>6. QED
      BY <3>4, <3>5, Zenon DEF a, b
  <2>8. QED
    BY <2>1, <2>5, <2>6, <2>7
<1>3. Len(t) \in Nat /\ SubSeq(t, 1, Len(t)) = t
  OBVIOUS
<1>4. Len(t) \in T
  <2> HIDE DEF T
  <2>1. T = Nat
    BY <1>1, <1>2, InductionOnSet DEF T
  <2>2. QED
    BY <1>3, <2>1
<1>5. Select(s \o SubSeq(t, 1, Len(t)), S)
      = Select(s, S) \o Select(SubSeq(t, 1, Len(t)), S)
  BY <1>3, <1>4
<1>6. QED
  BY <1>3, <1>5, Zenon

(* What a sequence holds nothing of, and what it only holds.                 *)
LEMMA SelectNoneAll ==
  ASSUME NEW S, NEW U, NEW s \in Seq(U)
  PROVE  /\ U \cap S = {} => Select(s, S) = <<>>
         /\ U \subseteq S => Select(s, S) = s
<1> DEFINE T == {n \in Nat : n <= Len(s) =>
                    /\ U \cap S = {} => Select(SubSeq(s, 1, n), S) = <<>>
                    /\ U \subseteq S => Select(SubSeq(s, 1, n), S) = SubSeq(s, 1, n)}
<1>1. 0 \in T
  <2>1. SubSeq(s, 1, 0) = <<>>
    OBVIOUS
  <2>2. QED
    BY <2>1, SelectEmpty
<1>2. ASSUME NEW n \in T PROVE n + 1 \in T
  <2> DEFINE p == SubSeq(s, 1, n)
             q == SubSeq(s, 1, n + 1)
             e == s[n + 1]
  <2> SUFFICES ASSUME n + 1 <= Len(s)
               PROVE  /\ U \cap S = {} => Select(q, S) = <<>>
                      /\ U \subseteq S => Select(q, S) = q
    OBVIOUS
  <2>1. p \in Seq(U) /\ e \in U /\ q = Append(p, e)
    OBVIOUS
  <2>2. /\ U \cap S = {} => Select(p, S) = <<>>
        /\ U \subseteq S => Select(p, S) = p
    OBVIOUS
  <2> HIDE DEF p, q, e, T
  <2>3. Select(q, S) = IF e \in S THEN Append(Select(p, S), e) ELSE Select(p, S)
    BY <2>1, SelectAppend
  <2>4. QED
    BY <2>1, <2>2, <2>3
<1>3. Len(s) \in Nat /\ SubSeq(s, 1, Len(s)) = s
  OBVIOUS
<1>4. Len(s) \in T
  <2> HIDE DEF T
  <2>1. T = Nat
    BY <1>1, <1>2, InductionOnSet DEF T
  <2>2. QED
    BY <1>3, <2>1
<1>5. /\ U \cap S = {} => Select(SubSeq(s, 1, Len(s)), S) = <<>>
      /\ U \subseteq S => Select(SubSeq(s, 1, Len(s)), S) = SubSeq(s, 1, Len(s))
  BY <1>3, <1>4
<1>6. QED
  BY <1>3, <1>5, Zenon
-----------------------------------------------------------------------------
(* Count.                                                                    *)

(* It is a natural number, 0 exactly when the element does not occur.        *)
LEMMA CountType ==
  ASSUME NEW U, NEW s \in Seq(U), NEW e
  PROVE  /\ IsFiniteSet({i \in 1..Len(s) : s[i] = e})
         /\ Count(s, e) \in Nat
         /\ Count(s, e) = 0 <=> \A i \in 1..Len(s) : s[i] # e
<1>1. IsFiniteSet(1..Len(s))
  BY FS_Interval
<1>2. {i \in 1..Len(s) : s[i] = e} \in SUBSET (1..Len(s))
  OBVIOUS
<1>3. IsFiniteSet({i \in 1..Len(s) : s[i] = e})
  BY <1>1, <1>2, FS_Subset
<1> DEFINE P == {i \in 1..Len(s) : s[i] = e}
<1>4. P = {} <=> \A i \in 1..Len(s) : s[i] # e
  OBVIOUS
<1> HIDE DEF P
<1>5. Cardinality(P) \in Nat /\ (Cardinality(P) = 0 <=> P = {})
  BY <1>3, FS_CardinalityType, FS_EmptySet DEF P
<1>6. QED
  BY <1>3, <1>4, <1>5 DEF Count, P

(* Of an empty sequence.                                                     *)
LEMMA CountEmpty == \A e : Count(<<>>, e) = 0
<1> TAKE e
<1>1. {i \in 1..Len(<<>>) : <<>>[i] = e} = {}
  OBVIOUS
<1>2. QED
  BY <1>1, FS_EmptySet DEF Count

(* One more element.                                                         *)
LEMMA CountAppend ==
  ASSUME NEW U, NEW s \in Seq(U), NEW x \in U, NEW e
  PROVE  Count(Append(s, x), e) = IF x = e THEN Count(s, e) + 1 ELSE Count(s, e)
<1> DEFINE t == Append(s, x)
           n == Len(s)
           P == {i \in 1..n : s[i] = e}
           Q == {i \in 1..Len(t) : t[i] = e}
<1>1. /\ Len(t) = n + 1 /\ t[n + 1] = x /\ n \in Nat
      /\ \A i \in 1..n : t[i] = s[i]
  OBVIOUS
<1> HIDE DEF t
<1>2. Q = IF x = e THEN P \cup {n + 1} ELSE P
  BY <1>1
<1>3. IsFiniteSet(P) /\ n + 1 \notin P
  <2>1. IsFiniteSet(P)
    BY CountType
  <2>2. n + 1 \notin P
    BY <1>1
  <2>3. QED
    BY <2>1, <2>2
<1> HIDE DEF P, Q, n
<1>4. Cardinality(Q) = IF x = e THEN Cardinality(P) + 1 ELSE Cardinality(P)
  BY <1>2, <1>3, FS_AddElement
<1>5. QED
  BY <1>4 DEF Count, P, Q, t, n

(* One less: the places move down by one.                                    *)
LEMMA CountTail ==
  ASSUME NEW U, NEW s \in Seq(U), s # <<>>, NEW e
  PROVE  Count(s, e) = IF Head(s) = e THEN Count(Tail(s), e) + 1 ELSE Count(Tail(s), e)
<1> DEFINE t == Tail(s)
           P == {i \in 1..Len(t) : t[i] = e}
           R == {i \in 2..Len(s) : s[i] = e}
           Q == {i \in 1..Len(s) : s[i] = e}
           f == [i \in P |-> i + 1]
<1>1. /\ t \in Seq(U) /\ Len(s) = Len(t) + 1 /\ Len(t) \in Nat /\ Head(s) = s[1]
      /\ \A i \in 1..Len(t) : t[i] = s[i + 1]
  OBVIOUS
<1> HIDE DEF t
<1>2. IsFiniteSet(P)
  BY <1>1, CountType
<1>3. f \in Bijection(P, R)
  <2>1. f \in [P -> R]
    BY <1>1
  <2>2. \A a, b \in P : f[a] = f[b] => a = b
    BY <1>1
  <2>3. ASSUME NEW j \in R PROVE \E i \in P : f[i] = j
    <3>1. j - 1 \in P /\ (j - 1) + 1 = j
      BY <1>1
    <3>2. QED
      BY <3>1
  <2> HIDE DEF f, P, R
  <2>4. QED
    BY <2>1, <2>2, <2>3 DEF Bijection, Injection, IsInjective, Surjection
<1>4. Q = (IF Head(s) = e THEN R \cup {1} ELSE R) /\ 1 \notin R
  BY <1>1
<1> HIDE DEF f, P, Q, R
<1>5. ExistsBijection(P, R)
  BY <1>3 DEF ExistsBijection
<1>6. IsFiniteSet(R) /\ Cardinality(R) = Cardinality(P)
  BY <1>2, <1>5, FS_Bijection
<1>7. Cardinality(Q) = IF Head(s) = e THEN Cardinality(R) + 1 ELSE Cardinality(R)
  BY <1>4, <1>6, FS_AddElement
<1>8. QED
  BY <1>6, <1>7 DEF Count, P, Q, t

(* What is appended holds none of it.                                        *)
LEMMA CountConcatOther ==
  ASSUME NEW U, NEW s \in Seq(U), NEW V, NEW t \in Seq(V), NEW e, e \notin V
  PROVE  Count(s \o t, e) = Count(s, e)
<1>1. \A i \in 1..Len(t) : t[i] # e
  OBVIOUS
<1>2. /\ Len(s \o t) = Len(s) + Len(t) /\ Len(s) \in Nat /\ Len(t) \in Nat
      /\ \A i \in 1..Len(s) : (s \o t)[i] = s[i]
      /\ \A i \in 1..Len(s \o t) : i > Len(s) => i - Len(s) \in 1..Len(t)
                                                 /\ (s \o t)[i] = t[i - Len(s)]
  <2>1. s \in Seq(U \cup V) /\ t \in Seq(U \cup V)
    OBVIOUS
  <2>2. QED
    BY <2>1
<1> HIDE DEF Count
<1>3. {i \in 1..Len(s \o t) : (s \o t)[i] = e} = {i \in 1..Len(s) : s[i] = e}
  BY <1>1, <1>2
<1>4. QED
  BY <1>3 DEF Count
=============================================================================
