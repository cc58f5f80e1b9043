--------------------------- MODULE SequenceLemmas ---------------------------
(***************************************************************************)
(* What the modules need of the two recursive definitions they are built   *)
(* from: FlattenSeq, which makes the flat file out of the log and the id   *)
(* out of a text, and running sums, which say where an entry begins.       *)
(*                                                                         *)
(* A recursive function is a CHOOSE: its equation says something only once *)
(* a function that satisfies it is known to exist.  That is shown here, by *)
(* induction over a set of numbers, which needs no operator as a           *)
(* parameter: a set of numbers that is not all of Nat has a least number   *)
(* outside it.                                                             *)
(***************************************************************************)
EXTENDS Integers, SequencesExt, SequenceTheorems, NaturalsInduction,
        WellFoundedInduction, TLAPS

LEMMA SetInduction ==
  ASSUME NEW T, T \subseteq Nat, 0 \in T, \A n \in T : n + 1 \in T
  PROVE  T = Nat
<1>. DEFINE rest == Nat \ T
<1>1. SUFFICES ASSUME rest # {} PROVE FALSE
  OBVIOUS
<1>2. PICK n \in rest : \A m \in rest : <<m, n>> \notin OpToRel(<, Nat)
  <2>1. rest \subseteq Nat
    OBVIOUS
  <2>. HIDE DEF rest
  <2>. QED  BY ONLY <1>1, <2>1, WFMin, NatLessThanWellFounded
<1>3. n \in Nat /\ n \notin T /\ n # 0
  OBVIOUS
<1>4. n - 1 \in Nat /\ n - 1 < n /\ (n - 1) + 1 = n
  BY <1>3
<1>5. n - 1 \in T
  BY <1>2, <1>3, <1>4 DEF OpToRel
<1>6. (n - 1) + 1 \in T
  BY <1>5
<1>. QED  BY <1>3, <1>4, <1>6

(* The same up to a bound.                                                 *)
LEMMA BoundedInduction ==
  ASSUME NEW n \in Nat, NEW T, 0 \in T, \A i \in 1..n : i - 1 \in T => i \in T
  PROVE  0..n \subseteq T
<1>. DEFINE U == {i \in Nat : i <= n => i \in T}
<1>1. 0 \in U
  OBVIOUS
<1>2. ASSUME NEW i \in U PROVE i + 1 \in U
  <2>1. i \in Nat /\ i + 1 \in Nat
    OBVIOUS
  <2>2. SUFFICES ASSUME i + 1 <= n PROVE i + 1 \in T
    BY <2>1
  <2>3. i \in T
    BY <2>1, <2>2
  <2>4. i + 1 \in 1..n /\ (i + 1) - 1 = i
    BY <2>1, <2>2
  <2>. QED  BY <2>3, <2>4
<1>3. U = Nat
  <2>1. U \subseteq Nat
    OBVIOUS
  <2>. HIDE DEF U
  <2>. QED  BY <1>1, <1>2, <2>1, SetInduction
<1>4. \A i \in 0..n : i \in U
  BY <1>3
<1>. QED  BY <1>4

(* A sequence of n steps from base.                                        *)
LEMMA Recursion ==
  ASSUME NEW D, NEW base \in D, NEW n \in Nat, NEW step \in [1..n -> [D -> D]]
  PROVE  \E g \in [0..n -> D] : g[0] = base /\ \A i \in 1..n : g[i] = step[i][g[i - 1]]
<1>. DEFINE Runs(g, m) == g[0] = base /\ \A i \in 1..m : g[i] = step[i][g[i - 1]]
            T == {m \in 0..n : \E g \in [0..m -> D] : Runs(g, m)}
<1>1. 0 \in T
  <2>. DEFINE g == [i \in 0..0 |-> base]
  <2>1. g \in [0..0 -> D] /\ g[0] = base /\ 1..0 = {} /\ 0 \in 0..n
    OBVIOUS
  <2>2. Runs(g, 0)
    <3>. HIDE DEF g
    <3>. QED  BY <2>1
  <2>. HIDE DEF g, Runs
  <2>. QED  BY <2>1, <2>2
<1>2. ASSUME NEW k \in 1..n, k - 1 \in T PROVE k \in T
  <2>. DEFINE m == k - 1
  <2>0. m \in Nat /\ k = m + 1 /\ k \in 0..n /\ m \in 0..m
    OBVIOUS
  <2>1. PICK f \in [0..m -> D] : Runs(f, m)
    BY <1>2
  <2>. DEFINE g == [i \in 0..k |-> IF i = k THEN step[k][f[m]] ELSE f[i]]
  <2>2. f[m] \in D
    BY <2>0
  <2>3. step[k][f[m]] \in D
    BY <2>2
  <2>. HIDE DEF m
  <2>4. \A i \in 0..m : i \in 0..k /\ i # k
    BY <2>0
  <2>5. \A i \in 0..k : i # k => i \in 0..m
    BY <2>0
  <2>6. g \in [0..k -> D]
    BY <2>3, <2>5
  <2>7. (\A i \in 0..m : g[i] = f[i]) /\ g[k] = step[k][f[m]]
    BY <2>0, <2>4
  <2>. HIDE DEF g
  <2>8. g[0] = base
    BY <2>0, <2>1, <2>7
  <2>9. ASSUME NEW i \in 1..k PROVE g[i] = step[i][g[i - 1]]
    <3>1. i - 1 \in 0..m /\ g[i - 1] = f[i - 1]
      BY <2>0, <2>7
    <3>2. CASE i = k
      BY <3>1, <3>2, <2>0, <2>7
    <3>3. CASE i # k
      <4>1. i \in 1..m /\ i \in 0..m
        BY <3>3, <2>0
      <4>. QED  BY <4>1, <3>1, <2>1, <2>7
    <3>. QED  BY <3>2, <3>3
  <2>10. Runs(g, k)
    BY <2>8, <2>9
  <2>. HIDE DEF Runs
  <2>. QED  BY <2>0, <2>6, <2>10
<1>3. n \in T
  <2>. HIDE DEF T
  <2>1. 0..n \subseteq T
    BY <1>1, <1>2, BoundedInduction
  <2>. QED  BY <2>1
<1>. QED  BY <1>3

(* Linear arithmetic about terms the solver would look into.             *)
LEMMA AtMostPlus ==
  ASSUME NEW a, NEW b, NEW c, NEW d, a \in Nat, b \in Nat, d \in Nat, a <= b, c = b + d
  PROVE  a <= c
OBVIOUS

(* Running sums, and that they grow.                                       *)
LEMMA SumsExist ==
  ASSUME NEW n \in Nat, NEW size, size \in [1..n -> Nat]
  PROVE  \E g \in [0..n -> Nat] : g[0] = 0 /\ \A i \in 1..n : g[i] = g[i - 1] + size[i]
<1>. DEFINE D == Nat
            none == 0
            step == [i \in 1..n |-> [d \in D |-> d + size[i]]]
<1>1. step \in [1..n -> [D -> D]]
  OBVIOUS
<1>2. PICK g \in [0..n -> D] : g[0] = none /\ \A i \in 1..n : g[i] = step[i][g[i - 1]]
  <2>1. n \in Nat /\ none \in D
    OBVIOUS
  <2>. HIDE DEF D, none, step
  <2>. QED  BY ONLY <1>1, <2>1, Recursion
<1>3. ASSUME NEW i \in 1..n PROVE g[i] = g[i - 1] + size[i]
  <2>1. i - 1 \in 0..n
    OBVIOUS
  <2>2. g[i - 1] \in Nat
    BY <2>1
  <2>. QED  BY <2>2, <1>2
<1>. QED  BY <1>2, <1>3

LEMMA SumsGrow ==
  ASSUME NEW n \in Nat, NEW g, NEW size,
         \A i \in 0..n : g[i] \in Nat,
         \A i \in 1..n : size[i] \in Nat /\ g[i] = g[i - 1] + size[i],
         NEW i \in 0..n, NEW j \in i..n
  PROVE  g[i] <= g[j]
<1>. DEFINE T == {k \in 0..n : i <= k => g[i] <= g[k]}
<1>1. 0 \in T
  OBVIOUS
<1>2. ASSUME NEW k \in 1..n, k - 1 \in T PROVE k \in T
  <2>1. k \in 0..n /\ k - 1 \in 0..n
    OBVIOUS
  <2>2. SUFFICES ASSUME i <= k PROVE g[i] <= g[k]
    BY <2>1
  <2>3. g[k] = g[k - 1] + size[k] /\ g[k - 1] \in Nat /\ size[k] \in Nat /\ g[i] \in Nat
    BY <2>1
  <2>4. CASE i = k
    BY <2>3, <2>4
  <2>5. CASE i # k
    <3>1. g[i] <= g[k - 1]
      BY <1>2, <2>2, <2>5
    <3>. QED  BY ONLY <2>3, <3>1, AtMostPlus
  <2>. QED  BY <2>4, <2>5
<1>3. 0..n \subseteq T
  <2>1. n \in Nat
    OBVIOUS
  <2>. HIDE DEF T
  <2>. QED  BY ONLY <2>1, <1>1, <1>2, BoundedInduction
<1>4. j \in 0..n
  OBVIOUS
<1>. QED  BY <1>3, <1>4

-----------------------------------------------------------------------------
(* FlattenSeq.                                                             *)

(* The concatenations of the first elements of s.                          *)
Concats(s, g) == /\ g[0] = <<>>
                 /\ \A i \in 1..Len(s) : g[i] = g[i - 1] \o s[i]

LEMMA ConcatsExist ==
  ASSUME NEW S, NEW s, s \in Seq(Seq(S))
  PROVE  \E g \in [0..Len(s) -> Seq(S)] : Concats(s, g)
<1>. DEFINE D == Seq(S)
            n == Len(s)
            step == [i \in 1..n |-> [d \in D |-> d \o s[i]]]
            none == <<>>
<1>1. n \in Nat /\ none \in D
  OBVIOUS
<1>2. /\ \A i \in 1..n : s[i] \in D
      /\ \A d, e \in D : d \o e \in D
  OBVIOUS
<1>3. step \in [1..n -> [D -> D]]
  <2>. HIDE DEF D, n
  <2>. QED  BY <1>1, <1>2
<1>4. PICK g \in [0..n -> D] : g[0] = none /\ \A i \in 1..n : g[i] = step[i][g[i - 1]]
  <2>. HIDE DEF D, n, step, none
  <2>. QED  BY ONLY <1>1, <1>3, Recursion
<1>5. ASSUME NEW i \in 1..n PROVE g[i] = g[i - 1] \o s[i]
  <2>1. i - 1 \in 0..n
    BY <1>1
  <2>2. g[i - 1] \in D
    BY <2>1
  <2>. HIDE DEF D, n
  <2>. QED  BY <2>2, <1>4
<1>. QED  BY <1>4, <1>5 DEF Concats

(* The function of FlattenSeq is that one without its beginning.           *)
LEMMA FlattenIsConcats ==
  ASSUME NEW S, NEW s, s \in Seq(Seq(S)),
         NEW g \in [0..Len(s) -> Seq(S)], Concats(s, g)
  PROVE  FlattenSeq(s) = g[Len(s)]
<1>. DEFINE n == Len(s)
            Is(f) == f = [i \in 1..n |-> IF i = 1 THEN s[i] ELSE f[i - 1] \o s[i]]
            chosen == CHOOSE f : Is(f)
            h == [i \in 1..n |-> g[i]]
<1>1. n \in Nat
  OBVIOUS
<1>2. CASE n = 0
  BY <1>2 DEF FlattenSeq, Concats
<1>3. CASE n # 0
  <2>1. ASSUME NEW i \in 1..n
        PROVE  g[i] = IF i = 1 THEN s[i] ELSE g[i - 1] \o s[i]
    <3>1. g[i] = g[i - 1] \o s[i]
      BY DEF Concats
    <3>2. g[0] = <<>> /\ s[i] \in Seq(S)
      BY DEF Concats
    <3>3. <<>> \o s[i] = s[i]
      BY <3>2
    <3>4. CASE i = 1
      <4>1. i - 1 = 0
        BY <3>4
      <4>2. g[i] = <<>> \o s[i]
        BY ONLY <3>1, <3>2, <4>1
      <4>. QED  BY ONLY <3>3, <3>4, <4>2
    <3>5. CASE i # 1
      BY <3>1, <3>5
    <3>. QED  BY <3>4, <3>5
  <2>2. \A i \in 1..n : i # 1 => i - 1 \in 1..n /\ h[i - 1] = g[i - 1]
    BY <1>1
  <2>3. h = [i \in 1..n |-> IF i = 1 THEN s[i] ELSE h[i - 1] \o s[i]]
    <3>1. ASSUME NEW i \in 1..n
          PROVE  g[i] = IF i = 1 THEN s[i] ELSE h[i - 1] \o s[i]
      <4>. HIDE DEF h, n
      <4>. QED  BY ONLY <2>1, <2>2, i \in 1..n
    <3>. QED  BY <3>1
  <2>4. Is(h)
    <3>. HIDE DEF h
    <3>. QED  BY <2>3
  <2>5. Is(chosen)
    <3>. HIDE DEF h, Is
    <3>. QED  BY <2>4
  <2>6. \A i \in 1..n : chosen[i] = IF i = 1 THEN s[i] ELSE chosen[i - 1] \o s[i]
    <3>. HIDE DEF chosen
    <3>. QED  BY <2>5
  <2>7. n \in {i \in 0..n : i = 0 \/ chosen[i] = g[i]}
    <3>. DEFINE T == {i \in 0..n : i = 0 \/ chosen[i] = g[i]}
    <3>. HIDE DEF chosen, n
    <3>1. 0 \in T
      BY <1>1
    <3>2. ASSUME NEW i \in 1..n, i - 1 \in T PROVE i \in T
      <4>0. i \in 0..n
        BY <1>1
      <4>1. CASE i = 1
        <5>1. chosen[i] = s[i] /\ g[i] = s[i]
          BY ONLY <4>1, <2>6, <2>1, i \in 1..n
        <5>. QED  BY <4>0, <5>1
      <4>2. CASE i # 1
        <5>1. chosen[i - 1] = g[i - 1]
          BY <4>2, <3>2, <1>1
        <5>2. chosen[i] = g[i]
          BY ONLY <4>2, <5>1, <2>6, <2>1, i \in 1..n
        <5>. QED  BY <4>0, <5>2
      <4>. QED  BY <4>1, <4>2
    <3>. HIDE DEF T
    <3>3. 0..n \subseteq T
      BY ONLY <1>1, <3>1, <3>2, BoundedInduction
    <3>. QED  BY <3>3, <1>1 DEF T
  <2>8. chosen[n] = g[n]
    <3>. HIDE DEF chosen, n
    <3>. QED  BY <2>7, <1>3
  <2>. QED  BY <1>3, <2>8 DEF FlattenSeq
<1>. QED  BY <1>2, <1>3

(* The flat file up to the end of the i-th element.                        *)
Upto(s, i) == FlattenSeq(SubSeq(s, 1, i))

LEMMA FlattenUnfolds ==
  ASSUME NEW S, NEW s, s \in Seq(Seq(S))
  PROVE  /\ \A i \in 0..Len(s) : Upto(s, i) \in Seq(S)
         /\ Upto(s, 0) = <<>>
         /\ \A i \in 1..Len(s) : Upto(s, i) = Upto(s, i - 1) \o s[i]
         /\ Upto(s, Len(s)) = FlattenSeq(s)
<1>1. PICK g \in [0..Len(s) -> Seq(S)] : Concats(s, g)
  BY ConcatsExist
<1>2. ASSUME NEW i \in 0..Len(s) PROVE Upto(s, i) = g[i]
  <2>. DEFINE t == SubSeq(s, 1, i)
              h == [j \in 0..i |-> g[j]]
  <2>1. t \in Seq(Seq(S)) /\ Len(t) = i /\ \A j \in 1..i : t[j] = s[j]
    OBVIOUS
  <2>2. h \in [0..i -> Seq(S)]
    <3>1. \A j \in 0..i : j \in 0..Len(s)
      OBVIOUS
    <3>. QED  BY <3>1
  <2>3. h[0] = <<>> /\ \A j \in 1..i : h[j] = h[j - 1] \o t[j]
    <3>1. ASSUME NEW j \in 1..i PROVE h[j] = h[j - 1] \o t[j]
      <4>1. j \in 1..Len(s) /\ j - 1 \in 0..i /\ j \in 0..i
        OBVIOUS
      <4>2. g[j] = g[j - 1] \o s[j]
        BY <1>1, <4>1 DEF Concats
      <4>. HIDE DEF t
      <4>. QED  BY <2>1, <4>1, <4>2
    <3>2. h[0] = <<>>
      BY <1>1 DEF Concats
    <3>. QED  BY <3>1, <3>2
  <2>4. Concats(t, h)
    <3>. HIDE DEF t, h
    <3>. QED  BY <2>1, <2>3 DEF Concats
  <2>5. FlattenSeq(t) = h[i]
    <3>. HIDE DEF t, h
    <3>. QED  BY ONLY <2>1, <2>2, <2>4, FlattenIsConcats
  <2>. QED  BY <2>5 DEF Upto
<1>3. Upto(s, 0) = <<>>
  BY <1>1, <1>2 DEF Concats
<1>4. ASSUME NEW i \in 1..Len(s) PROVE Upto(s, i) = Upto(s, i - 1) \o s[i]
  <2>1. i \in 0..Len(s) /\ i - 1 \in 0..Len(s)
    OBVIOUS
  <2>. QED  BY <1>1, <1>2, <2>1 DEF Concats
<1>5. SubSeq(s, 1, Len(s)) = s
  OBVIOUS
<1>. QED  BY <1>2, <1>3, <1>4, <1>5 DEF Upto

LEMMA FlattenType ==
  ASSUME NEW S, NEW s, s \in Seq(Seq(S))
  PROVE  FlattenSeq(s) \in Seq(S)
<1>1. Len(s) \in 0..Len(s)
  OBVIOUS
<1>. QED  BY <1>1, FlattenUnfolds

LEMMA FlattenAppend ==
  ASSUME NEW S, NEW s, s \in Seq(Seq(S)), NEW e, e \in Seq(S)
  PROVE  FlattenSeq(Append(s, e)) = FlattenSeq(s) \o e
<1>. DEFINE t == Append(s, e)
            n == Len(s)
<1>1. /\ t \in Seq(Seq(S)) /\ Len(t) = n + 1 /\ t[n + 1] = e /\ n \in Nat
      /\ SubSeq(t, 1, n) = s
  OBVIOUS
<1>2. n + 1 \in 1..Len(t) /\ (n + 1) - 1 = n
  BY <1>1
<1>3. Upto(t, n + 1) = Upto(t, n) \o e
  <2>. HIDE DEF t, n
  <2>. QED  BY <1>1, <1>2, FlattenUnfolds
<1>4. Upto(t, n + 1) = FlattenSeq(t)
  <2>. HIDE DEF t, n
  <2>. QED  BY <1>1, FlattenUnfolds
<1>. QED  BY <1>1, <1>3, <1>4 DEF Upto

LEMMA ConcatParts ==
  ASSUME NEW S, NEW a, NEW b, a \in Seq(S), b \in Seq(S)
  PROVE  /\ Len(a) \in Nat /\ Len(b) \in Nat
         /\ a \o b \in Seq(S) /\ Len(a \o b) = Len(a) + Len(b)
         /\ \A x \in 1..Len(a) : (a \o b)[x] = a[x]
         /\ \A x \in 1..Len(b) : (a \o b)[Len(a) + x] = b[x]
OBVIOUS

(* What is in the flat file stays where it is as more is put behind it.    *)
LEMMA FlattenGrows ==
  ASSUME NEW S, NEW s, s \in Seq(Seq(S)), NEW i \in 0..Len(s), NEW j \in i..Len(s)
  PROVE  /\ Len(Upto(s, i)) <= Len(Upto(s, j))
         /\ \A x \in 1..Len(Upto(s, i)) : Upto(s, j)[x] = Upto(s, i)[x]
<1>. DEFINE n == Len(s)
            U(k) == Upto(s, k)
            Grown(k) == /\ Len(U(i)) <= Len(U(k))
                        /\ \A x \in 1..Len(U(i)) : U(k)[x] = U(i)[x]
            T == {k \in 0..n : k < i \/ Grown(k)}
<1>1. n \in Nat /\ j \in 0..n /\ ~(j < i)
  OBVIOUS
<1>2. \A k \in 0..n : U(k) \in Seq(S)
  BY FlattenUnfolds
<1>3. /\ \A k \in 1..n : U(k) = U(k - 1) \o s[k]
      /\ \A k \in 1..n : s[k] \in Seq(S)
  <2>1. \A k \in 1..n : U(k) = U(k - 1) \o s[k]
    BY FlattenUnfolds
  <2>2. \A k \in 1..n : s[k] \in Seq(S)
    OBVIOUS
  <2>. HIDE DEF U
  <2>. QED  BY <2>1, <2>2
<1>4. 0 \in T
  BY <1>1
<1>5. ASSUME NEW k \in 1..n, k - 1 \in T PROVE k \in T
  <2>0. k \in 0..n /\ k - 1 \in 0..n
    BY <1>1
  <2>1. CASE k < i
    BY <2>0, <2>1
  <2>2. CASE k = i
    BY <2>0, <2>2, <1>2
  <2>3. CASE k > i
    <3>1. /\ Len(U(i)) <= Len(U(k - 1))
          /\ \A x \in 1..Len(U(i)) : U(k - 1)[x] = U(i)[x]
      BY <1>5, <2>3
    <3>. HIDE DEF U
    <3>2. U(k - 1) \in Seq(S) /\ U(i) \in Seq(S) /\ s[k] \in Seq(S) /\ U(k) = U(k - 1) \o s[k]
      BY ONLY <1>1, <1>2, <1>3, <2>0, i \in 0..n, k \in 1..n
    <3>3. /\ Len(U(k - 1)) \in Nat /\ Len(s[k]) \in Nat
          /\ Len(U(k)) = Len(U(k - 1)) + Len(s[k])
          /\ \A x \in 1..Len(U(k - 1)) : U(k)[x] = U(k - 1)[x]
      BY ONLY <3>2, ConcatParts
    <3>4. Len(U(i)) \in Nat
      BY ONLY <3>2, ConcatParts
    <3>5. Grown(k)
      <4>1. Len(U(i)) <= Len(U(k))
        <5>1. Len(U(i)) <= Len(U(k - 1))
          BY ONLY <3>1
        <5>2. /\ Len(U(k - 1)) \in Nat /\ Len(s[k]) \in Nat
              /\ Len(U(k)) = Len(U(k - 1)) + Len(s[k])
          BY ONLY <3>3
        <5>. QED  BY ONLY <5>1, <5>2, <3>4, AtMostPlus
      <4>2. ASSUME NEW x \in 1..Len(U(i)) PROVE U(k)[x] = U(i)[x]
        <5>1. x \in 1..Len(U(k - 1))
          BY ONLY <3>1, <3>3, <3>4, x \in 1..Len(U(i))
        <5>2. U(k)[x] = U(k - 1)[x]
          BY ONLY <3>3, <5>1
        <5>3. U(k - 1)[x] = U(i)[x]
          BY ONLY <3>1, x \in 1..Len(U(i))
        <5>. QED  BY ONLY <5>2, <5>3
      <4>. QED  BY ONLY <4>1, <4>2
    <3>. QED  BY <2>0, <3>5
  <2>. QED  BY <2>1, <2>2, <2>3, <2>0
<1>6. 0..n \subseteq T
  <2>. HIDE DEF T, n
  <2>. QED  BY ONLY <1>1, <1>4, <1>5, BoundedInduction
<1>7. j \in T
  <2>. HIDE DEF T
  <2>. QED  BY <1>6, <1>1
<1>. QED  BY <1>7, <1>1

LEMMA PieceOfSeq ==
  ASSUME NEW S, NEW s, s \in Seq(S), NEW from, NEW to,
         from \in Nat, to \in Nat, from <= to, to <= Len(s)
  PROVE  /\ SubSeq(s, from + 1, to) \in Seq(S)
         /\ Len(SubSeq(s, from + 1, to)) = to - from
         /\ \A x \in 1..(to - from) : SubSeq(s, from + 1, to)[x] = s[from + x]
OBVIOUS

(* The bytes of an element, where they are in the flat file.               *)
ElementIsThere(S, s, i) ==
  /\ s[i] \in Seq(S) /\ Len(s[i]) \in Nat
  /\ FlattenSeq(s) \in Seq(S) /\ Len(FlattenSeq(s)) \in Nat
  /\ Len(Upto(s, i - 1)) \in Nat
  /\ Len(Upto(s, i)) = Len(Upto(s, i - 1)) + Len(s[i])
  /\ Len(Upto(s, i)) <= Len(FlattenSeq(s))
  /\ \A x \in 1..Len(s[i]) : FlattenSeq(s)[Len(Upto(s, i - 1)) + x] = s[i][x]

LEMMA FlattenElement ==
  ASSUME NEW S, NEW s, s \in Seq(Seq(S)), NEW i \in 1..Len(s)
  PROVE  ElementIsThere(S, s, i)
<1>. DEFINE U(k) == Upto(s, k)
            base == Len(U(i - 1))
            all == FlattenSeq(s)
            own == s[i]
<1>1. /\ i - 1 \in 0..Len(s) /\ i \in 0..Len(s) /\ Len(s) \in i..Len(s)
  OBVIOUS
<1>2. U(i - 1) \in Seq(S) /\ U(i) \in Seq(S) /\ all \in Seq(S) /\ all = U(Len(s))
  <2>1. \A k \in 0..Len(s) : U(k) \in Seq(S)
    BY FlattenUnfolds
  <2>2. all = U(Len(s))
    BY FlattenUnfolds
  <2>3. all \in Seq(S)
    BY FlattenType
  <2>. HIDE DEF U, all
  <2>. QED  BY <1>1, <2>1, <2>2, <2>3
<1>3. own \in Seq(S) /\ U(i) = U(i - 1) \o own
  <2>1. \A k \in 1..Len(s) : U(k) = U(k - 1) \o s[k]
    BY FlattenUnfolds
  <2>2. own \in Seq(S)
    OBVIOUS
  <2>. HIDE DEF U
  <2>. QED  BY <2>1, <2>2
<1>4. /\ Len(U(i)) <= Len(all)
      /\ \A x \in 1..Len(U(i)) : all[x] = U(i)[x]
  <2>1. /\ Len(Upto(s, i)) <= Len(Upto(s, Len(s)))
        /\ \A x \in 1..Len(Upto(s, i)) : Upto(s, Len(s))[x] = Upto(s, i)[x]
    BY <1>1, FlattenGrows
  <2>. QED  BY <1>2, <2>1
<1>. HIDE DEF U, all, own
<1>5. /\ base \in Nat /\ Len(own) \in Nat /\ Len(all) \in Nat
      /\ Len(U(i)) = base + Len(own)
      /\ \A x \in 1..Len(own) : U(i)[base + x] = own[x]
  <2>1. Len(all) \in Nat
    BY ONLY <1>2, ConcatParts
  <2>2. U(i - 1) \in Seq(S) /\ own \in Seq(S)
    BY ONLY <1>2, <1>3
  <2>3. /\ base \in Nat /\ Len(own) \in Nat
        /\ Len(U(i - 1) \o own) = base + Len(own)
        /\ \A x \in 1..Len(own) : (U(i - 1) \o own)[base + x] = own[x]
    BY ONLY <2>2, ConcatParts
  <2>. HIDE DEF base
  <2>. QED  BY ONLY <1>3, <2>1, <2>3
<1>6. \A x \in 1..Len(own) : all[base + x] = own[x]
  <2>. HIDE DEF base
  <2>. QED  BY ONLY <1>4, <1>5
<1>7. own \in Seq(S) /\ all \in Seq(S)
  BY ONLY <1>2, <1>3
<1>8. Len(U(i)) <= Len(all)
  BY ONLY <1>4
<1>9. base \in Nat /\ Len(own) \in Nat /\ Len(all) \in Nat /\ Len(U(i)) = base + Len(own)
  BY ONLY <1>5
<1>. QED  BY ONLY <1>6, <1>7, <1>8, <1>9 DEF all, own, U, ElementIsThere

(* A piece of the flat file that lies in one element is that of the        *)
(* element.                                                                *)
LEMMA FlattenSlice ==
  ASSUME NEW S, NEW s, s \in Seq(Seq(S)), NEW i \in 1..Len(s),
         NEW from \in Nat, NEW to \in Nat,
         Len(Upto(s, i - 1)) <= from, from <= to, to <= Len(Upto(s, i))
  PROVE  /\ to <= Len(FlattenSeq(s))
         /\ SubSeq(FlattenSeq(s), from + 1, to)
              = SubSeq(s[i], from - Len(Upto(s, i - 1)) + 1, to - Len(Upto(s, i - 1)))
<1>0. ElementIsThere(S, s, i)
  BY ONLY s \in Seq(Seq(S)), i \in 1..Len(s), FlattenElement
<1>. DEFINE U(k) == Upto(s, k)
            base == Len(U(i - 1))
            all == FlattenSeq(s)
            own == s[i]
<1>1. /\ own \in Seq(S) /\ Len(own) \in Nat
      /\ all \in Seq(S) /\ Len(all) \in Nat
      /\ base \in Nat
      /\ Len(U(i)) = base + Len(own)
      /\ Len(U(i)) <= Len(all)
      /\ \A x \in 1..Len(own) : all[base + x] = own[x]
  BY ONLY <1>0 DEF ElementIsThere
<1>. HIDE DEF U, all, own, base
<1>2. own \in Seq(S) /\ all \in Seq(S)
  BY ONLY <1>1
<1>3. Len(own) \in Nat /\ Len(all) \in Nat /\ base \in Nat
      /\ Len(U(i)) = base + Len(own) /\ Len(U(i)) <= Len(all)
  BY ONLY <1>1
<1>6. /\ from \in Nat /\ to \in Nat /\ base <= from /\ from <= to /\ to <= Len(U(i))
  BY DEF base, U
<1>7. \A x \in 1..Len(own) : all[base + x] = own[x]
  BY ONLY <1>1
<1>. DEFINE a == SubSeq(all, from + 1, to)
            b == SubSeq(own, from - base + 1, to - base)
            n == to - from
<1>8. /\ to <= Len(all) /\ n \in Nat /\ to - base <= Len(own)
      /\ from - base + 1 >= 1
  BY ONLY <1>3, <1>6
<1>9. a \in Seq(S) /\ Len(a) = n /\ \A x \in 1..n : a[x] = all[from + x]
  <2>1. from \in Nat /\ to \in Nat /\ from <= to /\ to <= Len(all) /\ all \in Seq(S)
    BY ONLY <1>2, <1>6, <1>8
  <2>. QED  BY ONLY <2>1, PieceOfSeq
<1>10. b \in Seq(S) /\ Len(b) = n /\ \A x \in 1..n : b[x] = own[from - base + x]
  <2>1. from - base \in Nat /\ to - base \in Nat /\ from - base <= to - base
        /\ (to - base) - (from - base) = n
    BY ONLY <1>3, <1>6
  <2>2. PICK p \in Nat, q \in Nat : p = from - base /\ q = to - base
    BY ONLY <2>1
  <2>3. p <= q /\ q <= Len(own) /\ q - p = n
    BY ONLY <1>8, <2>1, <2>2
  <2>4. own \in Seq(S)
    BY ONLY <1>2
  <2>5. /\ SubSeq(own, p + 1, q) \in Seq(S)
        /\ Len(SubSeq(own, p + 1, q)) = q - p
        /\ \A x \in 1..(q - p) : SubSeq(own, p + 1, q)[x] = own[p + x]
    BY ONLY <2>3, <2>4, p \in Nat, q \in Nat, PieceOfSeq
  <2>6. SubSeq(own, p + 1, q) = b
    BY ONLY <2>2
  <2>. HIDE DEF b, n
  <2>. QED  BY ONLY <2>2, <2>3, <2>5, <2>6
<1>11. \A x \in 1..n : a[x] = b[x]
  <2>. HIDE DEF a, b
  <2>1. \A x \in 1..n : from - base + x \in 1..Len(own) /\ base + (from - base + x) = from + x
    BY ONLY <1>3, <1>6, <1>8
  <2>2. \A x \in 1..n : b[x] = own[from - base + x]
    BY ONLY <1>10
  <2>3. \A x \in 1..n : a[x] = all[from + x]
    BY ONLY <1>9
  <2>. HIDE DEF n
  <2>. QED  BY ONLY <2>1, <1>7, <2>2, <2>3
<1>12. a = b
  <2>. HIDE DEF a, b, n
  <2>. QED  BY ONLY <1>9, <1>10, <1>11, SeqEqual
<1>. QED  BY <1>8, <1>12 DEF all, own, base, U
-----------------------------------------------------------------------------
(* Pieces of a sequence.                                                   *)

LEMMA PiecesJoin ==
  ASSUME NEW S, NEW s, s \in Seq(S), NEW a, NEW b, NEW c,
         a \in Nat, b \in Nat, c \in Nat, a <= b, b <= c, c <= Len(s)
  PROVE  SubSeq(s, a + 1, b) \o SubSeq(s, b + 1, c) = SubSeq(s, a + 1, c)
<1>. DEFINE l == SubSeq(s, a + 1, b)
            r == SubSeq(s, b + 1, c)
            t == SubSeq(s, a + 1, c)
            u == l \o r
<1>0. a <= c /\ b <= Len(s)
  BY LenProperties
<1>1. l \in Seq(S) /\ Len(l) = b - a /\ \A x \in 1..(b - a) : l[x] = s[a + x]
  BY <1>0, PieceOfSeq
<1>2. r \in Seq(S) /\ Len(r) = c - b /\ \A x \in 1..(c - b) : r[x] = s[b + x]
  BY <1>0, PieceOfSeq
<1>3. t \in Seq(S) /\ Len(t) = c - a /\ \A x \in 1..(c - a) : t[x] = s[a + x]
  BY <1>0, PieceOfSeq
<1>. HIDE DEF l, r, t
<1>4. /\ u \in Seq(S) /\ Len(u) = Len(l) + Len(r)
      /\ \A x \in 1..Len(l) : u[x] = l[x]
      /\ \A x \in 1..Len(r) : u[Len(l) + x] = r[x]
  <2>1. l \in Seq(S) /\ r \in Seq(S)
    BY ONLY <1>1, <1>2
  <2>. QED  BY ONLY <2>1, ConcatParts
<1>5. \A x \in 1..(c - a) : u[x] = t[x]
  <2>. TAKE x \in 1..(c - a)
  <2>. HIDE DEF u
  <2>1. CASE x <= b - a
    <3>1. x \in 1..(b - a)
      BY <2>1
    <3>. QED  BY <3>1, <1>1, <1>3, <1>4
  <2>2. CASE ~(x <= b - a)
    <3>1. PICK y \in 1..(c - b) : x = (b - a) + y
      <4>1. x - (b - a) \in 1..(c - b) /\ x = (b - a) + (x - (b - a))
        BY <2>2
      <4>. QED  BY <4>1
    <3>2. u[x] = r[y]
      BY ONLY <1>1, <1>2, <1>4, <3>1, y \in 1..(c - b)
    <3>3. r[y] = s[b + y]
      BY ONLY <1>2, y \in 1..(c - b)
    <3>4. t[x] = s[a + x]
      BY ONLY <1>3, x \in 1..(c - a)
    <3>5. a + x = b + y
      BY <3>1
    <3>. QED  BY ONLY <3>2, <3>3, <3>4, <3>5
  <2>. QED  BY <2>1, <2>2
<1>6. Len(u) = c - a
  <2>. HIDE DEF u
  <2>. QED  BY ONLY <1>1, <1>2, <1>4, a \in Nat, b \in Nat, c \in Nat
<1>7. u = t
  <2>. HIDE DEF u
  <2>. QED  BY ONLY <1>3, <1>4, <1>5, <1>6, SeqEqual
<1>. QED  BY <1>7 DEF l, r, t

(* What is put behind a sequence is what it ends with.                     *)
LEMMA SuffixOfConcat ==
  ASSUME NEW S, NEW a, NEW b, a \in Seq(S), b \in Seq(S)
  PROVE  IsSuffix(b, a \o b)
<1>. DEFINE t == a \o b
            rb == [i \in 1..Len(b) |-> b[(Len(b) - i) + 1]]
            rt == [i \in 1..Len(t) |-> t[(Len(t) - i) + 1]]
            p == SubSeq(rb, 1, Len(b))
            q == SubSeq(rt, 1, Len(b))
<1>1. /\ Len(a) \in Nat /\ Len(b) \in Nat /\ t \in Seq(S) /\ Len(t) = Len(a) + Len(b)
      /\ \A x \in 1..Len(b) : t[Len(a) + x] = b[x]
  BY ConcatParts
<1>. HIDE DEF t
<1>2. rb \in Seq(S) /\ Len(rb) = Len(b)
  <2>1. \A i \in 1..Len(b) : b[(Len(b) - i) + 1] \in S
    OBVIOUS
  <2>. QED  BY <1>1, <2>1
<1>3. rt \in Seq(S) /\ Len(rt) = Len(t)
  <2>1. \A i \in 1..Len(t) : t[(Len(t) - i) + 1] \in S
    BY <1>1
  <2>. QED  BY <1>1, <2>1
<1>4. \A i \in 1..Len(b) : rt[i] = rb[i]
  <2>. TAKE i \in 1..Len(b)
  <2>0. (Len(b) - i) + 1 \in 1..Len(b)
    BY ONLY <1>1, i \in 1..Len(b)
  <2>1. PICK x \in 1..Len(b) : x = (Len(b) - i) + 1
    BY ONLY <2>0
  <2>2. i \in 1..Len(t) /\ (Len(t) - i) + 1 = Len(a) + x
    BY <1>1, <2>1
  <2>3. rt[i] = t[Len(a) + x]
    BY <2>2
  <2>4. rb[i] = b[x]
    BY <2>1
  <2>. QED  BY <1>1, <2>3, <2>4
<1>. HIDE DEF rb, rt
<1>5. p = q
  <2>1. p \in Seq(S) /\ Len(p) = Len(b) /\ \A i \in 1..Len(b) : p[i] = rb[i]
    BY <1>1, <1>2
  <2>2. q \in Seq(S) /\ Len(q) = Len(b) /\ \A i \in 1..Len(b) : q[i] = rt[i]
    BY <1>1, <1>3
  <2>. HIDE DEF p, q
  <2>. QED  BY ONLY <1>4, <2>1, <2>2, SeqEqual
<1>6. Reverse(b) = rb /\ Reverse(t) = rt
  BY DEF Reverse, rb, rt
<1>7. Len(rb) <= Len(rt) /\ Len(rb) = Len(b)
  BY <1>1, <1>2, <1>3
<1>8. IsPrefix(rb, rt)
  BY <1>5, <1>7 DEF IsPrefix
<1>. QED  BY <1>6, <1>8 DEF IsSuffix, t

LEMMA SuffixOfThree ==
  ASSUME NEW S, NEW a, NEW b, NEW c, a \in Seq(S), b \in Seq(S), c \in Seq(S)
  PROVE  IsSuffix(c, a \o (b \o c))
<1>1. (a \o b) \o c = a \o (b \o c)
  BY ConcatAssociative
<1>2. a \o b \in Seq(S)
  BY ConcatParts
<1>3. IsSuffix(c, (a \o b) \o c)
  BY ONLY <1>2, c \in Seq(S), SuffixOfConcat
<1>. QED  BY ONLY <1>1, <1>3

(* The least number of a set.                                              *)
LEMMA MinIsLeast ==
  ASSUME NEW T, T \subseteq Nat, T # {}
  PROVE  Min(T) \in T /\ \A n \in T : Min(T) <= n
<1>1. PICK n \in T : \A m \in T : <<m, n>> \notin OpToRel(<, Nat)
  BY ONLY T \subseteq Nat, T # {}, WFMin, NatLessThanWellFounded
<1>2. ASSUME NEW m \in T PROVE n <= m
  <2>1. m \in Nat /\ n \in Nat
    OBVIOUS
  <2>2. ~(m < n)
    BY <1>1, <2>1 DEF OpToRel
  <2>. QED  BY <2>1, <2>2
<1>3. \E x \in T : \A y \in T : x <= y
  BY <1>2
<1>. QED  BY <1>3 DEF Min

(* The smaller of two numbers.                                             *)
LEMMA MinOfTwo ==
  ASSUME NEW a, NEW b, a \in Nat, b \in Nat
  PROVE  /\ Min({a, b}) \in Nat
         /\ Min({a, b}) <= a /\ Min({a, b}) <= b
         /\ Min({a, b}) = a \/ Min({a, b}) = b
<1>1. Min({a, b}) \in {a, b} /\ \A n \in {a, b} : Min({a, b}) <= n
  <2>1. {a, b} \subseteq Nat /\ {a, b} # {}
    OBVIOUS
  <2>. QED  BY ONLY <2>1, MinIsLeast
<1>. QED  BY <1>1

=============================================================================
