---------------------------- MODULE Retain_proofs ----------------------------
(***************************************************************************)
(* What retain leaves of a list: lemmas about the lists that the client    *)
(* takes rooms, messages and toasts out of.                                *)
(***************************************************************************)
EXTENDS Retain, Integers, WellFoundedInduction, TLAPS

\* A set of naturals that is not empty has a least element.
LEMMA LeastNatural ==
  ASSUME NEW T, T \subseteq Nat, T # {}
  PROVE  \E m \in T : \A n \in T : ~(n < m)
<1> DEFINE R == OpToRel(<, Nat)
<1>1. IsWellFoundedOn(R, Nat)
  BY NatLessThanWellFounded
<1>2. \A a, b \in Nat : a < b => <<a, b>> \in R
  BY DEF OpToRel
<1> HIDE DEF R
<1>3. \E x \in T : \A y \in T : ~ (<<y, x>> \in R)
  BY <1>1, WFMin
<1> QED
  BY <1>2, <1>3

\* Induction, for sets.
LEMMA Induction ==
  ASSUME NEW T, 0 \in T, \A n \in Nat : n \in T => n + 1 \in T
  PROVE  Nat \subseteq T
<1> SUFFICES ASSUME NEW k \in Nat, k \notin T PROVE FALSE
  OBVIOUS
<1> DEFINE B == Nat \ T
<1>1. PICK m \in B : \A n \in B : ~(n < m)
  BY LeastNatural
<1>2. m # 0 /\ m \in Nat
  OBVIOUS
<1>3. m - 1 \in Nat /\ m - 1 < m /\ m - 1 + 1 = m
  BY <1>2
<1>4. m - 1 \in T
  BY <1>1, <1>3
<1> QED
  BY <1>3, <1>4

\* A function that is upTo of Retained as far as n.
Unrolls(f, list, places, n) ==
    f = [m \in 0..n |->
           IF m = 0 THEN <<>>
           ELSE IF m \in places THEN Append(f[m - 1], list[m]) ELSE f[m - 1]]

\* upTo itself.
UpTo(list, places) == CHOOSE f : Unrolls(f, list, places, Len(list))

\* Retained is its last value.
LEMMA RetainedIsLast ==
  ASSUME NEW list, NEW places
  PROVE  Retained(list, places) = UpTo(list, places)[Len(list)]
BY DEF Retained, UpTo, Unrolls

\* There is such a function, however long the list is ...
LEMMA UnrollExists ==
  ASSUME NEW list, NEW places, NEW n \in Nat
  PROVE  \E f : Unrolls(f, list, places, n)
<1> DEFINE T == {m \in Nat : \E f : Unrolls(f, list, places, m)}
<1>1. 0 \in T
  <2> DEFINE z == [m \in 0..0 |-> <<>>]
  <2>1. Unrolls(z, list, places, 0)
    BY DEF Unrolls
  <2> QED
    BY <2>1
<1>2. ASSUME NEW m \in Nat, m \in T PROVE m + 1 \in T
  <2>1. PICK f : Unrolls(f, list, places, m)
    BY <1>2
  <2> DEFINE last == IF m + 1 \in places THEN Append(f[m], list[m + 1]) ELSE f[m]
             g == [i \in 0..(m + 1) |-> IF i = m + 1 THEN last ELSE f[i]]
             h == [i \in 0..(m + 1) |->
                     IF i = 0 THEN <<>>
                     ELSE IF i \in places THEN Append(g[i - 1], list[i]) ELSE g[i - 1]]
  <2>2. ASSUME NEW i \in 0..(m + 1) PROVE g[i] = h[i]
    <3>1. CASE i = m + 1
      BY <3>1
    <3>2. CASE i \in 0..m
      <4>1. f[i] = IF i = 0 THEN <<>>
                   ELSE IF i \in places THEN Append(f[i - 1], list[i]) ELSE f[i - 1]
        BY <2>1, <3>2 DEF Unrolls
      <4>2. g[i] = f[i] /\ (i # 0 => g[i - 1] = f[i - 1])
        BY <3>2
      <4>3. h[i] = IF i = 0 THEN <<>>
                   ELSE IF i \in places THEN Append(g[i - 1], list[i]) ELSE g[i - 1]
        OBVIOUS
      <4> QED
        BY <4>1, <4>2, <4>3
    <3> QED
      BY <3>1, <3>2
  <2>3. g = h
    BY <2>2
  <2>4. Unrolls(g, list, places, m + 1)
    BY <2>3 DEF Unrolls
  <2> QED
    BY <2>4
<1> QED
  BY <1>1, <1>2, Induction

\* ... and upTo is one.
LEMMA UpToUnrolls ==
  ASSUME NEW list, NEW places, Len(list) \in Nat
  PROVE  Unrolls(UpTo(list, places), list, places, Len(list))
BY UnrollExists DEF UpTo

\* kept has the elements of the first n places of list that are to stay, in
\* their order; at[j] is the place that the j-th of them had.
Keeps(kept, at, list, places, n) ==
    /\ at \in [1..Len(kept) -> 1..n]
    /\ \A j \in 1..Len(kept) : at[j] \in places /\ kept[j] = list[at[j]]
    /\ \A i, j \in 1..Len(kept) : i < j => at[i] < at[j]
    /\ \A i \in 1..n : i \in places => \E j \in 1..Len(kept) : at[j] = i

\* One place more, which stays ...
LEMMA KeepsOneMore ==
  ASSUME NEW S, NEW list \in Seq(S), NEW places, NEW n \in Nat, n + 1 \in 1..Len(list),
         NEW kept \in Seq(S), NEW at, Keeps(kept, at, list, places, n), n + 1 \in places
  PROVE  /\ Append(kept, list[n + 1]) \in Seq(S)
         /\ \E b : Keeps(Append(kept, list[n + 1]), b, list, places, n + 1)
<1> DEFINE l == Len(kept)
           r == Append(kept, list[n + 1])
           b == [j \in 1..(l + 1) |-> IF j = l + 1 THEN n + 1 ELSE at[j]]
<1>1. /\ r \in Seq(S) /\ Len(r) = l + 1 /\ l \in Nat /\ r[l + 1] = list[n + 1]
      /\ \A j \in 1..l : r[j] = kept[j]
  OBVIOUS
<1>2. /\ at \in [1..l -> 1..n]
      /\ \A j \in 1..l : at[j] \in places /\ kept[j] = list[at[j]]
      /\ \A i, j \in 1..l : i < j => at[i] < at[j]
      /\ \A i \in 1..n : i \in places => \E j \in 1..l : at[j] = i
  BY DEF Keeps
<1> HIDE DEF r, l
<1>3. /\ b[l + 1] = n + 1 /\ \A j \in 1..l : b[j] = at[j] /\ at[j] \in 1..n
  BY <1>1, <1>2
<1>4. b \in [1..Len(r) -> 1..(n + 1)]
  BY <1>1, <1>2
<1> HIDE DEF b
<1>5. ASSUME NEW j \in 1..Len(r) PROVE b[j] \in places /\ r[j] = list[b[j]]
  <2>1. CASE j = l + 1
    BY <1>1, <1>3, <2>1
  <2>2. CASE j \in 1..l
    BY <1>1, <1>2, <1>3, <2>2
  <2> QED
    BY <1>1, <2>1, <2>2
<1>6. ASSUME NEW i \in 1..Len(r), NEW j \in 1..Len(r), i < j PROVE b[i] < b[j]
  <2>1. i \in 1..l
    BY <1>1, <1>6
  <2>2. CASE j = l + 1
    BY <1>1, <1>3, <2>1, <2>2
  <2>3. CASE j \in 1..l
    BY <1>2, <1>3, <1>6, <2>1, <2>3
  <2> QED
    BY <1>1, <2>2, <2>3
<1>7. ASSUME NEW i \in 1..(n + 1), i \in places PROVE \E j \in 1..Len(r) : b[j] = i
  <2>1. CASE i = n + 1
    BY <1>1, <1>3, <2>1
  <2>2. CASE i \in 1..n
    <3>1. PICK j \in 1..l : at[j] = i
      BY <1>2, <1>7, <2>2
    <3> QED
      <4>1. j \in 1..Len(r) /\ b[j] = i
        BY <1>1, <1>3, <3>1
      <4> QED
        BY <4>1
  <2> QED
    BY <2>1, <2>2
<1>8. Keeps(r, b, list, places, n + 1)
  BY <1>4, <1>5, <1>6, <1>7 DEF Keeps
<1> QED
  BY <1>1, <1>8 DEF r

\* ... or goes.
LEMMA KeepsNoMore ==
  ASSUME NEW S, NEW list, NEW places, NEW n \in Nat,
         NEW kept \in Seq(S), NEW at, Keeps(kept, at, list, places, n), n + 1 \notin places
  PROVE  Keeps(kept, at, list, places, n + 1)
<1>1. /\ at \in [1..Len(kept) -> 1..n]
      /\ \A j \in 1..Len(kept) : at[j] \in places /\ kept[j] = list[at[j]]
      /\ \A i, j \in 1..Len(kept) : i < j => at[i] < at[j]
      /\ \A i \in 1..n : i \in places => \E j \in 1..Len(kept) : at[j] = i
  BY DEF Keeps
<1>2. at \in [1..Len(kept) -> 1..(n + 1)]
  <2>1. \A j \in 1..Len(kept) : at[j] \in 1..(n + 1)
    BY <1>1
  <2> QED
    BY <1>1, <2>1
<1>3. ASSUME NEW i \in 1..(n + 1), i \in places PROVE i \in 1..n
  BY <1>3
<1> QED
  BY <1>1, <1>2, <1>3 DEF Keeps

\* retain keeps what it should, in order, and nothing else.
LEMMA RetainKeeps ==
  ASSUME NEW S, NEW list \in Seq(S), NEW places
  PROVE  /\ Retained(list, places) \in Seq(S)
         /\ \E at : Keeps(Retained(list, places), at, list, places, Len(list))
<1> DEFINE f == UpTo(list, places)
<1>1. Len(list) \in Nat
  OBVIOUS
<1>2. f = [m \in 0..Len(list) |->
             IF m = 0 THEN <<>>
             ELSE IF m \in places THEN Append(f[m - 1], list[m]) ELSE f[m - 1]]
  BY <1>1, UpToUnrolls DEF Unrolls
<1> HIDE DEF f
<1>3. f[0] = <<>>
  BY <1>1, <1>2
<1>4. ASSUME NEW m \in Nat, m + 1 \in 1..Len(list)
      PROVE  /\ m + 1 \in places => f[m + 1] = Append(f[m], list[m + 1])
             /\ m + 1 \notin places => f[m + 1] = f[m]
  <2>1. m + 1 \in 0..Len(list) /\ m + 1 # 0 /\ (m + 1) - 1 = m
    BY <1>1, <1>4
  <2>2. f[m + 1] = IF m + 1 = 0 THEN <<>>
                   ELSE IF m + 1 \in places THEN Append(f[(m + 1) - 1], list[m + 1])
                   ELSE f[(m + 1) - 1]
    BY <1>2, <2>1
  <2> QED
    BY <2>1, <2>2
<1> DEFINE T == {m \in Nat : m \in 0..Len(list) =>
                                /\ f[m] \in Seq(S)
                                /\ \E at : Keeps(f[m], at, list, places, m)}
<1>5. 0 \in T
  <2> DEFINE none == [j \in 1..0 |-> 0]
  <2>1. none \in [1..Len(<<>>) -> 1..0] /\ Len(<<>>) = 0 /\ <<>> \in Seq(S)
    OBVIOUS
  <2>2. Keeps(<<>>, none, list, places, 0)
    BY <2>1 DEF Keeps
  <2> QED
    BY <1>3, <2>1, <2>2
<1>6. ASSUME NEW m \in Nat, m \in T PROVE m + 1 \in T
  <2>1. SUFFICES ASSUME m + 1 \in 0..Len(list)
                 PROVE  f[m + 1] \in Seq(S) /\ \E at : Keeps(f[m + 1], at, list, places, m + 1)
    BY <1>6
  <2>2. m \in 0..Len(list) /\ m + 1 \in 1..Len(list)
    BY <1>1, <2>1
  <2>3. f[m] \in Seq(S)
    BY <1>6, <2>2
  <2>4. PICK at : Keeps(f[m], at, list, places, m)
    BY <1>6, <2>2
  <2>5. CASE m + 1 \in places
    <3>1. /\ Append(f[m], list[m + 1]) \in Seq(S)
          /\ \E b : Keeps(Append(f[m], list[m + 1]), b, list, places, m + 1)
      BY <2>2, <2>3, <2>4, <2>5, KeepsOneMore
    <3>2. f[m + 1] = Append(f[m], list[m + 1])
      BY <1>4, <2>2, <2>5
    <3> QED
      BY <3>1, <3>2
  <2>6. CASE m + 1 \notin places
    BY <1>4, <2>2, <2>3, <2>4, <2>6, KeepsNoMore
  <2> QED
    BY <2>5, <2>6
<1>7. Len(list) \in T
  BY <1>1, <1>5, <1>6, Induction
<1>8. f[Len(list)] \in Seq(S) /\ \E at : Keeps(f[Len(list)], at, list, places, Len(list))
  BY <1>1, <1>7
<1> QED
  BY <1>8, RetainedIsLast DEF f
=============================================================================
