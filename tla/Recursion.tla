----------------------------- MODULE Recursion -----------------------------
(* Induction and recursion over the naturals, stated with sets and         *)
(* functions: a property is the set of numbers that have it, a step of a   *)
(* recursion a function.                                                   *)
EXTENDS Integers, WellFoundedInduction, TLAPS

\* Every set of naturals but the empty one has a least member.
LEMMA LeastNumber ==
  ASSUME NEW T, T \subseteq Nat, T # {}
  PROVE  \E m \in T : \A k \in T : m <= k
<1> DEFINE R == OpToRel(<, Nat)
<1>1. IsWellFoundedOn(R, Nat)
  BY NatLessThanWellFounded
<1> HIDE DEF R
<1>2. PICK m \in T : \A k \in T : ~ (<<k, m>> \in R)
  BY <1>1, WFMin
<1>3. \A k \in Nat, n \in Nat : k < n => <<k, n>> \in R
  BY DEF R, OpToRel
<1>4. m \in Nat /\ \A k \in T : k \in Nat /\ ~ (k < m)
  BY <1>2, <1>3
<1>5. \A a \in Nat, b \in Nat : ~ (b < a) => a <= b
  OBVIOUS
<1> QED BY <1>4, <1>5

\* A set with 0 and the successor of each of its numbers holds all of them.
LEMMA Induction ==
  ASSUME NEW P, 0 \in P, \A n \in Nat : n \in P => n + 1 \in P
  PROVE  Nat \subseteq P
<1> DEFINE T == Nat \ P
<1> SUFFICES ASSUME T # {} PROVE FALSE
  OBVIOUS
<1>1. T \subseteq Nat
  OBVIOUS
<1> HIDE DEF T
<1>2. PICK m \in T : \A k \in T : m <= k
  BY <1>1, LeastNumber
<1>3. m \in Nat /\ m # 0 /\ m - 1 \in Nat /\ m - 1 < m
  BY <1>1 DEF T
<1>4. m - 1 \in P
  BY <1>2, <1>3 DEF T
<1>5. m - 1 + 1 \in P /\ m - 1 + 1 = m
  BY <1>3, <1>4
<1> QED BY <1>5 DEF T

\* f is the function that begins with first and takes Step from each number to the next.
Recursive(f, S, first, Step) ==
  /\ f \in [Nat -> S]
  /\ f[0] = first
  /\ \A n \in Nat : f[n + 1] = Step[n][f[n]]

\* Every first value and every step define such a function.
LEMMA RecursiveFunction ==
  ASSUME NEW S, NEW first \in S, NEW Step \in [Nat -> [S -> S]]
  PROVE  \E f : Recursive(f, S, first, Step)
<1>1. \A n \in Nat, x \in S : Step[n][x] \in S
  OBVIOUS
<1> DEFINE Upto(n) == {g \in [0 .. n -> S] : /\ g[0] = first
                                             /\ \A i \in 1 .. n : g[i] = Step[i - 1][g[i - 1]]}
           Same == {k \in Nat : \A m \in Nat, n \in Nat :
                      (k <= m /\ k <= n) =>
                        \A g \in Upto(m), h \in Upto(n) : g[k] = h[k]}
           Some == {n \in Nat : Upto(n) # {}}
<1>2. ASSUME NEW n \in Nat, NEW g
      PROVE  g \in Upto(n) <=> /\ g \in [0 .. n -> S] /\ g[0] = first
                               /\ \A i \in 1 .. n : g[i] = Step[i - 1][g[i - 1]]
  OBVIOUS
<1> HIDE DEF Upto
<1>3. Nat \subseteq Same
  <2>1. 0 \in Same
    BY <1>2
  <2>2. ASSUME NEW k \in Nat, k \in Same PROVE k + 1 \in Same
    <3> SUFFICES ASSUME NEW m \in Nat, NEW n \in Nat, k + 1 <= m, k + 1 <= n,
                        NEW g \in Upto(m), NEW h \in Upto(n)
                 PROVE  g[k + 1] = h[k + 1]
      OBVIOUS
    <3>1. g[k] = h[k]
      <4>1. k <= m /\ k <= n OBVIOUS
      <4> QED BY <2>2, <4>1
    <3>2. k + 1 \in 1 .. m /\ k + 1 \in 1 .. n /\ k + 1 - 1 = k
      OBVIOUS
    <3>3. /\ \A i \in 1 .. m : g[i] = Step[i - 1][g[i - 1]]
          /\ \A i \in 1 .. n : h[i] = Step[i - 1][h[i - 1]]
      BY <1>2
    <3>4. g[k + 1] = Step[k][g[k]] /\ h[k + 1] = Step[k][h[k]]
      BY <3>2, <3>3
    <3> QED BY <3>1, <3>4
  <2> HIDE DEF Same
  <2> QED BY <2>1, <2>2, Induction
<1>4. Nat \subseteq Some
  <2>1. 0 \in Some
    <3> DEFINE g == [i \in 0 .. 0 |-> first]
    <3>1. g \in [0 .. 0 -> S] /\ g[0] = first /\ 1 .. 0 = {}
      OBVIOUS
    <3> HIDE DEF g
    <3>2. g \in Upto(0)
      BY <1>2, <3>1
    <3> QED BY <3>2
  <2>2. ASSUME NEW n \in Nat, n \in Some PROVE n + 1 \in Some
    <3>1. PICK g : g \in Upto(n)
      BY <2>2
    <3>2. /\ g \in [0 .. n -> S] /\ g[0] = first
          /\ \A i \in 1 .. n : g[i] = Step[i - 1][g[i - 1]]
      BY <1>2, <3>1
    <3> DEFINE h == [i \in 0 .. n + 1 |-> IF i = n + 1 THEN Step[n][g[n]] ELSE g[i]]
    <3>3. h \in [0 .. n + 1 -> S] /\ h[0] = first
      BY <1>1, <3>2
    <3>4. ASSUME NEW i \in 1 .. n + 1 PROVE h[i] = Step[i - 1][h[i - 1]]
      <4>1. CASE i = n + 1
        BY <4>1
      <4>2. CASE i # n + 1
        BY <3>2, <4>2
      <4> QED BY <4>1, <4>2
    <3> HIDE DEF h
    <3>5. h \in Upto(n + 1)
      BY <1>2, <3>3, <3>4
    <3> QED BY <3>5
  <2> HIDE DEF Some
  <2> QED BY <2>1, <2>2, Induction
<1> DEFINE piece(n) == CHOOSE g : g \in Upto(n)
           f == [n \in Nat |-> piece(n)[n]]
<1>5. \A n \in Nat : piece(n) \in Upto(n)
  BY <1>4
<1> HIDE DEF piece
<1>6. \A n \in Nat : piece(n + 1)[n] = piece(n)[n]
  <2> SUFFICES ASSUME NEW n \in Nat PROVE piece(n + 1)[n] = piece(n)[n]
    OBVIOUS
  <2>1. n \in Same /\ n + 1 \in Nat /\ n <= n + 1 /\ n <= n
    BY <1>3
  <2>2. piece(n + 1) \in Upto(n + 1) /\ piece(n) \in Upto(n)
    BY <1>5, <2>1
  <2> QED BY <2>1, <2>2
<1> HIDE DEF Same, Some
<1>7. f \in [Nat -> S] /\ f[0] = first
  BY <1>2, <1>5
<1>8. ASSUME NEW n \in Nat PROVE f[n + 1] = Step[n][f[n]]
  <2>1. f[n + 1] = piece(n + 1)[n + 1] /\ f[n] = piece(n)[n]
    OBVIOUS
  <2> HIDE DEF f
  <2>2. /\ piece(n + 1) \in Upto(n + 1)
        /\ n + 1 \in Nat /\ n + 1 \in 1 .. n + 1 /\ n + 1 - 1 = n
    BY <1>5
  <2>3. piece(n + 1)[n + 1] = Step[n][piece(n + 1)[n]]
    <3> HIDE DEF piece
    <3>1. \A i \in 1 .. n + 1 : piece(n + 1)[i] = Step[i - 1][piece(n + 1)[i - 1]]
      BY <1>2, <2>2
    <3>2. piece(n + 1)[n + 1] = Step[n + 1 - 1][piece(n + 1)[n + 1 - 1]]
      BY <2>2, <3>1
    <3> QED BY <2>2, <3>2
  <2> QED BY <1>6, <2>1, <2>3
<1> HIDE DEF f
<1> QED BY <1>7, <1>8 DEF Recursive
=============================================================================
