---------------------------- MODULE NaturalLemmas ----------------------------
(* Facts about natural numbers that the proofs of several modules rest on.   *)
EXTENDS Naturals, TLAPS, WellFoundedInduction

\* The least-number principle, in the form the inductions use.
LEMMA LeastNatural ==
  ASSUME NEW T, T \subseteq Nat, T # {}
  PROVE  \E x \in T : \A y \in T : x <= y
<1>1. PICK x \in T : \A y \in T : ~ (<<y, x>> \in OpToRel(<, Nat))
  BY NatLessThanWellFounded, WFMin, Zenon
<1>2. \A y \in T : ~ (y < x)
  BY <1>1 DEF OpToRel
<1>3. \A y \in T : x <= y
  BY <1>2
<1>4. QED
  BY <1>3

\* Induction over the members of a set, upwards to L.
LEMMA UpFromZero ==
  ASSUME NEW L \in Nat, NEW T, 0 \in T, \A l \in 1 .. L : l - 1 \in T => l \in T
  PROVE  \A l \in 0 .. L : l \in T
<1> DEFINE U == {l \in 0 .. L : l \notin T}
<1>1. ASSUME U # {} PROVE FALSE
  <2>1. PICK k \in U : \A y \in U : k <= y
    <3>1. U \subseteq Nat
      OBVIOUS
    <3> HIDE DEF U
    <3>2. QED
      BY <1>1, <3>1, LeastNatural
  <2>2. k \in 1 .. L /\ k - 1 \in 0 .. L /\ ~ (k <= k - 1)
    OBVIOUS
  <2>3. QED
    BY <2>1, <2>2
<1>2. QED
  BY <1>1

\* And downwards from L.
LEMMA DownFrom ==
  ASSUME NEW L \in Nat, NEW T, L \in T, \A l \in 0 .. L - 1 : l + 1 \in T => l \in T
  PROVE  \A l \in 0 .. L : l \in T
<1> DEFINE U == {l \in 0 .. L : L - l \in T}
<1>1. 0 \in U
  OBVIOUS
<1>2. ASSUME NEW l \in 1 .. L, l - 1 \in U PROVE l \in U
  <2>1. L - l \in 0 .. L - 1 /\ (L - l) + 1 = L - (l - 1)
    OBVIOUS
  <2>2. QED
    BY <1>2, <2>1
<1> HIDE DEF U
<1>3. \A l \in 0 .. L : l \in U
  BY <1>1, <1>2, UpFromZero
<1>4. ASSUME NEW l \in 0 .. L PROVE l \in T
  <2>1. L - l \in 0 .. L /\ L - (L - l) = l
    OBVIOUS
  <2>2. QED
    BY <1>3, <2>1 DEF U
<1>5. QED
  BY <1>4

\* A loop of N rounds over the states S, and its history from base on: the states
\* it goes through one after the other, when round n makes F[<<n, v>>] of v.
Rounds(N, S) == [(1 .. N) \X S -> S]

IsHistory(g, N, S, base, F) ==
  g \in [0 .. N -> S] /\ g[0] = base /\ \A n \in 1 .. N : g[n] = F[<<n, g[n - 1]>>]

\* Every such loop has a history.
LEMMA LoopHistory ==
  ASSUME NEW S, NEW N \in Nat, NEW base \in S, NEW F \in Rounds(N, S)
  PROVE  \E g : IsHistory(g, N, S, base, F)
<1> USE DEF Rounds
<1> DEFINE Upto(k) == \E g \in [0 .. k -> S] :
                        g[0] = base /\ \A n \in 1 .. k : g[n] = F[<<n, g[n - 1]>>]
           T == {k \in 0 .. N : ~ Upto(k)}
<1>1. Upto(0)
  <2> DEFINE g == [i \in 0 .. 0 |-> base]
  <2>1. g \in [0 .. 0 -> S] /\ g[0] = base /\ 1 .. 0 = {}
    OBVIOUS
  <2> HIDE DEF g
  <2>2. QED
    BY <2>1
<1>2. ASSUME NEW k \in 0 .. N, k # 0, Upto(k - 1)
      PROVE  Upto(k)
  <2>1. PICK g \in [0 .. k - 1 -> S] :
          g[0] = base /\ \A n \in 1 .. k - 1 : g[n] = F[<<n, g[n - 1]>>]
    BY <1>2
  <2>2. k - 1 \in 0 .. k - 1 /\ k \in 1 .. N
    BY <1>2
  <2> DEFINE v == F[<<k, g[k - 1]>>]
             h == [i \in 0 .. k |-> IF i = k THEN v ELSE g[i]]
  <2>3. v \in S
    BY <2>2
  <2> HIDE DEF v
  <2>4. h \in [0 .. k -> S]
    BY <2>3
  <2>5. h[0] = base /\ h[k] = v /\ \A n \in 0 .. k - 1 : h[n] = g[n]
    BY <1>2, <2>1
  <2> HIDE DEF h
  <2>6. \A n \in 1 .. k : h[n] = F[<<n, h[n - 1]>>]
    <3>1. TAKE n \in 1 .. k
    <3>2. CASE n = k
      BY <2>2, <2>5, <3>2 DEF v
    <3>3. CASE n # k
      <4>1. n \in 1 .. k - 1 /\ n - 1 \in 0 .. k - 1
        BY <3>3
      <4>2. QED
        BY <2>1, <2>5, <4>1
    <3>4. QED
      BY <3>2, <3>3
  <2>7. QED
    BY <2>4, <2>5, <2>6
<1>3. T \subseteq Nat
  OBVIOUS
<1> HIDE DEF Upto
<1>4. T = {}
  <2>1. SUFFICES ASSUME T # {} PROVE FALSE
    OBVIOUS
  <2>2. PICK k \in T : \A y \in T : k <= y
    <3> HIDE DEF T
    <3>1. QED
      BY <1>3, <2>1, LeastNatural
  <2>3. k \in 0 .. N /\ k # 0 /\ ~ Upto(k)
    BY <1>1
  <2>4. k - 1 \in 0 .. N /\ k - 1 < k
    BY <2>3
  <2>5. Upto(k - 1)
    BY <2>2, <2>3, <2>4
  <2>6. QED
    BY <1>2, <2>3, <2>5
<1>5. Upto(N)
  BY <1>4
<1>6. QED
  BY <1>5 DEF Upto, IsHistory

\* What goes by the rounds of such a loop stays among its states.
LEMMA LoopStays ==
  ASSUME NEW S, NEW N \in Nat, NEW F \in Rounds(N, S), NEW c, c[0] \in S,
         \A n \in 1 .. N : c[n - 1] \in S => c[n] = F[<<n, c[n - 1]>>]
  PROVE  \A n \in 0 .. N : c[n] \in S
<1> DEFINE T == {n \in 0 .. N : c[n] \notin S}
<1>1. T \subseteq Nat
  OBVIOUS
<1>2. ASSUME T # {} PROVE FALSE
  <2>1. PICK k \in T : \A y \in T : k <= y
    <3> HIDE DEF T
    <3>1. QED
      BY <1>1, <1>2, LeastNatural
  <2>2. k \in 1 .. N /\ k - 1 \in 0 .. N /\ ~ (k <= k - 1)
    OBVIOUS
  <2>3. c[k - 1] \in S
    BY <2>1, <2>2
  <2>4. c[k] = F[<<k, c[k - 1]>>]
    BY <2>2, <2>3
  <2>5. F[<<k, c[k - 1]>>] \in S
    BY <2>2, <2>3 DEF Rounds
  <2>6. QED
    BY <2>4, <2>5
<1>3. QED
  BY <1>2
==============================================================================
