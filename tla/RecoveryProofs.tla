--------------------------- MODULE RecoveryProofs ---------------------------
(***************************************************************************)
(* What the weakening guard promises of every chain of policies, of any    *)
(* length, over any methods, guardians and thresholds, and what a quorum   *)
(* of guardians promises of forked key rotations, however many there are.  *)
(***************************************************************************)
EXTENDS Rotation, NaturalLemmas, TLAPS, FiniteSetTheorems, SequenceTheorems

-----------------------------------------------------------------------------
(* One policy.                                                             *)

\* What the assumption says of a policy.
LEMMA PolicyParts ==
  ASSUME NEW p \in Policies
  PROVE  /\ IsFiniteSet(p.methods)
         /\ \A m \in p.methods : IsMethod(m)
         /\ p.recover_threshold \subseteq Predicate
         /\ p.rotate_threshold \subseteq Predicate
  BY RecoveryAssumption

\* threshold_min is the count of an alternative, and the least one.
LEMMA ThresholdMin ==
  ASSUME NEW t, t \subseteq Predicate
  PROVE  /\ threshold_min(t) \in Nat
         /\ t = {} => threshold_min(t) = 0
         /\ \A q \in t : threshold_min(t) <= q.count
         /\ t # {} => \E q \in t : threshold_min(t) = q.count
<1>1. CASE t = {}
  BY <1>1 DEF threshold_min
<1>2. CASE t # {}
  <2>1. \A q \in t : q.count \in Nat
    BY DEF Predicate
  <2> DEFINE T == {q.count : q \in t}
  <2>2. PICK x \in T : \A y \in T : x <= y
    BY <1>2, <2>1, LeastNatural
  <2>3. \E p \in t : \A q \in t : p.count <= q.count
    BY <2>2
  <2> DEFINE easiest == CHOOSE p \in t : \A q \in t : p.count <= q.count
  <2>4. easiest \in t /\ \A q \in t : easiest.count <= q.count
    BY <2>3
  <2>5. threshold_min(t) = easiest.count
    BY <1>2 DEF threshold_min
  <2> HIDE DEF easiest
  <2>6. QED
    BY <1>2, <2>1, <2>4, <2>5
<1>3. QED
  BY <1>1, <1>2

\* A policy names finitely many places.
LEMMA PlacesFinite ==
  ASSUME NEW p \in Policies
  PROVE  IsFiniteSet(places(p)) /\ Cardinality(places(p)) \in Nat
<1> DEFINE S == {c \in p.methods : c.kind = "social"}
           P(m) == {<<m, j>> : j \in DOMAIN m.guardians}
           U == {P(m) : m \in S}
<1>1. IsFiniteSet(S)
  BY PolicyParts, FS_Subset
<1>2. ASSUME NEW m \in S PROVE IsFiniteSet(P(m))
  <2>1. m.guardians \in Seq(Guardians)
    BY PolicyParts DEF IsMethod
  <2>2. DOMAIN m.guardians = 1 .. Len(m.guardians) /\ Len(m.guardians) \in Nat
    BY <2>1, LenProperties
  <2> DEFINE D == DOMAIN m.guardians
             f == [j \in D |-> <<m, j>>]
  <2>3. IsFiniteSet(D)
    BY <2>2, FS_Interval
  <2>4. f \in Surjection(D, P(m))
    BY DEF Surjection
  <2> HIDE DEF D, f, P
  <2>5. QED
    BY <2>3, <2>4, FS_Surjection
<1>3. IsFiniteSet(U)
  <2> DEFINE f == [m \in S |-> P(m)]
  <2>1. f \in Surjection(S, U)
    BY DEF Surjection
  <2> HIDE DEF f, S, U
  <2>2. QED
    BY <1>1, <2>1, FS_Surjection
<1>4. IsFiniteSet(UNION U)
  <2>1. \A T \in U : IsFiniteSet(T)
    BY <1>2
  <2> HIDE DEF U
  <2>2. QED
    BY <1>3, <2>1, FS_UNION
<1>5. places(p) = UNION U
  BY DEF places
<1>6. QED
  BY <1>4, <1>5, FS_CardinalityType

-----------------------------------------------------------------------------
(* Two policies: what is not weakening composes.                           *)

LEMMA StrongTransitive ==
  ASSUME NEW a, NEW b, NEW c, IsMethod(a), IsMethod(b), IsMethod(c),
         method_at_least_as_strong(a, b), method_at_least_as_strong(b, c)
  PROVE  method_at_least_as_strong(a, c)
<1>1. a.kind = b.kind /\ b.kind = c.kind
  BY DEF method_at_least_as_strong
<1>2. CASE a.kind \in {"phrase", "device"}
  BY <1>1, <1>2 DEF method_at_least_as_strong
<1>3. CASE a.kind = "social"
  <2>1. a.threshold \in Nat /\ b.threshold \in Nat /\ c.threshold \in Nat
    BY <1>1, <1>3 DEF IsMethod
  <2>2. c.threshold >= a.threshold
    BY <1>1, <1>3, <2>1 DEF method_at_least_as_strong
  <2>3. \A i \in DOMAIN a.guardians : \E j \in DOMAIN c.guardians :
          c.guardians[j] = a.guardians[i]
    BY <1>1, <1>3, Zenon DEF method_at_least_as_strong
  <2>4. QED
    BY <1>1, <1>3, <2>2, <2>3 DEF method_at_least_as_strong
<1>4. QED
  BY <1>2, <1>3 DEF IsMethod

\* A step that weakens nothing, after another, weakens nothing.
LEMMA WeakeningComposes ==
  ASSUME NEW a \in Policies, NEW b \in Policies, NEW c \in Policies,
         recovery_change_is_weakening(a, c)
  PROVE  recovery_change_is_weakening(a, b) \/ recovery_change_is_weakening(b, c)
<1> SUFFICES ASSUME ~ recovery_change_is_weakening(a, b),
                    ~ recovery_change_is_weakening(b, c)
             PROVE  ~ recovery_change_is_weakening(a, c)
  OBVIOUS
<1>1. ASSUME NEW m \in a.methods
      PROVE  \E d \in c.methods : method_at_least_as_strong(m, d)
  <2>1. PICK n \in b.methods : method_at_least_as_strong(m, n)
    BY DEF recovery_change_is_weakening
  <2>2. PICK d \in c.methods : method_at_least_as_strong(n, d)
    BY DEF recovery_change_is_weakening
  <2>3. IsMethod(m) /\ IsMethod(n) /\ IsMethod(d)
    BY PolicyParts
  <2>4. QED
    BY <2>1, <2>2, <2>3, StrongTransitive
<1>2. ~ (threshold_min(c.recover_threshold) < threshold_min(a.recover_threshold))
  BY PolicyParts, ThresholdMin DEF recovery_change_is_weakening
<1>3. ~ (threshold_min(c.rotate_threshold) < threshold_min(a.rotate_threshold))
  BY PolicyParts, ThresholdMin DEF recovery_change_is_weakening
<1>4. QED
  BY <1>1, <1>2, <1>3 DEF recovery_change_is_weakening

\* The structural detector sees whatever a policy gives up.
LEMMA WeakerIsWeakening ==
  ASSUME NEW a \in Policies, NEW b \in Policies, Weaker(a, b)
  PROVE  recovery_change_is_weakening(a, b)
<1>1. CASE \E m \in a.methods : m.kind # "social" /\ m \notin b.methods
  <2>1. PICK m \in a.methods : m.kind # "social" /\ m \notin b.methods
    BY <1>1
  <2>2. m.kind \in {"phrase", "device"}
    BY <2>1, PolicyParts DEF IsMethod
  <2>3. \A c \in b.methods : ~ method_at_least_as_strong(m, c)
    BY <2>1, <2>2 DEF method_at_least_as_strong
  <2>4. QED
    BY <2>3 DEF recovery_change_is_weakening
<1>2. CASE \E m \in a.methods :
             /\ m.kind = "social"
             /\ \A c \in b.methods :
                  c.kind = "social" => c.threshold < m.threshold \/ ~ Named(m) \subseteq Named(c)
  <2>1. PICK m \in a.methods :
             /\ m.kind = "social"
             /\ \A c \in b.methods :
                  c.kind = "social" => c.threshold < m.threshold \/ ~ Named(m) \subseteq Named(c)
    BY <1>2
  <2>2. ASSUME NEW c \in b.methods, method_at_least_as_strong(m, c) PROVE FALSE
    <3>1. c.kind = "social" /\ c.threshold >= m.threshold
      BY <2>1, <2>2 DEF method_at_least_as_strong
    <3>2. c.threshold \in Nat /\ m.threshold \in Nat
      BY <2>1, <3>1, PolicyParts DEF IsMethod
    <3>3. \A i \in DOMAIN m.guardians : \E j \in DOMAIN c.guardians :
            c.guardians[j] = m.guardians[i]
      BY <2>1, <2>2 DEF method_at_least_as_strong
    <3>4. Named(m) \subseteq Named(c)
      BY <3>3 DEF Named
    <3>5. QED
      BY <2>1, <3>1, <3>2, <3>4
  <2>3. QED
    BY <2>2 DEF recovery_change_is_weakening
<1>3. ASSUME NEW old, NEW new, old \subseteq Predicate, new \subseteq Predicate,
             old # {}, \E r \in new : \A o \in old : r.count < o.count
      PROVE  threshold_min(new) < threshold_min(old)
  <2>1. PICK r \in new : \A o \in old : r.count < o.count
    BY <1>3
  <2>2. PICK o \in old : threshold_min(old) = o.count
    BY <1>3, ThresholdMin
  <2>3. /\ threshold_min(new) <= r.count /\ threshold_min(new) \in Nat
        /\ r.count < o.count
    BY <1>3, <2>1, <2>2, ThresholdMin
  <2>4. r.count \in Nat /\ o.count \in Nat
    BY <1>3 DEF Predicate
  <2>5. QED
    BY <2>2, <2>3, <2>4
<1>4. CASE \E r \in b.recover_threshold :
             a.recover_threshold # {} /\ \A o \in a.recover_threshold : r.count < o.count
  BY <1>3, <1>4, PolicyParts DEF recovery_change_is_weakening
<1>5. CASE \E r \in b.rotate_threshold :
             a.rotate_threshold # {} /\ \A o \in a.rotate_threshold : r.count < o.count
  BY <1>3, <1>5, PolicyParts DEF recovery_change_is_weakening
<1>6. QED
  BY <1>1, <1>2, <1>4, <1>5 DEF Weaker

-----------------------------------------------------------------------------
(* The guard and the chain.                                                *)

\* Accepted versions passed verify; a later version that the detector calls
\* weaker than an earlier one has a backed change between the two.  The
\* detector, unlike Weaker, composes over the steps of the chain.
RecInv ==
  /\ TypeOK
  /\ \A i \in DOMAIN history : verify(history[i].policy)
  /\ \A i, j \in DOMAIN history :
       i < j /\ recovery_change_is_weakening(history[i].policy, history[j].policy)
         => BackedBetween(i, j)
  /\ EvictionDurable

\* What the type invariant says of the chain.
LEMMA ChainParts ==
  ASSUME TypeOK
  PROVE  /\ Len(history) \in Nat /\ Len(history) >= 1
         /\ DOMAIN history = 1 .. Len(history)
         /\ \A i \in DOMAIN history :
              history[i] \in [policy : Policies, version : 1 .. MaxVersion,
                              prev : Nat, backed : BOOLEAN]
<1> DEFINE Entry == [policy : Policies, version : 1 .. MaxVersion, prev : Nat, backed : BOOLEAN]
<1>1. history \in Seq(Entry) /\ history # <<>>
  BY DEF TypeOK, verify_policy_chain
<1> HIDE DEF Entry
<1>2. Len(history) \in Nat /\ DOMAIN history = 1 .. Len(history)
  BY <1>1, LenProperties
<1>3. Len(history) # 0
  BY <1>1, EmptySeq
<1>4. \A i \in DOMAIN history : history[i] \in Entry
  BY <1>1, <1>2, ElementOfSeq
<1>5. QED
  BY <1>2, <1>3, <1>4 DEF Entry

\* A change that the guard takes for weakening and lets pass is backed.
LEMMA GuardIsBacked ==
  ASSUME TypeOK, verify(last.policy),
         NEW next, NEW yeas \in SUBSET Guardians, NEW nays \in SUBSET Guardians,
         NEW announced_at \in 0 .. MaxTime,
         authorize_recovery_change(next, yeas, nays, announced_at),
         recovery_change_is_weakening_vs_history(history, next)
  PROVE  Backed(yeas, nays, announced_at)
<1> DEFINE p == last.policy
           n == Cardinality(places(p))
           g == policy_guardians(p)
           yes == Cardinality(g \cap yeas)
           no == Cardinality(g \cap nays)
<1>1. p \in Policies
  BY ChainParts DEF last
<1>2. n \in Nat
  BY <1>1, PlacesFinite
<1>3. yes \in Nat /\ no \in Nat
  <2>1. IsFiniteSet(yeas) /\ IsFiniteSet(nays)
    BY RecoveryAssumption, FS_Subset
  <2>2. IsFiniteSet(g \cap yeas) /\ IsFiniteSet(g \cap nays)
    BY <2>1, FS_Intersection
  <2>3. QED
    BY <2>2, FS_CardinalityType
<1>4. /\ yes >= n \div 2 + 1
      /\ yes >= threshold_min(p.rotate_threshold)
      /\ ~ (no * 2 > n)
      /\ now >= saturating_add(announced_at, Window)
  BY DEF authorize_recovery_change, count_quorum
<1>5. PICK r \in p.rotate_threshold : threshold_min(p.rotate_threshold) = r.count
  BY <1>1, PolicyParts, ThresholdMin DEF verify
<1>6. now - announced_at >= Window \/ now = MaxTime
  <2>1. now \in Nat /\ now <= MaxTime /\ MaxTime \in Nat /\ Window \in Nat
    BY RecoveryAssumption DEF TypeOK
  <2>2. QED
    BY <1>4, <2>1 DEF saturating_add
<1> HIDE DEF n, yes, no
<1>7. 2 * yes > n /\ 2 * no <= n
  BY <1>2, <1>3, <1>4
<1>8. QED
  BY <1>4, <1>5, <1>6, <1>7 DEF Backed, n, yes, no

LEMMA InitEstablishes == Init => RecInv
<1> SUFFICES ASSUME Init PROVE RecInv
  OBVIOUS
<1>1. PICK p \in Policies, v \in 1 .. MaxVersion :
        /\ verify(p)
        /\ history = <<[policy |-> p, version |-> v, prev |-> 0, backed |-> FALSE]>>
  BY DEF Init
<1>2. DOMAIN history = {1} /\ history[1].prev = 0 /\ history[1].policy = p /\ Len(history) = 1
  BY <1>1
<1>3. now \in 0 .. MaxTime
  BY RecoveryAssumption DEF Init
<1>4. verify_policy_chain(history)
  BY <1>1, <1>2 DEF verify_policy_chain
<1>5. TypeOK
  BY <1>1, <1>3, <1>4 DEF TypeOK
<1>6. QED
  BY <1>1, <1>2, <1>5 DEF RecInv, EvictionDurable

LEMMA TickPreserves == RecInv /\ Tick => RecInv'
<1> SUFFICES ASSUME RecInv, Tick PROVE RecInv'
  OBVIOUS
<1>1. now' \in 0 .. MaxTime
  BY RecoveryAssumption DEF Tick, RecInv, TypeOK
<1>2. history' = history
  BY DEF Tick
<1>3. QED
  BY <1>1, <1>2 DEF RecInv, TypeOK, verify_policy_chain, EvictionDurable, BackedBetween

LEMMA ChangePreserves ==
  ASSUME RecInv,
         NEW next \in Policies, NEW version \in 1 .. MaxVersion, NEW prev \in 0 .. Len(history),
         change(next, version, prev)
  PROVE  RecInv'
<1>0. PICK L \in Nat : L = Len(history)
  BY ChainParts DEF RecInv
<1> DEFINE Entry == [policy : Policies, version : 1 .. MaxVersion, prev : Nat, backed : BOOLEAN]
<1>1. PICK yeas \in SUBSET Guardians, nays \in SUBSET Guardians,
           announced_at \in 0 .. MaxTime :
        /\ authorize_recovery_change(next, yeas, nays, announced_at)
        /\ history' = Append(history, [policy |-> next, version |-> version, prev |-> prev,
                                       backed |-> Backed(yeas, nays, announced_at)])
  BY DEF change
<1> DEFINE e == [policy |-> next, version |-> version, prev |-> prev,
                 backed |-> Backed(yeas, nays, announced_at)]
<1>2. TypeOK /\ L \in Nat /\ L >= 1 /\ DOMAIN history = 1 .. L /\ history \in Seq(Entry)
  BY <1>0, ChainParts DEF RecInv, TypeOK
<1>3. e \in Entry
  BY <1>0, <1>2 DEF Backed
<1>4. /\ history' \in Seq(Entry) /\ history' # <<>>
      /\ Len(history') = L + 1 /\ DOMAIN history' = 1 .. L + 1
      /\ \A i \in 1 .. L : history'[i] = history[i]
      /\ history'[L + 1] = e
  BY <1>0, <1>1, <1>2, <1>3, AppendProperties, LenProperties
<1>5. /\ e.policy = next /\ e.version = version /\ e.prev = L /\ last = history[L]
      /\ e.backed = Backed(yeas, nays, announced_at)
  BY <1>0 DEF change, last
<1>6. last.policy \in Policies /\ verify(last.policy)
  BY <1>2, <1>5, ChainParts DEF RecInv
<1>7. e.backed \/ ~ recovery_change_is_weakening_vs_history(history, next)
  BY <1>1, <1>2, <1>5, <1>6, GuardIsBacked
<1> HIDE DEF e
<1>8. TypeOK'
  <2>1. verify_policy_chain(history')
    <3>1. history'[1].prev = 0
      BY <1>2, <1>4 DEF TypeOK, verify_policy_chain
    <3>2. version > history[L].version
      BY <1>5 DEF change, check_rollback
    <3>3. ASSUME NEW i \in DOMAIN history', i > 1
          PROVE  history'[i].prev = i - 1 /\ history'[i].version > history'[i - 1].version
      <4>1. CASE i = L + 1
        <5>1. i - 1 = L /\ history'[i] = e /\ history'[i - 1] = history[L]
          BY <1>2, <1>4, <4>1
        <5>2. QED
          BY <1>5, <3>2, <5>1
      <4>2. CASE i \in 1 .. L
        <5>1. i - 1 \in 1 .. L
          BY <1>2, <3>3, <4>2
        <5>2. history[i].prev = i - 1 /\ history[i].version > history[i - 1].version
          BY <1>2, <3>3, <4>2 DEF TypeOK, verify_policy_chain
        <5>3. QED
          BY <1>4, <4>2, <5>1, <5>2
      <4>3. QED
        BY <1>2, <1>4, <4>1, <4>2
    <3>4. QED
      BY <1>4, <3>1, <3>3 DEF verify_policy_chain
  <2>2. now' = now
    BY DEF change
  <2>3. QED
    BY <1>2, <1>4, <2>1, <2>2 DEF TypeOK, verify_policy_chain
<1>9. \A i \in DOMAIN history' : verify(history'[i].policy)
  BY <1>2, <1>4, <1>5 DEF RecInv, change
<1>10. \A i, j \in 1 .. L : BackedBetween(i, j) => BackedBetween(i, j)'
  BY <1>2, <1>4 DEF BackedBetween
<1>11. ASSUME NEW i \in 1 .. L, e.backed \/ BackedBetween(i, L)
       PROVE  BackedBetween(i, L + 1)'
  BY <1>2, <1>4, <1>11 DEF BackedBetween
<1>12. ASSUME NEW i \in DOMAIN history', NEW j \in DOMAIN history', i < j,
              recovery_change_is_weakening(history'[i].policy, history'[j].policy)
       PROVE  BackedBetween(i, j)'
  <2>1. i \in 1 .. L /\ history'[i] = history[i]
    BY <1>2, <1>4, <1>12
  <2>2. CASE j \in 1 .. L
    BY <1>2, <1>4, <1>10, <1>12, <2>1, <2>2 DEF RecInv
  <2>3. CASE j = L + 1
    <3>1. recovery_change_is_weakening(history[i].policy, next)
      BY <1>4, <1>5, <1>12, <2>1, <2>3
    <3>2. CASE recovery_change_is_weakening(last.policy, next)
      BY <1>0, <1>5, <1>7, <1>11, <2>1, <2>3, <3>2 DEF recovery_change_is_weakening_vs_history
    <3>3. CASE ~ recovery_change_is_weakening(last.policy, next)
      <4>1. history[i].policy \in Policies
        BY <1>2, <2>1, ChainParts
      <4>2. i # L
        BY <1>5, <3>1, <3>3
      <4>3. recovery_change_is_weakening(history[i].policy, last.policy)
        BY <1>6, <3>1, <3>3, <4>1, WeakeningComposes
      <4>4. BackedBetween(i, L)
        BY <1>2, <1>5, <2>1, <4>2, <4>3 DEF RecInv
      <4>5. QED
        BY <1>11, <2>1, <2>3, <4>4
    <3>4. QED
      BY <3>2, <3>3
  <2>4. QED
    BY <1>2, <1>4, <2>2, <2>3
<1>13. EvictionDurable'
  <2> SUFFICES ASSUME NEW i \in DOMAIN history', NEW j \in DOMAIN history',
                      NEW k \in DOMAIN history', NEW m \in history'[i].policy.methods,
                      i < j, j < k, m \notin history'[j].policy.methods,
                      m \in history'[k].policy.methods
               PROVE  BackedBetween(j, k)'
    BY DEF EvictionDurable
  <2>1. /\ i \in 1 .. L /\ history'[i] = history[i]
        /\ j \in 1 .. L /\ history'[j] = history[j]
    <3>1. i \in 1 .. L + 1 /\ j \in 1 .. L + 1 /\ k \in 1 .. L + 1
      BY <1>4
    <3>2. i \in 1 .. L /\ j \in 1 .. L
      BY <1>2, <3>1
    <3>3. QED
      BY <1>4, <3>2
  <2>2. CASE k \in 1 .. L
    BY <1>2, <1>4, <1>10, <2>1, <2>2 DEF RecInv, EvictionDurable
  <2>3. CASE k = L + 1
    <3>1. m \in next.methods
      BY <1>4, <1>5, <2>3
    <3>2. CASE m \notin last.policy.methods
      <4>1. m \in evicted(history)
        BY <1>0, <1>2, <1>5, <2>1, <3>2 DEF evicted
      <4>2. e.backed
        BY <1>7, <3>1, <4>1 DEF recovery_change_is_weakening_vs_history
      <4>3. QED
        BY <1>11, <2>1, <2>3, <4>2
    <3>3. CASE m \in last.policy.methods
      <4>1. j # L /\ j < L /\ L \in DOMAIN history
        BY <1>2, <1>5, <2>1, <3>3
      <4>2. BackedBetween(j, L)
        BY <1>2, <1>5, <2>1, <3>3, <4>1 DEF RecInv, EvictionDurable
      <4>3. QED
        BY <1>11, <2>1, <2>3, <4>2
    <3>4. QED
      BY <3>2, <3>3
  <2>4. QED
    BY <1>2, <1>4, <2>2, <2>3
<1>14. QED
  BY <1>8, <1>9, <1>12, <1>13 DEF RecInv

-----------------------------------------------------------------------------
(* The theorems.                                                           *)

\* The inductive invariant of the accepted chain.
THEOREM Invariance == Spec => []RecInv
<1>1. Init => RecInv
  BY InitEstablishes
<1>2. RecInv /\ [Next]_vars => RecInv'
  <2> SUFFICES ASSUME RecInv, [Next]_vars PROVE RecInv'
    OBVIOUS
  <2>1. CASE Tick
    BY <2>1, TickPreserves
  <2>2. CASE \E next \in Policies, version \in 1 .. MaxVersion, prev \in 0 .. Len(history) :
               change(next, version, prev)
    BY <2>2, ChangePreserves
  <2>3. CASE UNCHANGED vars
    BY <2>3 DEF vars, RecInv, TypeOK, verify_policy_chain, EvictionDurable, BackedBetween
  <2>4. QED
    BY <2>1, <2>2, <2>3 DEF Next
<1>3. QED
  BY <1>1, <1>2, PTL DEF Spec

\* The accepted versions stay a complete chain with rising numbers.
THEOREM TypeCorrect == Spec => []TypeOK
<1>1. RecInv => TypeOK
  BY DEF RecInv
<1>2. QED
  BY <1>1, Invariance, PTL

\* However many changes that pass for harmless follow one another, they give
\* up nothing that any earlier version had: authorize_recovery_change
\* compares neighbours, and that is enough.
THEOREM NeverEroded == Spec => []NoErosion
<1>1. RecInv => NoErosion
  <2> SUFFICES ASSUME RecInv, NEW i \in DOMAIN history, NEW j \in DOMAIN history, i < j,
                      Weaker(history[i].policy, history[j].policy)
               PROVE  BackedBetween(i, j)
    BY DEF NoErosion
  <2>1. history[i].policy \in Policies /\ history[j].policy \in Policies
    BY ChainParts DEF RecInv
  <2>2. recovery_change_is_weakening(history[i].policy, history[j].policy)
    BY <2>1, WeakerIsWeakening
  <2>3. QED
    BY <2>2 DEF RecInv
<1>2. QED
  BY <1>1, Invariance, PTL

\* A method dropped from the policy does not come back without the guardians.
THEOREM EvictionIsDurable == Spec => []EvictionDurable
<1>1. RecInv => EvictionDurable
  BY DEF RecInv
<1>2. QED
  BY <1>1, Invariance, PTL
-----------------------------------------------------------------------------
(* Key rotations.                                                          *)

\* More than half of the guardians' places of the policy are behind r.
Majority(r) ==
  2 * Cardinality(approvals[r] \cap policy_guardians(last.policy)) > Cardinality(places(last.policy))

\* A guardian stands behind one rotation, and what an observer calls backed has
\* the majority.  An observer that knows of a fork has the backed branch or has
\* stopped; what it has installed it knows, and installed lawfully.
RoInv ==
  /\ TypeOK
  /\ claiming \subseteq Rotations
  /\ announced \in [Rotations -> Nat \cup {Never}]
  /\ approvals \in [Rotations -> SUBSET Guardians]
  /\ vetoes \in [Rotations -> SUBSET Guardians]
  /\ known \in [Observers -> [Rotations -> {"unseen", "bare", "backed"}]]
  /\ installed \in [Observers -> SUBSET Rotations]
  /\ \A r, x \in Rotations : r # x => approvals[r] \cap approvals[x] = {}
  /\ \A o \in Observers, r \in Rotations :
       /\ known[o][r] = "backed" => r \in claiming /\ Majority(r)
       /\ known[o][r] # "unseen" => announced[r] # Never
  /\ \A o \in Observers : installed[o] # Halted =>
       /\ \A r \in installed[o] : known[o][r] # "unseen"
       /\ \A r, x \in Rotations : r # x /\ known[o][r] # "unseen" /\ known[o][x] # "unseen" =>
            \E b \in Rotations : installed[o] = {b} /\ known[o][b] = "backed"
  /\ InstalledLawfully

\* The policy's guardians are finitely many, no more than their places.
LEMMA GuardiansFinite ==
  ASSUME NEW p \in Policies
  PROVE  /\ IsFiniteSet(policy_guardians(p))
         /\ Cardinality(policy_guardians(p)) \in Nat
         /\ Cardinality(policy_guardians(p)) <= Cardinality(places(p))
<1> DEFINE P == places(p)
           G == policy_guardians(p)
           f == [c \in P |-> c[1].guardians[c[2]]]
<1>1. IsFiniteSet(P)
  BY PlacesFinite
<1>2. G = {c[1].guardians[c[2]] : c \in P}
  BY DEF policy_guardians
<1> HIDE DEF P, G
<1>3. f \in Surjection(P, G)
  BY <1>2 DEF Surjection
<1> HIDE DEF f
<1>4. IsFiniteSet(G) /\ Cardinality(G) <= Cardinality(P)
  BY <1>1, <1>3, FS_Surjection
<1>5. QED
  BY <1>4, FS_CardinalityType DEF P, G

\* Two majorities share a guardian, so no two rotations have one.
LEMMA OneMajority ==
  ASSUME RoInv, NEW r \in Rotations, NEW x \in Rotations, Majority(r), Majority(x)
  PROVE  r = x
<1> SUFFICES ASSUME r # x PROVE FALSE
  OBVIOUS
<1> DEFINE p == last.policy
           G == policy_guardians(p)
           A == approvals[r] \cap G
           B == approvals[x] \cap G
           n == Cardinality(places(p))
<1>1. p \in Policies
  BY ChainParts DEF last, RoInv
<1>2. IsFiniteSet(G) /\ Cardinality(G) <= n /\ Cardinality(G) \in Nat /\ n \in Nat
  BY <1>1, GuardiansFinite, PlacesFinite
<1>3. 2 * Cardinality(A) > n /\ 2 * Cardinality(B) > n
  BY DEF Majority
<1>4. A \cap B = {}
  BY DEF RoInv
<1> HIDE DEF p, G, n
<1>5. A \cup B \in SUBSET G /\ A \in SUBSET G /\ B \in SUBSET G
  OBVIOUS
<1> HIDE DEF A, B
<1>6. /\ IsFiniteSet(A) /\ IsFiniteSet(B)
      /\ Cardinality(A \cup B) <= Cardinality(G)
  BY <1>2, <1>5, FS_Subset
<1>7. Cardinality(A \cup B) = Cardinality(A) + Cardinality(B)
  <2>1. Cardinality(A \cup B) = Cardinality(A) + Cardinality(B) - Cardinality(A \cap B)
    BY <1>6, FS_Union
  <2>2. Cardinality(A \cap B) = 0
    BY <1>4, FS_EmptySet
  <2>3. Cardinality(A) \in Nat /\ Cardinality(B) \in Nat
    BY <1>6, FS_CardinalityType
  <2>4. QED
    BY <2>1, <2>2, <2>3
<1>8. Cardinality(A) \in Nat /\ Cardinality(B) \in Nat
  BY <1>6, FS_CardinalityType
<1>9. QED
  BY <1>2, <1>3, <1>6, <1>7, <1>8

\* key_rotation_is_quorum_backed asks for a majority at least.
LEMMA QuorumIsMajority ==
  ASSUME RoInv, NEW r \in Rotations, NEW signers \in SUBSET approvals[r],
         key_rotation_is_quorum_backed(r, last.policy, signers)
  PROVE  r \in claiming /\ Majority(r)
<1> DEFINE p   == last.policy
           G   == policy_guardians(p)
           n   == Cardinality(places(p))
           bar == threshold_min(p.rotate_threshold)
           c   == Cardinality(G \cap signers)
<1>1. p \in Policies
  BY ChainParts DEF last, RoInv
<1>2. n \in Nat /\ bar \in Nat /\ IsFiniteSet(G)
  BY <1>1, PlacesFinite, PolicyParts, ThresholdMin, GuardiansFinite
<1>3. r \in claiming /\ c >= required_rotate_quorum(p)
  BY DEF key_rotation_is_quorum_backed, count_quorum
<1>4. required_rotate_quorum(p) = IF n \div 2 + 1 >= bar THEN n \div 2 + 1 ELSE bar
  BY DEF required_rotate_quorum
<1> DEFINE A == approvals[r] \cap G
<1>5. A \in SUBSET G /\ G \cap signers \in SUBSET A
  OBVIOUS
<1> HIDE DEF p, G, n, bar
<1>6. IsFiniteSet(A) /\ Cardinality(A) \in Nat /\ c <= Cardinality(A) /\ c \in Nat
  <2> HIDE DEF A
  <2>1. IsFiniteSet(A)
    BY <1>2, <1>5, FS_Subset
  <2>2. IsFiniteSet(G \cap signers) /\ c <= Cardinality(A)
    BY <1>5, <2>1, FS_Subset
  <2>3. QED
    BY <2>1, <2>2, FS_CardinalityType
<1> HIDE DEF A, c
<1>7. 2 * c > n
  BY <1>2, <1>3, <1>4, <1>6
<1>8. 2 * Cardinality(A) > n
  BY <1>2, <1>6, <1>7
<1>9. QED
  BY <1>3, <1>8 DEF Majority, A, G, n, p

\* Nobody has seen a rotation yet.
LEMMA RoInit == Init /\ roInit => RoInv
<1> SUFFICES ASSUME Init, roInit PROVE RoInv
  OBVIOUS
<1>1. TypeOK
  BY InitEstablishes DEF RecInv
<1>2. /\ claiming \subseteq Rotations
      /\ announced = [r \in Rotations |-> Never]
      /\ approvals = [r \in Rotations |-> {}]
      /\ vetoes = [r \in Rotations |-> {}]
      /\ known = [o \in Observers |-> [r \in Rotations |-> "unseen"]]
      /\ installed = [o \in Observers |-> {}]
  BY DEF roInit
<1>3. QED
  BY <1>1, <1>2 DEF RoInv, InstalledLawfully

\* A step that leaves the observers and the announced rotations alone, and lets
\* approvals and the clock grow, preserves what the observers know to be so.
LEMMA GrowInv ==
  ASSUME RoInv, TypeOK',
         claiming' = claiming, known' = known, installed' = installed, history' = history,
         now' >= now,
         announced' \in [Rotations -> Nat \cup {Never}],
         \A r \in Rotations : announced[r] # Never => announced'[r] = announced[r],
         approvals' \in [Rotations -> SUBSET Guardians],
         vetoes' \in [Rotations -> SUBSET Guardians],
         \A r \in Rotations : approvals[r] \subseteq approvals'[r],
         \A r, x \in Rotations : r # x => approvals'[r] \cap approvals'[x] = {}
  PROVE  RoInv'
<1>1. last' = last
  BY DEF last
<1>2. ASSUME NEW r \in Rotations, Majority(r) PROVE Majority(r)'
  <2> DEFINE p == last.policy
             G == policy_guardians(p)
             A == approvals[r] \cap G
             B == approvals'[r] \cap G
             n == Cardinality(places(p))
  <2>1. p \in Policies
    BY ChainParts DEF last, RoInv
  <2>2. IsFiniteSet(G) /\ n \in Nat
    BY <2>1, GuardiansFinite, PlacesFinite
  <2>3. 2 * Cardinality(A) > n
    BY <1>2 DEF Majority
  <2>4. A \in SUBSET B /\ B \in SUBSET G
    OBVIOUS
  <2> HIDE DEF p, G, A, B, n
  <2>5. IsFiniteSet(B)
    BY <2>2, <2>4, FS_Subset
  <2>6. IsFiniteSet(A) /\ Cardinality(A) <= Cardinality(B)
    BY <2>4, <2>5, FS_Subset
  <2>7. Cardinality(A) \in Nat /\ Cardinality(B) \in Nat
    BY <2>5, <2>6, FS_CardinalityType
  <2>8. 2 * Cardinality(B) > n
    BY <2>2, <2>3, <2>6, <2>7
  <2>9. QED
    BY <1>1, <2>8 DEF Majority, B, G, n, p
<1>3. InstalledLawfully'
  <2> SUFFICES ASSUME NEW o \in Observers, NEW r \in installed[o], installed[o] # Halted
               PROVE  \/ r \in claiming /\ Majority(r)'
                      \/ r \notin claiming /\ now' >= saturating_add(announced'[r], Window)
    BY <1>1 DEF InstalledLawfully, Majority, Halted
  <2>1. r \in Rotations /\ announced'[r] = announced[r] /\ announced[r] \in Nat
    BY DEF RoInv
  <2>2. \/ r \in claiming /\ Majority(r)
        \/ r \notin claiming /\ now >= saturating_add(announced[r], Window)
    BY DEF RoInv, InstalledLawfully, Majority
  <2>3. now \in Nat /\ now' \in Nat /\ Window \in Nat /\ MaxTime \in Nat
    BY RecoveryAssumption DEF RoInv, TypeOK
  <2>4. saturating_add(announced[r], Window) \in Nat
    BY <2>1, <2>3 DEF saturating_add
  <2>5. QED
    BY <1>2, <2>1, <2>2, <2>3, <2>4
<1>4. ASSUME NEW o \in Observers, NEW r \in Rotations
      PROVE  /\ known'[o][r] = "backed" => r \in claiming' /\ Majority(r)'
             /\ known'[o][r] # "unseen" => announced'[r] # Never
  BY <1>2 DEF RoInv
<1>5. ASSUME NEW o \in Observers, installed'[o] # Halted'
      PROVE  /\ \A r \in installed'[o] : known'[o][r] # "unseen"
             /\ \A r, x \in Rotations : r # x /\ known'[o][r] # "unseen" /\ known'[o][x] # "unseen" =>
                  \E b \in Rotations : installed'[o] = {b} /\ known'[o][b] = "backed"
  BY <1>5 DEF RoInv, Halted
<1>6. /\ claiming' \subseteq Rotations
      /\ known' \in [Observers -> [Rotations -> {"unseen", "bare", "backed"}]]
      /\ installed' \in [Observers -> SUBSET Rotations]
  BY DEF RoInv
<1>7. QED
  BY <1>3, <1>4, <1>5, <1>6 DEF RoInv

\* An observer that gets a rotation chooses rightly.
LEMMA ObserveInv ==
  ASSUME RoInv, NEW o \in Observers, NEW r \in Rotations,
         NEW signers \in SUBSET approvals[r], NEW against \in SUBSET vetoes[r],
         observe(o, r, signers, against)
  PROVE  RoInv'
<1> DEFINE p      == last.policy
           backed == known[o][r] = "backed" \/ key_rotation_is_quorum_backed(r, p, signers)
           others == {x \in Rotations \ {r} : known[o][x] # "unseen"}
           fork   == CHOOSE x \in others : TRUE
           mark   == IF backed THEN "backed" ELSE "bare"
           choice == IF others # {} THEN prefer_rotation_fork(fork, known[o][fork] = "backed", r, backed)
                     ELSE IF authorize_key_rotation(r, p, signers, against, announced[r]) THEN {r}
                     ELSE installed[o]
<1>1. /\ announced[r] # Never /\ installed[o] # Halted
      /\ known' = [known EXCEPT ![o][r] = mark]
      /\ installed' = [installed EXCEPT ![o] = choice]
      /\ claiming' = claiming /\ announced' = announced /\ approvals' = approvals
      /\ vetoes' = vetoes /\ now' = now /\ history' = history
  BY DEF observe
<1>2. backed => r \in claiming /\ Majority(r)
  BY QuorumIsMajority DEF RoInv
<1>3. others # {} => fork \in others
  OBVIOUS
<1>4. /\ mark \in {"bare", "backed"}
      /\ mark = "backed" <=> backed
  OBVIOUS
<1>5. TypeOK' /\ last' = last
  BY <1>1 DEF RoInv, TypeOK, last
<1>6. \A x \in Rotations : Majority(x)' <=> Majority(x)
  BY <1>1, <1>5 DEF Majority
<1>7. /\ known' \in [Observers -> [Rotations -> {"unseen", "bare", "backed"}]]
      /\ known'[o][r] = mark
      /\ \A x \in Rotations : x # r => known'[o][x] = known[o][x]
      /\ \A q \in Observers : q # o => known'[q] = known[q]
  <2>1. known \in [Observers -> [Rotations -> {"unseen", "bare", "backed"}]]
    BY DEF RoInv
  <2> HIDE DEF mark
  <2>2. QED
    BY <1>1, <1>4, <2>1
<1> HIDE DEF backed, others, fork, mark
<1>8. \/ choice = Halted
      \/ \E b \in Rotations : choice = {b} /\ known'[o][b] = "backed"
      \/ /\ others = {} /\ choice = {r}
         /\ authorize_key_rotation(r, p, signers, against, announced[r])
      \/ others = {} /\ choice = installed[o]
  <2>1. CASE others # {}
    <3>1. fork \in Rotations /\ fork # r
      BY <1>3, <2>1 DEF others
    <3>2. known'[o][fork] = known[o][fork]
      BY <1>7, <3>1
    <3>3. choice = prefer_rotation_fork(fork, known[o][fork] = "backed", r, backed)
      BY <2>1
    <3> HIDE DEF choice
    <3>4. choice = Halted \/ (choice = {fork} /\ known[o][fork] = "backed") \/ (choice = {r} /\ backed)
      BY <3>3 DEF prefer_rotation_fork
    <3>5. QED
      BY <1>4, <1>7, <3>1, <3>2, <3>4
  <2>2. CASE others = {}
    BY <2>2
  <2>3. QED
    BY <2>1, <2>2
<1>9. installed'[o] = choice /\ \A q \in Observers : q # o => installed'[q] = installed[q]
  BY <1>1 DEF RoInv
<1>10. ASSUME NEW q \in Observers, NEW x \in Rotations
       PROVE  /\ known'[q][x] = "backed" => x \in claiming /\ Majority(x)
              /\ known'[q][x] # "unseen" => announced[x] # Never
  <2>1. /\ known[q][x] = "backed" => x \in claiming /\ Majority(x)
        /\ known[q][x] # "unseen" => announced[x] # Never
    BY DEF RoInv
  <2>2. CASE q = o /\ x = r
    BY <1>1, <1>2, <1>4, <1>7, <2>2
  <2>3. CASE ~ (q = o /\ x = r)
    BY <1>7, <2>1, <2>3
  <2>4. QED
    BY <2>2, <2>3
<1>11. choice \in SUBSET Rotations
  <2>1. installed[o] \in SUBSET Rotations /\ Halted \in SUBSET Rotations
    BY DEF RoInv, Halted
  <2> HIDE DEF choice
  <2>2. QED
    BY <1>8, <2>1
<1>12. installed' \in [Observers -> SUBSET Rotations]
  BY <1>1, <1>11 DEF RoInv
<1> HIDE DEF choice, p
<1>13. ASSUME NEW q \in Observers, installed'[q] # Halted
       PROVE  /\ \A x \in installed'[q] : known'[q][x] # "unseen"
              /\ \A x, y \in Rotations : x # y /\ known'[q][x] # "unseen" /\ known'[q][y] # "unseen" =>
                   \E b \in Rotations : installed'[q] = {b} /\ known'[q][b] = "backed"
  <2>0. installed[q] # Halted =>
          /\ \A x \in installed[q] : known[q][x] # "unseen"
          /\ \A x, y \in Rotations : x # y /\ known[q][x] # "unseen" /\ known[q][y] # "unseen" =>
               \E b \in Rotations : installed[q] = {b} /\ known[q][b] = "backed"
    BY DEF RoInv
  <2>1. CASE q # o
    BY <1>7, <1>9, <1>13, <2>0, <2>1
  <2>2. CASE q = o
    <3>1. CASE \E b \in Rotations : choice = {b} /\ known'[o][b] = "backed"
      BY <1>9, <2>2, <3>1
    <3>2. CASE others = {} /\ (choice = {r} \/ choice = installed[o])
      <4>1. \A x \in Rotations : x # r => known'[o][x] = "unseen"
        BY <1>7, <3>2 DEF others
      <4>2. \A x \in choice : known'[o][x] # "unseen"
        <5>1. known'[o][r] # "unseen"
          BY <1>4, <1>7
        <5>2. installed[o] \in SUBSET Rotations /\ \A x \in installed[o] : known[o][x] # "unseen"
          BY <1>1, <2>0, <2>2 DEF RoInv
        <5>3. QED
          BY <1>7, <3>2, <5>1, <5>2
      <4>3. QED
        BY <1>9, <2>2, <4>1, <4>2
    <3>3. QED
      BY <1>8, <1>9, <1>13, <2>2, <3>1, <3>2
  <2>3. QED
    BY <2>1, <2>2
<1>14. InstalledLawfully'
  <2> SUFFICES ASSUME NEW q \in Observers, NEW x \in installed'[q], installed'[q] # Halted
               PROVE  \/ x \in claiming /\ Majority(x)
                      \/ x \notin claiming /\ now >= saturating_add(announced[x], Window)
    BY <1>1, <1>5 DEF InstalledLawfully, Majority, Halted
  <2>1. CASE q # o \/ (others = {} /\ choice = installed[o])
    <3>1. x \in installed[q] /\ installed[q] # Halted
      BY <1>9, <2>1
    <3>2. QED
      BY <3>1 DEF RoInv, InstalledLawfully, Majority
  <2>2. CASE q = o /\ \E b \in Rotations : choice = {b} /\ known'[o][b] = "backed"
    BY <1>9, <1>10, <2>2
  <2>3. CASE q = o /\ choice = {r} /\ authorize_key_rotation(r, p, signers, against, announced[r])
    <3>1. x = r
      BY <1>9, <2>3
    <3>2. CASE key_rotation_is_quorum_backed(r, p, signers)
      BY <3>1, <3>2, QuorumIsMajority DEF p
    <3>3. CASE r \notin claiming /\ now >= saturating_add(announced[r], Window)
      BY <3>1, <3>3
    <3>4. QED
      BY <2>3, <3>2, <3>3 DEF authorize_key_rotation
  <2>4. QED
    BY <1>8, <1>9, <2>1, <2>2, <2>3
<1>15. QED
  <2>1. /\ claiming' \subseteq Rotations
        /\ announced' \in [Rotations -> Nat \cup {Never}]
        /\ approvals' \in [Rotations -> SUBSET Guardians]
        /\ vetoes' \in [Rotations -> SUBSET Guardians]
        /\ \A a, b \in Rotations : a # b => approvals'[a] \cap approvals'[b] = {}
    BY <1>1 DEF RoInv
  <2>2. \A q \in Observers, x \in Rotations :
          /\ known'[q][x] = "backed" => x \in claiming' /\ Majority(x)'
          /\ known'[q][x] # "unseen" => announced'[x] # Never
    BY <1>1, <1>6, <1>10
  <2>3. Halted' = Halted
    BY DEF Halted
  <2>4. QED
    BY <1>5, <1>7, <1>12, <1>13, <1>14, <2>1, <2>2, <2>3 DEF RoInv

\* Every step of guardians, observers and clock preserves RoInv.
LEMMA RoNext == RoInv /\ [roNext]_<<vars, roVars>> => RoInv'
<1> SUFFICES ASSUME RoInv, [roNext]_<<vars, roVars>> PROVE RoInv'
  OBVIOUS
<1>0. /\ announced \in [Rotations -> Nat \cup {Never}]
      /\ approvals \in [Rotations -> SUBSET Guardians]
      /\ vetoes \in [Rotations -> SUBSET Guardians]
      /\ \A r, x \in Rotations : r # x => approvals[r] \cap approvals[x] = {}
      /\ TypeOK /\ now \in Nat /\ MaxTime \in Nat
  BY RecoveryAssumption DEF RoInv, TypeOK
<1>t. history' = history /\ now' \in 0 .. MaxTime => TypeOK'
  BY <1>0 DEF TypeOK
<1>1. ASSUME NEW r \in Rotations, announce(r) PROVE RoInv'
  <2>1. /\ announced[r] = Never
        /\ announced' = [announced EXCEPT ![r] = now]
        /\ claiming' = claiming /\ approvals' = approvals /\ vetoes' = vetoes /\ known' = known
        /\ installed' = installed /\ now' = now /\ history' = history
    BY <1>1 DEF announce
  <2>2. TypeOK'
    BY <1>0, <1>t, <2>1 DEF TypeOK
  <2>3. announced' \in [Rotations -> Nat \cup {Never}]
    BY <1>0, <2>1
  <2>4. \A x \in Rotations : announced[x] # Never => announced'[x] = announced[x]
    BY <1>0, <2>1
  <2>5. QED
    BY <1>0, <2>1, <2>2, <2>3, <2>4, GrowInv
<1>2. ASSUME NEW g \in Guardians, NEW r \in Rotations, approve(g, r) PROVE RoInv'
  <2>1. /\ \A x \in Rotations : g \notin approvals[x]
        /\ approvals' = [approvals EXCEPT ![r] = @ \cup {g}]
        /\ claiming' = claiming /\ announced' = announced /\ vetoes' = vetoes /\ known' = known
        /\ installed' = installed /\ now' = now /\ history' = history
    BY <1>2 DEF approve
  <2>2. TypeOK'
    BY <1>0, <1>t, <2>1 DEF TypeOK
  <2>3. /\ approvals' \in [Rotations -> SUBSET Guardians]
        /\ \A x \in Rotations : approvals[x] \subseteq approvals'[x]
        /\ \A a, b \in Rotations : a # b => approvals'[a] \cap approvals'[b] = {}
    BY <1>0, <2>1
  <2>4. QED
    BY <1>0, <2>1, <2>2, <2>3, GrowInv
<1>3. ASSUME NEW g \in Guardians, NEW r \in Rotations, veto(g, r) PROVE RoInv'
  <2>1. /\ vetoes' = [vetoes EXCEPT ![r] = @ \cup {g}]
        /\ claiming' = claiming /\ announced' = announced /\ approvals' = approvals /\ known' = known
        /\ installed' = installed /\ now' = now /\ history' = history
    BY <1>3 DEF veto
  <2>2. TypeOK'
    BY <1>0, <1>t, <2>1 DEF TypeOK
  <2>3. vetoes' \in [Rotations -> SUBSET Guardians]
    BY <1>0, <2>1
  <2>4. QED
    BY <1>0, <2>1, <2>2, <2>3, GrowInv
<1>4. ASSUME NEW o \in Observers, NEW r \in Rotations, NEW signers \in SUBSET approvals[r],
             NEW against \in SUBSET vetoes[r], observe(o, r, signers, against)
      PROVE  RoInv'
  BY <1>4, ObserveInv
<1>5. CASE Tick /\ UNCHANGED roVars
  <2>1. /\ now' = now + 1 /\ now < MaxTime /\ history' = history
        /\ claiming' = claiming /\ announced' = announced /\ approvals' = approvals
        /\ vetoes' = vetoes /\ known' = known /\ installed' = installed
    BY <1>5 DEF Tick, roVars
  <2>2. TypeOK' /\ now' >= now
    BY <1>0, <1>t, <2>1
  <2>3. QED
    BY <1>0, <2>1, <2>2, GrowInv
<1>6. CASE UNCHANGED <<vars, roVars>>
  <2>1. /\ now' = now /\ history' = history
        /\ claiming' = claiming /\ announced' = announced /\ approvals' = approvals
        /\ vetoes' = vetoes /\ known' = known /\ installed' = installed
    BY <1>6 DEF vars, roVars
  <2>2. TypeOK' /\ now' >= now
    BY <1>0, <1>t, <2>1 DEF TypeOK
  <2>3. QED
    BY <1>0, <2>1, <2>2, GrowInv
<1>7. QED
  BY <1>1, <1>2, <1>3, <1>4, <1>5, <1>6 DEF roNext

\* The inductive invariant of a fork.
THEOREM RotationInvariance == roSpec => []RoInv
<1>1. QED
  BY RoInit, RoNext, PTL DEF roSpec

\* However many rotations stand at one place of the chain, in whatever order and
\* with whatever signatures the observers get them, no two of them that know the
\* whole fork end on different keys.
THEOREM ForksAgree == roSpec => []ForkAgreement
<1>1. RoInv => ForkAgreement
  <2> SUFFICES ASSUME RoInv, NEW o \in Observers, NEW q \in Observers,
                      \A r \in Rotations : known[o][r] # "unseen" /\ known[q][r] # "unseen",
                      installed[o] # Halted, installed[q] # Halted
               PROVE  installed[o] = installed[q]
    BY DEF ForkAgreement
  <2>1. CASE \E r, x \in Rotations : r # x
    <3>1. PICK b \in Rotations : installed[o] = {b} /\ known[o][b] = "backed"
      BY <2>1 DEF RoInv
    <3>2. PICK c \in Rotations : installed[q] = {c} /\ known[q][c] = "backed"
      BY <2>1 DEF RoInv
    <3>3. Majority(b) /\ Majority(c)
      BY <3>1, <3>2 DEF RoInv
    <3>4. b = c
      BY <3>3, OneMajority
    <3>5. QED
      BY <3>1, <3>2, <3>4
  <2>2. CASE \A r, x \in Rotations : r = x
    <3>1. installed[o] \in SUBSET Rotations /\ installed[q] \in SUBSET Rotations
      BY DEF RoInv
    <3>2. QED
      BY <2>2, <3>1 DEF Halted
  <2>3. QED
    BY <2>1, <2>2
<1>2. QED
  BY <1>1, RotationInvariance, PTL

\* The old key alone moves nobody before the veto window is over.
THEOREM InstallationsLawful == roSpec => []InstalledLawfully
<1>1. RoInv => InstalledLawfully
  BY DEF RoInv
<1>2. QED
  BY <1>1, RotationInvariance, PTL
=============================================================================
