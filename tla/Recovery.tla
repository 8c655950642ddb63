------------------------------ MODULE Recovery ------------------------------
(***************************************************************************)
(* Recovery policies and the guard on changes that weaken them:            *)
(* RecoveryPolicy and authorize_recovery_change in                         *)
(* crates/kotva-core/src/identity.rs.                                      *)
(*                                                                         *)
(* The state is one verifier's: the chain of policy versions it accepted.  *)
(* A step is one more version put before it, with the counter-signatures   *)
(* and the time of announcement presented for it, which are arguments of   *)
(* the code too.  Every version presented is signed by IK: one that is not *)
(* is refused and changes nothing, as all refused ones are stutters.  The  *)
(* verifier calls verify, check_rollback and authorize_recovery_change and *)
(* extends its chain, which the next call checks as a whole.               *)
(*                                                                         *)
(* A policy's content id is abstracted to its place in the chain, which is *)
(* what prev names, and its list of methods to a set.  The guardians       *)
(* passed with a change are those the last version names.  backed is a     *)
(* ghost.                                                                  *)
(***************************************************************************)
EXTENDS Integers, Sequences, FiniteSets

CONSTANTS Guardians,    \* guardian keys
          Policies,     \* the policy bodies anybody may write
          Window,       \* RECOVERY_VETO_WINDOW_MS
          MaxTime,      \* u64::MAX, as far as saturating_add goes
          MaxVersion    \* bound: version numbers

\* RecoveryMethod is a tagged choice, MethodPredicate a kind with a count.
IsMethod(m) ==
  \/ m.kind = "phrase"
  \/ m.kind = "device"
  \/ m.kind = "social" /\ m.guardians \in Seq(Guardians) /\ m.threshold \in Nat

Predicate == [kind : {"phrase", "device", "social", "ik"}, count : Nat]

ASSUME RecoveryAssumption ==
  /\ IsFiniteSet(Guardians)
  /\ Window \in Nat /\ MaxTime \in Nat /\ MaxVersion \in Nat
  /\ \A p \in Policies :
       /\ IsFiniteSet(p.methods) /\ \A m \in p.methods : IsMethod(m)
       /\ p.recover_threshold \subseteq Predicate
       /\ p.rotate_threshold \subseteq Predicate

VARIABLES
  history,   \* the versions accepted: [policy, version, prev, backed]
  now        \* the verifier's clock

vars == <<history, now>>

last == history[Len(history)]

-----------------------------------------------------------------------------
(* One policy.                                                             *)

\* Of every kind in both, `rotate` never asks for less than `recover`.
at_least_as_strong_as(rotate, recover) ==
  \A p \in recover, q \in rotate : q.kind = p.kind => q.count >= p.count

verify(p) ==
  /\ p.rotate_threshold # {}
  /\ at_least_as_strong_as(p.rotate_threshold, p.recover_threshold)

\* The easiest alternative of a threshold; 0 when it has none.
threshold_min(t) ==
  IF t = {} THEN 0
  ELSE LET easiest == CHOOSE p \in t : \A q \in t : p.count <= q.count IN easiest.count

-----------------------------------------------------------------------------
(* Two policies: what counts as weakening.                                 *)

\* Mutant of method_at_least_as_strong: the guardians' threshold forgotten.
method_at_least_as_wide(prev, cand) ==
  /\ prev.kind = cand.kind
  /\ prev.kind \in {"phrase", "device"} => prev = cand
  /\ prev.kind = "social" =>
       \A i \in DOMAIN prev.guardians : \E j \in DOMAIN cand.guardians :
         cand.guardians[j] = prev.guardians[i]

\* The same key material, or the same guardians and more at no lower bar.
method_at_least_as_strong(prev, cand) ==
  /\ prev.kind = cand.kind
  /\ prev.kind \in {"phrase", "device"} => prev = cand
  /\ prev.kind = "social" =>
       /\ cand.threshold >= prev.threshold
       /\ \A i \in DOMAIN prev.guardians : \E j \in DOMAIN cand.guardians :
            cand.guardians[j] = prev.guardians[i]

\* A method dropped or narrowed, or a threshold's easiest alternative lowered.
recovery_change_is_weakening(prev, next) ==
  \/ \E m \in prev.methods : \A c \in next.methods : ~ method_at_least_as_strong(m, c)
  \/ threshold_min(next.recover_threshold) < threshold_min(prev.recover_threshold)
  \/ threshold_min(next.rotate_threshold) < threshold_min(prev.rotate_threshold)

\* Methods of earlier versions that the last one lacks.
evicted(h) ==
  {m \in UNION {h[i].policy.methods : i \in DOMAIN h} : m \notin h[Len(h)].policy.methods}

\* Mutant of recovery_change_is_weakening_vs_history: the last version alone.
recovery_change_is_weakening_vs_last(h, next) ==
  recovery_change_is_weakening(h[Len(h)].policy, next)

recovery_change_is_weakening_vs_history(h, next) ==
  \/ recovery_change_is_weakening(h[Len(h)].policy, next)
  \/ next.methods \cap evicted(h) # {}

-----------------------------------------------------------------------------
(* The guard.                                                              *)

\* A complete chain from genesis, each version naming the one before it.
verify_policy_chain(h) ==
  /\ h # <<>> /\ h[1].prev = 0
  /\ \A i \in DOMAIN h : i > 1 => h[i].prev = i - 1 /\ h[i].version > h[i - 1].version

\* The places of the guardians in a policy: a guardian named by two methods
\* has two.
places(p) ==
  UNION {{<<m, j>> : j \in DOMAIN m.guardians} : m \in {c \in p.methods : c.kind = "social"}}

policy_guardians(p) == {c[1].guardians[c[2]] : c \in places(p)}

\* Signatures count once for each recognised guardian.
count_quorum(guardians, signers) == Cardinality(guardians \cap signers)

saturating_add(a, b) == IF a + b > MaxTime THEN MaxTime ELSE a + b

authorize_recovery_change(next, approvals, vetoes, announced_at) ==
  /\ verify_policy_chain(history)
  /\ recovery_change_is_weakening_vs_history(history, next) =>
       LET n == Cardinality(places(last.policy))
           g == policy_guardians(last.policy)
       IN  /\ count_quorum(g, approvals) >= n \div 2 + 1
           /\ count_quorum(g, approvals) >= threshold_min(last.policy.rotate_threshold)
           /\ ~ (count_quorum(g, vetoes) * 2 > n)
           /\ now >= saturating_add(announced_at, Window)

check_rollback(version, last_pinned) == version > last_pinned

-----------------------------------------------------------------------------
(* What the documents ask of a change that weakens: more than half of the  *)
(* guardians the last version names and as many as its rotate threshold    *)
(* asks for approved, no such majority vetoed, and the window is over.  (A *)
(* guardian named twice is two of those to be outvoted.)                   *)
Backed(approvals, vetoes, announced_at) ==
  LET p == last.policy
      n == Cardinality(places(p))
  IN  /\ 2 * Cardinality(policy_guardians(p) \cap approvals) > n
      /\ \E r \in p.rotate_threshold : Cardinality(policy_guardians(p) \cap approvals) >= r.count
      /\ 2 * Cardinality(policy_guardians(p) \cap vetoes) <= n
      /\ now - announced_at >= Window \/ now = MaxTime

Init ==
  /\ now = 0
  /\ \E p \in Policies, v \in 1 .. MaxVersion :
       /\ verify(p)
       /\ history = <<[policy |-> p, version |-> v, prev |-> 0, backed |-> FALSE]>>

\* One version is presented and accepted, with the counter-signatures and the
\* time of its announcement.  It names the last one (the chain would be
\* refused as a whole by the next call otherwise).
change(next, version, prev) ==
  /\ verify(next)
  /\ check_rollback(version, last.version)
  /\ prev = Len(history)
  /\ \E approvals, vetoes \in SUBSET Guardians, announced_at \in 0 .. MaxTime :
       /\ authorize_recovery_change(next, approvals, vetoes, announced_at)
       /\ history' = Append(history, [policy |-> next, version |-> version, prev |-> prev,
                                      backed |-> Backed(approvals, vetoes, announced_at)])
  /\ UNCHANGED now

Tick == now < MaxTime /\ now' = now + 1 /\ UNCHANGED history

Next ==
  \/ Tick
  \/ \E next \in Policies, version \in 1 .. MaxVersion, prev \in 0 .. Len(history) :
       change(next, version, prev)

Spec == Init /\ [][Next]_vars

-----------------------------------------------------------------------------
(* Properties.                                                             *)

\* The type of the chain.  It stays a chain: versions only go up.
TypeOK ==
  /\ now \in 0 .. MaxTime
  /\ history \in Seq([policy : Policies, version : 1 .. MaxVersion, prev : Nat, backed : BOOLEAN])
  /\ verify_policy_chain(history)

\* Some version after i, up to j, had the guardians behind it.
BackedBetween(i, j) == \E k \in i + 1 .. j : history[k].backed

\* The guardians a method names.
Named(m) == {m.guardians[i] : i \in DOMAIN m.guardians}

\* `new` gives up something that `old` had: a key, a guardian in every method
\* that might stand for the old one, the number of guardians asked for, or
\* the count that every alternative of a threshold asked for.
Weaker(old, new) ==
  \/ \E m \in old.methods : m.kind # "social" /\ m \notin new.methods
  \/ \E m \in old.methods :
       /\ m.kind = "social"
       /\ \A c \in new.methods :
            c.kind = "social" => c.threshold < m.threshold \/ ~ Named(m) \subseteq Named(c)
  \/ \E r \in new.recover_threshold :
       old.recover_threshold # {} /\ \A o \in old.recover_threshold : r.count < o.count
  \/ \E r \in new.rotate_threshold :
       old.rotate_threshold # {} /\ \A o \in old.rotate_threshold : r.count < o.count

\* However many steps it takes, no later version is weaker than an earlier
\* one unless the guardians backed a change between the two: small changes
\* that each pass for harmless do not add up (recovery_change_is_weakening
\* compares neighbours only).
NoErosion ==
  \A i, j \in DOMAIN history :
    i < j /\ Weaker(history[i].policy, history[j].policy) => BackedBetween(i, j)

\* A method that a version dropped does not come back, in however many steps,
\* unless the guardians backed a change since it was dropped.
EvictionDurable ==
  \A i, j, k \in DOMAIN history :
    \A m \in history[i].policy.methods :
      i < j /\ j < k /\ m \notin history[j].policy.methods /\ m \in history[k].policy.methods
        => BackedBetween(j, k)

\* The keys of the devices and guardians and of the phrase that a policy names.
Factors(p) ==
  policy_guardians(p) \cup {m.key : m \in {c \in p.methods : c.kind # "social"}}

\* What the documents say of the same: key material that a version dropped
\* does not come back, under whatever label, threshold or company, unless the
\* guardians backed a change since.
KeyEvictionDurable ==
  \A i, j, k \in DOMAIN history :
    \A x \in Factors(history[i].policy) :
      i < j /\ j < k /\ x \notin Factors(history[j].policy) /\ x \in Factors(history[k].policy)
        => BackedBetween(j, k)
=============================================================================
