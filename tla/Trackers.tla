------------------------------ MODULE Trackers ------------------------------
(***************************************************************************)
(* The anti-rollback state kept per issuer: LocationTracker (location.rs), *)
(* MixDirectoryTracker (mixnet.rs), CapsVersionTracker (capability.rs),    *)
(* SuiteRatchet (suite.rs), a profile's pinned version (profile.rs) and    *)
(* the wake nonces of a device (push.rs).                                  *)
(*                                                                         *)
(* Issuers sign records with rising numbers; the network loses, repeats    *)
(* and reorders them, and offers forged ones.  One behaviour follows one   *)
(* tracker.  A signature is symbolic: `good` says that it verifies.        *)
(***************************************************************************)
EXTENDS Integers, Sequences, FiniteSets

CONSTANTS Issuers,
          MaxSeq,       \* bound on the numbers issued
          MaxTime,      \* bound on the clock
          Ttl, Skew,    \* a location record's lifetime and the clock skew allowed
          MaxAccepted   \* bound on the history of accepted records kept

ASSUME TrackersAssumption == MaxSeq \in Nat

VARIABLES tracker,    \* which of Kinds this behaviour follows
          issued,     \* per issuer, the times at which record 1, 2, ... was signed
          seen,       \* per issuer, the highest number accepted, NoMark before the first
          journal,    \* the marks saved by the owner of a LocationTracker, in any order
          nonces,     \* the wake nonces a device has reserved
          accepted,   \* history: the <<issuer, number>> accepted, in order
          now

trVars == <<tracker, issued, seen, journal, nonces, accepted, now>>

Kinds == {"location", "mix", "caps", "suite", "profile", "wake"}

NoMark == -1

\* A record as it arrives: forged ones have a number of their own choosing.
Record == [ik : Issuers, seq : 1 .. MaxSeq, good : BOOLEAN, substrate : {1, 2}]

Genuine(r) == r.seq <= Len(issued[r.ik])

\* A forged record never verifies, and a genuine one does.
Offered(r) == r.good = Genuine(r)

-----------------------------------------------------------------------------
(* The checks.                                                             *)

\* LocationRecord::check_fresh; a forged record claims to be from now.
check_fresh(r) ==
  LET ts == IF Genuine(r) THEN issued[r.ik][r.seq] ELSE now
  IN  now + Skew >= ts /\ now < ts + Ttl

\* LocationRecord::validate, for a node that speaks substrate 1.
validate(r) == r.good /\ check_fresh(r) /\ r.substrate = 1

\* Older or equal is stale.
newer(r) == seen[r.ik] = NoMark \/ r.seq > seen[r.ik]

\* Mutant of admits: the rollback check before, and without, the signature.
admits_unsigned(r) == IF tracker = "wake" THEN <<r.ik, r.seq>> \notin nonces ELSE newer(r)

\* LocationTracker::admit: accept comes after validate.
location_admit(r) == validate(r) /\ newer(r)

\* MixDirectoryTracker::accept.
mix_accept(r) == r.good /\ newer(r)

\* CapsVersionTracker::accept.
caps_accept(r) == r.good /\ newer(r)

\* SuiteRatchet::accept, for a mote that has been validated: the same suite
\* again is no downgrade.
ratchet_accept(r) == r.good /\ ~(r.seq < seen[r.ik])

\* Profile::verify, then check_rollback with the version pinned.
profile_accept(r) == r.good /\ newer(r)

\* WakePing::open_dedup: a wake that does not open reserves no nonce.
open_dedup(r) == r.good /\ <<r.ik, r.seq>> \notin nonces

admits(r) ==
  CASE tracker = "location" -> location_admit(r)
    [] tracker = "mix"      -> mix_accept(r)
    [] tracker = "caps"     -> caps_accept(r)
    [] tracker = "suite"    -> ratchet_accept(r)
    [] tracker = "profile"  -> profile_accept(r)
    [] tracker = "wake"     -> open_dedup(r)

\* Mutant of from_high_water_marks: some mark for the key, not the highest.
from_marks_any(marks) ==
  [i \in Issuers |->
     LET of == {m[2] : m \in {x \in marks : x[1] = i}}
     IN  IF of = {} THEN NoMark ELSE CHOOSE s \in of : \A x \in of : s <= x]

\* LocationTracker::from_high_water_marks: the higher of two marks for a key.
from_high_water_marks(marks) ==
  [i \in Issuers |->
     LET of == {m[2] : m \in {x \in marks : x[1] = i}}
     IN  IF of = {} THEN NoMark ELSE CHOOSE s \in of : \A x \in of : x <= s]

-----------------------------------------------------------------------------

trInit ==
  /\ tracker \in Kinds
  /\ issued = [i \in Issuers |-> <<>>]
  /\ seen = [i \in Issuers |-> NoMark]
  /\ journal = {} /\ nonces = {} /\ accepted = <<>> /\ now = 0

publish(i) ==
  /\ Len(issued[i]) < MaxSeq
  /\ issued' = [issued EXCEPT ![i] = Append(@, now)]
  /\ UNCHANGED <<tracker, seen, journal, nonces, accepted, now>>

\* A refused record changes nothing.
deliver(r) ==
  /\ Offered(r) /\ admits(r)
  /\ Len(accepted) < MaxAccepted
  /\ IF tracker = "wake"
     THEN nonces' = nonces \cup {<<r.ik, r.seq>>} /\ UNCHANGED seen
     ELSE seen' = [seen EXCEPT ![r.ik] = r.seq] /\ UNCHANGED nonces
  /\ journal' = IF tracker = "location" THEN journal \cup {<<r.ik, r.seq>>} ELSE journal
  /\ accepted' = Append(accepted, <<r.ik, r.seq>>)
  /\ UNCHANGED <<tracker, issued, now>>

\* A node restarts and rebuilds its tracker from what it saved.
restart ==
  /\ tracker = "location" /\ journal # {}
  /\ seen' = from_high_water_marks(journal)
  /\ UNCHANGED <<tracker, issued, journal, nonces, accepted, now>>

tick ==
  /\ now < MaxTime
  /\ now' = now + 1
  /\ UNCHANGED <<tracker, issued, seen, journal, nonces, accepted>>

trNext ==
  \/ \E i \in Issuers : publish(i)
  \/ \E r \in Record : deliver(r)
  \/ restart
  \/ tick

trSpec == trInit /\ [][trNext]_trVars

-----------------------------------------------------------------------------
(* Properties.                                                             *)

\* However records are repeated and reordered, and across restarts, what is
\* accepted from one issuer only moves forward, and no wake is taken twice
\* (the accept methods of the trackers; a suite may be met again).
NoRollback ==
  \A a, b \in DOMAIN accepted : a < b /\ accepted[a][1] = accepted[b][1] =>
    CASE tracker = "suite" -> accepted[a][2] <= accepted[b][2]
      [] tracker = "wake"  -> accepted[a][2] # accepted[b][2]
      [] OTHER             -> accepted[a][2] < accepted[b][2]

\* A forged record leaves no mark: the next record an issuer signs is still
\* above the mark, so no issuer can be locked out by another (the order of
\* validate and accept in location.rs, verify and the comparison elsewhere).
NotLockedOut ==
  /\ \A i \in Issuers : seen[i] <= Len(issued[i])
  /\ \A n \in nonces : n[2] <= Len(issued[n[1]])
=============================================================================
