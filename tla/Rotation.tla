------------------------------ MODULE Rotation ------------------------------
(***************************************************************************)
(* Key rotation under a recovery policy: KeyRotation,                      *)
(* authorize_key_rotation and prefer_rotation_fork in                      *)
(* crates/kotva-core/src/identity.rs.                                      *)
(*                                                                         *)
(* Whoever holds the old key may sign a rotation to a key of his own, so   *)
(* that two rotations may stand at one place of the chain.  Guardians      *)
(* approve one of them and veto any.  Observers get the rotations in any   *)
(* order, each with some of the signatures made for it so far, and keep    *)
(* which of them they saw and whether it was quorum-backed.  The policy    *)
(* and the clock are module Recovery's.                                    *)
(***************************************************************************)
EXTENDS Recovery

CONSTANTS Rotations,  \* the rotations signed by the old key at one place of the chain
          Observers

ASSUME RotationAssumption == IsFiniteSet(Rotations)

VARIABLES claiming,   \* the rotations that carry rotate_quorum
          announced,  \* when a rotation was published, Never before that
          approvals,  \* the guardians that co-signed each rotation
          vetoes,
          known,      \* per observer and rotation: "unseen", "bare" or "backed"
          installed   \* per observer: the rotations whose new key it has installed, one
                      \* at most, or Halted

roVars == <<claiming, announced, approvals, vetoes, known, installed>>

Never  == -1
Halted == Rotations      \* ERR_IDENTITY_CHAIN_BROKEN

-----------------------------------------------------------------------------

\* Mutant of required_rotate_quorum: the policy's bar alone.
required_rotate_quorum_bar(p) == threshold_min(p.rotate_threshold)

\* The stronger of a strict majority of the guardians' places and the bar the
\* policy asks for.
required_rotate_quorum(p) ==
  LET majority == Cardinality(places(p)) \div 2 + 1
      bar      == threshold_min(p.rotate_threshold)
  IN  IF majority >= bar THEN majority ELSE bar

key_rotation_is_quorum_backed(r, p, signers) ==
  r \in claiming /\ count_quorum(policy_guardians(p), signers) >= required_rotate_quorum(p)

authorize_key_rotation(r, p, signers, against, announced_at) ==
  \/ key_rotation_is_quorum_backed(r, p, signers)
  \/ /\ r \notin claiming
     /\ ~ (count_quorum(policy_guardians(p), against) * 2 > Cardinality(places(p)))
     /\ now >= saturating_add(announced_at, Window)

\* Mutant of prefer_rotation_fork: of two branches alike the one seen first stays.
prefer_rotation_first(a, a_backed, b, b_backed) == IF b_backed /\ ~ a_backed THEN {b} ELSE {a}

\* Two branches alike are an equivocation.
prefer_rotation_fork(a, a_backed, b, b_backed) ==
  CASE a_backed /\ ~ b_backed -> {a}
    [] ~ a_backed /\ b_backed -> {b}
    [] OTHER                  -> Halted

-----------------------------------------------------------------------------

roInit ==
  /\ claiming \in SUBSET Rotations
  /\ announced = [r \in Rotations |-> Never]
  /\ approvals = [r \in Rotations |-> {}]
  /\ vetoes = [r \in Rotations |-> {}]
  /\ known = [o \in Observers |-> [r \in Rotations |-> "unseen"]]
  /\ installed = [o \in Observers |-> {}]

announce(r) ==
  /\ announced[r] = Never
  /\ announced' = [announced EXCEPT ![r] = now]
  /\ UNCHANGED <<claiming, approvals, vetoes, known, installed, now, history>>

\* sign_key_rotation_approval, of a rotation that asks for it: a guardian stands behind
\* one at most.
approve(g, r) ==
  /\ announced[r] # Never /\ r \in claiming /\ \A x \in Rotations : g \notin approvals[x]
  /\ approvals' = [approvals EXCEPT ![r] = @ \cup {g}]
  /\ UNCHANGED <<claiming, announced, vetoes, known, installed, now, history>>

\* sign_key_rotation_veto; a veto is looked at for a rotation without a quorum only.
veto(g, r) ==
  /\ announced[r] # Never /\ r \notin claiming /\ g \notin approvals[r] \cup vetoes[r]
  /\ vetoes' = [vetoes EXCEPT ![r] = @ \cup {g}]
  /\ UNCHANGED <<claiming, announced, approvals, known, installed, now, history>>

\* An observer gets r with some of its signatures.  It installs the new key when
\* that is authorized and the place is free; when another rotation is there, the
\* fork is resolved.
observe(o, r, signers, against) ==
  LET p      == last.policy
      backed == known[o][r] = "backed" \/ key_rotation_is_quorum_backed(r, p, signers)
      others == {x \in Rotations \ {r} : known[o][x] # "unseen"}
      fork   == CHOOSE x \in others : TRUE
  IN
  /\ announced[r] # Never /\ installed[o] # Halted
  /\ signers \subseteq approvals[r] /\ against \subseteq vetoes[r]
  /\ known' = [known EXCEPT ![o][r] = IF backed THEN "backed" ELSE "bare"]
  /\ installed' = [installed EXCEPT ![o] =
       IF others # {} THEN prefer_rotation_fork(fork, known[o][fork] = "backed", r, backed)
       ELSE IF authorize_key_rotation(r, p, signers, against, announced[r]) THEN {r} ELSE @]
  /\ UNCHANGED <<claiming, announced, approvals, vetoes, now, history>>

roNext ==
  \/ \E r \in Rotations : announce(r)
  \/ \E g \in Guardians, r \in Rotations : approve(g, r) \/ veto(g, r)
  \/ \E o \in Observers, r \in Rotations :
       \E signers \in SUBSET approvals[r], against \in SUBSET vetoes[r] : observe(o, r, signers, against)
  \/ Tick /\ UNCHANGED roVars

\* Keys are rotated under the policy the verifiers have.
roSpec == Init /\ roInit /\ [][roNext]_<<vars, roVars>>

-----------------------------------------------------------------------------
(* Properties.                                                             *)

\* Two observers that saw the whole fork never end on different keys, in whatever
\* order and with whatever signatures it came: both choose the branch a majority of
\* the guardians is behind, or one of them stops.
ForkAgreement ==
  \A o, q \in Observers :
    /\ \A r \in Rotations : known[o][r] # "unseen" /\ known[q][r] # "unseen"
    /\ installed[o] # Halted /\ installed[q] # Halted
    => installed[o] = installed[q]

\* The old key alone does not move anybody at once: a key is installed with the
\* signatures of a majority of the places the policy gives its guardians, or, for a
\* rotation that asks for none, after the veto window (authorize_key_rotation).
InstalledLawfully ==
  \A o \in Observers : \A r \in installed[o] :
    installed[o] # Halted =>
      \/ /\ r \in claiming
         /\ 2 * Cardinality(approvals[r] \cap policy_guardians(last.policy)) > Cardinality(places(last.policy))
      \/ r \notin claiming /\ now >= saturating_add(announced[r], Window)
=============================================================================
