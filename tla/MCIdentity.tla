----------------------------- MODULE MCIdentity -----------------------------
(* Recovery and Rotation for TLC: a behaviour changes the recovery policy, or *)
(* rotates keys under the policy it begins with.  The policies of rotations   *)
(* are one with a bar above the majority, one with guardians named by two      *)
(* methods and one with two guardians.                                         *)
EXTENDS MCRecovery, Rotation

VARIABLE part

RotationPolicies ==
  {Policy({Three, Device("desk"), Phrase}, {Guards(2)}, {Guards(3)}),
   Policy({Three, Social(<<g1, g2>>, 1)}, {Guards(1)}, {Guards(2), [kind |-> "ik", count |-> 1]}),
   Policy({Social(<<g1, g2>>, 2), Device("desk")}, {Guards(2)}, {Guards(2)})}

identityVars == <<part, vars, roVars>>

identityInit ==
  /\ part \in {"policies", "rotations"}
  /\ Init /\ roInit
  /\ part = "policies" => claiming = {}
  /\ part = "rotations" => history[1].version = 1 /\ history[1].policy \in RotationPolicies

identityNext ==
  \/ part = "policies" /\ Next /\ UNCHANGED <<part, roVars>>
  \/ part = "rotations" /\ roNext /\ UNCHANGED part

identitySpec == identityInit /\ [][identityNext]_identityVars
=============================================================================
