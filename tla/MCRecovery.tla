----------------------------- MODULE MCRecovery -----------------------------
(* Recovery for TLC: three guardians, a laptop and a phrase.  The policies  *)
(* differ in one respect each: a guardian less, the guardians at another    *)
(* threshold, the laptop dropped or under another label, a factor more, a   *)
(* higher bar, the guardians split over two overlapping methods, a bar that *)
(* verify refuses.                                                          *)
EXTENDS Recovery

CONSTANTS g1, g2, g3, laptop, words

Social(gs, t) == [kind |-> "social", guardians |-> gs, threshold |-> t]
Device(label) == [kind |-> "device", key |-> laptop, label |-> label]
Phrase        == [kind |-> "phrase", key |-> words]

Guards(n) == [kind |-> "social", count |-> n]

Policy(methods, recover, rotate) ==
  [methods |-> methods, recover_threshold |-> recover, rotate_threshold |-> rotate]

Three == Social(<<g1, g2, g3>>, 2)

MCPolicies ==
  {Policy({Three, Device("desk")}, {Guards(2)}, {Guards(2)}),
   Policy({Social(<<g1, g2>>, 2), Device("desk")}, {Guards(2)}, {Guards(2)}),
   Policy({Social(<<g1, g2, g3>>, 3), Device("desk")}, {Guards(2)}, {Guards(2)}),
   Policy({Three}, {Guards(2)}, {Guards(2)}),
   Policy({Three, Device("bag")}, {Guards(2)}, {Guards(2)}),
   Policy({Three, Device("desk"), Phrase}, {Guards(2)}, {Guards(3)}),
   Policy({Three, Social(<<g1, g2>>, 1)}, {Guards(1)}, {Guards(2), [kind |-> "ik", count |-> 1]}),
   Policy({Three}, {Guards(2)}, {Guards(1)})}
=============================================================================
