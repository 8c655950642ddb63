---------------------------- MODULE WireIdentity ----------------------------
(***************************************************************************)
(* The wire records of identities, devices, recovery and key rotation:     *)
(* to_cv and from_cv (from_det_cbor) in crates/kotva-core/src/identity.rs, *)
(* profile.rs and location.rs.                                             *)
(***************************************************************************)
EXTENDS WireRows

Caps == {"send", "recv", "relay", "mix", "gateway", "admin"}

KeyPackageBundleRef_to_cv   == <<W(1, "loc", Str), W(2, "id", Octets), WOpt(3, "suites", List(SuiteByte))>>
KeyPackageBundleRef_from_cv == <<R(1, "loc", Str), R(2, "id", Octets), ROpt(3, "suites", List(SuiteByte))>>

DeviceCert_to_cv ==
  <<W(1, "suite", SuiteByte), W(2, "ik", Octets), W(3, "device_key", Octets), W(4, "label", Str),
    W(5, "created", Uint), WOpt(6, "expires", Uint), W(7, "caps", List(Word(Caps))), WSig(8, "sig", Octets)>>
DeviceCert_from_cv ==
  <<R(1, "suite", SuiteByte), R(2, "ik", Octets), R(3, "device_key", Octets), R(4, "label", Str),
    R(5, "created", Uint), ROpt(6, "expires", Uint), R(7, "caps", List(Word(Caps))), R(8, "sig", Octets)>>

Identity_to_cv ==
  <<W(1, "suites", List(SuiteByte)), W(2, "iks", Keyed(Octets)), W(3, "version", Uint),
    W(4, "devices", List(Rec("DeviceCert"))), W(5, "keypkgs", Rec("KeyPackageBundleRef")),
    W(6, "recovery", Octets), W(7, "names", List(Str)), WOpt(8, "prev", Octets), W(9, "ts", Uint),
    WSig(10, "sig", List(Octets))>>
Identity_from_cv ==
  <<R(1, "suites", List(SuiteByte)), R(2, "iks", Keyed(Octets)), R(3, "version", Uint),
    R(4, "devices", List(Rec("DeviceCert"))), R(5, "keypkgs", Rec("KeyPackageBundleRef")),
    R(6, "recovery", Octets), R(7, "names", List(Str)), ROpt(8, "prev", Octets), R(9, "ts", Uint),
    R(10, "sig", List(Octets))>>

PhraseMethod_to_cv   == <<W(0, "disc", Const(1)), W(1, "recovery_key", Octets)>>
PhraseMethod_from_cv == <<R(0, "disc", Const(1)), R(1, "recovery_key", Octets)>>
DeviceMethod_to_cv   == <<W(0, "disc", Const(2)), W(1, "device_key", Octets), W(2, "label", Str)>>
DeviceMethod_from_cv == <<R(0, "disc", Const(2)), R(1, "device_key", Octets), R(2, "label", Str)>>
SocialMethod_to_cv   == <<W(0, "disc", Const(3)), W(1, "guardians", List(Octets)), W(2, "threshold", U8)>>
SocialMethod_from_cv == <<R(0, "disc", Const(3)), R(1, "guardians", List(Octets)), R(2, "threshold", U8)>>

RecoveryMethod == Choice(<<"PhraseMethod", "DeviceMethod", "SocialMethod">>)

\* A threshold's clause.  "phrase" and "ik" are written with the count 1; the
\* reader wants a count from 1 to 255, exactly 1 for "ik", and keeps none for
\* "phrase" (Wire!Rule and Wire!Normal).
MethodPredicate_to_cv   == <<W(1, "method", Word({"phrase", "device", "social", "ik"})), W(2, "count", U8)>>
MethodPredicate_from_cv == <<R(1, "method", Word({"phrase", "device", "social", "ik"})), R(2, "count", Enum(1 .. 255))>>

Threshold_to_cv   == <<W(1, "any_of", List(Rec("MethodPredicate")))>>
Threshold_from_cv == <<R(1, "any_of", List(Rec("MethodPredicate")))>>

RecoveryPolicy_to_cv ==
  <<W(1, "suite", SuiteByte), W(2, "ik", Octets), W(3, "version", Uint),
    W(4, "methods", List(RecoveryMethod)), W(5, "recover_threshold", Rec("Threshold")),
    W(6, "rotate_threshold", Rec("Threshold")), WOpt(7, "prev", Octets), W(8, "ts", Uint),
    WSig(9, "sig", Octets)>>
RecoveryPolicy_from_cv ==
  <<R(1, "suite", SuiteByte), R(2, "ik", Octets), R(3, "version", Uint),
    R(4, "methods", List(RecoveryMethod)), R(5, "recover_threshold", Rec("Threshold")),
    R(6, "rotate_threshold", Rec("Threshold")), ROpt(7, "prev", Octets), R(8, "ts", Uint),
    R(9, "sig", Octets)>>

\* signing_body leaves out key 7 and keeps key 8; quorum_body leaves out both.
KeyRotation_to_cv ==
  <<W(1, "suite", SuiteByte), W(2, "old_ik", Octets), W(3, "new_ik", Octets), W(4, "reason", Str),
    W(5, "ts", Uint), WOpt(6, "prev", Octets), WSig(7, "sig", Octets), WOpt(8, "rotate_quorum", Octets)>>
KeyRotation_from_cv ==
  <<R(1, "suite", SuiteByte), R(2, "old_ik", Octets), R(3, "new_ik", Octets), R(4, "reason", Str),
    R(5, "ts", Uint), ROpt(6, "prev", Octets), R(7, "sig", Octets), ROpt(8, "rotate_quorum", Octets)>>

MoveRecord_to_cv ==
  <<W(1, "suite", SuiteByte), W(2, "ik", Octets), W(3, "from", Str), W(4, "to", Str), W(5, "ts", Uint),
    WOpt(6, "prev", Octets), WSig(7, "sig", Octets)>>
MoveRecord_from_cv ==
  <<R(1, "suite", SuiteByte), R(2, "ik", Octets), R(3, "from", Str), R(4, "to", Str), R(5, "ts", Uint),
    ROpt(6, "prev", Octets), R(7, "sig", Octets)>>

Avatar_to_cv   == <<W(1, "url", Str), WOpt(2, "hash", Octets)>>
Avatar_from_cv == <<R(1, "url", Str), ROpt(2, "hash", Octets)>>

Profile_to_cv ==
  <<W(1, "suite", SuiteByte), W(2, "ik", Octets), W(3, "version", Uint), W(4, "display_name", Str),
    WOpt(5, "given_name", Str), WOpt(6, "family_name", Str), WOpt(7, "avatar", Rec("Avatar")),
    WOpt(8, "prev", Octets), W(9, "ts", Uint), WSig(10, "sig", Octets)>>
Profile_from_cv ==
  <<R(1, "suite", SuiteByte), R(2, "ik", Octets), R(3, "version", Uint), R(4, "display_name", Str),
    ROpt(5, "given_name", Str), ROpt(6, "family_name", Str), ROpt(7, "avatar", Rec("Avatar")),
    ROpt(8, "prev", Octets), R(9, "ts", Uint), R(10, "sig", Octets)>>

LocationRecord_to_cv ==
  <<W(1, "ik", Octets), W(2, "peer_id", Octets), W(3, "addrs", List(Str)), W(4, "seq", Uint),
    W(5, "ttl", Uint), W(6, "ts", Uint), WSig(7, "sig", Octets), WOpt(8, "substrate", U8)>>
LocationRecord_from_cv ==
  <<R(1, "ik", Octets), R(2, "peer_id", Octets), R(3, "addrs", List(Str)), R(4, "seq", Uint),
    R(5, "ttl", Uint), R(6, "ts", Uint), R(7, "sig", Octets), ROpt(8, "substrate", U8)>>
=============================================================================
