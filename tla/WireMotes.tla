------------------------------ MODULE WireMotes ------------------------------
(***************************************************************************)
(* The wire records of messages and files, field by field: what to_cv      *)
(* writes and what from_cv (from_det_cbor) reads, in                       *)
(* crates/kotva-core/src/mote.rs and deniable.rs.                          *)
(***************************************************************************)
EXTENDS WireRows

KnownKinds == Enum((0 .. 11) \cup (64 .. 68))

ArcToken_to_cv   == <<W(0, "disc", Const(1)), W(1, "issuer", Octets), W(2, "token", Octets),
                      W(3, "origin", Octets), WOpt(4, "nonce", Octets)>>
ArcToken_from_cv == <<R(0, "disc", Const(1)), R(1, "issuer", Octets), R(2, "token", Octets),
                      R(3, "origin", Octets), ROpt(4, "nonce", Octets)>>

\* The three parameters are an array of exactly three.
PowSolution_to_cv   == <<W(0, "disc", Const(2)), W(1, "algo", Str), W(2, "params", Triple(U32)),
                         W(3, "epoch_nonce", Octets), W(4, "solution", Octets),
                         W(5, "difficulty", U8)>>
PowSolution_from_cv == <<R(0, "disc", Const(2)), R(1, "algo", Str), R(2, "params", Triple(U32)),
                         R(3, "epoch_nonce", Octets), R(4, "solution", Octets),
                         R(5, "difficulty", U8)>>

PostageStamp_to_cv   == <<W(0, "disc", Const(3)), W(1, "issuer", Octets), W(2, "serial", Octets),
                          W(3, "amount", Uint), W(4, "currency", Str), W(5, "expiry", Uint),
                          WOpt(6, "audience", Octets), W(7, "sig", Octets)>>
PostageStamp_from_cv == <<R(0, "disc", Const(3)), R(1, "issuer", Octets), R(2, "serial", Octets),
                          R(3, "amount", Uint), R(4, "currency", Str), R(5, "expiry", Uint),
                          ROpt(6, "audience", Octets), R(7, "sig", Octets)>>

Vouch_to_cv   == <<W(0, "disc", Const(4)), W(1, "voucher", Octets), W(2, "subject", Octets),
                   W(3, "recipient", Octets), W(4, "exp", Uint), W(5, "sig", Octets)>>
Vouch_from_cv == <<R(0, "disc", Const(4)), R(1, "voucher", Octets), R(2, "subject", Octets),
                   R(3, "recipient", Octets), R(4, "exp", Uint), R(5, "sig", Octets)>>

ChallengeResponse == Choice(<<"ArcToken", "PowSolution", "PostageStamp", "Vouch">>)

DeliveryTag_to_cv   == <<W(0, "disc", Enum({1, 2, 3})), W(1, "val", Octets)>>
DeliveryTag_from_cv == <<R(0, "disc", Enum({1, 2, 3})), R(1, "val", Octets)>>

KeyPackageRef_to_cv   == <<W(1, "reference", Octets), W(2, "suite", SuiteByte), WOpt(3, "loc", Str)>>
KeyPackageRef_from_cv == <<R(1, "reference", Octets), R(2, "suite", SuiteByte), ROpt(3, "loc", Str)>>

Envelope_to_cv ==
  <<W(1, "v", U8), W(2, "suite", SuiteByte), W(3, "id", Octets), W(4, "to", Rec("DeliveryTag")),
    WOpt(5, "epoch", Octets), W(6, "ts", Uint), W(7, "kind", KnownKinds),
    WOpt(8, "keypkg", Rec("KeyPackageRef")), WOpt(9, "challenge", ChallengeResponse),
    W(10, "ciphertext", Octets), WOpt(11, "sender_sig", Octets), WOpt(12, "sender_eph", Octets)>>
Envelope_from_cv ==
  <<R(1, "v", U8), R(2, "suite", SuiteByte), R(3, "id", Octets), R(4, "to", Rec("DeliveryTag")),
    ROpt(5, "epoch", Octets), R(6, "ts", Uint), R(7, "kind", KnownKinds),
    ROpt(8, "keypkg", Rec("KeyPackageRef")), ROpt(9, "challenge", ChallengeResponse),
    R(10, "ciphertext", Octets), ROpt(11, "sender_sig", Octets), ROpt(12, "sender_eph", Octets)>>

Payload_to_cv ==
  <<W(1, "from", Octets), WSig(2, "sig", Octets), W(3, "headers", Rec("Headers")),
    W(4, "body", Octets), W(5, "refs", List(Octets)), W(6, "attach", List(Rec("Attachment"))),
    WOpt(7, "expires", Uint)>>
Payload_from_cv ==
  <<R(1, "from", Octets), R(2, "sig", Octets), R(3, "headers", Rec("Headers")),
    R(4, "body", Octets), R(5, "refs", List(Octets)), R(6, "attach", List(Rec("Attachment"))),
    ROpt(7, "expires", Uint)>>

\* The extensions are a text-keyed map, left out when there are none.
Headers_to_cv ==
  <<WOpt(1, "thread", Octets), WOpt(2, "subject", Str), WOpt(3, "mime", Str),
    W(4, "cc", List(Octets)), WFull(5, "ext", TextKeyed), WOpt(6, "sensitive", Flag)>>
Headers_from_cv ==
  <<ROpt(1, "thread", Octets), ROpt(2, "subject", Str), ROpt(3, "mime", Str),
    R(4, "cc", List(Octets)), REmpty(5, "ext", TextKeyed), ROpt(6, "sensitive", Flag)>>

Attachment_to_cv ==
  <<W(1, "name", Str), W(2, "mime", Str), W(3, "size", Uint), WOpt(4, "inline", Octets),
    WOpt(5, "manifest", Rec("ManifestRef")), W(6, "key", Octets)>>
Attachment_from_cv ==
  <<R(1, "name", Str), R(2, "mime", Str), R(3, "size", Uint), ROpt(4, "inline", Octets),
    ROpt(5, "manifest", Rec("ManifestRef")), R(6, "key", Octets)>>

ManifestRef_to_cv   == <<W(1, "id", Octets), W(2, "size", Uint), W(3, "chunks", U32),
                         WOpt(4, "durability", Rec("Durability"))>>
ManifestRef_from_cv == <<R(1, "id", Octets), R(2, "size", Uint), R(3, "chunks", U32),
                         ROpt(4, "durability", Rec("Durability"))>>

\* Key 5 is refused and an empty chunk list too.
Manifest_to_cv   == <<W(1, "id", Octets), W(2, "size", Uint), W(3, "chunk_sz", U32),
                      W(4, "chunks", List(Octets)), W(6, "suite", SuiteByte)>>
Manifest_from_cv == <<R(1, "id", Octets), R(2, "size", Uint), R(3, "chunk_sz", U32),
                      R(4, "chunks", NonEmpty(Octets)), R(6, "suite", SuiteByte)>>

\* A class the reader does not know is kept as its number.
Durability_to_cv   == <<W(1, "class", U8), WOpt(2, "retention", Uint), WOpt(3, "replicas", U32),
                        WOpt(4, "holder_hint", Str)>>
Durability_from_cv == <<R(1, "class", U8), ROpt(2, "retention", Uint), ROpt(3, "replicas", U32),
                        ROpt(4, "holder_hint", Str)>>

DeniablePrekeyBundle_to_cv ==
  <<W(1, "suite", SuiteByte), W(2, "ik", Octets), W(3, "spk", Octets), W(4, "spk_sig", Octets),
    W(5, "opks", List(Octets)), WOpt(6, "last_kem", Octets), WOpt(7, "okems", List(Octets)),
    W(8, "version", Uint), W(9, "ts", Uint), WSig(10, "sig", Octets), W(11, "idk", Octets),
    W(12, "idk_sig", Octets)>>
DeniablePrekeyBundle_from_cv ==
  <<R(1, "suite", SuiteByte), R(2, "ik", Octets), R(3, "spk", Octets), R(4, "spk_sig", Octets),
    R(5, "opks", List(Octets)), ROpt(6, "last_kem", Octets), ROpt(7, "okems", List(Octets)),
    R(8, "version", Uint), R(9, "ts", Uint), R(10, "sig", Octets), R(11, "idk", Octets),
    R(12, "idk_sig", Octets)>>

DeniableMessage_to_cv   == <<W(0, "disc", Const(2)), W(1, "dh", Octets), W(2, "pn", U32), W(3, "n", U32),
                             W(4, "ct", Octets)>>
DeniableMessage_from_cv == <<R(0, "disc", Const(2)), R(1, "dh", Octets), R(2, "pn", U32), R(3, "n", U32),
                             R(4, "ct", Octets)>>

DeniableInit_to_cv ==
  <<W(0, "disc", Const(1)), W(1, "suite", SuiteByte), W(2, "ik_a", Octets), W(3, "ek_a", Octets),
    W(4, "spk_ref", Octets), WOpt(5, "opk_ref", Octets), WOpt(6, "kem_ct", Octets),
    WOpt(7, "kem_ref", Octets), W(8, "msg", Rec("DeniableMessage")), W(9, "idk_a", Octets),
    W(10, "idk_a_cert", Octets)>>
DeniableInit_from_cv ==
  <<R(0, "disc", Const(1)), R(1, "suite", SuiteByte), R(2, "ik_a", Octets), R(3, "ek_a", Octets),
    R(4, "spk_ref", Octets), ROpt(5, "opk_ref", Octets), ROpt(6, "kem_ct", Octets),
    ROpt(7, "kem_ref", Octets), R(8, "msg", Rec("DeniableMessage")), R(9, "idk_a", Octets),
    R(10, "idk_a_cert", Octets)>>

DeniableFrame == Choice(<<"DeniableInit", "DeniableMessage">>)

DeniablePayload_to_cv ==
  <<W(1, "from", Octets), W(2, "kind", KnownKinds), W(3, "headers", Rec("Headers")), W(4, "body", Octets),
    W(5, "refs", List(Octets)), W(6, "attach", List(Rec("Attachment"))), WOpt(7, "expires", Uint)>>
DeniablePayload_from_cv ==
  <<R(1, "from", Octets), R(2, "kind", KnownKinds), R(3, "headers", Rec("Headers")), R(4, "body", Octets),
    R(5, "refs", List(Octets)), R(6, "attach", List(Rec("Attachment"))), ROpt(7, "expires", Uint)>>
=============================================================================
