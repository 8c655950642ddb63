------------------------------ MODULE WireTrust ------------------------------
(***************************************************************************)
(* The wire records of capabilities, directories, transparency logs, mixes, *)
(* calls and design files: crates/kotva-core/src/capability.rs,            *)
(* directory.rs, kt.rs, mixnet.rs, rtc.rs and cad.rs.                      *)
(***************************************************************************)
EXTENDS WireRows

Capability_to_cv   == <<W(1, "resource", Str), W(2, "ability", Str), WOpt(3, "caveats", TextKeyed)>>
Capability_from_cv == <<R(1, "resource", Str), R(2, "ability", Str), ROpt(3, "caveats", TextKeyed)>>

CapabilityToken_to_cv ==
  <<W(1, "suite", SuiteByte), W(2, "iss", Octets), W(3, "aud", Octets), W(4, "caps", List(Rec("Capability"))),
    W(5, "nbf", Uint), W(6, "exp", Uint), W(7, "nonce", Octets), WOpt(8, "prnt", Octets),
    WSig(9, "sig", Octets)>>
CapabilityToken_from_cv ==
  <<R(1, "suite", SuiteByte), R(2, "iss", Octets), R(3, "aud", Octets),
    R(4, "caps", NonEmpty(Rec("Capability"))), R(5, "nbf", Uint), R(6, "exp", Uint), R(7, "nonce", Octets),
    ROpt(8, "prnt", Octets), R(9, "sig", Octets)>>

CapabilityRevocation_to_cv   == <<W(1, "suite", SuiteByte), W(2, "iss", Octets), W(3, "token", Octets),
                                  W(4, "ts", Uint), WSig(5, "sig", Octets)>>
CapabilityRevocation_from_cv == <<R(1, "suite", SuiteByte), R(2, "iss", Octets), R(3, "token", Octets),
                                  R(4, "ts", Uint), R(5, "sig", Octets)>>

CapabilityAnnouncement_to_cv ==
  <<W(1, "suite", SuiteByte), W(2, "iss", Octets), W(3, "caps_version", Uint), W(4, "caps", List(Rec("Capability"))),
    W(5, "ts", Uint), WSig(6, "sig", Octets)>>
CapabilityAnnouncement_from_cv ==
  <<R(1, "suite", SuiteByte), R(2, "iss", Octets), R(3, "caps_version", Uint), R(4, "caps", List(Rec("Capability"))),
    R(5, "ts", Uint), R(6, "sig", Octets)>>

Custody    == {"sovereign", "org-managed"}
Visibility == {"public", "members-only"}

DirEntry_to_cv   == <<W(1, "name", Str), W(2, "ik", Octets), W(3, "id", Octets), W(4, "custody", Word(Custody)),
                      WOpt(5, "roles", List(Str)), W(6, "added", Uint)>>
DirEntry_from_cv == <<R(1, "name", Str), R(2, "ik", Octets), R(3, "id", Octets), R(4, "custody", Word(Custody)),
                      ROpt(5, "roles", List(Str)), R(6, "added", Uint)>>

DomainDirectory_to_cv ==
  <<W(1, "suite", SuiteByte), W(2, "domain", Str), W(3, "authority", Octets), W(4, "version", Uint),
    W(5, "visibility", Word(Visibility)), W(6, "entries", List(Rec("DirEntry"))), WOpt(7, "prev", Octets),
    W(8, "ts", Uint), WSig(9, "sig", Octets)>>
DomainDirectory_from_cv ==
  <<R(1, "suite", SuiteByte), R(2, "domain", Str), R(3, "authority", Octets), R(4, "version", Uint),
    R(5, "visibility", Word(Visibility)), R(6, "entries", List(Rec("DirEntry"))), ROpt(7, "prev", Octets),
    R(8, "ts", Uint), R(9, "sig", Octets)>>

SignedTreeHead_to_cv   == <<W(1, "suite", SuiteByte), W(2, "log_id", Octets), W(3, "tree_size", Uint),
                            W(4, "timestamp", Uint), W(5, "root_hash", Octets), WSig(6, "sig", Octets)>>
SignedTreeHead_from_cv == <<R(1, "suite", SuiteByte), R(2, "log_id", Octets), R(3, "tree_size", Uint),
                            R(4, "timestamp", Uint), R(5, "root_hash", Octets), R(6, "sig", Octets)>>

InclusionProof_to_cv   == <<W(1, "tree_size", Uint), W(2, "leaf_index", Uint), W(3, "leaf_hash", Octets),
                            W(4, "audit_path", List(Octets))>>
InclusionProof_from_cv == <<R(1, "tree_size", Uint), R(2, "leaf_index", Uint), R(3, "leaf_hash", Octets),
                            R(4, "audit_path", List(Octets))>>

ConsistencyProof_to_cv   == <<W(1, "first_size", Uint), W(2, "second_size", Uint), W(3, "proof_path", List(Octets))>>
ConsistencyProof_from_cv == <<R(1, "first_size", Uint), R(2, "second_size", Uint), R(3, "proof_path", List(Octets))>>

MixKeyEntry_to_cv   == <<W(1, "epoch", Uint), W(2, "mix_key", Octets), W(3, "valid_until", Uint)>>
MixKeyEntry_from_cv == <<R(1, "epoch", Uint), R(2, "mix_key", Octets), R(3, "valid_until", Uint)>>

MixNodeDescriptor_to_cv ==
  <<W(1, "suite", SuiteByte), W(2, "node_ik", Octets), W(3, "addrs", List(Str)),
    W(4, "mix_keys", List(Rec("MixKeyEntry"))), W(5, "layer", U8), W(6, "ts", Uint),
    WOpt(8, "substrate", U8), WOpt(9, "operator", Octets), WSig(7, "sig", Octets)>>
MixNodeDescriptor_from_cv ==
  <<R(1, "suite", SuiteByte), R(2, "node_ik", Octets), R(3, "addrs", List(Str)),
    R(4, "mix_keys", NonEmpty(Rec("MixKeyEntry"))), R(5, "layer", Enum(0 .. 2)), R(6, "ts", Uint),
    R(7, "sig", Octets), ROpt(8, "substrate", U8), ROpt(9, "operator", Octets)>>

MixDirectory_to_cv ==
  <<W(1, "suite", SuiteByte), W(2, "authority", Octets), W(3, "epoch", Uint), W(4, "version", Uint),
    W(5, "mixes", List(Rec("MixNodeDescriptor"))), W(6, "prev", Octets), W(7, "ts", Uint),
    WSig(8, "sig", Octets)>>
MixDirectory_from_cv ==
  <<R(1, "suite", SuiteByte), R(2, "authority", Octets), R(3, "epoch", Uint), R(4, "version", Uint),
    R(5, "mixes", NonEmpty(Rec("MixNodeDescriptor"))), R(6, "prev", Octets), R(7, "ts", Uint),
    R(8, "sig", Octets)>>

-----------------------------------------------------------------------------
(* Calls and design files.  None of these readers refuses an unknown key.  *)


IceCandidate_to_cv   == <<W(1, "candidate", Str), W(2, "mid", Str), WOpt(3, "ufrag", Str)>>
IceCandidate_from_cv == <<R(1, "candidate", Str), R(2, "mid", Str), ROpt(3, "ufrag", Str)>>

\* decode also validates: Wire!Rule.  An unknown reason is kept as its number.
RtcSignal_to_cv ==
  <<W(1, "call_id", Octets), W(2, "typ", Enum(1 .. 7)), W(3, "seq", Uint), WOpt(4, "sdp", Str),
    WOpt(5, "candidates", List(Rec("IceCandidate"))), WOpt(6, "mls_epoch", Uint), WOpt(7, "reason", U8),
    WOpt(8, "topology", Enum(1 .. 2)), WOpt(9, "sfu", Octets), WOpt(10, "sfu_suite", SuiteByte)>>
RtcSignal_from_cv ==
  <<R(1, "call_id", LongOctets), R(2, "typ", Enum(1 .. 7)), R(3, "seq", Uint), ROpt(4, "sdp", Str),
    ROpt(5, "candidates", List(Rec("IceCandidate"))), ROpt(6, "mls_epoch", Uint), ROpt(7, "reason", U8),
    ROpt(8, "topology", Enum(1 .. 2)), ROpt(9, "sfu", Octets), ROpt(10, "sfu_suite", SuiteByte)>>

RtcCapacity_to_cv ==
  <<W(1, "max_tracks", U32), W(2, "max_aggregate_bps", Uint), W(3, "max_tracks_per_participant", U32),
    W(4, "max_bps_per_track", Uint), WOpt(5, "advisory_max_participants", U32),
    W(6, "sframe_required", Flag)>>
RtcCapacity_decode ==
  <<R(1, "max_tracks", Trunc32), R(2, "max_aggregate_bps", Uint), R(3, "max_tracks_per_participant", Trunc32),
    R(4, "max_bps_per_track", Uint), ROpt(5, "advisory_max_participants", Trunc32),
    R(6, "sframe_required", Flag)>>

Units_to_cv       == <<W(1, "length_unit", Str), WOpt(2, "angle_unit", Str), WOpt(3, "mass_unit", Str)>>
Units_from_fields == <<R(1, "length_unit", FullStr), ROpt(2, "angle_unit", Str), ROpt(3, "mass_unit", Str)>>

ArtifactFormat_to_cv   == <<W(1, "format_id", Uint), W(2, "manifest_root", Octets), W(3, "role", Uint),
                            WOpt(4, "derived_from_format", Octets), WOpt(5, "format_version", Str)>>
ArtifactFormat_from_cv == <<R(1, "format_id", Uint), R(2, "manifest_root", Octets), R(3, "role", Uint),
                            ROpt(4, "derived_from_format", Octets), ROpt(5, "format_version", Str)>>

ArtifactMetadata_det_cbor ==
  <<W(1, "name", Str), W(2, "description", Str), W(3, "artifact_kind", Uint),
    W(4, "formats", List(Rec("ArtifactFormat"))), W(5, "units", Rec("Units")), WFull(6, "tags", List(Str)),
    W(7, "license", Str), WFull(8, "deprecated", TrueFlag), WOpt(9, "deprecation_reason", Str),
    WOpt(10, "derived_from", Octets)>>
ArtifactMetadata_from_det_cbor ==
  <<R(1, "name", Str), R(2, "description", Str), R(3, "artifact_kind", Uint),
    R(4, "formats", List(Rec("ArtifactFormat"))), R(5, "units", Rec("Units")), REmpty(6, "tags", List(Str)),
    R(7, "license", FullStr), REmpty(8, "deprecated", TrueFlag), ROpt(9, "deprecation_reason", Str),
    ROpt(10, "derived_from", Octets)>>

AssemblyChild_to_cv   == <<W(1, "ref_kind", Uint), W(2, "reference", Octets), W(3, "quantity", Uint),
                           WOpt(4, "transform", Octets)>>
AssemblyChild_from_cv == <<R(1, "ref_kind", Enum({1, 2})), R(2, "reference", Octets),
                           R(3, "quantity", Positive), ROpt(4, "transform", Octets)>>

AssemblyStructure_det_cbor      == <<W(1, "children", List(Rec("AssemblyChild")))>>
AssemblyStructure_from_det_cbor == <<R(1, "children", NonEmpty(Rec("AssemblyChild")))>>
=============================================================================
