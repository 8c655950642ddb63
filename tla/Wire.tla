-------------------------------- MODULE Wire --------------------------------
(***************************************************************************)
(* What the encoder and the decoder of each wire record do, read off its   *)
(* tables: the shared pattern of every to_cv / from_cv pair in             *)
(* crates/kotva-core/src (Fields, req, take, the as_ coercions and         *)
(* deny_unknown of cbor.rs).  Octet order and lengths are module Cbor's:   *)
(* here a map is a function from its keys, and a byte or text string one   *)
(* of a few tokens, the empty one included.                                *)
(*                                                                         *)
(* The state is a record as its owner wrote it, the map a reader gets, and *)
(* whether one place of that map was changed on the way.                   *)
(***************************************************************************)
EXTENDS WireMotes, WireIdentity, WireFeeds, WireTrust, FiniteSets, TLC

CONSTANTS Records,    \* the records looked at
          U32_MAX,    \* 2^32 - 1 in the code
          Tokens      \* the strings a changed place may hold

VARIABLES name, orig, wire, edited

wireVars == <<name, orig, wire, edited>>

Num(n)  == <<"u64", n>>
Oct(b)  == <<"bytes", b>>
Txt(s)  == <<"text", s>>
Boo(b)  == <<"bool", b>>
Lst(a)  == <<"array", a>>
Obj(m)  == <<"map", m>>
TObj(m) == <<"textmap", m>>

Nothing == <<>>     \* the empty map, list and function

-----------------------------------------------------------------------------

Writers ==
  [ArcToken |-> ArcToken_to_cv, PowSolution |-> PowSolution_to_cv, PostageStamp |-> PostageStamp_to_cv,
   Vouch |-> Vouch_to_cv, DeliveryTag |-> DeliveryTag_to_cv, KeyPackageRef |-> KeyPackageRef_to_cv,
   Envelope |-> Envelope_to_cv, Payload |-> Payload_to_cv, Headers |-> Headers_to_cv,
   Attachment |-> Attachment_to_cv, ManifestRef |-> ManifestRef_to_cv, Manifest |-> Manifest_to_cv,
   Durability |-> Durability_to_cv, DeniablePrekeyBundle |-> DeniablePrekeyBundle_to_cv,
   DeniableMessage |-> DeniableMessage_to_cv, DeniableInit |-> DeniableInit_to_cv,
   DeniablePayload |-> DeniablePayload_to_cv, KeyPackageBundleRef |-> KeyPackageBundleRef_to_cv,
   DeviceCert |-> DeviceCert_to_cv, Identity |-> Identity_to_cv, PhraseMethod |-> PhraseMethod_to_cv,
   DeviceMethod |-> DeviceMethod_to_cv, SocialMethod |-> SocialMethod_to_cv,
   MethodPredicate |-> MethodPredicate_to_cv, Threshold |-> Threshold_to_cv,
   RecoveryPolicy |-> RecoveryPolicy_to_cv, KeyRotation |-> KeyRotation_to_cv,
   MoveRecord |-> MoveRecord_to_cv, Avatar |-> Avatar_to_cv, Profile |-> Profile_to_cv,
   LocationRecord |-> LocationRecord_to_cv, PubManifest |-> PubManifest_to_cv,
   PubAnnounce |-> PubAnnounce_to_cv, FeedEntry |-> FeedEntry_to_cv, FeedHead |-> FeedHead_to_cv,
   Subscription |-> Subscription_to_cv, SubscriptionRevoke |-> SubscriptionRevoke_to_cv,
   FeedHint |-> FeedHint_to_cv, PushSubscription |-> PushSubscription_to_cv, WakePing |-> WakePing_to_cv,
   Capability |-> Capability_to_cv, CapabilityToken |-> CapabilityToken_to_cv,
   CapabilityRevocation |-> CapabilityRevocation_to_cv,
   CapabilityAnnouncement |-> CapabilityAnnouncement_to_cv, DirEntry |-> DirEntry_to_cv,
   DomainDirectory |-> DomainDirectory_to_cv, SignedTreeHead |-> SignedTreeHead_to_cv,
   InclusionProof |-> InclusionProof_to_cv, ConsistencyProof |-> ConsistencyProof_to_cv,
   MixKeyEntry |-> MixKeyEntry_to_cv, MixNodeDescriptor |-> MixNodeDescriptor_to_cv,
   MixDirectory |-> MixDirectory_to_cv, IceCandidate |-> IceCandidate_to_cv, RtcSignal |-> RtcSignal_to_cv,
   RtcCapacity |-> RtcCapacity_to_cv, Units |-> Units_to_cv, ArtifactFormat |-> ArtifactFormat_to_cv,
   ArtifactMetadata |-> ArtifactMetadata_det_cbor, AssemblyChild |-> AssemblyChild_to_cv,
   AssemblyStructure |-> AssemblyStructure_det_cbor]

Readers ==
  [ArcToken |-> ArcToken_from_cv, PowSolution |-> PowSolution_from_cv, PostageStamp |-> PostageStamp_from_cv,
   Vouch |-> Vouch_from_cv, DeliveryTag |-> DeliveryTag_from_cv, KeyPackageRef |-> KeyPackageRef_from_cv,
   Envelope |-> Envelope_from_cv, Payload |-> Payload_from_cv, Headers |-> Headers_from_cv,
   Attachment |-> Attachment_from_cv, ManifestRef |-> ManifestRef_from_cv, Manifest |-> Manifest_from_cv,
   Durability |-> Durability_from_cv, DeniablePrekeyBundle |-> DeniablePrekeyBundle_from_cv,
   DeniableMessage |-> DeniableMessage_from_cv, DeniableInit |-> DeniableInit_from_cv,
   DeniablePayload |-> DeniablePayload_from_cv, KeyPackageBundleRef |-> KeyPackageBundleRef_from_cv,
   DeviceCert |-> DeviceCert_from_cv, Identity |-> Identity_from_cv, PhraseMethod |-> PhraseMethod_from_cv,
   DeviceMethod |-> DeviceMethod_from_cv, SocialMethod |-> SocialMethod_from_cv,
   MethodPredicate |-> MethodPredicate_from_cv, Threshold |-> Threshold_from_cv,
   RecoveryPolicy |-> RecoveryPolicy_from_cv, KeyRotation |-> KeyRotation_from_cv,
   MoveRecord |-> MoveRecord_from_cv, Avatar |-> Avatar_from_cv, Profile |-> Profile_from_cv,
   LocationRecord |-> LocationRecord_from_cv, PubManifest |-> PubManifest_from_cv,
   PubAnnounce |-> PubAnnounce_from_cv, FeedEntry |-> FeedEntry_from_cv, FeedHead |-> FeedHead_from_cv,
   Subscription |-> Subscription_from_cv, SubscriptionRevoke |-> SubscriptionRevoke_from_cv,
   FeedHint |-> FeedHint_from_cv, PushSubscription |-> PushSubscription_from_cv,
   WakePing |-> WakePing_from_cv, Capability |-> Capability_from_cv,
   CapabilityToken |-> CapabilityToken_from_cv, CapabilityRevocation |-> CapabilityRevocation_from_cv,
   CapabilityAnnouncement |-> CapabilityAnnouncement_from_cv, DirEntry |-> DirEntry_from_cv,
   DomainDirectory |-> DomainDirectory_from_cv, SignedTreeHead |-> SignedTreeHead_from_cv,
   InclusionProof |-> InclusionProof_from_cv, ConsistencyProof |-> ConsistencyProof_from_cv,
   MixKeyEntry |-> MixKeyEntry_from_cv, MixNodeDescriptor |-> MixNodeDescriptor_from_cv,
   MixDirectory |-> MixDirectory_from_cv, IceCandidate |-> IceCandidate_from_cv,
   RtcSignal |-> RtcSignal_from_cv, RtcCapacity |-> RtcCapacity_decode, Units |-> Units_from_fields,
   ArtifactFormat |-> ArtifactFormat_from_cv, ArtifactMetadata |-> ArtifactMetadata_from_det_cbor,
   AssemblyChild |-> AssemblyChild_from_cv, AssemblyStructure |-> AssemblyStructure_from_det_cbor]

\* Readers that never call deny_unknown.
Open == {"IceCandidate", "RtcSignal", "RtcCapacity", "Units", "ArtifactFormat", "ArtifactMetadata",
         "AssemblyChild", "AssemblyStructure"}

Rows(table) == {table[i] : i \in DOMAIN table}

-----------------------------------------------------------------------------
(* Writing.                                                                *)

Numbers == {"uint", "seq", "u8", "u32", "trunc32", "suite", "pubsuite", "enum", "positive"}
Strings == {"str", "fullstr", "topic", "fulltopic", "word"}

Empty(kind) == CASE kind[1] \in Strings  -> ""
                 [] kind[1] = "trueflag" -> FALSE
                 [] OTHER                -> Nothing

\* Whether to_cv(include_sig) writes the row for the record r.
Written(row, r, include_sig) ==
  CASE row.mode = "always"  -> TRUE
    [] row.mode = "present" -> row.name \in DOMAIN r
    [] row.mode = "full"    -> r[row.name] # Empty(row.kind)
    [] row.mode = "sig"     -> include_sig

\* A record inside another is written whole, with its own signature.
RECURSIVE to_cv(_, _, _)
to_cv(kind, v, include_sig) ==
  LET tag == kind[1] IN
  CASE tag \in Numbers                        -> Num(v)
    [] tag \in {"octets", "long"}             -> Oct(v)
    [] tag \in Strings                        -> Txt(v)
    [] tag \in {"flag", "trueflag"}           -> Boo(v)
    [] tag \in {"list", "nonempty", "triple"} -> Lst([i \in DOMAIN v |-> to_cv(kind[2], v[i], TRUE)])
    [] tag = "keyed"                          -> Obj([s \in DOMAIN v |-> to_cv(kind[2], v[s], TRUE)])
    [] tag = "textkeyed"                      -> IF v = Nothing THEN Obj(Nothing) ELSE TObj(v)
    [] tag = "choice"                         -> to_cv(Rec(kind[2][v.disc]), v, include_sig)
    [] tag = "rec"                            ->
         LET rows == {row \in Rows(Writers[kind[2]]) : Written(row, v, include_sig)}
         IN  Obj([k \in {row.key : row \in rows} |->
                    LET row == CHOOSE x \in rows : x.key = k IN to_cv(row.kind, v[row.name], TRUE)])

det_cbor(n, r)     == to_cv(Rec(n), r, TRUE)
signing_body(n, r) == to_cv(Rec(n), r, FALSE)

-----------------------------------------------------------------------------
(* Reading: whether the decoder accepts, and the value it then returns.    *)

\* RtcSignal::validate: which keys go with which type.
RtcSignal_validate(r) ==
  LET has(f) == f \in DOMAIN r IN
  /\ has("sdp") = (r.typ \in {1, 2, 3})
  /\ has("candidates") = (r.typ = 5)
  /\ has("candidates") => r.candidates # Nothing
  /\ has("reason") = (r.typ = 7)
  /\ has("sfu") = (has("topology") /\ r.topology = 2)
  /\ has("sfu_suite") = has("sfu")

\* What a reader checks across the fields it took.
Rule(n, r) ==
  CASE n = "FeedEntry"       -> (r.seq = 0) = ("prev" \notin DOMAIN r)
    [] n = "MethodPredicate" -> r.method = "ik" => r.count = 1
    [] n = "RtcSignal"       -> RtcSignal_validate(r)
    [] OTHER                 -> TRUE

\* "phrase" has no count of its own.
Normal(n, r) ==
  IF n = "MethodPredicate" THEN (IF r.method = "phrase" THEN [r EXCEPT !.count = 1] ELSE r) ELSE r

TopicOk(s) == s # "x/y"      \* the token that holds a character a topic may not

RECURSIVE accepts(_, _), from_cv(_, _)
accepts(kind, cv) ==
  LET tag == kind[1]
      is(t) == cv[1] = t
      each(S) == is("array") /\ Len(cv[2]) \in S /\ \A i \in DOMAIN cv[2] : accepts(kind[2], cv[2][i])
  IN
  CASE tag \in {"uint", "seq", "trunc32"} -> is("u64")
    [] tag = "positive"  -> is("u64") /\ cv[2] >= 1
    [] tag = "u8"        -> is("u64") /\ cv[2] <= 255
    [] tag = "u32"       -> is("u64") /\ cv[2] <= U32_MAX
    [] tag = "suite"     -> is("u64") /\ cv[2] \in 1 .. 5
    [] tag = "pubsuite"  -> is("u64") /\ cv[2] = 1
    [] tag = "enum"      -> is("u64") /\ cv[2] \in kind[2]
    [] tag = "octets"    -> is("bytes")
    [] tag = "long"      -> is("bytes") /\ cv[2] # ""
    [] tag = "str"       -> is("text")
    [] tag = "fullstr"   -> is("text") /\ cv[2] # ""
    [] tag = "topic"     -> is("text") /\ TopicOk(cv[2])
    [] tag = "fulltopic" -> is("text") /\ cv[2] # "" /\ TopicOk(cv[2])
    [] tag = "word"      -> is("text") /\ cv[2] \in kind[2]
    [] tag \in {"flag", "trueflag"} -> is("bool")
    [] tag = "list"      -> each(Nat)
    [] tag = "nonempty"  -> each(Nat \ {0})
    [] tag = "triple"    -> each({3})
    [] tag = "keyed"     -> is("map") /\ \A s \in DOMAIN cv[2] : s \in 0 .. 255 /\ accepts(kind[2], cv[2][s])
    [] tag = "textkeyed" -> is("textmap") \/ cv = Obj(Nothing)
    [] tag = "choice"    -> /\ is("map") /\ 0 \in DOMAIN cv[2] /\ cv[2][0][1] = "u64"
                            /\ cv[2][0][2] \in DOMAIN kind[2]
                            /\ accepts(Rec(kind[2][cv[2][0][2]]), cv)
    [] tag = "rec"       ->
         LET rows == Rows(Readers[kind[2]])
             m    == cv[2]
         IN  /\ is("map")
             /\ \A row \in rows : IF row.key \in DOMAIN m THEN accepts(row.kind, m[row.key])
                                  ELSE row.mode # "req"
             /\ kind[2] \in Open \/ DOMAIN m \subseteq {row.key : row \in rows}
             /\ Rule(kind[2], from_cv(kind, cv))

from_cv(kind, cv) ==
  LET tag == kind[1] IN
  CASE tag \in {"list", "nonempty", "triple"} -> [i \in DOMAIN cv[2] |-> from_cv(kind[2], cv[2][i])]
    [] tag = "keyed"   -> [s \in DOMAIN cv[2] |-> from_cv(kind[2], cv[2][s])]
    [] tag = "trunc32" -> cv[2] % (U32_MAX + 1)
    [] tag = "choice"  -> from_cv(Rec(kind[2][cv[2][0][2]]), cv)
    [] tag = "rec"     ->
         LET m    == cv[2]
             rows == {row \in Rows(Readers[kind[2]]) : row.key \in DOMAIN m \/ row.mode = "empty"}
         IN  Normal(kind[2],
               [f \in {row.name : row \in rows} |->
                  LET row == CHOOSE x \in rows : x.name = f
                  IN  IF row.key \in DOMAIN m THEN from_cv(row.kind, m[row.key]) ELSE Empty(row.kind)])
    [] OTHER           -> cv[2]

-----------------------------------------------------------------------------
(* The records looked at, and the changes made to their maps.              *)

RECURSIVE Full(_), Build(_)

\* One value of a kind, with everything optional present.
Full(kind) ==
  LET tag == kind[1] IN
  CASE tag \in {"uint", "seq", "u8", "u32", "trunc32"} -> 7
    [] tag = "positive"             -> 2
    [] tag \in {"suite", "pubsuite"} -> 1
    [] tag = "enum"                 -> CHOOSE n \in kind[2] : \A x \in kind[2] : n <= x
    [] tag = "word"                 -> CHOOSE w \in kind[2] : TRUE
    [] tag \in {"octets", "long"}   -> "a"
    [] tag \in Strings              -> "s"
    [] tag \in {"flag", "trueflag"} -> TRUE
    [] tag \in {"list", "nonempty"} -> <<Full(kind[2])>>
    [] tag = "triple"               -> <<Full(kind[2]), Full(kind[2]), Full(kind[2])>>
    [] tag = "keyed"                -> 1 :> Full(kind[2])
    [] tag = "textkeyed"            -> "x" :> Num(1)
    [] tag = "choice"               -> Full(Rec(kind[2][1]))
    [] tag = "rec"                  ->
         LET rows == Rows(Readers[kind[2]])
         IN  [f \in {row.name : row \in rows} |-> Full((CHOOSE x \in rows : x.name = f).kind)]

\* The values a field takes in the records looked at.
Values(kind) ==
  CASE kind[1] = "seq"       -> {0, 7}
    [] kind[1] \in {"enum", "word"} -> IF Cardinality(kind[2]) <= 7 THEN kind[2] ELSE {Full(kind)}
    [] kind[1] \in {"flag", "trueflag"} -> BOOLEAN
    [] kind[1] = "list"      -> {Nothing, Full(kind)}
    [] kind[1] = "textkeyed" -> {Nothing, Full(kind)}
    [] kind[1] = "choice"    -> {Full(Rec(kind[2][i])) : i \in DOMAIN kind[2]}
    [] OTHER                 -> {Full(kind)}

\* Every record with those values and every choice of its optional fields.
Build(table) ==
  IF table = <<>> THEN {Nothing}
  ELSE LET row == Head(table)
           with == {(row.name :> v) @@ r :
                      v \in Values(row.kind) \cup (IF row.mode = "empty" THEN {Empty(row.kind)} ELSE {}),
                      r \in Build(Tail(table))}
       IN  IF row.mode = "opt" THEN with \cup Build(Tail(table)) ELSE with

Structs(n) == {r \in Build(Readers[n]) : Rule(n, r) /\ Normal(n, r) = r}

\* Numbers at the edges of the widths, strings, and small containers.
Atoms ==
  {Num(n) : n \in {0, 1, 2, 6, 9, 255, 256, U32_MAX + 8}} \cup {Oct(b) : b \in {"", "a", "b"}}
    \cup {Txt(s) : s \in Tokens} \cup {Boo(b) : b \in BOOLEAN}
    \cup {Lst(<<>>), Lst(<<Oct("b")>>), Lst(<<Num(9)>>), Obj(Nothing), TObj("y" :> Num(1))}

\* The maps that differ from cv in one place, at any depth.
RECURSIVE Edits(_)
Edits(cv) ==
  Atoms \cup
  CASE cv[1] = "map" ->
         {Obj([k \in DOMAIN cv[2] \ {d} |-> cv[2][k]]) : d \in DOMAIN cv[2]}
           \cup UNION {{Obj((k :> e) @@ cv[2]) : e \in Edits(cv[2][k])} : k \in DOMAIN cv[2]}
           \cup {Obj((k :> Num(1)) @@ cv[2]) : k \in {0, 5, 99} \ DOMAIN cv[2]}
    [] cv[1] = "array" ->
         {Lst(cv[2] \o cv[2])}
           \cup (IF cv[2] = <<>> THEN {} ELSE {Lst([cv[2] EXCEPT ![1] = e]) : e \in Edits(cv[2][1])})
    [] OTHER -> {}

-----------------------------------------------------------------------------

wireInit ==
  /\ name \in Records
  /\ orig \in Structs(name)
  /\ wire = det_cbor(name, orig)
  /\ edited = FALSE

\* The records changed are the ones with the most fields: rows are read
\* independently, so that changes to the others show nothing more.
Complete(n, r) == \A x \in Structs(n) : Cardinality(DOMAIN x) <= Cardinality(DOMAIN r)

\* One place of the map is changed before it is read.
Change ==
  /\ ~ edited
  /\ Complete(name, orig) \/ name = "RtcSignal"
  /\ wire' \in Edits(wire)
  /\ edited' = TRUE
  /\ UNCHANGED <<name, orig>>

wireNext == Change

wireSpec == wireInit /\ [][wireNext]_wireVars

-----------------------------------------------------------------------------
(* Properties.                                                             *)

readable == accepts(Rec(name), wire)
read     == from_cv(Rec(name), wire)

\* Records whose reader accepts a form its writer never produces: a present but
\* empty `ext` map, and a count on the clause "phrase".
Lenient == {"Headers", "Payload", "DeniablePayload", "MethodPredicate", "Threshold", "RecoveryPolicy"}

\* Writers and readers agree on every record (each to_cv / from_cv pair):
\* whatever a reader can return is written as something it accepts and reads
\* back unchanged, and what a closed reader accepts is what writing its result
\* gives again, so that an object's content address is that of the octets it was
\* decoded from (deny_unknown).
Canonical ==
  /\ ~ edited => readable /\ read = orig
  /\ name \notin Open \cup Lenient /\ readable => det_cbor(name, read) = wire

\* A signature covers everything its reader takes (signing_body of every signed
\* record): a changed map with the signed body of the original differs from it in the
\* signature alone.
SignatureCovers ==
  "sig" \in DOMAIN orig /\ readable /\ signing_body(name, read) = signing_body(name, orig)
    => \A f \in (DOMAIN read \cup DOMAIN orig) \ {"sig"} :
         f \in DOMAIN read \cap DOMAIN orig /\ read[f] = orig[f]
=============================================================================
