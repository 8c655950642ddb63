------------------------------ MODULE WireFeeds ------------------------------
(***************************************************************************)
(* The wire records of public objects, feeds, subscriptions and push:      *)
(* crates/kotva-core/src/pubobj.rs, pubsub.rs and push.rs.                 *)
(***************************************************************************)
EXTENDS WireRows

PUB_V0 == 0

\* Key 5 of a sealed manifest is refused here, and an empty chunk list.
PubManifest_to_cv   == <<W(1, "id", Octets), W(2, "size", Uint), W(3, "chunk_sz", U32),
                         W(4, "chunks", List(Octets)), W(6, "suite", SuiteByte)>>
PubManifest_from_cv == <<R(1, "id", Octets), R(2, "size", Uint), R(3, "chunk_sz", U32),
                         R(4, "chunks", NonEmpty(Octets)), R(6, "suite", PubSuite)>>

PubAnnounce_to_cv ==
  <<W(1, "v", U8), W(2, "suite", SuiteByte), W(3, "publisher", Octets), W(4, "roots", List(Octets)),
    W(5, "meta", TextKeyed), WOpt(6, "supersedes", Octets), W(7, "ts", Uint), W(8, "signer", Octets),
    WSig(9, "sig", Octets)>>
PubAnnounce_from_cv ==
  <<R(1, "v", Const(PUB_V0)), R(2, "suite", PubSuite), R(3, "publisher", Octets),
    R(4, "roots", NonEmpty(Octets)), R(5, "meta", TextKeyed), ROpt(6, "supersedes", Octets),
    R(7, "ts", Uint), R(8, "signer", Octets), R(9, "sig", Octets)>>

\* The first entry has no predecessor and every other one has (Wire!Rule).
FeedEntry_to_cv   == <<W(1, "seq", Seq0), W(2, "announce", Octets), WOpt(3, "prev", Octets), W(4, "ts", Uint)>>
FeedEntry_from_cv == <<R(1, "seq", Seq0), R(2, "announce", Octets), ROpt(3, "prev", Octets), R(4, "ts", Uint)>>

\* Mutant of FeedHead_to_cv: the topic, added later, left out of the signed body.
FeedHead_to_cv_unsigned ==
  <<W(1, "v", U8), W(2, "suite", SuiteByte), W(3, "publisher", Octets), W(4, "seq", Uint),
    W(5, "tip", Octets), W(6, "ts", Uint), W(7, "signer", Octets), WSig(8, "sig", Octets),
    WSig(64, "topic", Str)>>

\* The empty topic is left out, and a present one is not empty.
FeedHead_to_cv ==
  <<W(1, "v", U8), W(2, "suite", SuiteByte), W(3, "publisher", Octets), W(4, "seq", Uint),
    W(5, "tip", Octets), W(6, "ts", Uint), W(7, "signer", Octets), WSig(8, "sig", Octets),
    WFull(64, "topic", Str)>>

\* Mutant of FeedHead_from_cv: a topic that is present and empty is let through.
FeedHead_from_cv_lax ==
  <<R(1, "v", Const(PUB_V0)), R(2, "suite", PubSuite), R(3, "publisher", Octets), R(4, "seq", Uint),
    R(5, "tip", Octets), R(6, "ts", Uint), R(7, "signer", Octets), R(8, "sig", Octets),
    REmpty(64, "topic", Topic)>>

FeedHead_from_cv ==
  <<R(1, "v", Const(PUB_V0)), R(2, "suite", PubSuite), R(3, "publisher", Octets), R(4, "seq", Uint),
    R(5, "tip", Octets), R(6, "ts", Uint), R(7, "signer", Octets), R(8, "sig", Octets),
    REmpty(64, "topic", FullTopic)>>

Subscription_to_cv ==
  <<W(1, "v", U8), W(2, "suite", SuiteByte), W(3, "subscriber", Octets), W(4, "feed", Octets),
    W(5, "topic", Str), W(6, "issued", Uint), W(7, "expires", Uint), W(8, "nonce", Octets),
    W(9, "signer", Octets), WSig(10, "sig", Octets)>>
Subscription_from_cv ==
  <<R(1, "v", Const(PUB_V0)), R(2, "suite", PubSuite), R(3, "subscriber", Octets), R(4, "feed", Octets),
    R(5, "topic", Topic), R(6, "issued", Uint), R(7, "expires", Uint), R(8, "nonce", LongOctets),
    R(9, "signer", Octets), R(10, "sig", Octets)>>

SubscriptionRevoke_to_cv ==
  <<W(1, "subscription", Octets), W(2, "ts", Uint), W(3, "signer", Octets), WSig(4, "sig", Octets),
    W(5, "v", U8), W(6, "suite", SuiteByte), WOpt(7, "device_cert", Rec("DeviceCert"))>>
SubscriptionRevoke_from_cv ==
  <<R(1, "subscription", Octets), R(2, "ts", Uint), R(3, "signer", Octets), R(4, "sig", Octets),
    R(5, "v", Const(PUB_V0)), R(6, "suite", PubSuite), ROpt(7, "device_cert", Rec("DeviceCert"))>>

FeedHint_to_cv   == <<W(1, "feed", Octets), W(2, "topic", Str), W(3, "seq", Uint), WOpt(4, "tip", Octets),
                      WOpt(5, "announce", Octets)>>
FeedHint_from_cv == <<R(1, "feed", Octets), R(2, "topic", Topic), R(3, "seq", Uint), ROpt(4, "tip", Octets),
                      ROpt(5, "announce", Octets)>>

PushSubscription_to_cv ==
  <<W(1, "provider", U8), W(2, "endpoint", Str), W(3, "push_key", Octets), W(4, "auth_secret", Octets),
    W(5, "device_key", Octets), W(6, "ts", Uint), WSig(7, "sig", Octets)>>
PushSubscription_from_cv ==
  <<R(1, "provider", U8), R(2, "endpoint", Str), R(3, "push_key", Octets), R(4, "auth_secret", Octets),
    R(5, "device_key", Octets), R(6, "ts", Uint), R(7, "sig", Octets)>>

WakePing_to_cv   == <<W(1, "token", Octets)>>
WakePing_from_cv == <<R(1, "token", Octets)>>
=============================================================================
