------------------------------- MODULE Motes -------------------------------
(***************************************************************************)
(* Building and validating motes (crates/kotva-core/src/mote.rs), the      *)
(* suite ratchet that validate_pinned consults (suite.rs) and the caller's *)
(* policy applied around it (policy.rs).                                   *)
(*                                                                         *)
(* People send motes to us and to each other.  The network keeps every     *)
(* envelope; anyone may rewrite the fields of one and sign it again with a *)
(* key of his own, since the envelope's key is fresh for each mote, and    *)
(* whoever receives a mote holds its payload and may seal it once more.    *)
(* Cryptography is symbolic: a signature is the key and what was signed, a *)
(* ciphertext the key it is for, the associated data and the plaintext, a  *)
(* content address what it is the address of.                              *)
(***************************************************************************)
EXTENDS Integers, Sequences, FiniteSets

CONSTANTS People,      \* who sends to us
          Honest,      \* those who keep their keys and their payloads to themselves
          Us,
          MoteKinds, Bodies,
          Tolerance,   \* the clock skew allowed, tolerance_ms
          MaxHour,     \* bound on the clock
          MaxPosted,   \* bound on the motes built
          MaxInbox     \* bound on the motes delivered

ASSUME PeopleAssumption == Honest \subseteq People /\ Us \notin People

VARIABLES posted,    \* the envelopes built, and by whom
          floors,    \* SuiteRatchet: the highest suite accepted per key
          recorded,  \* CallerPolicy.seen
          inbox,     \* history: what was delivered
          hour

moVars == <<posted, floors, recorded, inbox, hour>>

None == <<>>     \* also stands for a wrong address

-----------------------------------------------------------------------------
(* Keys, signatures and addresses.                                         *)

\* A key of suite 1 is an Ed25519 key, one of suite 2 an Ed25519 key followed by an
\* ML-DSA key: the same person's two keys are different octet strings.
Key(p, suite) == <<p, suite>>

Sign(key, msg) == [by |-> key, over |-> msg]

\* A verifier takes keys and signatures of its own suite's length only; the
\* hybrid one needs both halves.
verify_sig_for_suite(suite, pk, msg, sig) ==
  suite \in {1, 2} /\ pk[2] = suite /\ sig = Sign(pk, msg)

mote_supported(suite) == suite \in {1, 2}

KeyTag(p) == <<"key", p>>
GroupTag(g) == <<"group", g>>

resolves_to_key(to, p) == to = KeyTag(p)

aad_bytes(suite, kind, ts, to) == <<suite, kind, ts, to>>

sender_authed_bytes(id, to, ts, kind, challenge) == <<id, to, ts, kind, challenge>>

\* What was signed before the envelope's fields were: the payload alone.
payload_hash_unbound(from, body, expires) == <<from, body, expires>>

\* Mutant of payload_hash: the signature covers the payload alone.
payload_hash_alone(from, body, expires, kind, ts, to) == payload_hash_unbound(from, body, expires)

payload_hash(from, body, expires, kind, ts, to) == <<from, body, expires, kind, ts, to>>

-----------------------------------------------------------------------------
(* build_mote and build_mote_hybrid.                                       *)

Payload(p, suite, to, kind, ts, body, expires) ==
  LET from == Key(p, suite)
  IN  [from |-> from, body |-> body, expires |-> expires,
       sig |-> Sign(from, payload_hash(from, body, expires, kind, ts, to))]

\* Sealing draws fresh randomness: no two ciphertexts are equal.
Sealed(nonce, for, aad, pl) == [nonce |-> nonce, for |-> for, aad |-> aad, payload |-> pl]

\* An envelope under its own address, signed with the ephemeral key.
Envelope(eph, suite, to, kind, ts, challenge, ct) ==
  [v |-> 0, suite |-> suite, id |-> ct, to |-> to, ts |-> ts, kind |-> kind,
   challenge |-> challenge, ciphertext |-> ct,
   sender_eph |-> eph, sender_sig |-> Sign(eph, sender_authed_bytes(ct, to, ts, kind, challenge))]

\* The ephemeral key is the mote's own.
build_mote(nonce, p, suite, rcpt, kind, ts, body, expires) ==
  LET to == KeyTag(rcpt)
      ct == Sealed(nonce, rcpt, aad_bytes(suite, kind, ts, to), Payload(p, suite, to, kind, ts, body, expires))
  IN  Envelope(Key("eph", suite), suite, to, kind, ts, None, ct)

-----------------------------------------------------------------------------
(* validate, and the caller around it.                                     *)

Opens(env) == /\ env.ciphertext.for = Us
              /\ env.ciphertext.aad = aad_bytes(env.suite, env.kind, env.ts, env.to)

\* The first check that fails decides; a cold sender without a challenge is
\* deferred before anything is decrypted.
validate_mote(env, sender_is_known) ==
  LET pl   == env.ciphertext.payload
      head == sender_authed_bytes(env.id, env.to, env.ts, env.kind, env.challenge)
      signs(hash) == verify_sig_for_suite(env.suite, pl.from, hash, pl.sig)
      bound   == signs(payload_hash(pl.from, pl.body, pl.expires, env.kind, env.ts, env.to))
      unbound == signs(payload_hash_unbound(pl.from, pl.body, pl.expires))
  IN
  CASE env.v # 0                              -> "unknown version"
    [] ~ mote_supported(env.suite)            -> "unsupported suite"
    [] env.id # env.ciphertext                -> "bad content address"
    [] env.sender_sig = None                  -> "bad signature"
    [] env.sender_eph = None                  -> "missing sender key"
    [] ~ verify_sig_for_suite(env.suite, env.sender_eph, head, env.sender_sig)
                                              -> "bad signature"
    [] ~ resolves_to_key(env.to, Us)          -> "not for us"
    [] ~ sender_is_known /\ env.challenge = None -> "deferred"
    [] ~ Opens(env)                           -> "not sealed to us"
    [] ~ bound /\ unbound                     -> "envelope context mismatch"
    [] ~ bound /\ ~ unbound                   -> "bad payload signature"
    [] env.challenge # None /\ env.challenge[1] = "vouch" /\ env.challenge[2] # pl.from -> "vouch subject mismatch"
    [] OTHER                                  -> "accepted"

floor(key) == IF key \in DOMAIN floors THEN floors[key] ELSE 0

\* SuiteRatchet::check and observe.
ratchet_allows(key, suite) == suite >= floor(key)
ratcheted(key, suite) == [k \in DOMAIN floors \cup {key} |->
                            IF k = key THEN (IF suite > floor(k) THEN suite ELSE floor(k)) ELSE floors[k]]

is_duplicate(id) == id \in recorded
within_skew(ts)  == (IF ts > hour THEN ts - hour ELSE hour - ts) <= Tolerance
is_expired(exp)  == exp # None /\ hour > exp[1]

-----------------------------------------------------------------------------
(* Actions.                                                                *)

moInit ==
  /\ posted = {} /\ floors = <<>> /\ recorded = {} /\ inbox = {} /\ hour = 0

Challenges == {None, <<"arc">>} \cup {<<"vouch", Key(p, 1)>> : p \in Honest}

\* Someone builds a mote for us or for somebody else.
post(p, suite, rcpt, kind, body, expires) ==
  /\ Cardinality(posted) < MaxPosted
  /\ posted' = posted \cup {[who |-> p, n |-> Cardinality(posted),
                             env |-> build_mote(<<Cardinality(posted)>>, p, suite, rcpt, kind, hour, body, expires)]}
  /\ UNCHANGED <<floors, recorded, inbox, hour>>

\* A payload of one's own, signed for no envelope.
Loose(p, suite, body) ==
  [from |-> Key(p, suite), body |-> body, expires |-> None,
   sig |-> Sign(Key(p, suite), payload_hash_unbound(Key(p, suite), body, None))]

\* Payloads that someone who is not honest holds: those sent to him, and his own.
Held == {pm.env.ciphertext.payload : pm \in {x \in posted : x.env.ciphertext.for \notin Honest \cup {Us}}}
          \cup {Loose(p, s, b) : p \in People \ Honest, s \in 1 .. 2, b \in Bodies}

\* Ciphertexts that can reach us: those on the network, and payloads sealed again.
Ciphertexts(suite, kind, ts) ==
  {pm.env.ciphertext : pm \in posted}
    \cup {Sealed(None, Us, aad_bytes(suite, kind, ts, KeyTag(Us)), pl) : pl \in Held}

\* An envelope as it reaches us: any of those ciphertexts under any fields, signed
\* with some fresh key, or not signed, or under a false address.
Forms == {"signed", "unsigned", "misaddressed"}

Rewritten(suite, kind, ts, to, ch, ct, form) ==
  LET env == Envelope(Key("other", suite), suite, to, kind, ts, ch, ct)
  IN  CASE form = "signed"       -> env
        [] form = "unsigned"     -> [env EXCEPT !.sender_sig = None]
        [] form = "misaddressed" -> [env EXCEPT !.id = None]

\* Mutant: the ratchet and the dedup set move before the mote is validated.
receive_early(env, sender_is_known) ==
  LET pl == env.ciphertext.payload IN
  /\ Cardinality(inbox) < MaxInbox
  /\ ratchet_allows(pl.from, env.suite) /\ ~ is_duplicate(env.id)
  /\ floors' = ratcheted(pl.from, env.suite)
  /\ recorded' = recorded \cup {env.id}
  /\ inbox' = IF validate_mote(env, sender_is_known) = "accepted" /\ within_skew(env.ts)
              THEN inbox \cup {[from |-> pl.from, body |-> pl.body, kind |-> env.kind, ts |-> env.ts,
                                suite |-> env.suite, n |-> Cardinality(inbox)]}
              ELSE inbox
  /\ UNCHANGED <<posted, hour>>

\* One envelope arrives: validate_pinned, then the caller's checks, then the
\* inbox.  What is not accepted leaves everything as it was.
receive(env, sender_is_known) ==
  LET pl == env.ciphertext.payload IN
  /\ Cardinality(inbox) < MaxInbox
  /\ validate_mote(env, sender_is_known) = "accepted"
  /\ ratchet_allows(pl.from, env.suite)
  /\ floors' = ratcheted(pl.from, env.suite)
  /\ IF within_skew(env.ts) /\ ~ is_expired(pl.expires) /\ ~ is_duplicate(env.id)
     THEN /\ recorded' = recorded \cup {env.id}
          /\ inbox' = inbox \cup {[from |-> pl.from, body |-> pl.body, kind |-> env.kind, ts |-> env.ts,
                                   suite |-> env.suite, n |-> Cardinality(inbox)]}
     ELSE UNCHANGED <<recorded, inbox>>
  /\ UNCHANGED <<posted, hour>>

strike == hour < MaxHour /\ hour' = hour + 1 /\ UNCHANGED <<posted, floors, recorded, inbox>>

moNext ==
  \/ \E p \in People, s \in 1 .. 2, r \in (People \ Honest) \cup {Us}, k \in MoteKinds, b \in Bodies,
        x \in {None, <<hour>>} : p # r /\ post(p, s, r, k, b, x)
  \/ \E pm \in posted, known \in BOOLEAN : receive(pm.env, known)
  \/ \E suite \in 1 .. 3, kind \in MoteKinds, ts \in 0 .. hour, to \in {KeyTag(Us), GroupTag(Us)},
        ch \in Challenges, form \in Forms, known \in BOOLEAN :
       \E ct \in Ciphertexts(suite, kind, ts) :
         receive(Rewritten(suite, kind, ts, to, ch, ct, form), known)
  \/ strike

moSpec == moInit /\ [][moNext]_moVars

-----------------------------------------------------------------------------
(* Properties.                                                             *)

\* What an honest person is shown to have sent, he sent to us, of that kind, at
\* that time and under that suite, and every mote of his is delivered once at
\* most, whatever was rewritten, sealed again or repeated on the way.
SentAsShown ==
  \A m \in inbox : m.from[1] \in Honest =>
    LET sent(x) == /\ x.who = m.from[1] /\ x.env.to = KeyTag(Us) /\ x.env.suite = m.suite
                   /\ x.env.kind = m.kind /\ x.env.ts = m.ts
                   /\ x.env.ciphertext.payload.body = m.body
        alike == {d \in inbox : [d EXCEPT !.n = 0] = [m EXCEPT !.n = 0]}
    IN  Cardinality(alike) <= Cardinality({x \in posted : sent(x)})

\* Nobody else can raise an honest person's floor or use up the address of his
\* mote: until it is delivered, the envelope he built is accepted, unless he has
\* written to us under a higher suite himself (NoDowngrade is about that case).
NotPoisoned ==
  \A x \in posted :
    LET pl == x.env.ciphertext.payload IN
    x.who \in Honest /\ x.env.to = KeyTag(Us) /\ within_skew(x.env.ts) /\ ~ is_expired(pl.expires)
      /\ (\A m \in inbox : ~ (m.from = pl.from /\ m.body = pl.body /\ m.kind = x.env.kind
                               /\ m.ts = x.env.ts))
      /\ (\A y \in posted : y.who = x.who /\ y.env.to = KeyTag(Us) => y.env.suite <= x.env.suite)
    => /\ validate_mote(x.env, TRUE) = "accepted"
       /\ ratchet_allows(pl.from, x.env.suite)
       /\ ~ is_duplicate(x.env.id)

\* What 01-identity.md:264 says of a pinned contact: "A subsequent MOTE from that
\* contact using a suite **below** the high-water-mark MUST be rejected".  The code keeps
\* the mark by Payload.from (validate_pinned), and the from of a person's hybrid motes
\* (build_mote_hybrid) is another octet string than that of the classical ones.
NoDowngrade ==
  \A m, n \in inbox : m.from[1] = n.from[1] /\ m.n < n.n => m.suite <= n.suite
=============================================================================
