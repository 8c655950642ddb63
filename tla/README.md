# A TLA+ development for DMTAP (kotva-core, kotva-mail)

The repository is a protocol specification in prose with two Rust crates that
implement it: `kotva-core` (identities, message objects, public feeds, key
transparency, capabilities, ...) and `kotva-mail` (a mail store with IMAP, POP3,
SMTP-submission and JMAP views). The modules here are translated from the Rust
code; the prose is used only to find what the code is meant to do.

## 1. Inventory

### kotva-mail

| Part | State it keeps | Operations | What makes it correct |
|---|---|---|---|
| `store.rs` | named mailboxes, their listing order; per mailbox UIDNEXT, HIGHESTMODSEQ, the messages (UID, flags, modseq, created_modseq, bytes) and the log of expunged UIDs | create, delete, rename, deliver, `append`, `remove_at`, flag writes; `jmap_state`/`jmap_changes` | listing = map; UIDs ascending and never reused; every UID live or logged; a delta since any earlier state is exact |
| `imap/session.rs`, `imap/sequence.rs` | protocol state, selection (name, read-only, UIDVALIDITY), saved search, pending continuation | about thirty commands; between two commands the node delivers into the store (`store_mut`) | the client's sequence numbers mean what the server means; only flagged messages disappear; a selection never turns into another mailbox; read-only stays read-only; SORT, THREAD, LIST and ESEARCH compute what they are defined to |
| `imap/parser.rs` | none | tokens of a command | what the reader of `net.rs` assembled is taken apart as it was sent |
| `pop3.rs` | protocol state, maildrop snapshot, deletion marks, pending SASL line | USER, PASS, AUTH, DELE, RSET, RETR, TOP, UIDL, QUIT | QUIT removes what was marked and nothing else ever removes |
| `smtp.rs` | protocol state, envelope with DSN parameters, body buffer, overflow mark, submissions | EHLO, STARTTLS, AUTH, MAIL, RCPT, DATA, RSET, QUIT | a submission is one transaction's envelope and bytes; the buffer is bounded; too large is refused, and nothing else is |
| `net.rs` | one thread and one session per connection | read a line or a command with literals, feed it, write the answer, stop on QUIT | what ends a connection agrees with what the session did; nobody waits for ever |
| `jmap.rs` | none of its own (works on the store) | method calls, result references, Email/set, Mailbox/set, /changes | a set call's answer tells what it did; `/changes` follows the store |
| `mime`, `search`, `auth`, `util`, `autodiscover`, `imap/response` | none | conversions | about text; not modelled |

A session owns its store while it runs (`into_store` hands it on), so there is no
shared-memory concurrency: what interleaves is commands, deliveries between
commands, octets and prompts on a connection, lost connections, and clients that
come back with an old state.

### kotva-core

| Part | State it keeps | What makes it correct | Module |
|---|---|---|---|
| `pubobj.rs` | `FeedFollower`: highest seq, its tip, entry id by position; a holder's stored bytes | one unbroken history, never rolled back or rewritten; forks detected; no false alarm; quotas hold | FeedFollower, Files, Manifests |
| `identity.rs` | chains of recovery policies and of key rotations | nothing is weakened, and nothing dropped comes back, without the guardians and the veto window; one preferred rotation of a fork | Recovery, Rotation |
| `kt.rs` | Merkle log, a client's pinned head | inclusion and consistency proofs accept exactly what is so | KeyTransparency |
| `mote.rs`, `policy.rs` | inbound spool, suite floor, delivered ids | a mote is shown as it was sent, once; nobody can block another's; limits hold; a root names one list | Motes, Files, Manifests |
| `pubsub.rs` | subscriptions, revokes, hint budget | ended by the subscriber's will and for good; hints bounded | Subscriptions |
| `capability.rs` | issued tokens, announced versions | delegation never widens | Capabilities, Trackers |
| `location.rs`, `mixnet.rs`, `suite.rs`, `profile.rs`, `push.rs` | highest number or set of nonces seen per issuer | what is accepted only moves forward; nobody is locked out | Trackers |
| `rtc.rs` | admitted loads | a gateway stays within what it published | Calls |
| `cbor.rs` and the `to_cv`/`from_cv` pairs of every file | none | one encoding; reader and writer agree; the signature covers what is read | Cbor, Wire* |
| `sphinx`, `pq`, `keyname`, `id`, `safety`, `attestation` | none | cryptography, text | not modelled |

`PROJECT.json` lists all of them, and the hazards (what is hard to test) at the
lines where they bite.

## 2. The modules

```
Mailbox            one mailbox and its operations
  MailStore        the store, and a client that holds an old state
    Jmap           JMAP requests over the store
  ImapSession      one IMAP session over a store it owns
  Pop3Session      successive POP3 connections over INBOX, with the driver loop
MailboxLives       what the store promises, names aside (abstract; MailStore implements it)
SmtpSession        one submission session with its driver loop
ImapFraming        reader and tokenizer of IMAP commands, with the client's octets
ImapAnswers        SORT, THREAD, LIST, ESEARCH and VANISHED computed
FeedFollower       followers of a possibly dishonest publisher
Recovery           a verifier's chain of recovery policies
  Rotation         a fork of key rotations under a policy, and its observers
MerkleTrees        the tree that the log and the manifests share
  KeyTransparency  log, proofs, pinned head
  Manifests        the roots of lists of chunks
Trackers           the anti-rollback memories
Capabilities       delegation chains
Subscriptions      ledger, revokes, hints
Motes              build, rewrite, validate, deliver
Sums               what a list of numbers adds up to
  Files            attachments, spool, contracts, quotas
  Calls            session descriptions, gateway admission, mesh ceiling
Cbor               the octet codec
WireRows           the vocabulary of the codec tables
  WireMotes, WireIdentity, WireFeeds, WireTrust   one table per to_cv / from_cv
    Wire           what the tables' readers and writers do
MailboxProofs      lemmas: what each Mailbox operation preserves
  MailStoreProofs  the theorems about MailStore, its refinement of MailboxLives, and Jmap
NaturalLemmas      the least-number principle, the rounds of a loop
  LogProofs        the theorems about FeedFollower, Manifests, KeyTransparency
  RecoveryProofs   the theorems about Recovery and Rotation
  CoreProofs       the theorems about Trackers, Subscriptions, Capabilities, Motes, Calls, Files
  ServerProofs     the theorems about SmtpSession, Pop3Session and ImapAnswers
  ImapProofs       the theorems about ImapSession
```

The `MC` modules define the instances. `MCStore`, `MCServers`, `MCIdentity` and
`MCCore` check several components in one run: a behaviour belongs to one of them
(the variable `part`), the variables of the others keep their initial values.

**Mailbox / MailStore.** A mailbox is a record with the fields of `struct Mailbox`.
`append`, `remove_at` and `write_flags` are the three ways the code changes one;
the third is the pattern repeated by STORE, FETCH's implicit `\Seen` and
Email/set. Subscription, special use and dates are left out: no operation on
messages reads them. A ghost field `gen` names the life of a mailbox, from
creation to deletion; no operation reads it. The ghost `client` is what a JMAP or
QRESYNC client saw when it last synchronised, an arbitrary time ago: the delta
properties compare what it would hold after `jmap_changes` with the truth.

**MailboxLives** is the abstract specification: a set of lives, each of which hands
out UIDs upwards, gives each to one body for good and stamps every change with the
next modseq. Names and their order are gone; a rename is a stuttering step.
`ImplementsLives` is the refinement, with the mapping `Lives` (life of `gen` g = the
mailbox that carries it).

**Jmap.** A request holds the store mutably, so other users of the store move between
requests only; within one, a set call works entry by entry. An answer is kept as a
ghost record of what was named created, updated and destroyed, together with what the
store held before the call. Result references are resolved against earlier answers of
the request, the failing ones included.

**ImapSession.** The store is owned by the session, and the client keeps its own
numbering: the ghost `view`, a list of UIDs changed only by the untagged answers it
is sent, and the ghost `cache`, what it stored to resynchronise with later.
`SeqAligned` relates the client's numbering to the server's. A command is one action,
the self-heal at the start of `process` included. Sequence sets, search keys and flags
are small sets; parsing is not modelled here.

**ImapFraming.** Two machines with separate rules: `read_imap_command` looks for a
literal at the end of a line, `tokenize` walks the buffer with its quotes. Octets
travel one by one between the client and the server; a client that sends a
synchronizing literal waits for the prompt, may pipeline otherwise, and may hang up
anywhere.

**ImapAnswers.** The algorithms (union-find of THREAD, the table of the LIST match,
the compression of sets) as written, each against its definition: two messages are
in one thread just if a chain of references joins them (or, by the other algorithm,
they have one base subject), and a thread lists each of its messages once, by date; a
name matches if it can be cut into pieces, one that each character of the pattern stands
for; ranges expand to the numbers found. `InOrder` stands for the library's sort: the
list of a set's members in which each comes before the next. A row of the table is the set
of its true entries.

**Pop3Session.** The driver and the session are both in the action of a line,
because they recognise QUIT by different rules. A connection may be lost in any
state, and mail is delivered between connections.

**SmtpSession.** A body line is a short sequence of octets; `Dot` and `Quit` are
distinguished octets. Message lengths are chosen around `max_size`. An address or
a DSN parameter is named by the transaction its line belonged to, so that a field
that survives into the next message shows.

**FeedFollower.** A fetch is any head with any sequence of entries. An entry's
content address is a constant operator of which only injectivity is assumed. A
signature is a Boolean. `Succ` is the wrapping u64 addition of a release build.

**Recovery.** The state is the chain one verifier accepted, and the clock. A step is
any policy with any approvals, vetoes and announcement time that
`authorize_recovery_change` lets pass after `verify` and `check_rollback`. A content
id is a place in the chain. The ghost `backed` of a version says whether the
guardians really stood behind it (`Backed`, written independently of the guard); the
properties ask for a backed version between an earlier and a weaker later one.
`Weaker` says what a policy can give up without the code's own detector.

**Rotation** adds the rotations that the holders of the old key sign at one place of
the chain. Guardians approve one branch and may veto any; an observer is given a
rotation with some of the signatures made so far, in any order.

**MerkleTrees.** The code computes a head by recursion over slices of the leaves; `heads` is
the table of the heads of all stretches, filled by length, so that a half is an earlier entry of
the table. Hashing is free (a hash is its term).

**KeyTransparency.** A recursion of the code that goes down one half is a loop over the pair
(first leaf, length), and the verifiers' loops are recursive functions of as many rounds
as a tree can have levels, the last of which do nothing. The server shows the log it
was given or another one; the client advances by `verify_consistency` alone. A damaged
audit path is one that was changed in a place, cut or extended.

**Trackers.** One behaviour follows one of six memories, which share the shape: verify,
compare with the mark, record. Records are lost, repeated, reordered and forged, and a
location tracker is rebuilt from the marks its owner saved.

**Capabilities.** Anyone signs tokens over anything; a verifier is offered every chain of
them. **Subscriptions.** The user and somebody else sign bodies; copies come again with
another valid signature; a revoke names the subscription it was made for and is
presented for any entry of the ledger; the clock of a hint is its sender's. **Motes.** Anyone may rewrite
an envelope's fields and sign it with a key of his own, and whoever received a mote holds
its payload and may seal it again. **Files**, **Calls.** Numbers saturate or are checked
as in the code, with a small largest integer. **Manifests.** A digest is the term that was
hashed, and a chunk's own digest may be that of an interior node.

**Cbor / Wire.** `Cbor` is the codec over octets, a number kept as its octets so that all
64 bits count. Inputs are put together from pieces (`MCPieces`): items of every major type,
numbers in each of the five forms on both sides of where the form is the shortest, strings of
24 and 256 octets, lengths and counts of 2^64 - 1, all forms of major type 7, indefinite and
reserved heads, text that is not UTF-8. Each piece is offered at every place
up to the sixth octet, so that maps of two entries with keys of one or two kinds, in
and out of order, and containers nested beyond the limit arrive; each error kind of the
decoder is reached. An input is not extended once it is refused for a reason that stays.
Above it the records'
codecs are tables, a row per key with the kind of its content: the writer's and the
reader's are separate, as the code's are. `Wire` says what a row does and changes a written
record in one place; the readers of all records are compared with their writers.

## 3. What the runs check

| Run | Shows |
|---|---|
| `store` | `StoreWellFormed`; `DeltaExact`, `ChangesSound` (deltas since any earlier state, within one life of a mailbox); `AnswerTruthful` (JMAP set calls with failing entries); `ImplementsLives` (the refinement, and with it that no UID is given twice) |
| `store_durable` | the delta property without "within one life" fails: DELETE and CREATE restart the counters |
| `imap` | message commands, and in a second part mailbox commands and session states: `SeqAligned`, `NothingLost`, `SelectedLife` |
| `imap_readonly` | MOVE changes a mailbox opened with EXAMINE |
| `servers` | POP3: `MaildropFixed`, `ExactlyAsked`; SMTP: `OneTransaction`, `BodyExact`, `SizeVerdict`; IMAP: `FramesAsSent`, `EveryCommandServed` (liveness), `AnswersExact` |
| `smtp_quit` | a body line QUIT ends the connection |
| `feed` | `OneHistory`, `ForksStayApart`, `NoFalseAlarm`, `NeverRewritten` |
| `feed_topics` | one follower mixes the topics of a publisher |
| `recovery` | `NoErosion` (harmless steps do not add up to a weakening), `EvictionDurable` (a dropped method stays dropped); `ForkAgreement`, `InstalledLawfully` (rotations) |
| `recovery_keys` | the same said of keys fails: a dropped key comes back under another label |
| `suite_downgrade` | a person's suite-1 mote is accepted after a suite-2 mote: the two have different keys, each with a floor of its own |
| `core` | codec: `OneEncoding`, `Canonical`, `SignatureCovers`; log: `ProofsSound`, `AppendOnlyView`; trackers: `NoRollback`, `NotLockedOut`; `NoAmplification`; subscriptions: `SubscriberDecides`, `HintBound`; motes: `SentAsShown`, `NotPoisoned`; files: `StorageBounded`, `RootNamesList`; calls: `CallWithinCapacity`, `CeilingExact` |

The six violations are disagreements between the code and the repository's own
text, quoted in `PROJECT.json` under `findings`.

**Met while modelling, without a run.** These are smaller differences between code and
comment, or limits of what a property can say; the models follow the code.

- `capability.rs:365` says that an ancestor's address among the revocations "rejects a
  descendant too"; `verify_at` compares the addresses with the token's own only, so a caller
  has to ask for every link of the chain itself.
- `net.rs:27-28` promises `None` at a clean end of file; a last line without its end is
  processed as a command.
- `mote.rs:929-951`: the tier is computed from the attachment's size, the need for a
  durability contract from the manifest reference's own; nothing compares the two.
- `identity.rs:460-461` says a pinned version must be the predecessor; an identity of version
  0 has none, and passes whatever is pinned.
- `Thread/changes` answers with e-mail ids; `Email/changes` never names e-mails of a
  mailbox that was deleted.
- `rtc.rs:1126-1147`: a gateway's participant ceiling divides the tracks allowed to one
  participant by those of a participant, which bounds nothing that `admit` looks at.
- The reader of `ext` accepts a present empty map, and the predicate "phrase" a count,
  which no writer produces (`Lenient` in `Wire`; `Canonical` excludes them, `SignatureCovers`
  does not).
- `cbor.rs:388`: the unassigned simple values 0 to 19 are refused as an indefinite length.

**Bounds.** `store`: three names (so that rename can meet an existing name while a
third mailbox shifts in the order), up to three UIDs per mailbox (a removal in the
middle), five modification steps over all mailboxes, three lives; under JMAP requests two
calls of two entries over two mailboxes, so that an id is destroyed twice, in one call or by
reference from an earlier one. `imap`: three messages at the start, two more and
two changes, so that MOVE to the selected mailbox, an expunge with a gap and a
resynchronisation from an older modification sequence happen; in the
second part an empty INBOX, three names, one message and one change. `servers`: four UIDs
over successive POP3 connections; two
SMTP transactions, two recipients, four body lines around a limit of six octets; two IMAP
commands on a connection with arguments that hold braces, digits, quotes and line ends, and
literals and lines at and above small limits; three letters, patterns and names of three
characters, numbers to six. `feed`: two histories that fork after genesis, four positions
with `MaxSeq` the last of them, all fetches of up to two entries and the well-numbered
longer ones. `recovery`: three guardians, a device and a phrase in eight policies that
differ in one respect each, chains of up to four versions (a method can be dropped, stay
away for a version and come back), a window of two ticks within a clock of three, so that
the window and the saturating sum both matter; two rotations and two observers. `core`:
trees of up to seven leaves (both sides of two powers of two); chains of three tokens; two
motes of two people, one of them dishonest, under any of the two suites (`NotPoisoned` leaves out
a mote below a suite its own sender has used, which `suite_downgrade` is about); largest integers of 7 and 11 so that sums reach
them; lists of three chunks whose digests include those of interior nodes.

**Fairness** is assumed in one place: `EveryCommandServed` needs weak fairness of `Serve`
(the loop of `serve_imap` runs in a thread of its own and blocks only in a read, so it goes
on while there is input or the stream has ended) and of `Talk` (what a client has begun to
send reaches the server: it writes the rest or hangs up). No fairness is assumed of the
client's wish to send another command. Elsewhere nothing in the code acts on its own, every
step answers a command, a fetch or a delivery of somebody who may stop at any time, and no
liveness is claimed.

**Deadlock** is checked where a component goes on for ever; it is off in the runs whose
clocks, histories or inputs end at their bounds (`servers`, `recovery`, `core`).

## 4. What is proved

Every theorem holds for all values of the constants that the named `ASSUME` of its module
allows, and for behaviours of any length. `PROJECT.json` lists the theorems; here is the
argument of each group, above all the invariant it needs and why.

**The store** (`MailStoreProofs`). `StoreWellFormed`, `DeltaExact` and `ChangesSound` of run
`store`, and that UIDs are stable from step to step. They are not inductive as they
stand. `StoreInv` adds:

- lives are told apart: no two mailboxes that exist share a `gen`, and every `gen`
  is below `nextGen`. Without it a rename could put one life under two names and
  the client's memory would be compared with the wrong mailbox;
- the client is in step with the life it knows (`InStep`): its
  modification sequence is not ahead of the mailbox's; it knows a live message just
  if that was created no later than its token, and knows its flags and body as they
  are if it was not touched since; what it knows and is gone is in the expunge log
  with a later stamp.

`MailboxProofs` has, for each of `append`, `remove_at`, `write_flags`, the lemma
that a mailbox's well-formedness is preserved, and `MailStoreProofs` the lemma that
`InStep` is. `Invariance` combines them, one step per action; the theorems about
deltas follow from `InStep` alone. `UidStability` is an action property proved from
the same invariant.

`StoreImplementsLives` is the refinement: under the mapping `Lives` every action of the
store is a step of one life (begun, ended, or changed by a delivery, an expunge or a flag
write) or a stutter. It needs, besides `StoreInv`, that INBOX carries life 0 for ever
(`InboxFirst`), since the abstract life 0 can never end.

**JMAP** (`MailStoreProofs`, last section). `AnswersTruthful`. An answer speaks of a whole
call, so the invariant `JmapInv` keeps an account of the call under way: in every mailbox,
the UIDs are the old ones and those it lists as created, handed out from the old UIDNEXT
upwards, without those it lists as destroyed; a message it lists as created or updated is
stamped after all that was there before, and every other is as it was (`Told`). Each entry extends the account (`AppendTold`, `WriteTold`,
`RemoveTold`), a refused one leaves it.

**Feeds** (`LogProofs`). Every property of run `feed`, for any entries, heads and
followers and feeds of any length. `FeedInv` says of each follower that its tip is
the entry it remembers at the highest position and that what it remembers has no gap,
each entry naming its predecessor; neither half is inductive alone, since a fetch is
joined to the tip. Two facts need an induction over positions: the entries of a
served chain are consecutive although the code's addition wraps, and two histories
that agree at a position agree below it, because an entry's address determines its
predecessor. Both take a least counterexample (`LeastNatural`, from the
well-foundedness of the naturals).

**Trees** (`LogProofs`, second part). `RootNamesList`, `ProofsSound` and the action property
`AppendOnlyView`, for lists and logs of every size.

- *A head names its leaves* (`HeadsInjective`): stretches with one head have the same length and
  the same leaves, by induction over the length, because a leaf's digest is no node's and a
  node's determines those of its halves. `ManifestRoots` is this with the two tags kept apart.
- *The way of a leaf.* The provers go down from the root by `split_point`, the verifiers up from
  the leaf by halving two numbers. `Way` joins them: on level l the
  node above a leaf covers 2^l leaves, or fewer at the end of
  the tree, and its sibling is what the path holds for that level, if there is one (`SibsDown`). A
  round of the code's loops keeps to the way (`FoldLevel`, with `ClimbLevel` for the levels on
  which a last node has no sibling; `RiseStep` in both trees at once).
- `FoldComplete`, `ConsistencyComplete`: what the log hands out is read off the levels one by
  one and ends at the root. `FoldSound`: a path that ends at the root has, from the root
  downwards, the tree's own nodes in it, so the leaf is the one at the index; for a damaged
  path too, since nothing but its length is assumed of it.
- `ConsistencySound`: from the two roots down, the fold of an accepted path meets the same nodes
  in both trees (`RiseSound`), so the old leaves are the first ones of the new tree. This is all
  that `ClientHistory` needs besides `ktInv`, which says that the pinned head is that of the
  leaves in `view`. `SoundProofs` also needs `Ordered`: a log never lists a leaf twice,
  without which a leaf would be proved at both its places.

**Recovery** (`RecoveryProofs`). `NoErosion` and `EvictionDurable` for any
policies, guardians and clock. `NoErosion` is not inductive, because `Weaker` does not
compose: from A to B to C something may be given up in neither step as `Weaker` sees it.
`RecInv` states it with the code's detector, which does (`WeakeningComposes`: what
weakens over two steps weakens in one of them) and which sees all that `Weaker` does
(`WeakerIsWeakening`). `GuardIsBacked` shows that a change the guard takes for
weakening and lets pass was backed; it needs that a policy names finitely many
guardians, which the assumption gives.

**Rotation** (`RecoveryProofs`, second part). `ForkAgreement`, `InstalledLawfully`. `RoInv`
says that a guardian stands behind one rotation of the fork, that what an observer takes for
backed has a majority of the guardians' places, and that an observer who knows two
rotations and did not halt has installed a backed one. Two majorities of the same finite
set share a member (`OneMajority`), so no two rotations are backed, and observers agree.

**Trackers, Subscriptions, Capabilities, Motes** (`CoreProofs`).

- `TrInv`: whatever was accepted is remembered, by a reserved nonce or by a mark not below
  it, and the highest entry of an owner's journal is the mark, so that a restart restores it.
- `SubInv`: an identifier that was revoked is in the ledger no more, and the user's own
  bodies are revoked by the user only, also before they arrive; an entry's id is that of its
  body, so a revoke that names it was made for that body. `HintBound` needs more than
  the counter: `HintInv` describes how the hints taken so far lie between the starts of
  windows, from which any stretch of that length meets at most two of them.
- `NoAmplification` is about chains of any length: one link narrows (`LinkNarrows`), narrowing
  is transitive, and the least place where a chain would not narrow gives a contradiction.
- `MoInv`: every mote that an honest person posted is well built, the floor of a key is the
  key's own suite, and there is an injection from what was delivered to what was
  posted (`Delivers`), which is what "no more often than sent" says.

**Calls, Files** (`CoreProofs`). `CallWithinCapacity`, `CeilingExact`, `StorageBounded`. A
gateway compares sums that were cut off at the largest integer in every addition.
`SumIsTally` shows that such a sum is the exact one cut off once, `TallyReplaced` what a
renegotiation does to the exact one, so a total below the largest integer that passed was
the true one. `CeilingFits` is the arithmetic of the ceiling: division with rest, and the
least of three bounds. The spool is checked, not saturated: `FilesInv` is the property with
the types, and `TallyAppended` what one more file adds.

**SMTP, POP3** (`ServerProofs`). `OneTransaction`, `BodyExact` and the action property
`SizeVerdict`; `MaildropFixed` and the action property `ExactlyAsked`. `SmtpInv` has a
part for each thing the session keeps: what a login allows, that an envelope holds only
what was said in the transaction that is open and the NOTIFY list grows with the
recipients, that the buffer is what the client dictated with the leading dots restored as
long as it is not marked oversized, and that both are above the limit once it is. `PopInv` says that the slots are those of the
mailbox as it was at login, and that nothing removes a message while a client is connected
but its own QUIT; `CommitFields` follows the removing loop through INBOX from behind.

**Answers** (`ServerProofs`). `AnswersExact`, a statement about every list of messages, every
pattern and name and every set of numbers; the invariant only says what these are.
- Threads: a forest is described by the root of each message and a number that falls on the
  way up (`RootsOf`). `FindKeeps`: shortening a way moves no root. `UnionRoots`: a union gives the
  whole tree of the one the root of the other, and the measure still falls. Following the two loops,
  equal roots stay connected by references, and every reference already followed has equal
  roots (`Joins`); at the end the messages with one root are a closed set, so the two are
  the same (`RootsExact`). Groups are classes of an equivalence, hence disjoint, so their
  first messages differ and the order of threads is total.
- Sorting: a finite set that is strictly and totally ordered has a sorted list (`SortedIs`), by
  the number of members up to each; the list is one-to-one and, being as long as the
  set, reaches all of it.
- SORT: the first criterion that tells two messages apart is the same seen from either, so the order is
  total (`SortTotal`); transitivity compares the first criteria of two pairs.
- LIST: a row's entry holds exactly if what is left of the name can be cut as the rest of the
  pattern asks (`RowExact`, `FitStep`, `MatchExact`).
- Ranges: after each number the ranges stand for the numbers so far, and none touches the next
  (`Compressed`, `ExtendExact`).

**IMAP** (`ImapProofs`). `SeqAligned`, `SelectedLife` and the action property
`NothingLost`. `ImapInv` says of the store that its
mailboxes are sound and their lives distinct; of the selection that its name still means the
life it was selected in; of the client that its list of UIDs is the server's or, for a
mailbox it left, that what it cached can be caught up with (`InTouch`): a live UID is one it
knows or is above all it knows, and one it knows is live or is among those the server
would report as vanished since. The
expunging commands are loops: the client's list and the mailbox are followed in
lockstep round by round, each EXPUNGE answer removing from the one what the server
removed from the other. `NothingIsLost` goes through the commands: a delivery, APPEND, COPY,
FETCH and STORE keep every message in its place (`LongerBoxes`), EXPUNGE and CLOSE take only
messages marked `\Deleted` (`DeletedOnly`), and MOVE gives each message it takes a copy
with its flags and body under a fresh UID (`AppendAllCopies`). The removal that follows spares the copies, also
when the mailbox is its own destination, because they are behind every place
collected before (`RemoveAllKeeps`); that makes the injection the property asks for.

**Loops and recursion.** A loop in the code is a recursive function of a LET. What
such a function computes is proved through its history: `LoopHistory` (NaturalLemmas; `LoopPasses`
for the loops of ImapAnswers, whose states have no common set) says that a list of rounds has one, `LoopStays` that it stays in its set; `UpFromZero` and `DownFrom`, which
follow from a least counterexample, are the induction over its rounds.

**Model-checked only.** `EveryCommandServed`, because it is liveness. `FramesAsSent` and
the codec (`OneEncoding`, `Canonical`, `SignatureCovers`): they are about what
recursive definitions compute for every input (the tokenizer, nested values), which needs
an induction over data that the prover does not offer. Where the recursion goes down a length or
up the levels, as in the trees, a table replaces it; a CBOR value or a quoted string has no such
number.

## 5. Plan

What is left to prove: `FramesAsSent` for the reader of `net.rs` alone, whose state is small.

## 6. Not modelled

Text: MIME, headers, the grammar of each command, responses and JSON. Cryptography:
signatures are Booleans or symbolic terms, hashes injective; Sphinx packets, hybrid keys,
double ratchets and key names are left out. Sockets, threads and TLS; FETCH data items and
SUBSCRIBE; identity chains and move records beyond their codecs; attestation and safety
numbers, which are stateless comparisons. The Python vector generators and lints, the
language bindings and the web pages are no part of the program.
