------------------------------ MODULE MailStore ------------------------------
(***************************************************************************)
(* The MailStore projection and its in-memory backing, MemoryStore:        *)
(* crates/kotva-mail/src/store.rs.  Actions are the calls the protocol     *)
(* sessions and the node make on the store, in any order; the sessions are *)
(* modelled apart (ImapSession, Pop3Session, SmtpSession) and apply the    *)
(* same operators to their own store.                                      *)
(*                                                                         *)
(* client is a mail client that was last in step with the store some time  *)
(* ago: the JMAP state token it holds (a modseq for every mailbox name)    *)
(* with what it then knew of each mailbox.  The empty client is the        *)
(* genesis token "0".  IMAP's QRESYNC client is the same thing for one     *)
(* mailbox.                                                                *)
(***************************************************************************)
EXTENDS Mailbox, FiniteSetsExt

CONSTANTS Names,       \* mailbox names, INBOX among them
          INBOX,
          Recent,      \* the \Recent flag
          MaxUid,      \* bound: UIDs handed out per mailbox
          MaxModSeq,   \* bound: the sum of the mailboxes' highest_modseq
          MaxGen       \* bound: mailboxes ever created

ASSUME StoreAssumption ==
  /\ INBOX \in Names
  /\ Recent \in Flags
  /\ MaxUid \in Nat /\ MaxModSeq \in Nat /\ MaxGen \in Nat

VARIABLES
  mailboxes,  \* name -> mailbox, for the mailboxes that exist
  order,      \* the names in the order LIST and JMAP report them
  nextGen,    \* ghost: lives started so far
  client      \* ghost: name -> what the client knows of that mailbox

vars == <<mailboxes, order, nextGen, client>>

-----------------------------------------------------------------------------
(* The JMAP state token and the delta computed from it.                    *)

Snapshot(mb) == [gen |-> mb.gen, modseq |-> mb.highest_modseq, view |-> Content(mb)]

\* jmap_state with everything read under it: Email/get of all ids.
jmap_state(boxes) == [n \in DOMAIN boxes |-> Snapshot(boxes[n])]

\* The client's entry for a name; a name its token lacks counts as modseq 0.
Known(c, n) ==
  IF n \in DOMAIN c THEN c[n] ELSE [gen |-> 0, modseq |-> 0, view |-> <<>>]

\* jmap_changes(Email), the ids it reports for one mailbox.
EmailChanged(mb, old) ==
  {mb.messages[i].uid : i \in changed_since(mb, old)}

EmailCreated(mb, old) ==
  {mb.messages[i].uid : i \in {j \in changed_since(mb, old) :
                                  mb.messages[j].created_modseq > old}}

EmailUpdated(mb, old) == EmailChanged(mb, old) \ EmailCreated(mb, old)

EmailDestroyed(mb, old) == vanished_since(mb, old)

\* What a client holds after it applied the delta: the destroyed ids dropped,
\* the created and updated ones fetched.  The QRESYNC answer to SELECT is the
\* same delta (VANISHED (EARLIER), then one FETCH for each changed message).
AfterDelta(mb, k) ==
  LET new == EmailCreated(mb, k.modseq) \cup EmailUpdated(mb, k.modseq)
  IN  [u \in (DOMAIN k.view \ EmailDestroyed(mb, k.modseq)) \cup new |->
         IF u \in new THEN Content(mb)[u] ELSE k.view[u]]

\* jmap_changes(Mailbox), the names it reports as updated.  (Created are the
\* names the token lacks, destroyed the ones that no longer exist.)
MailboxUpdated(boxes, c) ==
  {n \in DOMAIN boxes \cap DOMAIN c : boxes[n].highest_modseq # c[n].modseq}

-----------------------------------------------------------------------------
(* MemoryStore::empty(): a store with INBOX alone.                         *)
Init ==
  /\ mailboxes = [n \in {INBOX} |-> NewMailbox(0)]
  /\ order = <<INBOX>>
  /\ nextGen = 1
  /\ client = [n \in {} |-> Snapshot(NewMailbox(0))]

\* AlreadyExists leaves the store alone; so do the other errors below.
Create(n) ==
  /\ nextGen < MaxGen
  /\ n \notin DOMAIN mailboxes
  /\ mailboxes' = [m \in DOMAIN mailboxes \cup {n} |->
                     IF m = n THEN NewMailbox(nextGen) ELSE mailboxes[m]]
  /\ order' = Append(order, n)
  /\ nextGen' = nextGen + 1
  /\ UNCHANGED client

\* InboxImmutable, NoSuchMailbox.  order.retain drops the one entry that is n
\* (OrderMatchesMap).
Delete(n) ==
  /\ n # INBOX
  /\ n \in DOMAIN mailboxes
  /\ mailboxes' = [m \in DOMAIN mailboxes \ {n} |-> mailboxes[m]]
  /\ order' = Without(order, CHOOSE i \in DOMAIN order : order[i] = n)
  /\ UNCHANGED <<nextGen, client>>

\* InboxImmutable, AlreadyExists, NoSuchMailbox.  The mailbox keeps its
\* messages, its UIDs and its place in the list.
Rename(from, to) ==
  /\ from # INBOX
  /\ to \notin DOMAIN mailboxes
  /\ from \in DOMAIN mailboxes
  /\ mailboxes' = [m \in (DOMAIN mailboxes \ {from}) \cup {to} |->
                     IF m = to THEN mailboxes[from] ELSE mailboxes[m]]
  /\ order' = [i \in DOMAIN order |-> IF order[i] = from THEN to ELSE order[i]]
  /\ UNCHANGED <<nextGen, client>>

\* The bound on the changes a behaviour makes.
Room == MapThenSumSet(LAMBDA n : mailboxes[n].highest_modseq, DOMAIN mailboxes) < MaxModSeq

\* One mailbox changes, in a way that does not touch the list of mailboxes.
Put(n, mb) ==
  /\ mailboxes' = [mailboxes EXCEPT ![n] = mb]
  /\ UNCHANGED <<order, nextGen, client>>

\* deliver_mote of a payload that is not `sensitive` (a sensitive one is
\* returned as Ephemeral before any mailbox is looked up).
DeliverMote(n, raw) ==
  /\ n \in DOMAIN mailboxes
  /\ mailboxes[n].uid_next <= MaxUid
  /\ Room
  /\ Put(n, append(mailboxes[n], raw, {Recent}))

\* deliver_raw: SMTP submission, IMAP APPEND, COPY.
DeliverRaw(n, raw, flags) ==
  /\ n \in DOMAIN mailboxes
  /\ mailboxes[n].uid_next <= MaxUid
  /\ Room
  /\ Put(n, append(mailboxes[n], raw, flags))

\* mailbox_mut(n).remove_at(i): EXPUNGE, CLOSE, MOVE, POP3 QUIT, Email/set.
RemoveAt(n, i) ==
  /\ n \in DOMAIN mailboxes
  /\ i \in DOMAIN mailboxes[n].messages
  /\ Room
  /\ Put(n, remove_at(mailboxes[n], i))

WriteFlags(n, i, flags) ==
  /\ n \in DOMAIN mailboxes
  /\ i \in DOMAIN mailboxes[n].messages
  /\ Room
  /\ Put(n, write_flags(mailboxes[n], i, flags))

\* The client fetches everything and keeps the state token.
ClientSync ==
  /\ client' = jmap_state(mailboxes)
  /\ UNCHANGED <<mailboxes, order, nextGen>>

Next ==
  \/ \E n \in Names : Create(n) \/ Delete(n)
  \/ \E from, to \in Names : Rename(from, to)
  \/ \E n \in Names, raw \in Raws : DeliverMote(n, raw)
  \/ \E n \in Names, raw \in Raws, flags \in SUBSET Flags : DeliverRaw(n, raw, flags)
  \/ \E n \in Names : \E i \in 1 .. MaxUid : RemoveAt(n, i)
  \/ \E n \in Names, flags \in SUBSET Flags : \E i \in 1 .. MaxUid : WriteFlags(n, i, flags)
  \/ ClientSync

Spec == Init /\ [][Next]_vars

-----------------------------------------------------------------------------
(* Properties.                                                             *)

\* The type of the store and of the client's memory of it.
TypeOK ==
  /\ DOMAIN mailboxes \subseteq Names
  /\ INBOX \in DOMAIN mailboxes
  /\ \A n \in DOMAIN mailboxes : mailboxes[n] \in MailboxType
  /\ order \in Seq(Names)
  /\ nextGen \in Nat
  /\ DOMAIN client \subseteq Names

\* The list of names LIST and JMAP walk names every mailbox that exists,
\* once, and nothing else, whatever was created, renamed and deleted.
OrderMatchesMap ==
  /\ {order[i] : i \in DOMAIN order} = DOMAIN mailboxes
  /\ \A i, j \in DOMAIN order : order[i] = order[j] => i = j

\* Mailbox::index_of_uid, seq_of_uid and resolve_targets binary-search the
\* messages: the list is in strictly ascending UID order, always.
AscendingUids == \A n \in DOMAIN mailboxes : UidsAscending(mailboxes[n])

\* Every UID a mailbox handed out is either a live message or an entry of its
\* vanished log, never neither and never both.
AccountedUids == \A n \in DOMAIN mailboxes : UidsAccountedFor(mailboxes[n])

\* modseq stamps are bounded by the mailbox's HIGHESTMODSEQ and are never
\* given twice, so "changed after n" splits the changes without overlap.
SoundModSeqs ==
  \A n \in DOMAIN mailboxes :
    ModSeqsBounded(mailboxes[n]) /\ ModSeqsDistinct(mailboxes[n])

\* What every protocol session relies on when it reads a mailbox: the list of
\* names is right, messages can be looked up by UID, every UID is accounted
\* for, and the modseq stamps tell the changes apart.
StoreWellFormed == OrderMatchesMap /\ AscendingUids /\ AccountedUids /\ SoundModSeqs

\* The mailbox under this name is the one the client saw under it, or the
\* client saw none.
SameLife(n) ==
  n \in DOMAIN client => client[n].gen = mailboxes[n].gen

\* A client that applies the delta since its token holds exactly what the
\* mailbox holds: nothing changed was left out, nothing that vanished was
\* kept (jmap_changes, qresync_resync).
DeltaExact ==
  \A n \in DOMAIN mailboxes :
    SameLife(n) => AfterDelta(mailboxes[n], Known(client, n)) = Content(mailboxes[n])

\* jmap_changes reports as updated what the client already has and as created
\* what it does not have, and never both nor a destroyed id.
DeltaClassified ==
  \A n \in DOMAIN mailboxes :
    SameLife(n) =>
      LET k == Known(client, n)
          mb == mailboxes[n]
      IN  /\ EmailUpdated(mb, k.modseq) \subseteq DOMAIN k.view
          /\ EmailCreated(mb, k.modseq) \cap DOMAIN k.view = {}
          /\ EmailDestroyed(mb, k.modseq) \cap EmailChanged(mb, k.modseq) = {}

\* Mailbox/changes leaves a mailbox out only if its messages are as the
\* client saw them.
MailboxDeltaSound ==
  \A n \in DOMAIN mailboxes \cap DOMAIN client :
    SameLife(n) /\ n \notin MailboxUpdated(mailboxes, client)
      => client[n].view = Content(mailboxes[n])

\* /changes reports each change as the kind of change it was and leaves no
\* changed mailbox out.
ChangesSound == DeltaClassified /\ MailboxDeltaSound

\* Of two states of one mailbox, the later one may follow the earlier one:
\* UIDNEXT and HIGHESTMODSEQ have not gone back, and a UID below the old
\* UIDNEXT that is live now was live then, with the same body.
Follows(old, new) ==
  /\ old.uid_next <= new.uid_next
  /\ old.highest_modseq <= new.highest_modseq
  /\ \A u \in Uids(new) :
       u < old.uid_next => u \in Uids(old) /\ Content(new)[u].raw = Content(old)[u].raw

LivesFollow ==
  \A m \in DOMAIN mailboxes, n \in DOMAIN mailboxes' :
    mailboxes[m].gen = mailboxes'[n].gen => Follows(mailboxes[m], mailboxes'[n])

\* In one life of a mailbox no UID returns once it is gone and none changes
\* its body, whatever the step and across RENAME: what a client cached under
\* a UID stays true of it.
UidsNeverReused == [][LivesFollow]_vars

\* The mailboxes as lives that go on under whatever name they have.
LifeOf(mb) ==
  LET content == Content(mb)
  IN  [next |-> mb.uid_next, stamp |-> mb.highest_modseq, bodies |-> [u \in Uids(mb) |-> content[u].raw]]

Lives ==
  [g \in {mailboxes[n].gen : n \in DOMAIN mailboxes} |->
     LifeOf(mailboxes[CHOOSE n \in DOMAIN mailboxes : mailboxes[n].gen = g])]

L == INSTANCE MailboxLives WITH lives <- Lives, born <- nextGen

\* The store implements MailboxLives: whatever is created, renamed, deleted,
\* delivered, expunged and flagged, and over whichever protocol, a UID stands
\* for one body in the life of a mailbox and no step changes two mailboxes.
ImplementsLives == L!Spec

\* What the MailStore trait's documentation promises of /changes, whatever
\* happened to the mailbox in between: a client that applies the delta since
\* its token holds the contents of every mailbox.
DeltaDurable ==
  \A n \in DOMAIN mailboxes :
    AfterDelta(mailboxes[n], Known(client, n)) = Content(mailboxes[n])
=============================================================================
