------------------------------- MODULE Mailbox -------------------------------
(***************************************************************************)
(* One mailbox of the kotva-mail store, and the operations every protocol  *)
(* view (IMAP, POP3, JMAP) performs on it: crates/kotva-mail/src/store.rs. *)
(*                                                                         *)
(* A mailbox is a record.  Message bodies are values of Raws; flags are    *)
(* sets (the code keeps a Vec that set_flag never lets repeat).  Sequence  *)
(* numbers are 1-based here and on the wire; the code's Vec index is one   *)
(* less.  The field gen is a ghost: it names the life of the mailbox, from *)
(* Mailbox::new until it is dropped, and no operation reads it.  The       *)
(* subscription, the special use and the internal date are left out: no    *)
(* operation on messages reads them, and none of them takes a modseq.      *)
(***************************************************************************)
EXTENDS Naturals, Sequences

CONSTANTS Flags,   \* message flags: Seen, Deleted, Recent, ... keywords
          Raws     \* message contents (RFC 5322 octets)

Message == [uid : Nat, flags : SUBSET Flags, modseq : Nat,
            created_modseq : Nat, raw : Raws]

Vanished == [uid : Nat, modseq : Nat]

MailboxType == [gen : Nat, uid_validity : Nat, uid_next : Nat \ {0},
                highest_modseq : Nat,
                messages : Seq(Message), expunged : Seq(Vanished)]

-----------------------------------------------------------------------------
(* Operations that change a mailbox.                                       *)

NewMailbox(g) ==
  [gen |-> g, uid_validity |-> 1, uid_next |-> 1, highest_modseq |-> 1,
   messages |-> <<>>, expunged |-> <<>>]

\* Message::new: a new message was last modified when it was created.
NewMessage(uid, flags, modseq, raw) ==
  [uid |-> uid, flags |-> flags, modseq |-> modseq,
   created_modseq |-> modseq, raw |-> raw]

\* Mutant of append: a UID computed from the last message instead of UIDNEXT.
append_after_last(mb, raw, flags) ==
  LET ms   == mb.highest_modseq + 1
      last == IF mb.messages = <<>> THEN 0 ELSE mb.messages[Len(mb.messages)].uid
  IN  [mb EXCEPT !.uid_next = @ + 1,
                 !.highest_modseq = ms,
                 !.messages = Append(@, NewMessage(last + 1, flags, ms, raw))]

\* The message takes UIDNEXT and the mailbox's next modseq.
append(mb, raw, flags) ==
  LET ms == mb.highest_modseq + 1
  IN  [mb EXCEPT !.uid_next = @ + 1,
                 !.highest_modseq = ms,
                 !.messages = Append(@, NewMessage(mb.uid_next, flags, ms, raw))]

\* Vec::remove: every later message moves one place down.
Without(s, i) == [j \in 1 .. Len(s) - 1 |-> IF j < i THEN s[j] ELSE s[j + 1]]

\* Mutant of remove_at: Vec::swap_remove.
remove_at_swapping(mb, i) ==
  LET ms == mb.highest_modseq + 1
      n  == Len(mb.messages)
  IN  IF i \notin DOMAIN mb.messages THEN mb
      ELSE [mb EXCEPT !.highest_modseq = ms,
                      !.expunged = Append(@, [uid |-> mb.messages[i].uid, modseq |-> ms]),
                      !.messages = [j \in 1 .. n - 1 |-> IF j = i THEN @[n] ELSE @[j]]]

\* Out of range is the early return None, which leaves the mailbox alone.
remove_at(mb, i) ==
  LET ms == mb.highest_modseq + 1
  IN  IF i \notin DOMAIN mb.messages THEN mb
      ELSE [mb EXCEPT !.highest_modseq = ms,
                      !.expunged = Append(@, [uid |-> mb.messages[i].uid, modseq |-> ms]),
                      !.messages = Without(@, i)]

\* Mutants of write_flags: the message not stamped, the creation stamp moved
\* with it.
write_flags_unstamped(mb, i, flags) ==
  [mb EXCEPT !.highest_modseq = @ + 1, !.messages[i].flags = flags]

write_flags_recreating(mb, i, flags) ==
  LET ms == mb.highest_modseq + 1
  IN  [mb EXCEPT !.highest_modseq = ms,
                 !.messages[i] = NewMessage(@.uid, flags, ms, @.raw)]

\* How IMAP STORE, an implicit \Seen of FETCH and JMAP Email/set write flags:
\* the flags change, then the message takes the mailbox's next modseq.
write_flags(mb, i, flags) ==
  LET ms == mb.highest_modseq + 1
  IN  [mb EXCEPT !.highest_modseq = ms,
                 !.messages[i] = [@ EXCEPT !.flags = flags, !.modseq = ms]]

-----------------------------------------------------------------------------
(* What a mailbox answers.                                                 *)

Uids(mb) == {mb.messages[i].uid : i \in DOMAIN mb.messages}

\* `*` in a UID set: the UID of the last message, 0 when there is none.
max_uid(mb) ==
  IF mb.messages = <<>> THEN 0 ELSE mb.messages[Len(mb.messages)].uid

\* Sequence numbers holding uid: what the binary search finds when the
\* messages are in ascending UID order, which AscendingUids promises.
seq_of_uid(mb, uid) == {i \in DOMAIN mb.messages : mb.messages[i].uid = uid}

vanished_since(mb, modseq) ==
  {mb.expunged[k].uid : k \in {j \in DOMAIN mb.expunged : mb.expunged[j].modseq > modseq}}

\* Sequence numbers of the messages changed after modseq.
changed_since(mb, modseq) ==
  {i \in DOMAIN mb.messages : mb.messages[i].modseq > modseq}

\* The content a client that knows everything holds: UID -> flags and body.
Content(mb) ==
  [u \in Uids(mb) |->
     LET i == CHOOSE i \in DOMAIN mb.messages : mb.messages[i].uid = u
     IN  [flags |-> mb.messages[i].flags, raw |-> mb.messages[i].raw]]

-----------------------------------------------------------------------------
(* What makes a mailbox well formed.  Every part is preserved by every     *)
(* operation above (MailStoreProofs).                                      *)

\* The precondition of every binary search in the code.
UidsAscending(mb) ==
  \A i, j \in DOMAIN mb.messages : i < j => mb.messages[i].uid < mb.messages[j].uid

\* Every UID ever handed out is live or in the vanished log, never both: no
\* message leaves a mailbox without a trace a resynchronising client can see.
UidsAccountedFor(mb) ==
  LET gone == {mb.expunged[k].uid : k \in DOMAIN mb.expunged}
  IN  /\ Uids(mb) \cup gone = 1 .. mb.uid_next - 1
      /\ Uids(mb) \cap gone = {}

\* No stamp is ahead of the mailbox, and no message predates its creation.
ModSeqsBounded(mb) ==
  /\ \A i \in DOMAIN mb.messages :
       /\ mb.messages[i].modseq <= mb.highest_modseq
       /\ mb.messages[i].created_modseq <= mb.messages[i].modseq
       /\ mb.messages[i].created_modseq > 0
  /\ \A k \in DOMAIN mb.expunged : mb.expunged[k].modseq <= mb.highest_modseq

\* No two stamps of a mailbox are equal: a message and a message, a message
\* and an expunge, an expunge and a later expunge.  (A client that has seen
\* modseq n has seen all of what n stamps.)
ModSeqsDistinct(mb) ==
  /\ \A i, j \in DOMAIN mb.messages :
       i # j => mb.messages[i].modseq # mb.messages[j].modseq
  /\ \A k, l \in DOMAIN mb.expunged :
       k < l => mb.expunged[k].modseq < mb.expunged[l].modseq
  /\ \A i \in DOMAIN mb.messages, k \in DOMAIN mb.expunged :
       mb.messages[i].modseq # mb.expunged[k].modseq
==============================================================================
