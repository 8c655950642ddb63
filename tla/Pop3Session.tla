----------------------------- MODULE Pop3Session -----------------------------
(***************************************************************************)
(* POP3 sessions, one after the other, over INBOX: pop3.rs with the        *)
(* connection loop serve_pop3 of net.rs.  One action is one line given to  *)
(* feed_line_raw.  Lines that only read (STAT, LIST, UIDL, RETR, TOP,      *)
(* NOOP, CAPA) and refused ones change nothing and are stutters; STLS only *)
(* changes what CAPA answers and is left out with it.                      *)
(*                                                                         *)
(* listing and asked are ghosts, the client's side: the UIDL answer it got *)
(* when it logged in, and the UIDs it has asked to delete since, where     *)
(* message number n means listing[n].                                      *)
(***************************************************************************)
EXTENDS Mailbox, SequencesExt

CONSTANTS MaxUid, MaxModSeq,  \* bounds
          Recent

ASSUME Pop3Assumption == Recent \in Flags

VARIABLES
  inbox,         \* the store's INBOX
  connected,     \* a client is connected: the session exists
  state,         \* Authorization or Transaction
  user,          \* USER was given
  pending_sasl,  \* AUTH PLAIN awaits its response
  slots,         \* the maildrop, fixed at login
  listing, asked \* ghosts

session == <<state, user, pending_sasl, slots>>
popVars == <<inbox, connected, session, listing, asked>>

Slot == [uid : Nat, raw : Raws, deleted : BOOLEAN]

NewSession ==
  /\ state' = "Authorization" /\ user' = FALSE /\ pending_sasl' = FALSE
  /\ slots' = <<>>
  /\ listing' = <<>> /\ asked' = {}

popInit ==
  /\ inbox = NewMailbox(1)
  /\ connected = FALSE
  /\ state = "Authorization" /\ user = FALSE /\ pending_sasl = FALSE
  /\ slots = <<>>
  /\ listing = <<>> /\ asked = {}

Connect == ~connected /\ connected' = TRUE /\ NewSession /\ UNCHANGED inbox

\* The peer goes away without QUIT, at any point: the session is dropped.
Drop == connected /\ connected' = FALSE /\ NewSession /\ UNCHANGED inbox

\* Between connections the store is in other hands: the node delivers, an
\* IMAP session expunges.
NodeDeliver(raw) ==
  /\ ~connected
  /\ inbox.uid_next <= MaxUid /\ inbox.highest_modseq < MaxModSeq
  /\ inbox' = append(inbox, raw, {Recent})
  /\ UNCHANGED <<connected, session, listing, asked>>

OtherExpunge(i) ==
  /\ ~connected
  /\ i \in DOMAIN inbox.messages /\ inbox.highest_modseq < MaxModSeq
  /\ inbox' = remove_at(inbox, i)
  /\ UNCHANGED <<connected, session, listing, asked>>

-----------------------------------------------------------------------------
(* AUTHORIZATION.                                                          *)

Line == connected /\ ~pending_sasl

USER ==
  /\ Line /\ state = "Authorization"
  /\ user' = TRUE
  /\ UNCHANGED <<inbox, connected, state, pending_sasl, slots, listing, asked>>

load_inbox ==
  slots' = [i \in DOMAIN inbox.messages |->
              [uid |-> inbox.messages[i].uid, raw |-> inbox.messages[i].raw,
               deleted |-> FALSE]]

login_ok ==
  /\ state' = "Transaction"
  /\ load_inbox
  /\ listing' = [i \in DOMAIN inbox.messages |-> inbox.messages[i].uid]
  /\ asked' = {}

\* PASS after USER, verified.
pass ==
  /\ Line /\ state = "Authorization"
  /\ user
  /\ login_ok
  /\ UNCHANGED <<inbox, connected, user, pending_sasl>>

\* APOP, and AUTH PLAIN with an initial response, verified.
apop ==
  /\ Line /\ state = "Authorization"
  /\ login_ok
  /\ UNCHANGED <<inbox, connected, user, pending_sasl>>

\* AUTH PLAIN alone: the next line, whatever it is, is the response.
auth_cmd ==
  /\ Line /\ state = "Authorization"
  /\ pending_sasl' = TRUE
  /\ UNCHANGED <<inbox, connected, state, user, slots, listing, asked>>

\* A refused response only ends the exchange; when its line is QUIT, that is
\* no valid response and the connection loop ends all the same.
continue_sasl(verified, quit) ==
  /\ connected /\ pending_sasl
  /\ verified => ~quit
  /\ IF quit THEN connected' = FALSE /\ NewSession
     ELSE /\ pending_sasl' = FALSE
          /\ IF verified THEN login_ok ELSE UNCHANGED <<state, slots, listing, asked>>
          /\ UNCHANGED <<connected, user>>
  /\ UNCHANGED inbox

-----------------------------------------------------------------------------
(* TRANSACTION.                                                            *)

\* A number names a slot that is there and is not marked already.
index_of(n) == n \in DOMAIN slots /\ ~slots[n].deleted

\* Mutant of dele: the slot goes at once and the later numbers move.
dele_renumbering(n) ==
  /\ Line /\ state = "Transaction"
  /\ index_of(n)
  /\ slots' = Without(slots, n)
  /\ asked' = asked \cup {listing[n]}
  /\ UNCHANGED <<inbox, connected, state, user, pending_sasl, listing>>

dele(n) ==
  /\ Line /\ state = "Transaction"
  /\ index_of(n)
  /\ slots' = [slots EXCEPT ![n].deleted = TRUE]
  /\ asked' = asked \cup {listing[n]}
  /\ UNCHANGED <<inbox, connected, state, user, pending_sasl, listing>>

rset ==
  /\ Line /\ state = "Transaction"
  /\ slots' = [i \in DOMAIN slots |-> [slots[i] EXCEPT !.deleted = FALSE]]
  /\ asked' = {}
  /\ UNCHANGED <<inbox, connected, state, user, pending_sasl, listing>>

\* index_of_uid, then remove_at; a UID that is not there is skipped.
RemoveUid(mb, uid) ==
  IF uid \in Uids(mb) THEN remove_at(mb, CHOOSE i \in seq_of_uid(mb, uid) : TRUE) ELSE mb

\* Mutant of commit: by the numbers of the maildrop instead of by UID.
commit_by_number ==
  FoldLeft(remove_at, inbox, SelectSeq([i \in DOMAIN slots |-> i], LAMBDA i : slots[i].deleted))

\* The UPDATE state: the UIDs of the slots marked, in slot order.
commit ==
  LET after[n \in 0 .. Len(slots)] ==
        IF n = 0 THEN inbox
        ELSE IF slots[n].deleted THEN RemoveUid(after[n - 1], slots[n].uid)
        ELSE after[n - 1]
  IN  after[Len(slots)]

\* QUIT in either state.  The loop of serve_pop3 ends at a line that is QUIT
\* and nothing else; after "QUIT x" the session goes on, in Transaction, with
\* its slots as they were.
quit(bare) ==
  /\ Line
  /\ inbox' = IF state = "Transaction" THEN commit ELSE inbox
  /\ IF bare THEN connected' = FALSE /\ NewSession
             ELSE UNCHANGED <<connected, session, listing, asked>>

popNext ==
  \/ Connect \/ Drop
  \/ \E raw \in Raws : NodeDeliver(raw)
  \/ \E i \in 1 .. MaxUid : OtherExpunge(i)
  \/ USER \/ pass \/ apop \/ auth_cmd
  \/ \E verified, q \in BOOLEAN : continue_sasl(verified, q)
  \/ \E n \in 1 .. MaxUid : dele(n)
  \/ rset
  \/ \E bare \in BOOLEAN : quit(bare)

popSpec == popInit /\ [][popNext]_popVars

-----------------------------------------------------------------------------
(* Properties.                                                             *)

\* While a client is connected INBOX only loses messages, and only all at
\* once: exactly those the client asked to delete, by the numbers it was
\* given at login, and that were still there.  A dropped connection, RSET and
\* a second QUIT take nothing.
ExactlyAskedStep ==
  LET lost == Uids(inbox) \ Uids(inbox')
  IN  connected => /\ Uids(inbox') \subseteq Uids(inbox)
                   /\ lost # {} => state = "Transaction" /\ lost = asked \cap Uids(inbox)

ExactlyAsked == [][ExactlyAskedStep]_popVars

\* The maildrop of a session is fixed (RFC 1939, "fixed at login"): number n
\* means the message that was n at login until the session ends, and what RETR
\* serves under it is that message's body for as long as INBOX has it.
MaildropFixed ==
  state = "Transaction" =>
    /\ [i \in DOMAIN slots |-> slots[i].uid] = listing
    /\ \A i \in DOMAIN slots :
         slots[i].uid \in Uids(inbox) => Content(inbox)[slots[i].uid].raw = slots[i].raw
    /\ {slots[i].uid : i \in {j \in DOMAIN slots : slots[j].deleted}} = asked
=============================================================================
