----------------------------- MODULE ImapSession -----------------------------
(***************************************************************************)
(* An IMAP session over the store it owns: imap/session.rs, with the       *)
(* sequence sets of imap/sequence.rs and the connection loop of net.rs.    *)
(*                                                                         *)
(* One action is one command buffer given to Session::process, whole.  A   *)
(* command that is refused, and one that only reads (NOOP, CAPABILITY, ID, *)
(* LIST, STATUS, CHECK, SORT, THREAD, FETCH with PEEK), does what Noop     *)
(* does.  The node delivers between commands, through store_mut.           *)
(*                                                                         *)
(* view is a ghost: the UIDs the client believes to be messages 1, 2, ...  *)
(* of the selected mailbox, from the untagged replies alone.  cache is a   *)
(* ghost: what the client stored at its last SELECT, to resynchronise with *)
(* after it was away.  CONDSTORE changes replies only and is left out.     *)
(***************************************************************************)
EXTENDS Mailbox, SequencesExt

CONSTANTS Names, INBOX, NoName,
          Deliveries,     \* what INBOX may hold at the start: sequences of messages
          Seen, Deleted, Recent,
          SequenceSets,   \* the sets clients send
          ModSeqs,        \* the CHANGEDSINCE and UNCHANGEDSINCE values they send
          FlagSets,       \* the flag lists of APPEND and STORE
          SearchKeys,     \* the SEARCH keys: ALL, DELETED, SAVED (`$`)
          Exchanges,      \* the multi-line exchanges they start: IDLE, AUTHENTICATE
          MaxUid,         \* bound: UIDs handed out per mailbox
          MaxChanges,     \* bound: commands and deliveries that change messages
          MaxGen          \* bound: mailboxes ever created

ASSUME SessionAssumption ==
  /\ INBOX \in Names /\ NoName \notin Names
  /\ {Seen, Deleted, Recent} \subseteq Flags
  /\ FlagSets \subseteq SUBSET Flags
  /\ Deliveries \subseteq Seq([raw : Raws, flags : SUBSET Flags])
  /\ SearchKeys \subseteq {"ALL", "DELETED", "SAVED"}
  /\ Exchanges \subseteq {"Idle", "Plain", "LoginUser", "LoginPass"}

VARIABLES
  mailboxes, nextGen, changes,       \* the store; nextGen and changes are ghosts
  tls, identity,                     \* identity: a user is logged in
  state, selected, read_only, qresync,
  idle,                              \* idle_tag.is_some()
  pending,                           \* the SASL step awaited, or "None"
  saved_search,                      \* the UIDs `$` stands for
  selGen, view, cache                \* ghosts

store   == <<mailboxes, nextGen, changes>>
auth    == <<tls, identity, pending>>
options == <<read_only, qresync, idle, saved_search>>
client  == <<selGen, view, cache>>
vars    == <<store, auth, state, selected, options, client>>

-----------------------------------------------------------------------------
(* Sequence sets: 1:3,5,* or the saved search result `$`.                  *)

Star == 0   \* parse_point refuses 0, so 0 is free to stand for `*`

SequenceSet == [saved : BOOLEAN, ranges : SUBSET (Nat \X Nat)]

from_uids(nums) == [saved |-> FALSE, ranges |-> {<<n, n>> : n \in nums}]

resolve(p, max) == IF p = Star THEN max ELSE p

\* A range is the same backwards: 5:3 is 3:5, and 4:* is *:4 below UID 4.
ranges_resolved(set, max) ==
  {LET a == resolve(r[1], max)
       b == resolve(r[2], max)
   IN  IF a <= b THEN <<a, b>> ELSE <<b, a>> : r \in set.ranges}

contains(set, val, max) == \E r \in ranges_resolved(set, max) : r[1] <= val /\ val <= r[2]

\* The messages a set names, as sequence numbers: the walk from the binary
\* search for lo to hi in UID mode, the clamped range otherwise.
resolve_targets(mb, set, uid) ==
  IF uid
  THEN {i \in DOMAIN mb.messages : contains(set, mb.messages[i].uid, max_uid(mb))}
  ELSE {i \in DOMAIN mb.messages : contains(set, i, Len(mb.messages))}

\* `$` becomes the saved UIDs, or the numbers they have now.
materialize(mb, set, uid) ==
  IF ~set.saved THEN set
  ELSE IF uid THEN from_uids(saved_search)
  ELSE from_uids(UNION {seq_of_uid(mb, u) : u \in saved_search})

Targets(mb, set, uid) == resolve_targets(mb, materialize(mb, set, uid), uid)

\* Mutant of RemoveAll: the lowest first.
RemoveAllAscending(mb, S) ==
  LET n == Len(mb.messages)
      after[k \in 0 .. n] ==
        IF k = 0 THEN mb ELSE IF k \in S THEN remove_at(after[k - 1], k) ELSE after[k - 1]
  IN  after[n]

\* remove_at for each place, the highest first so that the others stay valid.
RemoveAll(mb, S) ==
  LET n == Len(mb.messages)
      after[k \in 0 .. n] ==
        IF k = 0 THEN mb
        ELSE IF n + 1 - k \in S THEN remove_at(after[k - 1], n + 1 - k)
        ELSE after[k - 1]
  IN  after[n]

\* The messages at the places S written one after the other, each with the flags
\* that are meant for it.
WriteAll(mb, S, flags) ==
  LET n == Len(mb.messages)
      after[k \in 0 .. n] ==
        IF k = 0 THEN mb
        ELSE IF k \in S THEN write_flags(after[k - 1], k, flags[k])
        ELSE after[k - 1]
  IN  after[n]

\* The messages at the places S of mb, appended to dest in their order.
AppendAll(dest, mb, S) ==
  LET n == Len(mb.messages)
      after[k \in 0 .. n] ==
        IF k = 0 THEN dest
        ELSE IF k \in S THEN append(after[k - 1], mb.messages[k].raw, mb.messages[k].flags)
        ELSE after[k - 1]
  IN  after[n]

-----------------------------------------------------------------------------
(* What the client learns.                                                 *)

NoView  == [gen |-> 0, uids |-> <<>>]
NoCache == [name |-> NoName, gen |-> 0, modseq |-> 0, uids |-> {}]

UidList(mb) == [i \in DOMAIN mb.messages |-> mb.messages[i].uid]

\* A list without the places P, the highest dropped first.
Dropped(s, P) ==
  LET n == Len(s)
      after[k \in 0 .. n] ==
        IF k = 0 THEN s
        ELSE IF n + 1 - k \in P THEN Without(after[k - 1], n + 1 - k)
        ELSE after[k - 1]
  IN  after[n]

\* The client's list after `n EXPUNGE` for each place of S, highest first, or
\* after one VANISHED with their UIDs, whichever the session sends.
AfterExpunge(uids, mb, S) ==
  Dropped(uids, IF qresync THEN {i \in DOMAIN uids : uids[i] \in {mb.messages[j].uid : j \in S}}
                ELSE S)

Ascending(S) ==
  [k \in 1 .. Cardinality(S) |-> CHOOSE x \in S : Cardinality({y \in S : y < x}) = k - 1]

\* qresync_resync with the client's UIDs as known-uids: VANISHED (EARLIER)
\* names those of them that went after its modseq.
qresync_vanished(mb, modseq, known) ==
  {u \in vanished_since(mb, modseq) : contains(from_uids(known), u, max_uid(mb))}

\* The client drops those and asks for the UIDs above the ones it knew.
Resynced(mb) ==
  LET kept == cache.uids \ qresync_vanished(mb, cache.modseq, cache.uids)
      new  == {u \in Uids(mb) : \A k \in cache.uids : u > k}
  IN  Ascending(kept \cup new)

-----------------------------------------------------------------------------
(* Session::new over a store, and the connection.                          *)

NewSession(secure) ==
  /\ tls' = secure /\ identity' = FALSE /\ pending' = "None"
  /\ state' = "NotAuthenticated" /\ selected' = NoName
  /\ read_only' = FALSE /\ qresync' = FALSE /\ idle' = FALSE
  /\ saved_search' = {}
  /\ selGen' = 0 /\ view' = NoView

Init ==
  /\ \E delivered \in Deliveries : mailboxes =
       [n \in {INBOX} |-> AppendAll(NewMailbox(1), [messages |-> delivered], DOMAIN delivered)]
  /\ nextGen = 2 /\ changes = 0
  /\ tls \in BOOLEAN /\ identity = FALSE /\ pending = "None"
  /\ state = "NotAuthenticated" /\ selected = NoName
  /\ read_only = FALSE /\ qresync = FALSE /\ idle = FALSE
  /\ saved_search = {}
  /\ selGen = 0 /\ view = NoView /\ cache = NoCache

\* The connection ended, by LOGOUT or by the peer at any point; the next one
\* gets a new session over the same store.
Reconnect ==
  /\ \E secure \in BOOLEAN : NewSession(secure)
  /\ UNCHANGED <<store, cache>>

\* The messages change, within the bound.
Change(boxes) ==
  /\ mailboxes' = boxes
  /\ changes' = IF boxes = mailboxes THEN changes ELSE changes + 1
  /\ changes' <= MaxChanges
  /\ \A n \in DOMAIN boxes : boxes[n].uid_next <= MaxUid + 1
  /\ UNCHANGED nextGen

\* The node delivers a MOTE between two commands; nothing tells the client.
NodeDeliver(n, raw) ==
  /\ n \in DOMAIN mailboxes
  /\ Change([mailboxes EXCEPT ![n] = append(@, raw, {Recent})])
  /\ UNCHANGED <<auth, state, selected, options, client>>

-----------------------------------------------------------------------------
(* dispatch.                                                               *)

\* Mutant of Healed: no self-heal.
Unhealed == selected

\* The self-heal that precedes every command: a selected mailbox that was
\* deleted or renamed away is selected no more.
Healed == IF selected \in DOMAIN mailboxes THEN selected ELSE NoName

HealedState ==
  IF selected # NoName /\ Healed = NoName THEN "Authenticated" ELSE state

\* process hands the buffer to dispatch; the loop in net.rs stops at LOGOUT.
Command == state # "Logout" /\ ~idle /\ pending = "None"

\* The selection a command leaves when it selects nothing itself.
Keep(newState) ==
  /\ state' = newState
  /\ selected' = Healed
  /\ selGen' = IF Healed = NoName THEN 0 ELSE selGen
  /\ view' = IF Healed = NoName THEN NoView ELSE view
  /\ UNCHANGED cache

Noop == Command /\ Keep(HealedState) /\ UNCHANGED <<store, auth, options>>

Logout == Command /\ Keep("Logout") /\ UNCHANGED <<store, auth, options>>

StartTls ==
  /\ Command
  /\ tls' = TRUE
  /\ Keep(HealedState)
  /\ UNCHANGED <<store, identity, pending, options>>

\* ENABLE QRESYNC, allowed before login.
cmd_enable ==
  /\ Command
  /\ qresync' = TRUE
  /\ Keep(HealedState)
  /\ UNCHANGED <<store, auth, read_only, idle, saved_search>>

\* LOGIN, and AUTHENTICATE PLAIN with an initial response, when the
\* credentials verify.  A selected mailbox stays selected.
cmd_login ==
  /\ Command
  /\ tls
  /\ identity' = TRUE
  /\ Keep("Authenticated")
  /\ UNCHANGED <<store, tls, pending, options>>

\* AUTHENTICATE, the exchange to be continued: PLAIN, LOGIN, and LOGIN with
\* the user in the initial response.
cmd_authenticate(step) ==
  /\ Command
  /\ tls
  /\ pending' = step
  /\ Keep(HealedState)
  /\ UNCHANGED <<store, tls, identity, options>>

\* The continuation line does not pass through dispatch: no self-heal.
continue_sasl(verified) ==
  /\ state # "Logout" /\ ~idle /\ pending # "None"
  /\ pending' = IF pending = "LoginUser" THEN "LoginPass" ELSE "None"
  /\ IF pending # "LoginUser" /\ verified
     THEN identity' = TRUE /\ state' = "Authenticated"
     ELSE UNCHANGED <<identity, state>>
  /\ UNCHANGED <<store, tls, selected, options, client>>

\* The commands below are refused without a login.
AuthCommand == Command /\ identity

\* SELECT and EXAMINE.  With the QRESYNC parameter the client names what it
\* had; its UIDVALIDITY matches, for every mailbox has UIDVALIDITY 1.
cmd_select(n, ro, resync) ==
  /\ AuthCommand
  /\ n \in DOMAIN mailboxes
  /\ resync => cache.name = n
  /\ LET mb == mailboxes[n]
     IN  /\ view' = IF resync THEN [gen |-> cache.gen, uids |-> Resynced(mb)]
                              ELSE [gen |-> mb.gen, uids |-> UidList(mb)]
         /\ cache' = [name |-> n, gen |-> mb.gen, modseq |-> mb.highest_modseq,
                      uids |-> Uids(mb)]
         /\ selGen' = mb.gen
  /\ selected' = n
  /\ read_only' = ro
  /\ qresync' = (qresync \/ resync)
  /\ state' = "Selected"
  /\ UNCHANGED <<store, auth, idle, saved_search>>

Idle ==
  /\ AuthCommand
  /\ idle' = TRUE
  /\ Keep(HealedState)
  /\ UNCHANGED <<store, auth, read_only, qresync, saved_search>>

\* While idling every line but DONE is dropped.
Done ==
  /\ state # "Logout" /\ idle
  /\ idle' = FALSE
  /\ UNCHANGED <<store, auth, state, selected, read_only, qresync, saved_search, client>>

-----------------------------------------------------------------------------
(* Commands on the store.                                                  *)

\* A command whose only effect on the session is the self-heal.
StoreCommand == AuthCommand /\ Keep(HealedState) /\ UNCHANGED <<auth, options>>

cmd_create(n) ==
  /\ StoreCommand
  /\ n \notin DOMAIN mailboxes
  /\ nextGen <= MaxGen
  /\ nextGen' = nextGen + 1
  /\ mailboxes' = [m \in DOMAIN mailboxes \cup {n} |->
                     IF m = n THEN NewMailbox(nextGen) ELSE mailboxes[m]]
  /\ UNCHANGED changes

Delete(n) ==
  /\ StoreCommand
  /\ n \in DOMAIN mailboxes \ {INBOX}
  /\ mailboxes' = [m \in DOMAIN mailboxes \ {n} |-> mailboxes[m]]
  /\ UNCHANGED <<nextGen, changes>>

Rename(from, to) ==
  /\ StoreCommand
  /\ from \in DOMAIN mailboxes \ {INBOX}
  /\ to \notin DOMAIN mailboxes
  /\ mailboxes' = [m \in (DOMAIN mailboxes \ {from}) \cup {to} |->
                     IF m = to THEN mailboxes[from] ELSE mailboxes[m]]
  /\ UNCHANGED <<nextGen, changes>>

\* APPEND; CATENATE has built the message by now, or was refused.
cmd_append(n, raw, flags) ==
  /\ StoreCommand
  /\ n \in DOMAIN mailboxes
  /\ Change([mailboxes EXCEPT ![n] = append(@, raw, flags)])

-----------------------------------------------------------------------------
(* Commands on the selected mailbox.                                       *)

\* Each handler looks the mailbox up again, a second layer behind the heal.
SelectedCommand == AuthCommand /\ Healed \in DOMAIN mailboxes

\* CLOSE expunges silently unless read-only; UNSELECT (expunge = FALSE) never.
\* Without a selection both succeed and change nothing.
cmd_close(expunge) ==
  /\ AuthCommand
  /\ LET mb == mailboxes[Healed]
         S  == {i \in DOMAIN mb.messages : Deleted \in mb.messages[i].flags}
     IN  Change(IF expunge /\ ~read_only /\ Healed \in DOMAIN mailboxes
                THEN [mailboxes EXCEPT ![Healed] = RemoveAll(mb, S)]
                ELSE mailboxes)
  /\ selected' = NoName /\ state' = "Authenticated"
  /\ selGen' = 0 /\ view' = NoView
  /\ UNCHANGED <<auth, options, cache>>

\* The mailboxes become boxes, and the client is told of expunges at S.
SelectedBecomes(boxes, S) ==
  /\ Change(boxes)
  /\ state' = HealedState /\ selected' = Healed
  /\ view' = [view EXCEPT !.uids = AfterExpunge(@, mailboxes[Healed], S)]
  /\ UNCHANGED <<auth, options, selGen, cache>>

\* EXPUNGE is UID EXPUNGE of everything.
Everything == [saved |-> FALSE, ranges |-> {<<1, Star>>}]

cmd_expunge(set) ==
  /\ SelectedCommand
  /\ ~read_only
  /\ LET mb == mailboxes[Healed]
         S  == {i \in DOMAIN mb.messages :
                  /\ Deleted \in mb.messages[i].flags
                  /\ contains(materialize(mb, set, TRUE), mb.messages[i].uid, max_uid(mb))}
     IN  SelectedBecomes([mailboxes EXCEPT ![Healed] = RemoveAll(mb, S)], S)

\* SEARCH RETURN (SAVE) of ALL, of DELETED, or of `$` itself.
cmd_search(key) ==
  /\ SelectedCommand
  /\ LET mb == mailboxes[Healed]
         match(m) == CASE key = "ALL"     -> TRUE
                       [] key = "DELETED" -> Deleted \in m.flags
                       [] key = "SAVED"   -> m.uid \in saved_search
     IN  saved_search' = {mb.messages[i].uid : i \in {j \in DOMAIN mb.messages : match(mb.messages[j])}}
  /\ Keep(HealedState)
  /\ UNCHANGED <<store, auth, read_only, qresync, idle>>

\* FETCH of a body without PEEK: what is fetched and not \Seen becomes \Seen.
\* CHANGEDSINCE, where there is one, skips what is not newer.
cmd_fetch(set, uid, changedsince) ==
  /\ SelectedCommand
  /\ LET mb == mailboxes[Healed]
         S  == {i \in Targets(mb, set, uid) :
                  /\ \A cs \in changedsince : mb.messages[i].modseq > cs
                  /\ ~read_only /\ Seen \notin mb.messages[i].flags}
         seen == [i \in DOMAIN mb.messages |-> mb.messages[i].flags \cup {Seen}]
     IN  SelectedBecomes([mailboxes EXCEPT ![Healed] = WriteAll(mb, S, seen)], {})

\* \Recent is the session's: STORE neither sets it nor replaces it away.
apply_store(old, op, flags) ==
  CASE op = "Replace" -> (flags \ {Recent}) \cup (old \cap {Recent})
    [] op = "Add"     -> old \cup (flags \ {Recent})
    [] op = "Remove"  -> old \ flags

\* UNCHANGEDSINCE, where there is one, leaves what is newer alone ([MODIFIED]).
cmd_store(set, uid, op, flags, unchangedsince) ==
  /\ SelectedCommand
  /\ ~read_only
  /\ LET mb == mailboxes[Healed]
         S  == {i \in Targets(mb, set, uid) :
                  \A uc \in unchangedsince : mb.messages[i].modseq <= uc}
         put == [i \in DOMAIN mb.messages |-> apply_store(mb.messages[i].flags, op, flags)]
     IN  SelectedBecomes([mailboxes EXCEPT ![Healed] = WriteAll(mb, S, put)], {})

\* The snapshot taken before the destination is touched, appended to it.
Copied(mb, S, dest) == AppendAll(mailboxes[dest], mb, S)

cmd_copy(set, uid, dest) ==
  /\ SelectedCommand
  /\ dest \in DOMAIN mailboxes
  /\ LET mb == mailboxes[Healed]
     IN  SelectedBecomes([mailboxes EXCEPT ![dest] = Copied(mb, Targets(mb, set, uid), dest)], {})

\* Mutant of cmd_move: the source resolved again after the copies are in, as
\* a move to the same mailbox would see it.
cmd_move_again(set, uid, dest) ==
  /\ SelectedCommand
  /\ dest \in DOMAIN mailboxes
  /\ LET mb     == mailboxes[Healed]
         copied == [mailboxes EXCEPT ![dest] = Copied(mb, Targets(mb, set, uid), dest)]
         S      == Targets(copied[Healed], set, uid)
     IN  SelectedBecomes([copied EXCEPT ![Healed] = RemoveAll(@, S)], S)

\* Every copy is in before the first original goes; the originals are found
\* again by UID.
cmd_move(set, uid, dest) ==
  /\ SelectedCommand
  /\ dest \in DOMAIN mailboxes
  /\ LET mb     == mailboxes[Healed]
         moved  == Targets(mb, set, uid)
         copied == [mailboxes EXCEPT ![dest] = Copied(mb, moved, dest)]
         S      == UNION {seq_of_uid(copied[Healed], mb.messages[i].uid) : i \in moved}
     IN  SelectedBecomes([copied EXCEPT ![Healed] = RemoveAll(@, S)], S)

-----------------------------------------------------------------------------
\* An optional modseq argument: absent, or one value.
OptModSeq == {{}} \cup {{m} : m \in ModSeqs}

Next ==
  \/ Reconnect
  \/ \E n \in Names, raw \in Raws : NodeDeliver(n, raw)
  \/ Noop \/ Logout \/ StartTls \/ cmd_enable \/ cmd_login
  \/ ("Idle" \in Exchanges /\ Idle) \/ Done
  \/ \E step \in Exchanges \ {"Idle"} : cmd_authenticate(step)
  \/ \E verified \in BOOLEAN : continue_sasl(verified)
  \/ \E n \in Names, ro, resync \in BOOLEAN : cmd_select(n, ro, resync)
  \/ \E n \in Names : cmd_create(n) \/ Delete(n)
  \/ \E from, to \in Names : Rename(from, to)
  \/ \E n \in Names, raw \in Raws, flags \in FlagSets : cmd_append(n, raw, flags)
  \/ \E expunge \in BOOLEAN : cmd_close(expunge)
  \/ \E set \in SequenceSets \cup {Everything} : cmd_expunge(set)
  \/ \E key \in SearchKeys : cmd_search(key)
  \/ \E set \in SequenceSets, uid \in BOOLEAN :
       \/ \E cs \in OptModSeq : cmd_fetch(set, uid, cs)
       \/ \E op \in {"Replace", "Add", "Remove"}, flags \in FlagSets, uc \in OptModSeq :
            cmd_store(set, uid, op, flags, uc)
       \/ \E dest \in Names : cmd_copy(set, uid, dest) \/ cmd_move(set, uid, dest)

Spec == Init /\ [][Next]_vars

-----------------------------------------------------------------------------
(* Properties.                                                             *)

\* Message number n of the client and message number n of the server are the
\* same message, from the EXPUNGE and VANISHED replies alone and also after a
\* QRESYNC of a client that was away.  (The client may know of fewer.)
SeqAligned ==
  selected \in DOMAIN mailboxes /\ view.gen = mailboxes[selected].gen
    => IsPrefix(view.uids, UidList(mailboxes[selected]))

\* The name a session has selected means the mailbox that was selected, never
\* another one that took the name after a DELETE or a RENAME.  There is one in
\* the state Selected, and only of a client that logged in: also after a second
\* LOGIN or AUTHENTICATE, and when the selected mailbox vanished.
SelectedLife ==
  /\ selected \in DOMAIN mailboxes => mailboxes[selected].gen = selGen
  /\ state = "Selected" => selected # NoName
  /\ selected # NoName => identity

\* The messages of old that are in new no more although nobody marked them
\* \Deleted, and the ones of new that were not in old.
Lost(old, new) ==
  {i \in DOMAIN old.messages : old.messages[i].uid \notin Uids(new) /\ Deleted \notin old.messages[i].flags}

Arrived(old, new) == {i \in DOMAIN new.messages : new.messages[i].uid >= old.uid_next}

\* What a mailbox loses in this step has arrived in some mailbox, one message
\* with the same flags and body for each that is lost.
NothingLostStep ==
  \A m \in DOMAIN mailboxes, n \in DOMAIN mailboxes' :
    LET lost == Lost(mailboxes[m], mailboxes'[n])
    IN  mailboxes[m].gen = mailboxes'[n].gen /\ lost # {} =>
          \E k \in DOMAIN mailboxes \cap DOMAIN mailboxes' :
            \E copy \in Injection(lost, Arrived(mailboxes[k], mailboxes'[k])) :
              \A i \in lost :
                /\ mailboxes'[k].messages[copy[i]].flags = mailboxes[m].messages[i].flags
                /\ mailboxes'[k].messages[copy[i]].raw = mailboxes[m].messages[i].raw

\* A message that is not \Deleted leaves its mailbox only by MOVE, which has
\* put a copy elsewhere, or with the mailbox: EXPUNGE, UID EXPUNGE, CLOSE and
\* MOVE to the same mailbox never take another message.
NothingLost == [][NothingLostStep]_vars

\* What EXAMINE's [READ-ONLY] answer and the "mailbox is read-only" refusals
\* say: a step of the client in a read-only mailbox changes none of its
\* messages (the client's own APPEND and the node may add some).
ReadOnlyStep ==
  LET s == selected
  IN  s \in DOMAIN mailboxes /\ s \in DOMAIN mailboxes' /\ read_only
        /\ mailboxes'[s].gen = mailboxes[s].gen
      => IsPrefix(mailboxes[s].messages, mailboxes'[s].messages)

ReadOnlyKept == [][ReadOnlyStep]_vars
=============================================================================
