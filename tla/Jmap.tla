-------------------------------- MODULE Jmap --------------------------------
(***************************************************************************)
(* The JMAP API of kotva-mail (crates/kotva-mail/src/jmap.rs) over the      *)
(* store of module MailStore.                                              *)
(*                                                                         *)
(* process runs the calls of one request in order while it holds the store *)
(* mutably: other users of the store move between requests only.  A set    *)
(* method works through its creations, updates and destructions one entry  *)
(* after another, so an entry is a step here and a call is open until it   *)
(* is answered.  An Email id is the pair of mailbox name and UID; an id    *)
(* that does not parse is one of a mailbox that does not exist, which every *)
(* method treats alike.  Bodies and keywords are those of Mailbox: the     *)
(* composition of headers and the JSON around it are left out, and so are  *)
(* the methods that keep no state (Identity, PushSubscription, submission).*)
(***************************************************************************)
EXTENDS MailStore

SX == INSTANCE SequencesExt

CONSTANTS Drafts,      \* the name of the Drafts mailbox
          CallIds,     \* the client's names for its calls
          MaxCalls,    \* bound: calls in a request
          MaxEntries   \* bound: entries of a set call

VARIABLES
  responses,  \* the answers to the calls of the present request, in order
  call        \* the set call being worked through, in a sequence of at most one

jvars == <<vars, responses, call>>

EmailIds == {<<n, u>> : n \in Names, u \in 1 .. MaxUid}

Live(boxes) == UNION {{<<n, u>> : u \in Uids(boxes[n])} : n \in DOMAIN boxes}

-----------------------------------------------------------------------------
(* Back references.                                                        *)

\* The first answer of that method to that call; an error answers under the
\* name "error" and is never found.
Found(prior, ref) == {i \in DOMAIN prior : prior[i].name = ref.name /\ prior[i].id = ref.resultOf}

\* eval_pointer over an answer: the member a path names, or none.
eval_pointer(answer, path) == IF path \in DOMAIN answer.args THEN <<answer.args[path]>> ELSE <<>>

\* The value a reference stands for, in a sequence of at most one.
resolve_references(prior, ref) ==
  IF Found(prior, ref) = {} THEN <<>> ELSE eval_pointer(prior[Min(Found(prior, ref))], ref.path)

Refs == [resultOf : CallIds, name : {"Email/query", "Email/get", "Email/changes"},
         path : {"ids", "created", "list", "destroyed"}]

Answered(name, cid, args) ==
  /\ responses' = Append(responses, [name |-> name, id |-> cid, args |-> args])
  /\ UNCHANGED <<vars, call>>

\* A call is taken up while the one before it has been answered.
Ready == call = <<>> /\ Len(responses) < MaxCalls

-----------------------------------------------------------------------------
(* Methods that read.                                                      *)

\* The messages in the order of the mailboxes, then of the UIDs.
Listed(names) ==
  SX!FlattenSeq([i \in DOMAIN names |->
    [j \in DOMAIN mailboxes[names[i]].messages |-> <<names[i], mailboxes[names[i]].messages[j].uid>>]])

\* inMailbox is the only filter; every other one is passed over.
email_query(cid, in) ==
  /\ Ready
  /\ Answered("Email/query", cid, [ids |-> Listed(SelectSeq(order, LAMBDA n : n \in in))])

\* An ids argument that is missing, or is not a list, stands for all ids.
email_get(cid, ids) ==
  /\ Ready
  /\ Answered("Email/get", cid,
              [list      |-> SelectSeq(ids, LAMBDA id : id \in Live(mailboxes)),
               not_found |-> SelectSeq(ids, LAMBDA id : id \notin Live(mailboxes))])

\* Email/changes since the token of the client; the answer lists the ids.
changes(cid) ==
  LET delta(f(_, _)) == UNION {{<<n, u>> : u \in f(mailboxes[n], Known(client, n).modseq)} : n \in DOMAIN mailboxes}
  IN  /\ Ready
      /\ Answered("Email/changes", cid,
                  [created   |-> SX!SetToSeq(delta(EmailCreated)),
                   updated   |-> SX!SetToSeq(delta(EmailUpdated)),
                   destroyed |-> SX!SetToSeq(delta(EmailDestroyed))])

\* Unknown methods and references that do not resolve: nothing is run.
fails(cid) ==
  /\ Ready
  /\ Answered("error", cid, <<>>)

-----------------------------------------------------------------------------
(* Methods that write.                                                     *)

\* before is a ghost: the store the call found.
Opened(name, cid, destroy) ==
  [name |-> name, id |-> cid, phase |-> 1, entries |-> 0, destroy |-> destroy,
   created |-> {}, updated |-> {}, destroyed |-> {},
   before |-> mailboxes]

Set(name, cid, destroy) ==
  /\ Ready
  /\ call' = <<Opened(name, cid, destroy)>>
  /\ UNCHANGED <<vars, responses>>

\* The next entry of the open call, of the given phase: creations come first,
\* then updates, then destructions.
Entry(name, phase) ==
  /\ call # <<>>
  /\ call[1].name = name
  /\ call[1].phase <= phase
  /\ call[1].entries < MaxEntries

Noted(phase, field, id) ==
  /\ call' = <<[call[1] EXCEPT !.phase = phase, !.entries = @ + 1, ![field] = @ \cup {id}]>>
  /\ UNCHANGED responses

\* An entry that cannot be done is listed as not created, not updated or not
\* destroyed: in none of the three lists kept here.  The store is left alone.
Refused(phase) ==
  /\ call' = <<[call[1] EXCEPT !.phase = phase, !.entries = @ + 1]>>
  /\ UNCHANGED <<vars, responses>>

\* The mailbox a new message goes to: the one asked for if it exists, else
\* Drafts, else INBOX.
Destination(n) ==
  IF n \in DOMAIN mailboxes THEN n ELSE IF Drafts \in DOMAIN mailboxes THEN Drafts ELSE INBOX

compose_email(n, raw, flags) ==
  /\ Entry("Email/set", 1)
  /\ DeliverRaw(Destination(n), raw, flags)
  /\ Noted(1, "created", <<Destination(n), mailboxes[Destination(n)].uid_next>>)

\* keywords replaces the flags and keeps \Recent; keywords/x sets or clears x.
Patches == {[replace |-> TRUE, set |-> s, clear |-> {}] : s \in SUBSET Flags}
           \cup {[replace |-> FALSE, set |-> s, clear |-> c] : s, c \in {{}} \cup {{f} : f \in Flags}}

Patched(flags, p) ==
  IF p.replace THEN p.set \cup (flags \cap {Recent}) ELSE (flags \ p.clear) \cup p.set

\* The message takes the next modseq even when its flags stay the same.
apply_email_update(id, p) ==
  \E i \in seq_of_uid(mailboxes[id[1]], id[2]) :
    WriteFlags(id[1], i, Patched(mailboxes[id[1]].messages[i].flags, p))

EmailUpdate(id, p) ==
  /\ Entry("Email/set", 2)
  /\ id \in Live(mailboxes)
  /\ apply_email_update(id, p)
  /\ Noted(2, "updated", id)

EmailUpdateFails(id) ==
  /\ Entry("Email/set", 2)
  /\ id \notin Live(mailboxes)
  /\ Refused(2)

\* The next destruction of the open call.  The bounds of the model do not hold
\* it up: a call lists few of them, and its answer waits for them all.
Destruction ==
  /\ call # <<>>
  /\ call[1].destroy # <<>>

Destroyed(id, at) ==
  /\ \/ \E i \in at : Put(id[1], remove_at(mailboxes[id[1]], i))
     \/ at = {} /\ UNCHANGED vars
  /\ call' = <<[call[1] EXCEPT !.phase = 3, !.destroy = Tail(@),
                  !.destroyed = IF at = {} THEN @ ELSE @ \cup {id}]>>
  /\ UNCHANGED responses

\* parse_email_id takes nothing but a mailbox name and a UID for an id.
Position(boxes, id) ==
  IF id \in Names \X Nat /\ id[1] \in DOMAIN boxes THEN seq_of_uid(boxes[id[1]], id[2]) ELSE {}

\* Mutant of EmailDestroy: the position is looked up in the store the call
\* began with.
EmailDestroyStale ==
  /\ Destruction
  /\ LET id == Head(call[1].destroy) IN Destroyed(id, Position(call[1].before, id))

EmailDestroy ==
  /\ Destruction
  /\ LET id == Head(call[1].destroy) IN Destroyed(id, Position(mailboxes, id))

\* Mailbox/set: a creation that finds the name taken, a rename or a
\* destruction that the store refuses, is reported and changes nothing.
MailboxCreate(n) ==
  /\ Entry("Mailbox/set", 1)
  /\ \/ Create(n) /\ Noted(1, "created", n)
     \/ n \in DOMAIN mailboxes /\ Refused(1)

MailboxUpdate(from, to) ==
  /\ Entry("Mailbox/set", 2)
  /\ \/ Rename(from, to) /\ Noted(2, "updated", <<from, to>>)
     \/ /\ from = INBOX \/ to \in DOMAIN mailboxes \/ from \notin DOMAIN mailboxes
        /\ Refused(2)

MailboxDestroy(n) ==
  /\ Entry("Mailbox/set", 3)
  /\ \/ Delete(n) /\ Noted(3, "destroyed", n)
     \/ /\ n = INBOX \/ n \notin DOMAIN mailboxes
        /\ Refused(3)

\* The answer of a set call is complete when its destructions are done.  Its
\* created, updated and not... members are objects, so no reference to them
\* yields a list; destroyed is a list.
Answer ==
  /\ call # <<>>
  /\ call[1].destroy = <<>>
  /\ responses' = Append(responses, [name |-> call[1].name, id |-> call[1].id,
                                     args |-> [destroyed |-> SX!SetToSeq(call[1].destroyed)]])
  /\ call' = <<>>
  /\ UNCHANGED vars

-----------------------------------------------------------------------------
jInit == Init /\ responses = <<>> /\ call = <<>>

\* Between requests the store belongs to its other users.
Idle == responses = <<>> /\ call = <<>>

Others == Idle /\ Next /\ UNCHANGED <<responses, call>>

Respond ==
  /\ responses # <<>>
  /\ call = <<>>
  /\ responses' = <<>>
  /\ UNCHANGED <<vars, call>>

Referring ==
  \E cid \in CallIds, ref \in Refs :
    LET ids == resolve_references(responses, ref)
    IN  \/ ids # <<>> /\ email_get(cid, ids[1])
        \/ ids # <<>> /\ Set("Email/set", cid, ids[1])
        \/ ids = <<>> /\ fails(cid)

jNext ==
  \/ Others
  \/ Referring
  \/ \E cid \in CallIds :
       \/ \E in \in {Names} \cup {{n} : n \in Names} : email_query(cid, in)
       \/ email_get(cid, Listed(order))
       \/ changes(cid)
       \/ Set("Mailbox/set", cid, <<>>)
       \/ Set("Email/set", cid, <<>>)
       \/ \E id \in EmailIds : Set("Email/set", cid, <<id>>)
       \/ \E n \in Names : \E u, v \in 1 .. MaxUid : Set("Email/set", cid, <<<<n, u>>, <<n, v>>>>)
  \/ \E n \in Names, raw \in Raws, flags \in SUBSET Flags : compose_email(n, raw, flags)
  \/ \E id \in EmailIds : EmailUpdateFails(id) \/ \E p \in Patches : EmailUpdate(id, p)
  \/ EmailDestroy
  \/ \E n \in Names : MailboxCreate(n) \/ MailboxDestroy(n)
  \/ \E from, to \in Names : MailboxUpdate(from, to)
  \/ Answer
  \/ Respond

jSpec == jInit /\ [][jNext]_jvars

-----------------------------------------------------------------------------
(* Properties.                                                             *)

\* The answer of a set call tells what the call did, also when some of its
\* entries failed: a message is new, or gone, exactly if the answer says so;
\* a message whose flags are no longer what they were is among the updated
\* ones; and a message the answer names is stamped after everything the
\* store held before the call, so no client's later delta leaves it out.
AnswerTruthful ==
  \A c \in SX!Range(call) :
    c.name = "Email/set" =>
      LET old == c.before
          content(boxes, id) == Content(boxes[id[1]])[id[2]]
      IN  /\ Live(mailboxes) = (Live(old) \cup c.created) \ c.destroyed
          /\ c.created \cap Live(old) = {}
          /\ \A id \in Live(old) \cap Live(mailboxes) :
               content(mailboxes, id) # content(old, id) => id \in c.updated
          /\ \A id \in (c.created \cup c.updated) \cap Live(mailboxes) :
               id[2] \in EmailChanged(mailboxes[id[1]], old[id[1]].highest_modseq)
=============================================================================
