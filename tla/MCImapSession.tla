---------------------------- MODULE MCImapSession ----------------------------
(* ImapSession for TLC, in two parts: the message commands, on an INBOX with *)
(* three messages and one name beside it; and the mailbox commands with the  *)
(* session's states and exchanges, on an empty INBOX and two more names.     *)
(* The sets are message 1, everything from 2 up (which is 1:2 when there is  *)
(* one message) and `$`.                                                     *)
EXTENDS ImapSession

CONSTANTS inbox, spare, r1, deleted, recent

VARIABLE part   \* the part that is checked: it does not change

ThreeMessages ==
  <<[raw |-> r1, flags |-> {deleted}], [raw |-> r1, flags |-> {recent}],
    [raw |-> r1, flags |-> {deleted}]>>

MCDeliveries == {<<>>, ThreeMessages}

MCSets ==
  { [saved |-> FALSE, ranges |-> {<<1, 1>>}],
    [saved |-> FALSE, ranges |-> {<<2, Star>>}],
    [saved |-> TRUE, ranges |-> {}] }

\* The bounds of the first part: the second mailbox is created and stays, and
\* searches are for what is marked \Deleted.
FewNames ==
  /\ nextGen' <= 3
  /\ DOMAIN mailboxes \subseteq DOMAIN mailboxes'
  /\ spare \notin DOMAIN mailboxes'
  /\ ~ idle' /\ pending' = "None" /\ tls'
  /\ \/ saved_search' = saved_search \/ state' = "NotAuthenticated"
     \/ \E n \in DOMAIN mailboxes \cap {selected} : saved_search' =
          {m.uid : m \in {k \in Range(mailboxes[n].messages) : deleted \in k.flags}}

\* The bounds of the second.
FewMessages ==
  /\ changes' <= 1
  /\ \A n \in DOMAIN mailboxes' : mailboxes'[n].uid_next <= 2

imInit ==
  /\ Init
  /\ part = (IF mailboxes[inbox].messages = <<>> THEN "names" ELSE "messages")
  /\ part = "messages" => tls

imNext ==
  /\ Next
  /\ part = "messages" => FewNames
  /\ part = "names" => FewMessages
  /\ UNCHANGED part

imSpec == imInit /\ [][imNext]_<<vars, part>>
=============================================================================
