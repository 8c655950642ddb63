------------------------------- MODULE MCStore -------------------------------
(* The store for TLC, in two parts that share its properties: the store     *)
(* under any calls, with INBOX and two names that mailboxes can be created  *)
(* under, renamed between and deleted from; and the store under JMAP        *)
(* requests, with one mailbox beside INBOX and fewer changes.               *)
EXTENDS Jmap, TLC

CONSTANTS inbox, a, b

VARIABLE part   \* the part that is checked: it does not change

MCNames == {inbox, a, b}

\* The bounds of the second part.
Small ==
  /\ nextGen' <= 2
  /\ \A n \in DOMAIN mailboxes' : mailboxes'[n].uid_next <= (IF n = inbox THEN 3 ELSE 2)
  /\ b \in DOMAIN mailboxes' => b \in DOMAIN mailboxes \/ a \in DOMAIN mailboxes
  /\ mailboxes' # mailboxes /\ ~ Destruction =>
       MapThenSumSet(LAMBDA n : mailboxes[n].highest_modseq, DOMAIN mailboxes) < (IF Idle THEN 3 ELSE 4)
  /\ \A c \in SX!Range(call') : SX!Range(c.destroy) \subseteq {<<inbox, 1>>, <<inbox, 2>>, <<a, 1>>}
  /\ UNCHANGED client
  /\ responses # <<>> /\ responses' # <<>> =>
       /\ responses[1].name \in {"Email/query", "Email/changes"}
       /\ call = <<>> => \A c \in SX!Range(call') :
            \E path \in DOMAIN responses[1].args : c.destroy = responses[1].args[path]

storeInit == jInit /\ part \in {"store", "jmap"}

storeNext ==
  /\ \/ part = "store" /\ Others
     \/ part = "jmap" /\ jNext /\ Small
  /\ UNCHANGED part

storeSpec == storeInit /\ [][storeNext]_<<jvars, part>>
=============================================================================
