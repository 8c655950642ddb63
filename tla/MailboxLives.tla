---------------------------- MODULE MailboxLives ----------------------------
(***************************************************************************)
(* What the store promises of its mailboxes to every protocol, names left  *)
(* aside: a set of mailbox lives.  A life begins empty, hands out UIDs     *)
(* upwards from 1, each to one body for good, and stamps every change with *)
(* the next modseq; it ends when its mailbox is deleted.  The life of      *)
(* INBOX, the first one, never ends.  A rename is no step at all.          *)
(*                                                                         *)
(* MailStore implements this specification (MCStore).                      *)
(***************************************************************************)
EXTENDS Naturals

CONSTANT Raws   \* message bodies

VARIABLES
  lives,   \* life -> its state
  born     \* lives begun so far

Empty == [next |-> 1, stamp |-> 1, bodies |-> [u \in {} |-> u]]

Init ==
  /\ lives = [g \in {0} |-> Empty]
  /\ born = 1

Begin ==
  /\ born' = born + 1
  /\ lives' = [g \in DOMAIN lives \cup {born} |-> IF g = born THEN Empty ELSE lives[g]]

End(g) ==
  /\ g # 0
  /\ UNCHANGED born
  /\ DOMAIN lives' # DOMAIN lives
  /\ lives' = [h \in DOMAIN lives \ {g} |-> lives[h]]

\* The states a life can be in after one change, which takes the next stamp.
Delivered(life, raw) ==
  [next   |-> life.next + 1,
   stamp  |-> life.stamp + 1,
   bodies |-> [u \in DOMAIN life.bodies \cup {life.next} |-> IF u = life.next THEN raw ELSE life.bodies[u]]]

Expunged(life, u) ==
  [life EXCEPT !.stamp = @ + 1, !.bodies = [v \in DOMAIN life.bodies \ {u} |-> life.bodies[v]]]

Flagged(life) == [life EXCEPT !.stamp = @ + 1]

Changed(life) ==
  {Delivered(life, raw) : raw \in Raws} \cup {Expunged(life, u) : u \in DOMAIN life.bodies} \cup {Flagged(life)}

\* One life changes and the others do not.
Change ==
  /\ UNCHANGED born
  /\ DOMAIN lives' = DOMAIN lives
  /\ \E g \in DOMAIN lives :
       /\ lives'[g] \in Changed(lives[g])
       /\ lives' = [lives EXCEPT ![g] = lives'[g]]

Next == Begin \/ Change \/ \E g \in DOMAIN lives : End(g)

Spec == Init /\ [][Next]_<<lives, born>>
=============================================================================
