---------------------------- MODULE Subscriptions ----------------------------
(***************************************************************************)
(* Feed subscriptions and hints: crates/kotva-core/src/pubsub.rs.          *)
(*                                                                         *)
(* A holder keeps the ledger of subscriptions it serves (the counting and  *)
(* the memory of revokes are the caller's) and pushes hints; a subscriber  *)
(* limits the hints it takes.  Keys "u" and "d" are a user's identity and  *)
(* device, "e" and "x" those of somebody else.  A signature is symbolic,   *)
(* and may be turned into another valid one over the same body.            *)
(***************************************************************************)
EXTENDS Integers, Sequences, FiniteSets

CONSTANTS MaxActive,               \* SubscribePolicy: both bounds
          MaxPerWindow, Window,    \* HintBudget
          Horizon,                 \* bound on the clock
          MaxHints                 \* bound on the history of hints taken

ASSUME HintAssumption == MaxPerWindow \in Nat /\ Window \in Nat

VARIABLES made,      \* the bodies the user has signed
          quit,      \* the bodies the user has signed a revoke for
          ledger,    \* the holder's subscriptions, by subscription id
          gone,      \* the ids it has been shown a valid revoke for
          byUser,    \* history: the ids whose entry the user's own revoke removed
          budget,    \* HintBudget: [window_start, used]
          taken,     \* history: when hints were taken
          clock

subVars == <<made, quit, ledger, gone, byUser, budget, taken, clock>>

Body == [subscriber : {"u", "e"}, signer : {"u", "d", "e", "x"}, topic : {"t"}, expires : {2}]

Certs  == [ik : {"u", "e"}, device_key : {"d", "x"}]
NoCert == [ik |-> "none", device_key |-> "none"]

\* DeviceCert::verify: each identity certifies its own device.
cert_verify(c) == c \in {[ik |-> "u", device_key |-> "d"], [ik |-> "e", device_key |-> "x"]}

UserKeys == {"u", "d"}

\* Every signed subscription around: the user's own, and whatever the other
\* party signs.  `sig` tells two valid signatures over one body apart.
Signed(b, good) == good = (b.signer \notin UserKeys \/ b \in made)

-----------------------------------------------------------------------------

\* Mutant of subscription_id: the address of the signed object.
subscription_id_signed(b, sig) == <<b, sig>>

\* The id of a subscription is that of its body; `sig` is no part of it.
subscription_id(b, sig) == b

\* verify and verify_with_cert: with no certificate the signer is the subscriber.
verify_with_cert(b, good, c) ==
  /\ good
  /\ \/ b.signer = b.subscriber
     \/ cert_verify(c) /\ c.ik = b.subscriber /\ c.device_key = b.signer

check_active(b) == clock <= b.expires

\* SubscribePolicy::admit, for one more.
admit_subscription(b) ==
  /\ Cardinality({id \in ledger : id[1].topic = b.topic}) + 1 <= MaxActive
  /\ Cardinality({id \in ledger : id[1].subscriber = b.subscriber}) + 1 <= MaxActive

\* A certificate given is tried before the one inside the revoke.
Authorised(rev, target, supplied) ==
  \/ rev.signer = target.subscriber
  \/ LET c == IF supplied # NoCert THEN supplied ELSE rev.device_cert
     IN  cert_verify(c) /\ c.ik = target.subscriber /\ c.device_key = rev.signer

\* Mutant of verify_for: a revoke of the subscriber's is good for all that is his.
verify_for_any(rev, id, supplied) == rev.good /\ Authorised(rev, id[1], supplied)

\* SubscriptionRevoke::verify_for against the target that the holder keeps as `id`:
\* the revoke names its id, is signed as it says, and its signer is the subscriber or
\* a certified device of his.
verify_for(rev, id, supplied) ==
  rev.subscription = id[2] /\ rev.good /\ Authorised(rev, id[1], supplied)

\* Mutant of admit_hint: a window that has ended goes on counting from its start.
admit_hint_slide(b, t) ==
  IF b.used >= MaxPerWindow /\ t - b.window_start < Window THEN <<b, FALSE>>
  ELSE <<[b EXCEPT !.used = @ + 1], TRUE>>

\* HintBudget::admit at the time t, which may lie before the window: the new
\* budget, and whether the hint is taken.
admit_hint(b, t) ==
  LET rolled == IF t >= b.window_start /\ t - b.window_start >= Window
                THEN [window_start |-> t, used |-> 0] ELSE b
  IN  IF rolled.used >= MaxPerWindow THEN <<rolled, FALSE>>
      ELSE <<[rolled EXCEPT !.used = @ + 1], TRUE>>

-----------------------------------------------------------------------------

subInit ==
  /\ made = {} /\ quit = {} /\ ledger = {} /\ gone = {} /\ byUser = {}
  /\ budget = [window_start |-> 0, used |-> 0]
  /\ taken = <<>> /\ clock = 0

\* The user signs a subscription, for itself or on its device.
make(b) ==
  /\ b.subscriber = "u" /\ b.signer \in UserKeys
  /\ made' = made \cup {b}
  /\ UNCHANGED <<quit, ledger, gone, byUser, budget, taken, clock>>

\* The user signs a revoke for it.
withdraw(b) ==
  /\ b \in made
  /\ quit' = quit \cup {b}
  /\ UNCHANGED <<made, ledger, gone, byUser, budget, taken, clock>>

\* The holder is sent a subscription (again, or with another signature).
subscribe(b, sig, c) ==
  LET id == <<b, subscription_id(b, sig)>> IN
  /\ verify_with_cert(b, Signed(b, TRUE), c)
  /\ check_active(b) /\ admit_subscription(b)
  /\ id[2] \notin gone
  /\ ledger' = ledger \cup {id}
  /\ UNCHANGED <<made, quit, gone, byUser, budget, taken, clock>>

\* The holder is sent a revoke made for the body `named` as its subscriber first
\* signed it (sig 1), and applies it to an entry of its ledger; nothing but verify_for
\* says that the two belong together.  A user's signature is on the revokes the user
\* made, each for one body.
unsubscribe(id, named, signer, inner, supplied) ==
  LET rev == [subscription |-> subscription_id(named, 1), signer |-> signer, device_cert |-> inner,
              good |-> signer \notin UserKeys \/ named \in quit]
  IN  /\ id \in ledger
      /\ verify_for(rev, id, supplied)
      /\ gone' = gone \cup {id[2]}
      /\ ledger' = {x \in ledger : x[2] # id[2]}
      /\ byUser' = IF signer \in UserKeys THEN byUser \cup {id[1]} ELSE byUser
      /\ UNCHANGED <<made, quit, budget, taken, clock>>

\* The holder pushes a hint under an entry that is still active, and the
\* subscriber takes it or drops it; the clock of its budget may lag by one.
hint(id, lag) ==
  LET t == IF clock >= lag THEN clock - lag ELSE 0
      r == admit_hint(budget, t)
  IN  /\ id \in ledger /\ check_active(id[1])
      /\ Len(taken) < MaxHints
      /\ budget' = r[1]
      /\ taken' = IF r[2] THEN Append(taken, clock) ELSE taken
      /\ UNCHANGED <<made, quit, ledger, gone, byUser, clock>>

pass ==
  /\ clock < Horizon
  /\ clock' = clock + 1
  /\ UNCHANGED <<made, quit, ledger, gone, byUser, budget, taken>>

subNext ==
  \/ \E b \in Body : make(b) \/ withdraw(b)
  \/ \E b \in Body, sig \in {1, 2}, c \in Certs \cup {NoCert} : subscribe(b, sig, c)
  \/ \E id \in ledger, named \in Body, s \in {"u", "d", "e", "x"}, i, c \in Certs \cup {NoCert} :
       unsubscribe(id, named, s, i, c)
  \/ \E id \in ledger, lag \in {0, 1} : hint(id, lag)
  \/ pass

subSpec == subInit /\ [][subNext]_subVars

-----------------------------------------------------------------------------
(* Properties.                                                             *)

\* Subscriptions end by the user's will, and then for good: each of the user's is
\* withdrawn by the user alone and by a revoke of its own, whichever certificates
\* come with it and whichever subscription it is presented for (verify_for), and
\* once the user's revoke is in, none is served under any copy of it, repeated or
\* with its signature turned into another (subscription_id leaves it out).
SubscriberDecides ==
  /\ \A b \in made : subscription_id(b, 1) \in gone => b \in quit
  /\ \A b \in byUser : \A id \in ledger : id[1] # b

\* No two windows' worth of hints in one window: whatever the moments chosen, at
\* most 2 * MaxPerWindow are taken within Window (HintBudget::admit).
HintBound ==
  \A i \in DOMAIN taken :
    Cardinality({j \in DOMAIN taken : taken[j] >= taken[i] /\ taken[j] - taken[i] < Window})
      <= 2 * MaxPerWindow
=============================================================================
