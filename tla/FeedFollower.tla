---------------------------- MODULE FeedFollower ----------------------------
(***************************************************************************)
(* Followers of author feeds: FeedFollower::accept in                      *)
(* crates/kotva-core/src/pubobj.rs, with the chain and anti-rollback rules *)
(* it sequences.                                                           *)
(*                                                                         *)
(* A feed is a log of entries, each naming its predecessor by content      *)
(* address; only the head is signed.  Nothing here assumes that publishers *)
(* or holders are honest: a fetch is any signed head with any sequence of  *)
(* entries, in any order and any number of times.  The content address of  *)
(* an entry, entry_id, is a constant operator of which only injectivity is *)
(* assumed (BLAKE3 without collisions, canonical CBOR).  A signature is a  *)
(* Boolean of the head; times, versions and suites are left out.           *)
(*                                                                         *)
(* Sequence numbers are u64 with the wrapping arithmetic of a release      *)
(* build, MaxSeq standing for u64::MAX.  (A debug build panics where this  *)
(* one wraps; the follower is then as it was.)                             *)
(***************************************************************************)
EXTENDS Naturals, Sequences

CONSTANTS Followers,      \* followers, at different nodes
          publisher,      \* follower -> the identity whose feed it follows
          Entries,        \* the entries anybody may serve
          entry_id(_),    \* their content addresses
          Heads,          \* the heads anybody may serve
          Ranges,         \* the sequences of entries anybody may serve
          MaxSeq,         \* u64::MAX
          None            \* an Option's None

ASSUME FeedAssumption ==
  /\ MaxSeq \in Nat /\ None \notin Nat
  /\ \A e \in Entries : e.seq \in 0 .. MaxSeq
  /\ \A e, g \in Entries : entry_id(e) = entry_id(g) => e = g
  /\ \A e \in Entries : entry_id(e) # None
  /\ \A head \in Heads : head.seq \in 0 .. MaxSeq /\ head.tip # None
  /\ Ranges \subseteq Seq(Entries)

VARIABLES
  last_seq,   \* follower -> the highest seq accepted
  last_tip,   \* follower -> the tip retained there
  accepted,   \* follower -> seq -> the entry_id committed to
  topics      \* ghost: follower -> the topics of the heads it accepted

vars == <<last_seq, last_tip, accepted, topics>>

-----------------------------------------------------------------------------
(* The rules a fetch is held to.                                           *)

Succ(n) == (n + 1) % (MaxSeq + 1)   \* u64 addition, release build

\* Mutant of verify_feed_chain: the positions checked, the links not.
verify_feed_chain_unlinked(entries) ==
  \A i \in DOMAIN entries :
    /\ entries[i].seq = 0 <=> entries[i].prev = None
    /\ i > 1 => entries[i].seq = Succ(entries[i - 1].seq)

verify_feed_chain(entries) ==
  \A i \in DOMAIN entries :
    /\ entries[i].seq = 0 <=> entries[i].prev = None
    /\ i > 1 => /\ entries[i].seq = Succ(entries[i - 1].seq)
                /\ entries[i].prev = entry_id(entries[i - 1])

verify_feed_chain_to_head(entries, head) ==
  /\ verify_feed_chain(entries)
  /\ entries # <<>>
  /\ LET last == entries[Len(entries)]
     IN  last.seq = head.seq /\ entry_id(last) = head.tip

\* Mutant of check_anti_rollback: a head already held counts as stale.
check_anti_rollback_strict(seq, tip, head) ==
  IF head.seq <= seq THEN "FeedRollback" ELSE "AcceptNew"

\* On a position held already another tip is equivocation, never a rollback.
check_anti_rollback(seq, tip, head) ==
  IF head.seq < seq THEN "FeedRollback"
  ELSE IF head.seq > seq THEN "AcceptNew"
  ELSE IF tip # None /\ tip # head.tip THEN "FeedChainBroken"
  ELSE "AcceptIdempotent"

\* FeedHead::verify, after the check that it is this feed's publisher.
Authentic(f, head) == head.publisher = publisher[f] /\ head.valid

decision(f, head) ==
  IF last_seq[f] = None THEN "AcceptNew"
  ELSE check_anti_rollback(last_seq[f], last_tip[f], head)

\* Mutant of Joins: a range may start anywhere above the history.
JoinsAnywhere(f, first) ==
  last_seq[f] # None /\ first.seq = Succ(last_seq[f]) => first.prev = last_tip[f]

\* The range joins the retained history: no gap, and a continuation of it
\* names the retained tip.
Joins(f, first) ==
  last_seq[f] # None =>
    /\ first.seq <= Succ(last_seq[f])
    /\ first.seq = Succ(last_seq[f]) => first.prev # None /\ first.prev = last_tip[f]

\* Mutant of Uncontradicted: the memory not consulted.
UncheckedMemory(f, entries) == TRUE

\* No entry contradicts the one committed to at its position.
Uncontradicted(f, entries) ==
  \A i \in DOMAIN entries :
    entries[i].seq \in DOMAIN accepted[f] => accepted[f][entries[i].seq] = entry_id(entries[i])

\* accept returns Ok.  Without entries only a tip held already is accepted.
Accepts(f, head, entries) ==
  /\ Authentic(f, head)
  /\ decision(f, head) \in {"AcceptNew", "AcceptIdempotent"}
  /\ IF entries = <<>> THEN decision(f, head) # "AcceptNew"
     ELSE /\ verify_feed_chain_to_head(entries, head)
          /\ Joins(f, entries[1])
          /\ Uncontradicted(f, entries)

\* The history with the entries of a range inserted.
Inserted(f, entries) ==
  LET seqs == {entries[i].seq : i \in DOMAIN entries}
  IN  [s \in DOMAIN accepted[f] \cup seqs |->
         IF s \in seqs
         THEN entry_id(entries[CHOOSE i \in DOMAIN entries : entries[i].seq = s])
         ELSE accepted[f][s]]

-----------------------------------------------------------------------------
Init ==
  /\ last_seq = [f \in Followers |-> None]
  /\ last_tip = [f \in Followers |-> None]
  /\ accepted = [f \in Followers |-> <<>>]
  /\ topics = [f \in Followers |-> {}]

\* One fetch, accepted; a refused one changes nothing.
accept(f, head, entries) ==
  /\ Accepts(f, head, entries)
  /\ topics' = [topics EXCEPT ![f] = @ \cup {head.topic}]
  /\ IF entries = <<>> THEN UNCHANGED <<last_seq, last_tip, accepted>>
     ELSE /\ accepted' = [accepted EXCEPT ![f] = Inserted(f, entries)]
          /\ IF last_seq[f] = None \/ head.seq >= last_seq[f]
             THEN /\ last_seq' = [last_seq EXCEPT ![f] = head.seq]
                  /\ last_tip' = [last_tip EXCEPT ![f] = head.tip]
             ELSE UNCHANGED <<last_seq, last_tip>>

Next == \E f \in Followers, head \in Heads, entries \in Ranges : accept(f, head, entries)

Spec == Init /\ [][Next]_vars

-----------------------------------------------------------------------------
(* Properties.                                                             *)

\* The type of a follower.  What it retains of the head it retains of the
\* history too.
TypeOK ==
  \A f \in Followers :
    /\ last_seq[f] \in (0 .. MaxSeq) \cup {None}
    /\ DOMAIN accepted[f] \subseteq 0 .. MaxSeq
    /\ \A s \in DOMAIN accepted[f] : \E e \in Entries : accepted[f][s] = entry_id(e)
    /\ last_seq[f] = None => last_tip[f] = None /\ DOMAIN accepted[f] = {}
    /\ last_seq[f] # None => /\ last_seq[f] \in DOMAIN accepted[f]
                             /\ last_tip[f] = accepted[f][last_seq[f]]

\* The entry with this content address.
EntryOf(id) == CHOOSE e \in Entries : entry_id(e) = id

\* What a follower has accepted, over any number of fetches, is one unbroken
\* stretch of one history: every position up to the last, each entry at its
\* own seq and naming the one before it.
OneHistory ==
  \A f \in Followers : \A s \in DOMAIN accepted[f] :
    /\ s <= last_seq[f]
    /\ EntryOf(accepted[f][s]).seq = s
    /\ s < last_seq[f] => s + 1 \in DOMAIN accepted[f]
    /\ s > 0 /\ s - 1 \in DOMAIN accepted[f]
         => EntryOf(accepted[f][s]).prev = accepted[f][s - 1]

\* Two followers that hold the same entry anywhere hold the same history
\* below it, as far back as both reach: a publisher that showed them different
\* histories cannot bring them together again unseen.
ForksStayApart ==
  \A f, g \in Followers : \A s \in DOMAIN accepted[f] \cap DOMAIN accepted[g] :
    accepted[f][s] = accepted[g][s] =>
      \A r \in DOMAIN accepted[f] \cap DOMAIN accepted[g] :
        r < s => accepted[f][r] = accepted[g][r]

\* A position once accepted keeps its entry, and the last one never goes
\* back: no fetch rolls a follower back or rewrites what it holds.
NeverRewrittenStep ==
  \A f \in Followers :
    /\ \A s \in DOMAIN accepted[f] :
         s \in DOMAIN accepted'[f] /\ accepted'[f][s] = accepted[f][s]
    /\ last_seq[f] # None => last_seq'[f] # None /\ last_seq[f] <= last_seq'[f]

NeverRewritten == [][NeverRewrittenStep]_vars

\* A publisher's honest history, from genesis.
Honest(h) ==
  \A i \in DOMAIN h : h[i].seq = i - 1 /\ h[i].prev = (IF i = 1 THEN None ELSE entry_id(h[i - 1]))

\* A follower of an honest publisher never halts: any part of the history
\* that reaches its last position and leaves no gap is accepted under its
\* head, re-fetches included.  (Up to u64::MAX - 1: at the last position of
\* all `last + 1` wraps and a re-fetch with entries is refused.)
NoFalseAlarm ==
  \A f \in Followers : \A h \in {r \in Ranges : r # <<>> /\ Honest(r)} :
    (\A s \in DOMAIN accepted[f] :
       s + 1 \in DOMAIN h /\ accepted[f][s] = entry_id(h[s + 1])) =>
      \A i, j \in DOMAIN h : \A head \in Heads :
        /\ i <= j /\ Authentic(f, head)
        /\ head.seq = j - 1 /\ head.tip = entry_id(h[j])
        /\ last_seq[f] # None => /\ last_seq[f] < MaxSeq
                                 /\ j - 1 >= last_seq[f] /\ i - 1 <= last_seq[f] + 1
        => Accepts(f, head, SubSeq(h, i, j))

\* What the specification of the reader's state says ("keyed by the pair
\* (pub, topic)"): the heads of one topic never advance the state kept for
\* another.
TopicsApart == \A f \in Followers : \A s, t \in topics[f] : s = t
=============================================================================
