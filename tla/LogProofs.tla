------------------------------ MODULE LogProofs ------------------------------
(***************************************************************************)
(* What the append-only logs promise, whatever their length: the feeds a   *)
(* follower accepts from holders, honest or not (FeedFollower::accept),    *)
(* the trees that name the parts of a file, and the transparency log, its  *)
(* proofs and the client that checks them.                                 *)
(***************************************************************************)
EXTENDS FeedFollower, KeyTransparency, Manifests, NaturalLemmas, SequenceTheorems, TLAPS

-----------------------------------------------------------------------------
(* Arithmetic and sequences.                                               *)

\* u64 addition away from and at the last value.
LEMMA SuccValue ==
  ASSUME NEW n \in 0 .. MaxSeq
  PROVE  /\ n < MaxSeq => Succ(n) = n + 1
         /\ n = MaxSeq => Succ(n) = 0
<1>1. MaxSeq \in Nat
  BY FeedAssumption
<1>2. ASSUME n < MaxSeq PROVE (n + 1) % (MaxSeq + 1) = n + 1
  BY <1>1, <1>2
<1>3. (MaxSeq + 1) % (MaxSeq + 1) = 0
  BY <1>1
<1>4. QED
  BY <1>2, <1>3 DEF Succ

\* What the assumption says of a served range and of its entries.
LEMMA RangeParts ==
  ASSUME NEW r \in Ranges
  PROVE  /\ r \in Seq(Entries)
         /\ Len(r) \in Nat
         /\ DOMAIN r = 1 .. Len(r)
         /\ \A i \in DOMAIN r : /\ r[i] \in Entries
                                /\ r[i].seq \in 0 .. MaxSeq
                                /\ r[i].seq \in Nat
                                /\ entry_id(r[i]) # None
<1>1. r \in Seq(Entries)
  BY FeedAssumption
<1>2. Len(r) \in Nat /\ DOMAIN r = 1 .. Len(r)
  BY <1>1, LenProperties
<1>3. \A i \in DOMAIN r : r[i] \in Entries
  BY <1>1, <1>2, ElementOfSeq
<1>4. QED
  BY <1>1, <1>2, <1>3, FeedAssumption

\* The entries of a range that chains are at consecutive positions: a
\* position never wraps inside it, for only genesis is at 0 and it has no
\* predecessor.
LEMMA ChainSeqs ==
  ASSUME NEW r \in Ranges, verify_feed_chain(r)
  PROVE  \A i \in DOMAIN r : r[i].seq = r[1].seq + i - 1
<1>1. \A i \in DOMAIN r : i > 1 => r[i].seq = r[i - 1].seq + 1
  <2> SUFFICES ASSUME NEW i \in DOMAIN r, i > 1
               PROVE  r[i].seq = r[i - 1].seq + 1
    OBVIOUS
  <2>1. i \in Nat /\ i - 1 \in DOMAIN r
    BY RangeParts
  <2>2. /\ r[i].seq = Succ(r[i - 1].seq)
        /\ r[i].prev = entry_id(r[i - 1])
        /\ r[i].seq = 0 <=> r[i].prev = None
    BY DEF verify_feed_chain
  <2>3. r[i].seq # 0
    BY <2>1, <2>2, RangeParts
  <2>4. r[i - 1].seq \in 0 .. MaxSeq /\ MaxSeq \in Nat
    BY <2>1, RangeParts, FeedAssumption
  <2>5. QED
    BY <2>2, <2>3, <2>4, SuccValue
<1> DEFINE Bad == {i \in DOMAIN r : r[i].seq # r[1].seq + i - 1}
<1>2. SUFFICES ASSUME Bad # {} PROVE FALSE
  OBVIOUS
<1>3. Bad \subseteq Nat
  BY RangeParts
<1>4. PICK i \in Bad : \A j \in Bad : i <= j
  <2> HIDE DEF Bad
  <2>1. QED
    BY <1>2, <1>3, LeastNatural
<1>5. i \in DOMAIN r /\ i \in Nat /\ i >= 1 /\ r[i].seq # r[1].seq + i - 1
  BY RangeParts
<1>6. 1 \in DOMAIN r /\ r[1].seq \in Nat /\ r[i].seq \in Nat
  BY <1>5, RangeParts
<1>7. i # 1
  BY <1>5, <1>6
<1>8. i - 1 \in DOMAIN r /\ i - 1 \in Nat /\ i > 1
  BY <1>5, <1>7, RangeParts
<1>9. i - 1 \notin Bad
  <2> HIDE DEF Bad
  <2>1. QED
    BY <1>4, <1>5
<1>10. r[i - 1].seq = r[1].seq + (i - 1) - 1
  BY <1>8, <1>9
<1>11. r[i].seq = r[i - 1].seq + 1
  BY <1>1, <1>5, <1>8
<1>12. QED
  BY <1>5, <1>6, <1>8, <1>10, <1>11

\* What insertion of a chained range makes of the history: the positions from
\* the first entry's to the head's hold the range, the others what they held.
LEMMA InsertedValue ==
  ASSUME NEW f \in Followers, NEW r \in Ranges, r # <<>>, verify_feed_chain(r)
  PROVE  LET a == r[1].seq
             b == r[Len(r)].seq
         IN  /\ a \in Nat /\ b \in Nat /\ a <= b /\ b <= MaxSeq
             /\ b = a + Len(r) - 1
             /\ DOMAIN Inserted(f, r) = DOMAIN accepted[f] \cup (a .. b)
             /\ \A s \in a .. b : /\ s - a + 1 \in DOMAIN r
                                  /\ r[s - a + 1].seq = s
                                  /\ Inserted(f, r)[s] = entry_id(r[s - a + 1])
             /\ \A s \in DOMAIN accepted[f] : s \notin a .. b =>
                  Inserted(f, r)[s] = accepted[f][s]
<1> DEFINE a == r[1].seq
           b == r[Len(r)].seq
           n == Len(r)
           seqs == {r[i].seq : i \in DOMAIN r}
<1>1. n \in Nat /\ n >= 1 /\ DOMAIN r = 1 .. n
  <2>1. r \in Seq(Entries) /\ n \in Nat /\ DOMAIN r = 1 .. n
    BY RangeParts
  <2>2. n # 0
    BY <2>1, EmptySeq
  <2>3. QED
    BY <2>1, <2>2
<1>2. 1 \in DOMAIN r /\ n \in DOMAIN r
  BY <1>1
<1>3. a \in Nat /\ b \in Nat /\ b <= MaxSeq /\ MaxSeq \in Nat
  BY <1>2, RangeParts, FeedAssumption
<1>4. \A i \in 1 .. n : r[i].seq = a + i - 1
  BY <1>1, ChainSeqs
<1>5. b = a + n - 1
  BY <1>1, <1>4
<1> HIDE DEF a, b, n
<1>6. a <= b
  BY <1>1, <1>3, <1>5
<1>7. \A s \in a .. b : s - a + 1 \in 1 .. n /\ r[s - a + 1].seq = s
  BY <1>1, <1>3, <1>4, <1>5
<1>8. \A i \in 1 .. n : r[i].seq \in a .. b
  BY <1>1, <1>3, <1>4, <1>5
<1>9. seqs = a .. b
  BY <1>1, <1>7, <1>8
<1>10. \A s \in a .. b : (CHOOSE i \in DOMAIN r : r[i].seq = s) = s - a + 1
  <2> SUFFICES ASSUME NEW s \in a .. b
               PROVE  (CHOOSE i \in DOMAIN r : r[i].seq = s) = s - a + 1
    OBVIOUS
  <2>1. s - a + 1 \in DOMAIN r /\ r[s - a + 1].seq = s
    BY <1>1, <1>7
  <2>2. \A i \in DOMAIN r : r[i].seq = s => i = s - a + 1
    BY <1>1, <1>3, <1>4
  <2>3. QED
    BY <2>1, <2>2
<1>11. Inserted(f, r) = [s \in DOMAIN accepted[f] \cup seqs |->
                          IF s \in seqs
                          THEN entry_id(r[CHOOSE i \in DOMAIN r : r[i].seq = s])
                          ELSE accepted[f][s]]
  BY DEF Inserted
<1> HIDE DEF seqs
<1>12. DOMAIN Inserted(f, r) = DOMAIN accepted[f] \cup (a .. b)
  BY <1>9, <1>11
<1>13. \A s \in a .. b : Inserted(f, r)[s] = entry_id(r[s - a + 1])
  BY <1>9, <1>10, <1>11
<1>14. \A s \in DOMAIN accepted[f] : s \notin a .. b => Inserted(f, r)[s] = accepted[f][s]
  BY <1>9, <1>11
<1>15. QED
  BY <1>1, <1>3, <1>5, <1>6, <1>7, <1>12, <1>13, <1>14 DEF a, b, n

\* A content address has one entry.
LEMMA EntryOfId ==
  ASSUME NEW e \in Entries
  PROVE  EntryOf(entry_id(e)) = e
BY FeedAssumption DEF EntryOf

-----------------------------------------------------------------------------
(* The invariant, for one follower.                                        *)

\* The body of TypeOK, of one follower's state.
Retained(seq, tip, history) ==
  /\ seq \in (0 .. MaxSeq) \cup {None}
  /\ DOMAIN history \subseteq 0 .. MaxSeq
  /\ \A s \in DOMAIN history : \E e \in Entries : history[s] = entry_id(e)
  /\ seq = None => tip = None /\ DOMAIN history = {}
  /\ seq # None => seq \in DOMAIN history /\ tip = history[seq]

\* The body of OneHistory.
Unbroken(seq, history) ==
  \A s \in DOMAIN history :
    /\ s <= seq
    /\ EntryOf(history[s]).seq = s
    /\ s < seq => s + 1 \in DOMAIN history
    /\ s > 0 /\ s - 1 \in DOMAIN history => EntryOf(history[s]).prev = history[s - 1]

Kept(f) == Retained(last_seq[f], last_tip[f], accepted[f]) /\ Unbroken(last_seq[f], accepted[f])

FeedInv ==
  /\ DOMAIN last_seq = Followers /\ DOMAIN last_tip = Followers
  /\ DOMAIN accepted = Followers
  /\ \A f \in Followers : Kept(f)

\* A range that accept lets pass joins the history without a gap, whatever
\* the arithmetic does at u64::MAX, and reaches at least its last position.
LEMMA AcceptedJoins ==
  ASSUME NEW f \in Followers, NEW head \in Heads, NEW r \in Ranges, r # <<>>,
         Kept(f), Accepts(f, head, r), last_seq[f] # None
  PROVE  /\ last_seq[f] \in Nat
         /\ last_seq[f] <= head.seq
         /\ r[1].seq \in Nat
         /\ r[1].seq <= last_seq[f] + 1
         /\ r[1].seq = last_seq[f] + 1 => r[1].prev = accepted[f][last_seq[f]]
<1> DEFINE last == last_seq[f]
           a    == r[1].seq
<1>1. last \in 0 .. MaxSeq /\ MaxSeq \in Nat /\ last_tip[f] = accepted[f][last]
  BY FeedAssumption DEF Kept, Retained
<1>2. head.seq \in Nat /\ decision(f, head) # "FeedRollback"
  BY FeedAssumption DEF Accepts
<1>3. ~ (head.seq < last)
  BY <1>2 DEF decision, check_anti_rollback
<1>4. 1 \in DOMAIN r
  BY RangeParts, EmptySeq
<1>5. a \in 0 .. MaxSeq
  BY <1>4, RangeParts
<1>6. Joins(f, r[1]) /\ verify_feed_chain(r)
  BY DEF Accepts, verify_feed_chain_to_head
<1>7. a <= Succ(last) /\ (a = Succ(last) => r[1].prev # None /\ r[1].prev = last_tip[f])
  BY <1>6 DEF Joins
<1>8. a = 0 => r[1].prev = None
  BY <1>4, <1>6 DEF verify_feed_chain
<1>9. CASE last < MaxSeq
  BY <1>1, <1>2, <1>3, <1>5, <1>7, <1>9, SuccValue
<1>10. CASE last = MaxSeq
  <2>1. Succ(last) = 0
    BY <1>1, <1>10, SuccValue
  <2>2. a = 0
    BY <1>5, <1>7, <2>1
  <2>3. QED
    BY <1>7, <1>8, <2>1, <2>2
<1>11. QED
  BY <1>1, <1>9, <1>10

\* A fetch with entries leaves one unbroken history, which extends the one
\* before it.
LEMMA AcceptKeeps ==
  ASSUME NEW f \in Followers, NEW head \in Heads, NEW r \in Ranges, r # <<>>,
         Kept(f), Accepts(f, head, r)
  PROVE  /\ Retained(head.seq, head.tip, Inserted(f, r))
         /\ Unbroken(head.seq, Inserted(f, r))
         /\ \A s \in DOMAIN accepted[f] :
              s \in DOMAIN Inserted(f, r) /\ Inserted(f, r)[s] = accepted[f][s]
         /\ last_seq[f] # None => last_seq[f] \in Nat /\ last_seq[f] <= head.seq
<1> DEFINE old  == accepted[f]
           new  == Inserted(f, r)
           last == last_seq[f]
           a    == r[1].seq
           b    == r[Len(r)].seq
           E(s) == r[s - a + 1]
<1>1. /\ verify_feed_chain(r) /\ Uncontradicted(f, r)
      /\ b = head.seq /\ entry_id(r[Len(r)]) = head.tip
  BY DEF Accepts, verify_feed_chain_to_head
<1>2. /\ a \in Nat /\ b \in Nat /\ a <= b /\ b <= MaxSeq /\ MaxSeq \in Nat
      /\ b = a + Len(r) - 1 /\ Len(r) \in Nat
      /\ DOMAIN new = DOMAIN old \cup (a .. b)
      /\ \A s \in a .. b : /\ s - a + 1 \in DOMAIN r
                           /\ r[s - a + 1].seq = s
                           /\ new[s] = entry_id(r[s - a + 1])
      /\ \A s \in DOMAIN old : s \notin a .. b => new[s] = old[s]
  BY <1>1, InsertedValue, RangeParts, FeedAssumption
<1>3. /\ DOMAIN old \subseteq 0 .. MaxSeq
      /\ \A s \in DOMAIN old : \E e \in Entries : old[s] = entry_id(e)
      /\ last = None => DOMAIN old = {}
      /\ last # None => last \in DOMAIN old
      /\ Unbroken(last, old)
  BY DEF Kept, Retained
<1>4. last # None => /\ last \in Nat /\ last <= b
                     /\ a <= last + 1
                     /\ a = last + 1 => r[1].prev = old[last]
  BY <1>1, AcceptedJoins
<1>5. \A s \in a .. b : E(s) \in Entries /\ E(s).seq = s
  BY <1>2, RangeParts
<1>6. \A s \in (a .. b) \cap DOMAIN old : old[s] = entry_id(E(s))
  BY <1>1, <1>2 DEF Uncontradicted
<1>7. \A s \in a .. b : s > a => E(s).prev = entry_id(E(s - 1)) /\ s - 1 \in a .. b
  <2> SUFFICES ASSUME NEW s \in a .. b, s > a
               PROVE  E(s).prev = entry_id(E(s - 1)) /\ s - 1 \in a .. b
    OBVIOUS
  <2>1. s \in Nat /\ s - 1 \in a .. b /\ s - a + 1 \in DOMAIN r /\ s - a + 1 > 1
    BY <1>2
  <2>2. r[s - a + 1].prev = entry_id(r[(s - a + 1) - 1])
    BY <1>1, <2>1 DEF verify_feed_chain
  <2>3. (s - a + 1) - 1 = (s - 1) - a + 1
    BY <1>2, <2>1
  <2>4. QED
    BY <2>1, <2>2, <2>3
<1>8. E(a) = r[1] /\ E(b) = r[Len(r)]
  <2>1. a - a + 1 = 1 /\ b - a + 1 = Len(r)
    BY <1>2
  <2>2. QED
    BY <2>1
<1> HIDE DEF old, new, last, a, b, E
<1>9. \A s \in a .. b : new[s] = entry_id(E(s))
  BY <1>2 DEF E
<1>10. \A s \in DOMAIN old : s \in DOMAIN new /\ new[s] = old[s]
  BY <1>2, <1>6, <1>9
<1>11. Retained(b, head.tip, new)
  <2>1. DOMAIN new \subseteq 0 .. MaxSeq /\ b \in 0 .. MaxSeq /\ b \in DOMAIN new
    BY <1>2, <1>3
  <2>2. b # None
    BY <1>2, FeedAssumption
  <2>3. new[b] = head.tip
    BY <1>1, <1>2, <1>8, <1>9
  <2>4. \A s \in DOMAIN new : \E e \in Entries : new[s] = entry_id(e)
    BY <1>2, <1>3, <1>5, <1>9
  <2>5. QED
    BY <2>1, <2>2, <2>3, <2>4 DEF Retained
<1>12. ASSUME NEW s \in DOMAIN new
       PROVE  /\ s \in Nat /\ s <= b
              /\ EntryOf(new[s]).seq = s
              /\ s < b => s + 1 \in DOMAIN new
              /\ s > 0 /\ s - 1 \in DOMAIN new => EntryOf(new[s]).prev = new[s - 1]
  <2>1. CASE s \in a .. b
    <3>1. EntryOf(new[s]) = E(s)
      BY <1>5, <1>9, <2>1, EntryOfId
    <3>2. s \in Nat /\ s <= b /\ (s < b => s + 1 \in DOMAIN new)
      BY <1>2, <2>1
    <3>3. EntryOf(new[s]).seq = s
      BY <1>5, <2>1, <3>1
    <3>4. ASSUME s > 0, s - 1 \in DOMAIN new
          PROVE  E(s).prev = new[s - 1]
      <4>1. CASE s > a
        BY <1>7, <1>9, <2>1, <4>1
      <4>2. CASE s = a
        <5>1. s - 1 \in DOMAIN old /\ new[s - 1] = old[s - 1]
          BY <1>2, <3>4, <4>2
        <5>2. last # None /\ last \in Nat /\ a <= last + 1
          BY <1>3, <1>4, <5>1
        <5>3. CASE a = last + 1
          BY <1>4, <1>8, <4>2, <5>1, <5>2, <5>3
        <5>4. CASE a <= last
          <6>1. s - 1 < last
            BY <1>2, <4>2, <5>2, <5>4
          <6>2. s \in DOMAIN old
            BY <1>2, <1>3, <4>2, <5>1, <6>1 DEF Unbroken
          <6>3. old[s] = new[s]
            BY <1>10, <6>2
          <6>4. EntryOf(old[s]).prev = old[s - 1]
            BY <1>3, <3>4, <5>1, <6>2 DEF Unbroken
          <6>5. QED
            BY <3>1, <5>1, <6>3, <6>4
        <5>5. QED
          BY <1>2, <5>2, <5>3, <5>4
      <4>3. QED
        BY <1>2, <2>1, <4>1, <4>2
    <3>5. QED
      BY <3>1, <3>2, <3>3, <3>4
  <2>2. CASE s \notin a .. b
    <3>1. s \in DOMAIN old /\ s \in Nat /\ new[s] = old[s]
      BY <1>2, <1>3, <2>2
    <3>2. last # None /\ last \in Nat /\ last <= b /\ a <= last + 1
      BY <1>3, <1>4, <3>1
    <3>3. s <= last /\ EntryOf(new[s]).seq = s
      BY <1>3, <3>1 DEF Unbroken
    <3>4. s < a
      BY <1>2, <2>2, <3>1, <3>2, <3>3
    <3>5. s < b => s + 1 \in DOMAIN new
      <4>1. CASE s < last
        BY <1>3, <1>10, <3>1, <4>1 DEF Unbroken
      <4>2. CASE s = last
        BY <1>2, <3>1, <3>2, <3>4, <4>2
      <4>3. QED
        BY <3>1, <3>2, <3>3, <4>1, <4>2
    <3>6. ASSUME s > 0, s - 1 \in DOMAIN new
          PROVE  EntryOf(new[s]).prev = new[s - 1]
      <4>1. s - 1 \in DOMAIN old
        BY <1>2, <3>1, <3>4, <3>6
      <4>2. new[s - 1] = old[s - 1]
        BY <1>10, <4>1
      <4>3. QED
        BY <1>3, <3>1, <3>6, <4>1, <4>2 DEF Unbroken
    <3>7. QED
      BY <1>2, <3>1, <3>2, <3>3, <3>5, <3>6
  <2>3. QED
    BY <2>1, <2>2
<1>13. Unbroken(b, new)
  BY <1>12 DEF Unbroken
<1>14. QED
  BY <1>1, <1>4, <1>10, <1>11, <1>13 DEF old, new, last, b

-----------------------------------------------------------------------------
(* The invariant is inductive.                                             *)

\* FeedFollower::new holds nothing.
LEMMA InitInv == Init => FeedInv
<1> SUFFICES ASSUME Init PROVE FeedInv
  OBVIOUS
<1>1. DOMAIN last_seq = Followers /\ DOMAIN last_tip = Followers /\ DOMAIN accepted = Followers
  BY DEF Init
<1>2. ASSUME NEW f \in Followers PROVE Kept(f)
  <2>1. last_seq[f] = None /\ last_tip[f] = None /\ DOMAIN accepted[f] = {}
    BY DEF Init
  <2>2. QED
    BY <2>1 DEF Kept, Retained, Unbroken
<1>3. QED
  BY <1>1, <1>2 DEF FeedInv

\* One accepted fetch: the follower's own history grows, if it changes at
\* all, and nobody else's changes.
LEMMA AcceptStep ==
  ASSUME FeedInv, NEW f \in Followers, NEW head \in Heads, NEW r \in Ranges,
         accept(f, head, r)
  PROVE  FeedInv' /\ NeverRewrittenStep
<1>1. CASE r = <<>>
  <2>1. UNCHANGED <<last_seq, last_tip, accepted>>
    BY <1>1 DEF accept
  <2>2. FeedInv'
    BY <2>1 DEF FeedInv, Kept
  <2>3. ASSUME NEW g \in Followers, last_seq[g] # None
        PROVE  last_seq[g] \in Nat
    BY <2>3, FeedAssumption DEF FeedInv, Kept, Retained
  <2>4. NeverRewrittenStep
    BY <2>1, <2>3 DEF NeverRewrittenStep
  <2>5. QED
    BY <2>2, <2>4
<1>2. CASE r # <<>>
  <2>1. Kept(f) /\ Accepts(f, head, r)
    BY DEF FeedInv, accept
  <2>2. /\ Retained(head.seq, head.tip, Inserted(f, r))
        /\ Unbroken(head.seq, Inserted(f, r))
        /\ \A s \in DOMAIN accepted[f] :
             s \in DOMAIN Inserted(f, r) /\ Inserted(f, r)[s] = accepted[f][s]
        /\ last_seq[f] # None => last_seq[f] \in Nat /\ last_seq[f] <= head.seq
    BY <1>2, <2>1, AcceptKeeps
  <2>3. head.seq \in Nat /\ head.seq # None
    BY FeedAssumption
  <2>4. last_seq[f] = None \/ head.seq >= last_seq[f]
    BY <2>2, <2>3
  <2>5. /\ accepted' = [accepted EXCEPT ![f] = Inserted(f, r)]
        /\ last_seq' = [last_seq EXCEPT ![f] = head.seq]
        /\ last_tip' = [last_tip EXCEPT ![f] = head.tip]
    BY <1>2, <2>4 DEF accept
  <2>6. /\ DOMAIN last_seq' = Followers /\ DOMAIN last_tip' = Followers
        /\ DOMAIN accepted' = Followers
        /\ last_seq'[f] = head.seq /\ last_tip'[f] = head.tip
        /\ accepted'[f] = Inserted(f, r)
        /\ \A g \in Followers \ {f} : /\ last_seq'[g] = last_seq[g]
                                     /\ last_tip'[g] = last_tip[g]
                                     /\ accepted'[g] = accepted[g]
    BY <2>5 DEF FeedInv
  <2>7. \A g \in Followers \ {f} : Kept(g)'
    BY <2>6 DEF FeedInv, Kept
  <2>8. Kept(f)'
    BY <2>2, <2>6 DEF Kept
  <2>9. FeedInv'
    BY <2>6, <2>7, <2>8 DEF FeedInv
  <2>10. ASSUME NEW g \in Followers \ {f}, last_seq[g] # None
         PROVE  last_seq[g] \in Nat
    BY <2>10, FeedAssumption DEF FeedInv, Kept, Retained
  <2>11. NeverRewrittenStep
    <3>1. ASSUME NEW g \in Followers \ {f}
          PROVE  /\ \A s \in DOMAIN accepted[g] :
                      s \in DOMAIN accepted'[g] /\ accepted'[g][s] = accepted[g][s]
                 /\ last_seq[g] # None => last_seq'[g] # None /\ last_seq[g] <= last_seq'[g]
      BY <2>6, <2>10
    <3>2. /\ \A s \in DOMAIN accepted[f] :
               s \in DOMAIN accepted'[f] /\ accepted'[f][s] = accepted[f][s]
          /\ last_seq[f] # None => last_seq'[f] # None /\ last_seq[f] <= last_seq'[f]
      BY <2>2, <2>3, <2>6
    <3>3. QED
      BY <3>1, <3>2 DEF NeverRewrittenStep
  <2>12. QED
    BY <2>9, <2>11
<1>3. QED
  BY <1>1, <1>2

\* No fetch, accepted or refused, leaves the invariant.
LEMMA NextInv == FeedInv /\ [Next]_vars => FeedInv'
<1> SUFFICES ASSUME FeedInv, [Next]_vars PROVE FeedInv'
  OBVIOUS
<1>1. CASE Next
  BY <1>1, AcceptStep DEF Next
<1>2. CASE UNCHANGED vars
  BY <1>2 DEF vars, FeedInv, Kept
<1>3. QED
  BY <1>1, <1>2

-----------------------------------------------------------------------------
(* The theorems.                                                           *)

\* The inductive invariant of the followers.
THEOREM Invariance == Spec => []FeedInv
BY InitInv, NextInv, PTL DEF Spec

\* A follower's watermark and tip always belong to the history it retains.
THEOREM TypeCorrect == Spec => []TypeOK
<1>1. FeedInv => TypeOK
  BY DEF FeedInv, Kept, Retained, TypeOK
<1>2. QED
  BY <1>1, Invariance, PTL

\* Whatever a publisher and the holders serve, in whatever order, a follower
\* holds an unbroken stretch of one history.
THEOREM HistoryIsOne == Spec => []OneHistory
<1>1. FeedInv => OneHistory
  BY DEF FeedInv, Kept, Unbroken, OneHistory
<1>2. QED
  BY <1>1, Invariance, PTL

\* No fetch rolls a follower back or rewrites what it holds.
THEOREM HistoryIsKept == Spec => NeverRewritten
<1>1. FeedInv /\ [Next]_vars => [NeverRewrittenStep]_vars
  BY AcceptStep DEF Next
<1>2. QED
  BY <1>1, Invariance, PTL DEF Spec, NeverRewritten

\* Every position between two that are held is held.
LEMMA NoGap ==
  ASSUME NEW f \in Followers, Kept(f),
         NEW r \in DOMAIN accepted[f], NEW s \in DOMAIN accepted[f]
  PROVE  r \in Nat /\ s \in Nat /\ \A t \in r .. s : t \in DOMAIN accepted[f]
<1>1. MaxSeq \in Nat /\ DOMAIN accepted[f] \subseteq 0 .. MaxSeq
  BY FeedAssumption DEF Kept, Retained
<1>2. r \in Nat /\ s \in Nat
  BY <1>1
<1>3. last_seq[f] \in Nat
  BY FeedAssumption DEF Kept, Retained
<1> DEFINE Gap == {t \in r .. s : t \notin DOMAIN accepted[f]}
<1>4. SUFFICES ASSUME Gap # {} PROVE FALSE
  BY <1>2
<1>5. Gap \subseteq Nat
  BY <1>2
<1>6. PICK t \in Gap : \A u \in Gap : t <= u
  <2> HIDE DEF Gap
  <2>1. QED
    BY <1>4, <1>5, LeastNatural
<1>7. t \in Nat /\ r < t /\ t < s /\ t \notin DOMAIN accepted[f]
  BY <1>2
<1>8. t - 1 \notin Gap
  <2> HIDE DEF Gap
  <2>1. QED
    BY <1>6, <1>7
<1>9. t - 1 \in DOMAIN accepted[f]
  BY <1>2, <1>7, <1>8
<1>10. t - 1 < last_seq[f]
  BY <1>2, <1>3, <1>7 DEF Kept, Unbroken
<1>11. (t - 1) + 1 \in DOMAIN accepted[f]
  BY <1>9, <1>10 DEF Kept, Unbroken
<1>12. QED
  BY <1>7, <1>11

\* Followers shown different histories never agree on a later entry.
THEOREM ForkConsistency == Spec => []ForksStayApart
<1>1. FeedInv => ForksStayApart
  <2> SUFFICES ASSUME FeedInv, NEW f \in Followers, NEW g \in Followers,
                      NEW s \in DOMAIN accepted[f] \cap DOMAIN accepted[g],
                      accepted[f][s] = accepted[g][s],
                      NEW r \in DOMAIN accepted[f] \cap DOMAIN accepted[g],
                      r < s
               PROVE  accepted[f][r] = accepted[g][r]
    BY DEF ForksStayApart
  <2>1. Kept(f) /\ Kept(g)
    BY DEF FeedInv
  <2>2. /\ r \in Nat /\ s \in Nat
        /\ \A t \in r .. s : t \in DOMAIN accepted[f] /\ t \in DOMAIN accepted[g]
    BY <2>1, NoGap
  <2> DEFINE Agree == {t \in r .. s : accepted[f][t] = accepted[g][t]}
  <2>3. Agree \subseteq Nat /\ Agree # {}
    BY <2>2
  <2>4. PICK t \in Agree : \A u \in Agree : t <= u
    <3> HIDE DEF Agree
    <3>1. QED
      BY <2>3, LeastNatural
  <2>5. t \in r .. s /\ t \in Nat /\ accepted[f][t] = accepted[g][t]
    BY <2>2
  <2>6. CASE t = r
    BY <2>5, <2>6
  <2>7. CASE t > r
    <3>1. t > 0 /\ t - 1 \in r .. s
      BY <2>2, <2>5, <2>7
    <3>2. /\ EntryOf(accepted[f][t]).prev = accepted[f][t - 1]
          /\ EntryOf(accepted[g][t]).prev = accepted[g][t - 1]
      BY <2>1, <2>2, <2>5, <3>1 DEF Kept, Unbroken
    <3>3. t - 1 \in Agree
      BY <2>5, <3>1, <3>2
    <3>4. t <= t - 1
      <4> HIDE DEF Agree
      <4>1. QED
        BY <2>4, <3>3
    <3>5. QED
      BY <2>5, <3>4
  <2>8. QED
    BY <2>2, <2>5, <2>6, <2>7
<1>2. QED
  BY <1>1, Invariance, PTL

\* An honest publisher's history is accepted from any holder, in any part
\* that joins what the follower has.
THEOREM HonestFeedsFlow == Spec => []NoFalseAlarm
<1>1. FeedInv => NoFalseAlarm
  <2> SUFFICES ASSUME FeedInv, NEW f \in Followers, NEW h \in Ranges, h # <<>>, Honest(h),
                      \A s \in DOMAIN accepted[f] :
                        s + 1 \in DOMAIN h /\ accepted[f][s] = entry_id(h[s + 1]),
                      NEW i \in DOMAIN h, NEW j \in DOMAIN h, NEW head \in Heads,
                      i <= j, Authentic(f, head),
                      head.seq = j - 1, head.tip = entry_id(h[j]),
                      last_seq[f] # None => /\ last_seq[f] < MaxSeq
                                            /\ j - 1 >= last_seq[f]
                                            /\ i - 1 <= last_seq[f] + 1
               PROVE  Accepts(f, head, SubSeq(h, i, j))
    BY DEF NoFalseAlarm
  <2> DEFINE e == SubSeq(h, i, j)
             last == last_seq[f]
  <2>1. Kept(f)
    BY DEF FeedInv
  <2>2. /\ h \in Seq(Entries) /\ Len(h) \in Nat /\ DOMAIN h = 1 .. Len(h)
        /\ \A k \in DOMAIN h : h[k].seq \in 0 .. MaxSeq /\ entry_id(h[k]) # None
        /\ i \in Nat /\ j \in Nat /\ i >= 1 /\ j <= Len(h) /\ MaxSeq \in Nat
    BY RangeParts, FeedAssumption
  <2>3. /\ Len(e) = j - i + 1
        /\ DOMAIN e = 1 .. j - i + 1
        /\ \A k \in 1 .. j - i + 1 : e[k] = h[i + k - 1] /\ i + k - 1 \in DOMAIN h
    <3>1. e \in Seq(Entries) /\ Len(e) = j - i + 1
      BY <2>2, SubSeqProperties
    <3>2. \A k \in 1 .. j - i + 1 : e[k] = h[i + k - 1]
      BY <2>2, SubSeqProperties
    <3>3. QED
      BY <2>2, <3>1, <3>2, LenProperties
  <2> HIDE DEF e
  <2>4. \A k \in DOMAIN h : /\ h[k].seq = k - 1
                            /\ k > 1 => h[k].prev = entry_id(h[k - 1]) /\ k - 1 \in DOMAIN h
                            /\ k = 1 => h[k].prev = None
    BY <2>2 DEF Honest
  <2>5. verify_feed_chain(e)
    <3> SUFFICES ASSUME NEW k \in 1 .. j - i + 1
                 PROVE  /\ e[k].seq = 0 <=> e[k].prev = None
                        /\ k > 1 => /\ e[k].seq = Succ(e[k - 1].seq)
                                    /\ e[k].prev = entry_id(e[k - 1])
      BY <2>3 DEF verify_feed_chain
    <3> DEFINE n == i + k - 1
    <3>1. n \in DOMAIN h /\ n \in Nat /\ e[k] = h[n]
      BY <2>2, <2>3
    <3> HIDE DEF n
    <3>2. h[n].seq = n - 1 /\ (n - 1 = 0 <=> h[n].prev = None)
      <4>1. h[n].seq = n - 1
        BY <2>4, <3>1
      <4>2. CASE n = 1
        BY <2>4, <3>1, <4>1, <4>2
      <4>3. CASE n > 1
        BY <2>2, <2>4, <3>1, <4>1, <4>3
      <4>4. QED
        BY <2>2, <3>1, <4>1, <4>2, <4>3
    <3>3. ASSUME k > 1
          PROVE  h[n].seq = Succ(e[k - 1].seq) /\ h[n].prev = entry_id(e[k - 1])
      <4>1. k - 1 \in 1 .. j - i + 1 /\ i + (k - 1) - 1 = n - 1 /\ n > 1
        BY <2>2, <3>3 DEF n
      <4>2. e[k - 1] = h[n - 1] /\ n - 1 \in DOMAIN h
        BY <2>3, <4>1
      <4>3. h[n].prev = entry_id(h[n - 1])
        BY <2>4, <3>1, <4>1
      <4>4. h[n - 1].seq = (n - 1) - 1
        BY <2>4, <4>2
      <4>5. n - 1 \in 0 .. MaxSeq /\ (n - 1) - 1 \in 0 .. MaxSeq
        <5>1. h[n].seq \in 0 .. MaxSeq /\ h[n - 1].seq \in 0 .. MaxSeq
          BY <2>2, <3>1, <4>2
        <5>2. QED
          BY <3>2, <4>4, <5>1
      <4>6. Succ((n - 1) - 1) = n - 1
        BY <2>2, <3>1, <4>5, SuccValue
      <4>7. QED
        BY <3>2, <4>2, <4>3, <4>4, <4>6
    <3>4. QED
      BY <3>1, <3>2, <3>3
  <2>6. e # <<>> /\ 1 \in DOMAIN e /\ e[1] = h[i] /\ e[Len(e)] = h[j]
    <3>1. 1 \in 1 .. j - i + 1 /\ j - i + 1 \in 1 .. j - i + 1
      BY <2>2
    <3>2. i + 1 - 1 = i /\ i + (j - i + 1) - 1 = j
      BY <2>2
    <3>3. QED
      BY <2>3, <3>1, <3>2
  <2>7. verify_feed_chain_to_head(e, head)
    BY <2>4, <2>5, <2>6 DEF verify_feed_chain_to_head
  <2>8. last # None => /\ last \in Nat /\ last < MaxSeq
                       /\ last + 1 \in DOMAIN h
                       /\ last_tip[f] = entry_id(h[last + 1])
    BY <2>1, <2>2 DEF Kept, Retained
  <2>9. decision(f, head) \in {"AcceptNew", "AcceptIdempotent"}
    <3>1. CASE last = None
      BY <3>1 DEF decision
    <3>2. CASE last # None
      <4>1. ~ (head.seq < last) /\ head.seq \in Nat
        BY <2>2, <2>8, <3>2
      <4>2. head.seq = last => last_tip[f] = head.tip
        BY <2>2, <2>8, <3>2
      <4>3. QED
        BY <2>8, <3>2, <4>1, <4>2 DEF decision, check_anti_rollback
    <3>3. QED
      BY <3>1, <3>2
  <2>10. Joins(f, e[1])
    <3> SUFFICES ASSUME last # None
                 PROVE  /\ h[i].seq <= Succ(last)
                        /\ h[i].seq = Succ(last) => h[i].prev # None /\ h[i].prev = last_tip[f]
      BY <2>6 DEF Joins
    <3>1. Succ(last) = last + 1
      BY <2>2, <2>8, SuccValue
    <3>2. h[i].seq = i - 1 /\ i - 1 <= last + 1
      BY <2>4
    <3>3. ASSUME i - 1 = last + 1
          PROVE  h[i].prev # None /\ h[i].prev = last_tip[f]
      <4>1. i > 1 /\ i - 1 \in DOMAIN h
        BY <2>2, <2>8, <3>3
      <4>2. h[i].prev = entry_id(h[i - 1])
        BY <2>4, <4>1
      <4>3. QED
        BY <2>2, <2>8, <3>3, <4>1, <4>2
    <3>4. QED
      BY <3>1, <3>2, <3>3
  <2>11. Uncontradicted(f, e)
    <3> SUFFICES ASSUME NEW k \in DOMAIN e, e[k].seq \in DOMAIN accepted[f]
                 PROVE  accepted[f][e[k].seq] = entry_id(e[k])
      BY DEF Uncontradicted
    <3>1. e[k] = h[i + k - 1] /\ i + k - 1 \in DOMAIN h /\ k \in Nat
      BY <2>2, <2>3
    <3>2. e[k].seq = i + k - 1 - 1
      <4> DEFINE n == i + k - 1
      <4> HIDE DEF n
      <4>1. e[k] = h[n] /\ n \in DOMAIN h
        BY <3>1 DEF n
      <4>2. h[n].seq = n - 1
        BY <2>4, <4>1
      <4>3. e[k].seq = n - 1
        BY <4>1, <4>2
      <4>4. QED
        BY <2>2, <3>1, <4>3 DEF n
    <3>3. e[k].seq + 1 = i + k - 1
      BY <2>2, <3>1, <3>2
    <3>4. QED
      BY <3>1, <3>3
  <2>12. Accepts(f, head, e)
    BY <2>6, <2>7, <2>9, <2>10, <2>11 DEF Accepts
  <2>13. QED
    BY <2>12 DEF e
<1>2. QED
  BY <1>1, Invariance, PTL

-----------------------------------------------------------------------------
(* The loops.                                                              *)

\* What round i of the loop c makes of v.
Turn(c, i, v) ==
  CASE c.loop = "split"  -> doubled(v, c.n)
    [] c.loop = "audit"  -> to_leaf(c.of, v, c.m)
    [] c.loop = "proof"  -> to_edge(c.of, v, c.m)
    [] c.loop = "climb"  -> past_left(v)
    [] c.loop = "shared" -> past_right(v)
    [] c.loop = "fold"   -> folded(v, c.path[i])
    [] c.loop = "rise"   -> risen(c.path, v)
    [] c.loop = "double" -> 2 * v
    [] c.loop = "halve"  -> v \div 2
    [] c.loop = "count"  -> v + c.of[i]

Turns(g, c, base, N) == g = [i \in 0 .. N |-> IF i = 0 THEN base ELSE Turn(c, i, g[i - 1])]

\* Every one of them has a history, however many its rounds.
LEMMA LoopTurns ==
  ASSUME NEW c, NEW base, NEW N \in Nat
  PROVE  \E g : Turns(g, c, base, N)
<1> DEFINE Upto(k) == \E g : Turns(g, c, base, k)
           T == {k \in Nat : ~ Upto(k)}
<1>1. Upto(0)
  <2> DEFINE g == [i \in 0 .. 0 |-> base]
  <2>1. Turns(g, c, base, 0)
    BY DEF Turns
  <2>2. QED
    BY <2>1
<1>2. ASSUME NEW k \in Nat, k # 0, Upto(k - 1) PROVE Upto(k)
  <2>1. PICK g : Turns(g, c, base, k - 1)
    BY <1>2
  <2> DEFINE v == Turn(c, k, g[k - 1])
             h == [i \in 0 .. k |-> IF i = k THEN v ELSE g[i]]
  <2>2. \A i \in 0 .. k - 1 : h[i] = g[i]
    BY <1>2
  <2>3. h[k] = v
    BY <1>2
  <2>4. \A i \in 0 .. k - 1 : g[i] = IF i = 0 THEN base ELSE Turn(c, i, g[i - 1])
    BY <2>1 DEF Turns
  <2>5. ASSUME NEW i \in 0 .. k PROVE h[i] = IF i = 0 THEN base ELSE Turn(c, i, h[i - 1])
    <3>1. CASE i = k
      <4>1. h[i - 1] = g[k - 1]
        BY <1>2, <2>2, <3>1
      <4>2. QED
        BY <1>2, <2>3, <3>1, <4>1
    <3>2. CASE i # k
      <4>1. i \in 0 .. k - 1
        BY <3>2
      <4>2. i # 0 => h[i - 1] = g[i - 1]
        BY <2>2, <4>1
      <4>3. QED
        BY <2>2, <2>4, <4>1, <4>2
    <3>3. QED
      BY <3>1, <3>2
  <2>6. h = [i \in 0 .. k |-> h[i]]
    OBVIOUS
  <2> HIDE DEF h
  <2>7. Turns(h, c, base, k)
    BY <2>5, <2>6 DEF Turns
  <2>8. QED
    BY <2>7
<1> HIDE DEF Upto
<1>3. ASSUME T # {} PROVE FALSE
  <2>1. PICK k \in T : \A y \in T : k <= y
    <3>1. T \subseteq Nat
      OBVIOUS
    <3> HIDE DEF T
    <3>2. QED
      BY <1>3, <3>1, LeastNatural
  <2>2. k # 0 /\ k - 1 \in Nat /\ ~ (k <= k - 1)
    BY <1>1
  <2>3. QED
    BY <1>2, <2>1, <2>2
<1>4. QED
  BY <1>3 DEF Upto

\* Its rounds, one by one.
LEMMA TurnByTurn ==
  ASSUME NEW c, NEW base, NEW N \in Nat, NEW g, Turns(g, c, base, N)
  PROVE  g[0] = base /\ \A i \in 1 .. N : g[i] = Turn(c, i, g[i - 1])
<1>1. \A i \in 0 .. N : g[i] = IF i = 0 THEN base ELSE Turn(c, i, g[i - 1])
  BY DEF Turns
<1>2. 0 \in 0 .. N
  OBVIOUS
<1>3. QED
  BY <1>1, <1>2

-----------------------------------------------------------------------------
(* Powers of two and halves.                                               *)

Powers(p, L) == p \in [0 .. L -> Nat] /\ p[0] = 1 /\ \A l \in 1 .. L : p[l] = 2 * p[l - 1]

Halves(h, x, L) == h \in [0 .. L -> Nat] /\ h[0] = x /\ \A l \in 1 .. L : h[l] = h[l - 1] \div 2

\* There are as many powers as one asks for.
LEMMA PowersExist == ASSUME NEW L \in Nat PROVE \E p : Powers(p, L)
<1> DEFINE c == [loop |-> "double"]
<1>1. PICK g : Turns(g, c, 1, L)
  BY LoopTurns
<1>2. g[0] = 1 /\ \A i \in 1 .. L : g[i] = Turn(c, i, g[i - 1])
  BY <1>1, TurnByTurn
<1>3. g[0] = 1 /\ \A i \in 1 .. L : g[i] = 2 * g[i - 1]
  BY <1>2 DEF Turn
<1>4. g = [i \in 0 .. L |-> g[i]]
  BY <1>1 DEF Turns
<1> DEFINE T == {i \in 0 .. L : g[i] \in Nat}
<1>5. \A l \in 0 .. L : l \in T
  <2>1. 0 \in T
    BY <1>3
  <2>2. \A l \in 1 .. L : l - 1 \in T => l \in T
    BY <1>3
  <2> HIDE DEF T
  <2>3. QED
    BY <2>1, <2>2, UpFromZero
<1>6. g \in [0 .. L -> Nat]
  BY <1>4, <1>5
<1>7. QED
  BY <1>3, <1>6 DEF Powers

\* And halves, of every number.
LEMMA HalvesExist == ASSUME NEW L \in Nat, NEW x \in Nat PROVE \E h : Halves(h, x, L)
<1> DEFINE c == [loop |-> "halve"]
<1>1. PICK g : Turns(g, c, x, L)
  BY LoopTurns
<1>2. g[0] = x /\ \A i \in 1 .. L : g[i] = Turn(c, i, g[i - 1])
  BY <1>1, TurnByTurn
<1>3. g[0] = x /\ \A i \in 1 .. L : g[i] = g[i - 1] \div 2
  BY <1>2 DEF Turn
<1>4. g = [i \in 0 .. L |-> g[i]]
  BY <1>1 DEF Turns
<1> DEFINE T == {i \in 0 .. L : g[i] \in Nat}
<1>5. \A l \in 0 .. L : l \in T
  <2>1. 0 \in T
    BY <1>3
  <2>2. \A l \in 1 .. L : l - 1 \in T => l \in T
    BY <1>3
  <2> HIDE DEF T
  <2>3. QED
    BY <2>1, <2>2, UpFromZero
<1>6. g \in [0 .. L -> Nat]
  BY <1>4, <1>5
<1>7. QED
  BY <1>3, <1>6 DEF Halves

\* The powers grow beyond every number.
LEMMA PowersGrow ==
  ASSUME NEW L \in Nat, NEW p, Powers(p, L)
  PROVE  \A l \in 0 .. L : p[l] \in Nat /\ p[l] >= l + 1
<1> DEFINE T == {l \in 0 .. L : p[l] >= l + 1}
<1>1. p \in [0 .. L -> Nat] /\ p[0] = 1 /\ \A l \in 1 .. L : p[l] = 2 * p[l - 1]
  BY DEF Powers
<1>2. 0 \in T
  BY <1>1
<1>3. ASSUME NEW l \in 1 .. L, l - 1 \in T PROVE l \in T
  <2>1. p[l - 1] \in Nat /\ p[l - 1] >= l /\ p[l] = 2 * p[l - 1]
    BY <1>1, <1>3
  <2>2. QED
    BY <2>1
<1> HIDE DEF T
<1>4. \A l \in 0 .. L : l \in T
  BY <1>2, <1>3, UpFromZero
<1>5. QED
  BY <1>1, <1>4 DEF T

\* The products of a node's number with the size of its level.
LEMMA Products ==
  ASSUME NEW i \in Nat, NEW q \in Nat
  PROVE  /\ i * q \in Nat /\ (2 * i) * q = i * (2 * q) /\ (2 * i + 1) * q = i * (2 * q) + q
         /\ (i + 1) * q = i * q + q
<1>1. i * q \in Nat
  OBVIOUS
<1>2. (2 * i) * q = i * (2 * q)
  OBVIOUS
<1>3. (i + 1) * q = i * q + q
  OBVIOUS
<1>4. (2 * i + 1) * q = i * (2 * q) + q
  <2>1. PICK j \in Nat : j = 2 * i
    OBVIOUS
  <2>2. (j + 1) * q = j * q + q
    OBVIOUS
  <2>3. QED
    BY <1>2, <2>1, <2>2
<1>5. QED
  BY <1>1, <1>2, <1>3, <1>4, Zenon

\* A product grows with its factor.
LEMMA ProductsGrow ==
  ASSUME NEW i \in Nat, NEW j \in Nat, NEW q \in Nat, i <= j
  PROVE  i * q <= j * q
<1>1. PICK d \in Nat : j = i + d
  <2>1. j - i \in Nat /\ j = i + (j - i)
    OBVIOUS
  <2>2. QED
    BY <2>1
<1>2. j * q = i * q + d * q /\ d * q \in Nat /\ i * q \in Nat
  BY <1>1
<1>3. QED
  BY <1>2

\* A number is twice its half, and one more if it is odd.
LEMMA Halved ==
  ASSUME NEW x \in Nat
  PROVE  x \div 2 \in Nat /\ x % 2 \in {0, 1} /\ x = 2 * (x \div 2) + (x % 2)
<1>1. x \div 2 \in Nat
  OBVIOUS
<1>2. x % 2 \in 0 .. 1
  OBVIOUS
<1>3. x = 2 * (x \div 2) + (x % 2)
  OBVIOUS
<1>4. QED
  BY <1>1, <1>2, <1>3

\* After l halvings a number is between the multiples of the l-th power that
\* what is left of it counts.
LEMMA Within ==
  ASSUME NEW L \in Nat, NEW p, Powers(p, L), NEW x \in Nat, NEW h, Halves(h, x, L)
  PROVE  \A l \in 0 .. L : /\ h[l] \in Nat /\ h[l] * p[l] \in Nat
                           /\ h[l] * p[l] <= x /\ x < h[l] * p[l] + p[l]
<1> DEFINE In(l) == h[l] * p[l] <= x /\ x < h[l] * p[l] + p[l]
           T == {l \in 0 .. L : In(l)}
<1>1. p \in [0 .. L -> Nat] /\ p[0] = 1 /\ \A l \in 1 .. L : p[l] = 2 * p[l - 1]
  BY DEF Powers
<1>2. h \in [0 .. L -> Nat] /\ h[0] = x /\ \A l \in 1 .. L : h[l] = h[l - 1] \div 2
  BY DEF Halves
<1>3. 0 \in T
  BY <1>1, <1>2
<1>4. ASSUME NEW l \in 1 .. L, l - 1 \in T PROVE l \in T
  <2>1. PICK a, b, q : a = h[l - 1] /\ b = h[l] /\ q = p[l - 1]
    OBVIOUS
  <2>2. a \in Nat /\ b \in Nat /\ q \in Nat /\ b = a \div 2 /\ p[l] = 2 * q
    BY <1>1, <1>2, <2>1
  <2>3. a * q <= x /\ x < a * q + q
    BY <1>4, <2>1
  <2>4. a = 2 * b \/ a = 2 * b + 1
    BY <2>2, Halved
  <2>5. b * (2 * q) \in Nat /\ (2 * b) * q = b * (2 * q) /\ (2 * b + 1) * q = b * (2 * q) + q
    BY <2>2, Products
  <2>6. a * q = b * (2 * q) \/ a * q = b * (2 * q) + q
    BY <2>4, <2>5
  <2>7. PICK t, u : t = a * q /\ u = b * (2 * q)
    OBVIOUS
  <2>8. t \in Nat /\ u \in Nat
    BY <2>2, <2>5, <2>7, Products
  <2>9. u <= x /\ x < u + 2 * q
    BY <2>2, <2>3, <2>6, <2>7, <2>8
  <2>10. In(l)
    BY <2>1, <2>2, <2>7, <2>9
  <2>11. QED
    BY <2>10
<1> HIDE DEF T
<1>5. \A l \in 0 .. L : l \in T
  BY <1>3, <1>4, UpFromZero
<1>6. \A l \in 0 .. L : h[l] * p[l] \in Nat
  BY <1>1, <1>2, Products
<1>7. QED
  BY <1>2, <1>5, <1>6 DEF T

-----------------------------------------------------------------------------
(* The tree.                                                               *)

Splits(k, n) == k = [i \in 0 .. n |-> IF i = 0 THEN 1 ELSE doubled(k[i - 1], n)]

\* The loop of split_point.
LEMMA SplitTurns ==
  ASSUME NEW n \in Nat
  PROVE  \E k : /\ k[0] = 1 /\ split_point(n) = k[n]
                /\ \A i \in 1 .. n : k[i] = doubled(k[i - 1], n)
<1> DEFINE c == [loop |-> "split", n |-> n]
           k == CHOOSE g : Splits(g, n)
<1>1. PICK g : Turns(g, c, 1, n)
  BY LoopTurns
<1>2. g = [i \in 0 .. n |-> IF i = 0 THEN 1 ELSE Turn(c, i, g[i - 1])]
  BY <1>1 DEF Turns
<1>3. \A i : Turn(c, i, g[i - 1]) = doubled(g[i - 1], n)
  BY DEF Turn
<1>4. Splits(g, n)
  BY <1>2, <1>3 DEF Splits
<1>5. Splits(k, n)
  BY <1>4
<1>6. split_point(n) = k[n]
  BY Zenon DEF split_point, Splits
<1> HIDE DEF k
<1>7. \A i \in 0 .. n : k[i] = IF i = 0 THEN 1 ELSE doubled(k[i - 1], n)
  BY <1>5 DEF Splits
<1>8. 0 \in 0 .. n
  OBVIOUS
<1>9. k[0] = 1 /\ \A i \in 1 .. n : k[i] = doubled(k[i - 1], n)
  BY <1>7, <1>8
<1>10. QED
  BY <1>6, <1>9

\* Both halves have leaves.
LEMMA SplitInside ==
  ASSUME NEW n \in Nat, n >= 2
  PROVE  split_point(n) \in 1 .. n - 1
<1>1. PICK k : /\ k[0] = 1 /\ split_point(n) = k[n]
               /\ \A i \in 1 .. n : k[i] = doubled(k[i - 1], n)
  BY SplitTurns
<1> DEFINE T == {i \in 0 .. n : k[i] \in 1 .. n - 1}
<1>2. 0 \in T
  BY <1>1
<1>3. ASSUME NEW i \in 1 .. n, i - 1 \in T PROVE i \in T
  BY <1>1, <1>3 DEF doubled
<1> HIDE DEF T
<1>4. \A i \in 0 .. n : i \in T
  BY <1>2, <1>3, UpFromZero
<1>5. QED
  BY <1>1, <1>4 DEF T

\* The larger half is a power of two, the one the size falls behind.
LEMMA SplitIsPower ==
  ASSUME NEW L \in Nat, NEW p, Powers(p, L), NEW l \in 0 .. L, NEW n \in Nat,
         p[l] < n, n <= 2 * p[l]
  PROVE  split_point(n) = p[l]
<1>1. PICK k : /\ k[0] = 1 /\ split_point(n) = k[n]
               /\ \A i \in 1 .. n : k[i] = doubled(k[i - 1], n)
  BY SplitTurns
<1>2. p \in [0 .. L -> Nat] /\ p[0] = 1 /\ \A i \in 1 .. L : p[i] = 2 * p[i - 1]
  BY DEF Powers
<1>3. \A i \in 0 .. L : p[i] \in Nat /\ p[i] >= i + 1
  BY PowersGrow
<1>4. l < n
  BY <1>3
<1> DEFINE M == {i \in 0 .. l : p[i] <= p[l]}
<1>5. \A i \in 0 .. l : i \in M
  <2>1. l \in M
    BY <1>3
  <2>2. ASSUME NEW i \in 0 .. l - 1, i + 1 \in M PROVE i \in M
    <3>1. i + 1 \in 1 .. L /\ i \in 0 .. L /\ (i + 1) - 1 = i
      OBVIOUS
    <3>2. p[i + 1] = 2 * p[i] /\ p[i] \in Nat /\ p[l] \in Nat
      BY <1>2, <1>3, <3>1
    <3>3. p[i] <= p[l]
      BY <2>2, <3>2
    <3>4. QED
      BY <3>3
  <2> HIDE DEF M
  <2>3. QED
    BY <2>1, <2>2, DownFrom
<1> DEFINE T == {i \in 0 .. n : k[i] = IF i <= l THEN p[i] ELSE p[l]}
<1>6. 0 \in T
  BY <1>1, <1>2
<1>7. ASSUME NEW i \in 1 .. n, i - 1 \in T PROVE i \in T
  <2>1. k[i] = doubled(k[i - 1], n)
    BY <1>1
  <2>2. CASE i <= l
    <3>1. i - 1 \in 0 .. L /\ i \in 1 .. L /\ i \in 0 .. l
      BY <2>2
    <3>2. k[i - 1] = p[i - 1] /\ p[i] = 2 * p[i - 1] /\ p[i] \in Nat /\ p[i] <= p[l]
      BY <1>2, <1>3, <1>5, <1>7, <2>2, <3>1
    <3>3. 2 * k[i - 1] < n
      BY <1>3, <3>2
    <3>4. QED
      BY <2>1, <2>2, <3>2, <3>3 DEF doubled
  <2>3. CASE ~ (i <= l)
    <3>1. k[i - 1] = p[l]
      BY <1>7, <2>3
    <3>2. QED
      BY <1>3, <2>1, <2>3, <3>1 DEF doubled
  <2>4. QED
    BY <2>2, <2>3
<1> HIDE DEF T
<1>8. \A i \in 0 .. n : i \in T
  BY <1>6, <1>7, UpFromZero
<1>9. QED
  BY <1>1, <1>4, <1>8 DEF T

IsHeads(of, ds, leaves) ==
  of = [n \in 1 .. Len(leaves) |->
         [lo \in 0 .. Len(leaves) - n |->
           IF n = 1 THEN leaves[lo + 1]
           ELSE LET k == split_point(n)
                IN  node(ds, of[k][lo], of[n - k][lo + k])]]

\* The row of n in the table of heads, from the rows before.
Row(of, ds, leaves, n) ==
  [lo \in 0 .. Len(leaves) - n |->
    IF n = 1 THEN leaves[lo + 1] ELSE node(ds, of[split_point(n)][lo], of[n - split_point(n)][lo + split_point(n)])]

\* Rows that agree before n give the same row n.
LEMMA RowFromBefore ==
  ASSUME NEW ds, NEW leaves, NEW n \in Nat, n >= 1, NEW g, NEW h, \A i \in 1 .. n - 1 : g[i] = h[i]
  PROVE  Row(g, ds, leaves, n) = Row(h, ds, leaves, n)
<1>1. CASE n = 1
  BY <1>1 DEF Row
<1>2. CASE n # 1
  <2>1. PICK k : k = split_point(n)
    OBVIOUS
  <2>2. k \in 1 .. n - 1
    BY <1>2, <2>1, SplitInside
  <2>3. n - k \in 1 .. n - 1
    BY <2>2
  <2>4. g[k] = h[k] /\ g[n - k] = h[n - k]
    BY <2>2, <2>3
  <2>5. QED
    BY <1>2, <2>1, <2>4 DEF Row
<1>3. QED
  BY <1>1, <1>2

\* The table exists, although every row is made of earlier ones.
LEMMA HeadsExist ==
  ASSUME NEW ds, NEW leaves, Len(leaves) \in Nat
  PROVE  \E of : IsHeads(of, ds, leaves)
<1> DEFINE N == Len(leaves)
           Ok(g, k) == g = [n \in 1 .. k |-> Row(g, ds, leaves, n)]
           T == {k \in 0 .. N : \E g : Ok(g, k)}
<1>1. 0 \in T
  <2> DEFINE g == [n \in 1 .. 0 |-> 0]
  <2>1. Ok(g, 0)
    <3>1. 1 .. 0 = {}
      OBVIOUS
    <3>2. QED
      BY <3>1
  <2> HIDE DEF g, Ok
  <2>2. \E x : Ok(x, 0)
    BY <2>1
  <2>3. 0 \in 0 .. N
    OBVIOUS
  <2>4. QED
    BY <2>2, <2>3
<1>2. ASSUME NEW k \in 1 .. N, k - 1 \in T PROVE k \in T
  <2>1. PICK g : Ok(g, k - 1)
    BY <1>2
  <2> DEFINE v == Row(g, ds, leaves, k)
             h == [n \in 1 .. k |-> IF n = k THEN v ELSE g[n]]
  <2>2. \A n \in 1 .. k - 1 : h[n] = g[n]
    OBVIOUS
  <2>3. h[k] = v
    OBVIOUS
  <2>4. \A n \in 1 .. k - 1 : g[n] = Row(g, ds, leaves, n)
    BY <2>1
  <2>5. h = [n \in 1 .. k |-> h[n]]
    OBVIOUS
  <2> HIDE DEF h
  <2>6. ASSUME NEW n \in 1 .. k PROVE h[n] = Row(h, ds, leaves, n)
    <3>1. \A i \in 1 .. n - 1 : g[i] = h[i]
      BY <2>2
    <3>2. Row(g, ds, leaves, n) = Row(h, ds, leaves, n)
      BY <3>1, RowFromBefore
    <3>3. h[n] = Row(g, ds, leaves, n)
      <4>1. CASE n = k
        BY <2>3, <4>1
      <4>2. CASE n # k
        BY <2>2, <2>4, <4>2
      <4>3. QED
        BY <4>1, <4>2
    <3>4. QED
      BY <3>2, <3>3
  <2>7. Ok(h, k)
    BY <2>5, <2>6
  <2>8. QED
    BY <2>7
<1> HIDE DEF T
<1>3. \A k \in 0 .. N : k \in T
  BY <1>1, <1>2, UpFromZero
<1>4. PICK g : Ok(g, N)
  BY <1>3 DEF T
<1>5. IsHeads(g, ds, leaves)
  BY <1>4 DEF IsHeads, Row
<1>6. QED
  BY <1>5

\* What the table holds.
Table(of, ds, leaves) ==
  /\ \A lo \in 0 .. Len(leaves) - 1 : of[1][lo] = leaves[lo + 1]
  /\ \A n \in 2 .. Len(leaves) : \A lo \in 0 .. Len(leaves) - n :
       of[n][lo] = node(ds, of[split_point(n)][lo], of[n - split_point(n)][lo + split_point(n)])

\* And heads is that table, for every list of leaves.
LEMMA HeadsTable ==
  ASSUME NEW ds, NEW leaves, Len(leaves) \in Nat
  PROVE  Table(heads(ds, leaves), ds, leaves)
<1> DEFINE of == CHOOSE g : IsHeads(g, ds, leaves)
<1>1. IsHeads(of, ds, leaves)
  BY HeadsExist
<1>2. heads(ds, leaves) = of
  BY Zenon DEF heads, IsHeads
<1> HIDE DEF of
<1>3. ASSUME NEW n \in 1 .. Len(leaves), NEW lo \in 0 .. Len(leaves) - n
      PROVE  of[n][lo] = IF n = 1 THEN leaves[lo + 1]
                         ELSE node(ds, of[split_point(n)][lo], of[n - split_point(n)][lo + split_point(n)])
  <2>1. of = [x \in 1 .. Len(leaves) |-> Row(of, ds, leaves, x)]
    BY <1>1 DEF IsHeads, Row
  <2>2. of[n] = Row(of, ds, leaves, n)
    BY <2>1
  <2>3. Row(of, ds, leaves, n)[lo] = IF n = 1 THEN leaves[lo + 1]
                         ELSE node(ds, of[split_point(n)][lo], of[n - split_point(n)][lo + split_point(n)])
    BY DEF Row
  <2>4. QED
    BY <2>2, <2>3
<1>4. ASSUME NEW lo \in 0 .. Len(leaves) - 1 PROVE of[1][lo] = leaves[lo + 1]
  BY <1>3
<1>5. ASSUME NEW n \in 2 .. Len(leaves), NEW lo \in 0 .. Len(leaves) - n
      PROVE  of[n][lo] = node(ds, of[split_point(n)][lo], of[n - split_point(n)][lo + split_point(n)])
  BY <1>3
<1>6. QED
  BY <1>2, <1>4, <1>5 DEF Table

\* Leaves that are leaf digests.
Hashed(ds, leaves) == \A i \in 1 .. Len(leaves) : \E h : leaves[i] = leaf(ds, h)

\* The prefixes keep leaves and nodes apart, and a node its children.
LEMMA LeafNoNode == ASSUME NEW ds, NEW h, NEW x, NEW y PROVE leaf(ds, h) # node(ds, x, y)
  BY DEF leaf, node

\* A node's digest tells the two below it.
LEMMA NodeInjective ==
  ASSUME NEW ds, NEW x, NEW y, NEW u, NEW v, node(ds, x, y) = node(ds, u, v)
  PROVE  x = u /\ y = v
  BY DEF node

Names(n, a, b, A, B) ==
  \A m \in 1 .. Len(b) : \A lo \in 0 .. Len(a) - n, lp \in 0 .. Len(b) - m :
    A[n][lo] = B[m][lp] => n = m /\ \A i \in 1 .. n : a[lo + i] = b[lp + i]

\* A head names what is under it: how many leaves, and which.
LEMMA HeadsInjective ==
  ASSUME NEW ds, NEW a, NEW b, Len(a) \in Nat, Len(b) \in Nat, Hashed(ds, a), Hashed(ds, b),
         NEW A, NEW B, Table(A, ds, a), Table(B, ds, b)
  PROVE  \A n \in 1 .. Len(a) : Names(n, a, b, A, B)
<1> DEFINE T == {N \in 0 .. Len(a) : \A n \in 1 .. N : Names(n, a, b, A, B)}
<1>1. 0 \in T
  OBVIOUS
<1>2. ASSUME NEW n \in 1 .. Len(a), \A j \in 1 .. n - 1 : Names(j, a, b, A, B) PROVE Names(n, a, b, A, B)
  <2> SUFFICES ASSUME NEW m \in 1 .. Len(b), NEW lo \in 0 .. Len(a) - n, NEW lp \in 0 .. Len(b) - m,
                      A[n][lo] = B[m][lp]
               PROVE  n = m /\ \A i \in 1 .. n : a[lo + i] = b[lp + i]
    BY DEF Names
  <2>1. CASE n = 1 /\ m = 1
    <3>1. lo + 1 \in 1 .. Len(a) /\ lp + 1 \in 1 .. Len(b) /\ lo \in 0 .. Len(a) - 1 /\ lp \in 0 .. Len(b) - 1
      BY <2>1
    <3>2. a[lo + 1] = b[lp + 1]
      BY <2>1, <3>1 DEF Table
    <3>3. QED
      BY <2>1, <3>2
  <2>2. CASE n = 1 /\ m # 1
    <3>1. lo + 1 \in 1 .. Len(a) /\ lo \in 0 .. Len(a) - 1 /\ m \in 2 .. Len(b)
      BY <2>2
    <3>2. PICK h : a[lo + 1] = leaf(ds, h)
      BY <3>1 DEF Hashed
    <3>3. A[1][lo] = leaf(ds, h)
      BY <3>1, <3>2 DEF Table
    <3>4. PICK x, y : x = B[split_point(m)][lp] /\ y = B[m - split_point(m)][lp + split_point(m)]
      OBVIOUS
    <3>5. B[m][lp] = node(ds, x, y)
      BY <3>1, <3>4 DEF Table
    <3>6. QED
      BY <2>2, <3>3, <3>5, LeafNoNode
  <2>3. CASE n # 1 /\ m = 1
    <3>1. lp + 1 \in 1 .. Len(b) /\ lp \in 0 .. Len(b) - 1 /\ n \in 2 .. Len(a)
      BY <2>3
    <3>2. PICK h : b[lp + 1] = leaf(ds, h)
      BY <3>1 DEF Hashed
    <3>3. B[1][lp] = leaf(ds, h)
      BY <3>1, <3>2 DEF Table
    <3>4. PICK x, y : x = A[split_point(n)][lo] /\ y = A[n - split_point(n)][lo + split_point(n)]
      OBVIOUS
    <3>5. A[n][lo] = node(ds, x, y)
      BY <3>1, <3>4 DEF Table
    <3>6. QED
      BY <2>3, <3>3, <3>5, LeafNoNode
  <2>4. CASE n # 1 /\ m # 1
    <3>1. PICK k, q : k = split_point(n) /\ q = split_point(m)
      OBVIOUS
    <3>2. n \in 2 .. Len(a) /\ m \in 2 .. Len(b)
      BY <2>4
    <3>3. k \in 1 .. n - 1 /\ q \in 1 .. m - 1
      BY <3>1, <3>2, SplitInside
    <3>4. PICK x, y, u, v : /\ x = A[k][lo] /\ y = A[n - k][lo + k]
                            /\ u = B[q][lp] /\ v = B[m - q][lp + q]
      OBVIOUS
    <3>5. A[n][lo] = node(ds, x, y) /\ B[m][lp] = node(ds, u, v)
      BY <3>1, <3>2, <3>4 DEF Table
    <3>6. x = u /\ y = v
      <4>1. node(ds, x, y) = node(ds, u, v)
        BY <3>5
      <4>2. QED
        BY <4>1, NodeInjective
    <3>7. PICK j, r, lj, lr, e, f : /\ j = n - k /\ r = m - q /\ lj = lo + k /\ lr = lp + q
                                    /\ e = Len(a) /\ f = Len(b)
      OBVIOUS
    <3>8. e \in Nat /\ f \in Nat /\ n \in 1 .. e /\ m \in 1 .. f /\ lo \in 0 .. e - n /\ lp \in 0 .. f - m
      BY <3>7
    <3>9. q \in 1 .. f /\ lo \in 0 .. e - k /\ lp \in 0 .. f - q
      BY <3>3, <3>8
    <3>10. j \in 1 .. n - 1 /\ lj \in 0 .. e - j
      BY <3>3, <3>7, <3>8
    <3>11. r \in 1 .. f /\ lr \in 0 .. f - r
      BY <3>3, <3>7, <3>8
    <3>12. Names(k, a, b, A, B) /\ Names(j, a, b, A, B)
      BY <1>2, <3>3, <3>10
    <3>13. k = q /\ \A i \in 1 .. k : a[lo + i] = b[lp + i]
      <4>1. q \in 1 .. Len(b) /\ lo \in 0 .. Len(a) - k /\ lp \in 0 .. Len(b) - q /\ A[k][lo] = B[q][lp]
        BY <3>4, <3>6, <3>7, <3>9
      <4>2. QED
        BY <3>12, <4>1 DEF Names
    <3>14. j = r /\ \A i \in 1 .. j : a[lj + i] = b[lr + i]
      <4>1. r \in 1 .. Len(b) /\ lj \in 0 .. Len(a) - j /\ lr \in 0 .. Len(b) - r /\ A[j][lj] = B[r][lr]
        BY <3>4, <3>6, <3>7, <3>10, <3>11
      <4>2. QED
        BY <3>12, <4>1 DEF Names
    <3>15. n - k = m - q /\ \A i \in 1 .. n - k : a[lo + k + i] = b[lp + q + i]
      BY <3>7, <3>14
    <3>16. n = m
      BY <3>3, <3>13, <3>15
    <3>17. ASSUME NEW i \in 1 .. n PROVE a[lo + i] = b[lp + i]
      <4>1. CASE i <= k
        BY <3>3, <3>13, <4>1
      <4>2. CASE i > k
        <5>1. i - k \in 1 .. n - k /\ lo + k + (i - k) = lo + i /\ lp + q + (i - k) = lp + i
          BY <3>3, <3>13, <4>2
        <5>2. QED
          BY <3>15, <5>1
      <4>3. QED
        BY <3>3, <4>1, <4>2
    <3>18. QED
      BY <3>16, <3>17
  <2>5. QED
    BY <2>1, <2>2, <2>3, <2>4
<1>3. ASSUME NEW N \in 1 .. Len(a), N - 1 \in T PROVE N \in T
  <2>1. \A n \in 1 .. N - 1 : Names(n, a, b, A, B)
    BY <1>3
  <2>2. Names(N, a, b, A, B)
    BY <1>2, <2>1
  <2>3. \A n \in 1 .. N : n = N \/ n \in 1 .. N - 1
    OBVIOUS
  <2>4. QED
    BY <2>1, <2>2, <2>3
<1> HIDE DEF T
<1>4. \A N \in 0 .. Len(a) : N \in T
  BY <1>1, <1>3, UpFromZero
<1>5. \A n \in 1 .. Len(a) : Names(n, a, b, A, B)
  BY <1>4 DEF T
<1>6. QED
  BY <1>5

\* A leaf names what was hashed, and trees of different tags share no head.
LEMMA LeafInjective ==
  ASSUME NEW ds, NEW x, NEW y, leaf(ds, x) = leaf(ds, y)
  PROVE  x = y
  BY DEF leaf

\* The trees of public objects and the others share no digest.
LEMMA TagsApart ==
  ASSUME NEW ds, NEW dt, ds # dt, NEW h, NEW x, NEW y, NEW g, NEW u, NEW v
  PROVE  /\ leaf(ds, h) # leaf(dt, g) /\ leaf(ds, h) # node(dt, u, v)
         /\ node(ds, x, y) # leaf(dt, g) /\ node(ds, x, y) # node(dt, u, v)
  BY DEF leaf, node

\* The leaves of a list are as many, each the digest of what it stands for.
LEMMA LeavesOfList ==
  ASSUME NEW ds, NEW S, NEW s \in Seq(S)
  PROVE  /\ Len(Leaves(ds, s)) = Len(s) /\ Len(s) \in Nat
         /\ \A i \in 1 .. Len(s) : Leaves(ds, s)[i] = leaf(ds, s[i])
         /\ Hashed(ds, Leaves(ds, s))
<1>1. DOMAIN s = 1 .. Len(s) /\ Len(s) \in Nat
  OBVIOUS
<1>2. Leaves(ds, s) = [i \in 1 .. Len(s) |-> leaf(ds, s[i])]
  BY <1>1 DEF Leaves
<1>3. Len(Leaves(ds, s)) = Len(s)
  BY <1>1, <1>2
<1>4. \A i \in 1 .. Len(s) : Leaves(ds, s)[i] = leaf(ds, s[i])
  BY <1>2
<1>5. QED
  BY <1>1, <1>3, <1>4 DEF Hashed

\* Equal stretches of leaves are equal stretches of the lists.
LEMMA RootsInjective ==
  ASSUME NEW ds, NEW S, NEW a \in Seq(S), NEW b \in Seq(S), a # <<>>, b # <<>>,
         mth(ds, Leaves(ds, a)) = mth(ds, Leaves(ds, b))
  PROVE  a = b
<1>1. PICK x, y, A, B : /\ x = Leaves(ds, a) /\ A = heads(ds, x)
                        /\ y = Leaves(ds, b) /\ B = heads(ds, y)
  OBVIOUS
<1>2. /\ Len(x) = Len(a) /\ Len(a) \in Nat /\ Hashed(ds, x)
      /\ Len(y) = Len(b) /\ Len(b) \in Nat /\ Hashed(ds, y)
      /\ \A i \in 1 .. Len(a) : x[i] = leaf(ds, a[i])
      /\ \A i \in 1 .. Len(b) : y[i] = leaf(ds, b[i])
  BY <1>1, LeavesOfList
<1>3. Table(A, ds, x) /\ Table(B, ds, y)
  BY <1>1, <1>2, HeadsTable
<1>4. \A n \in 1 .. Len(x) : Names(n, x, y, A, B)
  BY <1>2, <1>3, HeadsInjective
<1>5. Len(a) # 0 /\ Len(b) # 0
  OBVIOUS
<1>6. PICK n, m : n = Len(a) /\ m = Len(b)
  OBVIOUS
<1>7. n \in 1 .. Len(x) /\ m \in 1 .. Len(y) /\ 0 \in 0 .. Len(x) - n /\ 0 \in 0 .. Len(y) - m
  BY <1>2, <1>5, <1>6
<1>8. A[n][0] = B[m][0]
  BY <1>1, <1>2, <1>6 DEF mth
<1>9. n = m /\ \A i \in 1 .. n : x[0 + i] = y[0 + i]
  <2>1. Names(n, x, y, A, B)
    BY <1>4, <1>7
  <2>2. PICK z : z = 0
    OBVIOUS
  <2>3. z \in 0 .. Len(x) - n /\ z \in 0 .. Len(y) - m /\ A[n][z] = B[m][z]
    BY <1>7, <1>8, <2>2
  <2>4. n = m /\ \A i \in 1 .. n : x[z + i] = y[z + i]
    BY <1>7, <2>1, <2>3 DEF Names
  <2>5. QED
    BY <2>2, <2>4
<1>10. ASSUME NEW i \in 1 .. n PROVE a[i] = b[i]
  <2>1. 0 + i = i
    OBVIOUS
  <2>2. x[i] = y[i]
    BY <1>9, <2>1
  <2>3. leaf(ds, a[i]) = leaf(ds, b[i])
    BY <1>2, <1>6, <1>9, <2>2
  <2>4. QED
    BY <2>3, LeafInjective
<1>11. Len(a) = Len(b) /\ \A i \in 1 .. Len(a) : a[i] = b[i]
  BY <1>6, <1>9, <1>10
<1>12. QED
  BY <1>11, SeqEqual

\* What a head is made of.
LEMMA HeadForms ==
  ASSUME NEW ds, NEW S, NEW a \in Seq(S), a # <<>>
  PROVE  \/ \E h : mth(ds, Leaves(ds, a)) = leaf(ds, h)
         \/ \E u, v : mth(ds, Leaves(ds, a)) = node(ds, u, v)
<1>1. PICK x, A, n : x = Leaves(ds, a) /\ A = heads(ds, x) /\ n = Len(x)
  OBVIOUS
<1>2. n = Len(a) /\ n \in Nat /\ \A i \in 1 .. n : x[i] = leaf(ds, a[i])
  BY <1>1, LeavesOfList
<1>3. Table(A, ds, x)
  BY <1>1, <1>2, HeadsTable
<1>4. n # 0
  BY <1>2
<1>5. mth(ds, Leaves(ds, a)) = A[n][0]
  BY <1>1 DEF mth
<1>6. CASE n = 1
  <2>1. 0 \in 0 .. Len(x) - 1 /\ 1 \in 1 .. n
    BY <1>1, <1>6
  <2>2. A[1][0] = x[0 + 1]
    BY <1>3, <2>1 DEF Table
  <2>3. A[1][0] = leaf(ds, a[1])
    BY <1>2, <2>1, <2>2
  <2>4. QED
    BY <1>5, <1>6, <2>3
<1>7. CASE n # 1
  <2>1. n \in 2 .. Len(x) /\ 0 \in 0 .. Len(x) - n
    BY <1>1, <1>2, <1>4, <1>7
  <2>2. PICK u, v : u = A[split_point(n)][0] /\ v = A[n - split_point(n)][0 + split_point(n)]
    OBVIOUS
  <2>3. A[n][0] = node(ds, u, v)
    BY <1>3, <2>1, <2>2 DEF Table
  <2>4. QED
    BY <1>5, <2>3
<1>8. QED
  BY <1>6, <1>7

\* The root a manifest is named by (merkle_root, pub_manifest_root) stands for
\* one list of chunks only, of one kind only, for every set of digests.
THEOREM ManifestRoots == manifestsSpec => []RootNamesList
<1> DEFINE Inv == listing \in Seq(ChunkIds)
<1>1. manifestsInit => Inv
  BY DEF manifestsInit
<1>2. Inv /\ [manifestsNext]_listing => Inv'
  BY DEF manifestsNext, chunk
<1>3. Inv => RootNamesList
  <2> SUFFICES ASSUME listing \in Seq(ChunkIds), listing # <<>>, NEW other \in Listings
               PROVE  /\ merkle_root(other) = merkle_root(listing) => other = listing
                      /\ pub_manifest_root(other) = pub_manifest_root(listing) => other = listing
                      /\ pub_manifest_root(other) # merkle_root(listing)
    BY DEF RootNamesList
  <2>1. other \in Seq(ChunkIds) /\ other # <<>>
    <3>1. PICK n \in 1 .. MaxChunks : other \in [1 .. n -> ChunkIds]
      BY DEF Listings
    <3>2. n \in Nat /\ n # 0
      OBVIOUS
    <3>3. other \in Seq(ChunkIds) /\ Len(other) = n
      BY <3>1, <3>2
    <3>4. QED
      BY <3>2, <3>3
  <2>2. merkle_root(other) = merkle_root(listing) => other = listing
    BY <2>1, RootsInjective DEF merkle_root
  <2>3. pub_manifest_root(other) = pub_manifest_root(listing) => other = listing
    BY <2>1, RootsInjective DEF pub_manifest_root
  <2>4. \/ \E h : pub_manifest_root(other) = leaf("public", h)
        \/ \E u, v : pub_manifest_root(other) = node("public", u, v)
    BY <2>1, HeadForms DEF pub_manifest_root
  <2>5. \/ \E h : merkle_root(listing) = leaf("plain", h)
        \/ \E u, v : merkle_root(listing) = node("plain", u, v)
    BY HeadForms DEF merkle_root
  <2>6. "public" # "plain"
    OBVIOUS
  <2>7. pub_manifest_root(other) # merkle_root(listing)
    BY <2>4, <2>5, <2>6, TagsApart
  <2>8. QED
    BY <2>2, <2>3, <2>7
<1>4. QED
  BY <1>1, <1>2, <1>3, PTL DEF manifestsSpec

-----------------------------------------------------------------------------
(* Levels.                                                                 *)

\* The way of leaf x up through the levels: h[l] counts the nodes of level l
\* on its left, at[l] the leaves under them.
Way(h, at, p, x, L) ==
  /\ Halves(h, x, L)
  /\ at = [l \in 0 .. L |-> h[l] * p[l]] /\ at \in [0 .. L -> Nat] /\ at[0] = x
  /\ \A l \in 0 .. L : at[l] <= x /\ x < at[l] + p[l]
  /\ \A l \in 0 .. L - 1 : \/ (h[l] % 2) = 1 /\ at[l] = at[l + 1] + p[l]
                           \/ (h[l] % 2) = 0 /\ at[l] = at[l + 1]

\* Every leaf has one.
LEMMA WaysExist ==
  ASSUME NEW L \in Nat, NEW p, Powers(p, L), NEW x \in Nat
  PROVE  \E h, at : Way(h, at, p, x, L)
<1>1. PICK h : Halves(h, x, L)
  BY HalvesExist
<1>2. PICK at : at = [l \in 0 .. L |-> h[l] * p[l]]
  OBVIOUS
<1>3. h \in [0 .. L -> Nat] /\ h[0] = x /\ \A l \in 1 .. L : h[l] = h[l - 1] \div 2
  BY <1>1 DEF Halves
<1>4. p \in [0 .. L -> Nat] /\ p[0] = 1 /\ \A l \in 1 .. L : p[l] = 2 * p[l - 1]
  BY DEF Powers
<1>5. \A l \in 0 .. L : h[l] * p[l] \in Nat /\ h[l] * p[l] <= x /\ x < h[l] * p[l] + p[l]
  BY <1>1, Within
<1>6. at \in [0 .. L -> Nat]
  BY <1>2, <1>5
<1>7. at[0] = x
  <2>1. 0 \in 0 .. L
    OBVIOUS
  <2>2. at[0] = h[0] * p[0]
    BY <1>2, <2>1
  <2>3. QED
    BY <1>3, <1>4, <2>2
<1>8. \A l \in 0 .. L : at[l] <= x /\ x < at[l] + p[l]
  BY <1>2, <1>5
<1>9. ASSUME NEW l \in 0 .. L - 1
      PROVE  \/ (h[l] % 2) = 1 /\ at[l] = at[l + 1] + p[l]
             \/ (h[l] % 2) = 0 /\ at[l] = at[l + 1]
  <2>1. l \in 0 .. L /\ l + 1 \in 1 .. L /\ l + 1 \in 0 .. L /\ (l + 1) - 1 = l
    OBVIOUS
  <2>2. PICK a, b, q, r : a = h[l] /\ b = h[l + 1] /\ q = p[l] /\ r = p[l + 1]
    OBVIOUS
  <2>3. a \in Nat /\ b \in Nat /\ q \in Nat /\ b = a \div 2 /\ r = 2 * q
    BY <1>3, <1>4, <2>1, <2>2
  <2>4. at[l] = a * q /\ at[l + 1] = b * r
    BY <1>2, <2>1, <2>2
  <2>5. (a % 2) \in {0, 1} /\ a = 2 * b + (a % 2)
    BY <2>3, Halved
  <2>6. (2 * b) * q = b * (2 * q) /\ (2 * b + 1) * q = b * (2 * q) + q
    BY <2>3, Products
  <2>7. CASE (a % 2) = 0
    <3>1. a = 2 * b
      BY <2>3, <2>5, <2>7
    <3>2. a * q = b * r
      BY <2>3, <2>6, <3>1
    <3>3. QED
      BY <2>2, <2>4, <2>7, <3>2
  <2>8. CASE (a % 2) = 1
    <3>1. a = 2 * b + 1
      BY <2>3, <2>5, <2>8
    <3>2. a * q = b * r + q
      BY <2>3, <2>6, <3>1
    <3>3. QED
      BY <2>2, <2>4, <2>8, <3>2
  <2>9. QED
    BY <2>5, <2>7, <2>8
<1>10. Way(h, at, p, x, L)
  BY <1>1, <1>2, <1>6, <1>7, <1>8, <1>9 DEF Way
<1>11. QED
  BY <1>10

\* A node has one on its right iff leaves are left for it.
LEMMA RightOf ==
  ASSUME NEW L \in Nat, NEW p, Powers(p, L), NEW x \in Nat, NEW y \in Nat,
         NEW h, NEW at, Way(h, at, p, x, L), NEW g, NEW bt, Way(g, bt, p, y, L), NEW l \in 0 .. L
  PROVE  h[l] < g[l] <=> at[l] + p[l] <= y
<1>1. PICK a, b, q : a = h[l] /\ b = g[l] /\ q = p[l]
  OBVIOUS
<1>2. a \in Nat /\ b \in Nat /\ q \in Nat
  BY <1>1 DEF Way, Halves, Powers
<1>3. at[l] = a * q /\ bt[l] = b * q
  BY <1>1 DEF Way
<1>4. at[l] \in Nat /\ bt[l] \in Nat /\ bt[l] <= y /\ y < bt[l] + q
  BY <1>1 DEF Way
<1>5. ASSUME a < b PROVE at[l] + q <= y
  <2>1. a + 1 \in Nat /\ a + 1 <= b
    BY <1>2, <1>5
  <2>2. (a + 1) * q <= b * q
    BY <1>2, <2>1, ProductsGrow
  <2>3. (a + 1) * q = a * q + q
    BY <1>2, Products
  <2>4. QED
    BY <1>2, <1>3, <1>4, <2>2, <2>3
<1>6. ASSUME ~ (a < b) PROVE ~ (at[l] + q <= y)
  <2>1. b <= a
    BY <1>2, <1>6
  <2>2. b * q <= a * q
    BY <1>2, <2>1, ProductsGrow
  <2>3. QED
    BY <1>2, <1>3, <1>4, <2>2
<1>7. QED
  BY <1>1, <1>5, <1>6

\* The top: nothing is on the left of the root.
LEMMA TopOfWay ==
  ASSUME NEW L \in Nat, NEW p, Powers(p, L), NEW x \in Nat, NEW h, NEW at, Way(h, at, p, x, L),
         NEW l \in 0 .. L, x < p[l]
  PROVE  h[l] = 0 /\ at[l] = 0
<1>1. PICK a, q : a = h[l] /\ q = p[l]
  OBVIOUS
<1>2. a \in Nat /\ q \in Nat
  BY <1>1 DEF Way, Halves, Powers
<1>3. at[l] = a * q /\ at[l] \in Nat /\ at[l] <= x
  BY <1>1 DEF Way
<1>4. CASE a = 0
  BY <1>1, <1>2, <1>3, <1>4
<1>5. CASE a # 0
  <2>1. 1 \in Nat /\ 1 <= a
    BY <1>2, <1>5
  <2>2. 1 * q <= a * q
    BY <1>2, <2>1, ProductsGrow
  <2>3. QED
    BY <1>1, <1>2, <1>3, <2>2
<1>6. QED
  BY <1>4, <1>5

\* The node of q leaves, or of those left, after the first a of N.
Node(T, N, q, a) == T[IF q <= N - a THEN q ELSE N - a][a]

\* A node and the two below it; the last of a level may be alone.
LEMMA NodeUp ==
  ASSUME NEW ds, NEW x, NEW T, Table(T, ds, x), NEW N \in Nat, N = Len(x),
         NEW L \in Nat, NEW p, Powers(p, L), NEW l \in 0 .. L - 1, NEW a \in 0 .. N - 1
  PROVE  Node(T, N, p[l + 1], a) = IF a + p[l] < N THEN node(ds, Node(T, N, p[l], a), Node(T, N, p[l], a + p[l]))
                                   ELSE Node(T, N, p[l], a)
<1>1. PICK q : q = p[l]
  OBVIOUS
<1>2. l \in 0 .. L /\ l + 1 \in 1 .. L /\ (l + 1) - 1 = l
  OBVIOUS
<1>3. q \in Nat /\ q >= 1 /\ p[l + 1] = 2 * q
  <2>1. p[l] \in Nat /\ p[l] >= l + 1
    BY <1>2, PowersGrow
  <2>2. p[l + 1] = 2 * p[l]
    BY <1>2 DEF Powers
  <2>3. QED
    BY <1>1, <1>2, <2>1, <2>2
<1>4. CASE a + q < N
  <2>1. PICK s : s = IF 2 * q <= N - a THEN 2 * q ELSE N - a
    OBVIOUS
  <2>2. s \in Nat /\ q < s /\ s <= 2 * q /\ s \in 2 .. N /\ a \in 0 .. N - s
    BY <1>3, <1>4, <2>1
  <2>3. split_point(s) = q
    BY <1>1, <1>2, <2>2, SplitIsPower
  <2>4. T[s][a] = node(ds, T[q][a], T[s - q][a + q])
    BY <2>2, <2>3 DEF Table
  <2>5. Node(T, N, p[l + 1], a) = T[s][a]
    BY <1>3, <2>1 DEF Node
  <2>6. Node(T, N, q, a) = T[q][a]
    <3>1. q <= N - a
      BY <1>3, <1>4
    <3>2. QED
      BY <3>1 DEF Node
  <2>7. Node(T, N, q, a + q) = T[s - q][a + q]
    <3>1. s - q = IF q <= N - (a + q) THEN q ELSE N - (a + q)
      BY <1>3, <1>4, <2>1
    <3>2. QED
      BY <3>1 DEF Node
  <2>8. QED
    BY <1>1, <1>4, <2>4, <2>5, <2>6, <2>7
<1>5. CASE ~ (a + q < N)
  <2>1. (IF 2 * q <= N - a THEN 2 * q ELSE N - a) = N - a
    BY <1>3, <1>5
  <2>2. (IF q <= N - a THEN q ELSE N - a) = N - a
    BY <1>3, <1>5
  <2>3. Node(T, N, p[l + 1], a) = T[N - a][a] /\ Node(T, N, q, a) = T[N - a][a]
    BY <1>3, <2>1, <2>2 DEF Node
  <2>4. QED
    BY <1>1, <1>5, <2>3
<1>6. QED
  BY <1>4, <1>5

-----------------------------------------------------------------------------
(* The loops of the client's checks.                                       *)

Shares(up, idx, last) ==
  up = [i \in 0 .. idx |-> IF i = 0 THEN <<idx, last>> ELSE past_right(up[i - 1])]

SharedRun(up, idx, last) ==
  /\ up[0] = <<idx, last>> /\ shared(idx, last) = up[idx]
  /\ \A i \in 1 .. idx : up[i] = past_right(up[i - 1])

\* The first loop of verify_consistency.
LEMMA SharedTurns ==
  ASSUME NEW idx, NEW last, idx \in Nat
  PROVE  \E up : SharedRun(up, idx, last)
<1> DEFINE c == [loop |-> "shared"]
           up == CHOOSE g : Shares(g, idx, last)
<1>1. PICK g : Turns(g, c, <<idx, last>>, idx)
  BY LoopTurns
<1>2. g = [i \in 0 .. idx |-> IF i = 0 THEN <<idx, last>> ELSE Turn(c, i, g[i - 1])]
  BY <1>1 DEF Turns
<1>3. \A i : Turn(c, i, g[i - 1]) = past_right(g[i - 1])
  BY DEF Turn
<1>4. Shares(g, idx, last)
  BY <1>2, <1>3 DEF Shares
<1>5. Shares(up, idx, last)
  BY <1>4
<1>6. shared(idx, last) = up[idx]
  BY Zenon DEF shared, Shares
<1> HIDE DEF up
<1>7. \A i \in 0 .. idx : up[i] = IF i = 0 THEN <<idx, last>> ELSE past_right(up[i - 1])
  BY <1>5 DEF Shares
<1>8. 0 \in 0 .. idx
  OBVIOUS
<1>9. up[0] = <<idx, last>> /\ \A i \in 1 .. idx : up[i] = past_right(up[i - 1])
  BY <1>7, <1>8
<1>10. SharedRun(up, idx, last)
  BY <1>6, <1>9 DEF SharedRun
<1>11. QED
  BY <1>10

RiseStart(idx, last, used, h) ==
  [idx |-> idx, last |-> last, ok |-> TRUE, used |-> used, old |-> h, new |-> h]

Rises(up, path, idx, last, used, h, n) ==
  up = [i \in 0 .. n |-> IF i = 0 THEN RiseStart(idx, last, used, h) ELSE risen(path, up[i - 1])]

RiseRun(up, path, idx, last, used, h, n) ==
  /\ up[0] = RiseStart(idx, last, used, h) /\ rise(path, idx, last, used, h, n) = up[n]
  /\ \A i \in 1 .. n : up[i] = risen(path, up[i - 1])

\* Its other two, as one.
LEMMA RiseTurns ==
  ASSUME NEW path, NEW idx, NEW last, NEW used, NEW h, NEW n, n \in Nat
  PROVE  \E up : RiseRun(up, path, idx, last, used, h, n)
<1> DEFINE c == [loop |-> "rise", path |-> path]
           up == CHOOSE g : Rises(g, path, idx, last, used, h, n)
<1>1. PICK g : Turns(g, c, RiseStart(idx, last, used, h), n)
  BY LoopTurns
<1>2. g = [i \in 0 .. n |-> IF i = 0 THEN RiseStart(idx, last, used, h) ELSE Turn(c, i, g[i - 1])]
  BY <1>1 DEF Turns
<1>3. \A i : Turn(c, i, g[i - 1]) = risen(path, g[i - 1])
  BY DEF Turn
<1>4. Rises(g, path, idx, last, used, h, n)
  BY <1>2, <1>3 DEF Rises
<1>5. Rises(up, path, idx, last, used, h, n)
  BY <1>4
<1>6. rise(path, idx, last, used, h, n) = up[n]
  BY Zenon DEF rise, RiseStart, Rises
<1> HIDE DEF up
<1>7. \A i \in 0 .. n : up[i] = IF i = 0 THEN RiseStart(idx, last, used, h) ELSE risen(path, up[i - 1])
  BY <1>5 DEF Rises
<1>8. 0 \in 0 .. n
  OBVIOUS
<1>9. up[0] = RiseStart(idx, last, used, h) /\ \A i \in 1 .. n : up[i] = risen(path, up[i - 1])
  BY <1>7, <1>8
<1>10. RiseRun(up, path, idx, last, used, h, n)
  BY <1>6, <1>9 DEF RiseRun
<1>11. QED
  BY <1>10

FoldStart(tree_size, leaf_index, leaf_hash) ==
  [idx |-> leaf_index, last |-> tree_size - 1, ok |-> TRUE, r |-> leaf_hash]

Folds_(after, tree_size, leaf_index, leaf_hash, path) ==
  after = [i \in 0 .. Len(path) |->
             IF i = 0 THEN FoldStart(tree_size, leaf_index, leaf_hash) ELSE folded(after[i - 1], path[i])]

FoldRun(after, tree_size, leaf_index, leaf_hash, path) ==
  /\ after[0] = FoldStart(tree_size, leaf_index, leaf_hash)
  /\ fold(tree_size, leaf_index, leaf_hash, path) = after[Len(path)]
  /\ \A i \in 1 .. Len(path) : after[i] = folded(after[i - 1], path[i])

\* The outer loop of fold_inclusion.
LEMMA FoldTurns ==
  ASSUME NEW tree_size, NEW leaf_index, NEW leaf_hash, NEW path, Len(path) \in Nat
  PROVE  \E after : FoldRun(after, tree_size, leaf_index, leaf_hash, path)
<1> DEFINE c == [loop |-> "fold", path |-> path]
           after == CHOOSE g : Folds_(g, tree_size, leaf_index, leaf_hash, path)
<1>1. PICK g : Turns(g, c, FoldStart(tree_size, leaf_index, leaf_hash), Len(path))
  BY LoopTurns
<1>2. g = [i \in 0 .. Len(path) |-> IF i = 0 THEN FoldStart(tree_size, leaf_index, leaf_hash) ELSE Turn(c, i, g[i - 1])]
  BY <1>1 DEF Turns
<1>3. \A i : Turn(c, i, g[i - 1]) = folded(g[i - 1], path[i])
  BY DEF Turn
<1>4. Folds_(g, tree_size, leaf_index, leaf_hash, path)
  BY <1>2, <1>3 DEF Folds_
<1>5. Folds_(after, tree_size, leaf_index, leaf_hash, path)
  BY <1>4
<1>6. fold(tree_size, leaf_index, leaf_hash, path) = after[Len(path)]
  BY Zenon DEF fold, FoldStart, Folds_
<1> HIDE DEF after
<1>7. \A i \in 0 .. Len(path) :
        after[i] = IF i = 0 THEN FoldStart(tree_size, leaf_index, leaf_hash) ELSE folded(after[i - 1], path[i])
  BY <1>5 DEF Folds_
<1>8. 0 \in 0 .. Len(path)
  OBVIOUS
<1>9. /\ after[0] = FoldStart(tree_size, leaf_index, leaf_hash)
      /\ \A i \in 1 .. Len(path) : after[i] = folded(after[i - 1], path[i])
  BY <1>7, <1>8
<1>10. FoldRun(after, tree_size, leaf_index, leaf_hash, path)
  BY <1>6, <1>9 DEF FoldRun
<1>11. QED
  BY <1>10

Climbs(up, idx, last) ==
  up = [i \in 0 .. idx |-> IF i = 0 THEN above(<<idx, last>>) ELSE past_left(up[i - 1])]

ClimbRun(up, idx, last) ==
  /\ up[0] = above(<<idx, last>>) /\ climb(idx, last) = up[idx]
  /\ \A i \in 1 .. idx : up[i] = past_left(up[i - 1])

\* And its inner one.
LEMMA ClimbTurns ==
  ASSUME NEW idx, NEW last, idx \in Nat
  PROVE  \E up : ClimbRun(up, idx, last)
<1> DEFINE c == [loop |-> "climb"]
           up == CHOOSE g : Climbs(g, idx, last)
<1>1. PICK g : Turns(g, c, above(<<idx, last>>), idx)
  BY LoopTurns
<1>2. g = [i \in 0 .. idx |-> IF i = 0 THEN above(<<idx, last>>) ELSE Turn(c, i, g[i - 1])]
  BY <1>1 DEF Turns
<1>3. \A i : Turn(c, i, g[i - 1]) = past_left(g[i - 1])
  BY DEF Turn
<1>4. Climbs(g, idx, last)
  BY <1>2, <1>3 DEF Climbs
<1>5. Climbs(up, idx, last)
  BY <1>4
<1>6. climb(idx, last) = up[idx]
  BY Zenon DEF climb, Climbs
<1> HIDE DEF up
<1>7. \A i \in 0 .. idx : up[i] = IF i = 0 THEN above(<<idx, last>>) ELSE past_left(up[i - 1])
  BY <1>5 DEF Climbs
<1>8. 0 \in 0 .. idx
  OBVIOUS
<1>9. up[0] = above(<<idx, last>>) /\ \A i \in 1 .. idx : up[i] = past_left(up[i - 1])
  BY <1>7, <1>8
<1>10. ClimbRun(up, idx, last)
  BY <1>6, <1>9 DEF ClimbRun
<1>11. QED
  BY <1>10

-----------------------------------------------------------------------------
(* What an accepted consistency proof shows.                               *)

\* The first loop ends on the level on which the old tree's last node is the
\* first left child above its last leaf.
LEMMA SharedLevel ==
  ASSUME NEW L \in Nat, NEW p, Powers(p, L), NEW x \in Nat, NEW y \in Nat, x <= L,
         NEW h, NEW at, Way(h, at, p, x, L), NEW g, NEW bt, Way(g, bt, p, y, L)
  PROVE  \E l \in 0 .. x : /\ shared(x, y) = <<h[l], g[l]>> /\ (h[l] % 2) = 0
                           /\ \A j \in 0 .. l - 1 : (h[j] % 2) = 1
<1>1. PICK up : SharedRun(up, x, y)
  BY SharedTurns
<1>2. /\ up[0] = <<x, y>> /\ shared(x, y) = up[x]
      /\ \A i \in 1 .. x : up[i] = past_right(up[i - 1])
  BY <1>1 DEF SharedRun
<1>3. h \in [0 .. L -> Nat] /\ h[0] = x /\ \A l \in 1 .. L : h[l] = h[l - 1] \div 2
  BY DEF Way, Halves
<1>4. g \in [0 .. L -> Nat] /\ g[0] = y /\ \A l \in 1 .. L : g[l] = g[l - 1] \div 2
  BY DEF Way, Halves
<1> DEFINE Odd(l) == \A j \in 0 .. l - 1 : (h[j] % 2) = 1
           At(i, l) == up[i] = <<h[l], g[l]>> /\ Odd(l) /\ (l = i \/ (h[l] % 2) = 0)
           T == {i \in 0 .. x : \E l \in 0 .. i : At(i, l)}
<1>5. 0 \in T
  <2>1. Odd(0)
    OBVIOUS
  <2>2. 0 \in 0 .. 0 /\ 0 \in 0 .. x
    OBVIOUS
  <2>3. At(0, 0)
    BY <1>2, <1>3, <1>4, <2>1
  <2> HIDE DEF At
  <2>4. QED
    BY <2>2, <2>3
<1>6. ASSUME NEW i \in 1 .. x, i - 1 \in T PROVE i \in T
  <2>1. PICK l \in 0 .. i - 1 : At(i - 1, l)
    BY <1>6
  <2>2. up[i] = past_right(<<h[l], g[l]>>)
    BY <1>2, <2>1
  <2>3. l \in 0 .. L /\ h[l] \in Nat
    BY <1>3
  <2>4. CASE (h[l] % 2) = 0
    <3>1. up[i] = <<h[l], g[l]>>
      BY <2>2, <2>4 DEF past_right
    <3>2. At(i, l) /\ l \in 0 .. i
      BY <2>1, <2>4, <3>1
    <3> HIDE DEF At
    <3>3. QED
      BY <3>2
  <2>5. CASE (h[l] % 2) # 0
    <3>1. (h[l] % 2) = 1 /\ l = i - 1
      BY <2>1, <2>3, <2>5, Halved
    <3>2. i \in 1 .. L /\ h[i] = h[l] \div 2 /\ g[i] = g[l] \div 2
      <4>1. i \in 1 .. L
        OBVIOUS
      <4>2. h[i] = h[i - 1] \div 2 /\ g[i] = g[i - 1] \div 2
        BY <1>3, <1>4, <4>1
      <4>3. QED
        BY <3>1, <4>1, <4>2
    <3>3. up[i] = <<h[i], g[i]>>
      BY <2>2, <3>1, <3>2 DEF past_right, above
    <3>4. Odd(i)
      BY <2>1, <3>1
    <3>5. At(i, i) /\ i \in 0 .. i
      BY <3>3, <3>4
    <3> HIDE DEF At
    <3>6. QED
      BY <3>5
  <2>6. QED
    BY <2>4, <2>5
<1> HIDE DEF T
<1>7. \A i \in 0 .. x : i \in T
  BY <1>5, <1>6, UpFromZero
<1>8. PICK l \in 0 .. x : At(x, l)
  BY <1>7 DEF T
<1>9. (h[x] % 2) = 0
  <2>1. x \in 0 .. L /\ p[x] \in Nat /\ p[x] >= x + 1
    BY PowersGrow
  <2>2. h[x] = 0
    BY <2>1, TopOfWay
  <2>3. QED
    BY <2>2
<1>10. QED
  BY <1>2, <1>8, <1>9

\* A state of the other two loops, whole.
Risen(s) ==
  /\ s = [idx |-> s.idx, last |-> s.last, ok |-> s.ok, used |-> s.used, old |-> s.old, new |-> s.new]
  /\ s.ok \in BOOLEAN

\* What a round that does not fail makes of it, on a level where the old tree's
\* node is number a and the new tree's last is number b.
RoseTo(path, s, t, a, b) ==
  /\ (a % 2) = 1 => /\ t.old = over(path[s.used + 1], s.old) /\ t.new = over(path[s.used + 1], s.new)
  /\ (a % 2) = 0 => /\ t.old = s.old
                    /\ t.new = IF a < b THEN over(s.new, path[s.used + 1]) ELSE s.new

\* Rounds that all do not fail, from level k on.
Rose(path, up, h, g, k, n) ==
  \A i \in 1 .. n : RoseTo(path, up[i - 1], up[i], h[k + (i - 1)], g[k + (i - 1)])

\* A round fails or does its work.
LEMMA RiseStep ==
  ASSUME NEW path, NEW s, NEW t, Risen(s), t = risen(path, s)
  PROVE  /\ Risen(t)
         /\ t.ok => /\ s.ok /\ t.idx = s.idx \div 2 /\ t.last = s.last \div 2
                    /\ RoseTo(path, s, t, s.idx, s.last)
<1>1. PICK i, j, k, u, a, b : s = [idx |-> i, last |-> j, ok |-> k, used |-> u, old |-> a, new |-> b] /\ k \in BOOLEAN
  BY DEF Risen
<1> DEFINE sibling == (i % 2) = 1 \/ i < j
<1>2. s.idx = i /\ s.last = j /\ s.ok = k /\ s.used = u /\ s.old = a /\ s.new = b
  BY <1>1
<1>3. CASE sibling /\ u = Len(path)
  <2>1. t = [s EXCEPT !.ok = FALSE]
    BY <1>2, <1>3 DEF risen
  <2>2. t = [idx |-> i, last |-> j, ok |-> FALSE, used |-> u, old |-> a, new |-> b]
    BY <1>1, <2>1
  <2>3. QED
    BY <2>2 DEF Risen
<1>4. CASE ~ (sibling /\ u = Len(path))
  <2>1. t = [idx |-> i \div 2, last |-> j \div 2, ok |-> k,
             used |-> IF sibling THEN u + 1 ELSE u,
             old  |-> IF (i % 2) = 1 THEN over(path[u + 1], a) ELSE a,
             new  |-> IF (i % 2) = 1 THEN over(path[u + 1], b) ELSE IF sibling THEN over(b, path[u + 1]) ELSE b]
    BY <1>2, <1>4 DEF risen
  <2>2. Risen(t)
    BY <1>1, <2>1 DEF Risen
  <2>3. t.ok = k /\ t.idx = i \div 2 /\ t.last = j \div 2
    BY <2>1
  <2>4. RoseTo(path, s, t, i, j)
    BY <1>2, <2>1 DEF RoseTo
  <2>5. QED
    BY <1>2, <2>2, <2>3, <2>4
<1>5. QED
  BY <1>3, <1>4

\* All rounds of an accepted proof, in which nothing failed.
LEMMA RiseRounds ==
  ASSUME NEW L \in Nat, NEW x \in Nat, NEW y \in Nat, NEW h, Halves(h, x, L), NEW g, Halves(g, y, L),
         NEW n \in Nat, NEW k \in Nat, k + n <= L, NEW path, NEW used, NEW e, NEW up,
         up[0] = RiseStart(h[k], g[k], used, e),
         \A i \in 1 .. n : up[i] = risen(path, up[i - 1]), up[n].ok
  PROVE  Rose(path, up, h, g, k, n)
<1> DEFINE T == {i \in 0 .. n : Risen(up[i])}
           U == {i \in 0 .. n : up[i].ok}
           V == {i \in 0 .. n : up[i].idx = h[k + i] /\ up[i].last = g[k + i]}
<1>1. 0 \in T /\ up[0].idx = h[k] /\ up[0].last = g[k]
  <2>1. PICK a, b, s : a = h[k] /\ b = g[k] /\ s = up[0]
    OBVIOUS
  <2>2. s = [idx |-> a, last |-> b, ok |-> TRUE, used |-> used, old |-> e, new |-> e]
    BY <2>1 DEF RiseStart
  <2>3. s.idx = a /\ s.last = b /\ Risen(s)
    BY <2>2 DEF Risen
  <2>4. 0 \in 0 .. n
    OBVIOUS
  <2>5. QED
    BY <2>1, <2>3, <2>4
<1>2. \A i \in 1 .. n : i - 1 \in T => i \in T
  BY RiseStep
<1>3. \A i \in 0 .. n : i \in T
  <2> HIDE DEF T
  <2>1. QED
    BY <1>1, <1>2, UpFromZero
<1>4. \A i \in 1 .. n : Risen(up[i - 1])
  BY <1>3
<1>5. ASSUME NEW i \in 1 .. n, up[i].ok
      PROVE  /\ up[i - 1].ok /\ up[i].idx = up[i - 1].idx \div 2 /\ up[i].last = up[i - 1].last \div 2
             /\ RoseTo(path, up[i - 1], up[i], up[i - 1].idx, up[i - 1].last)
  BY <1>4, <1>5, RiseStep
<1>6. \A i \in 0 .. n : i \in U
  <2>1. n \in U
    OBVIOUS
  <2>2. ASSUME NEW i \in 0 .. n - 1, i + 1 \in U PROVE i \in U
    <3>1. i + 1 \in 1 .. n /\ (i + 1) - 1 = i
      OBVIOUS
    <3>2. QED
      BY <1>5, <2>2, <3>1
  <2> HIDE DEF U
  <2>3. QED
    BY <2>1, <2>2, DownFrom
<1>7. \A i \in 0 .. n : i \in V
  <2>1. 0 \in V
    BY <1>1
  <2>2. ASSUME NEW i \in 1 .. n, i - 1 \in V PROVE i \in V
    <3>1. up[i].idx = up[i - 1].idx \div 2 /\ up[i].last = up[i - 1].last \div 2
      BY <1>5, <1>6
    <3>2. k + i \in 1 .. L /\ (k + i) - 1 = k + (i - 1)
      OBVIOUS
    <3>3. h[k + i] = h[k + (i - 1)] \div 2 /\ g[k + i] = g[k + (i - 1)] \div 2
      BY <3>2 DEF Halves
    <3>4. QED
      BY <2>2, <3>1, <3>3
  <2> HIDE DEF V
  <2>3. QED
    BY <2>1, <2>2, UpFromZero
<1>8. ASSUME NEW i \in 1 .. n PROVE RoseTo(path, up[i - 1], up[i], h[k + (i - 1)], g[k + (i - 1)])
  <2>1. i - 1 \in 0 .. n /\ i \in 0 .. n
    OBVIOUS
  <2>2. up[i].ok /\ up[i - 1].idx = h[k + (i - 1)] /\ up[i - 1].last = g[k + (i - 1)]
    BY <1>6, <1>7, <2>1
  <2>3. QED
    BY <1>5, <2>2
<1>9. QED
  BY <1>8 DEF Rose

\* The first r elements are the same, or those after the first a.
Same(x, y, r) == \A j \in 1 .. r : x[j] = y[j]
Agree(x, y, a, r) == \A j \in 1 .. r : x[a + j] = y[a + j]

\* A head that two trees share after the first a leaves has the same leaves.
LEMMA SameNode ==
  ASSUME NEW x, NEW y, NEW A, NEW B, NEW r, NEW s, NEW a, Names(r, x, y, A, B),
         a \in 0 .. Len(x) - r, s \in 1 .. Len(y), a \in 0 .. Len(y) - s, A[r][a] = B[s][a]
  PROVE  r = s /\ Agree(x, y, a, r)
  BY DEF Names, Agree

\* The state s of the second loops stands for the nodes of level l in which the
\* old tree ends, and what is on their left is the same in both trees.
Meet(s, A, B, x, y, q, a) ==
  /\ s.old = Node(A, Len(x), q, a) /\ s.new = Node(B, Len(y), q, a)
  /\ \A j \in 1 .. a : x[j] = y[j]

\* If it does after a round, it did before.
LEMMA RiseBack ==
  ASSUME NEW x, NEW y, NEW A, NEW B, Table(A, "plain", x), Table(B, "plain", y),
         Hashed("plain", x), Hashed("plain", y),
         NEW m \in Nat, NEW n \in Nat, m = Len(x), n = Len(y), 0 < m, m < n,
         NEW L \in Nat, NEW p, Powers(p, L), NEW h, NEW at, Way(h, at, p, m - 1, L),
         NEW g, NEW bt, Way(g, bt, p, n - 1, L), NEW l \in 0 .. L - 1, NEW path, NEW s, NEW t,
         RoseTo(path, s, t, h[l], g[l]), Meet(t, A, B, x, y, p[l + 1], at[l + 1])
  PROVE  Meet(s, A, B, x, y, p[l], at[l])
<1>1. PICK q, a, b, e : q = p[l] /\ a = at[l] /\ b = at[l + 1] /\ e = path[s.used + 1]
  OBVIOUS
<1>2. l \in 0 .. L /\ l + 1 \in 0 .. L
  OBVIOUS
<1>3. q \in Nat /\ q >= 1
  BY <1>1, <1>2, PowersGrow
<1>4. a \in Nat /\ b \in Nat /\ a <= m - 1 /\ m - 1 < a + q /\ b <= m - 1
  BY <1>1, <1>2 DEF Way
<1>5. \/ (h[l] % 2) = 1 /\ a = b + q
      \/ (h[l] % 2) = 0 /\ a = b
  BY <1>1 DEF Way
<1>6. b \in 0 .. m - 1 /\ b \in 0 .. n - 1
  BY <1>4
<1>7. /\ t.old = IF b + q < m THEN over(Node(A, m, q, b), Node(A, m, q, b + q)) ELSE Node(A, m, q, b)
      /\ t.new = IF b + q < n THEN over(Node(B, n, q, b), Node(B, n, q, b + q)) ELSE Node(B, n, q, b)
      /\ \A j \in 1 .. b : x[j] = y[j]
  <2>1. Node(A, m, p[l + 1], b) = IF b + q < m THEN over(Node(A, m, q, b), Node(A, m, q, b + q)) ELSE Node(A, m, q, b)
    BY <1>1, <1>6, NodeUp DEF over
  <2>2. Node(B, n, p[l + 1], b) = IF b + q < n THEN over(Node(B, n, q, b), Node(B, n, q, b + q)) ELSE Node(B, n, q, b)
    BY <1>1, <1>6, NodeUp DEF over
  <2>3. QED
    BY <1>1, <2>1, <2>2 DEF Meet
<1>8. CASE (h[l] % 2) = 1 /\ a = b + q
  <2>1. t.old = over(e, s.old) /\ t.new = over(e, s.new)
    BY <1>1, <1>8 DEF RoseTo
  <2>2. b + q < m /\ b + q < n
    BY <1>4, <1>8
  <2>3. t.old = over(Node(A, m, q, b), Node(A, m, q, a)) /\ t.new = over(Node(B, n, q, b), Node(B, n, q, a))
    BY <1>7, <1>8, <2>2
  <2>4. e = Node(A, m, q, b) /\ s.old = Node(A, m, q, a)
    BY <2>1, <2>3, NodeInjective DEF over
  <2>5. e = Node(B, n, q, b) /\ s.new = Node(B, n, q, a)
    BY <2>1, <2>3, NodeInjective DEF over
  <2>6. q <= m - b /\ q <= n - b
    BY <1>3, <1>4, <2>2
  <2>7. A[q][b] = B[q][b]
    BY <2>4, <2>5, <2>6 DEF Node
  <2>8. q \in 1 .. m /\ b \in 0 .. m - q /\ q \in 1 .. n /\ b \in 0 .. n - q
    BY <1>3, <1>4, <2>2
  <2>9. Agree(x, y, b, q)
    <3>1. Names(q, x, y, A, B)
      <4>1. \A r \in 1 .. Len(x) : Names(r, x, y, A, B)
        BY HeadsInjective
      <4>2. QED
        BY <2>8, <4>1
    <3>2. b \in 0 .. Len(x) - q /\ q \in 1 .. Len(y) /\ b \in 0 .. Len(y) - q
      BY <2>8
    <3>3. QED
      BY <2>7, <3>1, <3>2, SameNode
  <2>10. ASSUME NEW j \in 1 .. a PROVE x[j] = y[j]
    <3>1. CASE j <= b
      BY <1>4, <1>7, <3>1
    <3>2. CASE j > b
      <4>1. j - b \in 1 .. q /\ b + (j - b) = j
        BY <1>3, <1>4, <1>8, <3>2
      <4>2. QED
        BY <2>9, <4>1 DEF Agree
    <3>3. QED
      BY <1>4, <3>1, <3>2
  <2>11. QED
    BY <1>1, <2>4, <2>5, <2>10 DEF Meet
<1>9. CASE (h[l] % 2) = 0 /\ a = b
  <2>1. t.old = s.old /\ t.new = IF h[l] < g[l] THEN over(s.new, e) ELSE s.new
    BY <1>1, <1>9 DEF RoseTo
  <2>2. ~ (b + q < m)
    BY <1>3, <1>4, <1>9
  <2>3. s.old = Node(A, m, q, a)
    BY <1>7, <1>9, <2>1, <2>2
  <2>4. h[l] < g[l] <=> a + q <= n - 1
    <3>1. m - 1 \in Nat /\ n - 1 \in Nat
      OBVIOUS
    <3>2. QED
      BY <1>1, <1>2, <3>1, RightOf
  <2>5. h[l] < g[l] <=> b + q < n
    BY <1>3, <1>4, <1>9, <2>4
  <2>6. CASE h[l] < g[l]
    <3>1. over(s.new, e) = over(Node(B, n, q, b), Node(B, n, q, b + q))
      BY <1>7, <2>1, <2>5, <2>6
    <3>2. s.new = Node(B, n, q, b)
      BY <3>1, NodeInjective DEF over
    <3>3. QED
      BY <1>1, <1>7, <1>9, <2>3, <3>2 DEF Meet
  <2>7. CASE ~ (h[l] < g[l])
    <3>1. s.new = Node(B, n, q, b)
      BY <1>7, <2>1, <2>5, <2>7
    <3>2. QED
      BY <1>1, <1>7, <1>9, <2>3, <3>1 DEF Meet
  <2>8. QED
    BY <2>6, <2>7
<1>10. QED
  BY <1>5, <1>8, <1>9

\* From the two roots down to the node both trees share: the old tree's leaves
\* are the first of the new one's.
LEMMA RiseSound ==
  ASSUME NEW x, NEW y, NEW A, NEW B, Table(A, "plain", x), Table(B, "plain", y),
         Hashed("plain", x), Hashed("plain", y),
         NEW m \in Nat, NEW n \in Nat, m = Len(x), n = Len(y), 0 < m, m < n,
         NEW L \in Nat, NEW p, Powers(p, L), NEW h, NEW at, Way(h, at, p, m - 1, L),
         NEW g, NEW bt, Way(g, bt, p, n - 1, L), NEW k \in Nat, k + n <= L, NEW path, NEW up,
         Rose(path, up, h, g, k, n),
         up[0].old = up[0].new, up[n].old = A[m][0], up[n].new = B[n][0]
  PROVE  Same(x, y, m)
<1> DEFINE T == {i \in 0 .. n : Meet(up[i], A, B, x, y, p[k + i], at[k + i])}
<1>1. n \in T
  <2>1. k + n \in 0 .. L /\ m - 1 \in Nat
    OBVIOUS
  <2>2. PICK q : q = p[k + n]
    OBVIOUS
  <2>3. q \in Nat /\ q >= (k + n) + 1
    BY <2>1, <2>2, PowersGrow
  <2>4. at[k + n] = 0
    <3>1. m - 1 < p[k + n]
      BY <2>2, <2>3
    <3>2. QED
      BY <2>1, <3>1, TopOfWay
  <2>5. Node(A, m, q, 0) = A[m][0] /\ Node(B, n, q, 0) = B[n][0]
    <3>1. (IF q <= m - 0 THEN q ELSE m - 0) = m /\ (IF q <= n - 0 THEN q ELSE n - 0) = n
      BY <2>3
    <3>2. QED
      BY <3>1 DEF Node
  <2>6. Meet(up[n], A, B, x, y, p[k + n], at[k + n])
    BY <2>2, <2>4, <2>5 DEF Meet
  <2>7. n \in 0 .. n
    OBVIOUS
  <2>8. QED
    BY <2>6, <2>7
<1>2. ASSUME NEW i \in 0 .. n - 1, i + 1 \in T PROVE i \in T
  <2>1. i + 1 \in 1 .. n /\ (i + 1) - 1 = i /\ k + i \in 0 .. L - 1 /\ (k + i) + 1 = k + (i + 1) /\ i \in 0 .. n
    <3>1. i + 1 \in 1 .. n /\ (i + 1) - 1 = i /\ i \in 0 .. n
      OBVIOUS
    <3>2. k + i \in 0 .. L - 1
      OBVIOUS
    <3>3. (k + i) + 1 = k + (i + 1)
      OBVIOUS
    <3>4. QED
      BY <3>1, <3>2, <3>3
  <2>2. PICK l : l = k + i
    OBVIOUS
  <2>3. RoseTo(path, up[i], up[i + 1], h[l], g[l])
    BY <2>1, <2>2 DEF Rose
  <2>4. Meet(up[i + 1], A, B, x, y, p[l + 1], at[l + 1])
    BY <1>2, <2>1, <2>2
  <2>5. l \in 0 .. L - 1
    BY <2>1, <2>2
  <2>6. Meet(up[i], A, B, x, y, p[l], at[l])
    BY <2>3, <2>4, <2>5, RiseBack
  <2>7. QED
    BY <2>1, <2>2, <2>6
<1>3. 0 \in T
  <2> HIDE DEF T
  <2>1. \A i \in 0 .. n : i \in T
    BY <1>1, <1>2, DownFrom
  <2>2. 0 \in 0 .. n
    OBVIOUS
  <2>3. QED
    BY <2>1, <2>2
<1>4. PICK q, a : q = p[k] /\ a = at[k]
  OBVIOUS
<1>5. Meet(up[0], A, B, x, y, q, a)
  <2>1. k + 0 = k
    OBVIOUS
  <2>2. QED
    BY <1>3, <1>4, <2>1
<1>6. k \in 0 .. L
  OBVIOUS
<1>7. q \in Nat /\ q >= 1 /\ a \in Nat /\ a <= m - 1 /\ m - 1 < a + q
  <2>1. q \in Nat /\ q >= 1
    <3>1. p[k] \in Nat /\ p[k] >= k + 1
      BY <1>6, PowersGrow
    <3>2. k \in Nat
      OBVIOUS
    <3>3. QED
      BY <1>4, <3>1, <3>2
  <2>2. QED
    BY <1>4, <1>6, <2>1 DEF Way
<1>8. PICK r, s : r = m - a /\ s = IF q <= n - a THEN q ELSE n - a
  OBVIOUS
<1>9. r = IF q <= m - a THEN q ELSE m - a
  BY <1>7, <1>8
<1>10. A[r][a] = B[s][a]
  BY <1>5, <1>8, <1>9 DEF Meet, Node
<1>11. r \in 1 .. m /\ a \in 0 .. m - r /\ s \in 1 .. n /\ a \in 0 .. n - s
  BY <1>7, <1>8
<1>12. Agree(x, y, a, r)
  <2>1. Names(r, x, y, A, B)
    <3>1. \A i \in 1 .. Len(x) : Names(i, x, y, A, B)
      BY HeadsInjective
    <3>2. QED
      BY <1>11, <3>1
  <2>2. a \in 0 .. Len(x) - r /\ s \in 1 .. Len(y) /\ a \in 0 .. Len(y) - s
    BY <1>11
  <2>3. QED
    BY <1>10, <2>1, <2>2, SameNode
<1>13. ASSUME NEW j \in 1 .. m PROVE x[j] = y[j]
  <2>1. CASE j <= a
    BY <1>5, <1>7, <2>1 DEF Meet
  <2>2. CASE j > a
    <3>1. j - a \in 1 .. r /\ a + (j - a) = j
      BY <1>7, <1>8, <2>2
    <3>2. QED
      BY <1>12, <3>1 DEF Agree
  <2>3. QED
    BY <1>7, <2>1, <2>2
<1>14. QED
  BY <1>13 DEF Same

\* The root of a log.
LEMMA RootOfLog ==
  ASSUME NEW S, NEW s \in Seq(S), s # <<>>
  PROVE  root(s) = mth("plain", Leaves("plain", s)) /\ root(s) = trees(s)[Len(s)][0]
<1>1. trees(s) = heads("plain", Leaves("plain", s))
  BY DEF trees, Leaves, Digest
<1>2. root(s) = trees(s)[Len(s)][0]
  BY DEF root
<1>3. Len(Leaves("plain", s)) = Len(s)
  BY LeavesOfList
<1>4. QED
  BY <1>1, <1>2, <1>3 DEF mth

\* Its tree.
LEMMA TreesOfLog ==
  ASSUME NEW S, NEW s \in Seq(S)
  PROVE  /\ Table(trees(s), "plain", Leaves("plain", s)) /\ Hashed("plain", Leaves("plain", s))
         /\ Len(Leaves("plain", s)) = Len(s) /\ Len(s) \in Nat
<1>1. trees(s) = heads("plain", Leaves("plain", s))
  BY DEF trees, Leaves, Digest
<1>2. Len(Leaves("plain", s)) = Len(s) /\ Len(s) \in Nat /\ Hashed("plain", Leaves("plain", s))
  BY LeavesOfList
<1>3. Table(heads("plain", Leaves("plain", s)), "plain", Leaves("plain", s))
  BY <1>2, HeadsTable
<1>4. QED
  BY <1>1, <1>2, <1>3

\* Whatever path it is shown, verify_consistency accepts a larger tree only if
\* its first leaves are those of the older.
LEMMA ConsistencySound ==
  ASSUME NEW S, NEW v \in Seq(S), NEW w \in Seq(S), v # <<>>, Len(v) < Len(w), NEW path,
         rebuilt(Head_(v), Head_(w), path).ok,
         rebuilt(Head_(v), Head_(w), path).old = root(v),
         rebuilt(Head_(v), Head_(w), path).new = root(w)
  PROVE  Same(v, w, Len(v))
<1>1. PICK x, y, A, B : x = Leaves("plain", v) /\ y = Leaves("plain", w) /\ A = trees(v) /\ B = trees(w)
  OBVIOUS
<1>2. Table(A, "plain", x) /\ Hashed("plain", x) /\ Len(x) = Len(v) /\ Len(v) \in Nat
  BY <1>1, TreesOfLog
<1>3. Table(B, "plain", y) /\ Hashed("plain", y) /\ Len(y) = Len(w) /\ Len(w) \in Nat
  BY <1>1, TreesOfLog
<1>4. PICK m, n : m = Len(v) /\ n = Len(w)
  OBVIOUS
<1>5. m \in Nat /\ n \in Nat /\ 0 < m /\ m < n /\ m - 1 \in Nat /\ n - 1 \in Nat
  BY <1>2, <1>3, <1>4, EmptySeq
<1>6. PICK L : L = 2 * n
  OBVIOUS
<1>7. L \in Nat
  BY <1>5, <1>6
<1>8. PICK p : Powers(p, L)
  BY <1>7, PowersExist
<1>9. PICK h, at : Way(h, at, p, m - 1, L)
  BY <1>5, <1>7, <1>8, WaysExist
<1>10. PICK g, bt : Way(g, bt, p, n - 1, L)
  BY <1>5, <1>7, <1>8, WaysExist
<1>11. PICK k \in 0 .. m - 1 : shared(m - 1, n - 1) = <<h[k], g[k]>>
  <2>1. m - 1 <= L
    BY <1>5, <1>6
  <2>2. QED
    BY <1>5, <1>7, <1>8, <1>9, <1>10, <2>1, SharedLevel
<1>12. PICK used, e : rebuilt(Head_(v), Head_(w), path) = rise(path, h[k], g[k], used, e, n)
  BY <1>4, <1>11 DEF rebuilt, Head_
<1>13. PICK up : RiseRun(up, path, h[k], g[k], used, e, n)
  BY <1>5, RiseTurns
<1>14. /\ up[0] = RiseStart(h[k], g[k], used, e) /\ rise(path, h[k], g[k], used, e, n) = up[n]
       /\ \A i \in 1 .. n : up[i] = risen(path, up[i - 1])
  BY <1>13 DEF RiseRun
<1>15. k \in Nat /\ k + n <= L
  BY <1>5, <1>6
<1>16. up[n].ok /\ up[n].old = A[m][0] /\ up[n].new = B[n][0]
  <2>1. w # <<>>
    BY <1>4, <1>5, EmptySeq
  <2>2. root(v) = A[m][0] /\ root(w) = B[n][0]
    BY <1>1, <1>4, <2>1, RootOfLog
  <2>3. QED
    BY <1>12, <1>14, <2>2
<1>17. Rose(path, up, h, g, k, n)
  <2>1. Halves(h, m - 1, L) /\ Halves(g, n - 1, L)
    BY <1>9, <1>10 DEF Way
  <2>2. QED
    BY <1>5, <1>7, <1>14, <1>15, <1>16, <2>1, RiseRounds
<1>18. up[0].old = up[0].new
  <2>1. PICK a, b : a = h[k] /\ b = g[k]
    OBVIOUS
  <2>2. RiseStart(a, b, used, e).old = e /\ RiseStart(a, b, used, e).new = e
    BY DEF RiseStart
  <2>3. QED
    BY <1>14, <2>1, <2>2
<1>19. Same(x, y, m)
  <2>1. m = Len(x) /\ n = Len(y)
    BY <1>2, <1>3, <1>4
  <2>2. QED
    BY <1>2, <1>3, <1>5, <1>7, <1>8, <1>9, <1>10, <1>15, <1>16, <1>17, <1>18, <2>1, RiseSound
<1>20. ASSUME NEW j \in 1 .. m PROVE v[j] = w[j]
  <2>1. x[j] = leaf("plain", v[j])
    BY <1>1, <1>4, LeavesOfList
  <2>2. y[j] = leaf("plain", w[j])
    <3>1. j \in 1 .. Len(w)
      BY <1>4, <1>5
    <3>2. QED
      BY <1>1, <3>1, LeavesOfList
  <2>3. QED
    BY <1>19, <2>1, <2>2, LeafInjective DEF Same
<1>21. QED
  BY <1>4, <1>20 DEF Same

-----------------------------------------------------------------------------
(* The client.                                                             *)

\* The head it holds is the one of the leaves it does not see.
ktInv == log \in Seq(Nat) /\ view \in Seq(Nat) /\ pinned = Head_(view)

\* It holds of a log and a client that are new.
LEMMA KtInit == ktInit => ktInv
  BY DEF ktInit, ktInv

\* And every action keeps it: append, fork, rejoin, and advance with any path.
LEMMA KtNext == ktInv /\ [ktNext]_ktVars => ktInv'
<1> SUFFICES ASSUME ktInv, [ktNext]_ktVars PROVE ktInv'
  OBVIOUS
<1>1. CASE append
  <2>1. Len(log) + 1 + (IF Forked THEN 100 ELSE 0) \in Nat
    BY DEF ktInv
  <2>2. log' \in Seq(Nat)
    BY <1>1, <2>1 DEF append, ktInv
  <2>3. QED
    BY <1>1, <2>2 DEF append, ktInv
<1>2. ASSUME NEW k \in 0 .. MaxLeaves - 1, fork(k) PROVE ktInv'
  <2>1. k \in Nat /\ k < Len(log) /\ Len(log) \in Nat
    BY <1>2 DEF fork, ktInv
  <2>2. SubSeq(log, 1, k) \in Seq(Nat)
    BY <2>1 DEF ktInv
  <2>3. Append(SubSeq(log, 1, k), k + 101) \in Seq(Nat)
    BY <2>1, <2>2
  <2>4. QED
    BY <1>2, <2>3 DEF fork, ktInv
<1>3. CASE rejoin
  <2>1. Len(log) \in Nat
    BY DEF ktInv
  <2>2. [i \in 1 .. Len(log) |-> i] \in Seq(Nat)
    BY <2>1
  <2>3. QED
    BY <1>3, <2>2 DEF rejoin, ktInv
<1>4. ASSUME NEW path, advance(path) PROVE ktInv'
  <2>1. log' = log /\ view' = log /\ pinned' = Head_(log)
    BY <1>4 DEF advance
  <2>2. QED
    BY <2>1 DEF ktInv
<1>5. CASE UNCHANGED ktVars
  BY <1>5 DEF ktInv, ktVars
<1>6. QED
  BY <1>1, <1>2, <1>3, <1>4, <1>5 DEF ktNext

\* What an accepted head stands for extends what the last one stood for.
LEMMA Extends ==
  ASSUME NEW v \in Seq(Nat), NEW w \in Seq(Nat), w # <<>>, NEW path,
         verify_consistency(Head_(v), Head_(w), path)
  PROVE  IsPrefix(v, w)
<1>1. /\ Head_(v).tree_size = Len(v) /\ Head_(v).root_hash = root(v)
      /\ Head_(w).tree_size = Len(w) /\ Head_(w).root_hash = root(w)
  BY DEF Head_
<1>2. Len(v) \in Nat /\ Len(w) \in Nat /\ Len(w) # 0
  BY EmptySeq
<1>3. CASE Len(v) = Len(w) /\ root(v) = root(w)
  <2>1. v # <<>>
    BY <1>2, <1>3
  <2>2. mth("plain", Leaves("plain", v)) = mth("plain", Leaves("plain", w))
    BY <1>3, <2>1, RootOfLog
  <2>3. v = w
    BY <2>1, <2>2, RootsInjective
  <2>4. QED
    BY <1>2, <2>3 DEF IsPrefix
<1>4. CASE Len(v) = 0
  <2>1. SubSeq(v, 1, 0) = <<>> /\ SubSeq(w, 1, 0) = <<>>
    BY SubSeqEmpty
  <2>2. QED
    BY <1>2, <1>4, <2>1 DEF IsPrefix
<1>5. CASE /\ 0 < Len(v) /\ Len(v) < Len(w) /\ rebuilt(Head_(v), Head_(w), path).ok
           /\ rebuilt(Head_(v), Head_(w), path).old = root(v)
           /\ rebuilt(Head_(v), Head_(w), path).new = root(w)
  <2>1. v # <<>>
    BY <1>2, <1>5, EmptySeq
  <2>2. Same(v, w, Len(v))
    BY <1>5, <2>1, ConsistencySound
  <2>3. \A j \in 1 .. Len(v) : v[j] \in Nat /\ w[j] \in Nat /\ v[j] = w[j]
    <3> SUFFICES ASSUME NEW j \in 1 .. Len(v) PROVE v[j] \in Nat /\ w[j] \in Nat /\ v[j] = w[j]
      OBVIOUS
    <3>1. j \in 1 .. Len(w)
      BY <1>2, <1>5
    <3>2. v[j] \in Nat /\ w[j] \in Nat
      BY <3>1, ElementOfSeq
    <3>3. v[j] = w[j]
      BY <2>2 DEF Same
    <3>4. QED
      BY <3>2, <3>3
  <2>4. PICK m : m = Len(v)
    OBVIOUS
  <2>5. /\ SubSeq(v, 1, m) \in Seq(Nat) /\ Len(SubSeq(v, 1, m)) = m
        /\ \A i \in 1 .. m : SubSeq(v, 1, m)[i] = v[i]
    BY <1>2, <1>5, <2>3, <2>4
  <2>6. /\ SubSeq(w, 1, m) \in Seq(Nat) /\ Len(SubSeq(w, 1, m)) = m
        /\ \A i \in 1 .. m : SubSeq(w, 1, m)[i] = w[i]
    BY <1>2, <1>5, <2>3, <2>4
  <2>7. SubSeq(v, 1, m) = SubSeq(w, 1, m)
    <3>1. \A i \in 1 .. m : SubSeq(v, 1, m)[i] = SubSeq(w, 1, m)[i]
      BY <2>3, <2>4, <2>5, <2>6
    <3>2. QED
      BY <2>5, <2>6, <3>1, SeqEqual
  <2>8. QED
    BY <1>2, <1>5, <2>4, <2>7 DEF IsPrefix
<1>6. \/ Len(v) = Len(w) /\ root(v) = root(w)
      \/ Len(v) = 0
      \/ /\ 0 < Len(v) /\ Len(v) < Len(w) /\ rebuilt(Head_(v), Head_(w), path).ok
         /\ rebuilt(Head_(v), Head_(w), path).old = root(v)
         /\ rebuilt(Head_(v), Head_(w), path).new = root(w)
  BY <1>1 DEF verify_consistency
<1>7. QED
  BY <1>3, <1>4, <1>5, <1>6

\* A client that pins only what verify_consistency accepts never leaves the
\* history it has seen, for logs of every size and every path it is shown.
THEOREM ClientHistory == ktSpec => AppendOnlyView
<1>1. ktInv /\ [ktNext]_ktVars => [IsPrefix(view, view')]_ktVars
  <2> SUFFICES ASSUME ktInv, ktNext PROVE IsPrefix(view, view')
    OBVIOUS
  <2>1. ASSUME view' = view PROVE IsPrefix(view, view')
    <3>1. Len(view) \in Nat
      BY DEF ktInv
    <3>2. QED
      BY <2>1, <3>1 DEF IsPrefix
  <2>2. CASE append
    BY <2>1, <2>2 DEF append
  <2>3. ASSUME NEW k \in 0 .. MaxLeaves - 1, fork(k) PROVE IsPrefix(view, view')
    BY <2>1, <2>3 DEF fork
  <2>4. CASE rejoin
    BY <2>1, <2>4 DEF rejoin
  <2>5. ASSUME NEW path, advance(path) PROVE IsPrefix(view, view')
    <3>1. log # <<>> /\ view' = log /\ verify_consistency(Head_(view), Head_(log), path)
      BY <2>5 DEF advance, ktInv
    <3>2. view \in Seq(Nat) /\ log \in Seq(Nat)
      BY DEF ktInv
    <3>3. QED
      BY <3>1, <3>2, Extends
  <2>6. QED
    BY <2>2, <2>3, <2>4, <2>5 DEF ktNext
<1>2. QED
  BY <1>1, KtInit, KtNext, PTL DEF ktSpec, AppendOnlyView

-----------------------------------------------------------------------------
(* The siblings on the way of a leaf.                                      *)

\* Leaf x of the N that y lists, T being their heads, on its way up.
On(T, y, N, p, x, h, at, g, bt, L) ==
  /\ N \in Nat /\ N = Len(y) /\ x \in 0 .. N - 1 /\ L \in Nat /\ Table(T, "plain", y)
  /\ Powers(p, L) /\ Way(h, at, p, x, L) /\ Way(g, bt, p, N - 1, L)

\* There is a sibling on level l, and its head.
HasSib(h, g, l) == (h[l] % 2) = 1 \/ h[l] < g[l]

Sib(T, N, p, at, h, l) ==
  IF (h[l] % 2) = 1 THEN Node(T, N, p[l], at[l + 1]) ELSE Node(T, N, p[l], at[l] + p[l])

Size(N, q, a) == IF q <= N - a THEN q ELSE N - a

\* The numbers of a level.
LEMMA OnLevel ==
  ASSUME NEW T, NEW y, NEW N, NEW p, NEW x, NEW h, NEW at, NEW g, NEW bt, NEW L,
         On(T, y, N, p, x, h, at, g, bt, L), NEW l \in 0 .. L - 1
  PROVE  /\ p[l] \in Nat /\ p[l] >= 1 /\ p[l + 1] = 2 * p[l]
         /\ at[l] \in Nat /\ at[l + 1] \in Nat /\ at[l] <= x /\ x < at[l] + p[l] /\ at[l + 1] <= x
         /\ \/ (h[l] % 2) = 1 /\ at[l] = at[l + 1] + p[l]
            \/ (h[l] % 2) = 0 /\ at[l] = at[l + 1]
         /\ h[l] < g[l] <=> at[l] + p[l] < N
         /\ HasSib(h, g, l) <=> at[l + 1] + p[l] < N
<1>1. /\ N \in Nat /\ x \in 0 .. N - 1 /\ L \in Nat
      /\ Powers(p, L) /\ Way(h, at, p, x, L) /\ Way(g, bt, p, N - 1, L)
  BY DEF On
<1>2. l \in 0 .. L /\ l + 1 \in 0 .. L /\ l + 1 \in 1 .. L /\ (l + 1) - 1 = l
  BY <1>1
<1>3. p[l] \in Nat /\ p[l] >= l + 1
  BY <1>1, <1>2, PowersGrow
<1>4. p[l] >= 1
  BY <1>2, <1>3
<1>5. p[l + 1] = 2 * p[l]
  BY <1>1, <1>2 DEF Powers
<1>6. at[l] \in Nat /\ at[l + 1] \in Nat /\ at[l] <= x /\ x < at[l] + p[l] /\ at[l + 1] <= x
  BY <1>1, <1>2 DEF Way
<1>7. \/ (h[l] % 2) = 1 /\ at[l] = at[l + 1] + p[l]
      \/ (h[l] % 2) = 0 /\ at[l] = at[l + 1]
  BY <1>1 DEF Way
<1>8. h[l] < g[l] <=> at[l] + p[l] <= N - 1
  <2>1. N - 1 \in Nat /\ x \in Nat
    BY <1>1
  <2>2. QED
    BY <1>1, <1>2, <2>1, RightOf
<1>9. h[l] < g[l] <=> at[l] + p[l] < N
  BY <1>1, <1>3, <1>6, <1>8
<1>10. HasSib(h, g, l) <=> at[l + 1] + p[l] < N
  <2>1. CASE (h[l] % 2) = 1 /\ at[l] = at[l + 1] + p[l]
    <3>1. at[l] < N
      BY <1>1, <1>6
    <3>2. QED
      BY <2>1, <3>1 DEF HasSib
  <2>2. CASE (h[l] % 2) = 0 /\ at[l] = at[l + 1]
    BY <1>9, <2>2 DEF HasSib
  <2>3. QED
    BY <1>7, <2>1, <2>2
<1>11. QED
  BY <1>3, <1>4, <1>5, <1>6, <1>7, <1>9, <1>10

\* The way down, on level l.
DownTo(N, p, at, l, path) == [lo |-> at[l], n |-> Size(N, p[l], at[l]), path |-> path]

\* The node on level l is also the one on the level above, or a half of it.
Alone(N, p, at, l) == at[l] = at[l + 1] /\ Size(N, p[l], at[l]) = Size(N, p[l + 1], at[l + 1])

Half(T, N, p, x, at, h, l) ==
  /\ Size(N, p[l], at[l]) < Size(N, p[l + 1], at[l + 1]) /\ 1 < Size(N, p[l + 1], at[l + 1])
  /\ \A path : halved(T, DownTo(N, p, at, l + 1, path), x)
                 = DownTo(N, p, at, l, <<Sib(T, N, p, at, h, l)>> \o path)

\* One level down: to the half with the leaf, past its sibling if it has one.
LEMMA OneDown ==
  ASSUME NEW T, NEW y, NEW N, NEW p, NEW x, NEW h, NEW at, NEW g, NEW bt, NEW L,
         On(T, y, N, p, x, h, at, g, bt, L), NEW l \in 0 .. L - 1
  PROVE  /\ ~ HasSib(h, g, l) => Alone(N, p, at, l)
         /\ HasSib(h, g, l) => Half(T, N, p, x, at, h, l)
<1>1. PICK q, a, b : q = p[l] /\ a = at[l] /\ b = at[l + 1]
  OBVIOUS
<1>2. /\ q \in Nat /\ q >= 1 /\ p[l + 1] = 2 * q
      /\ a \in Nat /\ b \in Nat /\ a <= x /\ x < a + q /\ b <= x
      /\ \/ (h[l] % 2) = 1 /\ a = b + q
         \/ (h[l] % 2) = 0 /\ a = b
      /\ HasSib(h, g, l) <=> b + q < N
  BY <1>1, OnLevel
<1>3. N \in Nat /\ x \in 0 .. N - 1
  BY DEF On
<1>4. ASSUME ~ HasSib(h, g, l)
      PROVE  Alone(N, p, at, l)
  <2>1. ~ (b + q < N)
    BY <1>2, <1>4
  <2>2. a = b
    BY <1>2, <1>3, <2>1
  <2>3. (IF q <= N - b THEN q ELSE N - b) = (IF 2 * q <= N - b THEN 2 * q ELSE N - b)
    BY <1>2, <1>3, <2>1
  <2>4. QED
    BY <1>1, <1>2, <2>2, <2>3 DEF Size, Alone
<1>5. ASSUME HasSib(h, g, l)
      PROVE  Half(T, N, p, x, at, h, l)
  <2>1. b + q < N
    BY <1>2, <1>5
  <2>2. PICK s, r, e : s = Size(N, 2 * q, b) /\ r = Size(N, q, a) /\ e = Sib(T, N, p, at, h, l)
    OBVIOUS
  <2>3. s \in Nat /\ q < s /\ s <= 2 * q
    BY <1>2, <1>3, <2>1, <2>2 DEF Size
  <2>4. split_point(s) = q
    <3>1. l \in 0 .. L /\ L \in Nat /\ Powers(p, L)
      BY DEF On
    <3>2. QED
      BY <1>1, <2>3, <3>1, SplitIsPower
  <2>5. ASSUME NEW path PROVE halved(T, [lo |-> b, n |-> s, path |-> path], x) = [lo |-> a, n |-> r, path |-> <<e>> \o path]
    <3>1. halved(T, [lo |-> b, n |-> s, path |-> path], x)
            = IF x < b + q THEN [lo |-> b, n |-> q, path |-> <<T[s - q][b + q]>> \o path]
              ELSE [lo |-> b + q, n |-> s - q, path |-> <<T[q][b]>> \o path]
      BY <2>4 DEF halved
    <3>2. CASE (h[l] % 2) = 1 /\ a = b + q
      <4>1. ~ (x < b + q)
        BY <1>2, <1>3, <3>2
      <4>2. r = s - q
        BY <1>2, <1>3, <2>1, <2>2, <3>2 DEF Size
      <4>3. e = T[q][b]
        <5>1. e = Node(T, N, q, b)
          BY <1>1, <2>2, <3>2 DEF Sib
        <5>2. q <= N - b
          BY <1>2, <1>3, <2>1
        <5>3. QED
          BY <5>1, <5>2 DEF Node
      <4>4. QED
        BY <3>1, <3>2, <4>1, <4>2, <4>3
    <3>3. CASE (h[l] % 2) = 0 /\ a = b
      <4>1. x < b + q
        BY <1>2, <3>3
      <4>2. r = q
        BY <1>2, <1>3, <2>1, <2>2, <3>3 DEF Size
      <4>3. e = T[s - q][b + q]
        <5>1. e = Node(T, N, q, b + q)
          BY <1>1, <2>2, <3>3 DEF Sib
        <5>2. s - q = IF q <= N - (b + q) THEN q ELSE N - (b + q)
          BY <1>2, <1>3, <2>1, <2>2 DEF Size
        <5>3. QED
          BY <5>1, <5>2 DEF Node
      <4>4. QED
        BY <3>1, <3>3, <4>1, <4>2, <4>3
    <3>4. QED
      BY <1>2, <3>2, <3>3
  <2>6. r < s /\ 1 < s
    <3>1. CASE a = b + q
      BY <1>2, <1>3, <2>1, <2>2, <3>1 DEF Size
    <3>2. CASE a = b
      BY <1>2, <1>3, <2>1, <2>2, <3>2 DEF Size
    <3>3. QED
      BY <1>2, <3>1, <3>2
  <2>7. s = Size(N, p[l + 1], at[l + 1]) /\ r = Size(N, p[l], at[l])
    BY <1>1, <1>2, <2>2
  <2>8. QED
    BY <1>1, <2>2, <2>5, <2>6, <2>7 DEF Half, DownTo
<1>6. QED
  BY <1>4, <1>5

\* How many siblings there are below a level.
Counts(c, h, g, K) ==
  /\ c \in [0 .. K -> Nat] /\ c[0] = 0
  /\ \A l \in 0 .. K - 1 : c[l + 1] = IF HasSib(h, g, l) THEN c[l] + 1 ELSE c[l]
  /\ \A j \in 0 .. K, l \in 0 .. K : j <= l => c[j] <= c[l]

\* They can be counted.
LEMMA CountsExist ==
  ASSUME NEW h, NEW g, NEW K \in Nat
  PROVE  \E c : Counts(c, h, g, K)
<1> DEFINE of == [i \in 1 .. K |-> IF HasSib(h, g, i - 1) THEN 1 ELSE 0]
           loop == [loop |-> "count", of |-> of]
<1>1. PICK c : Turns(c, loop, 0, K)
  BY LoopTurns
<1>2. \A i, v : Turn(loop, i, v) = v + of[i]
  BY DEF Turn
<1> HIDE DEF loop
<1>3. c[0] = 0 /\ \A i \in 1 .. K : c[i] = Turn(loop, i, c[i - 1])
  BY <1>1, TurnByTurn
<1>4. \A i \in 1 .. K : c[i] = c[i - 1] + of[i]
  BY <1>3, <1>2
<1>5. \A i \in 1 .. K : of[i] = IF HasSib(h, g, i - 1) THEN 1 ELSE 0
  OBVIOUS
<1>6. c = [i \in 0 .. K |-> c[i]]
  BY <1>1 DEF Turns
<1> HIDE DEF of
<1> DEFINE U == {i \in 0 .. K : c[i] \in Nat}
<1>7. \A l \in 0 .. K : l \in U
  <2>1. 0 \in U
    BY <1>3
  <2>2. ASSUME NEW l \in 1 .. K, l - 1 \in U PROVE l \in U
    <3>1. of[l] \in {0, 1} /\ c[l] = c[l - 1] + of[l] /\ c[l - 1] \in Nat
      BY <1>4, <1>5, <2>2
    <3>2. QED
      BY <3>1
  <2> HIDE DEF U
  <2>3. QED
    BY <2>1, <2>2, UpFromZero
<1>8. c \in [0 .. K -> Nat]
  BY <1>6, <1>7
<1>9. ASSUME NEW l \in 0 .. K - 1 PROVE c[l + 1] = IF HasSib(h, g, l) THEN c[l] + 1 ELSE c[l]
  <2>1. l + 1 \in 1 .. K /\ (l + 1) - 1 = l /\ l \in 0 .. K
    OBVIOUS
  <2>2. c[l + 1] = c[l] + of[l + 1] /\ of[l + 1] = (IF HasSib(h, g, l) THEN 1 ELSE 0) /\ c[l] \in Nat
    BY <1>4, <1>5, <1>8, <2>1
  <2>3. QED
    BY <2>2
<1>10. ASSUME NEW l \in 0 .. K PROVE \A j \in 0 .. l : c[j] <= c[l]
  <2> DEFINE V == {j \in 0 .. l : c[j] <= c[l]}
  <2>1. l \in V
    BY <1>8
  <2>2. ASSUME NEW j \in 0 .. l - 1, j + 1 \in V PROVE j \in V
    <3>1. j \in 0 .. K - 1 /\ j \in 0 .. K /\ j + 1 \in 0 .. K
      OBVIOUS
    <3>2. c[j] \in Nat /\ c[j + 1] \in Nat /\ c[l] \in Nat /\ (c[j + 1] = c[j] + 1 \/ c[j + 1] = c[j])
      BY <1>8, <1>9, <3>1
    <3>3. c[j + 1] <= c[l]
      BY <2>2
    <3>4. c[j] <= c[l]
      BY <3>2, <3>3
    <3>5. QED
      BY <3>4
  <2> HIDE DEF V
  <2>3. \A j \in 0 .. l : j \in V
    BY <2>1, <2>2, DownFrom
  <2>4. QED
    BY <2>3 DEF V
<1>11. ASSUME NEW j \in 0 .. K, NEW l \in 0 .. K, j <= l PROVE c[j] <= c[l]
  <2>1. j \in 0 .. l
    BY <1>11
  <2>2. QED
    BY <1>10, <2>1
<1>12. Counts(c, h, g, K)
  BY <1>3, <1>8, <1>9, <1>11 DEF Counts
<1>13. QED
  BY <1>12

\* The heads of a tree.
HeadsOf(T, N) == {T[r][a] : r \in 1 .. N, a \in 0 .. N}

\* The path lists the siblings on the levels from l to K, the lowest first.
Sibs(path, c, l, K, T, N, p, at, h, g) ==
  /\ path \in Seq(HeadsOf(T, N)) /\ Len(path) = c[K] - c[l]
  /\ \A j \in l .. K - 1 : HasSib(h, g, j) => path[c[j] - c[l] + 1] = Sib(T, N, p, at, h, j)

\* A sibling is a head of the tree.
LEMMA SibIsHead ==
  ASSUME NEW T, NEW y, NEW N, NEW p, NEW x, NEW h, NEW at, NEW g, NEW bt, NEW L,
         On(T, y, N, p, x, h, at, g, bt, L), NEW l \in 0 .. L - 1, HasSib(h, g, l)
  PROVE  Sib(T, N, p, at, h, l) \in HeadsOf(T, N)
<1>1. PICK q, a, b : q = p[l] /\ a = at[l] /\ b = at[l + 1]
  OBVIOUS
<1>2. /\ q \in Nat /\ q >= 1 /\ a \in Nat /\ b \in Nat /\ b + q < N
      /\ \/ (h[l] % 2) = 1
         \/ (h[l] % 2) = 0 /\ a = b
  BY <1>1, OnLevel
<1>3. N \in Nat
  BY DEF On
<1>4. PICK r, s : r = Size(N, q, b) /\ s = Size(N, q, b + q)
  OBVIOUS
<1>5. r \in 1 .. N /\ s \in 1 .. N /\ b \in 0 .. N /\ b + q \in 0 .. N
  BY <1>2, <1>3, <1>4 DEF Size
<1>6. Node(T, N, q, b) = T[r][b] /\ Node(T, N, q, b + q) = T[s][b + q]
  BY <1>4 DEF Node, Size
<1>7. Node(T, N, q, b) \in HeadsOf(T, N) /\ Node(T, N, q, b + q) \in HeadsOf(T, N)
  BY <1>5, <1>6 DEF HeadsOf
<1>8. Sib(T, N, p, at, h, l) = Node(T, N, q, b) \/ Sib(T, N, p, at, h, l) = Node(T, N, q, b + q)
  BY <1>1, <1>2 DEF Sib
<1>9. QED
  BY <1>7, <1>8

\* One level further down the list grows at its front, if at all.
LEMMA SibsDown ==
  ASSUME NEW T, NEW y, NEW N, NEW p, NEW x, NEW h, NEW at, NEW g, NEW bt, NEW L,
         On(T, y, N, p, x, h, at, g, bt, L), NEW K \in 0 .. L, NEW c, Counts(c, h, g, K),
         NEW l \in 0 .. K - 1, NEW path, Sibs(path, c, l + 1, K, T, N, p, at, h, g)
  PROVE  /\ ~ HasSib(h, g, l) => Sibs(path, c, l, K, T, N, p, at, h, g)
         /\ HasSib(h, g, l) => Sibs(<<Sib(T, N, p, at, h, l)>> \o path, c, l, K, T, N, p, at, h, g)
<1>1. L \in Nat /\ K \in Nat /\ l \in 0 .. L - 1
  BY DEF On
<1>2. PICK u, v, w : u = c[l] /\ v = c[l + 1] /\ w = c[K]
  OBVIOUS
<1>3. u \in Nat /\ v \in Nat /\ w \in Nat /\ v <= w /\ v = IF HasSib(h, g, l) THEN u + 1 ELSE u
  BY <1>1, <1>2 DEF Counts
<1>4. \A j \in l + 1 .. K - 1 : c[j] \in Nat /\ v <= c[j] /\ (HasSib(h, g, j) => c[j] + 1 <= w)
  <2> SUFFICES ASSUME NEW j \in l + 1 .. K - 1
               PROVE  c[j] \in Nat /\ v <= c[j] /\ (HasSib(h, g, j) => c[j] + 1 <= w)
    OBVIOUS
  <2>1. j \in 0 .. K /\ l + 1 \in 0 .. K /\ j + 1 \in 0 .. K /\ K \in 0 .. K /\ j \in 0 .. K - 1
    BY <1>1
  <2>2. c[j] \in Nat /\ c[l + 1] <= c[j] /\ c[j + 1] <= c[K]
    BY <2>1 DEF Counts
  <2>3. HasSib(h, g, j) => c[j + 1] = c[j] + 1
    BY <2>1 DEF Counts
  <2>4. QED
    BY <1>2, <2>2, <2>3
<1>5. /\ path \in Seq(HeadsOf(T, N)) /\ Len(path) = w - v
      /\ \A j \in l + 1 .. K - 1 : HasSib(h, g, j) => path[c[j] - v + 1] = Sib(T, N, p, at, h, j)
  BY <1>2 DEF Sibs
<1>6. CASE ~ HasSib(h, g, l)
  <2>1. u = v
    BY <1>3, <1>6
  <2>2. ASSUME NEW j \in l .. K - 1, HasSib(h, g, j) PROVE path[c[j] - u + 1] = Sib(T, N, p, at, h, j)
    <3>1. j # l
      BY <1>6, <2>2
    <3>2. j \in l + 1 .. K - 1
      BY <3>1
    <3>3. QED
      BY <1>5, <2>1, <2>2, <3>2
  <2>3. QED
    BY <1>2, <1>5, <1>6, <2>1, <2>2 DEF Sibs
<1>7. CASE HasSib(h, g, l)
  <2>1. v = u + 1
    BY <1>3, <1>7
  <2>2. PICK e : e = Sib(T, N, p, at, h, l)
    OBVIOUS
  <2>3. e \in HeadsOf(T, N)
    BY <1>1, <1>7, <2>2, SibIsHead
  <2>4. /\ <<e>> \o path \in Seq(HeadsOf(T, N)) /\ Len(<<e>> \o path) = (w - v) + 1
        /\ (<<e>> \o path)[1] = e
        /\ \A i \in 1 .. w - v : (<<e>> \o path)[i + 1] = path[i]
    <3>1. <<e>> \in Seq(HeadsOf(T, N)) /\ Len(<<e>>) = 1 /\ <<e>>[1] = e
      BY <2>3
    <3>2. /\ <<e>> \o path \in Seq(HeadsOf(T, N)) /\ Len(<<e>> \o path) = Len(<<e>>) + Len(path)
          /\ \A i \in 1 .. Len(<<e>>) + Len(path) : (<<e>> \o path)[i] =
               IF i <= Len(<<e>>) THEN <<e>>[i] ELSE path[i - Len(<<e>>)]
      BY <1>5, <3>1, ConcatProperties
    <3>3. \A i \in 1 .. 1 + (w - v) : (<<e>> \o path)[i] = IF i <= 1 THEN <<e>>[i] ELSE path[i - 1]
      BY <1>5, <3>1, <3>2
    <3>4. (<<e>> \o path)[1] = e
      <4>1. 1 \in 1 .. 1 + (w - v) /\ 1 <= 1
        BY <1>3
      <4>2. QED
        BY <3>1, <3>3, <4>1
    <3>5. ASSUME NEW i \in 1 .. w - v PROVE (<<e>> \o path)[i + 1] = path[i]
      <4>1. i + 1 \in 1 .. 1 + (w - v) /\ ~ (i + 1 <= 1) /\ (i + 1) - 1 = i
        BY <1>3
      <4>2. QED
        BY <3>3, <4>1
    <3>6. Len(<<e>> \o path) = (w - v) + 1
      BY <1>3, <1>5, <3>1, <3>2
    <3>7. QED
      BY <3>2, <3>4, <3>5, <3>6
  <2>5. ASSUME NEW j \in l .. K - 1, HasSib(h, g, j)
        PROVE  (<<e>> \o path)[c[j] - u + 1] = Sib(T, N, p, at, h, j)
    <3>1. CASE j = l
      <4>1. c[j] - u + 1 = 1
        BY <1>2, <1>3, <3>1
      <4>2. QED
        BY <2>2, <2>4, <3>1, <4>1
    <3>2. CASE j # l
      <4>1. j \in l + 1 .. K - 1
        BY <3>2
      <4>2. PICK i : i = c[j] - v + 1
        OBVIOUS
      <4>3. i \in 1 .. w - v /\ c[j] - u + 1 = i + 1
        BY <1>3, <1>4, <2>1, <2>5, <4>1, <4>2
      <4>4. path[i] = Sib(T, N, p, at, h, j)
        BY <1>5, <2>5, <4>1, <4>2
      <4>5. QED
        BY <2>4, <4>3, <4>4
    <3>3. QED
      BY <3>1, <3>2
  <2>6. (w - v) + 1 = w - u
    BY <1>3, <2>1
  <2>7. Sibs(<<e>> \o path, c, l, K, T, N, p, at, h, g)
    BY <1>2, <2>4, <2>5, <2>6 DEF Sibs
  <2>8. QED
    BY <1>7, <2>2, <2>7
<1>8. QED
  BY <1>6, <1>7

Reached(down, l, r, path, c, K, T, N, p, at, h, g) ==
  /\ r \in 0 .. N /\ r + Size(N, p[l], at[l]) <= N
  /\ down[r] = DownTo(N, p, at, l, path) /\ Sibs(path, c, l, K, T, N, p, at, h, g)

\* The loop goes on above level b.
Descends(down, b, K, T, N, p, x, at, h, g) ==
  \A i \in 1 .. N : \A l \in b .. K - 1 : \A path :
    HasSib(h, g, l) /\ down[i - 1] = DownTo(N, p, at, l + 1, path) => down[i] = halved(T, down[i - 1], x)

\* It then comes to level b, with a round left for every leaf but one of it,
\* and with the siblings above.
LEMMA WayDown ==
  ASSUME NEW T, NEW y, NEW N, NEW p, NEW x, NEW h, NEW at, NEW g, NEW bt, NEW L,
         On(T, y, N, p, x, h, at, g, bt, L), NEW K \in 0 .. L, N <= p[K],
         NEW c, Counts(c, h, g, K), NEW b \in 0 .. K, NEW down,
         down[0] = [lo |-> 0, n |-> N, path |-> <<>>], Descends(down, b, K, T, N, p, x, at, h, g)
  PROVE  \E r, path : Reached(down, b, r, path, c, K, T, N, p, at, h, g)
<1> DEFINE Come(l) == \E r, path : Reached(down, l, r, path, c, K, T, N, p, at, h, g)
           U == {d \in 0 .. K - b : Come(K - d)}
<1>1. N \in Nat /\ N = Len(y) /\ x \in 0 .. N - 1 /\ L \in Nat /\ Powers(p, L) /\ Way(h, at, p, x, L) /\ K \in Nat
  BY DEF On
<1>2. Come(K)
  <2>1. K \in 0 .. L
    OBVIOUS
  <2>2. p[K] \in Nat /\ x \in Nat /\ x < p[K]
    <3>1. p[K] \in Nat
      BY <1>1, PowersGrow
    <3>2. QED
      BY <1>1, <3>1
  <2>3. at[K] = 0
    BY <1>1, <2>1, <2>2, TopOfWay
  <2>4. Size(N, p[K], 0) = N
    BY <1>1, <2>2 DEF Size
  <2>5. <<>> \in Seq(HeadsOf(T, N)) /\ Len(<<>>) = 0
    OBVIOUS
  <2>6. c[K] \in Nat
    BY <1>1 DEF Counts
  <2>7. Sibs(<<>>, c, K, K, T, N, p, at, h, g)
    <3>1. c[K] - c[K] = 0
      BY <2>6
    <3>2. K .. K - 1 = {}
      BY <1>1
    <3>3. QED
      BY <2>5, <3>1, <3>2 DEF Sibs
  <2>8. down[0] = DownTo(N, p, at, K, <<>>)
    BY <2>3, <2>4 DEF DownTo
  <2>9. 0 \in 0 .. N /\ 0 + Size(N, p[K], at[K]) <= N
    BY <1>1, <2>3, <2>4
  <2>10. Reached(down, K, 0, <<>>, c, K, T, N, p, at, h, g)
    BY <2>7, <2>8, <2>9 DEF Reached
  <2>11. QED
    BY <2>10
<1>3. ASSUME NEW l \in b .. K - 1, Come(l + 1) PROVE Come(l)
  <2>1. PICK r, path : Reached(down, l + 1, r, path, c, K, T, N, p, at, h, g)
    BY <1>3
  <2>2. /\ r \in 0 .. N /\ r + Size(N, p[l + 1], at[l + 1]) <= N
        /\ down[r] = DownTo(N, p, at, l + 1, path) /\ Sibs(path, c, l + 1, K, T, N, p, at, h, g)
    BY <2>1 DEF Reached
  <2>3. l \in 0 .. L - 1 /\ l \in 0 .. K - 1
    BY <1>1
  <2>4. CASE ~ HasSib(h, g, l)
    <3>1. Alone(N, p, at, l)
      BY <2>3, <2>4, OneDown
    <3>2. Sibs(path, c, l, K, T, N, p, at, h, g)
      BY <2>2, <2>3, <2>4, SibsDown
    <3>3. Reached(down, l, r, path, c, K, T, N, p, at, h, g)
      BY <2>2, <3>1, <3>2 DEF Reached, DownTo, Alone
    <3>4. QED
      BY <3>3
  <2>5. CASE HasSib(h, g, l)
    <3>1. PICK e, u, v : e = Sib(T, N, p, at, h, l) /\ u = Size(N, p[l], at[l]) /\ v = Size(N, p[l + 1], at[l + 1])
      OBVIOUS
    <3>2. /\ u < v /\ 1 < v
          /\ halved(T, DownTo(N, p, at, l + 1, path), x) = DownTo(N, p, at, l, <<e>> \o path)
      <4>1. Half(T, N, p, x, at, h, l)
        BY <2>3, <2>5, OneDown
      <4>2. QED
        BY <3>1, <4>1 DEF Half
    <3>3. p[l] \in Nat /\ p[l + 1] \in Nat /\ at[l] \in Nat /\ at[l + 1] \in Nat
      <4>1. p[l] \in Nat /\ p[l + 1] = 2 * p[l] /\ at[l] \in Nat /\ at[l + 1] \in Nat
        BY <2>3, OnLevel
      <4>2. QED
        BY <4>1
    <3>4. u \in Int /\ v \in Int
      <4>1. PICK q, qq, a, aa : q = p[l] /\ qq = p[l + 1] /\ a = at[l] /\ aa = at[l + 1]
        OBVIOUS
      <4>2. u = Size(N, q, a) /\ v = Size(N, qq, aa) /\ q \in Nat /\ qq \in Nat /\ a \in Nat /\ aa \in Nat
        BY <3>1, <3>3, <4>1
      <4>3. QED
        BY <1>1, <4>2 DEF Size
    <3>5. r + 1 \in 1 .. N /\ (r + 1) - 1 = r /\ (r + 1) + u <= N
      BY <1>1, <2>2, <3>1, <3>2, <3>4
    <3>6. down[r + 1] = DownTo(N, p, at, l, <<e>> \o path)
      BY <2>2, <2>5, <3>2, <3>5 DEF Descends
    <3>7. Sibs(<<e>> \o path, c, l, K, T, N, p, at, h, g)
      BY <2>2, <2>3, <2>5, <3>1, SibsDown
    <3>8. Reached(down, l, r + 1, <<e>> \o path, c, K, T, N, p, at, h, g)
      BY <1>1, <3>1, <3>5, <3>6, <3>7 DEF Reached
    <3>9. QED
      BY <3>8
  <2>6. QED
    BY <2>4, <2>5
<1> HIDE DEF Come
<1>4. K - b \in Nat
  BY <1>1
<1>5. 0 \in U
  <2>1. K - 0 = K /\ 0 \in 0 .. K - b
    BY <1>1
  <2>2. QED
    BY <1>2, <2>1
<1>6. ASSUME NEW d \in 1 .. K - b, d - 1 \in U PROVE d \in U
  <2>1. K - d \in b .. K - 1 /\ (K - d) + 1 = K - (d - 1) /\ d \in 0 .. K - b
    BY <1>1
  <2>2. Come((K - d) + 1)
    BY <1>6, <2>1
  <2>3. Come(K - d)
    BY <1>3, <2>1, <2>2
  <2>4. QED
    BY <2>1, <2>3
<1> HIDE DEF U
<1>7. \A d \in 0 .. K - b : d \in U
  BY <1>4, <1>5, <1>6, UpFromZero
<1>8. Come(b)
  <2>1. K - b \in 0 .. K - b /\ K - (K - b) = b
    BY <1>1
  <2>2. QED
    BY <1>7, <2>1 DEF U
<1>9. QED
  BY <1>8 DEF Come

\* A loop that has come to rest stays.
Rests(down, s, N) == \A i \in 1 .. N : down[i - 1] = s => down[i] = s

\* So the last round leaves what it came to rest with.
LEMMA AtRest ==
  ASSUME NEW N \in Nat, NEW down, NEW s, NEW r \in 0 .. N, down[r] = s, Rests(down, s, N)
  PROVE  down[N] = s
<1> DEFINE U == {d \in 0 .. N - r : down[r + d] = s}
<1>1. N - r \in Nat
  OBVIOUS
<1>2. 0 \in U
  <2>1. 0 \in 0 .. N - r /\ r + 0 = r
    OBVIOUS
  <2>2. QED
    BY <2>1
<1>3. ASSUME NEW d \in 1 .. N - r, d - 1 \in U PROVE d \in U
  <2>1. r + d \in 1 .. N /\ (r + d) - 1 = r + (d - 1) /\ d \in 0 .. N - r
    OBVIOUS
  <2>2. down[(r + d) - 1] = s
    BY <1>3, <2>1
  <2>3. down[r + d] = s
    BY <2>1, <2>2 DEF Rests
  <2>4. QED
    BY <2>1, <2>3
<1> HIDE DEF U
<1>4. \A d \in 0 .. N - r : d \in U
  BY <1>1, <1>2, <1>3, UpFromZero
<1>5. N - r \in 0 .. N - r /\ r + (N - r) = N
  OBVIOUS
<1>6. QED
  BY <1>4, <1>5 DEF U

-----------------------------------------------------------------------------
(* The paths a log hands out.                                              *)

Audits(down, m, leaves) ==
  down = [i \in 0 .. Len(leaves) |-> IF i = 0 THEN whole(leaves) ELSE to_leaf(trees(leaves), down[i - 1], m)]

AuditRun(down, m, leaves) ==
  /\ down[0] = whole(leaves) /\ audit_path(m, leaves) = down[Len(leaves)].path
  /\ \A i \in 1 .. Len(leaves) : down[i] = to_leaf(trees(leaves), down[i - 1], m)

\* The loop of audit_path.
LEMMA AuditTurns ==
  ASSUME NEW m, NEW leaves, Len(leaves) \in Nat
  PROVE  \E down : AuditRun(down, m, leaves)
<1> DEFINE c == [loop |-> "audit", of |-> trees(leaves), m |-> m]
           down == CHOOSE g : Audits(g, m, leaves)
<1>1. PICK g : Turns(g, c, whole(leaves), Len(leaves))
  BY LoopTurns
<1>2. g = [i \in 0 .. Len(leaves) |-> IF i = 0 THEN whole(leaves) ELSE Turn(c, i, g[i - 1])]
  BY <1>1 DEF Turns
<1>3. \A i : Turn(c, i, g[i - 1]) = to_leaf(trees(leaves), g[i - 1], m)
  BY DEF Turn
<1>4. Audits(g, m, leaves)
  BY <1>2, <1>3 DEF Audits
<1>5. Audits(down, m, leaves)
  BY <1>4
<1>6. audit_path(m, leaves) = down[Len(leaves)].path
  BY Zenon DEF audit_path, Audits
<1> HIDE DEF down
<1>7. \A i \in 0 .. Len(leaves) : down[i] = IF i = 0 THEN whole(leaves) ELSE to_leaf(trees(leaves), down[i - 1], m)
  BY <1>5 DEF Audits
<1>8. 0 \in 0 .. Len(leaves)
  OBVIOUS
<1>9. down[0] = whole(leaves) /\ \A i \in 1 .. Len(leaves) : down[i] = to_leaf(trees(leaves), down[i - 1], m)
  BY <1>7, <1>8
<1>10. AuditRun(down, m, leaves)
  BY <1>6, <1>9 DEF AuditRun
<1>11. QED
  BY <1>10

Ended(end, leaves) ==
  IF end.lo = 0 THEN end.path ELSE <<trees(leaves)[end.n][end.lo]>> \o end.path

Proves(down, m, leaves) ==
  down = [i \in 0 .. Len(leaves) |-> IF i = 0 THEN whole(leaves) ELSE to_edge(trees(leaves), down[i - 1], m)]

ProofRun(down, m, leaves) ==
  /\ down[0] = whole(leaves) /\ subproof(m, leaves) = Ended(down[Len(leaves)], leaves)
  /\ \A i \in 1 .. Len(leaves) : down[i] = to_edge(trees(leaves), down[i - 1], m)

\* The loop of subproof.
LEMMA ProofTurns ==
  ASSUME NEW m, NEW leaves, Len(leaves) \in Nat
  PROVE  \E down : ProofRun(down, m, leaves)
<1> DEFINE c == [loop |-> "proof", of |-> trees(leaves), m |-> m]
           down == CHOOSE g : Proves(g, m, leaves)
<1>1. PICK g : Turns(g, c, whole(leaves), Len(leaves))
  BY LoopTurns
<1>2. g = [i \in 0 .. Len(leaves) |-> IF i = 0 THEN whole(leaves) ELSE Turn(c, i, g[i - 1])]
  BY <1>1 DEF Turns
<1>3. \A i : Turn(c, i, g[i - 1]) = to_edge(trees(leaves), g[i - 1], m)
  BY DEF Turn
<1>4. Proves(g, m, leaves)
  BY <1>2, <1>3 DEF Proves
<1>5. Proves(down, m, leaves)
  BY <1>4
<1>6. subproof(m, leaves) = Ended(down[Len(leaves)], leaves)
  BY Zenon DEF subproof, Ended, Proves
<1> HIDE DEF down
<1>7. \A i \in 0 .. Len(leaves) : down[i] = IF i = 0 THEN whole(leaves) ELSE to_edge(trees(leaves), down[i - 1], m)
  BY <1>5 DEF Proves
<1>8. 0 \in 0 .. Len(leaves)
  OBVIOUS
<1>9. down[0] = whole(leaves) /\ \A i \in 1 .. Len(leaves) : down[i] = to_edge(trees(leaves), down[i - 1], m)
  BY <1>7, <1>8
<1>10. ProofRun(down, m, leaves)
  BY <1>6, <1>9 DEF ProofRun
<1>11. QED
  BY <1>10

\* audit_path lists the siblings of the leaf's way.
LEMMA AuditPathIs ==
  ASSUME NEW leaves, NEW T, T = trees(leaves), NEW y, NEW N, N = Len(leaves), NEW p, NEW x, NEW h, NEW at, NEW g, NEW bt,
         NEW L, On(T, y, N, p, x, h, at, g, bt, L), NEW K \in 0 .. L, N <= p[K], NEW c, Counts(c, h, g, K)
  PROVE  Sibs(audit_path(x, leaves), c, 0, K, T, N, p, at, h, g)
<1>1. N \in Nat /\ x \in 0 .. N - 1 /\ L \in Nat /\ Powers(p, L) /\ Way(h, at, p, x, L)
  BY DEF On
<1>2. PICK down : AuditRun(down, x, leaves)
  BY <1>1, AuditTurns
<1>3. /\ down[0] = whole(leaves) /\ audit_path(x, leaves) = down[N].path
      /\ \A i \in 1 .. N : down[i] = to_leaf(T, down[i - 1], x)
  BY <1>2 DEF AuditRun
<1>4. down[0] = [lo |-> 0, n |-> N, path |-> <<>>]
  BY <1>3 DEF whole
<1>5. Descends(down, 0, K, T, N, p, x, at, h, g)
  <2> SUFFICES ASSUME NEW i \in 1 .. N, NEW l \in 0 .. K - 1, NEW path, HasSib(h, g, l),
                      down[i - 1] = DownTo(N, p, at, l + 1, path)
               PROVE  down[i] = halved(T, down[i - 1], x)
    BY DEF Descends
  <2>1. l \in 0 .. L - 1
    BY <1>1
  <2>2. Half(T, N, p, x, at, h, l)
    BY <2>1, OneDown
  <2>3. PICK s, v : s = down[i - 1] /\ v = Size(N, p[l + 1], at[l + 1])
    OBVIOUS
  <2>4. s.n = v
    BY <2>3 DEF DownTo
  <2>5. 1 < v
    BY <2>2, <2>3 DEF Half
  <2>6. v \in Int
    <3>1. p[l] \in Nat /\ p[l + 1] = 2 * p[l] /\ at[l + 1] \in Nat
      BY <2>1, OnLevel
    <3>2. PICK q, a : q = p[l + 1] /\ a = at[l + 1]
      OBVIOUS
    <3>3. q \in Nat /\ a \in Nat /\ v = Size(N, q, a)
      BY <2>3, <3>1, <3>2
    <3>4. QED
      BY <1>1, <3>3 DEF Size
  <2>7. ~ (s.n <= 1)
    BY <2>4, <2>5, <2>6
  <2>8. QED
    BY <1>3, <2>3, <2>7 DEF to_leaf
<1>6. PICK r, path : Reached(down, 0, r, path, c, K, T, N, p, at, h, g)
  <2>1. 0 \in 0 .. K
    BY <1>1
  <2>2. QED
    BY <1>4, <1>5, <2>1, WayDown
<1>7. r \in 0 .. N /\ down[r] = DownTo(N, p, at, 0, path) /\ Sibs(path, c, 0, K, T, N, p, at, h, g)
  BY <1>6 DEF Reached
<1>8. PICK s : s = DownTo(N, p, at, 0, path)
  OBVIOUS
<1>9. s.n = 1 /\ s.path = path
  <2>1. p[0] = 1 /\ at[0] = x
    BY <1>1 DEF Powers, Way
  <2>2. Size(N, 1, x) = 1
    BY <1>1 DEF Size
  <2>3. QED
    BY <1>8, <2>1, <2>2 DEF DownTo
<1>10. to_leaf(T, s, x) = s
  BY <1>9 DEF to_leaf
<1>11. down[N] = s
  <2>1. Rests(down, s, N)
    BY <1>3, <1>10 DEF Rests
  <2>2. QED
    BY <1>1, <1>7, <1>8, <2>1, AtRest
<1>12. audit_path(x, leaves) = path
  BY <1>3, <1>9, <1>11
<1>13. QED
  BY <1>7, <1>12

\* The lowest level on which the x-th leaf's node is a left child.
FirstLeft(h, b) == (h[b] % 2) = 0 /\ \A j \in 0 .. b - 1 : (h[j] % 2) = 1

\* The old tree, of x + 1 leaves, ends with the node of level b, and with no
\* node above.
LEMMA EdgeLevel ==
  ASSUME NEW T, NEW y, NEW N, NEW p, NEW x, NEW h, NEW at, NEW g, NEW bt, NEW L,
         On(T, y, N, p, x, h, at, g, bt, L), x + 1 < N, NEW b \in 0 .. L - 1,
         FirstLeft(h, b)
  PROVE  /\ at[b] + p[b] = x + 1 /\ Size(N, p[b], at[b]) = p[b]
         /\ \A l \in b + 1 .. L : at[l] + Size(N, p[l], at[l]) # x + 1
<1>1. N \in Nat /\ x \in 0 .. N - 1 /\ L \in Nat /\ Powers(p, L) /\ Way(h, at, p, x, L)
  BY DEF On
<1>2. (h[b] % 2) = 0 /\ \A j \in 0 .. b - 1 : (h[j] % 2) = 1
  BY DEF FirstLeft
<1> DEFINE U == {l \in 0 .. b : at[l] + p[l] = x + 1}
<1>3. 0 \in U
  <2>1. p[0] = 1 /\ at[0] = x
    BY <1>1 DEF Powers, Way
  <2>2. 0 \in 0 .. b
    OBVIOUS
  <2>3. QED
    BY <1>1, <2>1, <2>2
<1>4. ASSUME NEW l \in 1 .. b, l - 1 \in U PROVE l \in U
  <2>1. l - 1 \in 0 .. L - 1 /\ (l - 1) + 1 = l /\ l - 1 \in 0 .. b - 1
    BY <1>1
  <2>2. PICK q, a, aa, qq : q = p[l - 1] /\ a = at[l - 1] /\ aa = at[l] /\ qq = p[l]
    OBVIOUS
  <2>3. /\ q \in Nat /\ qq = 2 * q /\ a \in Nat /\ aa \in Nat
        /\ \/ (h[l - 1] % 2) = 1 /\ a = aa + q
           \/ (h[l - 1] % 2) = 0 /\ a = aa
    BY <2>1, <2>2, OnLevel
  <2>4. a = aa + q /\ a + q = x + 1
    BY <1>2, <1>4, <2>1, <2>2, <2>3
  <2>5. aa + qq = x + 1
    BY <1>1, <2>3, <2>4
  <2>6. l \in 0 .. b
    OBVIOUS
  <2>7. QED
    BY <2>2, <2>5, <2>6
<1>5. at[b] + p[b] = x + 1
  <2> HIDE DEF U
  <2>1. \A l \in 0 .. b : l \in U
    BY <1>3, <1>4, UpFromZero
  <2>2. QED
    BY <2>1 DEF U
<1>6. PICK q, a : q = p[b] /\ a = at[b]
  OBVIOUS
<1>7. q \in Nat /\ q >= 1 /\ a \in Nat /\ p[b + 1] = 2 * q /\ at[b + 1] = a
  BY <1>2, <1>6, OnLevel
<1>8. Size(N, q, a) = q
  BY <1>1, <1>5, <1>6, <1>7 DEF Size
<1> DEFINE V == {d \in 0 .. L - (b + 1) : at[(b + 1) + d] + p[(b + 1) + d] > x + 1}
<1>9. 0 \in V
  <2>1. at[b + 1] + p[b + 1] > x + 1
    BY <1>1, <1>5, <1>6, <1>7
  <2>2. 0 \in 0 .. L - (b + 1) /\ (b + 1) + 0 = b + 1
    BY <1>1
  <2>3. QED
    BY <2>1, <2>2
<1>10. ASSUME NEW d \in 1 .. L - (b + 1), d - 1 \in V PROVE d \in V
  <2>1. PICK l : l = (b + 1) + (d - 1)
    OBVIOUS
  <2>2. l \in 0 .. L - 1 /\ l + 1 = (b + 1) + d
    BY <1>1, <2>1
  <2>3. PICK r, e, ee, rr : r = p[l] /\ e = at[l] /\ ee = at[l + 1] /\ rr = p[l + 1]
    OBVIOUS
  <2>4. r \in Nat /\ rr = 2 * r /\ e \in Nat /\ ee \in Nat /\ (e = ee + r \/ e = ee)
    BY <2>2, <2>3, OnLevel
  <2>5. e + r > x + 1
    BY <1>10, <2>1, <2>3
  <2>6. ee + rr > x + 1
    BY <1>1, <2>4, <2>5
  <2>7. QED
    BY <2>2, <2>3, <2>6
<1>11. ASSUME NEW l \in b + 1 .. L PROVE at[l] + Size(N, p[l], at[l]) # x + 1
  <2>1. at[l] + p[l] > x + 1
    <3> HIDE DEF V
    <3>1. L - (b + 1) \in Nat
      BY <1>1
    <3>2. \A d \in 0 .. L - (b + 1) : d \in V
      BY <1>9, <1>10, <3>1, UpFromZero
    <3>3. l - (b + 1) \in 0 .. L - (b + 1) /\ (b + 1) + (l - (b + 1)) = l
      BY <1>1
    <3>4. QED
      BY <3>2, <3>3 DEF V
  <2>2. PICK r, e : r = p[l] /\ e = at[l]
    OBVIOUS
  <2>3. r \in Nat /\ e \in Nat
    <3>1. l \in 0 .. L
      BY <1>1
    <3>2. QED
      BY <1>1, <2>2, <3>1 DEF Powers, Way
  <2>4. e + Size(N, r, e) # x + 1
    BY <1>1, <2>1, <2>2, <2>3 DEF Size
  <2>5. QED
    BY <2>2, <2>4
<1>12. QED
  BY <1>5, <1>6, <1>8, <1>11

\* subproof lists those above the level on which the old tree ends, after the
\* node there if it is not the old tree itself.
IsSubproof(proof, path, c, b, K, T, N, p, at, h, g) ==
  /\ Sibs(path, c, b, K, T, N, p, at, h, g)
  /\ proof = IF at[b] = 0 THEN path ELSE <<T[p[b]][at[b]]>> \o path

\* That is what subproof returns, whatever the two sizes.
LEMMA SubproofIs ==
  ASSUME NEW leaves, NEW T, T = trees(leaves), NEW y, NEW N, N = Len(leaves), NEW p, NEW x, NEW h, NEW at, NEW g, NEW bt,
         NEW L, On(T, y, N, p, x, h, at, g, bt, L), NEW K \in 0 .. L, N <= p[K], NEW c, Counts(c, h, g, K),
         x + 1 < N, NEW b \in 0 .. K - 1, FirstLeft(h, b)
  PROVE  \E path : IsSubproof(subproof(x + 1, leaves), path, c, b, K, T, N, p, at, h, g)
<1>1. N \in Nat /\ x \in 0 .. N - 1 /\ L \in Nat /\ K \in Nat
  BY DEF On
<1>2. b \in 0 .. L - 1 /\ b \in 0 .. K
  BY <1>1
<1>3. /\ at[b] + p[b] = x + 1 /\ Size(N, p[b], at[b]) = p[b]
      /\ \A l \in b + 1 .. L : at[l] + Size(N, p[l], at[l]) # x + 1
  BY <1>2, EdgeLevel
<1>4. PICK m : m = x + 1
  OBVIOUS
<1>5. m - 1 = x
  BY <1>1, <1>4
<1>6. PICK down : ProofRun(down, m, leaves)
  BY <1>1, ProofTurns
<1>7. /\ down[0] = whole(leaves) /\ subproof(m, leaves) = Ended(down[N], leaves)
      /\ \A i \in 1 .. N : down[i] = to_edge(T, down[i - 1], m)
  BY <1>6 DEF ProofRun
<1>8. down[0] = [lo |-> 0, n |-> N, path |-> <<>>]
  BY <1>7 DEF whole
<1>9. Descends(down, b, K, T, N, p, x, at, h, g)
  <2> SUFFICES ASSUME NEW i \in 1 .. N, NEW l \in b .. K - 1, NEW path, HasSib(h, g, l),
                      down[i - 1] = DownTo(N, p, at, l + 1, path)
               PROVE  down[i] = halved(T, down[i - 1], x)
    BY DEF Descends
  <2>1. l + 1 \in b + 1 .. L
    BY <1>1
  <2>2. PICK s, a, v : s = down[i - 1] /\ a = at[l + 1] /\ v = Size(N, p[l + 1], at[l + 1])
    OBVIOUS
  <2>3. s.lo = a /\ s.n = v
    BY <2>2 DEF DownTo
  <2>4. a + v # m
    BY <1>3, <1>4, <2>1, <2>2
  <2>5. to_edge(T, s, m) = halved(T, s, x)
    BY <1>5, <2>3, <2>4 DEF to_edge
  <2>6. QED
    BY <1>7, <2>2, <2>5
<1>10. PICK r, path : Reached(down, b, r, path, c, K, T, N, p, at, h, g)
  BY <1>2, <1>8, <1>9, WayDown
<1>11. r \in 0 .. N /\ down[r] = DownTo(N, p, at, b, path) /\ Sibs(path, c, b, K, T, N, p, at, h, g)
  BY <1>10 DEF Reached
<1>12. PICK s : s = DownTo(N, p, at, b, path)
  OBVIOUS
<1>13. s.lo = at[b] /\ s.n = p[b] /\ s.path = path
  BY <1>3, <1>12 DEF DownTo
<1>14. to_edge(T, s, m) = s
  BY <1>3, <1>4, <1>13 DEF to_edge
<1>15. down[N] = s
  <2>1. Rests(down, s, N)
    BY <1>7, <1>14 DEF Rests
  <2>2. QED
    BY <1>1, <1>11, <1>12, <2>1, AtRest
<1>16. subproof(m, leaves) = IF at[b] = 0 THEN path ELSE <<T[p[b]][at[b]]>> \o path
  <2>1. subproof(m, leaves) = IF s.lo = 0 THEN s.path ELSE <<T[s.n][s.lo]>> \o s.path
    BY <1>7, <1>15 DEF Ended
  <2>2. QED
    BY <1>13, <2>1
<1>17. IsSubproof(subproof(x + 1, leaves), path, c, b, K, T, N, p, at, h, g)
  BY <1>4, <1>11, <1>16 DEF IsSubproof
<1>18. QED
  BY <1>17

-----------------------------------------------------------------------------
(* An honest consistency proof is accepted.                                *)

HeadsAgree(A, B, m) == \A r \in 1 .. m : \A a \in 0 .. m - r : A[r][a] = B[r][a]

\* Two lists that begin alike have the same heads there.
LEMMA SameHeads ==
  ASSUME NEW ds, NEW x, NEW y, NEW A, NEW B, Table(A, ds, x), Table(B, ds, y), Len(x) \in Nat, Len(y) \in Nat,
         NEW m \in Nat, m <= Len(x), m <= Len(y), Same(x, y, m)
  PROVE  HeadsAgree(A, B, m)
<1> DEFINE Eq(r) == \A a \in 0 .. m - r : A[r][a] = B[r][a]
           U == {N \in 0 .. m : \A r \in 1 .. N : Eq(r)}
<1>1. 0 \in U
  OBVIOUS
<1>2. ASSUME NEW r \in 1 .. m, \A j \in 1 .. r - 1 : Eq(j) PROVE Eq(r)
  <2> SUFFICES ASSUME NEW a \in 0 .. m - r PROVE A[r][a] = B[r][a]
    OBVIOUS
  <2>1. PICK e, f : e = Len(x) /\ f = Len(y)
    OBVIOUS
  <2>2. e \in Nat /\ f \in Nat /\ m <= e /\ m <= f
    BY <2>1
  <2>3. CASE r = 1
    <3>1. a \in 0 .. e - 1 /\ a \in 0 .. f - 1 /\ a + 1 \in 1 .. m
      BY <2>2, <2>3
    <3>2. A[1][a] = x[a + 1] /\ B[1][a] = y[a + 1]
      BY <2>1, <3>1 DEF Table
    <3>3. x[a + 1] = y[a + 1]
      BY <3>1 DEF Same
    <3>4. QED
      BY <2>3, <3>2, <3>3
  <2>4. CASE r # 1
    <3>1. PICK k, j, ak : k = split_point(r) /\ j = r - k /\ ak = a + k
      OBVIOUS
    <3>2. k \in 1 .. r - 1
      BY <2>4, <3>1, SplitInside
    <3>3. j \in 1 .. r - 1 /\ a \in 0 .. m - k /\ ak \in 0 .. m - j
      BY <3>1, <3>2
    <3>4. r \in 2 .. e /\ r \in 2 .. f /\ a \in 0 .. e - r /\ a \in 0 .. f - r
      BY <2>2, <2>4
    <3>5. A[r][a] = node(ds, A[k][a], A[j][ak]) /\ B[r][a] = node(ds, B[k][a], B[j][ak])
      BY <2>1, <3>1, <3>4 DEF Table
    <3>6. A[k][a] = B[k][a] /\ A[j][ak] = B[j][ak]
      BY <1>2, <3>2, <3>3
    <3>7. QED
      BY <3>5, <3>6
  <2>5. QED
    BY <2>3, <2>4
<1> HIDE DEF Eq
<1>3. ASSUME NEW N \in 1 .. m, N - 1 \in U PROVE N \in U
  <2>1. \A r \in 1 .. N - 1 : Eq(r)
    BY <1>3
  <2>2. Eq(N)
    BY <1>2, <2>1
  <2>3. \A r \in 1 .. N : r = N \/ r \in 1 .. N - 1
    OBVIOUS
  <2>4. QED
    BY <2>1, <2>2, <2>3
<1> HIDE DEF U
<1>4. \A N \in 0 .. m : N \in U
  BY <1>1, <1>3, UpFromZero
<1>5. \A r \in 1 .. m : Eq(r)
  BY <1>4 DEF U
<1>6. QED
  BY <1>5 DEF Eq, HeadsAgree

\* What the second loops hold on level l, with an honest path.
RiseAt(l, u, A, m, B, n, p, at, h, g) ==
  [idx |-> h[l], last |-> g[l], ok |-> TRUE, used |-> u,
   old |-> Node(A, m, p[l], at[l]), new |-> Node(B, n, p[l], at[l])]

\* A level up: the next element is used if there is a sibling.
LEMMA RiseOn ==
  ASSUME NEW z, NEW A, Table(A, "plain", z), NEW m \in Nat, m = Len(z), NEW y, NEW B, NEW n, NEW p, NEW x, x + 1 = m, m < n,
         NEW h, NEW at, NEW g, NEW bt, NEW L, On(B, y, n, p, x, h, at, g, bt, L), Same(z, y, m),
         NEW l \in 0 .. L - 1, NEW path, Len(path) \in Nat, NEW u \in Nat,
         HasSib(h, g, l) => u < Len(path) /\ path[u + 1] = Sib(B, n, p, at, h, l)
  PROVE  risen(path, RiseAt(l, u, A, m, B, n, p, at, h, g))
           = RiseAt(l + 1, IF HasSib(h, g, l) THEN u + 1 ELSE u, A, m, B, n, p, at, h, g)
<1>1. PICK q, a, b, i, j : q = p[l] /\ a = at[l] /\ b = at[l + 1] /\ i = h[l] /\ j = g[l]
  OBVIOUS
<1>2. /\ q \in Nat /\ q >= 1 /\ p[l + 1] = 2 * q
      /\ a \in Nat /\ b \in Nat /\ a <= x /\ x < a + q /\ b <= x
      /\ \/ (i % 2) = 1 /\ a = b + q
         \/ (i % 2) = 0 /\ a = b
      /\ i < j <=> a + q < n
      /\ HasSib(h, g, l) <=> b + q < n
  BY <1>1, OnLevel
<1>3. /\ n \in Nat /\ n = Len(y) /\ x \in 0 .. n - 1 /\ L \in Nat /\ Table(B, "plain", y)
      /\ Powers(p, L) /\ Way(h, at, p, x, L) /\ Way(g, bt, p, n - 1, L)
  BY DEF On
<1>4. h[l + 1] = i \div 2 /\ g[l + 1] = j \div 2
  <2>1. l + 1 \in 1 .. L /\ (l + 1) - 1 = l
    BY <1>3
  <2>2. QED
    BY <1>1, <1>3, <2>1 DEF Way, Halves
<1>5. PICK o, w, oo, ww, e : /\ o = Node(A, m, q, a) /\ w = Node(B, n, q, a) /\ e = path[u + 1]
                             /\ oo = Node(A, m, p[l + 1], b) /\ ww = Node(B, n, p[l + 1], b)
  OBVIOUS
<1>6. b \in 0 .. m - 1 /\ b \in 0 .. n - 1
  BY <1>2, <1>3
<1>7. oo = IF b + q < m THEN over(Node(A, m, q, b), Node(A, m, q, b + q)) ELSE Node(A, m, q, b)
  BY <1>1, <1>3, <1>5, <1>6, NodeUp DEF over
<1>8. ww = IF b + q < n THEN over(Node(B, n, q, b), Node(B, n, q, b + q)) ELSE Node(B, n, q, b)
  BY <1>1, <1>3, <1>5, <1>6, NodeUp DEF over
<1>9. PICK s, t : s = RiseAt(l, u, A, m, B, n, p, at, h, g) /\ t = risen(path, s)
  OBVIOUS
<1>10. s = [idx |-> i, last |-> j, ok |-> TRUE, used |-> u, old |-> o, new |-> w]
  BY <1>1, <1>5, <1>9 DEF RiseAt
<1>11. ((i % 2) = 1 \/ i < j) <=> HasSib(h, g, l)
  BY <1>1 DEF HasSib
<1>12. ~ (((i % 2) = 1 \/ i < j) /\ u = Len(path))
  BY <1>11
<1>13. t = [idx |-> i \div 2, last |-> j \div 2, ok |-> TRUE,
            used |-> IF HasSib(h, g, l) THEN u + 1 ELSE u,
            old  |-> IF (i % 2) = 1 THEN over(e, o) ELSE o,
            new  |-> IF (i % 2) = 1 THEN over(e, w) ELSE IF HasSib(h, g, l) THEN over(w, e) ELSE w]
  <2> DEFINE sibling == (i % 2) = 1 \/ i < j
  <2>1. s.idx = i /\ s.last = j /\ s.ok = TRUE /\ s.used = u /\ s.old = o /\ s.new = w
    BY <1>10
  <2>2. ~ (sibling /\ u = Len(path))
    BY <1>12
  <2>3. t = [idx |-> i \div 2, last |-> j \div 2, ok |-> TRUE,
             used |-> IF sibling THEN u + 1 ELSE u,
             old  |-> IF (i % 2) = 1 THEN over(e, o) ELSE o,
             new  |-> IF (i % 2) = 1 THEN over(e, w) ELSE IF sibling THEN over(w, e) ELSE w]
    BY <1>5, <1>9, <2>1, <2>2 DEF risen
  <2>4. sibling <=> HasSib(h, g, l)
    BY <1>11
  <2> HIDE DEF sibling
  <2>5. (IF sibling THEN u + 1 ELSE u) = (IF HasSib(h, g, l) THEN u + 1 ELSE u)
    BY <2>4
  <2>6. (IF sibling THEN over(w, e) ELSE w) = (IF HasSib(h, g, l) THEN over(w, e) ELSE w)
    BY <2>4
  <2>7. QED
    BY <2>3, <2>5, <2>6, Zenon
<1>14. /\ oo = IF (i % 2) = 1 THEN over(e, o) ELSE o
       /\ ww = IF (i % 2) = 1 THEN over(e, w) ELSE IF HasSib(h, g, l) THEN over(w, e) ELSE w
  <2>1. CASE (i % 2) = 1 /\ a = b + q
    <3>1. HasSib(h, g, l)
      BY <1>11, <2>1
    <3>2. e = Node(B, n, q, b)
      BY <1>1, <1>5, <2>1, <3>1 DEF Sib
    <3>3. b + q < m /\ b + q < n
      BY <1>2, <1>3, <2>1
    <3>4. Node(B, n, q, b) = Node(A, m, q, b)
      <4>1. q <= n - b /\ q <= m - b
        BY <1>2, <1>3, <3>3
      <4>2. Node(B, n, q, b) = B[q][b] /\ Node(A, m, q, b) = A[q][b]
        BY <4>1 DEF Node
      <4>3. q \in 1 .. m /\ b \in 0 .. m - q
        BY <1>2, <3>3
      <4>4. HeadsAgree(A, B, m)
        BY <1>3, SameHeads
      <4>5. QED
        BY <4>2, <4>3, <4>4 DEF HeadsAgree
    <3>5. QED
      BY <1>5, <1>7, <1>8, <2>1, <3>2, <3>3, <3>4
  <2>2. CASE (i % 2) = 0 /\ a = b
    <3>1. ~ (b + q < m)
      BY <1>2, <1>3, <2>2
    <3>2. oo = o
      BY <1>5, <1>7, <2>2, <3>1
    <3>3. CASE HasSib(h, g, l)
      <4>1. e = Node(B, n, q, b + q)
        BY <1>1, <1>5, <2>2, <3>3 DEF Sib
      <4>2. ww = over(w, e)
        BY <1>2, <1>5, <1>8, <2>2, <3>3, <4>1
      <4>3. QED
        BY <2>2, <3>2, <3>3, <4>2
    <3>4. CASE ~ HasSib(h, g, l)
      <4>1. ww = w
        BY <1>2, <1>5, <1>8, <2>2, <3>4
      <4>2. QED
        BY <2>2, <3>2, <3>4, <4>1
    <3>5. QED
      BY <3>3, <3>4
  <2>3. QED
    BY <1>2, <2>1, <2>2
<1>15. PICK v : v = IF HasSib(h, g, l) THEN u + 1 ELSE u
  OBVIOUS
<1>16. RiseAt(l + 1, v, A, m, B, n, p, at, h, g)
         = [idx |-> i \div 2, last |-> j \div 2, ok |-> TRUE, used |-> v, old |-> oo, new |-> ww]
  BY <1>1, <1>4, <1>5 DEF RiseAt
<1>17. t = [idx |-> i \div 2, last |-> j \div 2, ok |-> TRUE, used |-> v, old |-> oo, new |-> ww]
  BY <1>13, <1>14, <1>15
<1>18. QED
  BY <1>9, <1>15, <1>16, <1>17

\* After its first u elements the path has the siblings from level b on.
Carries(path, u, c, b, K, T, N, p, at, h, g) ==
  /\ Len(path) \in Nat /\ Len(path) = u + (c[K] - c[b])
  /\ \A j \in b .. K - 1 : HasSib(h, g, j) => path[u + (c[j] - c[b]) + 1] = Sib(T, N, p, at, h, j)

\* The list of siblings does, alone and behind another element.
LEMMA SibsCarried ==
  ASSUME NEW T, NEW y, NEW N, NEW p, NEW x, NEW h, NEW at, NEW g, NEW bt, NEW L,
         On(T, y, N, p, x, h, at, g, bt, L), NEW K \in 0 .. L, NEW c, Counts(c, h, g, K),
         NEW b \in 0 .. K, NEW path, Sibs(path, c, b, K, T, N, p, at, h, g), NEW e
  PROVE  Carries(path, 0, c, b, K, T, N, p, at, h, g) /\ Carries(<<e>> \o path, 1, c, b, K, T, N, p, at, h, g)
<1>1. L \in Nat /\ K \in Nat
  BY DEF On
<1>2. PICK u, w, S : u = c[b] /\ w = c[K] /\ S = HeadsOf(T, N) \cup {e}
  OBVIOUS
<1>3. u \in Nat /\ w \in Nat /\ u <= w
  <2>1. b \in 0 .. K /\ K \in 0 .. K /\ b <= K
    BY <1>1
  <2>2. QED
    BY <1>2, <2>1 DEF Counts
<1>4. \A j \in b .. K - 1 : c[j] \in Nat /\ u <= c[j] /\ (HasSib(h, g, j) => c[j] + 1 <= w)
  <2> SUFFICES ASSUME NEW j \in b .. K - 1
               PROVE  c[j] \in Nat /\ u <= c[j] /\ (HasSib(h, g, j) => c[j] + 1 <= w)
    OBVIOUS
  <2>1. j \in 0 .. K /\ j + 1 \in 0 .. K /\ K \in 0 .. K /\ j \in 0 .. K - 1
    BY <1>1
  <2>2. c[j] \in Nat /\ c[b] <= c[j] /\ c[j + 1] <= c[K]
    BY <2>1 DEF Counts
  <2>3. HasSib(h, g, j) => c[j + 1] = c[j] + 1
    BY <2>1 DEF Counts
  <2>4. QED
    BY <1>2, <2>2, <2>3
<1>5. /\ path \in Seq(HeadsOf(T, N)) /\ Len(path) = w - u
      /\ \A j \in b .. K - 1 : HasSib(h, g, j) => path[c[j] - u + 1] = Sib(T, N, p, at, h, j)
  BY <1>2 DEF Sibs
<1>6. Carries(path, 0, c, b, K, T, N, p, at, h, g)
  <2>1. Len(path) \in Nat /\ Len(path) = 0 + (w - u)
    BY <1>3, <1>5
  <2>2. ASSUME NEW j \in b .. K - 1, HasSib(h, g, j)
        PROVE  path[0 + (c[j] - u) + 1] = Sib(T, N, p, at, h, j)
    <3>1. 0 + (c[j] - u) + 1 = c[j] - u + 1
      BY <1>3, <1>4
    <3>2. QED
      BY <1>5, <2>2, <3>1
  <2>3. QED
    BY <1>2, <2>1, <2>2 DEF Carries
<1>7. Carries(<<e>> \o path, 1, c, b, K, T, N, p, at, h, g)
  <2>1. path \in Seq(S) /\ <<e>> \in Seq(S) /\ Len(<<e>>) = 1
    <3>1. path \in Seq(S)
      <4>1. HeadsOf(T, N) \subseteq S
        BY <1>2
      <4>2. QED
        BY <1>5, <4>1, SeqMonotonic
    <3>2. e \in S
      BY <1>2
    <3>3. QED
      BY <3>1, <3>2
  <2>2. /\ <<e>> \o path \in Seq(S) /\ Len(<<e>> \o path) = Len(<<e>>) + Len(path)
        /\ \A i \in 1 .. Len(<<e>>) + Len(path) : (<<e>> \o path)[i] =
             IF i <= Len(<<e>>) THEN <<e>>[i] ELSE path[i - Len(<<e>>)]
    BY <2>1, ConcatProperties
  <2>3. \A i \in 1 .. 1 + (w - u) : (<<e>> \o path)[i] = IF i <= 1 THEN <<e>>[i] ELSE path[i - 1]
    BY <1>5, <2>1, <2>2
  <2>4. Len(<<e>> \o path) \in Nat /\ Len(<<e>> \o path) = 1 + (w - u)
    BY <1>3, <1>5, <2>1, <2>2
  <2>5. ASSUME NEW j \in b .. K - 1, HasSib(h, g, j)
        PROVE  (<<e>> \o path)[1 + (c[j] - u) + 1] = Sib(T, N, p, at, h, j)
    <3>1. PICK i : i = c[j] - u + 1
      OBVIOUS
    <3>2. i + 1 \in 1 .. 1 + (w - u) /\ ~ (i + 1 <= 1) /\ (i + 1) - 1 = i /\ 1 + (c[j] - u) + 1 = i + 1
      BY <1>3, <1>4, <2>5, <3>1
    <3>3. (<<e>> \o path)[i + 1] = path[i]
      BY <2>3, <3>2
    <3>4. QED
      BY <1>5, <2>5, <3>1, <3>2, <3>3
  <2>6. QED
    BY <1>2, <2>4, <2>5 DEF Carries
<1>8. QED
  BY <1>6, <1>7

\* The counts around a level.
LEMMA CountStep ==
  ASSUME NEW K \in Nat, NEW c, NEW h, NEW g, Counts(c, h, g, K), NEW b \in 0 .. K, NEW l \in b .. K - 1
  PROVE  /\ c[l] \in Nat /\ c[l + 1] \in Nat /\ c[b] \in Nat /\ c[K] \in Nat
         /\ c[b] <= c[l] /\ c[l + 1] <= c[K]
         /\ HasSib(h, g, l) => c[l + 1] = c[l] + 1
         /\ ~ HasSib(h, g, l) => c[l + 1] = c[l]
<1>1. l \in 0 .. K /\ l + 1 \in 0 .. K /\ K \in 0 .. K /\ l \in 0 .. K - 1 /\ b <= l /\ l + 1 <= K
  OBVIOUS
<1>2. c[l] \in Nat /\ c[l + 1] \in Nat /\ c[b] \in Nat /\ c[K] \in Nat
  BY <1>1 DEF Counts
<1>3. c[b] <= c[l] /\ c[l + 1] <= c[K]
  BY <1>1 DEF Counts
<1>4. c[l + 1] = IF HasSib(h, g, l) THEN c[l] + 1 ELSE c[l]
  BY <1>1 DEF Counts
<1>5. QED
  BY <1>2, <1>3, <1>4

\* An element's place in the path.
LEMMA Offsets ==
  ASSUME NEW u \in Nat, NEW d \in Nat, NEW dd \in Nat, NEW cb \in Nat, NEW ck \in Nat, cb <= d, dd <= ck,
         NEW v, v = u + (d - cb)
  PROVE  /\ v \in Nat
         /\ dd = d + 1 => v < u + (ck - cb) /\ v + 1 = u + (dd - cb)
  OBVIOUS

\* A log of m leaves, z, and the same log when it has n, y; x is the old one's
\* last leaf.
Grown(z, A, m, y, B, n, p, x, h, at, g, bt, L) ==
  /\ Table(A, "plain", z) /\ m \in Nat /\ m = Len(z) /\ x + 1 = m /\ m < n
  /\ On(B, y, n, p, x, h, at, g, bt, L) /\ Same(z, y, m)

AllRisen(up, path, n) == \A i \in 1 .. n : up[i] = risen(path, up[i - 1])

\* With an honest path the loops come to the two roots, and to the path's end.
LEMMA RiseThrough ==
  ASSUME NEW z, NEW A, NEW m, NEW y, NEW B, NEW n, NEW p, NEW x, NEW h, NEW at, NEW g, NEW bt, NEW L,
         Grown(z, A, m, y, B, n, p, x, h, at, g, bt, L), NEW b \in Nat, NEW K, K = b + n, K <= L,
         NEW c, Counts(c, h, g, K), NEW path, NEW u \in Nat,
         Carries(path, u, c, b, K, B, n, p, at, h, g), NEW up,
         up[0] = RiseAt(b, u, A, m, B, n, p, at, h, g), AllRisen(up, path, n)
  PROVE  up[n] = RiseAt(K, Len(path), A, m, B, n, p, at, h, g)
<1>1. /\ Table(A, "plain", z) /\ m \in Nat /\ m = Len(z) /\ x + 1 = m /\ m < n
       /\ On(B, y, n, p, x, h, at, g, bt, L) /\ Same(z, y, m)
  BY DEF Grown
<1>2. /\ b + n <= L /\ Counts(c, h, g, b + n) /\ Carries(path, u, c, b, b + n, B, n, p, at, h, g)
      /\ \A i \in 1 .. n : up[i] = risen(path, up[i - 1])
  BY DEF AllRisen
<1>3. n \in Nat /\ L \in Nat
  BY <1>1 DEF On
<1> DEFINE U == {i \in 0 .. n : up[i] = RiseAt(b + i, u + (c[b + i] - c[b]), A, m, B, n, p, at, h, g)}
<1>4. c \in [0 .. b + n -> Nat]
  BY <1>2 DEF Counts
<1>5. 0 \in U
  <2>1. b \in 0 .. b + n
    BY <1>3
  <2>2. c[b] \in Nat
    BY <1>4, <2>1
  <2>3. u + (c[b] - c[b]) = u
    BY <2>2
  <2>4. b + 0 = b /\ 0 \in 0 .. n
    BY <1>3
  <2>5. QED
    BY <2>3, <2>4
<1>6. ASSUME NEW i \in 1 .. n, i - 1 \in U PROVE i \in U
  <2>1. PICK l : l = b + (i - 1)
    OBVIOUS
  <2>2. l \in 0 .. L - 1 /\ l \in b .. (b + n) - 1 /\ l \in 0 .. (b + n) - 1 /\ l \in 0 .. b + n
    BY <1>2, <1>3, <2>1
  <2>3. l + 1 = b + i /\ l + 1 \in 0 .. b + n /\ b \in 0 .. b + n /\ b + n \in 0 .. b + n
    BY <1>3, <2>1
  <2>4. PICK d, dd, cb, ck, v : d = c[l] /\ dd = c[l + 1] /\ cb = c[b] /\ ck = c[b + n] /\ v = u + (d - cb)
    OBVIOUS
  <2>5. /\ d \in Nat /\ dd \in Nat /\ cb \in Nat /\ ck \in Nat
        /\ cb <= d /\ dd <= ck
        /\ HasSib(h, g, l) => dd = d + 1
        /\ ~ HasSib(h, g, l) => dd = d
    <3>1. PICK k : k = b + n
      OBVIOUS
    <3>2. k \in Nat /\ Counts(c, h, g, k) /\ b \in 0 .. k /\ l \in b .. k - 1
      BY <1>2, <1>3, <2>2, <3>1
    <3>3. QED
      BY <2>4, <3>1, <3>2, CountStep
  <2>6. Len(path) \in Nat /\ Len(path) = u + (ck - cb)
    BY <1>2, <2>4 DEF Carries
  <2>7. HasSib(h, g, l) => path[v + 1] = Sib(B, n, p, at, h, l)
    BY <1>2, <2>2, <2>4 DEF Carries
  <2>8. v \in Nat /\ (HasSib(h, g, l) => v < Len(path))
    <3>1. v = u + (d - cb)
      BY <2>4
    <3>2. d \in Nat /\ dd \in Nat /\ cb \in Nat /\ ck \in Nat /\ cb <= d /\ dd <= ck
      BY <2>5
    <3>3. v \in Nat
      BY <3>1, <3>2, Offsets
    <3>4. dd = d + 1 => v < u + (ck - cb)
      BY <3>1, <3>2, Offsets
    <3>5. QED
      BY <2>5, <2>6, <3>3, <3>4
  <2>9. up[i - 1] = RiseAt(l, v, A, m, B, n, p, at, h, g)
    BY <1>6, <2>1, <2>4
  <2>10. risen(path, RiseAt(l, v, A, m, B, n, p, at, h, g))
           = RiseAt(l + 1, IF HasSib(h, g, l) THEN v + 1 ELSE v, A, m, B, n, p, at, h, g)
    BY <1>1, <2>2, <2>6, <2>7, <2>8, RiseOn
  <2>11. (IF HasSib(h, g, l) THEN v + 1 ELSE v) = u + (dd - cb)
    <3>1. dd = d + 1 => v + 1 = u + (dd - cb)
      <4>1. v = u + (d - cb)
        BY <2>4
      <4>2. d \in Nat /\ dd \in Nat /\ cb \in Nat /\ ck \in Nat /\ cb <= d /\ dd <= ck
        BY <2>5
      <4>3. QED
        BY <4>1, <4>2, Offsets
    <3>2. dd = d => v = u + (dd - cb)
      BY <2>4
    <3>3. QED
      BY <2>5, <3>1, <3>2
  <2>12. up[i] = RiseAt(b + i, u + (c[b + i] - c[b]), A, m, B, n, p, at, h, g)
    BY <1>2, <2>3, <2>4, <2>9, <2>10, <2>11
  <2>13. i \in 0 .. n
    OBVIOUS
  <2>14. QED
    BY <2>12, <2>13
<1> HIDE DEF U
<1>7. \A i \in 0 .. n : i \in U
  BY <1>3, <1>5, <1>6, UpFromZero
<1>8. n \in U
  BY <1>3, <1>7
<1>9. Len(path) = u + (c[b + n] - c[b])
  BY <1>2 DEF Carries
<1>10. QED
  BY <1>8, <1>9 DEF U

\* Nothing is on the left of the first node of a level, and of no other.
LEMMA FirstOfLevel ==
  ASSUME NEW L \in Nat, NEW p, Powers(p, L), NEW x, NEW h, NEW at, Way(h, at, p, x, L), NEW l \in 0 .. L
  PROVE  h[l] \in Nat /\ (h[l] = 0 <=> at[l] = 0)
<1>1. PICK a, q : a = h[l] /\ q = p[l]
  OBVIOUS
<1>2. a \in Nat /\ at[l] = a * q
  BY <1>1 DEF Way, Halves
<1>3. q \in Nat /\ q >= 1
  BY <1>1, PowersGrow
<1>4. CASE a = 0
  BY <1>1, <1>2, <1>3, <1>4
<1>5. CASE a # 0
  <2>1. 1 \in Nat /\ 1 <= a
    BY <1>2, <1>5
  <2>2. 1 * q <= a * q
    BY <1>2, <1>3, <2>1, ProductsGrow
  <2>3. 1 * q = q /\ a * q \in Nat
    BY <1>2, <1>3, Products
  <2>4. at[l] # 0
    BY <1>2, <1>3, <2>2, <2>3
  <2>5. QED
    BY <1>1, <1>2, <1>5, <2>4
<1>6. QED
  BY <1>4, <1>5

\* The head of a whole tree, from a level as large as it is.
LEMMA NodeOfAll ==
  ASSUME NEW T, NEW N \in Nat, NEW q \in Nat, N <= q
  PROVE  Node(T, N, q, 0) = T[N][0]
<1>1. (IF q <= N - 0 THEN q ELSE N - 0) = N
  OBVIOUS
<1>2. QED
  BY <1>1 DEF Node

\* The first m leaves of a list.
LEMMA Beginning ==
  ASSUME NEW S, NEW w \in Seq(S), NEW m \in 1 .. Len(w)
  PROVE  /\ SubSeq(w, 1, m) \in Seq(S) /\ SubSeq(w, 1, m) # <<>> /\ Len(SubSeq(w, 1, m)) = m
         /\ Same(Leaves("plain", SubSeq(w, 1, m)), Leaves("plain", w), m)
<1>1. Len(w) \in Nat /\ m \in Nat
  OBVIOUS
<1>2. \A i \in 1 .. m : w[i] \in S
  BY <1>1, ElementOfSeq
<1>3. PICK v : v = SubSeq(w, 1, m)
  OBVIOUS
<1>4. v \in Seq(S) /\ Len(v) = m /\ \A i \in 1 .. m : v[i] = w[i]
  BY <1>1, <1>2, <1>3
<1>5. v # <<>>
  BY <1>1, <1>4
<1>6. ASSUME NEW j \in 1 .. m PROVE Leaves("plain", v)[j] = Leaves("plain", w)[j]
  <2>1. j \in 1 .. Len(w) /\ j \in 1 .. Len(v)
    BY <1>1, <1>4
  <2>2. Leaves("plain", v)[j] = leaf("plain", v[j])
    BY <1>4, <2>1, LeavesOfList
  <2>3. Leaves("plain", w)[j] = leaf("plain", w[j])
    BY <2>1, LeavesOfList
  <2>4. QED
    BY <1>4, <2>2, <2>3
<1>7. QED
  BY <1>3, <1>4, <1>5, <1>6 DEF Same

\* The proof a log hands out for its first m leaves is accepted.
LEMMA ConsistencyComplete ==
  ASSUME NEW S, NEW w \in Seq(S), NEW m \in 1 .. Len(w) - 1
  PROVE  verify_consistency(Head_(SubSeq(w, 1, m)), Head_(w), subproof(m, w))
<1>1. PICK n, v, x : n = Len(w) /\ v = SubSeq(w, 1, m) /\ x = m - 1
  OBVIOUS
<1>2. PICK z, y, A, B : z = Leaves("plain", v) /\ y = Leaves("plain", w) /\ A = trees(v) /\ B = trees(w)
  OBVIOUS
<1>3. n \in Nat /\ m \in Nat /\ m < n /\ 0 < m /\ x \in Nat /\ x + 1 = m /\ x \in 0 .. n - 1 /\ n - 1 \in Nat
  BY <1>1
<1>4. v \in Seq(S) /\ v # <<>> /\ Len(v) = m /\ Same(z, y, m)
  <2>1. m \in 1 .. Len(w)
    BY <1>1, <1>3
  <2>2. QED
    BY <1>1, <1>2, <2>1, Beginning
<1>5. w # <<>>
  BY <1>1, <1>3
<1>6. Table(A, "plain", z) /\ Len(z) = m
  BY <1>2, <1>4, TreesOfLog
<1>7. Table(B, "plain", y) /\ Len(y) = n
  BY <1>1, <1>2, TreesOfLog
<1>8. PICK L : L = 2 * n
  OBVIOUS
<1>9. L \in Nat
  BY <1>3, <1>8
<1>10. PICK p : Powers(p, L)
  BY <1>9, PowersExist
<1>11. PICK h, at : Way(h, at, p, x, L)
  BY <1>3, <1>9, <1>10, WaysExist
<1>12. PICK g, bt : Way(g, bt, p, n - 1, L)
  BY <1>3, <1>9, <1>10, WaysExist
<1>13. On(B, y, n, p, x, h, at, g, bt, L)
  BY <1>3, <1>7, <1>9, <1>10, <1>11, <1>12 DEF On
<1>14. PICK b \in 0 .. x : shared(x, n - 1) = <<h[b], g[b]>> /\ FirstLeft(h, b)
  <2>1. x <= L
    BY <1>3, <1>8
  <2>2. QED
    BY <1>3, <1>9, <1>10, <1>11, <1>12, <2>1, SharedLevel DEF FirstLeft
<1>15. PICK K : K = b + n
  OBVIOUS
<1>16. /\ b \in Nat /\ K \in Nat /\ K \in 0 .. L /\ b \in 0 .. K - 1 /\ b \in 0 .. L - 1 /\ b \in 0 .. L /\ b \in 0 .. K
       /\ K <= L
  BY <1>3, <1>8, <1>15
<1>17. PICK c : Counts(c, h, g, K)
  BY <1>16, CountsExist
<1>18. p[K] \in Nat /\ n <= p[K] /\ x < p[K]
  <2>1. p[K] \in Nat /\ p[K] >= K + 1
    BY <1>9, <1>10, <1>16, PowersGrow
  <2>2. QED
    BY <1>3, <1>15, <1>16, <2>1
<1>19. PICK q, a : q = p[b] /\ a = at[b]
  OBVIOUS
<1>20. x + 1 < n
  BY <1>3
<1>21. a + q = x + 1 /\ Size(n, q, a) = q
  BY <1>13, <1>14, <1>16, <1>19, <1>20, EdgeLevel
<1>22. q \in Nat /\ q >= 1 /\ a \in Nat
  BY <1>13, <1>16, <1>19, OnLevel
<1>23. PICK e : e = B[q][a]
  OBVIOUS
<1>24. Node(B, n, q, a) = e /\ Node(A, m, q, a) = e
  <2>1. q <= n - a /\ q <= m - a
    BY <1>3, <1>21, <1>22
  <2>2. Node(B, n, q, a) = B[q][a] /\ Node(A, m, q, a) = A[q][a]
    BY <2>1 DEF Node
  <2>3. q \in 1 .. m /\ a \in 0 .. m - q
    BY <1>3, <1>21, <1>22
  <2>4. HeadsAgree(A, B, m)
    <3>1. Len(z) \in Nat /\ Len(y) \in Nat /\ m <= Len(z) /\ m <= Len(y)
      BY <1>3, <1>6, <1>7
    <3>2. QED
      BY <1>3, <1>4, <1>6, <1>7, <3>1, SameHeads
  <2>5. QED
    BY <1>23, <2>2, <2>3, <2>4 DEF HeadsAgree
<1>25. PICK path : /\ Sibs(path, c, b, K, B, n, p, at, h, g)
                   /\ subproof(x + 1, w) = IF at[b] = 0 THEN path ELSE <<B[p[b]][at[b]]>> \o path
  <2>1. \E path : IsSubproof(subproof(x + 1, w), path, c, b, K, B, n, p, at, h, g)
    BY <1>1, <1>2, <1>13, <1>14, <1>16, <1>17, <1>18, <1>20, SubproofIs
  <2>2. QED
    BY <2>1 DEF IsSubproof
<1>26. PICK P, u : P = subproof(m, w) /\ u = IF a = 0 THEN 0 ELSE 1
  OBVIOUS
<1>27. P = (IF a = 0 THEN path ELSE <<e>> \o path) /\ u \in Nat
  BY <1>3, <1>19, <1>23, <1>25, <1>26
<1>28. Carries(P, u, c, b, K, B, n, p, at, h, g)
  <2>1. Carries(path, 0, c, b, K, B, n, p, at, h, g) /\ Carries(<<e>> \o path, 1, c, b, K, B, n, p, at, h, g)
    BY <1>13, <1>16, <1>17, <1>25, SibsCarried
  <2>2. QED
    BY <1>26, <1>27, <2>1
<1>29. h[b] \in Nat /\ (h[b] = 0 <=> a = 0)
  BY <1>9, <1>10, <1>11, <1>16, <1>19, FirstOfLevel
<1>30. a # 0 => P # <<>> /\ P[1] = e
  <2>1. ASSUME a # 0 PROVE P # <<>> /\ P[1] = e
    <3>1. P = <<e>> \o path /\ path \in Seq(HeadsOf(B, n))
      BY <1>25, <1>27, <2>1 DEF Sibs
    <3>2. PICK R : R = HeadsOf(B, n) \cup {e}
      OBVIOUS
    <3>3. HeadsOf(B, n) \subseteq R /\ e \in R
      BY <3>2
    <3>4. path \in Seq(R) /\ <<e>> \in Seq(R)
      BY <3>1, <3>3, SeqMonotonic
    <3>5. QED
      BY <3>1, <3>4
  <2>2. QED
    BY <2>1
<1>31. PICK old, new : old = Head_(v) /\ new = Head_(w)
  OBVIOUS
<1>32. old.tree_size = m /\ new.tree_size = n /\ old.root_hash = A[m][0] /\ new.root_hash = B[n][0]
  <2>1. root(v) = A[m][0] /\ root(w) = B[n][0]
    BY <1>1, <1>2, <1>4, <1>5, RootOfLog
  <2>2. QED
    BY <1>1, <1>4, <1>31, <2>1 DEF Head_
<1>33. shared(old.tree_size - 1, new.tree_size - 1) = <<h[b], g[b]>>
  BY <1>1, <1>14, <1>32
<1>34. rebuilt(old, new, P) = rise(P, h[b], g[b], u, e, n)
  <2>1. CASE a = 0
    <3>1. h[b] = 0 /\ u = 0
      BY <1>26, <1>29, <2>1
    <3>2. q = m
      BY <1>3, <1>21, <1>22, <2>1
    <3>3. Node(A, m, q, a) = A[m][0]
      BY <1>3, <1>22, <2>1, <3>2, NodeOfAll
    <3>4. old.root_hash = e
      BY <1>24, <1>32, <3>3
    <3>5. rebuilt(old, new, P) = rise(P, h[b], g[b], 0, old.root_hash, new.tree_size)
      BY <1>33, <3>1 DEF rebuilt
    <3>6. QED
      BY <1>32, <3>1, <3>4, <3>5
  <2>2. CASE a # 0
    <3>1. h[b] > 0 /\ u = 1
      BY <1>26, <1>29, <2>2
    <3>2. rebuilt(old, new, P) = rise(P, h[b], g[b], 1, P[1], new.tree_size)
      BY <1>33, <3>1 DEF rebuilt
    <3>3. QED
      BY <1>30, <1>32, <2>2, <3>1, <3>2
  <2>3. QED
    BY <2>1, <2>2
<1>35. begins(old, new, P)
  BY <1>29, <1>30, <1>33 DEF begins
<1>36. PICK up : RiseRun(up, P, h[b], g[b], u, e, n)
  BY <1>3, RiseTurns
<1>37. /\ up[0] = RiseStart(h[b], g[b], u, e) /\ rise(P, h[b], g[b], u, e, n) = up[n]
       /\ \A i \in 1 .. n : up[i] = risen(P, up[i - 1])
  BY <1>36 DEF RiseRun
<1>38. up[0] = RiseAt(b, u, A, m, B, n, p, at, h, g)
  BY <1>19, <1>24, <1>37 DEF RiseStart, RiseAt
<1>39. up[n] = RiseAt(K, Len(P), A, m, B, n, p, at, h, g)
  <2>1. AllRisen(up, P, n)
    BY <1>37 DEF AllRisen
  <2>2. Grown(z, A, m, y, B, n, p, x, h, at, g, bt, L)
    BY <1>3, <1>4, <1>6, <1>13 DEF Grown
  <2>3. b \in Nat /\ K = b + n /\ K <= L /\ u \in Nat
    BY <1>15, <1>16, <1>27
  <2>4. QED
    BY <1>17, <1>28, <1>38, <2>1, <2>2, <2>3, RiseThrough
<1>40. at[K] = 0
  BY <1>3, <1>9, <1>10, <1>11, <1>16, <1>18, TopOfWay
<1>41. Node(A, m, p[K], at[K]) = A[m][0] /\ Node(B, n, p[K], at[K]) = B[n][0]
  <2>1. m <= p[K]
    BY <1>3, <1>18
  <2>2. QED
    BY <1>3, <1>18, <1>40, <2>1, NodeOfAll
<1>42. up[n].ok /\ up[n].used = Len(P) /\ up[n].old = A[m][0] /\ up[n].new = B[n][0]
  BY <1>39, <1>41 DEF RiseAt
<1>43. 0 < old.tree_size /\ old.tree_size < new.tree_size
  BY <1>3, <1>32
<1>44. verify_consistency(old, new, P)
  BY <1>32, <1>34, <1>35, <1>37, <1>42, <1>43 DEF verify_consistency
<1>45. QED
  BY <1>1, <1>26, <1>31, <1>44

-----------------------------------------------------------------------------
(* The levels fold_inclusion passes.                                       *)

\* On the levels from l to k the node is a left child, or has no sibling.
AllLeft(h, l, k)    == \A d \in l .. k - 1 : (h[d] % 2) = 0
NoSibs(h, g, l, k) == \A d \in l .. k - 1 : ~ HasSib(h, g, d)

\* The next number is half of it.
LEMMA OneHalf ==
  ASSUME NEW L \in Nat, NEW x, NEW h, Halves(h, x, L), NEW l \in 0 .. L - 1
  PROVE  h[l] \in Nat /\ h[l + 1] \in Nat /\ h[l + 1] = h[l] \div 2
<1>1. l \in 0 .. L /\ l + 1 \in 1 .. L /\ l + 1 \in 0 .. L /\ (l + 1) - 1 = l
  OBVIOUS
<1>2. QED
  BY <1>1 DEF Halves

\* After as many halvings nothing is left of a number.
LEMMA HalvedAway ==
  ASSUME NEW L \in Nat, NEW x, NEW h, Halves(h, x, L), NEW l \in 0 .. L, l + 1 + h[l] <= L
  PROVE  h[l] \in Nat /\ h[l + 1 + h[l]] = 0
<1>1. PICK i : i = h[l]
  OBVIOUS
<1>2. i \in Nat
  BY <1>1 DEF Halves
<1> DEFINE U == {e \in 0 .. i + 1 : h[l + e] \in Nat /\ (h[l + e] = 0 \/ h[l + e] + e <= i)}
<1>3. 0 \in U
  <2>1. l + 0 = l /\ 0 \in 0 .. i + 1
    BY <1>2
  <2>2. QED
    BY <1>1, <1>2, <2>1
<1>4. ASSUME NEW e \in 1 .. i + 1, e - 1 \in U PROVE e \in U
  <2>1. PICK k, a, b : k = l + (e - 1) /\ a = h[k] /\ b = h[k + 1]
    OBVIOUS
  <2>2. k \in 0 .. L - 1 /\ k + 1 = l + e
    BY <1>1, <1>2, <2>1
  <2>3. a \in Nat /\ b \in Nat /\ b = a \div 2
    BY <2>1, <2>2, OneHalf
  <2>4. a = 0 \/ a + (e - 1) <= i
    BY <1>4, <2>1
  <2>5. b = 0 \/ b + 1 <= a
    BY <2>3
  <2>6. b = 0 \/ b + e <= i
    <3>1. a = 0 => b = 0
      BY <2>3
    <3>2. QED
      BY <1>2, <2>3, <2>4, <2>5, <3>1
  <2>7. e \in 0 .. i + 1
    BY <1>2
  <2>8. QED
    BY <2>1, <2>2, <2>3, <2>6, <2>7
<1> HIDE DEF U
<1>5. \A e \in 0 .. i + 1 : e \in U
  <2>1. i + 1 \in Nat
    BY <1>2
  <2>2. QED
    BY <1>3, <1>4, <2>1, UpFromZero
<1>6. i + 1 \in U
  BY <1>2, <1>5
<1>7. PICK b : b = h[l + (i + 1)]
  OBVIOUS
<1>8. b \in Nat /\ (b = 0 \/ b + (i + 1) <= i)
  BY <1>6, <1>7 DEF U
<1>9. b = 0
  BY <1>2, <1>8
<1>10. l + (i + 1) = l + 1 + i
  BY <1>2
<1>11. QED
  BY <1>1, <1>2, <1>7, <1>9, <1>10

ClimbsTo(l, k, h, g) ==
  climb(h[l], g[l]) = <<h[k], g[k]>> /\ AllLeft(h, l, k) /\ ((h[k] % 2) = 1 \/ h[k] = 0)

\* The inner loop goes to the lowest level above on which the node is a right
\* child, or the first.
LEMMA ClimbLevel ==
  ASSUME NEW L \in Nat, NEW x, NEW y, NEW h, Halves(h, x, L), NEW g, Halves(g, y, L),
         NEW l \in 0 .. L, (h[l] % 2) = 0, l + 1 + h[l] <= L
  PROVE  \E k \in l + 1 .. L : ClimbsTo(l, k, h, g)
<1>1. PICK i, j, m : i = h[l] /\ j = g[l] /\ m = l + 1
  OBVIOUS
<1>2. i \in Nat /\ h[m + i] = 0 /\ m \in Nat /\ m + i <= L /\ l \in 0 .. L - 1
  BY <1>1, HalvedAway
<1>3. PICK up : ClimbRun(up, i, j)
  BY <1>2, ClimbTurns
<1>4. up[0] = above(<<i, j>>) /\ climb(i, j) = up[i] /\ \A r \in 1 .. i : up[r] = past_left(up[r - 1])
  BY <1>3 DEF ClimbRun
<1> DEFINE At(r, d) == /\ up[r] = <<h[m + d], g[m + d]>> /\ AllLeft(h, l, m + d)
                       /\ d = r \/ (h[m + d] % 2) = 1 \/ h[m + d] = 0
           U == {r \in 0 .. i : \E d \in 0 .. r : At(r, d)}
<1>5. 0 \in U
  <2>1. h[m] = i \div 2 /\ g[m] = j \div 2
    BY <1>1, <1>2, OneHalf
  <2>2. above(<<i, j>>) = <<i \div 2, j \div 2>>
    BY DEF above
  <2>3. AllLeft(h, l, m)
    <3>1. \A d \in l .. m - 1 : d = l
      BY <1>1
    <3>2. QED
      BY <3>1 DEF AllLeft
  <2>4. m + 0 = m /\ 0 \in 0 .. 0 /\ 0 \in 0 .. i
    BY <1>2
  <2>5. At(0, 0)
    BY <1>4, <2>1, <2>2, <2>3, <2>4
  <2>6. QED
    BY <2>4, <2>5
<1>6. ASSUME NEW r \in 1 .. i, r - 1 \in U PROVE r \in U
  <2>1. PICK d \in 0 .. r - 1 : At(r - 1, d)
    BY <1>6
  <2>2. PICK k, a, b : k = m + d /\ a = h[k] /\ b = g[k]
    OBVIOUS
  <2>3. k \in 0 .. L - 1 /\ k \in l .. L - 1
    BY <1>1, <1>2, <2>2
  <2>4. a \in Nat /\ h[k + 1] = a \div 2 /\ g[k + 1] = b \div 2
    BY <2>2, <2>3, OneHalf
  <2>5. up[r] = past_left(<<a, b>>)
    BY <1>4, <2>1, <2>2
  <2>6. r \in 0 .. i
    BY <1>2
  <2>7. CASE (a % 2) = 1 \/ a = 0
    <3>1. up[r] = <<a, b>>
      BY <2>5, <2>7 DEF past_left
    <3>2. d \in 0 .. r
      OBVIOUS
    <3>3. At(r, d)
      BY <2>1, <2>2, <2>7, <3>1
    <3>4. QED
      BY <2>6, <3>2, <3>3
  <2>8. CASE ~ ((a % 2) = 1 \/ a = 0)
    <3>1. up[r] = <<a \div 2, b \div 2>>
      BY <2>5, <2>8 DEF past_left, above
    <3>2. d = r - 1
      BY <2>1, <2>2, <2>8
    <3>3. k + 1 = m + r
      BY <1>2, <2>2, <3>2
    <3>4. (a % 2) = 0
      BY <2>4, <2>8
    <3>5. AllLeft(h, l, k + 1)
      <4>1. \A f \in l .. (k + 1) - 1 : f = k \/ f \in l .. k - 1
        BY <2>3
      <4>2. AllLeft(h, l, k)
        BY <2>1, <2>2
      <4>3. QED
        BY <2>2, <3>4, <4>1, <4>2 DEF AllLeft
    <3>6. At(r, r)
      BY <2>4, <3>1, <3>3, <3>5
    <3>7. r \in 0 .. r
      OBVIOUS
    <3>8. QED
      BY <2>6, <3>6, <3>7
  <2>9. QED
    BY <2>7, <2>8
<1>7. i \in U
  <2> HIDE DEF U
  <2>1. \A r \in 0 .. i : r \in U
    BY <1>2, <1>5, <1>6, UpFromZero
  <2>2. QED
    BY <1>2, <2>1
<1>8. PICK d \in 0 .. i : At(i, d)
  BY <1>7
<1>9. PICK k : k = m + d
  OBVIOUS
<1>10. k \in l + 1 .. L
  BY <1>1, <1>2, <1>9
<1>11. (h[k] % 2) = 1 \/ h[k] = 0
  BY <1>2, <1>8, <1>9
<1>12. ClimbsTo(l, k, h, g)
  BY <1>1, <1>4, <1>8, <1>9, <1>11 DEF ClimbsTo
<1>13. QED
  BY <1>10, <1>12

\* Below a node that is the first of its level, left children are too.
LEMMA LeftFromZero ==
  ASSUME NEW L \in Nat, NEW x, NEW h, Halves(h, x, L), NEW l \in 0 .. L, NEW k \in l .. L, AllLeft(h, l, k), h[k] = 0
  PROVE  h[l] = 0
<1> DEFINE U == {d \in 0 .. k - l : h[l + d] = 0}
<1>1. k - l \in Nat /\ l + (k - l) = k
  OBVIOUS
<1>2. k - l \in U
  BY <1>1
<1>3. ASSUME NEW d \in 0 .. (k - l) - 1, d + 1 \in U PROVE d \in U
  <2>1. PICK j, a, b : j = l + d /\ a = h[j] /\ b = h[j + 1]
    OBVIOUS
  <2>2. j \in 0 .. L - 1 /\ j \in l .. k - 1 /\ j + 1 = l + (d + 1)
    BY <2>1
  <2>3. a \in Nat /\ b = a \div 2
    BY <2>1, <2>2, OneHalf
  <2>4. (a % 2) = 0
    BY <2>1, <2>2 DEF AllLeft
  <2>5. b = 0
    BY <1>3, <2>1, <2>2
  <2>6. a = 0
    BY <2>3, <2>4, <2>5
  <2>7. d \in 0 .. k - l
    OBVIOUS
  <2>8. QED
    BY <2>1, <2>6, <2>7
<1> HIDE DEF U
<1>4. \A d \in 0 .. k - l : d \in U
  BY <1>1, <1>2, <1>3, DownFrom
<1>5. 0 \in U
  BY <1>1, <1>4
<1>6. l + 0 = l
  OBVIOUS
<1>7. QED
  BY <1>5, <1>6 DEF U

\* A left child that is the last of its level has no sibling, and so on up.
LEMMA LastAlone ==
  ASSUME NEW L \in Nat, NEW x, NEW y, NEW h, Halves(h, x, L), NEW g, Halves(g, y, L),
         NEW l \in 0 .. L, NEW k \in l .. L, AllLeft(h, l, k), h[l] = g[l]
  PROVE  NoSibs(h, g, l, k)
<1> DEFINE U == {d \in 0 .. k - l : h[l + d] = g[l + d]}
<1>1. k - l \in Nat /\ l + (k - l) = k
  OBVIOUS
<1>2. 0 \in U
  <2>1. l + 0 = l /\ 0 \in 0 .. k - l
    BY <1>1
  <2>2. QED
    BY <2>1
<1>3. ASSUME NEW d \in 1 .. k - l, d - 1 \in U PROVE d \in U
  <2>1. PICK j : j = l + (d - 1)
    OBVIOUS
  <2>2. j \in 0 .. L - 1 /\ j + 1 = l + d
    BY <2>1
  <2>3. h[j + 1] = h[j] \div 2 /\ g[j + 1] = g[j] \div 2
    BY <2>2, OneHalf
  <2>4. h[j] = g[j]
    BY <1>3, <2>1
  <2>5. d \in 0 .. k - l
    OBVIOUS
  <2>6. QED
    BY <2>2, <2>3, <2>4, <2>5
<1> HIDE DEF U
<1>4. \A d \in 0 .. k - l : d \in U
  BY <1>1, <1>2, <1>3, UpFromZero
<1>5. ASSUME NEW d \in l .. k - 1 PROVE ~ HasSib(h, g, d)
  <2>1. d - l \in 0 .. k - l /\ l + (d - l) = d
    OBVIOUS
  <2>2. h[d] = g[d]
    BY <1>4, <2>1 DEF U
  <2>3. (h[d] % 2) = 0
    BY DEF AllLeft
  <2>4. h[d] \in Nat
    <3>1. d \in 0 .. L
      OBVIOUS
    <3>2. QED
      BY <3>1 DEF Halves
  <2>5. QED
    BY <2>2, <2>3, <2>4 DEF HasSib
<1>6. QED
  BY <1>5 DEF NoSibs

\* A node without a sibling is also the one above it.
LEMMA NodeAlong ==
  ASSUME NEW T, NEW y, NEW N, NEW p, NEW x, NEW h, NEW at, NEW g, NEW bt, NEW L,
         On(T, y, N, p, x, h, at, g, bt, L), NEW l \in 0 .. L, NEW k \in l .. L, NoSibs(h, g, l, k)
  PROVE  Node(T, N, p[k], at[k]) = Node(T, N, p[l], at[l])
<1>1. L \in Nat /\ k - l \in Nat /\ l + (k - l) = k /\ l + 0 = l /\ 0 \in 0 .. k - l /\ k - l \in 0 .. k - l
  BY DEF On
<1> DEFINE U == {d \in 0 .. k - l : Node(T, N, p[l + d], at[l + d]) = Node(T, N, p[l], at[l])}
<1>2. 0 \in U
  BY <1>1
<1>3. ASSUME NEW d \in 1 .. k - l, d - 1 \in U PROVE d \in U
  <2>1. PICK j : j = l + (d - 1)
    OBVIOUS
  <2>2. j \in 0 .. L - 1 /\ j \in l .. k - 1 /\ j + 1 = l + d
    BY <1>1, <2>1
  <2>3. ~ HasSib(h, g, j)
    BY <2>2 DEF NoSibs
  <2>4. at[j] = at[j + 1] /\ Size(N, p[j], at[j]) = Size(N, p[j + 1], at[j + 1])
    BY <2>2, <2>3, OneDown DEF Alone
  <2>5. \A q, a : Node(T, N, q, a) = T[Size(N, q, a)][a]
    BY DEF Node, Size
  <2>6. Node(T, N, p[j + 1], at[j + 1]) = Node(T, N, p[j], at[j])
    BY <2>4, <2>5
  <2>7. Node(T, N, p[j], at[j]) = Node(T, N, p[l], at[l])
    BY <1>3, <2>1
  <2>8. d \in 0 .. k - l
    OBVIOUS
  <2>9. QED
    BY <2>2, <2>6, <2>7, <2>8
<1> HIDE DEF U
<1>4. \A d \in 0 .. k - l : d \in U
  BY <1>1, <1>2, <1>3, UpFromZero
<1>5. k - l \in U
  BY <1>1, <1>4
<1>6. QED
  BY <1>1, <1>5 DEF U

\* A node with its sibling is the one above.
LEMMA NodeJoin ==
  ASSUME NEW T, NEW y, NEW N, NEW p, NEW x, NEW h, NEW at, NEW g, NEW bt, NEW L,
         On(T, y, N, p, x, h, at, g, bt, L), NEW k \in 0 .. L - 1, HasSib(h, g, k)
  PROVE  Node(T, N, p[k + 1], at[k + 1])
           = IF (h[k] % 2) = 1 THEN over(Sib(T, N, p, at, h, k), Node(T, N, p[k], at[k]))
             ELSE over(Node(T, N, p[k], at[k]), Sib(T, N, p, at, h, k))
<1>1. PICK q, a, b : q = p[k] /\ a = at[k] /\ b = at[k + 1]
  OBVIOUS
<1>2. /\ q \in Nat /\ b \in Nat /\ b <= x /\ b + q < N
      /\ \/ (h[k] % 2) = 1 /\ a = b + q
         \/ (h[k] % 2) = 0 /\ a = b
  BY <1>1, OnLevel
<1>3. N \in Nat /\ N = Len(y) /\ x \in 0 .. N - 1 /\ L \in Nat /\ Table(T, "plain", y) /\ Powers(p, L)
  BY DEF On
<1>4. b \in 0 .. N - 1
  BY <1>2, <1>3
<1>5. Node(T, N, p[k + 1], b) = IF b + p[k] < N THEN node("plain", Node(T, N, p[k], b), Node(T, N, p[k], b + p[k]))
                                ELSE Node(T, N, p[k], b)
  BY <1>3, <1>4, NodeUp
<1>6. Node(T, N, p[k + 1], b) = over(Node(T, N, q, b), Node(T, N, q, b + q))
  BY <1>1, <1>2, <1>5 DEF over
<1>7. CASE (h[k] % 2) = 1 /\ a = b + q
  <2>1. Sib(T, N, p, at, h, k) = Node(T, N, q, b)
    BY <1>1, <1>7 DEF Sib
  <2>2. QED
    BY <1>1, <1>6, <1>7, <2>1
<1>8. CASE (h[k] % 2) = 0 /\ a = b
  <2>1. Sib(T, N, p, at, h, k) = Node(T, N, q, b + q)
    BY <1>1, <1>8 DEF Sib
  <2>2. (h[k] % 2) # 1
    BY <1>8
  <2>3. QED
    BY <1>1, <1>6, <1>8, <2>1, <2>2
<1>9. QED
  BY <1>2, <1>7, <1>8

\* A node is not after the last of its level, which is the only one from the
\* level N on.
LEMMA NotAfterLast ==
  ASSUME NEW T, NEW y, NEW N, NEW p, NEW x, NEW h, NEW at, NEW g, NEW bt, NEW L,
         On(T, y, N, p, x, h, at, g, bt, L), NEW l \in 0 .. L
  PROVE  /\ h[l] \in Nat /\ g[l] \in Nat /\ h[l] <= g[l] /\ h[l] <= x
         /\ l >= N => h[l] = 0 /\ g[l] = 0
         /\ g[l] = 0 => at[l] = 0 /\ N <= p[l]
<1>1. /\ N \in Nat /\ x \in 0 .. N - 1 /\ L \in Nat /\ N - 1 \in Nat /\ x \in Nat
      /\ Powers(p, L) /\ Way(h, at, p, x, L) /\ Way(g, bt, p, N - 1, L)
  BY DEF On
<1>2. PICK a, b, q : a = h[l] /\ b = g[l] /\ q = p[l]
  OBVIOUS
<1>3. a \in Nat /\ b \in Nat
  BY <1>1, <1>2 DEF Way, Halves
<1>4. q \in Nat /\ q >= l + 1
  BY <1>1, <1>2, PowersGrow
<1>5. b < a <=> bt[l] + q <= x
  BY <1>1, <1>2, RightOf
<1>6. bt[l] \in Nat /\ N - 1 < bt[l] + q
  BY <1>1, <1>2 DEF Way
<1>7. a <= b
  BY <1>1, <1>3, <1>4, <1>5, <1>6
<1>8. l >= N => a = 0 /\ b = 0
  <2>1. ASSUME l >= N PROVE a = 0 /\ b = 0
    <3>1. x < q /\ N - 1 < q
      BY <1>1, <1>4, <2>1
    <3>2. QED
      BY <1>1, <1>2, <3>1, TopOfWay
  <2>2. QED
    BY <2>1
<1>9. at[l] \in Nat /\ at[l] <= x /\ at[l] = a * q
  BY <1>1, <1>2 DEF Way
<1>10. a <= x
  <2>1. CASE a = 0
    BY <1>1, <2>1
  <2>2. CASE a # 0
    <3>1. a * 1 <= a * q
      <4>1. 1 * a <= q * a
        BY <1>3, <1>4, ProductsGrow
      <4>2. QED
        BY <1>3, <1>4, <4>1
    <3>2. QED
      BY <1>1, <1>3, <1>9, <3>1
  <2>3. QED
    BY <2>1, <2>2
<1>11. ASSUME b = 0 PROVE at[l] = 0 /\ N <= q
  <2>1. bt[l] = 0
    <3>1. g[l] = 0 <=> bt[l] = 0
      BY <1>1, FirstOfLevel
    <3>2. QED
      BY <1>2, <1>11, <3>1
  <2>2. a = 0
    BY <1>3, <1>7, <1>11
  <2>3. at[l] = 0
    <3>1. h[l] = 0 <=> at[l] = 0
      BY <1>1, FirstOfLevel
    <3>2. QED
      BY <1>2, <2>2, <3>1
  <2>4. QED
    BY <1>1, <1>4, <1>6, <2>1, <2>3
<1>12. QED
  BY <1>2, <1>3, <1>7, <1>8, <1>10, <1>11

\* The outer loop on level l.
FoldAt(l, h, g, o, r) == [idx |-> h[l], last |-> g[l], ok |-> o, r |-> r]

\* An element is joined on level k, the lowest from l on with a sibling.
JoinsAt(l, k, h, g, o, r, e) ==
  /\ HasSib(h, g, k) /\ NoSibs(h, g, l, k)
  /\ folded(FoldAt(l, h, g, o, r), e)
       = FoldAt(k + 1, h, g, o, IF (h[k] % 2) = 1 THEN over(e, r) ELSE over(r, e))

\* A round below the root comes to that level and goes to the next.
LEMMA FoldLevel ==
  ASSUME NEW T, NEW y, NEW N, NEW p, NEW x, NEW h, NEW at, NEW g, NEW bt, NEW L,
         On(T, y, N, p, x, h, at, g, bt, L), 2 * N + 1 <= L, NEW l \in 0 .. N, g[l] # 0,
         NEW o, NEW r, NEW e
  PROVE  \E k \in l .. N - 1 : JoinsAt(l, k, h, g, o, r, e)
<1>1. /\ N \in Nat /\ x \in 0 .. N - 1 /\ L \in Nat /\ l \in 0 .. L
      /\ Halves(h, x, L) /\ Halves(g, N - 1, L)
  BY DEF On, Way
<1>2. PICK i, j, s : i = h[l] /\ j = g[l] /\ s = FoldAt(l, h, g, o, r)
  OBVIOUS
<1>3. i \in Nat /\ j \in Nat /\ i <= j /\ i <= x
  BY <1>1, <1>2, NotAfterLast
<1>4. l < N
  <2>1. l >= N => g[l] = 0
    BY <1>1, NotAfterLast
  <2>2. QED
    BY <1>1, <2>1
<1>5. l \in 0 .. L - 1 /\ l \in l .. N - 1
  BY <1>1, <1>4
<1>6. s.idx = i /\ s.last = j /\ s.ok = o /\ s.r = r
  BY <1>2 DEF FoldAt
<1>7. j # 0
  BY <1>2
<1>8. CASE HasSib(h, g, l)
  <2>1. (i % 2) = 1 \/ i < j
    BY <1>2, <1>8 DEF HasSib
  <2>2. NoSibs(h, g, l, l)
    BY <1>1 DEF NoSibs
  <2>3. h[l + 1] = i \div 2 /\ g[l + 1] = j \div 2
    BY <1>1, <1>2, <1>5, OneHalf
  <2>4. folded(s, e) = [idx |-> i \div 2, last |-> j \div 2, ok |-> o,
                        r |-> IF (i % 2) = 1 THEN over(e, r) ELSE over(r, e)]
    <3>1. CASE (i % 2) = 1
      BY <1>6, <1>7, <3>1 DEF folded
    <3>2. CASE (i % 2) # 1
      <4>1. i # j
        BY <1>3, <2>1, <3>2
      <4>2. QED
        BY <1>6, <1>7, <3>2, <4>1 DEF folded
    <3>3. QED
      BY <3>1, <3>2
  <2>5. JoinsAt(l, l, h, g, o, r, e)
    BY <1>2, <1>8, <2>2, <2>3, <2>4 DEF JoinsAt, FoldAt
  <2>6. QED
    BY <1>5, <2>5
<1>9. CASE ~ HasSib(h, g, l)
  <2>1. (i % 2) = 0 /\ i = j
    BY <1>2, <1>3, <1>9 DEF HasSib
  <2>2. l + 1 + h[l] <= L
    BY <1>1, <1>2, <1>3, <1>4
  <2>3. PICK k \in l + 1 .. L : /\ climb(h[l], g[l]) = <<h[k], g[k]>> /\ AllLeft(h, l, k)
                                /\ (h[k] % 2) = 1 \/ h[k] = 0
    <3>1. (h[l] % 2) = 0
      BY <1>2, <2>1
    <3>2. \E k \in l + 1 .. L : ClimbsTo(l, k, h, g)
      BY <1>1, <2>2, <3>1, ClimbLevel
    <3>3. QED
      BY <3>2 DEF ClimbsTo
  <2>4. k \in l .. L /\ k \in 0 .. L
    BY <1>1
  <2>5. h[k] # 0
    <3>1. h[k] = 0 => h[l] = 0
      BY <1>1, <2>3, <2>4, LeftFromZero
    <3>2. QED
      BY <1>2, <1>7, <2>1, <3>1
  <2>6. (h[k] % 2) = 1
    BY <2>3, <2>5
  <2>7. k < N
    <3>1. k >= N => h[k] = 0
      BY <2>4, NotAfterLast
    <3>2. QED
      BY <1>1, <2>4, <2>5, <3>1
  <2>8. k \in l .. N - 1 /\ k \in 0 .. L - 1
    BY <1>1, <2>4, <2>7
  <2>9. NoSibs(h, g, l, k)
    <3>1. h[l] = g[l]
      BY <1>2, <2>1
    <3>2. QED
      BY <1>1, <2>3, <2>4, <3>1, LastAlone
  <2>10. PICK a, b : a = h[k] /\ b = g[k]
    OBVIOUS
  <2>11. h[k + 1] = a \div 2 /\ g[k + 1] = b \div 2
    BY <1>1, <2>8, <2>10, OneHalf
  <2>12. climb(i, j) = <<a, b>>
    BY <1>2, <2>3, <2>10
  <2>13. folded(s, e) = [idx |-> a \div 2, last |-> b \div 2, ok |-> o, r |-> over(e, r)]
    BY <1>6, <1>7, <2>1, <2>12 DEF folded
  <2>14. HasSib(h, g, k)
    BY <2>6 DEF HasSib
  <2>15. JoinsAt(l, k, h, g, o, r, e)
    BY <1>2, <2>6, <2>9, <2>11, <2>13, <2>14 DEF JoinsAt, FoldAt
  <2>16. QED
    BY <2>8, <2>15
<1>10. QED
  BY <1>8, <1>9

\* The element joined is the sibling iff the node above is what they make.
LEMMA JoinsNode ==
  ASSUME NEW T, NEW y, NEW N, NEW p, NEW x, NEW h, NEW at, NEW g, NEW bt, NEW L,
         On(T, y, N, p, x, h, at, g, bt, L), NEW l \in 0 .. L, NEW k \in l .. L - 1,
         HasSib(h, g, k), NoSibs(h, g, l, k), NEW r, NEW e
  PROVE  (IF (h[k] % 2) = 1 THEN over(e, r) ELSE over(r, e)) = Node(T, N, p[k + 1], at[k + 1])
           <=> r = Node(T, N, p[l], at[l]) /\ e = Sib(T, N, p, at, h, k)
<1>1. PICK u, v, w : u = Node(T, N, p[l], at[l]) /\ v = Sib(T, N, p, at, h, k) /\ w = Node(T, N, p[k + 1], at[k + 1])
  OBVIOUS
<1>2. L \in Nat /\ k \in 0 .. L - 1 /\ k \in l .. L
  BY DEF On
<1>3. Node(T, N, p[k], at[k]) = u
  BY <1>1, <1>2, NodeAlong
<1>4. w = IF (h[k] % 2) = 1 THEN over(v, u) ELSE over(u, v)
  BY <1>1, <1>2, <1>3, NodeJoin
<1>5. \A a, b, c, d : over(a, b) = over(c, d) <=> a = c /\ b = d
  BY NodeInjective DEF over
<1>6. (IF (h[k] % 2) = 1 THEN over(e, r) ELSE over(r, e)) = w <=> r = u /\ e = v
  <2>1. CASE (h[k] % 2) = 1
    BY <1>4, <1>5, <2>1
  <2>2. CASE (h[k] % 2) # 1
    BY <1>4, <1>5, <2>2
  <2>3. QED
    BY <2>1, <2>2
<1>7. QED
  BY <1>1, <1>6

\* The loop has failed, or is on a level that is right only if it began right.
Failed(s) == \E i, j, r : s = [idx |-> i, last |-> j, ok |-> FALSE, r |-> r]

TracedAt(s, l, r, e, T, N, p, at, h, g) ==
  s = FoldAt(l, h, g, TRUE, r) /\ (r = Node(T, N, p[l], at[l]) => e = Node(T, N, p[0], at[0]))

Traced(s, e, T, N, p, at, h, g) == \E l \in 0 .. N : \E r : TracedAt(s, l, r, e, T, N, p, at, h, g)

\* A failure stays.
LEMMA FailedOn ==
  ASSUME NEW s, NEW e, Failed(s)
  PROVE  Failed(folded(s, e))
<1>1. PICK i, j, r : s = [idx |-> i, last |-> j, ok |-> FALSE, r |-> r]
  BY DEF Failed
<1>2. s.idx = i /\ s.last = j /\ s.ok = FALSE /\ s.r = r
  BY <1>1
<1>3. CASE j = 0
  <2>1. folded(s, e) = [s EXCEPT !.ok = FALSE]
    BY <1>2, <1>3 DEF folded
  <2>2. folded(s, e) = [idx |-> i, last |-> j, ok |-> FALSE, r |-> r]
    BY <1>1, <2>1
  <2>3. QED
    BY <2>2 DEF Failed
<1>4. CASE j # 0
  <2>1. \E a, b, c : folded(s, e) = [idx |-> a, last |-> b, ok |-> FALSE, r |-> c]
    BY <1>2, <1>4 DEF folded
  <2>2. QED
    BY <2>1 DEF Failed
<1>5. QED
  BY <1>3, <1>4

\* An element past the root is a failure.
LEMMA FailedAtRoot ==
  ASSUME NEW h, NEW g, NEW l, NEW r, NEW e, g[l] = 0
  PROVE  Failed(folded(FoldAt(l, h, g, TRUE, r), e))
<1>1. PICK i, s : i = h[l] /\ s = FoldAt(l, h, g, TRUE, r)
  OBVIOUS
<1>2. s = [idx |-> i, last |-> 0, ok |-> TRUE, r |-> r]
  BY <1>1 DEF FoldAt
<1>3. folded(s, e) = [s EXCEPT !.ok = FALSE]
  BY <1>2 DEF folded
<1>4. folded(s, e) = [idx |-> i, last |-> 0, ok |-> FALSE, r |-> r]
  BY <1>2, <1>3
<1>5. QED
  BY <1>1, <1>4 DEF Failed

\* Whatever the path, what folds to the root is the leaf of that place.
LEMMA FoldSound ==
  ASSUME NEW T, NEW y, NEW N, NEW p, NEW x, NEW h, NEW at, NEW g, NEW bt, NEW L,
         On(T, y, N, p, x, h, at, g, bt, L), 2 * N + 1 <= L, NEW e, NEW path, Len(path) \in Nat,
         fold(N, x, e, path).ok, fold(N, x, e, path).last = 0, fold(N, x, e, path).r = T[N][0]
  PROVE  e = T[1][x]
<1>1. /\ N \in Nat /\ x \in 0 .. N - 1 /\ L \in Nat /\ Powers(p, L)
      /\ Way(h, at, p, x, L) /\ Way(g, bt, p, N - 1, L)
  BY DEF On
<1>2. p[0] = 1 /\ at[0] = x /\ h[0] = x /\ g[0] = N - 1
  BY <1>1 DEF Powers, Way, Halves
<1>3. PICK after : FoldRun(after, N, x, e, path)
  BY FoldTurns
<1>4. /\ after[0] = FoldStart(N, x, e) /\ fold(N, x, e, path) = after[Len(path)]
      /\ \A i \in 1 .. Len(path) : after[i] = folded(after[i - 1], path[i])
  BY <1>3 DEF FoldRun
<1> DEFINE U == {i \in 0 .. Len(path) : Failed(after[i]) \/ Traced(after[i], e, T, N, p, at, h, g)}
<1>5. 0 \in U
  <2>1. after[0] = FoldAt(0, h, g, TRUE, e)
    BY <1>2, <1>4 DEF FoldStart, FoldAt
  <2>2. 0 \in 0 .. N /\ 0 \in 0 .. Len(path)
    BY <1>1
  <2>3. Traced(after[0], e, T, N, p, at, h, g)
    BY <2>1, <2>2 DEF Traced, TracedAt
  <2>4. QED
    BY <2>2, <2>3
<1>6. ASSUME NEW i \in 1 .. Len(path), i - 1 \in U PROVE i \in U
  <2>1. PICK s, f : s = after[i - 1] /\ f = path[i]
    OBVIOUS
  <2>2. after[i] = folded(s, f)
    BY <1>4, <2>1
  <2>3. i \in 0 .. Len(path)
    OBVIOUS
  <2>4. CASE Failed(s)
    <3>1. Failed(after[i])
      BY <2>2, <2>4, FailedOn
    <3>2. QED
      BY <2>3, <3>1
  <2>5. CASE Traced(s, e, T, N, p, at, h, g)
    <3>1. PICK l \in 0 .. N : \E r : TracedAt(s, l, r, e, T, N, p, at, h, g)
      BY <2>5 DEF Traced
    <3>2. PICK r : s = FoldAt(l, h, g, TRUE, r) /\ (r = Node(T, N, p[l], at[l]) => e = Node(T, N, p[0], at[0]))
      BY <3>1 DEF TracedAt
    <3>3. CASE g[l] = 0
      <4>1. Failed(after[i])
        BY <2>2, <3>2, <3>3, FailedAtRoot
      <4>2. QED
        BY <2>3, <4>1
    <3>4. CASE g[l] # 0
      <4>1. PICK k \in l .. N - 1 : JoinsAt(l, k, h, g, TRUE, r, f)
        BY <3>4, FoldLevel
      <4>2. PICK rr : rr = IF (h[k] % 2) = 1 THEN over(f, r) ELSE over(r, f)
        OBVIOUS
      <4>3. HasSib(h, g, k) /\ NoSibs(h, g, l, k) /\ after[i] = FoldAt(k + 1, h, g, TRUE, rr)
        BY <2>2, <3>2, <4>1, <4>2 DEF JoinsAt
      <4>4. l \in 0 .. L /\ k \in l .. L - 1 /\ k + 1 \in 0 .. N
        BY <1>1
      <4>5. rr = Node(T, N, p[k + 1], at[k + 1]) <=> r = Node(T, N, p[l], at[l]) /\ f = Sib(T, N, p, at, h, k)
        BY <4>2, <4>3, <4>4, JoinsNode
      <4>6. rr = Node(T, N, p[k + 1], at[k + 1]) => e = Node(T, N, p[0], at[0])
        BY <3>2, <4>5
      <4>7. Traced(after[i], e, T, N, p, at, h, g)
        BY <4>3, <4>4, <4>6 DEF Traced, TracedAt
      <4>8. QED
        BY <2>3, <4>7
    <3>5. QED
      BY <3>3, <3>4
  <2>6. Failed(s) \/ Traced(s, e, T, N, p, at, h, g)
    BY <1>6, <2>1
  <2>7. QED
    BY <2>4, <2>5, <2>6
<1>7. Len(path) \in U
  <2> HIDE DEF U
  <2>1. \A i \in 0 .. Len(path) : i \in U
    BY <1>5, <1>6, UpFromZero
  <2>2. QED
    BY <2>1
<1>8. PICK end : end = after[Len(path)]
  OBVIOUS
<1>9. end.ok /\ end.last = 0 /\ end.r = T[N][0]
  BY <1>4, <1>8
<1>10. ~ Failed(end)
  BY <1>9 DEF Failed
<1>11. PICK l \in 0 .. N : \E r : TracedAt(end, l, r, e, T, N, p, at, h, g)
  BY <1>7, <1>8, <1>10 DEF Traced
<1>12. PICK r : end = FoldAt(l, h, g, TRUE, r) /\ (r = Node(T, N, p[l], at[l]) => e = Node(T, N, p[0], at[0]))
  BY <1>11 DEF TracedAt
<1>13. g[l] = 0 /\ r = T[N][0]
  BY <1>9, <1>12 DEF FoldAt
<1>14. l \in 0 .. L
  BY <1>1
<1>15. at[l] = 0 /\ N <= p[l] /\ p[l] \in Nat
  <2>1. at[l] = 0 /\ N <= p[l]
    BY <1>13, <1>14, NotAfterLast
  <2>2. QED
    BY <1>1, <1>14, <2>1 DEF Powers
<1>16. r = Node(T, N, p[l], at[l])
  BY <1>1, <1>13, <1>15, NodeOfAll
<1>17. e = Node(T, N, 1, x)
  BY <1>2, <1>12, <1>16
<1>18. 1 <= N - x
  BY <1>1
<1>19. QED
  BY <1>17, <1>18 DEF Node

\* No sibling is counted where there is none.
LEMMA CountsAlong ==
  ASSUME NEW K \in Nat, NEW c, NEW h, NEW g, Counts(c, h, g, K), NEW l \in 0 .. K, NEW k \in l .. K, NoSibs(h, g, l, k)
  PROVE  c[k] = c[l]
<1>1. k - l \in Nat /\ l + (k - l) = k /\ l + 0 = l /\ 0 \in 0 .. k - l /\ k - l \in 0 .. k - l
  OBVIOUS
<1> DEFINE U == {d \in 0 .. k - l : c[l + d] = c[l]}
<1>2. 0 \in U
  BY <1>1
<1>3. ASSUME NEW d \in 1 .. k - l, d - 1 \in U PROVE d \in U
  <2>1. PICK j : j = l + (d - 1)
    OBVIOUS
  <2>2. j \in 0 .. K - 1 /\ j \in l .. k - 1 /\ j + 1 = l + d
    BY <2>1
  <2>3. ~ HasSib(h, g, j)
    BY <2>2 DEF NoSibs
  <2>4. c[j + 1] = c[j]
    BY <2>2, <2>3 DEF Counts
  <2>5. d \in 0 .. k - l /\ c[j] = c[l]
    BY <1>3, <2>1
  <2>6. QED
    BY <2>2, <2>4, <2>5
<1> HIDE DEF U
<1>4. \A d \in 0 .. k - l : d \in U
  BY <1>1, <1>2, <1>3, UpFromZero
<1>5. k - l \in U
  BY <1>1, <1>4
<1>6. QED
  BY <1>1, <1>5 DEF U

\* The first node of a level is below the first of each higher.
LEMMA ZeroOn ==
  ASSUME NEW L \in Nat, NEW x, NEW h, Halves(h, x, L), NEW l \in 0 .. L, h[l] = 0, NEW k \in l .. L
  PROVE  h[k] = 0
<1>1. k - l \in Nat /\ l + (k - l) = k /\ l + 0 = l /\ 0 \in 0 .. k - l /\ k - l \in 0 .. k - l
  OBVIOUS
<1> DEFINE U == {d \in 0 .. k - l : h[l + d] = 0}
<1>2. 0 \in U
  BY <1>1
<1>3. ASSUME NEW d \in 1 .. k - l, d - 1 \in U PROVE d \in U
  <2>1. PICK j : j = l + (d - 1)
    OBVIOUS
  <2>2. j \in 0 .. L - 1 /\ j + 1 = l + d
    BY <2>1
  <2>3. h[j + 1] = h[j] \div 2
    BY <2>2, OneHalf
  <2>4. d \in 0 .. k - l /\ h[j] = 0
    BY <1>3, <2>1
  <2>5. QED
    BY <2>2, <2>3, <2>4
<1> HIDE DEF U
<1>4. \A d \in 0 .. k - l : d \in U
  BY <1>1, <1>2, <1>3, UpFromZero
<1>5. k - l \in U
  BY <1>1, <1>4
<1>6. QED
  BY <1>1, <1>5 DEF U

\* Siblings are left to be joined iff the root is not reached.
LEMMA LeftToJoin ==
  ASSUME NEW T, NEW y, NEW N, NEW p, NEW x, NEW h, NEW at, NEW g, NEW bt, NEW L,
         On(T, y, N, p, x, h, at, g, bt, L), 2 * N + 1 <= L, NEW c, Counts(c, h, g, N), NEW l \in 0 .. N
  PROVE  c[l] \in Nat /\ c[N] \in Nat /\ (g[l] # 0 <=> c[l] < c[N])
<1>1. /\ N \in Nat /\ L \in Nat /\ l \in 0 .. L /\ N \in l .. L /\ N \in l .. N
      /\ Halves(h, x, L) /\ Halves(g, N - 1, L)
  <2>1. N \in Nat /\ L \in Nat
    BY DEF On
  <2>2. Halves(h, x, L) /\ Halves(g, N - 1, L)
    BY DEF On, Way
  <2>3. QED
    BY <2>1, <2>2
<1>2. c[l] \in Nat /\ c[N] \in Nat
  BY <1>1 DEF Counts
<1>3. ASSUME g[l] # 0 PROVE c[l] < c[N]
  <2>1. PICK k \in l .. N - 1 : JoinsAt(l, k, h, g, TRUE, 0, 0)
    BY <1>3, FoldLevel
  <2>2. HasSib(h, g, k) /\ NoSibs(h, g, l, k) /\ k \in l .. N
    BY <1>1, <2>1 DEF JoinsAt
  <2>3. c[k] = c[l]
    BY <1>1, <2>2, CountsAlong
  <2>4. c[k + 1] = c[k] + 1 /\ c[k + 1] <= c[N]
    BY <1>1, <2>2, CountStep
  <2>5. QED
    BY <1>2, <2>3, <2>4
<1>4. ASSUME g[l] = 0 PROVE c[l] = c[N]
  <2>1. h[l] = 0
    <3>1. h[l] \in Nat /\ h[l] <= g[l]
      BY <1>1, NotAfterLast
    <3>2. QED
      BY <1>4, <3>1
  <2>2. ASSUME NEW d \in l .. N - 1 PROVE ~ HasSib(h, g, d)
    <3>1. d \in l .. L
      BY <1>1
    <3>2. h[d] = 0 /\ g[d] = 0
      BY <1>1, <1>4, <2>1, <3>1, ZeroOn
    <3>3. QED
      BY <3>2 DEF HasSib
  <2>3. NoSibs(h, g, l, N)
    BY <2>2 DEF NoSibs
  <2>4. QED
    BY <1>1, <2>3, CountsAlong
<1>5. QED
  BY <1>2, <1>3, <1>4

\* What an honest path makes of the leaf.
Climbed(s, i, c, T, N, p, at, h, g) ==
  \E l \in 0 .. N : s = FoldAt(l, h, g, TRUE, Node(T, N, p[l], at[l])) /\ c[l] = i

\* All of it is joined, and the root is reached with the last element.
LEMMA FoldComplete ==
  ASSUME NEW T, NEW y, NEW N, NEW p, NEW x, NEW h, NEW at, NEW g, NEW bt, NEW L,
         On(T, y, N, p, x, h, at, g, bt, L), 2 * N + 1 <= L, NEW c, Counts(c, h, g, N),
         NEW path, Sibs(path, c, 0, N, T, N, p, at, h, g), NEW e, e = T[1][x], NEW s, s = fold(N, x, e, path)
  PROVE  s.ok /\ s.last = 0 /\ s.r = T[N][0]
<1>1. /\ N \in Nat /\ x \in 0 .. N - 1 /\ L \in Nat /\ Powers(p, L)
      /\ Way(h, at, p, x, L) /\ Way(g, bt, p, N - 1, L)
  BY DEF On
<1>2. p[0] = 1 /\ at[0] = x /\ h[0] = x /\ g[0] = N - 1
  BY <1>1 DEF Powers, Way, Halves
<1>3. PICK M : M = Len(path)
  OBVIOUS
<1>4. c \in [0 .. N -> Nat] /\ c[0] = 0
  BY DEF Counts
<1>5. M \in Nat /\ M = c[N]
  <2>1. c[N] \in Nat
    BY <1>1, <1>4
  <2>2. QED
    BY <1>3, <1>4, <2>1 DEF Sibs
<1>6. \A k \in 0 .. N - 1 : HasSib(h, g, k) => path[c[k] + 1] = Sib(T, N, p, at, h, k)
  <2>1. ASSUME NEW k \in 0 .. N - 1, HasSib(h, g, k) PROVE path[c[k] + 1] = Sib(T, N, p, at, h, k)
    <3>1. c[k] \in Nat
      BY <1>1, <1>4
    <3>2. c[k] - c[0] + 1 = c[k] + 1
      BY <1>4, <3>1
    <3>3. path[c[k] - c[0] + 1] = Sib(T, N, p, at, h, k)
      BY <2>1 DEF Sibs
    <3>4. QED
      BY <3>2, <3>3
  <2>2. QED
    BY <2>1
<1>7. PICK after : FoldRun(after, N, x, e, path)
  BY <1>3, <1>5, FoldTurns
<1>8. /\ after[0] = FoldStart(N, x, e) /\ s = after[M]
      /\ \A i \in 1 .. M : after[i] = folded(after[i - 1], path[i])
  BY <1>3, <1>7 DEF FoldRun
<1> DEFINE U == {i \in 0 .. M : Climbed(after[i], i, c, T, N, p, at, h, g)}
<1>9. 0 \in U
  <2>1. Node(T, N, p[0], at[0]) = e
    <3>1. 1 <= N - x
      BY <1>1
    <3>2. QED
      BY <1>2, <3>1 DEF Node
  <2>2. after[0] = FoldAt(0, h, g, TRUE, Node(T, N, p[0], at[0]))
    BY <1>2, <1>8, <2>1 DEF FoldStart, FoldAt
  <2>3. 0 \in 0 .. N /\ 0 \in 0 .. M
    BY <1>1, <1>5
  <2>4. QED
    BY <1>4, <2>2, <2>3 DEF Climbed
<1>10. ASSUME NEW i \in 1 .. M, i - 1 \in U PROVE i \in U
  <2>1. PICK l \in 0 .. N : /\ after[i - 1] = FoldAt(l, h, g, TRUE, Node(T, N, p[l], at[l]))
                            /\ c[l] = i - 1
    BY <1>10 DEF Climbed
  <2>2. PICK r, f : r = Node(T, N, p[l], at[l]) /\ f = path[i]
    OBVIOUS
  <2>3. g[l] # 0
    <3>1. c[l] < c[N]
      BY <1>5, <2>1
    <3>2. QED
      BY <3>1, LeftToJoin
  <2>4. PICK k \in l .. N - 1 : JoinsAt(l, k, h, g, TRUE, r, f)
    BY <2>3, FoldLevel
  <2>5. PICK rr : rr = IF (h[k] % 2) = 1 THEN over(f, r) ELSE over(r, f)
    OBVIOUS
  <2>6. HasSib(h, g, k) /\ NoSibs(h, g, l, k) /\ after[i] = FoldAt(k + 1, h, g, TRUE, rr)
    BY <1>8, <2>1, <2>2, <2>4, <2>5 DEF JoinsAt
  <2>7. l \in 0 .. L /\ k \in l .. L - 1 /\ k + 1 \in 0 .. N /\ k \in l .. N /\ k \in 0 .. N - 1
    BY <1>1
  <2>8. c[k] = c[l]
    BY <1>1, <2>6, <2>7, CountsAlong
  <2>9. c[k + 1] = c[k] + 1
    BY <2>6, <2>7 DEF Counts
  <2>10. c[k] + 1 = i /\ c[k + 1] = i
    BY <2>1, <2>8, <2>9
  <2>11. f = Sib(T, N, p, at, h, k)
    BY <1>6, <2>2, <2>6, <2>7, <2>10
  <2>12. rr = Node(T, N, p[k + 1], at[k + 1])
    BY <2>2, <2>5, <2>6, <2>7, <2>11, JoinsNode
  <2>13. i \in 0 .. M
    OBVIOUS
  <2>14. Climbed(after[i], i, c, T, N, p, at, h, g)
    BY <2>6, <2>7, <2>10, <2>12 DEF Climbed
  <2>15. QED
    BY <2>13, <2>14
<1>11. M \in U
  <2> HIDE DEF U
  <2>1. \A i \in 0 .. M : i \in U
    BY <1>5, <1>9, <1>10, UpFromZero
  <2>2. QED
    BY <1>5, <2>1
<1>12. PICK l \in 0 .. N : s = FoldAt(l, h, g, TRUE, Node(T, N, p[l], at[l])) /\ c[l] = M
  BY <1>8, <1>11 DEF Climbed
<1>13. g[l] = 0
  <2>1. ~ (c[l] < c[N])
    BY <1>5, <1>12
  <2>2. QED
    BY <2>1, LeftToJoin
<1>14. l \in 0 .. L
  BY <1>1
<1>15. at[l] = 0 /\ N <= p[l] /\ p[l] \in Nat
  <2>1. at[l] = 0 /\ N <= p[l]
    BY <1>13, <1>14, NotAfterLast
  <2>2. QED
    BY <1>1, <1>14, <2>1 DEF Powers
<1>16. Node(T, N, p[l], at[l]) = T[N][0]
  BY <1>1, <1>15, NodeOfAll
<1>17. QED
  BY <1>12, <1>13, <1>16 DEF FoldAt

-----------------------------------------------------------------------------
(* Inclusion.                                                              *)

\* Each leaf of a log is on its way up, in the tree of that log.
LEMMA LeafOn ==
  ASSUME NEW S, NEW w \in Seq(S), NEW x \in 0 .. Len(w) - 1
  PROVE  /\ \E p, h, at, g, bt, L : /\ On(trees(w), Leaves("plain", w), Len(w), p, x, h, at, g, bt, L)
                                    /\ L = 2 * Len(w) + 1
         /\ trees(w)[1][x] = Digest(w[x + 1]) /\ root(w) = trees(w)[Len(w)][0]
<1>1. PICK N, L, T, y : N = Len(w) /\ L = 2 * N + 1 /\ T = trees(w) /\ y = Leaves("plain", w)
  OBVIOUS
<1>2. Table(T, "plain", y) /\ Len(y) = N /\ N \in Nat
  BY <1>1, TreesOfLog
<1>3. L \in Nat /\ x \in Nat /\ x \in 0 .. N - 1 /\ N - 1 \in Nat /\ N >= 1
  BY <1>1, <1>2
<1>4. PICK p : Powers(p, L)
  BY <1>3, PowersExist
<1>5. PICK h, at : Way(h, at, p, x, L)
  BY <1>3, <1>4, WaysExist
<1>6. PICK g, bt : Way(g, bt, p, N - 1, L)
  BY <1>3, <1>4, WaysExist
<1>7. On(T, y, N, p, x, h, at, g, bt, L)
  BY <1>2, <1>3, <1>4, <1>5, <1>6 DEF On
<1>8. T[1][x] = Digest(w[x + 1])
  <2>1. T[1][x] = y[x + 1]
    BY <1>2, <1>3 DEF Table
  <2>2. x + 1 \in 1 .. Len(w)
    BY <1>1, <1>3
  <2>3. y[x + 1] = leaf("plain", w[x + 1])
    BY <1>1, <2>2, LeavesOfList
  <2>4. QED
    BY <2>1, <2>3 DEF Digest
<1>9. root(w) = T[N][0]
  <2>1. w # <<>>
    BY <1>1, <1>3
  <2>2. QED
    BY <1>1, <2>1, RootOfLog
<1>10. QED
  BY <1>1, <1>7, <1>8, <1>9

\* The path a log hands out for a leaf proves it.
LEMMA InclusionComplete ==
  ASSUME NEW S, NEW w \in Seq(S), NEW x \in 0 .. Len(w) - 1
  PROVE  /\ fold_inclusion(Len(w), x, Digest(w[x + 1]), audit_path(x, w), root(w))
         /\ audit_path(x, w) \in Seq(HeadsOf(trees(w), Len(w)))
<1>1. PICK N, T, y : N = Len(w) /\ T = trees(w) /\ y = Leaves("plain", w)
  OBVIOUS
<1>2. PICK p, h, at, g, bt, L : On(T, y, N, p, x, h, at, g, bt, L) /\ L = 2 * N + 1
  BY <1>1, LeafOn
<1>3. T[1][x] = Digest(w[x + 1]) /\ root(w) = T[N][0]
  BY <1>1, LeafOn
<1>4. N \in Nat /\ L \in Nat /\ x \in 0 .. N - 1 /\ Powers(p, L)
  BY <1>2 DEF On
<1>5. N \in 0 .. L /\ 2 * N + 1 <= L /\ x < N
  BY <1>2, <1>4
<1>6. PICK c : Counts(c, h, g, N)
  BY <1>4, CountsExist
<1>7. N <= p[N]
  <2>1. p[N] \in Nat /\ p[N] >= N + 1
    BY <1>4, <1>5, PowersGrow
  <2>2. QED
    BY <1>4, <2>1
<1>8. PICK path, s, e : path = audit_path(x, w) /\ e = Digest(w[x + 1]) /\ s = fold(N, x, e, path)
  OBVIOUS
<1>9. Sibs(path, c, 0, N, T, N, p, at, h, g)
  BY <1>1, <1>2, <1>5, <1>6, <1>7, <1>8, AuditPathIs
<1>10. s.ok /\ s.last = 0 /\ s.r = T[N][0]
  <2>1. e = T[1][x]
    BY <1>3, <1>8
  <2>2. QED
    BY <1>2, <1>5, <1>6, <1>8, <1>9, <2>1, FoldComplete
<1>11. fold_inclusion(N, x, e, path, root(w))
  BY <1>3, <1>5, <1>8, <1>10 DEF fold_inclusion
<1>12. path \in Seq(HeadsOf(T, N))
  BY <1>9 DEF Sibs
<1>13. QED
  BY <1>1, <1>8, <1>11, <1>12

\* What any path proves to be in a place is the leaf of that place.
LEMMA InclusionSound ==
  ASSUME NEW S, NEW w \in Seq(S), NEW x \in 0 .. Len(w) - 1, NEW e, NEW path, Len(path) \in Nat,
         fold_inclusion(Len(w), x, e, path, root(w))
  PROVE  e = Digest(w[x + 1])
<1>1. PICK N, T, y : N = Len(w) /\ T = trees(w) /\ y = Leaves("plain", w)
  OBVIOUS
<1>2. PICK p, h, at, g, bt, L : On(T, y, N, p, x, h, at, g, bt, L) /\ L = 2 * N + 1
  BY <1>1, LeafOn
<1>3. T[1][x] = Digest(w[x + 1]) /\ root(w) = T[N][0]
  BY <1>1, LeafOn
<1>4. fold(N, x, e, path).ok /\ fold(N, x, e, path).last = 0 /\ fold(N, x, e, path).r = T[N][0]
  BY <1>1, <1>3 DEF fold_inclusion
<1>5. 2 * N + 1 <= L
  <2>1. N \in Nat
    BY <1>2 DEF On
  <2>2. QED
    BY <1>2, <2>1
<1>6. e = T[1][x]
  BY <1>2, <1>4, <1>5, FoldSound
<1>7. QED
  BY <1>3, <1>6

\* A consistency proof from every earlier size on, none and the present too.
LEMMA ConsistencyProved ==
  ASSUME NEW S, NEW w \in Seq(S), w # <<>>, NEW m \in 0 .. Len(w)
  PROVE  verify_consistency(Head_(SubSeq(w, 1, m)), Head_(w), consistency_path(m, w))
<1>1. PICK v, n : v = SubSeq(w, 1, m) /\ n = Len(w)
  OBVIOUS
<1>2. n \in Nat /\ n > 0
  BY <1>1, EmptySeq
<1>3. PICK old, new : old = Head_(v) /\ new = Head_(w)
  OBVIOUS
<1>4. /\ old.tree_size = Len(v) /\ old.root_hash = root(v)
      /\ new.tree_size = n /\ new.root_hash = root(w)
  BY <1>1, <1>3 DEF Head_
<1>5. CASE m = 0
  <2>1. v = <<>>
    BY <1>1, <1>5, SubSeqEmpty
  <2>2. old.tree_size = 0 /\ new.tree_size > 0
    BY <1>2, <1>4, <2>1
  <2>3. consistency_path(m, w) = <<>>
    BY <1>5 DEF consistency_path
  <2>4. verify_consistency(old, new, consistency_path(m, w))
    BY <2>2, <2>3 DEF verify_consistency
  <2>5. QED
    BY <1>1, <1>3, <2>4
<1>6. CASE m = n
  <2>1. v = w
    BY <1>1, <1>6, SubSeqFull
  <2>2. consistency_path(m, w) = <<>>
    BY <1>1, <1>6 DEF consistency_path
  <2>3. verify_consistency(old, new, consistency_path(m, w))
    BY <1>1, <1>4, <2>1, <2>2 DEF verify_consistency
  <2>4. QED
    BY <1>1, <1>3, <2>3
<1>7. CASE m \notin {0, n}
  <2>1. m \in 1 .. Len(w) - 1
    BY <1>1, <1>2, <1>7
  <2>2. consistency_path(m, w) = subproof(m, w)
    BY <1>1, <1>7 DEF consistency_path
  <2>3. QED
    BY <2>1, <2>2, ConsistencyComplete
<1>8. QED
  BY <1>5, <1>6, <1>7

\* A damaged path is a path.
LEMMA ForgedLen ==
  ASSUME NEW R, NEW path \in Seq(R), NEW pool, NEW f \in Forged(path, pool)
  PROVE  Len(f) \in Nat
<1>1. PICK Q : Q = R \cup pool
  OBVIOUS
<1>2. R \subseteq Q /\ \A e \in pool : e \in Q
  BY <1>1
<1>3. path \in Seq(Q) /\ Len(path) \in Nat
  BY <1>2, SeqMonotonic
<1>4. CASE f = path
  BY <1>3, <1>4
<1>5. ASSUME NEW i \in DOMAIN path, f = SubSeq(path, 1, i - 1) \o SubSeq(path, i + 1, Len(path)) PROVE Len(f) \in Nat
  <2>1. i \in 1 .. Len(path)
    BY <1>3
  <2>2. \A j \in 1 .. Len(path) : path[j] \in Q
    BY <1>3, ElementOfSeq
  <2>3. SubSeq(path, 1, i - 1) \in Seq(Q) /\ SubSeq(path, i + 1, Len(path)) \in Seq(Q)
    BY <1>3, <2>1, <2>2
  <2>4. QED
    BY <1>5, <2>3
<1>6. ASSUME NEW e \in pool, f = path \o <<e>> PROVE Len(f) \in Nat
  <2>1. e \in Q
    BY <1>2
  <2>2. <<e>> \in Seq(Q)
    BY <2>1
  <2>3. QED
    BY <1>3, <1>6, <2>2
<1>7. ASSUME NEW i \in DOMAIN path, NEW e \in pool, f = [path EXCEPT ![i] = e] PROVE Len(f) \in Nat
  <2>1. e \in Q /\ i \in 1 .. Len(path)
    BY <1>2, <1>3
  <2>2. f \in Seq(Q)
    BY <1>3, <1>7, <2>1
  <2>3. QED
    BY <2>2
<1>8. QED
  BY <1>4, <1>5, <1>6, <1>7 DEF Forged

-----------------------------------------------------------------------------

\* No leaf is in a log twice: they grow.
Ordered ==
  /\ \A i \in 1 .. Len(log) : log[i] \in {i, i + 100}
  /\ \A i, j \in 1 .. Len(log) : i < j => log[i] < log[j]

\* Each action leaves them so.
LEMMA KtOrdered == ktInv /\ Ordered /\ [ktNext]_ktVars => Ordered'
<1> SUFFICES ASSUME ktInv, Ordered, [ktNext]_ktVars PROVE Ordered'
  OBVIOUS
<1>1. log \in Seq(Nat) /\ Len(log) \in Nat
  BY DEF ktInv
<1>2. PICK n : n = Len(log)
  OBVIOUS
<1>3. /\ n \in Nat /\ \A i \in 1 .. n : log[i] \in {i, i + 100} /\ log[i] \in Nat
      /\ \A i, j \in 1 .. n : i < j => log[i] < log[j]
  BY <1>1, <1>2 DEF Ordered
<1>4. ASSUME NEW k \in 0 .. n, NEW e \in {k + 1, k + 101}, k > 0 => log[k] < e,
             Len(log') = k + 1, \A i \in 1 .. k : log'[i] = log[i], log'[k + 1] = e
      PROVE  Ordered'
  <2>1. ASSUME NEW i \in 1 .. k + 1 PROVE log'[i] \in {i, i + 100}
    <3>1. CASE i = k + 1
      BY <1>3, <1>4, <3>1
    <3>2. CASE i \in 1 .. k
      BY <1>3, <1>4, <3>2
    <3>3. QED
      BY <1>3, <3>1, <3>2
  <2>2. ASSUME NEW i \in 1 .. k + 1, NEW j \in 1 .. k + 1, i < j PROVE log'[i] < log'[j]
    <3>1. i \in 1 .. k /\ i \in 1 .. n
      BY <1>3, <2>2
    <3>2. CASE j = k + 1
      <4>1. k > 0 /\ k \in 1 .. n /\ (i = k \/ i < k)
        BY <1>3, <3>1
      <4>2. log[k] < e /\ (i < k => log[i] < log[k])
        BY <1>3, <1>4, <3>1, <4>1
      <4>3. log[i] \in Nat /\ log[k] \in Nat /\ e \in Nat
        BY <1>3, <1>4, <3>1, <4>1
      <4>4. log[i] < e
        BY <4>1, <4>2, <4>3
      <4>5. QED
        BY <1>4, <3>1, <3>2, <4>4
    <3>3. CASE j \in 1 .. k
      BY <1>3, <1>4, <2>2, <3>1, <3>3
    <3>4. QED
      BY <1>3, <3>2, <3>3
  <2>3. QED
    BY <1>4, <2>1, <2>2 DEF Ordered
<1>5. CASE append
  <2>1. PICK e : e = n + 1 + IF Forked THEN 100 ELSE 0
    OBVIOUS
  <2>2. log' = Append(log, e)
    BY <1>2, <1>5, <2>1 DEF append
  <2>3. e \in {n + 1, n + 101} /\ e \in Nat
    BY <1>3, <2>1
  <2>4. Len(log') = n + 1 /\ (\A i \in 1 .. n : log'[i] = log[i]) /\ log'[n + 1] = e
    BY <1>1, <1>2, <2>2, <2>3
  <2>5. n > 0 => log[n] < e
    <3>1. ASSUME n > 0 PROVE log[n] < e
      <4>1. log[n] \in {n, n + 100} /\ log # <<>> /\ Last(log) = log[n]
        BY <1>2, <1>3, <3>1 DEF Last
      <4>2. CASE Forked
        BY <1>3, <2>1, <4>1, <4>2
      <4>3. CASE ~ Forked
        <5>1. ~ (log[n] > 100)
          BY <4>1, <4>3 DEF Forked
        <5>2. log[n] = n
          BY <1>3, <3>1, <4>1, <5>1
        <5>3. QED
          BY <1>3, <2>1, <4>3, <5>2
      <4>4. QED
        BY <4>2, <4>3
    <3>2. QED
      BY <3>1
  <2>6. n \in 0 .. n
    BY <1>3
  <2>7. QED
    BY <1>4, <2>3, <2>4, <2>5, <2>6
<1>6. ASSUME NEW k \in 0 .. MaxLeaves - 1, fork(k) PROVE Ordered'
  <2>1. k \in 0 .. n /\ k < n /\ log' = Append(SubSeq(log, 1, k), k + 101)
    BY <1>2, <1>3, <1>6 DEF fork
  <2>2. PICK v : v = SubSeq(log, 1, k)
    OBVIOUS
  <2>3. v \in Seq(Nat) /\ Len(v) = k /\ \A i \in 1 .. k : v[i] = log[i]
    BY <1>1, <1>2, <1>3, <2>1, <2>2
  <2>4. log' = Append(v, k + 101) /\ k + 101 \in Nat
    BY <2>1, <2>2
  <2>5. Len(log') = k + 1 /\ (\A i \in 1 .. k : log'[i] = log[i]) /\ log'[k + 1] = k + 101
    BY <2>3, <2>4
  <2>6. k > 0 => log[k] < k + 101
    BY <1>3, <2>1
  <2>7. QED
    BY <1>4, <2>1, <2>5, <2>6
<1>7. CASE rejoin
  <2>1. log' = [i \in 1 .. n |-> i]
    BY <1>2, <1>7 DEF rejoin
  <2>2. Len(log') = n /\ \A i \in 1 .. n : log'[i] = i
    BY <1>3, <2>1
  <2>3. QED
    BY <1>3, <2>2 DEF Ordered
<1>8. ASSUME NEW path, advance(path) PROVE Ordered'
  BY <1>8 DEF advance, Ordered
<1>9. CASE UNCHANGED ktVars
  BY <1>9 DEF ktVars, Ordered
<1>10. QED
  BY <1>5, <1>6, <1>7, <1>8, <1>9 DEF ktNext

\* The proofs of a log of any size: its own are accepted, audit paths by
\* InclusionProof::verify_against and consistency proofs by verify_consistency,
\* and no path, damaged or not, proves a leaf to be where another is.
THEOREM SoundProofs == ktSpec => []ProofsSound
<1>1. ktInit => Ordered
  <2> SUFFICES ASSUME ktInit PROVE Ordered
    OBVIOUS
  <2>1. Len(log) = 0
    BY DEF ktInit
  <2>2. QED
    BY <2>1 DEF Ordered
<1>2. ktInv /\ Ordered => ProofsSound
  <2> SUFFICES ASSUME ktInv, Ordered, log # <<>> PROVE ProofsSound
    BY DEF ProofsSound
  <2>1. log \in Seq(Nat) /\ Len(log) \in Nat
    BY DEF ktInv
  <2>2. PICK w, n : w = log /\ n = Len(log)
    OBVIOUS
  <2>3. w \in Seq(Nat) /\ w # <<>> /\ n = Len(w) /\ n \in Nat
    BY <2>1, <2>2
  <2>4. \A i \in 0 .. n - 1 : fold_inclusion(n, i, Digest(w[i + 1]), audit_path(i, w), root(w))
    BY <2>3, InclusionComplete
  <2>5. \A m \in 0 .. n : verify_consistency(Head_(SubSeq(w, 1, m)), Head_(w), consistency_path(m, w))
    BY <2>3, ConsistencyProved
  <2>6. ASSUME NEW i \in 0 .. n - 1, NEW j \in 0 .. n - 1, NEW path \in Forged(audit_path(j, w), Pool),
               fold_inclusion(n, i, Digest(w[j + 1]), path, root(w))
        PROVE  i = j
    <3>1. audit_path(j, w) \in Seq(HeadsOf(trees(w), n))
      BY <2>3, InclusionComplete
    <3>2. Len(path) \in Nat
      BY <3>1, ForgedLen
    <3>3. Digest(w[j + 1]) = Digest(w[i + 1])
      BY <2>3, <2>6, <3>2, InclusionSound
    <3>4. w[j + 1] = w[i + 1]
      BY <3>3, LeafInjective DEF Digest
    <3>5. i + 1 \in 1 .. n /\ j + 1 \in 1 .. n
      BY <2>3
    <3>6. \A a, b \in 1 .. n : a < b => w[a] < w[b]
      BY <2>2 DEF Ordered
    <3>7. w[j + 1] \in Nat
      BY <2>3, <3>5, ElementOfSeq
    <3>8. ~ (i + 1 < j + 1) /\ ~ (j + 1 < i + 1)
      BY <3>4, <3>5, <3>6, <3>7
    <3>9. QED
      BY <2>3, <3>8
  <2>7. QED
    BY <2>2, <2>4, <2>5, <2>6 DEF ProofsSound
<1>3. QED
  BY <1>1, <1>2, KtInit, KtNext, KtOrdered, PTL DEF ktSpec

=============================================================================
