------------------------------ MODULE ImapProofs ------------------------------
(***************************************************************************)
(* The theorems of ImapSession: the selected name means the mailbox that   *)
(* was selected, the numbers of the client are those of the server, also   *)
(* after a QRESYNC, and no message is lost.                                *)
(***************************************************************************)
EXTENDS ImapSession, MailboxProofs, NaturalLemmas, FiniteSetTheorems

-----------------------------------------------------------------------------
(* A mailbox and what becomes of it in the same life.                      *)

\* What a client that has seen old needs of new: UIDs that are new are above
\* all it can know, and what went after it looked is in the log.
Grows(old, new) ==
  /\ new.gen = old.gen
  /\ old.uid_next <= new.uid_next
  /\ old.highest_modseq <= new.highest_modseq
  /\ \A u \in Uids(new) : u \in Uids(old) \/ u >= old.uid_next
  /\ \A u \in Uids(old) : u \in Uids(new) \/ u \in vanished_since(new, old.highest_modseq)
  /\ \A m \in Nat : vanished_since(old, m) \subseteq vanished_since(new, m)

\* The messages of old are still in their places, later ones may follow.
KeepsPlaces(old, new) ==
  /\ DOMAIN old.messages \subseteq DOMAIN new.messages
  /\ \A i \in DOMAIN old.messages : new.messages[i].uid = old.messages[i].uid

Later(mb)   == {x \in Sound : Grows(mb, x)}
Longer(mb) == {x \in Sound : Grows(mb, x) /\ KeepsPlaces(mb, x)}

\* What is written plainly in the types, for mailboxes in order.
LEMMA SoundParts ==
  ASSUME NEW mb \in Sound
  PROVE  /\ mb \in MailboxType /\ WellFormed(mb)
         /\ mb.gen \in Nat /\ mb.uid_next \in Nat \ {0} /\ mb.highest_modseq \in Nat
         /\ Len(mb.messages) \in Nat
         /\ DOMAIN mb.messages = 1 .. Len(mb.messages)
         /\ \A i \in DOMAIN mb.messages : mb.messages[i].uid \in Nat
         /\ \A i \in DOMAIN mb.messages : mb.messages[i].uid \in Uids(mb)
         /\ \A u \in Uids(mb) : u \in Nat /\ u > 0 /\ u < mb.uid_next
<1>1. mb \in MailboxType /\ WellFormed(mb)
  BY DEF Sound
<1>2. \A i \in DOMAIN mb.messages : mb.messages[i].uid \in Uids(mb)
  BY DEF Uids
<1>3. mb.uid_next \in Nat \ {0}
  BY <1>1, MailboxParts
<1>4. Uids(mb) \subseteq 1 .. mb.uid_next - 1
  BY <1>1 DEF WellFormed, UidsAccountedFor
<1>5. \A u \in Uids(mb) : u \in Nat /\ u > 0 /\ u < mb.uid_next
  BY <1>3, <1>4
<1>6. QED
  BY <1>1, <1>2, <1>5, MailboxParts

\* The log answers less when it is asked about a later time.
LEMMA VanishedLater ==
  ASSUME NEW mb \in Sound, NEW a \in Nat, NEW b \in Nat, a <= b
  PROVE  vanished_since(mb, b) \subseteq vanished_since(mb, a)
<1>1. \A k \in DOMAIN mb.expunged : mb.expunged[k].modseq \in Nat
  BY MailboxParts DEF Sound
<1>2. QED
  BY <1>1 DEF vanished_since

\* Growing is reflexive and transitive.
LEMMA GrowsItself ==
  ASSUME NEW mb \in Sound
  PROVE  mb \in Longer(mb) /\ mb \in Later(mb)
BY SoundParts DEF Longer, Later, Grows, KeepsPlaces

\* Growing on from what has grown.
LEMMA GrowsOn ==
  ASSUME NEW a \in Sound, NEW b \in Sound, NEW c \in Sound, Grows(a, b), Grows(b, c)
  PROVE  Grows(a, c)
<1>1. /\ a.uid_next \in Nat /\ b.uid_next \in Nat /\ c.uid_next \in Nat
      /\ a.highest_modseq \in Nat /\ b.highest_modseq \in Nat /\ c.highest_modseq \in Nat
      /\ \A u \in Uids(c) : u \in Nat
  BY SoundParts
<1>2. /\ b.gen = a.gen /\ c.gen = b.gen
      /\ a.uid_next <= b.uid_next /\ b.uid_next <= c.uid_next
      /\ a.highest_modseq <= b.highest_modseq /\ b.highest_modseq <= c.highest_modseq
      /\ \A u \in Uids(b) : u \in Uids(a) \/ u >= a.uid_next
      /\ \A u \in Uids(c) : u \in Uids(b) \/ u >= b.uid_next
      /\ \A u \in Uids(a) : u \in Uids(b) \/ u \in vanished_since(b, a.highest_modseq)
      /\ \A u \in Uids(b) : u \in Uids(c) \/ u \in vanished_since(c, b.highest_modseq)
      /\ \A m \in Nat : vanished_since(a, m) \subseteq vanished_since(b, m)
      /\ \A m \in Nat : vanished_since(b, m) \subseteq vanished_since(c, m)
  BY DEF Grows
<1>3. vanished_since(c, b.highest_modseq) \subseteq vanished_since(c, a.highest_modseq)
  BY <1>1, <1>2, VanishedLater
<1>4. \A u \in Uids(c) : u \in Uids(a) \/ u >= a.uid_next
  BY <1>1, <1>2
<1>5. \A u \in Uids(a) : u \in Uids(c) \/ u \in vanished_since(c, a.highest_modseq)
  BY <1>1, <1>2, <1>3
<1>6. \A m \in Nat : vanished_since(a, m) \subseteq vanished_since(c, m)
  BY <1>2
<1>7. c.gen = a.gen /\ a.uid_next <= c.uid_next /\ a.highest_modseq <= c.highest_modseq
  BY <1>1, <1>2
<1>8. QED
  BY <1>4, <1>5, <1>6, <1>7 DEF Grows

\* append: the new message behind all others, under a UID nobody has seen.
LEMMA AppendGrows ==
  ASSUME NEW mb \in Sound, NEW raw \in Raws, NEW flags \in SUBSET Flags
  PROVE  append(mb, raw, flags) \in Longer(mb)
<1> DEFINE new == append(mb, raw, flags)
<1> HIDE DEF new
<1>1. /\ mb \in MailboxType /\ WellFormed(mb) /\ mb.uid_next \in Nat /\ mb.highest_modseq \in Nat
      /\ Len(mb.messages) \in Nat /\ DOMAIN mb.messages = 1 .. Len(mb.messages)
  BY SoundParts
<1>2. /\ new \in MailboxType
      /\ new.gen = mb.gen
      /\ new.uid_next = mb.uid_next + 1
      /\ new.highest_modseq = mb.highest_modseq + 1
      /\ new.expunged = mb.expunged
      /\ DOMAIN new.messages = 1 .. Len(mb.messages) + 1
      /\ \A i \in 1 .. Len(mb.messages) : new.messages[i] = mb.messages[i]
  BY <1>1, AppendFields DEF new
<1>3. WellFormed(new) /\ Uids(new) = Uids(mb) \cup {mb.uid_next}
  BY <1>1, AppendWellFormed DEF new
<1>4. \A m : vanished_since(new, m) = vanished_since(mb, m)
  BY <1>2 DEF vanished_since
<1>5. Grows(mb, new)
  BY <1>1, <1>2, <1>3, <1>4 DEF Grows
<1>6. KeepsPlaces(mb, new)
  BY <1>1, <1>2 DEF KeepsPlaces
<1>7. QED
  BY <1>2, <1>3, <1>5, <1>6 DEF Longer, Sound, new

\* write_flags: no message comes, goes or moves.
LEMMA WriteGrows ==
  ASSUME NEW mb \in Sound, NEW i \in DOMAIN mb.messages, NEW flags \in SUBSET Flags
  PROVE  write_flags(mb, i, flags) \in Longer(mb)
<1> DEFINE new == write_flags(mb, i, flags)
<1> HIDE DEF new
<1>1. /\ mb \in MailboxType /\ WellFormed(mb) /\ mb.uid_next \in Nat /\ mb.highest_modseq \in Nat
  BY SoundParts
<1>2. /\ new \in MailboxType
      /\ new.gen = mb.gen
      /\ new.uid_next = mb.uid_next
      /\ new.highest_modseq = mb.highest_modseq + 1
      /\ new.expunged = mb.expunged
      /\ DOMAIN new.messages = DOMAIN mb.messages
      /\ \A j \in DOMAIN mb.messages : new.messages[j].uid = mb.messages[j].uid
  BY <1>1, WriteFlagsFields DEF new
<1>3. WellFormed(new) /\ Uids(new) = Uids(mb)
  BY <1>1, WriteFlagsWellFormed DEF new
<1>4. \A m : vanished_since(new, m) = vanished_since(mb, m)
  BY <1>2 DEF vanished_since
<1>5. Grows(mb, new)
  BY <1>1, <1>2, <1>3, <1>4 DEF Grows
<1>6. KeepsPlaces(mb, new)
  BY <1>1, <1>2 DEF KeepsPlaces
<1>7. QED
  BY <1>2, <1>3, <1>5, <1>6 DEF Longer, Sound, new

\* remove_at: the message that goes is logged with a modseq nobody has seen.
LEMMA RemoveGrows ==
  ASSUME NEW mb \in Sound, NEW i
  PROVE  remove_at(mb, i) \in Later(mb)
<1>1. CASE i \notin DOMAIN mb.messages
  BY <1>1, GrowsItself DEF remove_at
<1>2. CASE i \in DOMAIN mb.messages
  <2> DEFINE new == remove_at(mb, i)
             e   == Len(mb.expunged)
             gone == mb.messages[i].uid
  <2> HIDE DEF new, e
  <2>1. /\ mb \in MailboxType /\ WellFormed(mb) /\ mb.uid_next \in Nat /\ mb.highest_modseq \in Nat
    BY SoundParts
  <2>2. /\ new \in MailboxType
        /\ new.gen = mb.gen
        /\ new.uid_next = mb.uid_next
        /\ new.highest_modseq = mb.highest_modseq + 1
        /\ DOMAIN new.expunged = 1 .. e + 1
        /\ \A k \in 1 .. e : new.expunged[k] = mb.expunged[k]
        /\ new.expunged[e + 1] = [uid |-> gone, modseq |-> mb.highest_modseq + 1]
    BY <1>2, <2>1, RemoveAtFields DEF new, e
  <2>3. WellFormed(new) /\ Uids(new) = Uids(mb) \ {gone}
    BY <1>2, <2>1, RemoveAtWellFormed DEF new
  <2>4. e \in Nat /\ DOMAIN mb.expunged = 1 .. e
    BY <2>1, MailboxParts DEF e
  <2>5. \A m \in Nat : vanished_since(mb, m) \subseteq vanished_since(new, m)
    <3>1. \A k \in DOMAIN mb.expunged : k \in DOMAIN new.expunged /\ new.expunged[k] = mb.expunged[k]
      BY <2>2, <2>4
    <3>2. QED
      BY <3>1 DEF vanished_since
  <2>6. gone \in vanished_since(new, mb.highest_modseq)
    <3>1. /\ e + 1 \in DOMAIN new.expunged
          /\ new.expunged[e + 1].modseq > mb.highest_modseq
          /\ new.expunged[e + 1].uid = gone
      BY <2>1, <2>2, <2>4
    <3>2. QED
      BY <3>1 DEF vanished_since
  <2>7. Grows(mb, new)
    BY <2>1, <2>2, <2>3, <2>5, <2>6 DEF Grows
  <2>8. QED
    BY <2>2, <2>3, <2>7 DEF Later, Sound, new
<1>3. QED
  BY <1>1, <1>2

-----------------------------------------------------------------------------
(* The loops of the commands, and of a client that applies their answers.  *)

IsRemoval(g, mb, S) ==
  g = [k \in 0 .. Len(mb.messages) |->
         IF k = 0 THEN mb
         ELSE IF Len(mb.messages) + 1 - k \in S THEN remove_at(g[k - 1], Len(mb.messages) + 1 - k)
         ELSE g[k - 1]]

\* RemoveAll, round after round.
Removes(g, mb, S, n) ==
  /\ g \in [0 .. n -> Later(mb)]
  /\ g[0] = mb
  /\ g[n] = RemoveAll(mb, S)
  /\ \A k \in 1 .. n :
       g[k] = IF n + 1 - k \in S THEN remove_at(g[k - 1], n + 1 - k) ELSE g[k - 1]

\* RemoveAll has such rounds.
LEMMA RemoveAllRounds ==
  ASSUME NEW mb \in Sound, NEW S
  PROVE  \E g : Removes(g, mb, S, Len(mb.messages))
<1> DEFINE n == Len(mb.messages)
           R == Later(mb)
           F == [p \in (1 .. n) \X R |-> IF n + 1 - p[1] \in S THEN remove_at(p[2], n + 1 - p[1]) ELSE p[2]]
           c == CHOOSE g : IsRemoval(g, mb, S)
<1>1. n \in Nat
  BY SoundParts
<1>2. \A v \in R, k \in 1 .. n : n + 1 - k \in S => remove_at(v, n + 1 - k) \in R
  <2>1. ASSUME NEW v \in R, NEW i PROVE remove_at(v, i) \in R
    <3>1. v \in Sound /\ Grows(mb, v)
      BY DEF Later
    <3>2. remove_at(v, i) \in Sound /\ Grows(v, remove_at(v, i))
      BY <3>1, RemoveGrows DEF Later
    <3>3. QED
      BY <3>1, <3>2, GrowsOn DEF Later
  <2>2. QED
    BY <2>1
<1>3. mb \in R
  BY GrowsItself
<1> HIDE DEF R
<1>4. F \in Rounds(n, R)
  <2> HIDE DEF n
  <2>1. QED
    BY <1>2 DEF Rounds
<1>5. \A k \in 1 .. n, v \in R : F[<<k, v>>] = IF n + 1 - k \in S THEN remove_at(v, n + 1 - k) ELSE v
  OBVIOUS
<1> HIDE DEF F
<1>6. \E g : IsRemoval(g, mb, S)
  <2> HIDE DEF n
  <2>1. PICK h : IsHistory(h, n, R, mb, F)
    BY <1>1, <1>3, <1>4, LoopHistory
  <2>2. h \in [0 .. n -> R] /\ h[0] = mb /\ \A k \in 1 .. n : h[k] = F[<<k, h[k - 1]>>]
    BY <2>1 DEF IsHistory
  <2>3. ASSUME NEW k \in 0 .. n
        PROVE  h[k] = IF k = 0 THEN mb
                      ELSE IF n + 1 - k \in S THEN remove_at(h[k - 1], n + 1 - k)
                      ELSE h[k - 1]
    <3>1. CASE k = 0
      BY <2>2, <3>1
    <3>2. CASE k # 0
      <4>1. k \in 1 .. n /\ k - 1 \in 0 .. n
        BY <1>1, <3>2
      <4>2. h[k - 1] \in R
        BY <2>2, <4>1
      <4>3. QED
        BY <1>5, <2>2, <3>2, <4>1, <4>2
    <3>3. QED
      BY <3>1, <3>2
  <2>4. IsRemoval(h, mb, S)
    BY <2>2, <2>3 DEF IsRemoval, n
  <2>5. QED
    BY <2>4
<1>7. RemoveAll(mb, S) = c[n]
  BY Zenon DEF RemoveAll, IsRemoval
<1>8. IsRemoval(c, mb, S)
  BY <1>6
<1> HIDE DEF c
<1>9. /\ DOMAIN c = 0 .. n
      /\ c = [k \in 0 .. n |-> c[k]]
      /\ \A k \in 0 .. n : c[k] = IF k = 0 THEN mb
                                  ELSE IF n + 1 - k \in S THEN remove_at(c[k - 1], n + 1 - k)
                                  ELSE c[k - 1]
  BY <1>8 DEF IsRemoval
<1> HIDE DEF n
<1>10. c[0] = mb
  <2>1. 0 \in 0 .. n
    BY <1>1
  <2>2. QED
    BY <1>9, <2>1, Zenon
<1>11. \A k \in 1 .. n : c[k] = IF n + 1 - k \in S THEN remove_at(c[k - 1], n + 1 - k) ELSE c[k - 1]
  <2>1. \A k \in 1 .. n : k \in 0 .. n /\ k # 0
    BY <1>1
  <2>2. QED
    BY <1>9, <2>1
<1>12. \A k \in 1 .. n : c[k - 1] \in R => c[k] = F[<<k, c[k - 1]>>]
  BY <1>5, <1>11
<1>13. \A k \in 0 .. n : c[k] \in R
  BY <1>1, <1>3, <1>4, <1>10, <1>12, LoopStays
<1>14. c \in [0 .. n -> R]
  BY <1>9, <1>13
<1>15. Removes(c, mb, S, n)
  BY <1>7, <1>10, <1>11, <1>14 DEF Removes, R
<1>16. QED
  BY <1>15 DEF n

IsWriting(g, mb, S, flags) ==
  g = [k \in 0 .. Len(mb.messages) |->
         IF k = 0 THEN mb
         ELSE IF k \in S THEN write_flags(g[k - 1], k, flags[k])
         ELSE g[k - 1]]

\* WriteAll, round after round.
LEMMA WriteAllRounds ==
  ASSUME NEW mb \in Sound, NEW S, NEW flags \in [DOMAIN mb.messages -> SUBSET Flags]
  PROVE  LET n == Len(mb.messages)
         IN  \E g : /\ g \in [0 .. n -> Longer(mb)]
                    /\ g[0] = mb
                    /\ g[n] = WriteAll(mb, S, flags)
                    /\ \A k \in 1 .. n :
                         g[k] = IF k \in S THEN write_flags(g[k - 1], k, flags[k]) ELSE g[k - 1]
<1> DEFINE n == Len(mb.messages)
           R == Longer(mb)
           F == [p \in (1 .. n) \X R |-> IF p[1] \in S THEN write_flags(p[2], p[1], flags[p[1]]) ELSE p[2]]
           c == CHOOSE g : IsWriting(g, mb, S, flags)
<1>1. n \in Nat /\ DOMAIN mb.messages = 1 .. n
  BY SoundParts
<1>2. \A v \in R, k \in 1 .. n : k \in S => write_flags(v, k, flags[k]) \in R
  <2>1. ASSUME NEW v \in R, NEW k \in 1 .. n PROVE write_flags(v, k, flags[k]) \in R
    <3>1. v \in Sound /\ Grows(mb, v) /\ KeepsPlaces(mb, v)
      BY DEF Longer
    <3>2. k \in DOMAIN v.messages /\ flags[k] \in SUBSET Flags
      BY <1>1, <3>1 DEF KeepsPlaces
    <3> DEFINE w == write_flags(v, k, flags[k])
    <3> HIDE DEF w, n
    <3>3. w \in Sound /\ Grows(v, w) /\ KeepsPlaces(v, w)
      BY <3>1, <3>2, WriteGrows DEF Longer, w
    <3>4. Grows(mb, w)
      BY <3>1, <3>3, GrowsOn
    <3>5. KeepsPlaces(mb, w)
      BY <3>1, <3>3 DEF KeepsPlaces
    <3>6. QED
      BY <3>3, <3>4, <3>5 DEF Longer, w
  <2>2. QED
    BY <2>1
<1>3. mb \in R
  BY GrowsItself
<1> HIDE DEF R
<1>4. F \in Rounds(n, R)
  <2> HIDE DEF n
  <2>1. QED
    BY <1>2 DEF Rounds
<1>5. \A k \in 1 .. n, v \in R : F[<<k, v>>] = IF k \in S THEN write_flags(v, k, flags[k]) ELSE v
  OBVIOUS
<1> HIDE DEF F
<1>6. \E g : IsWriting(g, mb, S, flags)
  <2> HIDE DEF n
  <2>1. PICK h : IsHistory(h, n, R, mb, F)
    BY <1>1, <1>3, <1>4, LoopHistory
  <2>2. h \in [0 .. n -> R] /\ h[0] = mb /\ \A k \in 1 .. n : h[k] = F[<<k, h[k - 1]>>]
    BY <2>1 DEF IsHistory
  <2>3. ASSUME NEW k \in 0 .. n
        PROVE  h[k] = IF k = 0 THEN mb
                      ELSE IF k \in S THEN write_flags(h[k - 1], k, flags[k])
                      ELSE h[k - 1]
    <3>1. CASE k = 0
      BY <2>2, <3>1
    <3>2. CASE k # 0
      <4>1. k \in 1 .. n /\ k - 1 \in 0 .. n
        BY <1>1, <3>2
      <4>2. h[k - 1] \in R
        BY <2>2, <4>1
      <4>3. QED
        BY <1>5, <2>2, <3>2, <4>1, <4>2
    <3>3. QED
      BY <3>1, <3>2
  <2>4. IsWriting(h, mb, S, flags)
    BY <2>2, <2>3 DEF IsWriting, n
  <2>5. QED
    BY <2>4
<1>7. WriteAll(mb, S, flags) = c[n]
  BY Zenon DEF WriteAll, IsWriting
<1>8. IsWriting(c, mb, S, flags)
  BY <1>6
<1> HIDE DEF c
<1>9. /\ DOMAIN c = 0 .. n
      /\ c = [k \in 0 .. n |-> c[k]]
      /\ \A k \in 0 .. n : c[k] = IF k = 0 THEN mb
                                  ELSE IF k \in S THEN write_flags(c[k - 1], k, flags[k])
                                  ELSE c[k - 1]
  BY <1>8 DEF IsWriting
<1> HIDE DEF n
<1>10. c[0] = mb
  <2>1. 0 \in 0 .. n
    BY <1>1
  <2>2. QED
    BY <1>9, <2>1, Zenon
<1>11. \A k \in 1 .. n : c[k] = IF k \in S THEN write_flags(c[k - 1], k, flags[k]) ELSE c[k - 1]
  <2>1. \A k \in 1 .. n : k \in 0 .. n /\ k # 0
    BY <1>1
  <2>2. QED
    BY <1>9, <2>1
<1>12. \A k \in 1 .. n : c[k - 1] \in R => c[k] = F[<<k, c[k - 1]>>]
  BY <1>5, <1>11
<1>13. \A k \in 0 .. n : c[k] \in R
  BY <1>1, <1>3, <1>4, <1>10, <1>12, LoopStays
<1>14. c \in [0 .. n -> R]
  BY <1>9, <1>13
<1>15. QED
  BY <1>7, <1>10, <1>11, <1>14 DEF n, R

\* The messages of mb are such that a mailbox can take them.
Copyable(mb) ==
  /\ Len(mb.messages) \in Nat
  /\ \A k \in 1 .. Len(mb.messages) :
       mb.messages[k].raw \in Raws /\ mb.messages[k].flags \in SUBSET Flags

IsAppending(g, dest, mb, S) ==
  g = [k \in 0 .. Len(mb.messages) |->
         IF k = 0 THEN dest
         ELSE IF k \in S THEN append(g[k - 1], mb.messages[k].raw, mb.messages[k].flags)
         ELSE g[k - 1]]

\* AppendAll, round after round.
Appends(g, dest, mb, S, n) ==
  /\ g \in [0 .. n -> Longer(dest)]
  /\ g[0] = dest
  /\ g[n] = AppendAll(dest, mb, S)
  /\ \A k \in 1 .. n :
       g[k] = IF k \in S THEN append(g[k - 1], mb.messages[k].raw, mb.messages[k].flags) ELSE g[k - 1]

\* AppendAll has such rounds.
LEMMA AppendAllRounds ==
  ASSUME NEW dest \in Sound, NEW mb, NEW S, Copyable(mb)
  PROVE  \E g : Appends(g, dest, mb, S, Len(mb.messages))
<1> DEFINE n == Len(mb.messages)
           R == Longer(dest)
           F == [p \in (1 .. n) \X R |-> IF p[1] \in S THEN append(p[2], mb.messages[p[1]].raw, mb.messages[p[1]].flags) ELSE p[2]]
           c == CHOOSE g : IsAppending(g, dest, mb, S)
<1>1. n \in Nat
  BY DEF Copyable
<1>2. \A v \in R, k \in 1 .. n : k \in S => append(v, mb.messages[k].raw, mb.messages[k].flags) \in R
  <2>1. ASSUME NEW v \in R, NEW k \in 1 .. n
        PROVE  append(v, mb.messages[k].raw, mb.messages[k].flags) \in R
    <3>1. v \in Sound /\ Grows(dest, v) /\ KeepsPlaces(dest, v)
      BY DEF Longer
    <3> DEFINE w == append(v, mb.messages[k].raw, mb.messages[k].flags)
    <3>2. mb.messages[k].raw \in Raws /\ mb.messages[k].flags \in SUBSET Flags
      BY DEF Copyable
    <3> HIDE DEF w, n
    <3>3. w \in Sound /\ Grows(v, w) /\ KeepsPlaces(v, w)
      BY <3>1, <3>2, AppendGrows DEF Longer, w
    <3>4. Grows(dest, w)
      BY <3>1, <3>3, GrowsOn
    <3>5. KeepsPlaces(dest, w)
      BY <3>1, <3>3 DEF KeepsPlaces
    <3>6. QED
      BY <3>3, <3>4, <3>5 DEF Longer, w
  <2>2. QED
    BY <2>1
<1>3. dest \in R
  BY GrowsItself
<1> HIDE DEF R
<1>4. F \in Rounds(n, R)
  <2> HIDE DEF n
  <2>1. QED
    BY <1>2 DEF Rounds
<1>5. \A k \in 1 .. n, v \in R : F[<<k, v>>] = IF k \in S THEN append(v, mb.messages[k].raw, mb.messages[k].flags) ELSE v
  OBVIOUS
<1> HIDE DEF F
<1>6. \E g : IsAppending(g, dest, mb, S)
  <2> HIDE DEF n
  <2>1. PICK h : IsHistory(h, n, R, dest, F)
    BY <1>1, <1>3, <1>4, LoopHistory
  <2>2. h \in [0 .. n -> R] /\ h[0] = dest /\ \A k \in 1 .. n : h[k] = F[<<k, h[k - 1]>>]
    BY <2>1 DEF IsHistory
  <2>3. ASSUME NEW k \in 0 .. n
        PROVE  h[k] = IF k = 0 THEN dest
                      ELSE IF k \in S THEN append(h[k - 1], mb.messages[k].raw, mb.messages[k].flags)
                      ELSE h[k - 1]
    <3>1. CASE k = 0
      BY <2>2, <3>1
    <3>2. CASE k # 0
      <4>1. k \in 1 .. n /\ k - 1 \in 0 .. n
        BY <1>1, <3>2
      <4>2. h[k - 1] \in R
        BY <2>2, <4>1
      <4>3. QED
        BY <1>5, <2>2, <3>2, <4>1, <4>2
    <3>3. QED
      BY <3>1, <3>2
  <2>4. IsAppending(h, dest, mb, S)
    BY <2>2, <2>3 DEF IsAppending, n
  <2>5. QED
    BY <2>4
<1>7. AppendAll(dest, mb, S) = c[n]
  BY Zenon DEF AppendAll, IsAppending
<1>8. IsAppending(c, dest, mb, S)
  BY <1>6
<1> HIDE DEF c
<1>9. /\ DOMAIN c = 0 .. n
      /\ c = [k \in 0 .. n |-> c[k]]
      /\ \A k \in 0 .. n : c[k] = IF k = 0 THEN dest
                                  ELSE IF k \in S THEN append(c[k - 1], mb.messages[k].raw, mb.messages[k].flags)
                                  ELSE c[k - 1]
  BY <1>8 DEF IsAppending
<1> HIDE DEF n
<1>10. c[0] = dest
  <2>1. 0 \in 0 .. n
    BY <1>1
  <2>2. QED
    BY <1>9, <2>1, Zenon
<1>11. \A k \in 1 .. n : c[k] = IF k \in S THEN append(c[k - 1], mb.messages[k].raw, mb.messages[k].flags) ELSE c[k - 1]
  <2>1. \A k \in 1 .. n : k \in 0 .. n /\ k # 0
    BY <1>1
  <2>2. QED
    BY <1>9, <2>1
<1>12. \A k \in 1 .. n : c[k - 1] \in R => c[k] = F[<<k, c[k - 1]>>]
  BY <1>5, <1>11
<1>13. \A k \in 0 .. n : c[k] \in R
  BY <1>1, <1>3, <1>4, <1>10, <1>12, LoopStays
<1>14. c \in [0 .. n -> R]
  BY <1>9, <1>13
<1>15. Appends(c, dest, mb, S, n)
  BY <1>7, <1>10, <1>11, <1>14 DEF Appends, R
<1>16. QED
  BY <1>15 DEF n

\* A list of numbers less one place is a list of numbers.
LEMMA WithoutList ==
  ASSUME NEW s \in Seq(Nat), NEW i \in Nat
  PROVE  /\ Without(s, i) \in Seq(Nat)
         /\ Len(s) > 0 => Len(Without(s, i)) = Len(s) - 1
         /\ \A j \in 1 .. Len(s) - 1 : Without(s, i)[j] = IF j < i THEN s[j] ELSE s[j + 1]
<1> DEFINE n == Len(s)
           w == Without(s, i)
<1>1. n \in Nat /\ \A j \in 1 .. n : s[j] \in Nat
  BY LenProperties, ElementOfSeq
<1>2. w = [j \in 1 .. n - 1 |-> IF j < i THEN s[j] ELSE s[j + 1]]
  BY DEF Without
<1> HIDE DEF n, w
<1>3. w \in [1 .. n - 1 -> Nat]
  <2>1. \A j \in 1 .. n - 1 : j \in 1 .. n /\ j + 1 \in 1 .. n
    BY <1>1
  <2>2. QED
    BY <1>1, <1>2, <2>1
<1>4. CASE n = 0
  <2>1. 1 .. n - 1 = 1 .. 0 /\ 0 \in Nat
    BY <1>4
  <2>2. w \in Seq(Nat)
    BY <1>3, <2>1, SeqDef
  <2>3. QED
    BY <1>2, <1>4, <2>2 DEF n, w
<1>5. CASE n # 0
  <2>1. n - 1 \in Nat
    BY <1>1, <1>5
  <2>2. w \in Seq(Nat)
    BY <1>3, <2>1, SeqDef
  <2>3. Len(w) = n - 1
    BY <1>3, <2>1, <2>2, LenProperties
  <2>4. QED
    BY <1>2, <2>2, <2>3 DEF n, w
<1>6. QED
  BY <1>4, <1>5

IsDropping(g, s, P) ==
  g = [k \in 0 .. Len(s) |->
         IF k = 0 THEN s
         ELSE IF Len(s) + 1 - k \in P THEN Without(g[k - 1], Len(s) + 1 - k)
         ELSE g[k - 1]]

\* Dropped, round after round.
LEMMA DroppedRounds ==
  ASSUME NEW s \in Seq(Nat), NEW P
  PROVE  LET n == Len(s)
         IN  \E g : /\ g \in [0 .. n -> Seq(Nat)]
                    /\ g[0] = s
                    /\ g[n] = Dropped(s, P)
                    /\ \A k \in 1 .. n :
                         g[k] = IF n + 1 - k \in P THEN Without(g[k - 1], n + 1 - k) ELSE g[k - 1]
<1> DEFINE n == Len(s)
           R == Seq(Nat)
           F == [p \in (1 .. n) \X R |-> IF n + 1 - p[1] \in P THEN Without(p[2], n + 1 - p[1]) ELSE p[2]]
           c == CHOOSE g : IsDropping(g, s, P)
<1>1. n \in Nat
  BY LenProperties
<1>2. \A v \in R, k \in 1 .. n : n + 1 - k \in P => Without(v, n + 1 - k) \in R
  <2>1. \A v \in R, k \in 1 .. n : n + 1 - k \in Nat
    BY <1>1
  <2>2. QED
    BY <2>1, WithoutList
<1>3. s \in R
  BY DEF R
<1> HIDE DEF R
<1>4. F \in Rounds(n, R)
  <2> HIDE DEF n
  <2>1. QED
    BY <1>2 DEF Rounds
<1>5. \A k \in 1 .. n, v \in R : F[<<k, v>>] = IF n + 1 - k \in P THEN Without(v, n + 1 - k) ELSE v
  OBVIOUS
<1> HIDE DEF F
<1>6. \E g : IsDropping(g, s, P)
  <2> HIDE DEF n
  <2>1. PICK h : IsHistory(h, n, R, s, F)
    BY <1>1, <1>3, <1>4, LoopHistory
  <2>2. h \in [0 .. n -> R] /\ h[0] = s /\ \A k \in 1 .. n : h[k] = F[<<k, h[k - 1]>>]
    BY <2>1 DEF IsHistory
  <2>3. ASSUME NEW k \in 0 .. n
        PROVE  h[k] = IF k = 0 THEN s
                      ELSE IF n + 1 - k \in P THEN Without(h[k - 1], n + 1 - k)
                      ELSE h[k - 1]
    <3>1. CASE k = 0
      BY <2>2, <3>1
    <3>2. CASE k # 0
      <4>1. k \in 1 .. n /\ k - 1 \in 0 .. n
        BY <1>1, <3>2
      <4>2. h[k - 1] \in R
        BY <2>2, <4>1
      <4>3. QED
        BY <1>5, <2>2, <3>2, <4>1, <4>2
    <3>3. QED
      BY <3>1, <3>2
  <2>4. IsDropping(h, s, P)
    BY <2>2, <2>3 DEF IsDropping, n
  <2>5. QED
    BY <2>4
<1>7. Dropped(s, P) = c[n]
  BY Zenon DEF Dropped, IsDropping
<1>8. IsDropping(c, s, P)
  BY <1>6
<1> HIDE DEF c
<1>9. /\ DOMAIN c = 0 .. n
      /\ c = [k \in 0 .. n |-> c[k]]
      /\ \A k \in 0 .. n : c[k] = IF k = 0 THEN s
                                  ELSE IF n + 1 - k \in P THEN Without(c[k - 1], n + 1 - k)
                                  ELSE c[k - 1]
  BY <1>8 DEF IsDropping
<1> HIDE DEF n
<1>10. c[0] = s
  <2>1. 0 \in 0 .. n
    BY <1>1
  <2>2. QED
    BY <1>9, <2>1, Zenon
<1>11. \A k \in 1 .. n : c[k] = IF n + 1 - k \in P THEN Without(c[k - 1], n + 1 - k) ELSE c[k - 1]
  <2>1. \A k \in 1 .. n : k \in 0 .. n /\ k # 0
    BY <1>1
  <2>2. QED
    BY <1>9, <2>1
<1>12. \A k \in 1 .. n : c[k - 1] \in R => c[k] = F[<<k, c[k - 1]>>]
  BY <1>5, <1>11
<1>13. \A k \in 0 .. n : c[k] \in R
  BY <1>1, <1>3, <1>4, <1>10, <1>12, LoopStays
<1>14. c \in [0 .. n -> R]
  BY <1>9, <1>13
<1>15. QED
  BY <1>7, <1>10, <1>11, <1>14 DEF n, R

-----------------------------------------------------------------------------
(* The client's list and the server's.                                     *)

\* The list s of a client is the beginning of the mailbox, place for place.
Aligned(s, mb) ==
  /\ s \in Seq(Nat)
  /\ Len(s) <= Len(mb.messages)
  /\ \A j \in 1 .. Len(s) : s[j] = mb.messages[j].uid

\* A list that is aligned is a prefix.
LEMMA AlignedPrefix ==
  ASSUME NEW mb \in Sound, NEW s, Aligned(s, mb)
  PROVE  IsPrefix(s, UidList(mb))
<1> DEFINE t == UidList(mb)
           m == Len(s)
           n == Len(mb.messages)
<1>1. m \in Nat /\ n \in Nat /\ m <= n /\ DOMAIN mb.messages = 1 .. n /\ s \in Seq(Nat)
  BY SoundParts, LenProperties DEF Aligned
<1>2. t = [i \in 1 .. n |-> mb.messages[i].uid]
  BY <1>1 DEF UidList
<1> HIDE DEF t, m, n
<1>3. t \in Seq(Nat)
  <2>1. \A i \in 1 .. n : mb.messages[i].uid \in Nat
    BY <1>1, SoundParts
  <2>2. t \in [1 .. n -> Nat]
    BY <1>2, <2>1
  <2>3. QED
    BY <1>1, <2>2, SeqDef
<1>4. Len(t) = n
  BY <1>1, <1>2, <1>3, LenProperties
<1>5. SubSeq(s, 1, m) = SubSeq(t, 1, m)
  <2>1. /\ SubSeq(s, 1, m) = [i \in 1 .. m |-> s[i]]
        /\ SubSeq(t, 1, m) = [i \in 1 .. m |-> t[i]]
    BY <1>1, <1>3
  <2>2. \A i \in 1 .. m : i \in 1 .. n /\ s[i] = t[i]
    BY <1>1, <1>2 DEF Aligned, m
  <2>3. QED
    BY <2>1, <2>2
<1>6. QED
  BY <1>1, <1>4, <1>5 DEF IsPrefix, m, t

\* The whole list of a mailbox is aligned.
LEMMA ListAligned ==
  ASSUME NEW mb \in Sound
  PROVE  Aligned(UidList(mb), mb)
<1> DEFINE t == UidList(mb)
           n == Len(mb.messages)
<1>1. n \in Nat /\ DOMAIN mb.messages = 1 .. n /\ \A i \in 1 .. n : mb.messages[i].uid \in Nat
  BY SoundParts
<1>2. t = [i \in 1 .. n |-> mb.messages[i].uid]
  BY <1>1 DEF UidList
<1> HIDE DEF t, n
<1>3. t \in [1 .. n -> Nat]
  BY <1>1, <1>2
<1>4. t \in Seq(Nat)
  BY <1>1, <1>3, SeqDef
<1>5. Len(t) = n
  BY <1>1, <1>3, <1>4, LenProperties
<1>6. QED
  BY <1>1, <1>2, <1>4, <1>5 DEF Aligned, t, n

\* It stays aligned when the messages keep their places.
LEMMA AlignedLonger ==
  ASSUME NEW mb \in Sound, NEW x \in Longer(mb), NEW s, Aligned(s, mb)
  PROVE  Aligned(s, x)
<1> DEFINE m == Len(s)
           n == Len(mb.messages)
           l == Len(x.messages)
<1>1. /\ n \in Nat /\ l \in Nat /\ DOMAIN mb.messages = 1 .. n /\ DOMAIN x.messages = 1 .. l
      /\ KeepsPlaces(mb, x)
  BY SoundParts DEF Longer
<1>2. m \in Nat /\ m <= n
  BY LenProperties DEF Aligned
<1> HIDE DEF n, m, l
<1>3. n <= l
  <2>1. 1 .. n \subseteq 1 .. l
    BY <1>1 DEF KeepsPlaces
  <2>2. n = 0 \/ n \in 1 .. n
    BY <1>1
  <2>3. QED
    BY <1>1, <2>1, <2>2
<1>4. \A j \in 1 .. m : j \in 1 .. n
  BY <1>1, <1>2
<1>5. \A j \in 1 .. m : s[j] = x.messages[j].uid
  BY <1>1, <1>4 DEF Aligned, KeepsPlaces, m
<1>6. QED
  BY <1>1, <1>2, <1>3, <1>5 DEF Aligned, m, l

\* One EXPUNGE on both sides, or on the server beyond what the client knows.
LEMMA AlignedRemove ==
  ASSUME NEW x \in Sound, NEW s, Aligned(s, x), NEW i \in 1 .. Len(x.messages)
  PROVE  LET y == remove_at(x, i)
         IN  /\ Len(y.messages) = Len(x.messages) - 1
             /\ i > Len(s) => Aligned(s, y)
             /\ i <= Len(s) => Aligned(Without(s, i), y) /\ Len(Without(s, i)) = Len(s) - 1
<1> DEFINE y == remove_at(x, i)
           m == Len(s)
           n == Len(x.messages)
           w == Without(s, i)
<1>1. x \in MailboxType /\ n \in Nat /\ DOMAIN x.messages = 1 .. n
  BY SoundParts
<1>2. m \in Nat /\ m <= n /\ s \in Seq(Nat) /\ i \in Nat /\ i > 0 /\ i <= n
  BY <1>1, LenProperties DEF Aligned
<1>3. /\ y \in MailboxType /\ DOMAIN y.messages = 1 .. n - 1
      /\ \A j \in 1 .. n - 1 : y.messages[j] = IF j < i THEN x.messages[j] ELSE x.messages[j + 1]
  BY <1>1, RemoveAtFields
<1>4. \A j \in 1 .. m : s[j] = x.messages[j].uid
  BY DEF Aligned
<1>5. /\ w \in Seq(Nat)
      /\ m > 0 => Len(w) = m - 1
      /\ \A j \in 1 .. m - 1 : w[j] = IF j < i THEN s[j] ELSE s[j + 1]
  BY <1>2, WithoutList
<1> HIDE DEF y, m, n, w
<1>6. Len(y.messages) = n - 1
  <2>1. Len(y.messages) \in Nat /\ DOMAIN y.messages = 1 .. Len(y.messages)
    BY <1>3, MailboxParts
  <2> DEFINE k == Len(y.messages)
  <2> HIDE DEF k
  <2>2. k \in Nat /\ 1 .. k = 1 .. n - 1 /\ n - 1 \in Nat
    BY <1>2, <1>1, <1>3, <2>1 DEF k
  <2>3. k = n - 1
    BY <2>2
  <2>4. QED
    BY <2>3 DEF k
<1>7. ASSUME i > m PROVE Aligned(s, y)
  <2>1. m <= n - 1
    BY <1>1, <1>2, <1>7
  <2>2. \A j \in 1 .. m : j \in 1 .. n - 1 /\ j < i
    BY <1>1, <1>2, <1>7
  <2>3. \A j \in 1 .. m : s[j] = y.messages[j].uid
    BY <1>3, <1>4, <2>2
  <2>4. QED
    BY <1>2, <1>6, <2>1, <2>3 DEF Aligned, m
<1>8. ASSUME i <= m PROVE Aligned(w, y) /\ Len(w) = m - 1
  <2>1. Len(w) = m - 1 /\ m - 1 <= n - 1
    BY <1>1, <1>2, <1>5, <1>8
  <2>2. ASSUME NEW j \in 1 .. m - 1 PROVE w[j] = y.messages[j].uid
    <3>1. j \in 1 .. n - 1 /\ j \in 1 .. m /\ j + 1 \in 1 .. m
      BY <1>1, <1>2
    <3>2. CASE j < i
      BY <1>3, <1>4, <1>5, <3>1, <3>2
    <3>3. CASE ~ (j < i)
      BY <1>3, <1>4, <1>5, <3>1, <3>3
    <3>4. QED
      BY <3>2, <3>3
  <2>3. QED
    BY <1>5, <1>6, <2>1, <2>2 DEF Aligned
<1>9. QED
  BY <1>6, <1>7, <1>8 DEF y, m, n, w

\* The expunges of a command, the highest place first, on both sides: the client,
\* which knows of fewer messages, drops the same ones of those it knows.
LEMMA AlignedDropped ==
  ASSUME NEW mb \in Sound, NEW s, Aligned(s, mb), NEW S, NEW P,
         \A i \in 1 .. Len(s) : i \in P <=> i \in S
  PROVE  Aligned(Dropped(s, P), RemoveAll(mb, S))
<1> DEFINE n == Len(mb.messages)
           m == Len(s)
<1>1. n \in Nat /\ m \in Nat /\ m <= n /\ s \in Seq(Nat)
  BY SoundParts, LenProperties DEF Aligned
<1>r. PICK g : Removes(g, mb, S, n)
  BY RemoveAllRounds
<1>2. /\ g \in [0 .. n -> Later(mb)]
      /\ g[0] = mb
      /\ g[n] = RemoveAll(mb, S)
      /\ \A k \in 1 .. n :
           g[k] = IF n + 1 - k \in S THEN remove_at(g[k - 1], n + 1 - k) ELSE g[k - 1]
  BY <1>r DEF Removes
<1>3. PICK c : /\ c \in [0 .. m -> Seq(Nat)]
               /\ c[0] = s
               /\ c[m] = Dropped(s, P)
               /\ \A k \in 1 .. m :
                    c[k] = IF m + 1 - k \in P THEN Without(c[k - 1], m + 1 - k) ELSE c[k - 1]
  BY <1>1, DroppedRounds
<1> HIDE DEF n, m
<1> DEFINE At(k)   == IF k <= n - m THEN 0 ELSE k - (n - m)
           Good(k) == /\ Aligned(c[At(k)], g[k])
                      /\ Len(g[k].messages) >= n - k
                      /\ Len(c[At(k)]) >= (IF k <= n - m THEN m ELSE n - k)
                      /\ k <= n - m => Len(c[At(k)]) = m
           T == {k \in 0 .. n : ~ Good(k)}
<1>4. Good(0)
  BY <1>1, <1>2, <1>3 DEF n, m
<1>5. ASSUME NEW k \in 1 .. n, Good(k - 1)
      PROVE  Good(k)
  <2> DEFINE i == n + 1 - k
             x == g[k - 1]
             d == c[At(k - 1)]
  <2>1. i \in 1 .. n /\ k - 1 \in 0 .. n /\ k \in Nat
    BY <1>1
  <2>2. x \in Sound
    BY <1>2, <2>1 DEF Later
  <2>3. /\ Aligned(d, x) /\ Len(x.messages) \in Nat /\ Len(x.messages) >= i
        /\ Len(d) \in Nat
    <3>1. Len(x.messages) \in Nat
      BY <2>2, SoundParts
    <3>2. Len(d) \in Nat
      BY <1>5, LenProperties DEF Aligned
    <3>3. QED
      BY <1>1, <1>5, <2>1, <3>1, <3>2
  <2>4. g[k] = IF i \in S THEN remove_at(x, i) ELSE x
    BY <1>2
  <2>5. i \in S => /\ Len(g[k].messages) = Len(x.messages) - 1
                   /\ i > Len(d) => Aligned(d, g[k])
                   /\ i <= Len(d) => Aligned(Without(d, i), g[k]) /\ Len(Without(d, i)) = Len(d) - 1
    <3>1. i \in 1 .. Len(x.messages)
      BY <2>1, <2>3
    <3> HIDE DEF x, d, i
    <3>2. QED
      BY <2>2, <2>3, <2>4, <3>1, AlignedRemove
  <2>6. CASE k <= n - m
    <3>1. At(k) = 0 /\ At(k - 1) = 0 /\ k - 1 <= n - m
      BY <1>1, <2>1, <2>6
    <3>2. Len(d) = m /\ c[At(k)] = d /\ i > m
      BY <1>1, <1>5, <2>1, <2>6, <3>1
    <3> HIDE DEF x, d, At
    <3>3. Aligned(d, g[k])
      BY <2>3, <2>4, <2>5, <3>2
    <3>4. Len(g[k].messages) >= n - k
      BY <1>1, <2>1, <2>3, <2>4, <2>5
    <3>5. QED
      BY <1>1, <2>6, <3>2, <3>3, <3>4
  <2>7. CASE ~ (k <= n - m)
    <3>1. At(k) = k - (n - m) /\ At(k) \in 1 .. m /\ At(k - 1) = At(k) - 1 /\ m + 1 - At(k) = i /\ i <= m
      BY <1>1, <2>1, <2>7
    <3>2. c[At(k)] = IF i \in P THEN Without(d, i) ELSE d
      <4>1. c[At(k)] = IF m + 1 - At(k) \in P THEN Without(c[At(k) - 1], m + 1 - At(k)) ELSE c[At(k) - 1]
        BY <1>3, <3>1
      <4>2. QED
        BY <3>1, <4>1
    <3>3. i \in P <=> i \in S
      BY <2>1, <3>1 DEF m
    <3>4. Len(d) >= i
      <4>1. CASE k - 1 <= n - m
        BY <1>1, <1>5, <2>1, <3>1, <4>1
      <4>2. CASE ~ (k - 1 <= n - m)
        BY <1>1, <1>5, <2>1, <3>1, <4>2
      <4>3. QED
        BY <4>1, <4>2
    <3> HIDE DEF x, d, At
    <3>5. Aligned(c[At(k)], g[k])
      BY <2>1, <2>3, <2>4, <2>5, <3>2, <3>3, <3>4
    <3>6. Len(g[k].messages) >= n - k
      BY <1>1, <2>1, <2>3, <2>4, <2>5
    <3>7. Len(c[At(k)]) >= n - k
      BY <1>1, <2>1, <2>3, <2>4, <2>5, <3>2, <3>3, <3>4
    <3>8. QED
      BY <2>7, <3>5, <3>6, <3>7
  <2>8. QED
    BY <2>6, <2>7
<1> HIDE DEF Good
<1>6. T \subseteq Nat
  OBVIOUS
<1>7. ASSUME T # {} PROVE FALSE
  <2>1. PICK k \in T : \A y \in T : k <= y
    <3> HIDE DEF T
    <3>1. QED
      BY <1>6, <1>7, LeastNatural
  <2>2. k \in 1 .. n /\ k - 1 \in 0 .. n /\ ~ (k <= k - 1) /\ ~ Good(k)
    BY <1>1, <1>4
  <2>3. Good(k - 1)
    BY <2>1, <2>2
  <2>4. QED
    BY <1>5, <2>2, <2>3
<1>8. Good(n)
  BY <1>1, <1>7
<1>9. c[At(n)] = c[m]
  <2>1. CASE n <= n - m
    <3>1. m = 0
      BY <1>1, <2>1
    <3>2. QED
      BY <2>1, <3>1
  <2>2. CASE ~ (n <= n - m)
    <3>1. n - (n - m) = m
      BY <1>1
    <3>2. QED
      BY <2>2, <3>1
  <2>3. QED
    BY <2>1, <2>2
<1>10. QED
  BY <1>2, <1>3, <1>8, <1>9 DEF Good

-----------------------------------------------------------------------------
(* A client that was away.                                                 *)

\* A client that knows the UIDs known, as of modseq, and the same mailbox now.
InTouch(modseq, known, mb) ==
  /\ modseq \in Nat /\ known \subseteq Nat \ {0}
  /\ modseq <= mb.highest_modseq
  /\ \A k \in known : k < mb.uid_next
  /\ \A u \in Uids(mb) : u \in known \/ \A k \in known : u > k
  /\ \A u \in known : u \in Uids(mb) \/ u \in vanished_since(mb, modseq)

\* Right after SELECT.
LEMMA InTouchNow ==
  ASSUME NEW mb \in Sound
  PROVE  InTouch(mb.highest_modseq, Uids(mb), mb)
<1>1. /\ mb.highest_modseq \in Nat /\ mb.uid_next \in Nat
      /\ \A u \in Uids(mb) : u \in Nat /\ u > 0 /\ u < mb.uid_next
  BY SoundParts
<1>2. QED
  BY <1>1 DEF InTouch

\* Whatever happens to the mailbox in its life, the client can catch up.
LEMMA InTouchLater ==
  ASSUME NEW mb \in Sound, NEW x \in Later(mb), NEW modseq, NEW known,
         InTouch(modseq, known, mb)
  PROVE  InTouch(modseq, known, x)
<1>1. x \in Sound /\ Grows(mb, x)
  BY DEF Later
<1>2. /\ mb.highest_modseq \in Nat /\ mb.uid_next \in Nat
      /\ x.highest_modseq \in Nat /\ x.uid_next \in Nat
      /\ \A u \in Uids(x) : u \in Nat
  BY <1>1, SoundParts
<1>3. /\ modseq \in Nat /\ known \subseteq Nat \ {0}
      /\ modseq <= mb.highest_modseq
      /\ \A k \in known : k < mb.uid_next
      /\ \A u \in Uids(mb) : u \in known \/ \A k \in known : u > k
      /\ \A u \in known : u \in Uids(mb) \/ u \in vanished_since(mb, modseq)
  BY DEF InTouch
<1>4. /\ mb.uid_next <= x.uid_next
      /\ mb.highest_modseq <= x.highest_modseq
      /\ \A u \in Uids(x) : u \in Uids(mb) \/ u >= mb.uid_next
      /\ \A u \in Uids(mb) : u \in Uids(x) \/ u \in vanished_since(x, mb.highest_modseq)
      /\ vanished_since(mb, modseq) \subseteq vanished_since(x, modseq)
  BY <1>1, <1>3 DEF Grows
<1>5. vanished_since(x, mb.highest_modseq) \subseteq vanished_since(x, modseq)
  BY <1>1, <1>2, <1>3, VanishedLater
<1>6. \A u \in Uids(x) : u \in known \/ \A k \in known : u > k
  BY <1>2, <1>3, <1>4
<1>7. \A u \in known : u \in Uids(x) \/ u \in vanished_since(x, modseq)
  BY <1>3, <1>4, <1>5
<1>8. modseq <= x.highest_modseq /\ \A k \in known : k < x.uid_next
  BY <1>2, <1>3, <1>4
<1>9. QED
  BY <1>3, <1>6, <1>7, <1>8 DEF InTouch

\* A list of n numbers that ascend, and the first m of a list.
Rising(L, n) ==
  /\ \A i \in 1 .. n : L[i] \in Nat
  /\ \A i, j \in 1 .. n : i < j => L[i] < L[j]

FirstOf(L, m) == {L[j] : j \in 1 .. m}

\* The first m of an ascending list are m.
LEMMA AscendingCount ==
  ASSUME NEW n \in Nat, NEW L, Rising(L, n), NEW m \in 0 .. n
  PROVE  Cardinality(FirstOf(L, m)) = m
<1> USE DEF Rising
<1> DEFINE U == {L[j] : j \in 1 .. m}
           f == [j \in 1 .. m |-> L[j]]
<1>1. m \in Nat /\ \A j \in 1 .. m : j \in 1 .. n
  OBVIOUS
<1>2. f \in [1 .. m -> U]
  OBVIOUS
<1>3. ASSUME NEW i \in 1 .. m, NEW j \in 1 .. m, f[i] = f[j] PROVE i = j
  <2>1. i < j \/ j < i \/ i = j
    BY <1>1
  <2>2. L[i] = L[j] /\ L[i] \in Nat /\ L[j] \in Nat
    BY <1>1, <1>3
  <2>3. QED
    BY <1>1, <2>1, <2>2
<1>4. \A u \in U : \E j \in 1 .. m : f[j] = u
  OBVIOUS
<1> HIDE DEF f, U
<1>5. f \in Injection(1 .. m, U)
  BY <1>2, <1>3 DEF Injection, IsInjective
<1>6. f \in Surjection(1 .. m, U)
  BY <1>2, <1>4 DEF Surjection
<1>7. ExistsBijection(1 .. m, U)
  BY <1>5, <1>6 DEF ExistsBijection, Bijection
<1>8. Cardinality(U) = m
  BY <1>1, <1>7, FS_CountingElements
<1>9. QED
  BY <1>8 DEF U, FirstOf

\* The UIDs of a mailbox in ascending order are its list.
LEMMA AscendingList ==
  ASSUME NEW mb \in Sound
  PROVE  Ascending(Uids(mb)) = UidList(mb)
<1> DEFINE n == Len(mb.messages)
           L == UidList(mb)
           U == Uids(mb)
           below(x) == {y \in U : y < x}
<1>1. /\ n \in Nat /\ DOMAIN mb.messages = 1 .. n
      /\ \A i \in 1 .. n : mb.messages[i].uid \in Nat
      /\ WellFormed(mb)
  BY SoundParts
<1>2. L = [i \in 1 .. n |-> mb.messages[i].uid]
  BY <1>1 DEF UidList
<1>3. U = {L[j] : j \in 1 .. n}
  BY <1>1, <1>2 DEF Uids
<1> HIDE DEF n, L, U
<1>4. \A i, j \in 1 .. n : i < j => L[i] < L[j]
  BY <1>1, <1>2 DEF WellFormed, UidsAscending
<1>5. \A i \in 1 .. n : L[i] \in Nat
  BY <1>1, <1>2
<1>r. Rising(L, n)
  BY <1>4, <1>5 DEF Rising
<1>6. Cardinality(U) = n
  <2>1. n \in 0 .. n /\ U = FirstOf(L, n)
    BY <1>1, <1>3 DEF FirstOf
  <2>2. QED
    BY <1>1, <1>r, <2>1, AscendingCount
<1>7. ASSUME NEW i \in 1 .. n PROVE Cardinality(below(L[i])) = i - 1
  <2>1. i - 1 \in 0 .. n
    BY <1>1
  <2>2. below(L[i]) = {L[j] : j \in 1 .. i - 1}
    <3>1. ASSUME NEW j \in 1 .. n PROVE L[j] < L[i] <=> j \in 1 .. i - 1
      <4>1. j < i \/ j = i \/ i < j
        OBVIOUS
      <4>2. QED
        BY <1>4, <1>5, <4>1
    <3>2. \A j \in 1 .. i - 1 : j \in 1 .. n
      BY <1>1
    <3>3. QED
      BY <1>3, <3>1, <3>2
  <2>3. Cardinality(FirstOf(L, i - 1)) = i - 1
    BY <1>1, <1>r, <2>1, AscendingCount
  <2>4. QED
    BY <2>2, <2>3 DEF FirstOf
<1>8. ASSUME NEW k \in 1 .. n
      PROVE  (CHOOSE x \in U : Cardinality(below(x)) = k - 1) = L[k]
  <2> HIDE DEF below
  <2>1. L[k] \in U /\ Cardinality(below(L[k])) = k - 1
    BY <1>3, <1>7
  <2>2. ASSUME NEW x \in U, Cardinality(below(x)) = k - 1 PROVE x = L[k]
    <3>1. PICK i \in 1 .. n : x = L[i]
      BY <1>3
    <3>2. i - 1 = k - 1
      BY <1>7, <2>2, <3>1
    <3>3. QED
      BY <3>1, <3>2
  <2>3. QED
    BY <2>1, <2>2
<1>9. Ascending(U) = [k \in 1 .. n |-> CHOOSE x \in U : Cardinality(below(x)) = k - 1]
  BY <1>6 DEF Ascending
<1>10. Ascending(U) = [k \in 1 .. n |-> L[k]]
  <2> HIDE DEF below
  <2>1. QED
    BY <1>8, <1>9
<1>11. L = [k \in 1 .. n |-> L[k]]
  BY <1>2
<1>12. QED
  BY <1>10, <1>11 DEF L, U

\* A set made of single UIDs contains those.
LEMMA KnownContains ==
  ASSUME NEW known, known \subseteq Nat \ {0}, NEW u \in Nat, NEW max
  PROVE  contains(from_uids(known), u, max) <=> u \in known
<1> DEFINE R == ranges_resolved(from_uids(known), max)
<1>1. R = {<<k, k>> : k \in known}
  <2>1. \A k \in known : resolve(k, max) = k /\ k <= k
    BY DEF resolve, Star
  <2>2. from_uids(known).ranges = {<<k, k>> : k \in known}
    BY DEF from_uids
  <2> DEFINE Of(r) == LET a == resolve(r[1], max)
                          b == resolve(r[2], max)
                      IN  IF a <= b THEN <<a, b>> ELSE <<b, a>>
  <2>3. R = {Of(r) : r \in from_uids(known).ranges}
    BY DEF ranges_resolved
  <2>4. \A k \in known : Of(<<k, k>>) = <<k, k>>
    BY <2>1
  <2> HIDE DEF Of, R
  <2>5. QED
    BY <2>2, <2>3, <2>4
<1> HIDE DEF R
<1>2. (\E r \in R : r[1] <= u /\ u <= r[2]) <=> u \in known
  <2>1. ASSUME NEW r \in R, r[1] <= u, u <= r[2] PROVE u \in known
    <3>1. PICK k \in known : r = <<k, k>>
      BY <1>1
    <3>2. k \in Nat /\ k <= u /\ u <= k
      BY <2>1, <3>1
    <3>3. QED
      BY <3>2
  <2>2. ASSUME u \in known PROVE \E r \in R : r[1] <= u /\ u <= r[2]
    <3>1. <<u, u>> \in R /\ <<u, u>>[1] <= u /\ u <= <<u, u>>[2]
      BY <1>1, <2>2
    <3>2. QED
      BY <3>1
  <2>3. QED
    BY <2>1, <2>2
<1>3. QED
  BY <1>2 DEF contains, R

\* What the client makes of VANISHED (EARLIER) and of the UIDs above those it
\* knew is the list of the mailbox.
LEMMA ResyncedList ==
  ASSUME NEW mb \in Sound, InTouch(cache.modseq, cache.uids, mb)
  PROVE  Resynced(mb) = UidList(mb)
<1> DEFINE known == cache.uids
           gone  == qresync_vanished(mb, cache.modseq, known)
           new   == {u \in Uids(mb) : \A k \in known : u > k}
<1>1. /\ cache.modseq \in Nat /\ known \subseteq Nat \ {0}
      /\ \A u \in Uids(mb) : u \in known \/ \A k \in known : u > k
      /\ \A u \in known : u \in Uids(mb) \/ u \in vanished_since(mb, cache.modseq)
  BY DEF InTouch
<1>2. vanished_since(mb, cache.modseq) \subseteq Gone(mb) /\ Uids(mb) \cap Gone(mb) = {}
  <2>1. mb \in MailboxType /\ WellFormed(mb)
    BY SoundParts
  <2>2. QED
    BY <2>1 DEF WellFormed, UidsAccountedFor, Gone, vanished_since
<1>3. gone = vanished_since(mb, cache.modseq) \cap known
  <2>1. \A u \in vanished_since(mb, cache.modseq) : u \in Nat
    <3>1. \A k \in DOMAIN mb.expunged : mb.expunged[k].uid \in Nat
      BY MailboxParts DEF Sound
    <3>2. QED
      BY <3>1 DEF vanished_since
  <2>2. \A u \in vanished_since(mb, cache.modseq) :
          contains(from_uids(known), u, max_uid(mb)) <=> u \in known
    BY <1>1, <2>1, KnownContains
  <2>3. QED
    BY <2>2 DEF qresync_vanished
<1> HIDE DEF known, gone
<1>4. (known \ gone) \cup new = Uids(mb)
  BY <1>1, <1>2, <1>3
<1>5. Resynced(mb) = Ascending((known \ gone) \cup new)
  BY DEF Resynced, known, gone
<1>6. QED
  BY <1>4, <1>5, AscendingList

-----------------------------------------------------------------------------
(* The session.                                                            *)

\* The mailboxes are in order and each has a life of its own; a client that
\* comes back can catch up with the one it left.
StoreOk ==
  /\ DOMAIN mailboxes \subseteq Names
  /\ nextGen \in Nat
  /\ \A n \in DOMAIN mailboxes : mailboxes[n] \in Sound /\ mailboxes[n].gen < nextGen
  /\ \A m, n \in DOMAIN mailboxes : mailboxes[m].gen = mailboxes[n].gen => m = n
  /\ cache.gen \in Nat /\ cache.gen < nextGen
  /\ \A n \in DOMAIN mailboxes :
       mailboxes[n].gen = cache.gen => InTouch(cache.modseq, cache.uids, mailboxes[n])

\* The list of the client that has the selected mailbox in view.
ViewOk ==
  /\ view = [gen |-> view.gen, uids |-> view.uids]
  /\ selected \in DOMAIN mailboxes /\ view.gen = mailboxes[selected].gen
       => Aligned(view.uids, mailboxes[selected])

ImapInv == StoreOk /\ SelectedLife /\ ViewOk

\* What every command starts from.
LEMMA HealedFacts ==
  ASSUME StoreOk
  PROVE  /\ NoName \notin DOMAIN mailboxes
         /\ Healed \in DOMAIN mailboxes => Healed = selected
         /\ Healed # NoName => Healed = selected /\ selected \in DOMAIN mailboxes
BY SessionAssumption DEF StoreOk, Healed

\* The mailboxes go on with their lives.
LEMMA StoreGrows ==
  ASSUME StoreOk, DOMAIN mailboxes' = DOMAIN mailboxes,
         \A n \in DOMAIN mailboxes : mailboxes'[n] \in Later(mailboxes[n]),
         UNCHANGED <<nextGen, cache>>
  PROVE  StoreOk'
<1>1. \A n \in DOMAIN mailboxes : /\ mailboxes'[n] \in Sound
                                  /\ mailboxes'[n].gen = mailboxes[n].gen
  BY DEF Later, Grows
<1>2. ASSUME NEW n \in DOMAIN mailboxes, mailboxes'[n].gen = cache.gen
      PROVE  InTouch(cache.modseq, cache.uids, mailboxes'[n])
  <2>1. mailboxes[n] \in Sound /\ InTouch(cache.modseq, cache.uids, mailboxes[n])
    BY <1>1, <1>2 DEF StoreOk
  <2>2. QED
    BY <2>1, InTouchLater
<1>3. QED
  BY <1>1, <1>2 DEF StoreOk

\* Nothing of the store changes.
LEMMA StoreStays ==
  ASSUME StoreOk, UNCHANGED <<mailboxes, nextGen, cache>>
  PROVE  StoreOk'
BY DEF StoreOk

\* The session has no mailbox selected any more.
LEMMA SelectionEnds ==
  ASSUME StoreOk', selected' = NoName, state' # "Selected", view' = NoView
  PROVE  SelectedLife' /\ ViewOk'
<1>1. NoName \notin DOMAIN mailboxes'
  BY SessionAssumption DEF StoreOk
<1>2. view' = [gen |-> view'.gen, uids |-> view'.uids]
  BY DEF NoView
<1>3. QED
  BY <1>1, <1>2 DEF SelectedLife, ViewOk

\* The session keeps its selection and the client its list.
LEMMA SelectionStays ==
  ASSUME StoreOk, SelectedLife, ViewOk, UNCHANGED <<selected, selGen, view>>,
         state' = "Selected" => state = "Selected",
         identity' = identity \/ identity' = TRUE,
         selected \in DOMAIN mailboxes' =>
           selected \in DOMAIN mailboxes /\ mailboxes'[selected] \in Longer(mailboxes[selected])
  PROVE  SelectedLife' /\ ViewOk'
<1>1. SelectedLife'
  BY DEF SelectedLife, Longer, Grows
<1>2. ASSUME selected \in DOMAIN mailboxes', view.gen = mailboxes'[selected].gen
      PROVE  Aligned(view.uids, mailboxes'[selected])
  <2>1. /\ selected \in DOMAIN mailboxes /\ mailboxes'[selected] \in Longer(mailboxes[selected])
        /\ mailboxes[selected] \in Sound
    BY <1>2 DEF StoreOk
  <2>2. mailboxes'[selected].gen = mailboxes[selected].gen
    BY <2>1 DEF Longer, Grows
  <2>3. Aligned(view.uids, mailboxes[selected])
    BY <1>2, <2>1, <2>2 DEF ViewOk
  <2>4. QED
    BY <2>1, <2>3, AlignedLonger
<1>3. QED
  BY <1>1, <1>2 DEF ViewOk

\* A command that selects nothing itself.
LEMMA KeepSelection ==
  ASSUME ImapInv, StoreOk', NEW s, Keep(s), s = HealedState \/ s # "Selected",
         identity' = identity \/ identity' = TRUE,
         \A n \in DOMAIN mailboxes : n \in DOMAIN mailboxes' => mailboxes'[n] \in Longer(mailboxes[n])
  PROVE  SelectedLife' /\ ViewOk'
<1>1. StoreOk /\ SelectedLife /\ ViewOk
  BY DEF ImapInv
<1>2. CASE Healed = NoName
  <2>1. state' # "Selected"
    BY <1>1, <1>2 DEF Keep, HealedState, SelectedLife
  <2>2. selected' = NoName /\ view' = NoView
    BY <1>2 DEF Keep
  <2>3. QED
    BY <2>1, <2>2, SelectionEnds
<1>3. CASE Healed # NoName
  <2>1. Healed = selected /\ selected \in DOMAIN mailboxes
    BY <1>1, <1>3, HealedFacts
  <2>2. UNCHANGED <<selected, selGen, view>>
    BY <1>3, <2>1 DEF Keep
  <2>3. state' = "Selected" => state = "Selected"
    BY <1>3 DEF Keep, HealedState
  <2>4. QED
    BY <1>1, <2>1, <2>2, <2>3, SelectionStays
<1>4. QED
  BY <1>2, <1>3

\* A command that leaves the store alone.
LEMMA KeepAll ==
  ASSUME ImapInv, NEW s, Keep(s), s = HealedState \/ s # "Selected",
         identity' = identity \/ identity' = TRUE, UNCHANGED store
  PROVE  ImapInv'
<1>1. UNCHANGED <<mailboxes, nextGen, cache>>
  BY DEF Keep, store
<1>2. StoreOk /\ StoreOk'
  BY <1>1, StoreStays DEF ImapInv
<1>3. \A n \in DOMAIN mailboxes : mailboxes'[n] \in Longer(mailboxes[n])
  BY <1>1, <1>2, GrowsItself DEF StoreOk
<1>4. QED
  BY <1>2, <1>3, KeepSelection DEF ImapInv

\* One mailbox gets one more message: APPEND, and a delivery by the node.
LEMMA AppendStore ==
  ASSUME StoreOk, NEW n \in DOMAIN mailboxes, NEW raw \in Raws, NEW flags \in SUBSET Flags,
         Change([mailboxes EXCEPT ![n] = append(@, raw, flags)]), UNCHANGED cache
  PROVE  /\ StoreOk'
         /\ DOMAIN mailboxes' = DOMAIN mailboxes
         /\ \A m \in DOMAIN mailboxes : mailboxes'[m] \in Longer(mailboxes[m])
<1>1. /\ mailboxes' = [mailboxes EXCEPT ![n] = append(mailboxes[n], raw, flags)]
      /\ nextGen' = nextGen
  BY DEF Change
<1>2. DOMAIN mailboxes' = DOMAIN mailboxes
  BY <1>1
<1>3. ASSUME NEW m \in DOMAIN mailboxes PROVE mailboxes'[m] \in Longer(mailboxes[m])
  <2>1. mailboxes[m] \in Sound
    BY DEF StoreOk
  <2>2. CASE m = n
    BY <1>1, <2>1, <2>2, AppendGrows
  <2>3. CASE m # n
    BY <1>1, <2>1, <2>3, GrowsItself
  <2>4. QED
    BY <2>2, <2>3
<1>4. \A m \in DOMAIN mailboxes : mailboxes'[m] \in Later(mailboxes[m])
  BY <1>3 DEF Later, Longer
<1>5. QED
  BY <1>1, <1>2, <1>3, <1>4, StoreGrows

\* APPEND keeps the invariant.
LEMMA AppendInv ==
  ASSUME ImapInv, NEW n, NEW raw \in Raws, NEW flags \in FlagSets, cmd_append(n, raw, flags)
  PROVE  ImapInv'
<1>1. /\ StoreOk /\ n \in DOMAIN mailboxes /\ flags \in SUBSET Flags
      /\ Change([mailboxes EXCEPT ![n] = append(@, raw, flags)])
      /\ Keep(HealedState) /\ UNCHANGED <<cache, identity>>
  BY SessionAssumption DEF ImapInv, cmd_append, StoreCommand, Keep, auth
<1>2. /\ StoreOk'
      /\ DOMAIN mailboxes' = DOMAIN mailboxes
      /\ \A m \in DOMAIN mailboxes : mailboxes'[m] \in Longer(mailboxes[m])
  BY <1>1, AppendStore
<1>3. QED
  BY <1>1, <1>2, KeepSelection DEF ImapInv

\* A delivery by the node keeps the invariant.
LEMMA DeliverInv ==
  ASSUME ImapInv, NEW n, NEW raw \in Raws, NodeDeliver(n, raw)
  PROVE  ImapInv'
<1>1. /\ StoreOk /\ SelectedLife /\ ViewOk /\ n \in DOMAIN mailboxes /\ {Recent} \in SUBSET Flags
      /\ Change([mailboxes EXCEPT ![n] = append(@, raw, {Recent})])
      /\ UNCHANGED <<cache, identity, state, selected, selGen, view>>
  BY SessionAssumption DEF ImapInv, NodeDeliver, auth, client
<1>2. /\ StoreOk'
      /\ DOMAIN mailboxes' = DOMAIN mailboxes
      /\ \A m \in DOMAIN mailboxes : mailboxes'[m] \in Longer(mailboxes[m])
  BY <1>1, AppendStore
<1>3. QED
  BY <1>1, <1>2, SelectionStays DEF ImapInv

\* CREATE begins a life nobody knows.
LEMMA CreateInv ==
  ASSUME ImapInv, NEW n \in Names, cmd_create(n)
  PROVE  ImapInv'
<1>1. /\ StoreOk /\ n \notin DOMAIN mailboxes
      /\ nextGen' = nextGen + 1
      /\ mailboxes' = [m \in DOMAIN mailboxes \cup {n} |->
                         IF m = n THEN NewMailbox(nextGen) ELSE mailboxes[m]]
      /\ Keep(HealedState) /\ UNCHANGED <<cache, identity>>
  BY DEF ImapInv, cmd_create, StoreCommand, Keep, auth
<1>2. /\ DOMAIN mailboxes' = DOMAIN mailboxes \cup {n}
      /\ mailboxes'[n] = NewMailbox(nextGen)
      /\ \A m \in DOMAIN mailboxes : mailboxes'[m] = mailboxes[m]
  BY <1>1
<1>3. NewMailbox(nextGen) \in Sound /\ NewMailbox(nextGen).gen = nextGen
  BY <1>1, NewWellFormed DEF StoreOk, Sound, NewMailbox
<1>4. /\ nextGen \in Nat /\ cache.gen \in Nat
      /\ \A m \in DOMAIN mailboxes : mailboxes[m] \in Sound /\ mailboxes[m].gen \in Nat
  BY <1>1, SoundParts DEF StoreOk
<1>5. StoreOk'
  <2>1. \A m \in DOMAIN mailboxes' : mailboxes'[m] \in Sound /\ mailboxes'[m].gen < nextGen'
    BY <1>1, <1>2, <1>3, <1>4 DEF StoreOk
  <2>2. \A k, m \in DOMAIN mailboxes' : mailboxes'[k].gen = mailboxes'[m].gen => k = m
    BY <1>1, <1>2, <1>3, <1>4 DEF StoreOk
  <2>3. \A m \in DOMAIN mailboxes' :
          mailboxes'[m].gen = cache.gen => InTouch(cache.modseq, cache.uids, mailboxes'[m])
    BY <1>1, <1>2, <1>3, <1>4 DEF StoreOk
  <2>4. /\ nextGen' \in Nat /\ cache'.gen \in Nat /\ cache'.gen < nextGen'
        /\ DOMAIN mailboxes' \subseteq Names
    BY <1>1, <1>2, <1>4 DEF StoreOk
  <2>5. cache' = cache
    BY <1>1
  <2>6. QED
    BY <2>1, <2>2, <2>3, <2>4, <2>5 DEF StoreOk
<1>6. \A m \in DOMAIN mailboxes : mailboxes'[m] \in Longer(mailboxes[m])
  BY <1>2, <1>4, GrowsItself
<1>7. QED
  BY <1>1, <1>5, <1>6, KeepSelection DEF ImapInv

\* DELETE ends a life, and with it a selection.
LEMMA DeleteInv ==
  ASSUME ImapInv, NEW n \in Names, Delete(n)
  PROVE  ImapInv'
<1>1. /\ StoreOk
      /\ mailboxes' = [m \in DOMAIN mailboxes \ {n} |-> mailboxes[m]]
      /\ Keep(HealedState) /\ UNCHANGED <<nextGen, cache, identity>>
  BY DEF ImapInv, Delete, StoreCommand, Keep, auth
<1>2. /\ DOMAIN mailboxes' = DOMAIN mailboxes \ {n}
      /\ \A m \in DOMAIN mailboxes' : mailboxes'[m] = mailboxes[m]
  BY <1>1
<1>3. StoreOk'
  BY <1>1, <1>2 DEF StoreOk
<1>4. \A m \in DOMAIN mailboxes : m \in DOMAIN mailboxes' => mailboxes'[m] \in Longer(mailboxes[m])
  BY <1>1, <1>2, GrowsItself DEF StoreOk
<1>5. QED
  BY <1>1, <1>3, <1>4, KeepSelection DEF ImapInv

\* RENAME carries a life to another name.
LEMMA RenameInv ==
  ASSUME ImapInv, NEW from \in Names, NEW to \in Names, Rename(from, to)
  PROVE  ImapInv'
<1>1. /\ StoreOk /\ from \in DOMAIN mailboxes /\ to \notin DOMAIN mailboxes
      /\ mailboxes' = [m \in (DOMAIN mailboxes \ {from}) \cup {to} |->
                         IF m = to THEN mailboxes[from] ELSE mailboxes[m]]
      /\ Keep(HealedState) /\ UNCHANGED <<nextGen, cache, identity>>
  BY DEF ImapInv, Rename, StoreCommand, Keep, auth
<1>2. /\ DOMAIN mailboxes' = (DOMAIN mailboxes \ {from}) \cup {to}
      /\ mailboxes'[to] = mailboxes[from]
      /\ \A m \in DOMAIN mailboxes \ {from} : mailboxes'[m] = mailboxes[m]
  BY <1>1
<1>3. StoreOk'
  <2>1. \A m \in DOMAIN mailboxes' : mailboxes'[m] \in Sound /\ mailboxes'[m].gen < nextGen
    BY <1>1, <1>2 DEF StoreOk
  <2>2. \A k, m \in DOMAIN mailboxes' : mailboxes'[k].gen = mailboxes'[m].gen => k = m
    BY <1>1, <1>2 DEF StoreOk
  <2>3. \A m \in DOMAIN mailboxes' :
          mailboxes'[m].gen = cache.gen => InTouch(cache.modseq, cache.uids, mailboxes'[m])
    BY <1>1, <1>2 DEF StoreOk
  <2>4. QED
    BY <1>1, <1>2, <2>1, <2>2, <2>3 DEF StoreOk
<1>4. \A m \in DOMAIN mailboxes : m \in DOMAIN mailboxes' => mailboxes'[m] \in Longer(mailboxes[m])
  BY <1>1, <1>2, GrowsItself DEF StoreOk
<1>5. QED
  BY <1>1, <1>3, <1>4, KeepSelection DEF ImapInv

\* SELECT and EXAMINE, with QRESYNC and without.
LEMMA SelectInv ==
  ASSUME ImapInv, NEW n \in Names, NEW ro, NEW resync \in BOOLEAN, cmd_select(n, ro, resync)
  PROVE  ImapInv'
<1> DEFINE mb == mailboxes[n]
<1>1. /\ StoreOk /\ n \in DOMAIN mailboxes /\ identity
      /\ view' = IF resync THEN [gen |-> cache.gen, uids |-> Resynced(mb)]
                           ELSE [gen |-> mb.gen, uids |-> UidList(mb)]
      /\ cache' = [name |-> n, gen |-> mb.gen, modseq |-> mb.highest_modseq, uids |-> Uids(mb)]
      /\ selGen' = mb.gen /\ selected' = n /\ state' = "Selected"
      /\ UNCHANGED <<mailboxes, nextGen, identity>>
  BY DEF ImapInv, cmd_select, AuthCommand, store, auth
<1>2. mb \in Sound /\ mb.gen \in Nat /\ mb.gen < nextGen
  BY <1>1, SoundParts DEF StoreOk
<1> HIDE DEF mb
<1>3. cache'.gen = mb.gen /\ cache'.modseq = mb.highest_modseq /\ cache'.uids = Uids(mb)
  BY <1>1
<1>4. StoreOk'
  <2>1. ASSUME NEW m \in DOMAIN mailboxes, mailboxes[m].gen = mb.gen
        PROVE  InTouch(mb.highest_modseq, Uids(mb), mailboxes[m])
    <3>1. m = n
      BY <1>1, <2>1 DEF StoreOk, mb
    <3>2. QED
      BY <1>2, <3>1, InTouchNow DEF mb
  <2>2. QED
    BY <1>1, <1>2, <1>3, <2>1 DEF StoreOk
<1>5. SelectedLife'
  <2>1. n # NoName
    BY SessionAssumption
  <2>2. QED
    BY <1>1, <2>1 DEF SelectedLife, mb
<1>6. ViewOk'
  <2>1. CASE resync
    <3>1. view' = [gen |-> cache.gen, uids |-> Resynced(mb)]
      BY <1>1, <2>1
    <3>2. ASSUME cache.gen = mb.gen PROVE Aligned(Resynced(mb), mb)
      <4>1. InTouch(cache.modseq, cache.uids, mb)
        BY <1>1, <3>2 DEF StoreOk, mb
      <4>2. QED
        BY <1>2, <4>1, ResyncedList, ListAligned
    <3>3. QED
      BY <1>1, <3>1, <3>2 DEF ViewOk, mb
  <2>2. CASE ~ resync
    <3>1. view' = [gen |-> mb.gen, uids |-> UidList(mb)]
      BY <1>1, <2>2
    <3>2. Aligned(UidList(mb), mb)
      BY <1>2, ListAligned
    <3>3. QED
      BY <1>1, <3>1, <3>2 DEF ViewOk, mb
  <2>3. QED
    BY <2>1, <2>2
<1>7. QED
  BY <1>4, <1>5, <1>6 DEF ImapInv

\* What RemoveAll makes of a mailbox is a later state of it.
LEMMA RemoveAllGrows ==
  ASSUME NEW mb \in Sound, NEW x \in Longer(mb), NEW S
  PROVE  RemoveAll(x, S) \in Later(mb)
<1>1. x \in Sound /\ Grows(mb, x) /\ Len(x.messages) \in Nat
  BY SoundParts DEF Longer
<1>2. RemoveAll(x, S) \in Later(x)
  <2> DEFINE n == Len(x.messages)
  <2>1. PICK g : g \in [0 .. n -> Later(x)] /\ g[n] = RemoveAll(x, S)
    BY <1>1, RemoveAllRounds DEF Removes
  <2>2. n \in 0 .. n
    BY <1>1
  <2>3. QED
    BY <2>1, <2>2
<1>3. QED
  BY <1>1, <1>2, GrowsOn DEF Later

\* CLOSE and UNSELECT.
LEMMA CloseInv ==
  ASSUME ImapInv, NEW expunge, cmd_close(expunge)
  PROVE  ImapInv'
<1> DEFINE mb == mailboxes[Healed]
           S  == {i \in DOMAIN mb.messages : Deleted \in mb.messages[i].flags}
           boxes == IF expunge /\ ~read_only /\ Healed \in DOMAIN mailboxes
                    THEN [mailboxes EXCEPT ![Healed] = RemoveAll(mb, S)]
                    ELSE mailboxes
<1>1. /\ StoreOk /\ mailboxes' = boxes /\ UNCHANGED <<nextGen, cache>>
      /\ selected' = NoName /\ state' = "Authenticated" /\ view' = NoView
  BY DEF ImapInv, cmd_close, Change
<1> HIDE DEF S
<1>2. DOMAIN boxes = DOMAIN mailboxes
  OBVIOUS
<1>3. ASSUME NEW n \in DOMAIN mailboxes PROVE boxes[n] \in Later(mailboxes[n])
  <2>1. mailboxes[n] \in Sound /\ mailboxes[n] \in Longer(mailboxes[n]) /\ mailboxes[n] \in Later(mailboxes[n])
    BY <1>1, GrowsItself DEF StoreOk
  <2>2. RemoveAll(mailboxes[n], S) \in Later(mailboxes[n])
    BY <2>1, RemoveAllGrows
  <2>3. boxes[n] = mailboxes[n] \/ boxes[n] = RemoveAll(mailboxes[n], S)
    OBVIOUS
  <2>4. QED
    BY <2>1, <2>2, <2>3
<1> HIDE DEF boxes
<1>4. StoreOk'
  BY <1>1, <1>2, <1>3, StoreGrows
<1>5. QED
  BY <1>1, <1>4, SelectionEnds DEF ImapInv

\* A list from which nothing is dropped.
LEMMA DroppedNothing ==
  ASSUME NEW s \in Seq(Nat)
  PROVE  Dropped(s, {}) = s
<1> DEFINE n == Len(s)
           F == [p \in (1 .. n) \X {s} |-> s]
<1>1. n \in Nat
  BY LenProperties
<1>2. PICK c : /\ c[0] = s
               /\ c[n] = Dropped(s, {})
               /\ \A k \in 1 .. n : c[k] = IF n + 1 - k \in {} THEN Without(c[k - 1], n + 1 - k) ELSE c[k - 1]
  BY DroppedRounds
<1> HIDE DEF n
<1>3. F \in Rounds(n, {s}) /\ \A k \in 1 .. n : F[<<k, s>>] = s
  BY DEF Rounds
<1> HIDE DEF F
<1>4. \A k \in 1 .. n : c[k - 1] \in {s} => c[k] = F[<<k, c[k - 1]>>]
  BY <1>2, <1>3
<1>5. \A k \in 0 .. n : c[k] \in {s}
  <2>1. PICK R : R = {s}
    OBVIOUS
  <2>2. /\ F \in Rounds(n, R) /\ c[0] \in R
        /\ \A k \in 1 .. n : c[k - 1] \in R => c[k] = F[<<k, c[k - 1]>>]
    BY <1>2, <1>3, <1>4, <2>1
  <2>3. \A k \in 0 .. n : c[k] \in R
    BY <1>1, <2>2, LoopStays
  <2>4. QED
    BY <2>1, <2>3
<1>6. QED
  BY <1>1, <1>2, <1>5

\* What a command on the selected mailbox leaves as it is.
LEMMA BecomesFacts ==
  ASSUME ImapInv, SelectedCommand, NEW boxes, NEW S, SelectedBecomes(boxes, S)
  PROVE  /\ StoreOk /\ SelectedLife /\ ViewOk
         /\ Healed = selected /\ selected \in DOMAIN mailboxes /\ selected # NoName
         /\ mailboxes[selected] \in Sound
         /\ mailboxes' = boxes
         /\ UNCHANGED <<nextGen, cache, selected, selGen, state, identity>>
         /\ view' = [gen |-> view.gen, uids |-> AfterExpunge(view.uids, mailboxes[selected], S)]
<1>1. StoreOk /\ SelectedLife /\ ViewOk
  BY DEF ImapInv
<1>2. Healed = selected /\ selected \in DOMAIN mailboxes /\ selected # NoName
  BY <1>1, HealedFacts DEF SelectedCommand
<1>3. /\ mailboxes' = boxes /\ UNCHANGED <<nextGen, cache, selGen, identity>>
      /\ selected' = Healed /\ state' = HealedState
      /\ view' = [view EXCEPT !.uids = AfterExpunge(view.uids, mailboxes[Healed], S)]
  BY DEF SelectedBecomes, Change, auth
<1>4. HealedState = state
  BY <1>2 DEF HealedState
<1>5. view' = [gen |-> view.gen, uids |-> AfterExpunge(view.uids, mailboxes[selected], S)]
  <2> DEFINE u == AfterExpunge(view.uids, mailboxes[selected], S)
             g == view.gen
             v == view.uids
  <2>1. view = [gen |-> g, uids |-> v] /\ view' = [view EXCEPT !.uids = u]
    BY <1>1, <1>2, <1>3 DEF ViewOk
  <2> HIDE DEF u, g, v
  <2>2. view' = [gen |-> g, uids |-> u]
    BY <2>1
  <2>3. QED
    BY <2>2 DEF u, g
<1>6. QED
  BY <1>1, <1>2, <1>3, <1>4, <1>5 DEF StoreOk

\* A command on the selected mailbox that expunges nothing.
LEMMA BecomesLonger ==
  ASSUME ImapInv, SelectedCommand, NEW boxes, SelectedBecomes(boxes, {}),
         DOMAIN boxes = DOMAIN mailboxes,
         \A n \in DOMAIN mailboxes : boxes[n] \in Longer(mailboxes[n])
  PROVE  ImapInv'
<1>1. /\ StoreOk /\ SelectedLife /\ ViewOk
      /\ selected \in DOMAIN mailboxes /\ selected # NoName
      /\ mailboxes[selected] \in Sound
      /\ mailboxes' = boxes
      /\ UNCHANGED <<nextGen, cache, selected, selGen, state, identity>>
      /\ view' = [gen |-> view.gen, uids |-> AfterExpunge(view.uids, mailboxes[selected], {})]
  BY BecomesFacts
<1>2. \A n \in DOMAIN mailboxes : mailboxes'[n] \in Later(mailboxes[n])
  BY <1>1 DEF Later, Longer
<1>3. StoreOk'
  BY <1>1, <1>2, StoreGrows
<1>4. boxes[selected] \in Longer(mailboxes[selected]) /\ boxes[selected].gen = mailboxes[selected].gen
  BY <1>1 DEF Longer, Grows
<1>5. SelectedLife'
  BY <1>1, <1>4 DEF SelectedLife
<1>6. ASSUME view.gen = mailboxes[selected].gen
      PROVE  Aligned(AfterExpunge(view.uids, mailboxes[selected], {}), boxes[selected])
  <2>1. Aligned(view.uids, mailboxes[selected])
    BY <1>1, <1>6 DEF ViewOk
  <2>2. AfterExpunge(view.uids, mailboxes[selected], {}) = Dropped(view.uids, {})
    BY DEF AfterExpunge
  <2>3. Dropped(view.uids, {}) = view.uids
    BY <2>1, DroppedNothing DEF Aligned
  <2>4. QED
    BY <1>1, <1>4, <2>1, <2>2, <2>3, AlignedLonger
<1> DEFINE u == AfterExpunge(view.uids, mailboxes[selected], {})
<1> HIDE DEF u
<1>7. ViewOk'
  <2>1. view' = [gen |-> view.gen, uids |-> u]
    BY <1>1 DEF u
  <2>2. view'.gen = view.gen /\ view'.uids = u
    BY <2>1
  <2>3. view.gen = mailboxes[selected].gen => Aligned(u, boxes[selected])
    BY <1>6 DEF u
  <2>4. QED
    BY <1>1, <1>4, <2>1, <2>2, <2>3 DEF ViewOk
<1>8. QED
  BY <1>3, <1>5, <1>7 DEF ImapInv

\* Messages come last in some mailboxes, then those at S go from the selected one.
LEMMA BecomesRemoved ==
  ASSUME ImapInv, SelectedCommand, NEW boxes, NEW copied, NEW S, SelectedBecomes(boxes, S),
         DOMAIN copied = DOMAIN mailboxes,
         \A n \in DOMAIN mailboxes : copied[n] \in Longer(mailboxes[n]),
         S \subseteq DOMAIN mailboxes[Healed].messages,
         boxes = [copied EXCEPT ![Healed] = RemoveAll(copied[Healed], S)]
  PROVE  ImapInv'
<1> DEFINE mb == mailboxes[selected]
           x  == copied[selected]
           u  == AfterExpunge(view.uids, mb, S)
<1>1. /\ StoreOk /\ SelectedLife /\ ViewOk
      /\ Healed = selected /\ selected \in DOMAIN mailboxes /\ selected # NoName
      /\ mailboxes[selected] \in Sound
      /\ mailboxes' = boxes
      /\ UNCHANGED <<nextGen, cache, selected, selGen, state, identity>>
      /\ view' = [gen |-> view.gen, uids |-> u]
  BY BecomesFacts
<1>2. /\ DOMAIN boxes = DOMAIN mailboxes
      /\ boxes[selected] = RemoveAll(x, S)
      /\ \A n \in DOMAIN mailboxes : n # selected => boxes[n] = copied[n]
  BY <1>1
<1>3. ASSUME NEW n \in DOMAIN mailboxes PROVE boxes[n] \in Later(mailboxes[n])
  <2>1. mailboxes[n] \in Sound
    BY <1>1 DEF StoreOk
  <2>2. CASE n = selected
    BY <1>2, <2>1, <2>2, RemoveAllGrows
  <2>3. CASE n # selected
    BY <1>2, <2>3 DEF Later, Longer
  <2>4. QED
    BY <2>2, <2>3
<1>4. StoreOk'
  BY <1>1, <1>2, <1>3, StoreGrows
<1>5. boxes[selected].gen = mb.gen
  BY <1>1, <1>3 DEF Later, Grows
<1>6. SelectedLife'
  BY <1>1, <1>5 DEF SelectedLife
<1>7. ASSUME view.gen = mb.gen PROVE Aligned(u, RemoveAll(x, S))
  <2> DEFINE s == view.uids
             P == IF qresync THEN {i \in DOMAIN s : s[i] \in {mb.messages[j].uid : j \in S}} ELSE S
  <2>1. Aligned(s, mb)
    BY <1>1, <1>7 DEF ViewOk
  <2>2. x \in Longer(mb) /\ x \in Sound
    BY <1>1 DEF Longer
  <2>3. Aligned(s, x)
    BY <1>1, <2>1, <2>2, AlignedLonger
  <2>4. u = Dropped(s, P)
    BY DEF AfterExpunge
  <2> HIDE DEF s
  <2>5. \A i \in 1 .. Len(s) : i \in P <=> i \in S
    <3>1. /\ Len(s) \in Nat /\ DOMAIN s = 1 .. Len(s)
          /\ Len(s) <= Len(mb.messages)
          /\ \A i \in 1 .. Len(s) : s[i] = mb.messages[i].uid
      BY <2>1, LenProperties DEF Aligned
    <3>2. /\ mb \in MailboxType /\ UidsAscending(mb)
          /\ Len(mb.messages) \in Nat /\ DOMAIN mb.messages = 1 .. Len(mb.messages)
      BY <1>1, SoundParts DEF WellFormed
    <3>3. S \subseteq DOMAIN mb.messages
      BY <1>1
    <3> HIDE DEF mb
    <3>4. ASSUME NEW i \in 1 .. Len(s) PROVE s[i] \in {mb.messages[j].uid : j \in S} <=> i \in S
      <4>1. i \in DOMAIN mb.messages
        BY <3>1, <3>2
      <4>2. \A j \in S : mb.messages[j].uid = mb.messages[i].uid => j = i
        BY <3>2, <3>3, <4>1, DistinctUids
      <4>3. QED
        BY <3>1, <4>2
    <3>5. QED
      BY <3>1, <3>4
  <2> HIDE DEF P, u
  <2>6. QED
    BY <2>2, <2>3, <2>4, <2>5, AlignedDropped
<1> HIDE DEF u, x
<1>8. ViewOk'
  <2>1. view'.gen = view.gen /\ view'.uids = u
    BY <1>1
  <2>2. view.gen = mb.gen => Aligned(u, boxes[selected])
    BY <1>2, <1>7
  <2>3. QED
    BY <1>1, <1>5, <2>1, <2>2 DEF ViewOk
<1>9. QED
  BY <1>4, <1>6, <1>8 DEF ImapInv

\* EXPUNGE and UID EXPUNGE.
LEMMA ExpungeInv ==
  ASSUME ImapInv, NEW set, cmd_expunge(set)
  PROVE  ImapInv'
<1> DEFINE mb == mailboxes[Healed]
           S  == {i \in DOMAIN mb.messages :
                    /\ Deleted \in mb.messages[i].flags
                    /\ contains(materialize(mb, set, TRUE), mb.messages[i].uid, max_uid(mb))}
           boxes == [mailboxes EXCEPT ![Healed] = RemoveAll(mailboxes[Healed], S)]
<1>1. SelectedCommand /\ SelectedBecomes(boxes, S)
  BY DEF cmd_expunge
<1>2. S \subseteq DOMAIN mailboxes[Healed].messages
  OBVIOUS
<1> HIDE DEF S
<1>3. \A n \in DOMAIN mailboxes : mailboxes[n] \in Longer(mailboxes[n])
  BY GrowsItself DEF ImapInv, StoreOk
<1>4. PICK b : b = boxes
  OBVIOUS
<1> HIDE DEF boxes
<1>5. SelectedBecomes(b, S) /\ b = [mailboxes EXCEPT ![Healed] = RemoveAll(mailboxes[Healed], S)]
  BY <1>1, <1>4 DEF boxes
<1>6. QED
  BY <1>1, <1>2, <1>3, <1>5, BecomesRemoved

\* Messages that are rewritten stay in their places.
LEMMA WriteAllLonger ==
  ASSUME NEW mb \in Sound, NEW S, NEW flags \in [DOMAIN mb.messages -> SUBSET Flags]
  PROVE  WriteAll(mb, S, flags) \in Longer(mb)
<1> DEFINE l == Len(mb.messages)
<1>1. PICK g : g \in [0 .. l -> Longer(mb)] /\ g[l] = WriteAll(mb, S, flags)
  BY WriteAllRounds
<1>2. l \in 0 .. l
  BY SoundParts
<1>3. QED
  BY <1>1, <1>2

\* The selected mailbox rewritten in place: FETCH and STORE.
LEMMA WriteBoxes ==
  ASSUME StoreOk, NEW S, NEW boxes,
         NEW flags \in [DOMAIN mailboxes[Healed].messages -> SUBSET Flags],
         boxes = [mailboxes EXCEPT ![Healed] = WriteAll(mailboxes[Healed], S, flags)]
  PROVE  /\ DOMAIN boxes = DOMAIN mailboxes
         /\ \A n \in DOMAIN mailboxes : boxes[n] \in Longer(mailboxes[n])
<1>1. ASSUME NEW n \in DOMAIN mailboxes PROVE boxes[n] \in Longer(mailboxes[n])
  <2>1. mailboxes[n] \in Sound
    BY DEF StoreOk
  <2>2. CASE n = Healed
    BY <2>1, <2>2, WriteAllLonger
  <2>3. CASE n # Healed
    BY <2>1, <2>3, GrowsItself
  <2>4. QED
    BY <2>2, <2>3
<1>2. QED
  BY <1>1

\* What both do keeps the invariant.
LEMMA WriteInv ==
  ASSUME ImapInv, SelectedCommand, NEW S,
         NEW flags \in [DOMAIN mailboxes[Healed].messages -> SUBSET Flags],
         SelectedBecomes([mailboxes EXCEPT ![Healed] = WriteAll(mailboxes[Healed], S, flags)], {})
  PROVE  ImapInv'
<1> DEFINE boxes == [mailboxes EXCEPT ![Healed] = WriteAll(mailboxes[Healed], S, flags)]
<1>1. StoreOk /\ SelectedBecomes(boxes, {})
  BY DEF ImapInv
<1>2. DOMAIN boxes = DOMAIN mailboxes /\ \A n \in DOMAIN mailboxes : boxes[n] \in Longer(mailboxes[n])
  BY <1>1, WriteBoxes
<1> HIDE DEF boxes
<1>3. QED
  BY <1>1, <1>2, BecomesLonger

\* The flags a message has.
LEMMA FlagsOf ==
  ASSUME NEW mb \in Sound, NEW i \in DOMAIN mb.messages
  PROVE  /\ mb.messages[i].flags \in SUBSET Flags
         /\ mb.messages[i].raw \in Raws
<1>1. mb.messages[i] \in Message
  BY MailboxParts DEF Sound
<1>2. QED
  BY <1>1 DEF Message

\* What FETCH writes.
LEMMA FetchWrites ==
  ASSUME ImapInv, NEW set, NEW uid, NEW cs, cmd_fetch(set, uid, cs)
  PROVE  /\ SelectedCommand
         /\ \E S, f :
              /\ f \in [DOMAIN mailboxes[Healed].messages -> SUBSET Flags]
              /\ SelectedBecomes([mailboxes EXCEPT ![Healed] = WriteAll(mailboxes[Healed], S, f)], {})
<1> DEFINE mb == mailboxes[Healed]
           S  == {i \in Targets(mb, set, uid) :
                    /\ \A c \in cs : mb.messages[i].modseq > c
                    /\ ~read_only /\ Seen \notin mb.messages[i].flags}
           seen == [i \in DOMAIN mb.messages |-> mb.messages[i].flags \cup {Seen}]
<1>1. SelectedCommand /\ SelectedBecomes([mailboxes EXCEPT ![Healed] = WriteAll(mailboxes[Healed], S, seen)], {})
  BY DEF cmd_fetch
<1>2. mailboxes[Healed] \in Sound
  BY <1>1 DEF SelectedCommand, ImapInv, StoreOk
<1>3. seen \in [DOMAIN mailboxes[Healed].messages -> SUBSET Flags]
  <2>1. Seen \in Flags
    BY SessionAssumption
  <2>2. \A i \in DOMAIN mb.messages : mb.messages[i].flags \in SUBSET Flags
    BY <1>2, FlagsOf
  <2>3. QED
    BY <2>1, <2>2
<1> HIDE DEF S, seen
<1>4. QED
  BY <1>1, <1>3

\* What STORE writes.
LEMMA StoreWrites ==
  ASSUME ImapInv, NEW set, NEW uid, NEW op \in {"Replace", "Add", "Remove"},
         NEW flags \in FlagSets, NEW uc, cmd_store(set, uid, op, flags, uc)
  PROVE  /\ SelectedCommand
         /\ \E S, f :
              /\ f \in [DOMAIN mailboxes[Healed].messages -> SUBSET Flags]
              /\ SelectedBecomes([mailboxes EXCEPT ![Healed] = WriteAll(mailboxes[Healed], S, f)], {})
<1> DEFINE mb == mailboxes[Healed]
           S  == {i \in Targets(mb, set, uid) : \A u \in uc : mb.messages[i].modseq <= u}
           put == [i \in DOMAIN mb.messages |-> apply_store(mb.messages[i].flags, op, flags)]
<1>1. SelectedCommand /\ SelectedBecomes([mailboxes EXCEPT ![Healed] = WriteAll(mailboxes[Healed], S, put)], {})
  BY DEF cmd_store
<1>2. mailboxes[Healed] \in Sound
  BY <1>1 DEF SelectedCommand, ImapInv, StoreOk
<1>3. put \in [DOMAIN mailboxes[Healed].messages -> SUBSET Flags]
  <2>1. flags \in SUBSET Flags
    BY SessionAssumption
  <2>2. \A i \in DOMAIN mb.messages : mb.messages[i].flags \in SUBSET Flags
    BY <1>2, FlagsOf
  <2>3. \A old \in SUBSET Flags : apply_store(old, op, flags) \in SUBSET Flags
    <3>1. CASE op = "Replace"
      BY <2>1, <3>1 DEF apply_store
    <3>2. CASE op = "Add"
      BY <2>1, <3>2 DEF apply_store
    <3>3. CASE op = "Remove"
      BY <2>1, <3>3 DEF apply_store
    <3>4. QED
      BY <3>1, <3>2, <3>3
  <2>4. QED
    BY <2>2, <2>3
<1> HIDE DEF S, put
<1>4. QED
  BY <1>1, <1>3

\* Both keep the invariant.
LEMMA FetchInv ==
  ASSUME ImapInv, NEW set, NEW uid, NEW cs, cmd_fetch(set, uid, cs)
  PROVE  ImapInv'
BY FetchWrites, WriteInv

LEMMA StoreInv ==
  ASSUME ImapInv, NEW set, NEW uid, NEW op \in {"Replace", "Add", "Remove"},
         NEW flags \in FlagSets, NEW uc, cmd_store(set, uid, op, flags, uc)
  PROVE  ImapInv'
BY StoreWrites, WriteInv

\* The destination of COPY and MOVE with the copies in it.
LEMMA CopiedGrows ==
  ASSUME StoreOk, NEW mb \in Sound, NEW S, NEW dest \in DOMAIN mailboxes
  PROVE  Copied(mb, S, dest) \in Longer(mailboxes[dest])
<1> DEFINE l == Len(mb.messages)
           d == mailboxes[dest]
<1>1. l \in Nat /\ DOMAIN mb.messages = 1 .. l /\ d \in Sound
  BY SoundParts DEF StoreOk
<1>2. \A k \in 1 .. l : mb.messages[k].raw \in Raws /\ mb.messages[k].flags \in SUBSET Flags
  BY <1>1, FlagsOf
<1>c. Copyable(mb)
  BY <1>1, <1>2 DEF Copyable
<1>3. PICK g : g \in [0 .. l -> Longer(d)] /\ g[l] = AppendAll(d, mb, S)
  BY <1>1, <1>c, AppendAllRounds DEF Appends
<1>4. l \in 0 .. l
  BY <1>1
<1>5. QED
  BY <1>3, <1>4 DEF Copied

\* All mailboxes with the copies in.
LEMMA CopiedBoxes ==
  ASSUME StoreOk, NEW mb \in Sound, NEW S, NEW dest \in DOMAIN mailboxes, NEW copied,
         copied = [mailboxes EXCEPT ![dest] = Copied(mb, S, dest)]
  PROVE  /\ DOMAIN copied = DOMAIN mailboxes
         /\ \A n \in DOMAIN mailboxes : copied[n] \in Longer(mailboxes[n])
<1>1. DOMAIN copied = DOMAIN mailboxes
  OBVIOUS
<1>2. ASSUME NEW n \in DOMAIN mailboxes PROVE copied[n] \in Longer(mailboxes[n])
  <2>1. mailboxes[n] \in Longer(mailboxes[n])
    BY GrowsItself DEF StoreOk
  <2>2. copied[n] = IF n = dest THEN Copied(mb, S, dest) ELSE mailboxes[n]
    OBVIOUS
  <2>3. QED
    BY <2>1, <2>2, CopiedGrows
<1>3. QED
  BY <1>1, <1>2

\* COPY keeps the invariant.
LEMMA CopyInv ==
  ASSUME ImapInv, NEW set, NEW uid, NEW dest, cmd_copy(set, uid, dest)
  PROVE  ImapInv'
<1> DEFINE mb == mailboxes[Healed]
           S  == Targets(mb, set, uid)
           boxes == [mailboxes EXCEPT ![dest] = Copied(mb, S, dest)]
<1>1. SelectedCommand /\ dest \in DOMAIN mailboxes /\ SelectedBecomes(boxes, {})
  BY DEF cmd_copy
<1>2. mb \in Sound /\ StoreOk
  BY <1>1 DEF SelectedCommand, ImapInv, StoreOk
<1>3. /\ DOMAIN boxes = DOMAIN mailboxes
      /\ \A n \in DOMAIN mailboxes : boxes[n] \in Longer(mailboxes[n])
  <2> HIDE DEF mb, S
  <2>1. QED
    BY <1>1, <1>2, CopiedBoxes
<1> HIDE DEF boxes
<1>4. QED
  BY <1>1, <1>3, BecomesLonger

\* The originals found again by UID are the ones that were copied.
LEMMA FoundAgain ==
  ASSUME NEW mb \in Sound, NEW x \in Longer(mb), NEW moved, moved \subseteq DOMAIN mb.messages
  PROVE  UNION {seq_of_uid(x, mb.messages[i].uid) : i \in moved} = moved
<1>1. ASSUME NEW i \in moved PROVE seq_of_uid(x, mb.messages[i].uid) = {i}
  <2>1. x \in MailboxType /\ UidsAscending(x) /\ KeepsPlaces(mb, x)
    BY DEF Longer, Sound, WellFormed
  <2>2. i \in DOMAIN x.messages /\ x.messages[i].uid = mb.messages[i].uid
    BY <2>1 DEF KeepsPlaces
  <2>3. \A j \in DOMAIN x.messages : x.messages[j].uid = x.messages[i].uid => j = i
    BY <2>1, <2>2, DistinctUids
  <2>4. QED
    BY <2>2, <2>3 DEF seq_of_uid
<1>2. QED
  BY <1>1

\* MOVE in two steps: the copies, and the removal of what was copied.
LEMMA MoveMoves ==
  ASSUME ImapInv, NEW set, NEW uid, NEW dest, cmd_move(set, uid, dest)
  PROVE  \E T, c, b :
           /\ SelectedCommand /\ dest \in DOMAIN mailboxes
           /\ T \subseteq DOMAIN mailboxes[Healed].messages
           /\ c = [mailboxes EXCEPT ![dest] = Copied(mailboxes[Healed], T, dest)]
           /\ DOMAIN c = DOMAIN mailboxes
           /\ \A n \in DOMAIN mailboxes : c[n] \in Longer(mailboxes[n])
           /\ b = [c EXCEPT ![Healed] = RemoveAll(c[Healed], T)]
           /\ SelectedBecomes(b, T)
<1> DEFINE mb     == mailboxes[Healed]
           moved  == Targets(mb, set, uid)
           copied == [mailboxes EXCEPT ![dest] = Copied(mb, moved, dest)]
           S      == UNION {seq_of_uid(copied[Healed], mb.messages[i].uid) : i \in moved}
           boxes  == [copied EXCEPT ![Healed] = RemoveAll(copied[Healed], S)]
<1>1. SelectedCommand /\ dest \in DOMAIN mailboxes /\ SelectedBecomes(boxes, S)
  BY DEF cmd_move
<1>2. Healed \in DOMAIN mailboxes /\ mb \in Sound /\ StoreOk
  BY <1>1 DEF SelectedCommand, ImapInv, StoreOk
<1>3. moved \subseteq DOMAIN mb.messages
  BY DEF Targets, resolve_targets
<1> HIDE DEF moved
<1>4. /\ DOMAIN copied = DOMAIN mailboxes
      /\ \A n \in DOMAIN mailboxes : copied[n] \in Longer(mailboxes[n])
  <2> HIDE DEF mb
  <2>1. QED
    BY <1>1, <1>2, CopiedBoxes
<1>5. PICK c : c = copied
  OBVIOUS
<1>6. PICK T : T = S
  OBVIOUS
<1>7. PICK b : b = boxes
  OBVIOUS
<1>8. T = UNION {seq_of_uid(c[Healed], mb.messages[i].uid) : i \in moved}
  BY <1>5, <1>6
<1>9. b = [c EXCEPT ![Healed] = RemoveAll(c[Healed], T)]
  BY <1>5, <1>6, <1>7
<1>10. SelectedBecomes(b, T)
  BY <1>1, <1>6, <1>7
<1>11. /\ DOMAIN c = DOMAIN mailboxes
       /\ \A n \in DOMAIN mailboxes : c[n] \in Longer(mailboxes[n])
  BY <1>4, <1>5
<1> HIDE DEF copied, S, boxes
<1>12. T = moved
  BY <1>2, <1>3, <1>8, <1>11, FoundAgain
<1>13. T \subseteq DOMAIN mailboxes[Healed].messages
  BY <1>3, <1>12
<1>14. c = [mailboxes EXCEPT ![dest] = Copied(mailboxes[Healed], T, dest)]
  BY <1>5, <1>12 DEF copied
<1>15. QED
  BY <1>1, <1>9, <1>10, <1>11, <1>13, <1>14

\* MOVE keeps the invariant.
LEMMA MoveInv ==
  ASSUME ImapInv, NEW set, NEW uid, NEW dest, cmd_move(set, uid, dest)
  PROVE  ImapInv'
BY MoveMoves, BecomesRemoved

-----------------------------------------------------------------------------
(* What a step takes out of a mailbox.                                     *)

\* RemoveAll takes out the messages at S and no other.
LEMMA RemoveAllKeeps ==
  ASSUME NEW mb \in Sound, NEW S, NEW p \in DOMAIN mb.messages, p \notin S
  PROVE  \E q \in DOMAIN RemoveAll(mb, S).messages : RemoveAll(mb, S).messages[q] = mb.messages[p]
<1> DEFINE n == Len(mb.messages)
<1>1. n \in Nat /\ DOMAIN mb.messages = 1 .. n /\ mb \in MailboxType /\ UidsAscending(mb)
  BY SoundParts DEF WellFormed
<1>r. PICK g : Removes(g, mb, S, n)
  BY RemoveAllRounds
<1>2. /\ g \in [0 .. n -> Later(mb)]
      /\ g[0] = mb
      /\ g[n] = RemoveAll(mb, S)
      /\ \A k \in 1 .. n :
           g[k] = IF n + 1 - k \in S THEN remove_at(g[k - 1], n + 1 - k) ELSE g[k - 1]
  BY <1>r DEF Removes
<1> HIDE DEF n
<1> DEFINE Below(k) == \A j \in 1 .. n - k : j \in DOMAIN g[k].messages /\ g[k].messages[j] = mb.messages[j]
           Kept(k)  == \E q \in DOMAIN g[k].messages : g[k].messages[q] = mb.messages[p]
           Ok(k)    == Below(k) /\ Kept(k)
           T        == {k \in 0 .. n : ~ Ok(k)}
<1>3. Ok(0)
  <2>1. n - 0 = n
    BY <1>1
  <2>2. Below(0)
    BY <1>1, <1>2, <2>1
  <2>3. Kept(0)
    BY <1>2
  <2>4. QED
    BY <2>2, <2>3
<1>4. ASSUME NEW k \in 1 .. n, Ok(k - 1) PROVE Ok(k)
  <2> DEFINE j0 == n + 1 - k
             x  == g[k - 1]
  <2>1. j0 \in 1 .. n /\ j0 \in 1 .. n - (k - 1) /\ k - 1 \in 0 .. n /\ k \in 0 .. n
    BY <1>1
  <2>2. g[k] = IF j0 \in S THEN remove_at(x, j0) ELSE x
    BY <1>2
  <2>3. x \in Sound
    BY <1>2, <2>1 DEF Later
  <2>4. j0 \in DOMAIN x.messages /\ x.messages[j0] = mb.messages[j0]
    BY <1>4, <2>1
  <2>5. PICK q \in DOMAIN x.messages : x.messages[q] = mb.messages[p]
    BY <1>4
  <2>6. \A j \in 1 .. n - k : j \in DOMAIN x.messages /\ x.messages[j] = mb.messages[j] /\ j < j0
    BY <1>1, <1>4
  <2>7. CASE j0 \notin S
    BY <2>2, <2>5, <2>6, <2>7
  <2>8. CASE j0 \in S
    <3>1. PICK y, l : y = g[k] /\ l = Len(x.messages)
      OBVIOUS
    <3>2. /\ l \in Nat /\ DOMAIN x.messages = 1 .. l /\ x \in MailboxType
      BY <2>3, <3>1, SoundParts
    <3>3. y = remove_at(x, j0) /\ j0 \in DOMAIN x.messages
      BY <2>2, <2>4, <2>8, <3>1
    <3> HIDE DEF x, j0
    <3>4. /\ DOMAIN y.messages = 1 .. l - 1
          /\ \A j \in 1 .. l - 1 : y.messages[j] = IF j < j0 THEN x.messages[j] ELSE x.messages[j + 1]
      <4> DEFINE z == remove_at(x, j0)
                 e == Len(x.messages)
      <4>1. /\ DOMAIN z.messages = 1 .. e - 1
            /\ \A j \in 1 .. e - 1 : z.messages[j] = IF j < j0 THEN x.messages[j] ELSE x.messages[j + 1]
        BY <3>2, <3>3, RemoveAtFields
      <4>2. QED
        BY <3>1, <3>3, <4>1
    <3>5. q # j0
      <4>1. SUFFICES ASSUME q = j0 PROVE FALSE
        OBVIOUS
      <4>2. mb.messages[p].uid = mb.messages[j0].uid /\ j0 \in DOMAIN mb.messages
        BY <1>1, <2>1, <2>4, <2>5, <4>1 DEF j0
      <4>3. p = j0
        BY <1>1, <4>2, DistinctUids
      <4>4. QED
        BY <2>8, <4>3
    <3>6. j0 \in 1 .. l /\ q \in 1 .. l
      BY <2>4, <2>5, <3>2
    <3>7. ASSUME NEW j \in 1 .. n - k PROVE j \in DOMAIN y.messages /\ y.messages[j] = mb.messages[j]
      <4>1. j \in 1 .. l - 1 /\ j < j0
        BY <1>1, <2>6, <3>2, <3>6 DEF j0
      <4>2. QED
        BY <2>6, <3>4, <4>1
    <3>8. \E r \in DOMAIN y.messages : y.messages[r] = mb.messages[p]
      <4>1. CASE q < j0
        <5>1. q \in 1 .. l - 1
          BY <3>2, <3>6, <4>1
        <5>2. QED
          BY <2>5, <3>4, <4>1, <5>1
      <4>2. CASE q > j0
        <5>1. q - 1 \in 1 .. l - 1 /\ ~ (q - 1 < j0) /\ (q - 1) + 1 = q
          BY <3>2, <3>6, <4>2
        <5>2. y.messages[q - 1] = x.messages[q]
          BY <3>4, <5>1
        <5>3. QED
          BY <2>5, <3>4, <5>1, <5>2
      <4>3. QED
        BY <3>5, <3>6, <4>1, <4>2
    <3>9. QED
      BY <3>1, <3>7, <3>8
  <2>9. QED
    BY <2>7, <2>8
<1> HIDE DEF Ok
<1>5. ASSUME T # {} PROVE FALSE
  <2>1. T \subseteq Nat
    OBVIOUS
  <2>2. PICK k \in T : \A y \in T : k <= y
    <3> HIDE DEF T
    <3>1. QED
      BY <1>5, <2>1, LeastNatural
  <2>3. k \in 1 .. n /\ k - 1 \in 0 .. n /\ ~ (k <= k - 1)
    BY <1>1, <1>3
  <2>4. QED
    BY <1>4, <2>2, <2>3
<1>6. Ok(n)
  BY <1>1, <1>5
<1>7. QED
  BY <1>2, <1>6 DEF Ok

\* at names, for each message of mb in S, a place of D that holds a copy of it,
\* one that old has not had.
CopiesAt(at, D, old, mb, S) ==
  /\ at \in [S -> DOMAIN D.messages]
  /\ \A i, j \in S : at[i] = at[j] => i = j
  /\ \A i \in S : /\ D.messages[at[i]].uid >= old.uid_next
                  /\ D.messages[at[i]].flags = mb.messages[i].flags
                  /\ D.messages[at[i]].raw = mb.messages[i].raw

\* copy names the place in new of each message of D that at names.
FoundAt(copy, new, D, at, S) ==
  /\ copy \in [S -> DOMAIN new.messages]
  /\ IsInjective(copy)
  /\ \A i \in S : new.messages[copy[i]] = D.messages[at[i]]

\* AppendAll gives each message at S a copy with its flags and body, under a
\* UID of its own that the mailbox has not given before.
LEMMA AppendAllCopies ==
  ASSUME NEW dest \in Sound, NEW mb, NEW S, S \subseteq 1 .. Len(mb.messages), Copyable(mb)
  PROVE  \E at : CopiesAt(at, AppendAll(dest, mb, S), dest, mb, S)
<1> DEFINE n == Len(mb.messages)
<1>1. n \in Nat /\ \A k \in 1 .. n : mb.messages[k].raw \in Raws /\ mb.messages[k].flags \in SUBSET Flags
  BY DEF Copyable
<1>r. PICK g : Appends(g, dest, mb, S, n)
  BY AppendAllRounds
<1>2. /\ g \in [0 .. n -> Longer(dest)]
      /\ g[0] = dest
      /\ g[n] = AppendAll(dest, mb, S)
      /\ \A k \in 1 .. n :
           g[k] = IF k \in S THEN append(g[k - 1], mb.messages[k].raw, mb.messages[k].flags) ELSE g[k - 1]
  BY <1>r DEF Appends
<1>3. S \subseteq 1 .. n
  OBVIOUS
<1> HIDE DEF n
<1> DEFINE at  == [i \in S |-> Len(g[i - 1].messages) + 1]
           Copied1(i, k) ==
             /\ at[i] \in DOMAIN g[k].messages
             /\ g[k].messages[at[i]].uid >= dest.uid_next
             /\ g[k].messages[at[i]].flags = mb.messages[i].flags
             /\ g[k].messages[at[i]].raw = mb.messages[i].raw
           Ok(k) == \A i \in S : i <= k => Copied1(i, k)
           T == {k \in 0 .. n : ~ Ok(k)}
<1>4. \A k \in 0 .. n : /\ g[k] \in Sound /\ Grows(dest, g[k])
                        /\ Len(g[k].messages) \in Nat
                        /\ DOMAIN g[k].messages = 1 .. Len(g[k].messages)
  BY <1>2, SoundParts DEF Longer
<1>5. Ok(0)
  <2>1. \A i \in S : ~ (i <= 0)
    BY <1>1, <1>3
  <2> HIDE DEF Copied1
  <2>2. QED
    BY <2>1
<1>6. ASSUME NEW k \in 1 .. n, Ok(k - 1) PROVE Ok(k)
  <2>1. PICK x, y, l : x = g[k - 1] /\ y = g[k] /\ l = Len(x.messages)
    OBVIOUS
  <2>2. k - 1 \in 0 .. n /\ k \in 0 .. n
    BY <1>1
  <2>3. /\ x \in Sound /\ Grows(dest, x) /\ l \in Nat /\ DOMAIN x.messages = 1 .. l
        /\ x \in MailboxType
    BY <1>4, <2>1, <2>2, SoundParts
  <2>4. CASE k \notin S
    <3>1. y = x
      BY <1>2, <2>1, <2>4
    <3>2. \A i \in S : i <= k => i <= k - 1
      BY <1>1, <1>3, <2>4
    <3>3. QED
      BY <1>6, <2>1, <3>1, <3>2
  <2>5. CASE k \in S
    <3>1. y = append(x, mb.messages[k].raw, mb.messages[k].flags)
      BY <1>2, <2>1, <2>5
    <3>2. PICK raw, flags : raw = mb.messages[k].raw /\ flags = mb.messages[k].flags
      OBVIOUS
    <3>3. /\ DOMAIN y.messages = 1 .. l + 1
          /\ \A i \in 1 .. l : y.messages[i] = x.messages[i]
          /\ y.messages[l + 1] = NewMessage(x.uid_next, flags, x.highest_modseq + 1, raw)
      BY <1>1, <2>1, <2>3, <3>1, <3>2, AppendFields
    <3>4. y.messages[l + 1].uid = x.uid_next /\ y.messages[l + 1].flags = flags /\ y.messages[l + 1].raw = raw
      BY <3>3 DEF NewMessage
    <3>5. x.uid_next >= dest.uid_next
      BY <2>3, SoundParts DEF Grows
    <3>6. at[k] = l + 1 /\ l + 1 \in DOMAIN y.messages
      BY <2>1, <2>3, <2>5, <3>3
    <3>7. Copied1(k, k)
      BY <2>1, <3>2, <3>4, <3>5, <3>6
    <3>8. ASSUME NEW i \in S, i <= k, i # k PROVE Copied1(i, k)
      <4>1. i <= k - 1
        BY <1>1, <1>3, <3>8
      <4>2. Copied1(i, k - 1)
        BY <1>6, <4>1
      <4>3. at[i] \in 1 .. l
        BY <2>1, <2>3, <4>2
      <4>4. at[i] \in DOMAIN y.messages /\ y.messages[at[i]] = x.messages[at[i]]
        BY <2>3, <3>3, <4>3
      <4>5. QED
        BY <2>1, <4>2, <4>4
    <3> HIDE DEF Copied1
    <3>9. QED
      BY <3>7, <3>8
  <2>6. QED
    BY <2>4, <2>5
<1> HIDE DEF Ok
<1>7. ASSUME T # {} PROVE FALSE
  <2>1. T \subseteq Nat
    OBVIOUS
  <2>2. PICK k \in T : \A y \in T : k <= y
    <3> HIDE DEF T
    <3>1. QED
      BY <1>7, <2>1, LeastNatural
  <2>3. k \in 1 .. n /\ k - 1 \in 0 .. n /\ ~ (k <= k - 1)
    BY <1>1, <1>5
  <2>4. QED
    BY <1>6, <2>2, <2>3
<1>8. \A k \in 0 .. n : Ok(k)
  BY <1>7
<1>9. ASSUME NEW i \in S, NEW j \in S, i < j PROVE at[i] # at[j]
  <2>1. j - 1 \in 0 .. n /\ i <= j - 1
    BY <1>1, <1>3, <1>9
  <2>2. at[i] \in DOMAIN g[j - 1].messages
    BY <1>8, <2>1 DEF Ok
  <2>3. at[j] = Len(g[j - 1].messages) + 1
    OBVIOUS
  <2> HIDE DEF at
  <2>4. QED
    BY <1>4, <2>1, <2>2, <2>3
<1>10. n \in 0 .. n /\ \A i \in S : i <= n
  BY <1>1, <1>3
<1>11. \A i \in S : Copied1(i, n)
  BY <1>8, <1>10 DEF Ok
<1>12. at \in [S -> DOMAIN g[n].messages]
  BY <1>11
<1> HIDE DEF at
<1>13. \A i, j \in S : at[i] = at[j] => i = j
  <2>1. ASSUME NEW i \in S, NEW j \in S, at[i] = at[j] PROVE i = j
    <3>1. i < j \/ j < i \/ i = j
      BY <1>1, <1>3
    <3>2. QED
      BY <1>9, <2>1, <3>1
  <2>2. QED
    BY <2>1
<1>14. PICK D : D = AppendAll(dest, mb, S)
  OBVIOUS
<1>15. D = g[n]
  BY <1>2, <1>14
<1>16. \A i \in S : /\ D.messages[at[i]].uid >= dest.uid_next
                    /\ D.messages[at[i]].flags = mb.messages[i].flags
                    /\ D.messages[at[i]].raw = mb.messages[i].raw
  BY <1>11, <1>15
<1>17. at \in [S -> DOMAIN D.messages]
  BY <1>12, <1>15
<1>18. CopiesAt(at, D, dest, mb, S)
  BY <1>13, <1>16, <1>17 DEF CopiesAt
<1>19. QED
  BY <1>14, <1>18

\* No message that is lost has no copy, since none is lost.
LEMMA NoneLost ==
  ASSUME StoreOk, DOMAIN mailboxes' = DOMAIN mailboxes,
         \A n \in DOMAIN mailboxes : /\ mailboxes'[n].gen = mailboxes[n].gen
                                     /\ Lost(mailboxes[n], mailboxes'[n]) = {}
  PROVE  NothingLostStep
<1>1. ASSUME NEW m \in DOMAIN mailboxes, NEW n \in DOMAIN mailboxes', mailboxes[m].gen = mailboxes'[n].gen
      PROVE  Lost(mailboxes[m], mailboxes'[n]) = {}
  <2>1. m = n
    BY <1>1 DEF StoreOk
  <2>2. QED
    BY <2>1
<1>2. QED
  BY <1>1 DEF NothingLostStep

\* What stays in its place is not lost.
LEMMA LongerLoses ==
  ASSUME NEW mb \in Sound, NEW x \in Longer(mb)
  PROVE  x.gen = mb.gen /\ Lost(mb, x) = {}
BY DEF Longer, Grows, KeepsPlaces, Lost, Uids

\* Mailboxes that keep their messages, each in its place.
LEMMA LongerBoxes ==
  ASSUME StoreOk, DOMAIN mailboxes' = DOMAIN mailboxes,
         \A n \in DOMAIN mailboxes : mailboxes'[n] \in Longer(mailboxes[n])
  PROVE  NothingLostStep
<1>1. \A n \in DOMAIN mailboxes : mailboxes[n] \in Sound
  BY DEF StoreOk
<1>2. \A n \in DOMAIN mailboxes : mailboxes'[n].gen = mailboxes[n].gen /\ Lost(mailboxes[n], mailboxes'[n]) = {}
  BY <1>1, LongerLoses
<1>3. QED
  BY <1>2, NoneLost

\* Commands that leave the store alone.
LEMMA SameBoxes ==
  ASSUME StoreOk, UNCHANGED mailboxes
  PROVE  NothingLostStep
<1>1. \A n \in DOMAIN mailboxes : mailboxes[n] \in Longer(mailboxes[n])
  BY GrowsItself DEF StoreOk
<1>2. QED
  BY <1>1, LongerBoxes

\* Removing what is \Deleted loses nothing.
LEMMA DeletedOnly ==
  ASSUME NEW mb \in Sound, NEW S, \A i \in DOMAIN mb.messages : i \in S => Deleted \in mb.messages[i].flags
  PROVE  RemoveAll(mb, S).gen = mb.gen /\ Lost(mb, RemoveAll(mb, S)) = {}
<1>1. PICK new : new = RemoveAll(mb, S)
  OBVIOUS
<1>2. new \in Later(mb)
  BY <1>1, GrowsItself, RemoveAllGrows
<1>3. ASSUME NEW i \in DOMAIN mb.messages, Deleted \notin mb.messages[i].flags
      PROVE  mb.messages[i].uid \in Uids(new)
  <2>1. i \notin S
    BY <1>3
  <2>2. \E q \in DOMAIN new.messages : new.messages[q] = mb.messages[i]
    BY <1>1, <2>1, RemoveAllKeeps
  <2>3. QED
    BY <2>2 DEF Uids
<1>4. QED
  BY <1>1, <1>2, <1>3 DEF Later, Grows, Lost

\* Copies that are found in new wherever their places in it are.
LEMMA CopiesFound ==
  ASSUME NEW D \in Sound, NEW new, NEW lost, NEW at \in [lost -> DOMAIN D.messages],
         \A i, j \in lost : at[i] = at[j] => i = j,
         \A i \in lost : \E q \in DOMAIN new.messages : new.messages[q] = D.messages[at[i]]
  PROVE  \E copy : FoundAt(copy, new, D, at, lost)
<1> DEFINE copy == [i \in lost |-> CHOOSE q \in DOMAIN new.messages : new.messages[q] = D.messages[at[i]]]
<1>1. \A i \in lost : copy[i] \in DOMAIN new.messages /\ new.messages[copy[i]] = D.messages[at[i]]
  OBVIOUS
<1>2. copy \in [lost -> DOMAIN new.messages] /\ DOMAIN copy = lost
  BY <1>1
<1> HIDE DEF copy
<1>3. ASSUME NEW i \in lost, NEW j \in lost, copy[i] = copy[j] PROVE i = j
  <2>1. D.messages[at[i]].uid = D.messages[at[j]].uid
    BY <1>1, <1>3
  <2>2. D \in MailboxType /\ UidsAscending(D) /\ at[i] \in DOMAIN D.messages /\ at[j] \in DOMAIN D.messages
    BY DEF Sound, WellFormed
  <2>3. at[i] = at[j]
    BY <2>1, <2>2, DistinctUids
  <2>4. QED
    BY <2>3
<1>4. IsInjective(copy)
  BY <1>2, <1>3 DEF IsInjective
<1>5. FoundAt(copy, new, D, at, lost)
  BY <1>1, <1>2, <1>4 DEF FoundAt
<1>6. QED
  BY <1>5

-----------------------------------------------------------------------------
(* The invariant.                                                          *)

\* The messages the session starts with are delivered one after the other.
LEMMA SessionInit == Init => ImapInv
<1> SUFFICES ASSUME Init PROVE ImapInv
  OBVIOUS
<1>0. PICK delivered \in Deliveries : mailboxes =
        [n \in {INBOX} |-> AppendAll(NewMailbox(1), [messages |-> delivered], DOMAIN delivered)]
  BY DEF Init
<1> DEFINE box  == NewMailbox(1)
           from == [messages |-> delivered]
           l    == Len(delivered)
           mb   == AppendAll(box, from, DOMAIN delivered)
<1>1. box \in Sound /\ box.gen = 1
  BY NewWellFormed DEF Sound, NewMailbox
<1>2. /\ l \in Nat /\ from.messages = delivered
      /\ \A k \in 1 .. l : delivered[k].raw \in Raws /\ delivered[k].flags \in SUBSET Flags
  <2>1. delivered \in Seq([raw : Raws, flags : SUBSET Flags])
    BY SessionAssumption
  <2>2. l \in Nat /\ \A k \in 1 .. l : delivered[k] \in [raw : Raws, flags : SUBSET Flags]
    BY <2>1, LenProperties, ElementOfSeq
  <2>3. QED
    BY <2>2
<1>3. mb \in Sound /\ mb.gen = 1
  <2>1. Copyable(from) /\ Len(from.messages) \in Nat
    BY <1>2 DEF Copyable
  <2> HIDE DEF from, box
  <2>a. PICK S : S = DOMAIN delivered
    OBVIOUS
  <2>b. PICK g : Appends(g, box, from, S, Len(from.messages))
    BY <1>1, <2>1, AppendAllRounds
  <2>2. /\ g \in [0 .. Len(from.messages) -> Longer(box)]
        /\ g[Len(from.messages)] = AppendAll(box, from, S)
    BY <2>b DEF Appends
  <2>3. Len(from.messages) \in 0 .. Len(from.messages)
    BY <2>1
  <2>4. mb \in Longer(box)
    BY <2>a, <2>2, <2>3
  <2>5. QED
    BY <1>1, <2>4 DEF Longer, Grows
<1>4. mailboxes = [n \in {INBOX} |-> mb]
  BY <1>0
<1> HIDE DEF mb
<1>5. /\ DOMAIN mailboxes = {INBOX} /\ mailboxes[INBOX] = mb
      /\ nextGen = 2 /\ cache.gen = 0 /\ INBOX \in Names
      /\ selected = NoName /\ state = "NotAuthenticated"
      /\ view = [gen |-> 0, uids |-> <<>>] /\ NoName \notin Names
  BY <1>4, SessionAssumption DEF Init, NoCache, NoView
<1>6. StoreOk
  BY <1>3, <1>5 DEF StoreOk
<1>7. SelectedLife /\ ViewOk
  BY <1>5 DEF SelectedLife, ViewOk
<1>8. QED
  BY <1>6, <1>7 DEF ImapInv

\* A new connection to the same store.
LEMMA ReconnectInv == ImapInv /\ Reconnect => ImapInv'
<1> SUFFICES ASSUME ImapInv, Reconnect PROVE ImapInv'
  OBVIOUS
<1>1. /\ UNCHANGED <<mailboxes, nextGen, cache>>
      /\ selected' = NoName /\ state' = "NotAuthenticated" /\ view' = NoView
  BY DEF Reconnect, NewSession, store
<1>2. StoreOk'
  BY <1>1, StoreStays DEF ImapInv
<1>3. QED
  BY <1>1, <1>2, SelectionEnds DEF ImapInv

\* The commands that concern the session alone.
LEMMA SessionCommands ==
  ASSUME ImapInv,
         \/ Noop \/ Logout \/ StartTls \/ cmd_enable \/ cmd_login \/ Idle
         \/ \E step \in Exchanges : cmd_authenticate(step)
         \/ \E key \in SearchKeys : cmd_search(key)
  PROVE  ImapInv'
<1>1. CASE Noop
  <2>1. Keep(HealedState) /\ UNCHANGED store /\ identity' = identity
    BY <1>1 DEF Noop, auth
  <2>2. QED
    BY <2>1, KeepAll
<1>2. CASE Logout
  <2>1. Keep("Logout") /\ UNCHANGED store /\ identity' = identity
    BY <1>2 DEF Logout, auth
  <2>2. QED
    BY <2>1, KeepAll
<1>3. CASE StartTls
  <2>1. Keep(HealedState) /\ UNCHANGED store /\ identity' = identity
    BY <1>3 DEF StartTls
  <2>2. QED
    BY <2>1, KeepAll
<1>4. CASE cmd_enable
  <2>1. Keep(HealedState) /\ UNCHANGED store /\ identity' = identity
    BY <1>4 DEF cmd_enable, auth
  <2>2. QED
    BY <2>1, KeepAll
<1>5. CASE cmd_login
  <2>1. Keep("Authenticated") /\ UNCHANGED store /\ identity' = TRUE
    BY <1>5 DEF cmd_login
  <2>2. QED
    BY <2>1, KeepAll
<1>6. CASE Idle
  <2>1. Keep(HealedState) /\ UNCHANGED store /\ identity' = identity
    BY <1>6 DEF Idle, auth
  <2>2. QED
    BY <2>1, KeepAll
<1>7. ASSUME NEW step \in Exchanges, cmd_authenticate(step) PROVE ImapInv'
  <2>1. Keep(HealedState) /\ UNCHANGED store /\ identity' = identity
    BY <1>7 DEF cmd_authenticate
  <2>2. QED
    BY <2>1, KeepAll
<1>8. ASSUME NEW key \in SearchKeys, cmd_search(key) PROVE ImapInv'
  <2>1. Keep(HealedState) /\ UNCHANGED store /\ identity' = identity
    BY <1>8 DEF cmd_search, auth
  <2>2. QED
    BY <2>1, KeepAll
<1>9. QED
  BY <1>1, <1>2, <1>3, <1>4, <1>5, <1>6, <1>7, <1>8

\* The lines that pass dispatch by, and steps that change none of this.
LEMMA LinesInv ==
  ASSUME ImapInv, Done \/ (\E verified \in BOOLEAN : continue_sasl(verified)) \/ UNCHANGED vars
  PROVE  ImapInv'
<1>1. /\ UNCHANGED <<mailboxes, nextGen, cache, selected, selGen, view>>
      /\ state' = state \/ state' = "Authenticated"
      /\ identity' = identity \/ identity' = TRUE
  <2>1. CASE Done
    BY <2>1 DEF Done, store, auth, client
  <2>2. ASSUME NEW verified \in BOOLEAN, continue_sasl(verified)
        PROVE  /\ UNCHANGED <<mailboxes, nextGen, cache, selected, selGen, view>>
               /\ state' = state \/ state' = "Authenticated"
               /\ identity' = identity \/ identity' = TRUE
    BY <2>2 DEF continue_sasl, store, client
  <2>3. CASE UNCHANGED vars
    BY <2>3 DEF vars, store, auth, client
  <2>4. QED
    BY <2>1, <2>2, <2>3
<1>2. StoreOk /\ SelectedLife /\ ViewOk /\ StoreOk'
  BY <1>1, StoreStays DEF ImapInv
<1>3. selected \in DOMAIN mailboxes' =>
        selected \in DOMAIN mailboxes /\ mailboxes'[selected] \in Longer(mailboxes[selected])
  BY <1>1, <1>2, GrowsItself DEF StoreOk
<1>4. state' = "Selected" => state = "Selected"
  BY <1>1
<1>5. QED
  BY <1>1, <1>2, <1>3, <1>4, SelectionStays DEF ImapInv

\* Every step keeps the invariant.
LEMMA SessionStep == ImapInv /\ [Next]_vars => ImapInv'
<1> SUFFICES ASSUME ImapInv, [Next]_vars PROVE ImapInv'
  OBVIOUS
<1>1. CASE UNCHANGED vars
  BY <1>1, LinesInv
<1>2. CASE Reconnect
  BY <1>2, ReconnectInv
<1>3. CASE \E n \in Names, raw \in Raws : NodeDeliver(n, raw)
  BY <1>3, DeliverInv
<1>4. CASE Noop \/ Logout \/ StartTls \/ cmd_enable \/ cmd_login \/ ("Idle" \in Exchanges /\ Idle)
  BY <1>4, SessionCommands
<1>5. CASE Done \/ \E verified \in BOOLEAN : continue_sasl(verified)
  BY <1>5, LinesInv
<1>6. CASE \E step \in Exchanges \ {"Idle"} : cmd_authenticate(step)
  BY <1>6, SessionCommands
<1>7. CASE \E n \in Names, ro, resync \in BOOLEAN : cmd_select(n, ro, resync)
  BY <1>7, SelectInv
<1>8. CASE \E n \in Names : cmd_create(n) \/ Delete(n)
  BY <1>8, CreateInv, DeleteInv
<1>9. CASE \E from, to \in Names : Rename(from, to)
  BY <1>9, RenameInv
<1>10. CASE \E n \in Names, raw \in Raws, flags \in FlagSets : cmd_append(n, raw, flags)
  BY <1>10, AppendInv
<1>11. CASE \E expunge \in BOOLEAN : cmd_close(expunge)
  BY <1>11, CloseInv
<1>12. CASE \E set \in SequenceSets \cup {Everything} : cmd_expunge(set)
  BY <1>12, ExpungeInv
<1>13. CASE \E key \in SearchKeys : cmd_search(key)
  BY <1>13, SessionCommands
<1>14. CASE \E set \in SequenceSets, uid \in BOOLEAN :
              \/ \E cs \in OptModSeq : cmd_fetch(set, uid, cs)
              \/ \E op \in {"Replace", "Add", "Remove"}, flags \in FlagSets, uc \in OptModSeq :
                   cmd_store(set, uid, op, flags, uc)
              \/ \E dest \in Names : cmd_copy(set, uid, dest) \/ cmd_move(set, uid, dest)
  <2>1. PICK set \in SequenceSets, uid \in BOOLEAN :
              \/ \E cs \in OptModSeq : cmd_fetch(set, uid, cs)
              \/ \E op \in {"Replace", "Add", "Remove"}, flags \in FlagSets, uc \in OptModSeq :
                   cmd_store(set, uid, op, flags, uc)
              \/ \E dest \in Names : cmd_copy(set, uid, dest) \/ cmd_move(set, uid, dest)
    BY <1>14
  <2>2. CASE \E cs \in OptModSeq : cmd_fetch(set, uid, cs)
    BY <2>2, FetchInv
  <2>3. CASE \E op \in {"Replace", "Add", "Remove"}, flags \in FlagSets, uc \in OptModSeq :
               cmd_store(set, uid, op, flags, uc)
    BY <2>3, StoreInv
  <2>4. CASE \E dest \in Names : cmd_copy(set, uid, dest) \/ cmd_move(set, uid, dest)
    BY <2>4, CopyInv, MoveInv
  <2>5. QED
    BY <2>1, <2>2, <2>3, <2>4
<1>15. QED
  BY <1>1, <1>2, <1>3, <1>4, <1>5, <1>6, <1>7, <1>8, <1>9, <1>10, <1>11, <1>12, <1>13, <1>14, Zenon
     DEF Next

\* For any mailboxes, messages and commands: the mailboxes of a session stay in
\* order, each in a life of its own, and a client that left one can catch up.
THEOREM ImapInvariance == Spec => []ImapInv
<1>1. Init => ImapInv
  BY SessionInit
<1>2. ImapInv /\ [Next]_vars => ImapInv'
  BY SessionStep
<1>3. QED
  BY <1>1, <1>2, PTL DEF Spec

\* The selected name means the mailbox that was selected, after any DELETE,
\* RENAME and CREATE of any names, and is selected only after a login.
THEOREM SelectionSafe == Spec => []SelectedLife
<1>1. ImapInv => SelectedLife
  BY DEF ImapInv
<1>2. QED
  BY <1>1, ImapInvariance, PTL

\* The client's numbers are the server's, from the EXPUNGE and VANISHED replies
\* to any commands, and after a QRESYNC however long the client was away.
THEOREM NumbersAgree == Spec => []SeqAligned
<1>1. ImapInv => SeqAligned
  <2> SUFFICES ASSUME ImapInv, selected \in DOMAIN mailboxes, view.gen = mailboxes[selected].gen
               PROVE  IsPrefix(view.uids, UidList(mailboxes[selected]))
    BY DEF SeqAligned
  <2>1. mailboxes[selected] \in Sound /\ Aligned(view.uids, mailboxes[selected])
    BY DEF ImapInv, StoreOk, ViewOk
  <2>2. QED
    BY <2>1, AlignedPrefix
<1>2. QED
  BY <1>1, ImapInvariance, PTL
-----------------------------------------------------------------------------
(* No message is lost.                                                     *)

\* APPEND and a delivery.
LEMMA AppendLoses ==
  ASSUME StoreOk, NEW n \in DOMAIN mailboxes, NEW raw \in Raws, NEW flags \in SUBSET Flags,
         Change([mailboxes EXCEPT ![n] = append(@, raw, flags)]), UNCHANGED cache
  PROVE  NothingLostStep
BY AppendStore, LongerBoxes

\* CREATE, DELETE and RENAME leave every life that goes on as it was.
LEMMA NamesLose ==
  ASSUME StoreOk, NEW n \in Names, NEW to \in Names, cmd_create(n) \/ Delete(n) \/ Rename(n, to)
  PROVE  NothingLostStep
<1>1. ASSUME NEW k \in DOMAIN mailboxes', NEW m \in DOMAIN mailboxes, mailboxes[m].gen = mailboxes'[k].gen
      PROVE  mailboxes'[k] = mailboxes[m]
  <2>1. CASE cmd_create(n)
    <3>1. mailboxes' = [x \in DOMAIN mailboxes \cup {n} |-> IF x = n THEN NewMailbox(nextGen) ELSE mailboxes[x]]
      BY <2>1 DEF cmd_create
    <3>2. NewMailbox(nextGen).gen = nextGen
      BY DEF NewMailbox
    <3>3. mailboxes[m].gen < nextGen /\ nextGen \in Nat /\ mailboxes[m].gen \in Nat
      BY SoundParts DEF StoreOk
    <3>4. k # n
      BY <1>1, <3>1, <3>2, <3>3
    <3>5. k \in DOMAIN mailboxes /\ mailboxes'[k] = mailboxes[k]
      BY <3>1, <3>4
    <3>6. QED
      BY <1>1, <3>5 DEF StoreOk
  <2>2. CASE Delete(n)
    <3>1. k \in DOMAIN mailboxes /\ mailboxes'[k] = mailboxes[k]
      BY <2>2 DEF Delete
    <3>2. QED
      BY <1>1, <3>1 DEF StoreOk
  <2>3. CASE Rename(n, to)
    <3>1. \E x \in DOMAIN mailboxes : mailboxes'[k] = mailboxes[x]
      BY <2>3 DEF Rename
    <3>2. QED
      BY <1>1, <3>1 DEF StoreOk
  <2>4. QED
    BY <2>1, <2>2, <2>3
<1>2. \A m \in DOMAIN mailboxes : Lost(mailboxes[m], mailboxes[m]) = {}
  BY DEF Lost, Uids
<1>3. QED
  BY <1>1, <1>2 DEF NothingLostStep

\* CLOSE takes out what is \Deleted.
LEMMA CloseLoses ==
  ASSUME StoreOk, NEW expunge, cmd_close(expunge)
  PROVE  NothingLostStep
<1> DEFINE mb == mailboxes[Healed]
           S  == {i \in DOMAIN mb.messages : Deleted \in mb.messages[i].flags}
<1>1. CASE expunge /\ ~ read_only /\ Healed \in DOMAIN mailboxes
  <2>1. mailboxes' = [mailboxes EXCEPT ![Healed] = RemoveAll(mb, S)]
    BY <1>1 DEF cmd_close, Change
  <2>2. mb \in Sound
    BY <1>1 DEF StoreOk
  <2>3. \A i \in DOMAIN mb.messages : i \in S => Deleted \in mb.messages[i].flags
    OBVIOUS
  <2> HIDE DEF S
  <2>4. RemoveAll(mb, S).gen = mb.gen /\ Lost(mb, RemoveAll(mb, S)) = {}
    BY <2>2, <2>3, DeletedOnly
  <2>5. \A n \in DOMAIN mailboxes : Lost(mailboxes[n], mailboxes[n]) = {}
    BY DEF Lost, Uids
  <2>6. QED
    BY <2>1, <2>4, <2>5, NoneLost
<1>2. CASE ~ (expunge /\ ~ read_only /\ Healed \in DOMAIN mailboxes)
  <2>1. UNCHANGED mailboxes
    BY <1>2 DEF cmd_close, Change
  <2>2. QED
    BY <2>1, SameBoxes
<1>3. QED
  BY <1>1, <1>2

\* So do EXPUNGE and UID EXPUNGE.
LEMMA ExpungeLoses ==
  ASSUME ImapInv, NEW set, cmd_expunge(set)
  PROVE  NothingLostStep
<1> DEFINE mb == mailboxes[Healed]
           S  == {i \in DOMAIN mb.messages :
                    /\ Deleted \in mb.messages[i].flags
                    /\ contains(materialize(mb, set, TRUE), mb.messages[i].uid, max_uid(mb))}
<1>1. /\ StoreOk /\ Healed \in DOMAIN mailboxes
      /\ mailboxes' = [mailboxes EXCEPT ![Healed] = RemoveAll(mb, S)]
  BY DEF ImapInv, cmd_expunge, SelectedCommand, SelectedBecomes, Change
<1>2. mb \in Sound
  BY <1>1 DEF StoreOk
<1>3. \A i \in DOMAIN mb.messages : i \in S => Deleted \in mb.messages[i].flags
  OBVIOUS
<1> HIDE DEF S
<1>4. RemoveAll(mb, S).gen = mb.gen /\ Lost(mb, RemoveAll(mb, S)) = {}
  BY <1>2, <1>3, DeletedOnly
<1>5. \A n \in DOMAIN mailboxes : Lost(mailboxes[n], mailboxes[n]) = {}
  BY DEF Lost, Uids
<1>6. QED
  BY <1>1, <1>4, <1>5, NoneLost

\* FETCH and STORE rewrite messages in their places.
LEMMA WriteLoses ==
  ASSUME StoreOk, NEW S, NEW f \in [DOMAIN mailboxes[Healed].messages -> SUBSET Flags],
         SelectedBecomes([mailboxes EXCEPT ![Healed] = WriteAll(mailboxes[Healed], S, f)], {})
  PROVE  NothingLostStep
<1>1. mailboxes' = [mailboxes EXCEPT ![Healed] = WriteAll(mailboxes[Healed], S, f)]
  BY DEF SelectedBecomes, Change
<1>2. DOMAIN mailboxes' = DOMAIN mailboxes /\ \A n \in DOMAIN mailboxes : mailboxes'[n] \in Longer(mailboxes[n])
  BY <1>1, WriteBoxes
<1>3. QED
  BY <1>2, LongerBoxes

\* COPY adds messages.
LEMMA CopyLoses ==
  ASSUME ImapInv, NEW set, NEW uid, NEW dest, cmd_copy(set, uid, dest)
  PROVE  NothingLostStep
<1> DEFINE mb == mailboxes[Healed]
           S  == Targets(mb, set, uid)
<1>1. /\ StoreOk /\ Healed \in DOMAIN mailboxes /\ dest \in DOMAIN mailboxes
      /\ mailboxes' = [mailboxes EXCEPT ![dest] = Copied(mb, S, dest)]
  BY DEF ImapInv, cmd_copy, SelectedCommand, SelectedBecomes, Change
<1>2. mb \in Sound
  BY <1>1 DEF StoreOk
<1> HIDE DEF mb, S
<1>3. DOMAIN mailboxes' = DOMAIN mailboxes /\ \A n \in DOMAIN mailboxes : mailboxes'[n] \in Longer(mailboxes[n])
  BY <1>1, <1>2, CopiedBoxes
<1>4. QED
  BY <1>1, <1>3, LongerBoxes

\* MOVE takes out what it has copied; a copy is found in its destination also
\* if that is the mailbox itself.
LEMMA MoveLoses ==
  ASSUME ImapInv, NEW set, NEW uid, NEW dest, cmd_move(set, uid, dest)
  PROVE  NothingLostStep
<1>1. PICK T, c, b :
        /\ SelectedCommand /\ dest \in DOMAIN mailboxes
        /\ T \subseteq DOMAIN mailboxes[Healed].messages
        /\ c = [mailboxes EXCEPT ![dest] = Copied(mailboxes[Healed], T, dest)]
        /\ DOMAIN c = DOMAIN mailboxes
        /\ \A n \in DOMAIN mailboxes : c[n] \in Longer(mailboxes[n])
        /\ b = [c EXCEPT ![Healed] = RemoveAll(c[Healed], T)]
        /\ SelectedBecomes(b, T)
  BY MoveMoves
<1>2. PICK h : h = Healed
  OBVIOUS
<1>3. PICK mb, x, new, old, D : mb = mailboxes[h] /\ x = c[h] /\ new = RemoveAll(x, T) /\ old = mailboxes[dest] /\ D = c[dest]
  OBVIOUS
<1>4. /\ StoreOk /\ h \in DOMAIN mailboxes /\ mailboxes' = b
      /\ mb \in Sound /\ old \in Sound
  BY <1>1, <1>2, <1>3 DEF ImapInv, SelectedCommand, SelectedBecomes, Change, StoreOk
<1>5. /\ DOMAIN b = DOMAIN mailboxes
      /\ b[h] = new
      /\ \A n \in DOMAIN mailboxes : n # h => b[n] = c[n]
  BY <1>1, <1>2, <1>3, <1>4
<1>6. /\ T \subseteq DOMAIN mb.messages
      /\ x \in Longer(mb) /\ x \in Sound /\ KeepsPlaces(mb, x)
      /\ D \in Longer(old) /\ D \in Sound
  BY <1>1, <1>2, <1>3, <1>4 DEF Longer
<1>7. new \in Later(mb)
  BY <1>3, <1>4, <1>6, RemoveAllGrows
<1>8. \A n \in DOMAIN mailboxes : b[n].gen = mailboxes[n].gen
  <2>1. \A n \in DOMAIN mailboxes : c[n].gen = mailboxes[n].gen
    BY <1>1 DEF Longer, Grows
  <2>2. b[h].gen = mailboxes[h].gen
    BY <1>3, <1>5, <1>7 DEF Later, Grows
  <2>3. QED
    BY <1>5, <2>1, <2>2
<1>9. \A n \in DOMAIN mailboxes : n # h => Lost(mailboxes[n], b[n]) = {}
  <2>1. \A n \in DOMAIN mailboxes : mailboxes[n] \in Sound
    BY <1>4 DEF StoreOk
  <2>2. QED
    BY <1>1, <1>5, <2>1, LongerLoses
<1> DEFINE lost == Lost(mb, new)
<1>10. lost \subseteq T
  <2>1. SUFFICES ASSUME NEW i \in DOMAIN mb.messages, i \notin T PROVE mb.messages[i].uid \in Uids(new)
    BY DEF Lost
  <2>2. i \in DOMAIN x.messages /\ x.messages[i].uid = mb.messages[i].uid
    BY <1>6 DEF KeepsPlaces
  <2>3. \E q \in DOMAIN new.messages : new.messages[q] = x.messages[i]
    BY <1>3, <1>6, <2>1, <2>2, RemoveAllKeeps
  <2>4. QED
    BY <2>2, <2>3 DEF Uids
<1>a. PICK at : CopiesAt(at, D, old, mb, T)
  <2>1. /\ Len(mb.messages) \in Nat /\ DOMAIN mb.messages = 1 .. Len(mb.messages)
    BY <1>4, SoundParts
  <2>2. Copyable(mb)
    BY <1>4, <2>1, FlagsOf DEF Copyable
  <2>3. T \subseteq 1 .. Len(mb.messages)
    BY <1>6, <2>1
  <2>4. D = AppendAll(old, mb, T)
    BY <1>1, <1>2, <1>3 DEF Copied
  <2>5. QED
    BY <1>4, <2>2, <2>3, <2>4, AppendAllCopies
<1>11. /\ at \in [T -> DOMAIN D.messages]
       /\ \A i, j \in T : at[i] = at[j] => i = j
       /\ \A i \in T : /\ D.messages[at[i]].uid >= old.uid_next
                       /\ D.messages[at[i]].flags = mb.messages[i].flags
                       /\ D.messages[at[i]].raw = mb.messages[i].raw
  BY <1>a DEF CopiesAt
<1>12. ASSUME NEW i \in T
       PROVE  \E q \in DOMAIN b[dest].messages : b[dest].messages[q] = D.messages[at[i]]
  <2>1. at[i] \in DOMAIN D.messages
    BY <1>11
  <2>2. CASE dest # h
    <3>1. b[dest] = D
      BY <1>1, <1>3, <1>5, <2>2
    <3>2. QED
      BY <2>1, <3>1
  <2>3. CASE dest = h
    <3>1. D = x /\ old = mb /\ b[dest] = new
      BY <1>3, <1>5, <2>3
    <3>2. at[i] \notin T
      <4>1. SUFFICES ASSUME at[i] \in T PROVE FALSE
        OBVIOUS
      <4>2. at[i] \in DOMAIN mb.messages /\ x.messages[at[i]].uid = mb.messages[at[i]].uid
        BY <1>6, <4>1 DEF KeepsPlaces
      <4>3. /\ mb.messages[at[i]].uid \in Uids(mb)
            /\ mb.messages[at[i]].uid \in Nat /\ mb.uid_next \in Nat
            /\ mb.messages[at[i]].uid < mb.uid_next
        BY <1>4, <4>2, SoundParts
      <4>4. mb.messages[at[i]].uid >= mb.uid_next
        BY <1>11, <3>1, <4>2
      <4>5. QED
        BY <4>3, <4>4
    <3>3. QED
      BY <1>3, <1>6, <2>1, <3>1, <3>2, RemoveAllKeeps
  <2>4. QED
    BY <2>2, <2>3
<1>f. PICK place : FoundAt(place, b[dest], D, at, T)
  BY <1>6, <1>11, <1>12, CopiesFound
<1>13. /\ place \in [T -> DOMAIN b[dest].messages]
       /\ IsInjective(place)
       /\ \A i \in T : b[dest].messages[place[i]] = D.messages[at[i]]
  BY <1>f DEF FoundAt
<1> DEFINE copy == [i \in lost |-> place[i]]
<1>14. copy \in Injection(lost, Arrived(old, b[dest]))
  <2>1. \A i \in lost : i \in T /\ copy[i] = place[i]
    BY <1>10
  <2>2. \A i \in lost : copy[i] \in Arrived(old, b[dest])
    BY <1>11, <1>13, <2>1 DEF Arrived
  <2>3. copy \in [lost -> Arrived(old, b[dest])]
    BY <2>2
  <2>4. DOMAIN copy = lost /\ DOMAIN place = T
    BY <1>13
  <2>5. IsInjective(copy)
    <3> HIDE DEF copy, lost
    <3>1. QED
      BY <1>13, <2>1, <2>4 DEF IsInjective
  <2>6. QED
    BY <2>3, <2>5 DEF Injection
<1>15. \A i \in lost : /\ b[dest].messages[copy[i]].flags = mb.messages[i].flags
                       /\ b[dest].messages[copy[i]].raw = mb.messages[i].raw
  BY <1>10, <1>11, <1>13
<1> HIDE DEF copy, lost
<1>16. ASSUME NEW m \in DOMAIN mailboxes, NEW n \in DOMAIN mailboxes', mailboxes[m].gen = mailboxes'[n].gen,
              Lost(mailboxes[m], mailboxes'[n]) # {}
       PROVE  \E k \in DOMAIN mailboxes \cap DOMAIN mailboxes' :
                \E cp \in Injection(Lost(mailboxes[m], mailboxes'[n]), Arrived(mailboxes[k], mailboxes'[k])) :
                  \A i \in Lost(mailboxes[m], mailboxes'[n]) :
                    /\ mailboxes'[k].messages[cp[i]].flags = mailboxes[m].messages[i].flags
                    /\ mailboxes'[k].messages[cp[i]].raw = mailboxes[m].messages[i].raw
  <2>1. m = n
    BY <1>4, <1>5, <1>8, <1>16 DEF StoreOk
  <2>2. m = h
    BY <1>4, <1>9, <1>16, <2>1
  <2>3. Lost(mailboxes[m], mailboxes'[n]) = lost /\ mailboxes[m] = mb
    BY <1>3, <1>4, <1>5, <2>1, <2>2 DEF lost
  <2>4. dest \in DOMAIN mailboxes \cap DOMAIN mailboxes' /\ mailboxes'[dest] = b[dest] /\ mailboxes[dest] = old
    BY <1>1, <1>3, <1>4, <1>5
  <2>5. QED
    BY <1>14, <1>15, <2>3, <2>4
<1>17. QED
  BY <1>16 DEF NothingLostStep

\* Every command, delivery and connection.
LEMMA LossStep == ImapInv /\ Next => NothingLostStep
<1> SUFFICES ASSUME ImapInv, Next PROVE NothingLostStep
  OBVIOUS
<1>0. StoreOk
  BY DEF ImapInv
<1>1. CASE Reconnect
  BY <1>0, <1>1, SameBoxes DEF Reconnect, store
<1>2. CASE \E n \in Names, raw \in Raws : NodeDeliver(n, raw)
  <2>1. {Recent} \in SUBSET Flags
    BY SessionAssumption
  <2>2. QED
    BY <1>0, <1>2, <2>1, AppendLoses DEF NodeDeliver, client
<1>3. CASE Noop \/ Logout \/ StartTls \/ cmd_enable \/ cmd_login \/ ("Idle" \in Exchanges /\ Idle) \/ Done
  BY <1>0, <1>3, SameBoxes DEF Noop, Logout, StartTls, cmd_enable, cmd_login, Idle, Done, store
<1>4. CASE \/ \E step \in Exchanges \ {"Idle"} : cmd_authenticate(step)
           \/ \E verified \in BOOLEAN : continue_sasl(verified)
           \/ \E n \in Names, ro, resync \in BOOLEAN : cmd_select(n, ro, resync)
           \/ \E key \in SearchKeys : cmd_search(key)
  BY <1>0, <1>4, SameBoxes DEF cmd_authenticate, continue_sasl, cmd_select, cmd_search, store
<1>5. CASE \/ \E n \in Names : cmd_create(n) \/ Delete(n)
           \/ \E from, to \in Names : Rename(from, to)
  BY <1>0, <1>5, NamesLose
<1>6. CASE \E n \in Names, raw \in Raws, flags \in FlagSets : cmd_append(n, raw, flags)
  <2>1. FlagSets \subseteq SUBSET Flags
    BY SessionAssumption
  <2>2. QED
    BY <1>0, <1>6, <2>1, AppendLoses DEF cmd_append, StoreCommand, Keep
<1>7. CASE \E expunge \in BOOLEAN : cmd_close(expunge)
  BY <1>0, <1>7, CloseLoses
<1>8. CASE \E set \in SequenceSets \cup {Everything} : cmd_expunge(set)
  BY <1>8, ExpungeLoses
<1>9. ASSUME NEW set \in SequenceSets, NEW uid \in BOOLEAN, NEW cs \in OptModSeq, cmd_fetch(set, uid, cs)
      PROVE  NothingLostStep
  BY <1>0, <1>9, FetchWrites, WriteLoses
<1>10. ASSUME NEW set \in SequenceSets, NEW uid \in BOOLEAN, NEW op \in {"Replace", "Add", "Remove"},
              NEW flags \in FlagSets, NEW uc \in OptModSeq, cmd_store(set, uid, op, flags, uc)
       PROVE  NothingLostStep
  BY <1>0, <1>10, StoreWrites, WriteLoses
<1>11. ASSUME NEW set \in SequenceSets, NEW uid \in BOOLEAN, NEW dest \in Names,
              cmd_copy(set, uid, dest) \/ cmd_move(set, uid, dest)
       PROVE  NothingLostStep
  BY <1>11, CopyLoses, MoveLoses
<1>12. QED
  BY <1>1, <1>2, <1>3, <1>4, <1>5, <1>6, <1>7, <1>8, <1>9, <1>10, <1>11, Zenon DEF Next

\* Whatever commands are given in whatever order, a message that is not
\* \Deleted leaves its mailbox only by MOVE, which has put a copy of it, flags
\* and body, into the destination, or with the mailbox.
THEOREM NothingIsLost == Spec => NothingLost
<1>1. ImapInv /\ [Next]_vars => [NothingLostStep]_vars
  BY LossStep
<1>2. QED
  BY <1>1, ImapInvariance, PTL DEF Spec, NothingLost
===============================================================================
