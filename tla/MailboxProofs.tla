---------------------------- MODULE MailboxProofs ----------------------------
(***************************************************************************)
(* Lemmas about the operations on one mailbox: what each returns, and that *)
(* each keeps a mailbox well formed.  Every theorem about a component that *)
(* owns mailboxes rests on them.                                           *)
(***************************************************************************)
EXTENDS Mailbox, SequenceTheorems, TLAPS

-----------------------------------------------------------------------------
(* The operations of Mailbox, one field at a time.                         *)

\* What append returns: the old messages, then one more.
LEMMA AppendFields ==
  ASSUME NEW mb \in MailboxType, NEW raw \in Raws, NEW flags \in SUBSET Flags
  PROVE  LET new == append(mb, raw, flags)
             ms  == mb.highest_modseq + 1
         IN  /\ new \in MailboxType
             /\ new.gen = mb.gen
             /\ new.uid_next = mb.uid_next + 1
             /\ new.highest_modseq = ms
             /\ new.expunged = mb.expunged
             /\ DOMAIN new.messages = 1 .. Len(mb.messages) + 1
             /\ \A i \in 1 .. Len(mb.messages) : new.messages[i] = mb.messages[i]
             /\ new.messages[Len(mb.messages) + 1] =
                  NewMessage(mb.uid_next, flags, ms, raw)
<1> DEFINE new == append(mb, raw, flags)
           ms  == mb.highest_modseq + 1
           msg == NewMessage(mb.uid_next, flags, ms, raw)
<1>1. msg \in Message
  BY DEF NewMessage, Message, MailboxType
<1>2. mb.messages \in Seq(Message)
  BY DEF MailboxType
<1>3. /\ Append(mb.messages, msg) \in Seq(Message)
      /\ DOMAIN Append(mb.messages, msg) = 1 .. Len(mb.messages) + 1
      /\ \A i \in 1 .. Len(mb.messages) : Append(mb.messages, msg)[i] = mb.messages[i]
      /\ Append(mb.messages, msg)[Len(mb.messages) + 1] = msg
  BY <1>1, <1>2, LenProperties
<1>4. new = [gen |-> mb.gen, uid_validity |-> mb.uid_validity,
             uid_next |-> mb.uid_next + 1, highest_modseq |-> ms,
             messages |-> Append(mb.messages, msg), expunged |-> mb.expunged]
  <2>1. new = [mb EXCEPT !.uid_next = mb.uid_next + 1, !.highest_modseq = ms,
                         !.messages = Append(mb.messages, msg)]
    BY DEF append
  <2>2. QED
    BY <2>1 DEF MailboxType
<1>5. new \in MailboxType
  BY <1>3, <1>4 DEF MailboxType
<1>6. QED
  BY <1>3, <1>4, <1>5

\* What write_flags returns: one message rewritten and stamped.
LEMMA WriteFlagsFields ==
  ASSUME NEW mb \in MailboxType, NEW i \in DOMAIN mb.messages,
         NEW flags \in SUBSET Flags
  PROVE  LET new == write_flags(mb, i, flags)
             ms  == mb.highest_modseq + 1
         IN  /\ new \in MailboxType
             /\ new.gen = mb.gen
             /\ new.uid_next = mb.uid_next
             /\ new.highest_modseq = ms
             /\ new.expunged = mb.expunged
             /\ DOMAIN new.messages = DOMAIN mb.messages
             /\ \A j \in DOMAIN mb.messages : j # i => new.messages[j] = mb.messages[j]
             /\ new.messages[i].uid = mb.messages[i].uid
             /\ new.messages[i].raw = mb.messages[i].raw
             /\ new.messages[i].created_modseq = mb.messages[i].created_modseq
             /\ new.messages[i].modseq = ms
             /\ new.messages[i].flags = flags
<1> DEFINE new == write_flags(mb, i, flags)
           ms  == mb.highest_modseq + 1
           msg == [mb.messages[i] EXCEPT !.flags = flags, !.modseq = ms]
<1>1. /\ mb.messages \in Seq(Message)
      /\ i \in 1 .. Len(mb.messages)
  BY LenProperties DEF MailboxType
<1>2. msg \in Message
  <2>1. mb.messages[i] \in Message
    BY <1>1, ElementOfSeq
  <2>2. ms \in Nat
    BY DEF MailboxType
  <2>3. QED
    BY <2>1, <2>2 DEF Message
<1>f. /\ msg.uid = mb.messages[i].uid
      /\ msg.raw = mb.messages[i].raw
      /\ msg.created_modseq = mb.messages[i].created_modseq
      /\ msg.modseq = ms
      /\ msg.flags = flags
  <2>1. mb.messages[i] \in Message
    BY <1>1, ElementOfSeq
  <2>2. QED
    BY <2>1 DEF Message
<1>3. /\ [mb.messages EXCEPT ![i] = msg] \in Seq(Message)
      /\ DOMAIN [mb.messages EXCEPT ![i] = msg] = DOMAIN mb.messages
      /\ \A j \in DOMAIN mb.messages :
           [mb.messages EXCEPT ![i] = msg][j] = IF j = i THEN msg ELSE mb.messages[j]
  BY <1>1, <1>2, ExceptSeq, LenProperties
<1>4. new = [gen |-> mb.gen, uid_validity |-> mb.uid_validity,
             uid_next |-> mb.uid_next, highest_modseq |-> ms,
             messages |-> [mb.messages EXCEPT ![i] = msg], expunged |-> mb.expunged]
  <2>1. new = [mb EXCEPT !.highest_modseq = ms,
                         !.messages = [mb.messages EXCEPT ![i] = msg]]
    BY DEF write_flags, MailboxType
  <2>2. QED
    BY <2>1 DEF MailboxType
<1>5. new \in MailboxType
  BY <1>3, <1>4 DEF MailboxType
<1>6. /\ new.messages = [mb.messages EXCEPT ![i] = msg]
      /\ new.gen = mb.gen
      /\ new.uid_next = mb.uid_next
      /\ new.highest_modseq = ms
      /\ new.expunged = mb.expunged
  BY <1>4
<1> HIDE DEF new, msg
<1>7. QED
  BY <1>3, <1>5, <1>6, <1>f DEF new

\* What remove_at returns: the later messages one place down, one log entry more.
LEMMA RemoveAtFields ==
  ASSUME NEW mb \in MailboxType, NEW i \in DOMAIN mb.messages
  PROVE  LET new == remove_at(mb, i)
             ms  == mb.highest_modseq + 1
             n   == Len(mb.messages)
             e   == Len(mb.expunged)
         IN  /\ new \in MailboxType
             /\ new.gen = mb.gen
             /\ new.uid_next = mb.uid_next
             /\ new.highest_modseq = ms
             /\ i \in 1 .. n
             /\ DOMAIN new.messages = 1 .. n - 1
             /\ \A j \in 1 .. n - 1 :
                  new.messages[j] = IF j < i THEN mb.messages[j] ELSE mb.messages[j + 1]
             /\ DOMAIN new.expunged = 1 .. e + 1
             /\ \A k \in 1 .. e : new.expunged[k] = mb.expunged[k]
             /\ new.expunged[e + 1] = [uid |-> mb.messages[i].uid, modseq |-> ms]
<1> DEFINE new  == remove_at(mb, i)
           ms   == mb.highest_modseq + 1
           n    == Len(mb.messages)
           gone == [uid |-> mb.messages[i].uid, modseq |-> ms]
<1>1. /\ mb.messages \in Seq(Message)
      /\ n \in Nat
      /\ DOMAIN mb.messages = 1 .. n
      /\ i \in 1 .. n
      /\ n - 1 \in Nat
      /\ \A j \in 1 .. n : mb.messages[j] \in Message
      /\ mb.expunged \in Seq(Vanished)
  BY LenProperties, ElementOfSeq DEF MailboxType
<1>2. /\ Without(mb.messages, i) \in Seq(Message)
      /\ DOMAIN Without(mb.messages, i) = 1 .. n - 1
      /\ \A j \in 1 .. n - 1 :
           Without(mb.messages, i)[j] = IF j < i THEN mb.messages[j] ELSE mb.messages[j + 1]
  <2>1. Without(mb.messages, i) = [j \in 1 .. n - 1 |-> IF j < i THEN mb.messages[j] ELSE mb.messages[j + 1]]
    BY DEF Without
  <2>2. \A j \in 1 .. n - 1 : (IF j < i THEN mb.messages[j] ELSE mb.messages[j + 1]) \in Message
    BY <1>1
  <2>3. Without(mb.messages, i) \in [1 .. n - 1 -> Message]
    BY <2>1, <2>2
  <2>4. Without(mb.messages, i) \in Seq(Message)
    BY <1>1, <2>3, SeqDef
  <2>5. QED
    BY <2>1, <2>4
<1>3. gone \in Vanished
  BY <1>1 DEF Vanished, Message, MailboxType
<1>4. /\ Append(mb.expunged, gone) \in Seq(Vanished)
      /\ DOMAIN Append(mb.expunged, gone) = 1 .. Len(mb.expunged) + 1
      /\ \A k \in 1 .. Len(mb.expunged) : Append(mb.expunged, gone)[k] = mb.expunged[k]
      /\ Append(mb.expunged, gone)[Len(mb.expunged) + 1] = gone
  BY <1>1, <1>3, LenProperties
<1>5. new = [gen |-> mb.gen, uid_validity |-> mb.uid_validity,
             uid_next |-> mb.uid_next, highest_modseq |-> ms,
             messages |-> Without(mb.messages, i), expunged |-> Append(mb.expunged, gone)]
  BY DEF remove_at, MailboxType
<1>6. new \in MailboxType
  BY <1>2, <1>4, <1>5 DEF MailboxType
<1>7. QED
  BY <1>1, <1>2, <1>4, <1>5, <1>6

-----------------------------------------------------------------------------
(* Every operation keeps a mailbox well formed.                            *)

WellFormed(mb) ==
  /\ UidsAscending(mb)
  /\ UidsAccountedFor(mb)
  /\ ModSeqsBounded(mb)
  /\ ModSeqsDistinct(mb)

\* A mailbox that is in order.
Sound == {mb \in MailboxType : WellFormed(mb)}

Gone(mb) == {mb.expunged[k].uid : k \in DOMAIN mb.expunged}

\* The types of a mailbox's parts, spelled out for the steps below.
LEMMA MailboxParts ==
  ASSUME NEW mb \in MailboxType
  PROVE  /\ mb.gen \in Nat
         /\ mb.uid_next \in Nat \ {0}
         /\ mb.highest_modseq \in Nat
         /\ Len(mb.messages) \in Nat
         /\ Len(mb.expunged) \in Nat
         /\ DOMAIN mb.messages = 1 .. Len(mb.messages)
         /\ DOMAIN mb.expunged = 1 .. Len(mb.expunged)
         /\ \A i \in DOMAIN mb.messages :
              /\ mb.messages[i] \in Message
              /\ mb.messages[i].uid \in Nat
              /\ mb.messages[i].modseq \in Nat
              /\ mb.messages[i].created_modseq \in Nat
         /\ \A k \in DOMAIN mb.expunged :
              /\ mb.expunged[k].uid \in Nat
              /\ mb.expunged[k].modseq \in Nat
<1>1. /\ mb.messages \in Seq(Message)
      /\ mb.expunged \in Seq(Vanished)
  BY DEF MailboxType
<1>2. /\ \A i \in 1 .. Len(mb.messages) : mb.messages[i] \in Message
      /\ \A k \in 1 .. Len(mb.expunged) : mb.expunged[k] \in Vanished
  BY <1>1, ElementOfSeq
<1>3. /\ DOMAIN mb.messages = 1 .. Len(mb.messages)
      /\ DOMAIN mb.expunged = 1 .. Len(mb.expunged)
      /\ Len(mb.messages) \in Nat
      /\ Len(mb.expunged) \in Nat
  BY <1>1, LenProperties
<1>4. QED
  BY <1>2, <1>3 DEF MailboxType, Message, Vanished

\* A new mailbox is well formed.
LEMMA NewWellFormed ==
  ASSUME NEW g \in Nat
  PROVE  /\ NewMailbox(g) \in MailboxType
         /\ WellFormed(NewMailbox(g))
<1>1. NewMailbox(g) \in MailboxType
  BY EmptySeq DEF NewMailbox, MailboxType
<1>2. /\ DOMAIN NewMailbox(g).messages = {}
      /\ DOMAIN NewMailbox(g).expunged = {}
      /\ NewMailbox(g).uid_next = 1
  BY DEF NewMailbox
<1>3. 1 .. 1 - 1 = {}
  OBVIOUS
<1>4. QED
  BY <1>1, <1>2, <1>3 DEF WellFormed, UidsAscending, UidsAccountedFor, Uids,
     ModSeqsBounded, ModSeqsDistinct

\* append keeps a mailbox well formed and takes a UID that was not live.
LEMMA AppendWellFormed ==
  ASSUME NEW mb \in MailboxType, WellFormed(mb),
         NEW raw \in Raws, NEW flags \in SUBSET Flags
  PROVE  /\ WellFormed(append(mb, raw, flags))
         /\ Uids(append(mb, raw, flags)) = Uids(mb) \cup {mb.uid_next}
         /\ mb.uid_next \notin Uids(mb)
<1> DEFINE new == append(mb, raw, flags)
           ms  == mb.highest_modseq + 1
           n   == Len(mb.messages)
           msg == NewMessage(mb.uid_next, flags, ms, raw)
           M   == mb.messages
           N   == new.messages
<1> HIDE DEF new, n, msg, M, N
<1>0. /\ mb.uid_next \in Nat \ {0}
      /\ mb.highest_modseq \in Nat
      /\ n \in Nat
      /\ DOMAIN M = 1 .. n
      /\ \A i \in DOMAIN M : /\ M[i].uid \in Nat
                             /\ M[i].modseq \in Nat
                             /\ M[i].created_modseq \in Nat
      /\ \A k \in DOMAIN mb.expunged : mb.expunged[k].modseq \in Nat
  BY MailboxParts DEF n, M
<1>1. /\ new \in MailboxType
      /\ new.uid_next = mb.uid_next + 1
      /\ new.highest_modseq = ms
      /\ new.expunged = mb.expunged
      /\ DOMAIN N = 1 .. n + 1
      /\ \A i \in 1 .. n : N[i] = M[i]
      /\ N[n + 1] = msg
  BY AppendFields DEF new, n, msg, M, N
<1>m. msg.uid = mb.uid_next /\ msg.modseq = ms /\ msg.created_modseq = ms
  BY DEF msg, NewMessage
<1>d. /\ \A i \in DOMAIN N : \/ i \in DOMAIN M /\ i < n + 1 /\ N[i] = M[i]
                             \/ i = n + 1 /\ N[i] = msg
      /\ \A i \in DOMAIN M : i \in DOMAIN N /\ N[i] = M[i]
      /\ n + 1 \in DOMAIN N
  BY <1>0, <1>1
<1>2. \A u \in Uids(mb) : u < mb.uid_next /\ u \in Nat
  BY <1>0 DEF WellFormed, UidsAccountedFor
<1>3. \A i \in DOMAIN M : M[i].uid \in Uids(mb)
  BY DEF Uids, M
<1>4. Uids(new) = Uids(mb) \cup {mb.uid_next}
  <2>1. /\ Uids(new) = {N[i].uid : i \in DOMAIN N}
        /\ Uids(mb) = {M[i].uid : i \in DOMAIN M}
    BY DEF Uids, M, N
  <2>2. {N[i].uid : i \in DOMAIN N} = {M[i].uid : i \in DOMAIN M} \cup {mb.uid_next}
    BY <1>1, <1>d, <1>m
  <2>3. QED
    BY <2>1, <2>2
<1>5. UidsAscending(new)
  <2>1. ASSUME NEW i \in DOMAIN N, NEW j \in DOMAIN N, i < j
        PROVE  N[i].uid < N[j].uid
    <3>1. i \in DOMAIN M /\ N[i] = M[i]
      BY <1>0, <1>1, <1>d, <2>1
    <3>2. CASE j \in DOMAIN M /\ N[j] = M[j]
      BY <2>1, <3>1, <3>2 DEF WellFormed, UidsAscending, M
    <3>3. CASE N[j] = msg
      BY <1>2, <1>3, <1>m, <3>1, <3>3
    <3>4. QED
      BY <1>d, <3>2, <3>3
  <2>2. QED
    BY <2>1 DEF UidsAscending, N
<1>6. UidsAccountedFor(new)
  <2>1. 1 .. (mb.uid_next + 1) - 1 = (1 .. mb.uid_next - 1) \cup {mb.uid_next}
    BY <1>0
  <2>2. mb.uid_next \notin 1 .. mb.uid_next - 1
    BY <1>0
  <2>3. QED
    BY <1>1, <1>4, <2>1, <2>2 DEF WellFormed, UidsAccountedFor
<1>b. /\ \A i \in DOMAIN M : M[i].modseq < ms
      /\ \A k \in DOMAIN mb.expunged : mb.expunged[k].modseq < ms
  BY <1>0 DEF WellFormed, ModSeqsBounded, M
<1>7. ModSeqsBounded(new)
  <2>1. ASSUME NEW i \in DOMAIN N
        PROVE  N[i].modseq <= ms /\ N[i].created_modseq <= N[i].modseq /\ N[i].created_modseq > 0
    <3>1. CASE i \in DOMAIN M /\ N[i] = M[i]
      BY <1>0, <1>b, <3>1 DEF WellFormed, ModSeqsBounded, M
    <3>2. CASE N[i] = msg
      BY <1>0, <1>m, <3>2
    <3>3. QED
      BY <1>d, <3>1, <3>2
  <2>2. \A k \in DOMAIN mb.expunged : mb.expunged[k].modseq <= ms
    BY <1>0, <1>b
  <2>3. QED
    BY <1>1, <2>1, <2>2 DEF ModSeqsBounded, N
<1>8. ModSeqsDistinct(new)
  <2>1. \A i, j \in DOMAIN N : i # j => N[i].modseq # N[j].modseq
    BY <1>0, <1>b, <1>d, <1>m DEF WellFormed, ModSeqsDistinct, M
  <2>2. \A i \in DOMAIN N, k \in DOMAIN mb.expunged : N[i].modseq # mb.expunged[k].modseq
    BY <1>0, <1>b, <1>d, <1>m DEF WellFormed, ModSeqsDistinct, M
  <2>3. QED
    BY <1>1, <2>1, <2>2 DEF WellFormed, ModSeqsDistinct, N
<1>9. QED
  BY <1>0, <1>2, <1>4, <1>5, <1>6, <1>7, <1>8 DEF WellFormed, new

\* write_flags keeps a mailbox well formed, with the same UIDs.
LEMMA WriteFlagsWellFormed ==
  ASSUME NEW mb \in MailboxType, WellFormed(mb),
         NEW i \in DOMAIN mb.messages, NEW flags \in SUBSET Flags
  PROVE  /\ WellFormed(write_flags(mb, i, flags))
         /\ Uids(write_flags(mb, i, flags)) = Uids(mb)
<1> DEFINE new == write_flags(mb, i, flags)
           ms  == mb.highest_modseq + 1
<1> HIDE DEF new
<1>0. /\ mb.highest_modseq \in Nat
      /\ \A j \in DOMAIN mb.messages : /\ mb.messages[j] \in Message
                                       /\ mb.messages[j].modseq \in Nat
                                       /\ mb.messages[j].created_modseq \in Nat
      /\ \A k \in DOMAIN mb.expunged : mb.expunged[k].modseq \in Nat
  BY MailboxParts
<1>1. /\ new \in MailboxType
      /\ new.uid_next = mb.uid_next
      /\ new.highest_modseq = ms
      /\ new.expunged = mb.expunged
      /\ DOMAIN new.messages = DOMAIN mb.messages
      /\ \A j \in DOMAIN mb.messages :
           /\ new.messages[j].uid = mb.messages[j].uid
           /\ new.messages[j].created_modseq = mb.messages[j].created_modseq
           /\ new.messages[j].modseq = IF j = i THEN ms ELSE mb.messages[j].modseq
  BY WriteFlagsFields DEF new
<1>2. Uids(new) = Uids(mb)
  BY <1>1 DEF Uids
<1>3. UidsAscending(new)
  BY <1>1 DEF WellFormed, UidsAscending
<1>4. UidsAccountedFor(new)
  BY <1>1, <1>2 DEF WellFormed, UidsAccountedFor
<1>5. ModSeqsBounded(new)
  BY <1>0, <1>1 DEF WellFormed, ModSeqsBounded
<1>6. ModSeqsDistinct(new)
  BY <1>0, <1>1 DEF WellFormed, ModSeqsBounded, ModSeqsDistinct
<1>7. QED
  BY <1>2, <1>3, <1>4, <1>5, <1>6 DEF WellFormed, new

\* remove_at keeps a mailbox well formed, one UID less.
LEMMA RemoveAtWellFormed ==
  ASSUME NEW mb \in MailboxType, WellFormed(mb), NEW i \in DOMAIN mb.messages
  PROVE  /\ WellFormed(remove_at(mb, i))
         /\ Uids(remove_at(mb, i)) = Uids(mb) \ {mb.messages[i].uid}
<1> DEFINE new == remove_at(mb, i)
           ms  == mb.highest_modseq + 1
           M   == mb.messages
           N   == new.messages
           X   == mb.expunged
           Y   == new.expunged
           Old(j) == IF j < i THEN j ELSE j + 1
<1> HIDE DEF new, M, N, X, Y
<1>0. /\ mb.highest_modseq \in Nat
      /\ \A j \in DOMAIN M : /\ M[j].uid \in Nat
                             /\ M[j].modseq \in Nat
                             /\ M[j].created_modseq \in Nat
      /\ \A k \in DOMAIN X : X[k].modseq \in Nat
      /\ i \in DOMAIN M
  BY MailboxParts DEF M, X
<1>1. /\ new.uid_next = mb.uid_next
      /\ new.highest_modseq = ms
      /\ \A j \in DOMAIN N : Old(j) \in DOMAIN M /\ Old(j) # i /\ N[j] = M[Old(j)]
      /\ \A j, l \in DOMAIN N : j < l => Old(j) < Old(l)
      /\ \A j, l \in DOMAIN N : j # l => Old(j) # Old(l)
      /\ \A l \in DOMAIN M : l # i => \E j \in DOMAIN N : Old(j) = l
      /\ \A k \in DOMAIN Y : \/ k \in DOMAIN X /\ Y[k] = X[k]
                             \/ /\ Y[k] = [uid |-> M[i].uid, modseq |-> ms]
                                /\ \A l \in DOMAIN Y : ~ (k < l)
      /\ \A k \in DOMAIN X : k \in DOMAIN Y /\ Y[k] = X[k]
      /\ \E k \in DOMAIN Y : Y[k] = [uid |-> M[i].uid, modseq |-> ms]
  <2> DEFINE n == Len(mb.messages)
             e == Len(mb.expunged)
  <2> HIDE DEF n, e
  <2>1. /\ new.uid_next = mb.uid_next
        /\ new.highest_modseq = ms
        /\ i \in 1 .. n
        /\ DOMAIN N = 1 .. n - 1
        /\ \A j \in 1 .. n - 1 : N[j] = IF j < i THEN M[j] ELSE M[j + 1]
        /\ DOMAIN Y = 1 .. e + 1
        /\ \A k \in 1 .. e : Y[k] = X[k]
        /\ Y[e + 1] = [uid |-> M[i].uid, modseq |-> ms]
    BY RemoveAtFields DEF new, n, e, M, N, X, Y
  <2>2. n \in Nat /\ e \in Nat /\ DOMAIN M = 1 .. n /\ DOMAIN X = 1 .. e
    BY MailboxParts DEF n, e, M, X
  <2>3. \A j \in DOMAIN N : Old(j) \in DOMAIN M /\ Old(j) # i /\ N[j] = M[Old(j)]
    BY <2>1, <2>2
  <2>4. \A l \in DOMAIN M : l # i => \E j \in DOMAIN N : Old(j) = l
    <3>1. ASSUME NEW l \in DOMAIN M, l < i
          PROVE  l \in DOMAIN N /\ Old(l) = l
      BY <2>1, <2>2, <3>1
    <3>2. ASSUME NEW l \in DOMAIN M, l > i
          PROVE  l - 1 \in DOMAIN N /\ Old(l - 1) = l
      BY <2>1, <2>2, <3>2
    <3>3. \A l \in DOMAIN M : l # i => l < i \/ l > i
      BY <2>1, <2>2
    <3>4. QED
      BY <3>1, <3>2, <3>3
  <2>5. /\ \A j, l \in DOMAIN N : j < l => Old(j) < Old(l)
        /\ \A j, l \in DOMAIN N : j # l => Old(j) # Old(l)
    BY <2>1, <2>2
  <2>6. /\ \A k \in DOMAIN Y : \/ k \in DOMAIN X /\ Y[k] = X[k]
                               \/ k = e + 1
        /\ \A k \in DOMAIN X : k \in DOMAIN Y /\ Y[k] = X[k]
        /\ e + 1 \in DOMAIN Y
        /\ \A l \in DOMAIN Y : ~ (e + 1 < l)
    BY <2>1, <2>2
  <2>7. QED
    BY <2>1, <2>3, <2>4, <2>5, <2>6
<1> HIDE DEF Old
<1>a. \A j, l \in DOMAIN M : j # l => M[j].uid # M[l].uid
  <2>1. \A j, l \in DOMAIN M : j # l => j < l \/ l < j
    BY MailboxParts DEF M
  <2>2. QED
    BY <1>0, <2>1 DEF WellFormed, UidsAscending, M
<1>u. /\ Uids(new) = {N[j].uid : j \in DOMAIN N}
      /\ Uids(mb) = {M[j].uid : j \in DOMAIN M}
      /\ Gone(new) = {Y[k].uid : k \in DOMAIN Y}
      /\ Gone(mb) = {X[k].uid : k \in DOMAIN X}
  BY DEF Uids, Gone, M, N, X, Y
<1>2. Uids(new) = Uids(mb) \ {M[i].uid}
  <2>1. ASSUME NEW u \in Uids(new)
        PROVE  u \in Uids(mb) /\ u # M[i].uid
    BY <1>0, <1>1, <1>a, <1>u
  <2>2. ASSUME NEW u \in Uids(mb), u # M[i].uid
        PROVE  u \in Uids(new)
    <3>1. PICK l \in DOMAIN M : M[l].uid = u /\ l # i
      BY <1>u, <2>2
    <3>2. PICK j \in DOMAIN N : Old(j) = l
      BY <1>1, <3>1
    <3>3. N[j].uid = u
      BY <1>1, <3>1, <3>2
    <3>4. QED
      BY <1>u, <3>3
  <2>3. QED
    BY <2>1, <2>2
<1>3. Gone(new) = Gone(mb) \cup {M[i].uid}
  <2>1. \A k \in DOMAIN Y : Y[k].uid \in Gone(mb) \cup {M[i].uid}
    BY <1>1, <1>u
  <2>2. \A k \in DOMAIN X : X[k].uid \in Gone(new)
    BY <1>1, <1>u
  <2>3. M[i].uid \in Gone(new)
    BY <1>1, <1>u
  <2>4. QED
    BY <1>u, <2>1, <2>2, <2>3
<1>4. UidsAscending(new)
  BY <1>1 DEF WellFormed, UidsAscending, M, N
<1>5. UidsAccountedFor(new)
  <2>1. M[i].uid \in Uids(mb)
    BY <1>0, <1>u
  <2>2. /\ Uids(mb) \cup Gone(mb) = 1 .. mb.uid_next - 1
        /\ Uids(mb) \cap Gone(mb) = {}
    BY DEF WellFormed, UidsAccountedFor, Gone
  <2>3. /\ Uids(new) \cup Gone(new) = 1 .. new.uid_next - 1
        /\ Uids(new) \cap Gone(new) = {}
    BY <1>1, <1>2, <1>3, <2>1, <2>2
  <2>4. QED
    BY <2>3 DEF UidsAccountedFor, Gone
<1>b. /\ \A j \in DOMAIN M : M[j].modseq < ms
      /\ \A k \in DOMAIN X : X[k].modseq < ms
  BY <1>0 DEF WellFormed, ModSeqsBounded, M, X
<1>6. ModSeqsBounded(new)
  <2>1. \A j \in DOMAIN N : /\ N[j].modseq <= ms
                            /\ N[j].created_modseq <= N[j].modseq
                            /\ N[j].created_modseq > 0
    BY <1>0, <1>1, <1>b DEF WellFormed, ModSeqsBounded, M
  <2>2. \A k \in DOMAIN Y : Y[k].modseq <= ms
    BY <1>0, <1>1, <1>b
  <2>3. QED
    BY <1>1, <2>1, <2>2 DEF ModSeqsBounded, N, Y
<1>7. ModSeqsDistinct(new)
  <2>1. \A j, l \in DOMAIN N : j # l => N[j].modseq # N[l].modseq
    BY <1>1 DEF WellFormed, ModSeqsDistinct, M
  <2>2. \A k, l \in DOMAIN Y : k < l => Y[k].modseq < Y[l].modseq
    BY <1>0, <1>1, <1>b DEF WellFormed, ModSeqsDistinct, X
  <2>3. \A j \in DOMAIN N, k \in DOMAIN Y : N[j].modseq # Y[k].modseq
    BY <1>0, <1>1, <1>b DEF WellFormed, ModSeqsDistinct, M, X
  <2>4. QED
    BY <2>1, <2>2, <2>3 DEF ModSeqsDistinct, N, Y
<1>8. QED
  BY <1>2, <1>4, <1>5, <1>6, <1>7 DEF WellFormed, new, M

-----------------------------------------------------------------------------
(* UIDs and contents.                                                      *)

\* In ascending order a UID is at one place.
LEMMA DistinctUids ==
  ASSUME NEW mb \in MailboxType, UidsAscending(mb),
         NEW i \in DOMAIN mb.messages, NEW j \in DOMAIN mb.messages,
         mb.messages[i].uid = mb.messages[j].uid
  PROVE  i = j
<1>1. /\ i \in Nat /\ j \in Nat
      /\ mb.messages[i].uid \in Nat
      /\ mb.messages[j].uid \in Nat
  BY MailboxParts
<1>2. i < j \/ j < i \/ i = j
  BY <1>1
<1>3. QED
  BY <1>1, <1>2 DEF UidsAscending

\* What Content says of a UID is what the message with that UID says.
LEMMA ContentAt ==
  ASSUME NEW mb \in MailboxType, UidsAscending(mb)
  PROVE  /\ Content(mb) = [u \in Uids(mb) |-> Content(mb)[u]]
         /\ \A i \in DOMAIN mb.messages :
              /\ mb.messages[i].uid \in Uids(mb)
              /\ Content(mb)[mb.messages[i].uid] =
                   [flags |-> mb.messages[i].flags, raw |-> mb.messages[i].raw]
<1>1. Content(mb) = [u \in Uids(mb) |-> Content(mb)[u]]
  BY DEF Content
<1>2. ASSUME NEW i \in DOMAIN mb.messages
      PROVE  /\ mb.messages[i].uid \in Uids(mb)
             /\ Content(mb)[mb.messages[i].uid] =
                  [flags |-> mb.messages[i].flags, raw |-> mb.messages[i].raw]
  <2> DEFINE u == mb.messages[i].uid
             c == CHOOSE j \in DOMAIN mb.messages : mb.messages[j].uid = u
  <2>1. u \in Uids(mb)
    BY DEF Uids
  <2>2. c \in DOMAIN mb.messages /\ mb.messages[c].uid = u
    OBVIOUS
  <2>3. c = i
    BY <2>2, DistinctUids
  <2>4. Content(mb)[u] = [flags |-> mb.messages[c].flags, raw |-> mb.messages[c].raw]
    BY <2>1 DEF Content
  <2>5. QED
    BY <2>1, <2>3, <2>4
<1>3. QED
  BY <1>1, <1>2

\* A list without repetitions, one entry dropped.
LEMMA WithoutSeq ==
  ASSUME NEW S, NEW s \in Seq(S), NEW i \in DOMAIN s,
         \A j, l \in DOMAIN s : s[j] = s[l] => j = l
  PROVE  LET w == Without(s, i)
         IN  /\ w \in Seq(S)
             /\ {w[j] : j \in DOMAIN w} = {s[j] : j \in DOMAIN s} \ {s[i]}
             /\ \A j, l \in DOMAIN w : w[j] = w[l] => j = l
<1> DEFINE n == Len(s)
           w == Without(s, i)
           Old(j) == IF j < i THEN j ELSE j + 1
<1>1. n \in Nat /\ DOMAIN s = 1 .. n /\ i \in 1 .. n /\ n - 1 \in Nat
  BY LenProperties
<1>2. \A j \in 1 .. n : s[j] \in S
  BY ElementOfSeq
<1>3. w = [j \in 1 .. n - 1 |-> s[Old(j)]]
  BY <1>1 DEF Without
<1>4. /\ \A j \in 1 .. n - 1 : Old(j) \in 1 .. n /\ Old(j) # i
      /\ \A j, l \in 1 .. n - 1 : Old(j) = Old(l) => j = l
  BY <1>1
<1>5. \A l \in 1 .. n : l # i => \E j \in 1 .. n - 1 : Old(j) = l
  <2>1. ASSUME NEW l \in 1 .. n, l < i
        PROVE  l \in 1 .. n - 1 /\ Old(l) = l
    BY <1>1, <2>1
  <2>2. ASSUME NEW l \in 1 .. n, l > i
        PROVE  l - 1 \in 1 .. n - 1 /\ Old(l - 1) = l
    BY <1>1, <2>2
  <2>3. \A l \in 1 .. n : l # i => l < i \/ l > i
    BY <1>1
  <2>4. QED
    BY <2>1, <2>2, <2>3
<1> HIDE DEF Old, w
<1>6. DOMAIN w = 1 .. n - 1 /\ \A j \in DOMAIN w : w[j] = s[Old(j)]
  BY <1>3
<1>7. w \in Seq(S)
  <2>1. w \in [1 .. n - 1 -> S]
    BY <1>2, <1>3, <1>4
  <2>2. QED
    BY <1>1, <2>1, SeqDef
<1>8. {w[j] : j \in DOMAIN w} = {s[j] : j \in DOMAIN s} \ {s[i]}
  <2>1. ASSUME NEW j \in DOMAIN w
        PROVE  w[j] \in {s[l] : l \in DOMAIN s} /\ w[j] # s[i]
    BY <1>1, <1>4, <1>6
  <2>2. ASSUME NEW l \in DOMAIN s, s[l] # s[i]
        PROVE  s[l] \in {w[j] : j \in DOMAIN w}
    <3>1. PICK j \in 1 .. n - 1 : Old(j) = l
      BY <1>1, <1>5, <2>2
    <3>2. j \in DOMAIN w /\ w[j] = s[l]
      BY <1>6, <3>1
    <3>3. QED
      BY <3>2
  <2>3. QED
    BY <2>1, <2>2
<1>9. \A j, l \in DOMAIN w : w[j] = w[l] => j = l
  BY <1>1, <1>4, <1>6
<1>10. QED
  BY <1>7, <1>8, <1>9 DEF w
==============================================================================
