--------------------------- MODULE MailStoreProofs ---------------------------
(***************************************************************************)
(* What holds of MailStore, and of Jmap over it, for every set of names,   *)
(* flags and contents and for behaviours of any length.                    *)
(***************************************************************************)
EXTENDS Jmap, MailboxProofs, SequenceTheorems, TLAPS

-----------------------------------------------------------------------------
(* A client that was in step with a mailbox stays repairable.              *)

\* What the mailbox mb and a client's memory k of an earlier state of it have
\* to do with each other for the delta since k.modseq to be exact: a message
\* not touched since is known as it is, a message is known just if it was
\* there, and a known message that is gone is in the vanished log after k.
InStep(mb, k) ==
  /\ k.modseq \in Nat
  /\ k.modseq <= mb.highest_modseq
  /\ k.view = [u \in DOMAIN k.view |-> k.view[u]]
  /\ \A i \in DOMAIN mb.messages :
       /\ mb.messages[i].created_modseq <= k.modseq <=> mb.messages[i].uid \in DOMAIN k.view
       /\ mb.messages[i].modseq <= k.modseq =>
            k.view[mb.messages[i].uid] =
              [flags |-> mb.messages[i].flags, raw |-> mb.messages[i].raw]
  /\ DOMAIN k.view \subseteq Uids(mb) \cup vanished_since(mb, k.modseq)

\* A client that has just fetched everything is in step.
LEMMA SnapshotInStep ==
  ASSUME NEW mb \in MailboxType, WellFormed(mb)
  PROVE  InStep(mb, Snapshot(mb))
<1> DEFINE k == Snapshot(mb)
<1>1. /\ k.modseq = mb.highest_modseq
      /\ k.view = Content(mb)
      /\ DOMAIN Content(mb) = Uids(mb)
  BY DEF Snapshot, Content
<1>2. mb.highest_modseq \in Nat /\ mb.highest_modseq <= mb.highest_modseq
  BY MailboxParts
<1>3. \A i \in DOMAIN mb.messages : mb.messages[i].created_modseq <= mb.highest_modseq
  BY MailboxParts DEF WellFormed, ModSeqsBounded
<1>4. /\ Content(mb) = [u \in Uids(mb) |-> Content(mb)[u]]
      /\ \A i \in DOMAIN mb.messages :
              /\ mb.messages[i].uid \in Uids(mb)
              /\ Content(mb)[mb.messages[i].uid] =
                   [flags |-> mb.messages[i].flags, raw |-> mb.messages[i].raw]
  BY ContentAt DEF WellFormed
<1> HIDE DEF k
<1>5. QED
  BY <1>1, <1>2, <1>3, <1>4 DEF InStep, k

\* The genesis token, and a name the token does not list.
LEMMA GenesisInStep ==
  ASSUME NEW mb \in MailboxType, WellFormed(mb)
  PROVE  InStep(mb, [gen |-> 0, modseq |-> 0, view |-> <<>>])
<1> DEFINE k == [gen |-> 0, modseq |-> 0, view |-> <<>>]
<1>1. /\ k.modseq = 0
      /\ k.view = <<>>
      /\ DOMAIN k.view = {}
      /\ k.view = [u \in DOMAIN k.view |-> k.view[u]]
  OBVIOUS
<1>2. \A i \in DOMAIN mb.messages :
        ~ (mb.messages[i].created_modseq <= 0) /\ ~ (mb.messages[i].modseq <= 0)
  BY MailboxParts DEF WellFormed, ModSeqsBounded
<1>3. mb.highest_modseq \in Nat /\ 0 <= mb.highest_modseq
  BY MailboxParts
<1> HIDE DEF k
<1>4. QED
  BY <1>1, <1>2, <1>3 DEF InStep, k

\* A client in step stays in step when a message is appended.
LEMMA AppendInStep ==
  ASSUME NEW mb \in MailboxType, WellFormed(mb), NEW k, InStep(mb, k),
         NEW raw \in Raws, NEW flags \in SUBSET Flags
  PROVE  InStep(append(mb, raw, flags), k)
<1> DEFINE new == append(mb, raw, flags)
           ms  == mb.highest_modseq + 1
           msg == NewMessage(mb.uid_next, flags, ms, raw)
           M   == mb.messages
           N   == new.messages
<1> HIDE DEF new, msg, M, N
<1>1. /\ new.highest_modseq = ms
      /\ new.expunged = mb.expunged
      /\ \A i \in DOMAIN N : (i \in DOMAIN M /\ N[i] = M[i]) \/ N[i] = msg
  <2>1. /\ new.highest_modseq = ms
        /\ new.expunged = mb.expunged
        /\ DOMAIN N = 1 .. Len(M) + 1
        /\ \A i \in 1 .. Len(M) : N[i] = M[i]
        /\ N[Len(M) + 1] = msg
    BY AppendFields DEF new, msg, M, N
  <2>2. Len(M) \in Nat /\ DOMAIN M = 1 .. Len(M)
    BY MailboxParts DEF M
  <2>3. \A i \in DOMAIN N : i \in DOMAIN M \/ i = Len(M) + 1
    BY <2>1, <2>2
  <2>4. QED
    BY <2>1, <2>2, <2>3
<1>2. msg.uid = mb.uid_next /\ msg.modseq = ms /\ msg.created_modseq = ms
  BY DEF msg, NewMessage
<1>3. /\ Uids(new) = Uids(mb) \cup {mb.uid_next}
      /\ mb.highest_modseq \in Nat
      /\ mb.uid_next \in Nat
  BY AppendWellFormed, MailboxParts DEF new
<1>4. vanished_since(new, k.modseq) = vanished_since(mb, k.modseq)
  BY <1>1 DEF vanished_since
<1>5. mb.uid_next \notin DOMAIN k.view
  <2>1. vanished_since(mb, k.modseq) \subseteq Gone(mb)
    BY DEF vanished_since, Gone
  <2>2. Uids(mb) \cup Gone(mb) = 1 .. mb.uid_next - 1
    BY DEF WellFormed, UidsAccountedFor, Gone
  <2>3. mb.uid_next \notin 1 .. mb.uid_next - 1
    BY <1>3
  <2>4. QED
    BY <2>1, <2>2, <2>3 DEF InStep
<1>6. k.modseq \in Nat /\ k.modseq <= ms /\ ~ (ms <= k.modseq)
  BY <1>3 DEF InStep
<1>7. ASSUME NEW i \in DOMAIN N
      PROVE  /\ N[i].created_modseq <= k.modseq <=> N[i].uid \in DOMAIN k.view
             /\ N[i].modseq <= k.modseq =>
                  k.view[N[i].uid] = [flags |-> N[i].flags, raw |-> N[i].raw]
  <2>1. CASE i \in DOMAIN M /\ N[i] = M[i]
    BY <2>1 DEF InStep, M
  <2>2. CASE N[i] = msg
    BY <2>2, <1>2, <1>5, <1>6
  <2>3. QED
    BY <1>1, <2>1, <2>2
<1>8. QED
  BY <1>1, <1>3, <1>4, <1>6, <1>7 DEF InStep, new, N

\* A client in step stays in step when flags are written.
LEMMA WriteFlagsInStep ==
  ASSUME NEW mb \in MailboxType, WellFormed(mb), NEW k, InStep(mb, k),
         NEW i \in DOMAIN mb.messages, NEW flags \in SUBSET Flags
  PROVE  InStep(write_flags(mb, i, flags), k)
<1> DEFINE new == write_flags(mb, i, flags)
           ms  == mb.highest_modseq + 1
           M   == mb.messages
           N   == new.messages
<1> HIDE DEF new, M, N
<1>1. /\ new.highest_modseq = ms
      /\ new.expunged = mb.expunged
      /\ DOMAIN N = DOMAIN M
      /\ i \in DOMAIN M
      /\ \A j \in DOMAIN M : j # i => N[j] = M[j]
      /\ N[i].uid = M[i].uid
      /\ N[i].created_modseq = M[i].created_modseq
      /\ N[i].modseq = ms
  BY WriteFlagsFields DEF new, M, N
<1>2. Uids(new) = Uids(mb) /\ mb.highest_modseq \in Nat
  BY WriteFlagsWellFormed, MailboxParts DEF new
<1>3. vanished_since(new, k.modseq) = vanished_since(mb, k.modseq)
  BY <1>1 DEF vanished_since
<1>4. k.modseq \in Nat /\ k.modseq <= ms /\ ~ (ms <= k.modseq)
  BY <1>2 DEF InStep
<1>5. ASSUME NEW j \in DOMAIN N
      PROVE  /\ N[j].created_modseq <= k.modseq <=> N[j].uid \in DOMAIN k.view
             /\ N[j].modseq <= k.modseq =>
                  k.view[N[j].uid] = [flags |-> N[j].flags, raw |-> N[j].raw]
  <2>1. CASE j # i
    BY <2>1, <1>1 DEF InStep, M
  <2>2. CASE j = i
    <3>1. M[i].created_modseq <= k.modseq <=> M[i].uid \in DOMAIN k.view
      BY <1>1 DEF InStep, M
    <3>2. QED
      BY <2>2, <3>1, <1>1, <1>4
  <2>3. QED
    BY <2>1, <2>2
<1>6. QED
  BY <1>1, <1>2, <1>3, <1>4, <1>5 DEF InStep, new, N

\* A client in step stays in step when a message is removed.
LEMMA RemoveAtInStep ==
  ASSUME NEW mb \in MailboxType, WellFormed(mb), NEW k, InStep(mb, k),
         NEW i \in DOMAIN mb.messages
  PROVE  InStep(remove_at(mb, i), k)
<1> DEFINE new == remove_at(mb, i)
           ms  == mb.highest_modseq + 1
           M   == mb.messages
           N   == new.messages
           X   == mb.expunged
           Y   == new.expunged
<1> HIDE DEF new, M, N, X, Y
<1>1. /\ new.highest_modseq = ms
      /\ \A j \in DOMAIN N : \E l \in DOMAIN M : N[j] = M[l]
      /\ \A x \in DOMAIN X : x \in DOMAIN Y /\ Y[x] = X[x]
      /\ \E x \in DOMAIN Y : Y[x] = [uid |-> M[i].uid, modseq |-> ms]
  <2> DEFINE n == Len(mb.messages)
             e == Len(mb.expunged)
  <2> HIDE DEF n, e
  <2>1. /\ new.highest_modseq = ms
        /\ i \in 1 .. n
        /\ DOMAIN N = 1 .. n - 1
        /\ \A j \in 1 .. n - 1 : N[j] = IF j < i THEN M[j] ELSE M[j + 1]
        /\ DOMAIN Y = 1 .. e + 1
        /\ \A x \in 1 .. e : Y[x] = X[x]
        /\ Y[e + 1] = [uid |-> M[i].uid, modseq |-> ms]
    BY RemoveAtFields DEF new, n, e, M, N, X, Y
  <2>2. n \in Nat /\ e \in Nat /\ DOMAIN M = 1 .. n /\ DOMAIN X = 1 .. e
    BY MailboxParts DEF n, e, M, X
  <2>3. \A j \in DOMAIN N : j \in DOMAIN M /\ j + 1 \in DOMAIN M
    BY <2>1, <2>2
  <2>4. /\ \A x \in DOMAIN X : x \in DOMAIN Y
        /\ e + 1 \in DOMAIN Y
    BY <2>1, <2>2
  <2>5. QED
    BY <2>1, <2>2, <2>3, <2>4
<1>2. Uids(new) = Uids(mb) \ {M[i].uid} /\ mb.highest_modseq \in Nat
  BY RemoveAtWellFormed, MailboxParts DEF new, M
<1>3. k.modseq \in Nat /\ k.modseq <= ms /\ ms > k.modseq
  BY <1>2 DEF InStep
<1>4. vanished_since(mb, k.modseq) \cup {M[i].uid} \subseteq vanished_since(new, k.modseq)
  <2>1. \A x \in DOMAIN Y : Y[x].modseq > k.modseq => Y[x].uid \in vanished_since(new, k.modseq)
    BY DEF vanished_since, Y
  <2>2. M[i].uid \in vanished_since(new, k.modseq)
    <3>1. PICK x \in DOMAIN Y : Y[x] = [uid |-> M[i].uid, modseq |-> ms]
      BY <1>1
    <3>2. Y[x].uid = M[i].uid /\ Y[x].modseq = ms
      BY <3>1
    <3>3. QED
      BY <1>3, <2>1, <3>2
  <2>3. \A u \in vanished_since(mb, k.modseq) : \E x \in DOMAIN X : X[x].modseq > k.modseq /\ X[x].uid = u
    BY DEF vanished_since, X
  <2>4. QED
    BY <1>1, <2>1, <2>2, <2>3
<1>5. ASSUME NEW j \in DOMAIN N
      PROVE  /\ N[j].created_modseq <= k.modseq <=> N[j].uid \in DOMAIN k.view
             /\ N[j].modseq <= k.modseq =>
                  k.view[N[j].uid] = [flags |-> N[j].flags, raw |-> N[j].raw]
  BY <1>1 DEF InStep, M
<1>6. DOMAIN k.view \subseteq Uids(new) \cup vanished_since(new, k.modseq)
  BY <1>2, <1>4 DEF InStep
<1>7. QED
  BY <1>1, <1>3, <1>5, <1>6 DEF InStep, new, N

\* The delta since a state the client was in step with is exact.
LEMMA InStepExact ==
  ASSUME NEW mb \in MailboxType, WellFormed(mb), NEW k, InStep(mb, k)
  PROVE  AfterDelta(mb, k) = Content(mb)
<1> DEFINE M    == mb.messages
           gone == EmailDestroyed(mb, k.modseq)
           new  == EmailCreated(mb, k.modseq) \cup EmailUpdated(mb, k.modseq)
           D    == (DOMAIN k.view \ gone) \cup new
<1>1. /\ \A i \in DOMAIN M : /\ M[i].modseq \in Nat
                             /\ M[i].created_modseq \in Nat
      /\ k.modseq \in Nat
  BY MailboxParts DEF InStep
<1>2. new = {M[i].uid : i \in {j \in DOMAIN M : M[j].modseq > k.modseq}}
  BY DEF EmailCreated, EmailUpdated, EmailChanged, changed_since
<1>3. Uids(mb) \cap gone = {}
  BY DEF WellFormed, UidsAccountedFor, EmailDestroyed, vanished_since
<1>4. Uids(mb) = {M[i].uid : i \in DOMAIN M}
  BY DEF Uids
<1> HIDE DEF gone, new, D
<1>5. ASSUME NEW i \in DOMAIN M, M[i].uid \notin new
      PROVE  /\ M[i].uid \in DOMAIN k.view
             /\ k.view[M[i].uid] = Content(mb)[M[i].uid]
  <2>1. M[i].modseq <= k.modseq
    BY <1>1, <1>2, <1>5
  <2>2. M[i].created_modseq <= M[i].modseq
    BY DEF WellFormed, ModSeqsBounded
  <2>3. M[i].created_modseq <= k.modseq
    BY <1>1, <2>1, <2>2
  <2>4. M[i].uid \in DOMAIN k.view
    BY <2>3 DEF InStep
  <2>5. k.view[M[i].uid] = [flags |-> M[i].flags, raw |-> M[i].raw]
    BY <2>1 DEF InStep
  <2>6. Content(mb)[M[i].uid] = [flags |-> M[i].flags, raw |-> M[i].raw]
    BY ContentAt DEF WellFormed
  <2>7. QED
    BY <2>4, <2>5, <2>6
<1>6. D = Uids(mb)
  <2>1. D \subseteq Uids(mb)
    BY <1>2, <1>4 DEF InStep, D, gone, EmailDestroyed
  <2>2. Uids(mb) \subseteq D
    BY <1>3, <1>4, <1>5 DEF D
  <2>3. QED
    BY <2>1, <2>2
<1>7. \A u \in D : (IF u \in new THEN Content(mb)[u] ELSE k.view[u]) = Content(mb)[u]
  BY <1>4, <1>5, <1>6
<1>8. AfterDelta(mb, k) = [u \in D |-> IF u \in new THEN Content(mb)[u] ELSE k.view[u]]
  BY DEF AfterDelta, D, gone, new
<1>9. Content(mb) = [u \in Uids(mb) |-> Content(mb)[u]]
  BY ContentAt DEF WellFormed
<1>10. QED
  BY <1>6, <1>7, <1>8, <1>9

\* The delta of a client in step tells created from updated.
LEMMA InStepClassified ==
  ASSUME NEW mb \in MailboxType, WellFormed(mb), NEW k, InStep(mb, k)
  PROVE  /\ EmailUpdated(mb, k.modseq) \subseteq DOMAIN k.view
         /\ EmailCreated(mb, k.modseq) \cap DOMAIN k.view = {}
         /\ EmailDestroyed(mb, k.modseq) \cap EmailChanged(mb, k.modseq) = {}
<1> DEFINE M == mb.messages
<1>1. /\ \A i \in DOMAIN M : /\ M[i].modseq \in Nat
                             /\ M[i].created_modseq \in Nat
      /\ k.modseq \in Nat
  BY MailboxParts DEF InStep
<1>2. \A u \in EmailUpdated(mb, k.modseq) :
        \E i \in DOMAIN M : u = M[i].uid /\ ~ (M[i].created_modseq > k.modseq)
  BY DEF EmailUpdated, EmailChanged, EmailCreated, changed_since
<1>3. \A u \in EmailCreated(mb, k.modseq) :
        \E i \in DOMAIN M : u = M[i].uid /\ M[i].created_modseq > k.modseq
  BY DEF EmailCreated, changed_since
<1>4. EmailChanged(mb, k.modseq) \subseteq Uids(mb)
  BY DEF EmailChanged, changed_since, Uids
<1>5. EmailDestroyed(mb, k.modseq) \cap Uids(mb) = {}
  BY DEF WellFormed, UidsAccountedFor, EmailDestroyed, vanished_since
<1>6. \A i \in DOMAIN M : M[i].created_modseq <= k.modseq <=> M[i].uid \in DOMAIN k.view
  BY DEF InStep
<1>7. QED
  BY <1>1, <1>2, <1>3, <1>4, <1>5, <1>6

\* A client in step at the current HIGHESTMODSEQ knows the mailbox as it is.
LEMMA InStepUnchanged ==
  ASSUME NEW mb \in MailboxType, WellFormed(mb), NEW k, InStep(mb, k),
         mb.highest_modseq = k.modseq
  PROVE  k.view = Content(mb)
<1> DEFINE M == mb.messages
<1>1. \A i \in DOMAIN M : M[i].modseq <= k.modseq /\ M[i].created_modseq <= k.modseq
  BY MailboxParts DEF WellFormed, ModSeqsBounded
<1>2. vanished_since(mb, k.modseq) = {}
  <2>1. \A x \in DOMAIN mb.expunged : ~ (mb.expunged[x].modseq > k.modseq)
    BY MailboxParts DEF WellFormed, ModSeqsBounded
  <2>2. QED
    BY <2>1 DEF vanished_since
<1>3. DOMAIN k.view = Uids(mb)
  BY <1>1, <1>2 DEF InStep, Uids
<1>4. \A u \in Uids(mb) : k.view[u] = Content(mb)[u]
  <2>1. \A i \in DOMAIN M : k.view[M[i].uid] = [flags |-> M[i].flags, raw |-> M[i].raw]
    BY <1>1 DEF InStep
  <2>2. \A i \in DOMAIN M : Content(mb)[M[i].uid] = [flags |-> M[i].flags, raw |-> M[i].raw]
    BY ContentAt DEF WellFormed
  <2>3. QED
    BY <2>1, <2>2 DEF Uids
<1>5. Content(mb) = [u \in Uids(mb) |-> Content(mb)[u]]
  BY ContentAt DEF WellFormed
<1>6. QED
  BY <1>3, <1>4, <1>5 DEF InStep

-----------------------------------------------------------------------------
(* The inductive invariant.                                                *)

\* Lives are told apart by gen, and the client is in step with every mailbox
\* that still lives the life it saw, under whatever name it lives now.  (A
\* mailbox renamed away and back is the reason to speak of gen, not of names.)
StoreInv ==
  /\ TypeOK
  /\ OrderMatchesMap
  /\ \A n \in DOMAIN mailboxes :
       WellFormed(mailboxes[n]) /\ mailboxes[n].gen < nextGen
  /\ \A m, n \in DOMAIN mailboxes : mailboxes[m].gen = mailboxes[n].gen => m = n
  /\ \A n \in DOMAIN client : client[n].gen \in Nat /\ client[n].gen < nextGen
  /\ \A m \in DOMAIN mailboxes, n \in DOMAIN client :
       mailboxes[m].gen = client[n].gen => InStep(mailboxes[m], client[n])

\* MemoryStore::empty() satisfies the invariant.
LEMMA InitInv == Init => StoreInv
<1> SUFFICES ASSUME Init PROVE StoreInv
  OBVIOUS
<1> USE StoreAssumption
<1>1. /\ DOMAIN mailboxes = {INBOX}
      /\ mailboxes[INBOX] = NewMailbox(0)
      /\ DOMAIN client = {}
      /\ nextGen = 1
  BY DEF Init
<1>2. NewMailbox(0) \in MailboxType /\ WellFormed(NewMailbox(0)) /\ NewMailbox(0).gen = 0
  BY NewWellFormed DEF NewMailbox
<1>3. /\ order \in Seq(Names)
      /\ DOMAIN order = {1}
      /\ order[1] = INBOX
  BY DEF Init
<1>4. TypeOK
  BY <1>1, <1>2, <1>3 DEF TypeOK
<1>5. OrderMatchesMap
  BY <1>1, <1>3 DEF OrderMatchesMap
<1>6. QED
  BY <1>1, <1>2, <1>4, <1>5 DEF StoreInv

\* A step that changes one mailbox in place, keeps it well formed and keeps
\* every client in step that was.
LEMMA PutInv ==
  ASSUME StoreInv, NEW n \in DOMAIN mailboxes, NEW mb \in MailboxType,
         WellFormed(mb), mb.gen = mailboxes[n].gen,
         \A k : InStep(mailboxes[n], k) => InStep(mb, k),
         Put(n, mb)
  PROVE  StoreInv'
<1>1. /\ DOMAIN mailboxes' = DOMAIN mailboxes
      /\ \A m \in DOMAIN mailboxes : mailboxes'[m] = IF m = n THEN mb ELSE mailboxes[m]
      /\ order' = order /\ nextGen' = nextGen /\ client' = client
  BY DEF Put, StoreInv, TypeOK
<1>2. TypeOK'
  BY <1>1 DEF StoreInv, TypeOK
<1>3. OrderMatchesMap'
  BY <1>1 DEF StoreInv, OrderMatchesMap
<1>4. \A m \in DOMAIN mailboxes : mailboxes'[m].gen = mailboxes[m].gen
  BY <1>1
<1>5. \A m \in DOMAIN mailboxes : WellFormed(mailboxes'[m])
  BY <1>1 DEF StoreInv
<1>6. ASSUME NEW m \in DOMAIN mailboxes, NEW c \in DOMAIN client,
             mailboxes'[m].gen = client[c].gen
      PROVE  InStep(mailboxes'[m], client[c])
  <2>1. InStep(mailboxes[m], client[c])
    BY <1>4, <1>6 DEF StoreInv
  <2>2. QED
    BY <1>1, <2>1
<1>7. QED
  BY <1>1, <1>2, <1>3, <1>4, <1>5, <1>6 DEF StoreInv

\* Create preserves the invariant: the new life has a new gen.
LEMMA CreateInv ==
  ASSUME StoreInv, NEW n \in Names, Create(n)
  PROVE  StoreInv'
<1>1. /\ DOMAIN mailboxes' = DOMAIN mailboxes \cup {n}
      /\ n \notin DOMAIN mailboxes
      /\ mailboxes'[n] = NewMailbox(nextGen)
      /\ \A m \in DOMAIN mailboxes : mailboxes'[m] = mailboxes[m]
      /\ nextGen' = nextGen + 1 /\ client' = client
      /\ order' = Append(order, n)
  BY DEF Create
<1>2. /\ nextGen \in Nat
      /\ NewMailbox(nextGen) \in MailboxType
      /\ WellFormed(NewMailbox(nextGen))
      /\ NewMailbox(nextGen).gen = nextGen
  BY NewWellFormed DEF StoreInv, TypeOK, NewMailbox
<1>3. /\ order' \in Seq(Names)
      /\ {order'[i] : i \in DOMAIN order'} = {order[i] : i \in DOMAIN order} \cup {n}
      /\ \A i, j \in DOMAIN order' : order'[i] = order'[j] => i = j
  <2>1. order \in Seq(Names) /\ Len(order) \in Nat /\ DOMAIN order = 1 .. Len(order)
    BY LenProperties DEF StoreInv, TypeOK
  <2>2. /\ order' \in Seq(Names)
        /\ DOMAIN order' = 1 .. Len(order) + 1
        /\ \A i \in 1 .. Len(order) : order'[i] = order[i]
        /\ order'[Len(order) + 1] = n
    BY <1>1, <2>1, LenProperties
  <2>3. /\ \A i \in DOMAIN order' : (i \in DOMAIN order /\ order'[i] = order[i]) \/ i = Len(order) + 1
        /\ \A i \in DOMAIN order : i \in DOMAIN order' /\ order'[i] = order[i]
        /\ Len(order) + 1 \in DOMAIN order'
    BY <2>1, <2>2
  <2>4. \A i \in DOMAIN order : order[i] # n
    BY <1>1 DEF StoreInv, OrderMatchesMap
  <2>5. QED
    BY <2>2, <2>3, <2>4 DEF StoreInv, OrderMatchesMap
<1>4. TypeOK'
  BY <1>1, <1>2, <1>3 DEF StoreInv, TypeOK
<1>5. OrderMatchesMap'
  BY <1>1, <1>3 DEF StoreInv, OrderMatchesMap
<1>6. /\ \A m \in DOMAIN mailboxes : mailboxes[m].gen \in Nat /\ mailboxes[m].gen < nextGen
      /\ \A c \in DOMAIN client : client[c].gen \in Nat /\ client[c].gen < nextGen
  BY MailboxParts DEF StoreInv, TypeOK
<1>7. \A m \in DOMAIN mailboxes' : WellFormed(mailboxes'[m]) /\ mailboxes'[m].gen < nextGen'
  BY <1>1, <1>2, <1>6 DEF StoreInv
<1>8. \A l, m \in DOMAIN mailboxes' : mailboxes'[l].gen = mailboxes'[m].gen => l = m
  BY <1>1, <1>2, <1>6 DEF StoreInv
<1>9. \A c \in DOMAIN client' : client'[c].gen \in Nat /\ client'[c].gen < nextGen'
  BY <1>1, <1>2, <1>6
<1>10. \A m \in DOMAIN mailboxes', c \in DOMAIN client' :
         mailboxes'[m].gen = client'[c].gen => InStep(mailboxes'[m], client'[c])
  BY <1>1, <1>2, <1>6 DEF StoreInv
<1>11. QED
  BY <1>4, <1>5, <1>7, <1>8, <1>9, <1>10 DEF StoreInv

\* Delete preserves the invariant.
LEMMA DeleteInv ==
  ASSUME StoreInv, NEW n \in Names, Delete(n)
  PROVE  StoreInv'
<1>1. /\ DOMAIN mailboxes' = DOMAIN mailboxes \ {n}
      /\ n # INBOX /\ n \in DOMAIN mailboxes
      /\ \A m \in DOMAIN mailboxes' : mailboxes'[m] = mailboxes[m]
      /\ nextGen' = nextGen /\ client' = client
      /\ order' = Without(order, CHOOSE i \in DOMAIN order : order[i] = n)
  BY DEF Delete
<1>2. /\ order' \in Seq(Names)
      /\ {order'[i] : i \in DOMAIN order'} = {order[i] : i \in DOMAIN order} \ {n}
      /\ \A i, j \in DOMAIN order' : order'[i] = order'[j] => i = j
  <2> DEFINE p == CHOOSE i \in DOMAIN order : order[i] = n
  <2>1. p \in DOMAIN order /\ order[p] = n
    BY <1>1 DEF StoreInv, OrderMatchesMap
  <2>2. /\ order \in Seq(Names)
        /\ \A i, j \in DOMAIN order : order[i] = order[j] => i = j
    BY DEF StoreInv, TypeOK, OrderMatchesMap
  <2> HIDE DEF p
  <2>3. /\ Without(order, p) \in Seq(Names)
        /\ {Without(order, p)[j] : j \in DOMAIN Without(order, p)} =
             {order[j] : j \in DOMAIN order} \ {order[p]}
        /\ \A j, l \in DOMAIN Without(order, p) :
             Without(order, p)[j] = Without(order, p)[l] => j = l
    BY <2>1, <2>2, WithoutSeq
  <2>4. order' = Without(order, p)
    BY <1>1 DEF p
  <2>5. QED
    BY <2>1, <2>3, <2>4
<1>3. TypeOK'
  BY <1>1, <1>2 DEF StoreInv, TypeOK
<1>4. OrderMatchesMap'
  BY <1>1, <1>2 DEF StoreInv, OrderMatchesMap
<1>5. QED
  BY <1>1, <1>3, <1>4 DEF StoreInv

\* Rename preserves the invariant: the life moves to another name.
LEMMA RenameInv ==
  ASSUME StoreInv, NEW from \in Names, NEW to \in Names, Rename(from, to)
  PROVE  StoreInv'
<1> DEFINE Was(m) == IF m = to THEN from ELSE m
<1>1. /\ DOMAIN mailboxes' = (DOMAIN mailboxes \ {from}) \cup {to}
      /\ from # INBOX /\ from \in DOMAIN mailboxes /\ to \notin DOMAIN mailboxes
      /\ \A m \in DOMAIN mailboxes' : mailboxes'[m] = mailboxes[Was(m)]
      /\ nextGen' = nextGen /\ client' = client
      /\ order' = [i \in DOMAIN order |-> IF order[i] = from THEN to ELSE order[i]]
  BY DEF Rename
<1>2. /\ \A m \in DOMAIN mailboxes' : Was(m) \in DOMAIN mailboxes
      /\ \A l, m \in DOMAIN mailboxes' : Was(l) = Was(m) => l = m
  BY <1>1
<1>3. /\ order' \in Seq(Names)
      /\ {order'[i] : i \in DOMAIN order'} = DOMAIN mailboxes'
      /\ \A i, j \in DOMAIN order' : order'[i] = order'[j] => i = j
  <2>1. order \in Seq(Names) /\ Len(order) \in Nat /\ DOMAIN order = 1 .. Len(order)
    BY LenProperties DEF StoreInv, TypeOK
  <2>2. \A i \in DOMAIN order : order[i] \in Names
    BY <2>1, ElementOfSeq
  <2>3. order' \in [1 .. Len(order) -> Names]
    BY <1>1, <2>1, <2>2
  <2>4. order' \in Seq(Names)
    BY <2>1, <2>3, SeqDef
  <2>5. /\ {order[i] : i \in DOMAIN order} = DOMAIN mailboxes
        /\ \A i, j \in DOMAIN order : order[i] = order[j] => i = j
    BY DEF StoreInv, OrderMatchesMap
  <2>6. /\ DOMAIN order' = DOMAIN order
        /\ \A i \in DOMAIN order : order'[i] = IF order[i] = from THEN to ELSE order[i]
    BY <1>1
  <2>7. \A i, j \in DOMAIN order' : order'[i] = order'[j] => i = j
    BY <1>1, <2>5, <2>6
  <2>8. \A i \in DOMAIN order' : order'[i] \in DOMAIN mailboxes'
    BY <1>1, <2>5, <2>6
  <2>9. ASSUME NEW m \in DOMAIN mailboxes'
        PROVE  m \in {order'[i] : i \in DOMAIN order'}
    <3>1. PICK i \in DOMAIN order : order[i] = Was(m)
      BY <1>2, <2>5
    <3>2. order'[i] = m
      BY <1>1, <2>6, <3>1
    <3>3. QED
      BY <2>6, <3>2
  <2>10. QED
    BY <2>4, <2>7, <2>8, <2>9
<1> HIDE DEF Was
<1>4. TypeOK'
  <2>1. INBOX \in DOMAIN mailboxes' /\ DOMAIN mailboxes' \subseteq Names
    BY <1>1 DEF StoreInv, TypeOK
  <2>2. QED
    BY <1>1, <1>2, <1>3, <2>1 DEF StoreInv, TypeOK
<1>5. OrderMatchesMap'
  BY <1>3 DEF OrderMatchesMap
<1>6. QED
  BY <1>1, <1>2, <1>4, <1>5 DEF StoreInv

\* ClientSync preserves the invariant: the client is in step everywhere.
LEMMA SyncInv ==
  ASSUME StoreInv, ClientSync
  PROVE  StoreInv'
<1>1. /\ DOMAIN client' = DOMAIN mailboxes
      /\ \A n \in DOMAIN mailboxes : client'[n] = Snapshot(mailboxes[n])
      /\ mailboxes' = mailboxes /\ order' = order /\ nextGen' = nextGen
  BY DEF ClientSync, jmap_state
<1>2. \A n \in DOMAIN mailboxes : Snapshot(mailboxes[n]).gen = mailboxes[n].gen
  BY DEF Snapshot
<1>3. \A n \in DOMAIN mailboxes : InStep(mailboxes[n], Snapshot(mailboxes[n]))
  BY SnapshotInStep DEF StoreInv, TypeOK
<1>4. \A n \in DOMAIN mailboxes : mailboxes[n].gen \in Nat
  BY MailboxParts DEF StoreInv, TypeOK
<1>5. TypeOK' /\ OrderMatchesMap'
  BY <1>1 DEF StoreInv, TypeOK, OrderMatchesMap
<1>6. QED
  BY <1>1, <1>2, <1>3, <1>4, <1>5 DEF StoreInv

\* Flags written to a message leave the store in order.
LEMMA WriteInv ==
  ASSUME StoreInv, NEW n \in DOMAIN mailboxes, NEW i \in DOMAIN mailboxes[n].messages,
         NEW flags \in SUBSET Flags, Put(n, write_flags(mailboxes[n], i, flags))
  PROVE  StoreInv'
<1> DEFINE mb == write_flags(mailboxes[n], i, flags)
<1>0. mailboxes[n] \in MailboxType /\ WellFormed(mailboxes[n])
  BY DEF StoreInv, TypeOK
<1>1. mb \in MailboxType /\ mb.gen = mailboxes[n].gen
  BY <1>0, WriteFlagsFields
<1>2. WellFormed(mb)
  BY <1>0, WriteFlagsWellFormed
<1>3. \A k : InStep(mailboxes[n], k) => InStep(mb, k)
  BY <1>0, WriteFlagsInStep
<1> HIDE DEF mb
<1>4. Put(n, mb)
  BY DEF mb
<1>5. QED
  BY <1>1, <1>2, <1>3, <1>4, PutInv

\* A message removed leaves the store in order.
LEMMA RemoveInv ==
  ASSUME StoreInv, NEW n \in DOMAIN mailboxes, NEW i \in DOMAIN mailboxes[n].messages,
         Put(n, remove_at(mailboxes[n], i))
  PROVE  StoreInv'
<1> DEFINE mb == remove_at(mailboxes[n], i)
<1>0. mailboxes[n] \in MailboxType /\ WellFormed(mailboxes[n])
  BY DEF StoreInv, TypeOK
<1>1. mb \in MailboxType /\ mb.gen = mailboxes[n].gen
  BY <1>0, RemoveAtFields
<1>2. WellFormed(mb)
  BY <1>0, RemoveAtWellFormed
<1>3. \A k : InStep(mailboxes[n], k) => InStep(mb, k)
  BY <1>0, RemoveAtInStep
<1> HIDE DEF mb
<1>4. Put(n, mb)
  BY DEF mb
<1>5. QED
  BY <1>1, <1>2, <1>3, <1>4, PutInv

\* Every step preserves the invariant.
LEMMA NextInv == StoreInv /\ [Next]_vars => StoreInv'
<1> SUFFICES ASSUME StoreInv, [Next]_vars PROVE StoreInv'
  OBVIOUS
<1> USE StoreAssumption
<1>0. \A n \in DOMAIN mailboxes : mailboxes[n] \in MailboxType /\ WellFormed(mailboxes[n])
  BY DEF StoreInv, TypeOK
<1>1. ASSUME NEW n \in Names, Create(n) PROVE StoreInv'
  BY <1>1, CreateInv
<1>2. ASSUME NEW n \in Names, Delete(n) PROVE StoreInv'
  BY <1>2, DeleteInv
<1>3. ASSUME NEW from \in Names, NEW to \in Names, Rename(from, to) PROVE StoreInv'
  BY <1>3, RenameInv
<1>d. ASSUME NEW n \in DOMAIN mailboxes, NEW raw \in Raws, NEW flags \in SUBSET Flags,
             Put(n, append(mailboxes[n], raw, flags))
      PROVE  StoreInv'
  <2> DEFINE mb == append(mailboxes[n], raw, flags)
  <2>1. mb \in MailboxType /\ mb.gen = mailboxes[n].gen
    BY <1>0, AppendFields
  <2>2. WellFormed(mb)
    BY <1>0, AppendWellFormed
  <2>3. \A k : InStep(mailboxes[n], k) => InStep(mb, k)
    BY <1>0, AppendInStep
  <2> HIDE DEF mb
  <2>4. Put(n, mb)
    BY <1>d DEF mb
  <2>5. QED
    BY <2>1, <2>2, <2>3, <2>4, PutInv
<1>4. ASSUME NEW n \in Names, NEW raw \in Raws, DeliverMote(n, raw) PROVE StoreInv'
  BY <1>4, <1>d DEF DeliverMote
<1>5. ASSUME NEW n \in Names, NEW raw \in Raws, NEW flags \in SUBSET Flags,
             DeliverRaw(n, raw, flags)
      PROVE  StoreInv'
  BY <1>5, <1>d DEF DeliverRaw
<1>6. ASSUME NEW n \in Names, NEW i \in 1 .. MaxUid, RemoveAt(n, i) PROVE StoreInv'
  BY <1>6, RemoveInv DEF RemoveAt
<1>7. ASSUME NEW n \in Names, NEW i \in 1 .. MaxUid, NEW flags \in SUBSET Flags,
             WriteFlags(n, i, flags)
      PROVE  StoreInv'
  BY <1>7, WriteInv DEF WriteFlags
<1>8. CASE ClientSync
  BY <1>8, SyncInv
<1>9. CASE UNCHANGED vars
  BY <1>9 DEF vars, StoreInv, TypeOK, OrderMatchesMap
<1>10. QED
  BY <1>1, <1>2, <1>3, <1>4, <1>5, <1>6, <1>7, <1>8, <1>9 DEF Next

-----------------------------------------------------------------------------
(* How a mailbox follows itself.                                           *)

\* A mailbox left alone follows itself.
LEMMA FollowsItself ==
  ASSUME NEW mb \in MailboxType
  PROVE  Follows(mb, mb)
<1>1. mb.uid_next \in Nat /\ mb.highest_modseq \in Nat
  BY MailboxParts
<1>2. QED
  BY <1>1 DEF Follows

\* A live UID's body, found at the place where the message is.
LEMMA BodyAt ==
  ASSUME NEW mb \in MailboxType, UidsAscending(mb), NEW i \in DOMAIN mb.messages
  PROVE  Content(mb)[mb.messages[i].uid].raw = mb.messages[i].raw
<1>1. Content(mb)[mb.messages[i].uid] =
        [flags |-> mb.messages[i].flags, raw |-> mb.messages[i].raw]
  BY ContentAt
<1>2. QED
  BY <1>1

\* append reuses no UID.
LEMMA AppendFollows ==
  ASSUME NEW mb \in MailboxType, WellFormed(mb),
         NEW raw \in Raws, NEW flags \in SUBSET Flags
  PROVE  Follows(mb, append(mb, raw, flags))
<1> DEFINE new == append(mb, raw, flags)
           n   == Len(mb.messages)
           M   == mb.messages
           N   == new.messages
<1> HIDE DEF new, n, M, N
<1>1. /\ new \in MailboxType
      /\ new.uid_next = mb.uid_next + 1
      /\ new.highest_modseq = mb.highest_modseq + 1
      /\ DOMAIN N = 1 .. n + 1
      /\ \A i \in 1 .. n : N[i] = M[i]
  BY AppendFields DEF new, n, M, N
<1>2. /\ WellFormed(new)
      /\ Uids(new) = Uids(mb) \cup {mb.uid_next}
  BY AppendWellFormed DEF new
<1>3. /\ mb.uid_next \in Nat /\ mb.highest_modseq \in Nat
      /\ n \in Nat /\ DOMAIN M = 1 .. n
  BY MailboxParts DEF n, M
<1>4. ASSUME NEW u \in Uids(new), u < mb.uid_next
      PROVE  u \in Uids(mb) /\ Content(new)[u].raw = Content(mb)[u].raw
  <2>1. u \in Uids(mb)
    BY <1>2, <1>3, <1>4
  <2>2. PICK i \in DOMAIN M : M[i].uid = u
    BY <2>1 DEF Uids, M
  <2>3. i \in DOMAIN N /\ N[i] = M[i]
    BY <1>1, <1>3
  <2>4. Content(mb)[u].raw = M[i].raw
    BY <2>2, BodyAt DEF WellFormed, M
  <2>5. Content(new)[u].raw = N[i].raw
    BY <1>1, <1>2, <2>2, <2>3, BodyAt DEF WellFormed, N
  <2>6. QED
    BY <2>1, <2>3, <2>4, <2>5
<1>5. mb.uid_next <= new.uid_next /\ mb.highest_modseq <= new.highest_modseq
  BY <1>1, <1>3
<1>6. QED
  BY <1>4, <1>5 DEF Follows, new

\* write_flags changes no body.
LEMMA WriteFlagsFollows ==
  ASSUME NEW mb \in MailboxType, WellFormed(mb),
         NEW i \in DOMAIN mb.messages, NEW flags \in SUBSET Flags
  PROVE  Follows(mb, write_flags(mb, i, flags))
<1> DEFINE new == write_flags(mb, i, flags)
           M   == mb.messages
           N   == new.messages
<1> HIDE DEF new, M, N
<1>1. /\ new \in MailboxType
      /\ new.uid_next = mb.uid_next
      /\ new.highest_modseq = mb.highest_modseq + 1
      /\ DOMAIN N = DOMAIN M
      /\ \A j \in DOMAIN M : N[j].uid = M[j].uid /\ N[j].raw = M[j].raw
  BY WriteFlagsFields DEF new, M, N
<1>2. /\ WellFormed(new)
      /\ Uids(new) = Uids(mb)
  BY WriteFlagsWellFormed DEF new
<1>3. mb.uid_next \in Nat /\ mb.highest_modseq \in Nat
  BY MailboxParts
<1>4. ASSUME NEW u \in Uids(mb)
      PROVE  Content(new)[u].raw = Content(mb)[u].raw
  <2>1. PICK j \in DOMAIN M : M[j].uid = u
    BY DEF Uids, M
  <2>2. Content(mb)[u].raw = M[j].raw
    BY <2>1, BodyAt DEF WellFormed, M
  <2>3. Content(new)[u].raw = N[j].raw
    BY <1>1, <1>2, <2>1, BodyAt DEF WellFormed, N
  <2>4. QED
    BY <1>1, <2>2, <2>3
<1>5. mb.uid_next <= new.uid_next /\ mb.highest_modseq <= new.highest_modseq
  BY <1>1, <1>3
<1>6. QED
  BY <1>2, <1>4, <1>5 DEF Follows, new

\* remove_at brings no UID back.
LEMMA RemoveAtFollows ==
  ASSUME NEW mb \in MailboxType, WellFormed(mb), NEW i \in DOMAIN mb.messages
  PROVE  Follows(mb, remove_at(mb, i))
<1> DEFINE new == remove_at(mb, i)
           n   == Len(mb.messages)
           M   == mb.messages
           N   == new.messages
<1> HIDE DEF new, n, M, N
<1>1. /\ new \in MailboxType
      /\ new.uid_next = mb.uid_next
      /\ new.highest_modseq = mb.highest_modseq + 1
      /\ i \in 1 .. n
      /\ DOMAIN N = 1 .. n - 1
      /\ \A j \in 1 .. n - 1 : N[j] = IF j < i THEN M[j] ELSE M[j + 1]
  BY RemoveAtFields DEF new, n, M, N
<1>2. /\ WellFormed(new)
      /\ Uids(new) \subseteq Uids(mb)
  BY RemoveAtWellFormed DEF new
<1>3. /\ mb.uid_next \in Nat /\ mb.highest_modseq \in Nat
      /\ n \in Nat /\ DOMAIN M = 1 .. n
  BY MailboxParts DEF n, M
<1>4. ASSUME NEW u \in Uids(new)
      PROVE  Content(new)[u].raw = Content(mb)[u].raw
  <2>1. PICK j \in DOMAIN N : N[j].uid = u
    BY DEF Uids, N
  <2>2. j \in DOMAIN M /\ j + 1 \in DOMAIN M
    BY <1>1, <1>3
  <2>3. PICK l \in DOMAIN M : N[j] = M[l]
    BY <1>1, <2>1, <2>2
  <2>4. Content(new)[u].raw = N[j].raw
    BY <1>1, <1>2, <2>1, BodyAt DEF WellFormed, N
  <2>5. Content(mb)[u].raw = M[l].raw
    BY <2>1, <2>3, BodyAt DEF WellFormed, M
  <2>6. QED
    BY <2>3, <2>4, <2>5
<1>5. mb.uid_next <= new.uid_next /\ mb.highest_modseq <= new.highest_modseq
  BY <1>1, <1>3
<1>6. QED
  BY <1>2, <1>4, <1>5 DEF Follows, new

\* A step that changes one mailbox, to one that follows it.
LEMMA PutFollows ==
  ASSUME StoreInv, NEW n \in DOMAIN mailboxes, NEW mb,
         Follows(mailboxes[n], mb), mb.gen = mailboxes[n].gen, Put(n, mb)
  PROVE  LivesFollow
<1>1. /\ DOMAIN mailboxes' = DOMAIN mailboxes
      /\ \A m \in DOMAIN mailboxes : mailboxes'[m] = IF m = n THEN mb ELSE mailboxes[m]
  BY DEF Put, StoreInv, TypeOK
<1>2. ASSUME NEW l \in DOMAIN mailboxes, NEW m \in DOMAIN mailboxes',
             mailboxes[l].gen = mailboxes'[m].gen
      PROVE  Follows(mailboxes[l], mailboxes'[m])
  <2>1. l = m
    BY <1>1, <1>2 DEF StoreInv
  <2>2. QED
    BY <1>1, <2>1, FollowsItself DEF StoreInv, TypeOK
<1>3. QED
  BY <1>2 DEF LivesFollow

\* In every step every life follows itself.
LEMMA NextFollows == StoreInv /\ Next => LivesFollow
<1> SUFFICES ASSUME StoreInv, Next PROVE LivesFollow
  OBVIOUS
<1> USE StoreAssumption
<1>0. \A n \in DOMAIN mailboxes : /\ mailboxes[n] \in MailboxType
                                  /\ WellFormed(mailboxes[n])
                                  /\ mailboxes[n].gen \in Nat
                                  /\ mailboxes[n].gen < nextGen
                                  /\ Follows(mailboxes[n], mailboxes[n])
  BY FollowsItself, MailboxParts DEF StoreInv, TypeOK
<1>i. \A m, n \in DOMAIN mailboxes : mailboxes[m].gen = mailboxes[n].gen => m = n
  BY DEF StoreInv
<1>1. ASSUME NEW n \in Names, Create(n) PROVE LivesFollow
  <2>1. /\ DOMAIN mailboxes' = DOMAIN mailboxes \cup {n}
        /\ mailboxes'[n] = NewMailbox(nextGen)
        /\ \A m \in DOMAIN mailboxes : mailboxes'[m] = mailboxes[m]
    BY <1>1 DEF Create
  <2>2. NewMailbox(nextGen).gen = nextGen /\ nextGen \in Nat
    BY DEF NewMailbox, StoreInv, TypeOK
  <2>3. \A m \in DOMAIN mailboxes : mailboxes[m].gen # nextGen
    BY <1>0, <2>2
  <2>4. QED
    BY <1>0, <1>i, <2>1, <2>2, <2>3 DEF LivesFollow
<1>2. ASSUME NEW n \in Names, Delete(n) PROVE LivesFollow
  <2>1. /\ DOMAIN mailboxes' = DOMAIN mailboxes \ {n}
        /\ \A m \in DOMAIN mailboxes' : mailboxes'[m] = mailboxes[m]
    BY <1>2 DEF Delete
  <2>2. QED
    BY <1>0, <1>i, <2>1 DEF LivesFollow
<1>3. ASSUME NEW from \in Names, NEW to \in Names, Rename(from, to) PROVE LivesFollow
  <2>1. /\ DOMAIN mailboxes' = (DOMAIN mailboxes \ {from}) \cup {to}
        /\ from \in DOMAIN mailboxes
        /\ \A m \in DOMAIN mailboxes' :
             mailboxes'[m] = IF m = to THEN mailboxes[from] ELSE mailboxes[m]
    BY <1>3 DEF Rename
  <2>2. QED
    BY <1>0, <1>i, <2>1 DEF LivesFollow
<1>d. ASSUME NEW n \in DOMAIN mailboxes, NEW raw \in Raws, NEW flags \in SUBSET Flags,
             Put(n, append(mailboxes[n], raw, flags))
      PROVE  LivesFollow
  <2>1. append(mailboxes[n], raw, flags).gen = mailboxes[n].gen
    BY <1>0, AppendFields
  <2>2. Follows(mailboxes[n], append(mailboxes[n], raw, flags))
    BY <1>0, AppendFollows
  <2>3. QED
    BY <1>d, <2>1, <2>2, PutFollows
<1>4. ASSUME NEW n \in Names, NEW raw \in Raws, DeliverMote(n, raw) PROVE LivesFollow
  BY <1>4, <1>d DEF DeliverMote
<1>5. ASSUME NEW n \in Names, NEW raw \in Raws, NEW flags \in SUBSET Flags,
             DeliverRaw(n, raw, flags)
      PROVE  LivesFollow
  BY <1>5, <1>d DEF DeliverRaw
<1>6. ASSUME NEW n \in Names, NEW i \in 1 .. MaxUid, RemoveAt(n, i) PROVE LivesFollow
  <2>1. /\ n \in DOMAIN mailboxes /\ i \in DOMAIN mailboxes[n].messages
        /\ Put(n, remove_at(mailboxes[n], i))
    BY <1>6 DEF RemoveAt
  <2>2. remove_at(mailboxes[n], i).gen = mailboxes[n].gen
    BY <1>0, <2>1, RemoveAtFields
  <2>3. Follows(mailboxes[n], remove_at(mailboxes[n], i))
    BY <1>0, <2>1, RemoveAtFollows
  <2>4. QED
    BY <2>1, <2>2, <2>3, PutFollows
<1>7. ASSUME NEW n \in Names, NEW i \in 1 .. MaxUid, NEW flags \in SUBSET Flags,
             WriteFlags(n, i, flags)
      PROVE  LivesFollow
  <2>1. /\ n \in DOMAIN mailboxes /\ i \in DOMAIN mailboxes[n].messages
        /\ Put(n, write_flags(mailboxes[n], i, flags))
    BY <1>7 DEF WriteFlags
  <2>2. write_flags(mailboxes[n], i, flags).gen = mailboxes[n].gen
    BY <1>0, <2>1, WriteFlagsFields
  <2>3. Follows(mailboxes[n], write_flags(mailboxes[n], i, flags))
    BY <1>0, <2>1, WriteFlagsFollows
  <2>4. QED
    BY <2>1, <2>2, <2>3, PutFollows
<1>8. CASE ClientSync
  BY <1>8, <1>0, <1>i DEF ClientSync, LivesFollow
<1>9. QED
  BY <1>1, <1>2, <1>3, <1>4, <1>5, <1>6, <1>7, <1>8 DEF Next

-----------------------------------------------------------------------------
(* The store implements MailboxLives.                                      *)

\* The first life is INBOX's: no operation creates, deletes or renames INBOX.
InboxFirst == mailboxes[INBOX].gen = 0

\* The lives of a map of mailboxes, Lives of the current one.
LivesOf(boxes) ==
  [g \in {boxes[n].gen : n \in DOMAIN boxes} |->
     LifeOf(boxes[CHOOSE n \in DOMAIN boxes : boxes[n].gen = g])]

GensDistinct(boxes) ==
  \A m, n \in DOMAIN boxes : boxes[m].gen = boxes[n].gen => m = n

\* Lives has the life of every mailbox, under its gen, and no other.
LEMMA LivesAt ==
  ASSUME NEW boxes, GensDistinct(boxes)
  PROVE  /\ LivesOf(boxes) = [g \in DOMAIN LivesOf(boxes) |-> LivesOf(boxes)[g]]
         /\ DOMAIN LivesOf(boxes) = {boxes[n].gen : n \in DOMAIN boxes}
         /\ \A n \in DOMAIN boxes : LivesOf(boxes)[boxes[n].gen] = LifeOf(boxes[n])
<1>1. ASSUME NEW n \in DOMAIN boxes
      PROVE  LivesOf(boxes)[boxes[n].gen] = LifeOf(boxes[n])
  <2> DEFINE c == CHOOSE m \in DOMAIN boxes : boxes[m].gen = boxes[n].gen
  <2>1. c \in DOMAIN boxes /\ boxes[c].gen = boxes[n].gen
    OBVIOUS
  <2>2. c = n
    BY <2>1 DEF GensDistinct
  <2>3. LivesOf(boxes)[boxes[n].gen] = LifeOf(boxes[c])
    BY DEF LivesOf
  <2>4. QED
    BY <2>2, <2>3
<1>2. QED
  BY <1>1 DEF LivesOf

\* A new mailbox is an empty life.
LEMMA NewLife ==
  ASSUME NEW g \in Nat
  PROVE  LifeOf(NewMailbox(g)) = L!Empty
<1>1. Uids(NewMailbox(g)) = {}
  BY DEF Uids, NewMailbox
<1>2. NewMailbox(g).uid_next = 1 /\ NewMailbox(g).highest_modseq = 1
  BY DEF NewMailbox
<1>3. QED
  BY <1>1, <1>2 DEF LifeOf, L!Empty

\* append delivers one body under the next UID.
LEMMA AppendLife ==
  ASSUME NEW mb \in MailboxType, WellFormed(mb),
         NEW raw \in Raws, NEW flags \in SUBSET Flags
  PROVE  LifeOf(append(mb, raw, flags)) = L!Delivered(LifeOf(mb), raw)
<1> DEFINE new == append(mb, raw, flags)
           n   == Len(mb.messages)
           N   == new.messages
<1> HIDE DEF new, n, N
<1>1. /\ new \in MailboxType
      /\ new.uid_next = mb.uid_next + 1
      /\ new.highest_modseq = mb.highest_modseq + 1
      /\ DOMAIN N = 1 .. n + 1
      /\ N[n + 1] = NewMessage(mb.uid_next, flags, mb.highest_modseq + 1, raw)
  BY AppendFields DEF new, n, N
<1>2. /\ WellFormed(new)
      /\ Uids(new) = Uids(mb) \cup {mb.uid_next}
      /\ mb.uid_next \notin Uids(mb)
  BY AppendWellFormed DEF new
<1>3. \A u \in Uids(mb) : Content(new)[u].raw = Content(mb)[u].raw
  <2>1. Uids(mb) \subseteq 1 .. mb.uid_next - 1 /\ mb.uid_next \in Nat
    BY MailboxParts DEF WellFormed, UidsAccountedFor
  <2>2. QED
    BY <1>2, <2>1, AppendFollows DEF Follows, new
<1>4. Content(new)[mb.uid_next].raw = raw
  <2>1. n + 1 \in DOMAIN N
    BY <1>1, MailboxParts DEF n
  <2>2. Content(new)[N[n + 1].uid].raw = N[n + 1].raw
    BY <1>1, <1>2, <2>1, BodyAt DEF WellFormed, N
  <2>3. QED
    BY <1>1, <2>2 DEF NewMessage
<1>5. [u \in Uids(new) |-> Content(new)[u].raw] =
        [u \in Uids(mb) \cup {mb.uid_next} |->
           IF u = mb.uid_next THEN raw ELSE [v \in Uids(mb) |-> Content(mb)[v].raw][u]]
  BY <1>2, <1>3, <1>4
<1>6. QED
  BY <1>1, <1>5 DEF LifeOf, L!Delivered, new

\* The changes of a life that hand out no UID, field by field.
LEMMA ChangedFields ==
  ASSUME NEW mb, NEW u
  PROVE  /\ L!Flagged(LifeOf(mb)) =
              [next   |-> mb.uid_next,
               stamp  |-> mb.highest_modseq + 1,
               bodies |-> LifeOf(mb).bodies]
         /\ L!Expunged(LifeOf(mb), u) =
              [next   |-> mb.uid_next,
               stamp  |-> mb.highest_modseq + 1,
               bodies |-> [v \in DOMAIN LifeOf(mb).bodies \ {u} |-> LifeOf(mb).bodies[v]]]
<1> DEFINE life == LifeOf(mb)
           bodies == life.bodies
           kept == [v \in DOMAIN bodies \ {u} |-> bodies[v]]
           flagged  == L!Flagged(life)
           expunged == L!Expunged(life, u)
<1>1. life = [next |-> mb.uid_next, stamp |-> mb.highest_modseq, bodies |-> bodies]
  BY DEF LifeOf
<1>2. flagged = [life EXCEPT !.stamp = @ + 1]
  BY DEF L!Flagged
<1>3. expunged = [life EXCEPT !.stamp = @ + 1, !.bodies = kept]
  BY DEF L!Expunged
<1> HIDE DEF life, bodies, kept, flagged, expunged
<1>4. flagged = [next |-> mb.uid_next, stamp |-> mb.highest_modseq + 1, bodies |-> bodies]
  BY <1>1, <1>2
<1>5. expunged = [next |-> mb.uid_next, stamp |-> mb.highest_modseq + 1, bodies |-> kept]
  BY <1>1, <1>3
<1>6. QED
  BY <1>4, <1>5 DEF life, bodies, kept, flagged, expunged

\* write_flags touches no body and no UID.
LEMMA WriteFlagsLife ==
  ASSUME NEW mb \in MailboxType, WellFormed(mb),
         NEW i \in DOMAIN mb.messages, NEW flags \in SUBSET Flags
  PROVE  LifeOf(write_flags(mb, i, flags)) = L!Flagged(LifeOf(mb))
<1> DEFINE new == write_flags(mb, i, flags)
<1> HIDE DEF new
<1>1. new.uid_next = mb.uid_next /\ new.highest_modseq = mb.highest_modseq + 1
  BY WriteFlagsFields DEF new
<1>2. Uids(new) = Uids(mb)
  BY WriteFlagsWellFormed DEF new
<1>3. \A u \in Uids(mb) : Content(new)[u].raw = Content(mb)[u].raw
  <2>1. Uids(mb) \subseteq 1 .. mb.uid_next - 1 /\ mb.uid_next \in Nat
    BY MailboxParts DEF WellFormed, UidsAccountedFor
  <2>2. QED
    BY <1>2, <2>1, WriteFlagsFollows DEF Follows, new
<1>4. [u \in Uids(new) |-> Content(new)[u].raw] = [u \in Uids(mb) |-> Content(mb)[u].raw]
  BY <1>2, <1>3
<1>5. LifeOf(new) = [next   |-> mb.uid_next,
                     stamp  |-> mb.highest_modseq + 1,
                     bodies |-> LifeOf(mb).bodies]
  BY <1>1, <1>4 DEF LifeOf
<1>6. QED
  BY <1>5, ChangedFields DEF new

\* remove_at takes one body out.
LEMMA RemoveAtLife ==
  ASSUME NEW mb \in MailboxType, WellFormed(mb), NEW i \in DOMAIN mb.messages
  PROVE  LifeOf(remove_at(mb, i)) = L!Expunged(LifeOf(mb), mb.messages[i].uid)
<1> DEFINE new == remove_at(mb, i)
           x   == mb.messages[i].uid
<1> HIDE DEF new, x
<1>1. new.uid_next = mb.uid_next /\ new.highest_modseq = mb.highest_modseq + 1
  BY RemoveAtFields DEF new
<1>2. Uids(new) = Uids(mb) \ {x}
  BY RemoveAtWellFormed DEF new, x
<1>3. \A u \in Uids(new) : Content(new)[u].raw = Content(mb)[u].raw
  <2>1. Uids(mb) \subseteq 1 .. mb.uid_next - 1 /\ mb.uid_next \in Nat
    BY MailboxParts DEF WellFormed, UidsAccountedFor
  <2>2. QED
    BY <1>2, <2>1, RemoveAtFollows DEF Follows, new
<1>4. [u \in Uids(new) |-> Content(new)[u].raw] =
        [v \in Uids(mb) \ {x} |-> [u \in Uids(mb) |-> Content(mb)[u].raw][v]]
  BY <1>2, <1>3
<1>5. LifeOf(new) = [next   |-> mb.uid_next,
                     stamp  |-> mb.highest_modseq + 1,
                     bodies |-> [v \in DOMAIN LifeOf(mb).bodies \ {x} |-> LifeOf(mb).bodies[v]]]
  BY <1>1, <1>4 DEF LifeOf
<1>6. QED
  BY <1>5, ChangedFields DEF new, x

\* INBOX keeps the first life.
LEMMA InboxStays == StoreInv /\ InboxFirst /\ [Next]_vars => InboxFirst'
<1> SUFFICES ASSUME StoreInv, InboxFirst, [Next]_vars PROVE InboxFirst'
  OBVIOUS
<1>0. /\ INBOX \in DOMAIN mailboxes
      /\ \A n \in DOMAIN mailboxes : mailboxes[n] \in MailboxType
      /\ Recent \in Flags
  BY StoreAssumption DEF StoreInv, TypeOK
<1>p. ASSUME NEW n \in DOMAIN mailboxes, NEW mb, mb.gen = mailboxes[n].gen, Put(n, mb)
      PROVE  InboxFirst'
  BY <1>0, <1>p DEF Put, InboxFirst
<1>1. ASSUME NEW n \in Names, Create(n) PROVE InboxFirst'
  BY <1>0, <1>1 DEF Create, InboxFirst
<1>2. ASSUME NEW n \in Names, Delete(n) PROVE InboxFirst'
  BY <1>0, <1>2 DEF Delete, InboxFirst
<1>3. ASSUME NEW from \in Names, NEW to \in Names, Rename(from, to) PROVE InboxFirst'
  BY <1>0, <1>3 DEF Rename, InboxFirst
<1>4. ASSUME NEW n \in Names, NEW raw \in Raws, DeliverMote(n, raw) PROVE InboxFirst'
  BY <1>0, <1>4, <1>p, AppendFields DEF DeliverMote
<1>5. ASSUME NEW n \in Names, NEW raw \in Raws, NEW flags \in SUBSET Flags,
             DeliverRaw(n, raw, flags)
      PROVE  InboxFirst'
  BY <1>0, <1>5, <1>p, AppendFields DEF DeliverRaw
<1>6. ASSUME NEW n \in Names, NEW i \in 1 .. MaxUid, RemoveAt(n, i) PROVE InboxFirst'
  BY <1>0, <1>6, <1>p, RemoveAtFields DEF RemoveAt
<1>7. ASSUME NEW n \in Names, NEW i \in 1 .. MaxUid, NEW flags \in SUBSET Flags,
             WriteFlags(n, i, flags)
      PROVE  InboxFirst'
  BY <1>0, <1>7, <1>p, WriteFlagsFields DEF WriteFlags
<1>8. CASE ClientSync
  BY <1>8 DEF ClientSync, InboxFirst
<1>9. CASE UNCHANGED vars
  BY <1>9 DEF vars, InboxFirst
<1>10. QED
  BY <1>1, <1>2, <1>3, <1>4, <1>5, <1>6, <1>7, <1>8, <1>9 DEF Next

\* A step that changes one mailbox is a change of its life.
LEMMA PutChange ==
  ASSUME StoreInv, StoreInv', NEW n \in DOMAIN mailboxes, NEW mb,
         mb.gen = mailboxes[n].gen, Put(n, mb),
         LifeOf(mb) \in L!Changed(LifeOf(mailboxes[n]))
  PROVE  L!Change
<1> DEFINE g == mailboxes[n].gen
<1>1. GensDistinct(mailboxes) /\ GensDistinct(mailboxes')
  BY DEF StoreInv, GensDistinct
<1>2. Lives = LivesOf(mailboxes) /\ Lives' = LivesOf(mailboxes')
  BY DEF Lives, LivesOf
<1>3. /\ DOMAIN mailboxes' = DOMAIN mailboxes
      /\ \A m \in DOMAIN mailboxes : mailboxes'[m] = IF m = n THEN mb ELSE mailboxes[m]
      /\ nextGen' = nextGen
  BY DEF Put, StoreInv, TypeOK
<1>4. \A m \in DOMAIN mailboxes : mailboxes'[m].gen = mailboxes[m].gen
  BY <1>3
<1> HIDE DEF g
<1>5. /\ Lives = [h \in DOMAIN Lives |-> Lives[h]]
      /\ DOMAIN Lives = {mailboxes[m].gen : m \in DOMAIN mailboxes}
      /\ \A m \in DOMAIN mailboxes : Lives[mailboxes[m].gen] = LifeOf(mailboxes[m])
  BY <1>1, <1>2, LivesAt
<1>6. /\ Lives' = [h \in DOMAIN Lives' |-> Lives'[h]]
      /\ DOMAIN Lives' = {mailboxes'[m].gen : m \in DOMAIN mailboxes'}
      /\ \A m \in DOMAIN mailboxes' : Lives'[mailboxes'[m].gen] = LifeOf(mailboxes'[m])
  BY <1>1, <1>2, LivesAt
<1>7. DOMAIN Lives' = DOMAIN Lives /\ g \in DOMAIN Lives
  BY <1>3, <1>4, <1>5, <1>6 DEF g
<1>8. Lives[g] = LifeOf(mailboxes[n]) /\ Lives'[g] = LifeOf(mb)
  BY <1>3, <1>4, <1>5, <1>6 DEF g
<1>9. \A h \in DOMAIN Lives : h # g => Lives'[h] = Lives[h]
  BY <1>3, <1>4, <1>5, <1>6 DEF g
<1>10. Lives' = [Lives EXCEPT ![g] = Lives'[g]]
  BY <1>5, <1>6, <1>7, <1>9
<1>11. QED
  BY <1>3, <1>7, <1>8, <1>10 DEF L!Change

\* Every step of the store is a step of the lives, or none.
LEMMA NextLives ==
  StoreInv /\ StoreInv' /\ InboxFirst /\ Next => L!Next \/ UNCHANGED <<Lives, nextGen>>
<1> SUFFICES ASSUME StoreInv, StoreInv', InboxFirst, Next
             PROVE  L!Next \/ UNCHANGED <<Lives, nextGen>>
  OBVIOUS
<1>0. /\ \A n \in DOMAIN mailboxes : /\ mailboxes[n] \in MailboxType
                                     /\ WellFormed(mailboxes[n])
                                     /\ mailboxes[n].gen \in Nat
                                     /\ mailboxes[n].gen < nextGen
      /\ INBOX \in DOMAIN mailboxes
      /\ nextGen \in Nat
      /\ Recent \in Flags
  BY StoreAssumption, MailboxParts DEF StoreInv, TypeOK
<1>g. GensDistinct(mailboxes) /\ GensDistinct(mailboxes')
  BY DEF StoreInv, GensDistinct
<1>l. Lives = LivesOf(mailboxes) /\ Lives' = LivesOf(mailboxes')
  BY DEF Lives, LivesOf
<1>a. /\ Lives = [h \in DOMAIN Lives |-> Lives[h]]
      /\ DOMAIN Lives = {mailboxes[m].gen : m \in DOMAIN mailboxes}
      /\ \A m \in DOMAIN mailboxes : Lives[mailboxes[m].gen] = LifeOf(mailboxes[m])
  BY <1>g, <1>l, LivesAt
<1>b. /\ Lives' = [h \in DOMAIN Lives' |-> Lives'[h]]
      /\ DOMAIN Lives' = {mailboxes'[m].gen : m \in DOMAIN mailboxes'}
      /\ \A m \in DOMAIN mailboxes' : Lives'[mailboxes'[m].gen] = LifeOf(mailboxes'[m])
  BY <1>g, <1>l, LivesAt
<1>1. ASSUME NEW n \in Names, Create(n) PROVE L!Begin
  <2>1. /\ DOMAIN mailboxes' = DOMAIN mailboxes \cup {n}
        /\ n \notin DOMAIN mailboxes
        /\ mailboxes'[n] = NewMailbox(nextGen)
        /\ \A m \in DOMAIN mailboxes : mailboxes'[m] = mailboxes[m]
        /\ nextGen' = nextGen + 1
    BY <1>1 DEF Create
  <2>2. mailboxes'[n].gen = nextGen /\ LifeOf(mailboxes'[n]) = L!Empty
    BY <1>0, <2>1, NewLife DEF NewMailbox
  <2>3. DOMAIN Lives' = DOMAIN Lives \cup {nextGen}
    BY <1>a, <1>b, <2>1, <2>2
  <2>4. Lives'[nextGen] = L!Empty
    BY <1>b, <2>1, <2>2
  <2>5. \A g \in DOMAIN Lives : g # nextGen /\ Lives'[g] = Lives[g]
    BY <1>0, <1>a, <1>b, <2>1
  <2>6. Lives' = [g \in DOMAIN Lives \cup {nextGen} |->
                    IF g = nextGen THEN L!Empty ELSE Lives[g]]
    BY <1>b, <2>3, <2>4, <2>5
  <2>7. QED
    BY <2>1, <2>6 DEF L!Begin
<1>2. ASSUME NEW n \in Names, Delete(n) PROVE \E g \in DOMAIN Lives : L!End(g)
  <2> DEFINE g == mailboxes[n].gen
  <2>1. /\ n \in DOMAIN mailboxes /\ n # INBOX
        /\ DOMAIN mailboxes' = DOMAIN mailboxes \ {n}
        /\ \A m \in DOMAIN mailboxes' : mailboxes'[m] = mailboxes[m]
        /\ nextGen' = nextGen
    BY <1>2 DEF Delete
  <2>2. g # 0
    BY <1>0, <1>g, <2>1 DEF InboxFirst, GensDistinct
  <2>3. \A m \in DOMAIN mailboxes : mailboxes[m].gen = g => m = n
    BY <1>g, <2>1 DEF GensDistinct
  <2>4. g \in DOMAIN Lives
    BY <1>a, <2>1
  <2> HIDE DEF g
  <2>5. DOMAIN Lives' = DOMAIN Lives \ {g}
    BY <1>a, <1>b, <2>1, <2>3 DEF g
  <2>6. \A h \in DOMAIN Lives' : Lives'[h] = Lives[h]
    BY <1>a, <1>b, <2>1
  <2>7. Lives' = [h \in DOMAIN Lives \ {g} |-> Lives[h]]
    BY <1>b, <2>5, <2>6
  <2>8. L!End(g)
    BY <2>1, <2>2, <2>4, <2>5, <2>7 DEF L!End
  <2>9. QED
    BY <2>4, <2>8
<1>3. ASSUME NEW from \in Names, NEW to \in Names, Rename(from, to)
      PROVE  UNCHANGED <<Lives, nextGen>>
  <2>1. /\ DOMAIN mailboxes' = (DOMAIN mailboxes \ {from}) \cup {to}
        /\ from \in DOMAIN mailboxes
        /\ to \notin DOMAIN mailboxes
        /\ mailboxes'[to] = mailboxes[from]
        /\ \A m \in DOMAIN mailboxes : m # from => mailboxes'[m] = mailboxes[m]
        /\ nextGen' = nextGen
    BY <1>3 DEF Rename
  <2>2. DOMAIN Lives' = DOMAIN Lives
    <3>1. \A m \in DOMAIN mailboxes' :
            \E l \in DOMAIN mailboxes : mailboxes'[m] = mailboxes[l]
      BY <2>1
    <3>2. \A l \in DOMAIN mailboxes :
            \E m \in DOMAIN mailboxes' : mailboxes'[m] = mailboxes[l]
      BY <2>1
    <3>3. QED
      BY <1>a, <1>b, <3>1, <3>2
  <2>3. \A g \in DOMAIN Lives : Lives'[g] = Lives[g]
    BY <1>a, <1>b, <2>1
  <2>4. Lives' = Lives
    BY <1>a, <1>b, <2>2, <2>3
  <2>5. QED
    BY <2>1, <2>4
<1>d. ASSUME NEW n \in DOMAIN mailboxes, NEW raw \in Raws, NEW flags \in SUBSET Flags,
             Put(n, append(mailboxes[n], raw, flags))
      PROVE  L!Change
  <2>1. append(mailboxes[n], raw, flags).gen = mailboxes[n].gen
    BY <1>0, AppendFields
  <2>2. LifeOf(append(mailboxes[n], raw, flags)) \in L!Changed(LifeOf(mailboxes[n]))
    BY <1>0, AppendLife DEF L!Changed
  <2>3. QED
    BY <1>d, <2>1, <2>2, PutChange
<1>4. ASSUME NEW n \in Names, NEW raw \in Raws, DeliverMote(n, raw) PROVE L!Change
  BY <1>0, <1>4, <1>d DEF DeliverMote
<1>5. ASSUME NEW n \in Names, NEW raw \in Raws, NEW flags \in SUBSET Flags,
             DeliverRaw(n, raw, flags)
      PROVE  L!Change
  BY <1>5, <1>d DEF DeliverRaw
<1>6. ASSUME NEW n \in Names, NEW i \in 1 .. MaxUid, RemoveAt(n, i) PROVE L!Change
  <2>1. /\ n \in DOMAIN mailboxes /\ i \in DOMAIN mailboxes[n].messages
        /\ Put(n, remove_at(mailboxes[n], i))
    BY <1>6 DEF RemoveAt
  <2>2. remove_at(mailboxes[n], i).gen = mailboxes[n].gen
    BY <1>0, <2>1, RemoveAtFields
  <2>3. mailboxes[n].messages[i].uid \in DOMAIN LifeOf(mailboxes[n]).bodies
    BY <2>1 DEF LifeOf, Uids
  <2>4. LifeOf(remove_at(mailboxes[n], i)) \in L!Changed(LifeOf(mailboxes[n]))
    BY <1>0, <2>1, <2>3, RemoveAtLife DEF L!Changed
  <2>5. QED
    BY <2>1, <2>2, <2>4, PutChange
<1>7. ASSUME NEW n \in Names, NEW i \in 1 .. MaxUid, NEW flags \in SUBSET Flags,
             WriteFlags(n, i, flags)
      PROVE  L!Change
  <2>1. /\ n \in DOMAIN mailboxes /\ i \in DOMAIN mailboxes[n].messages
        /\ Put(n, write_flags(mailboxes[n], i, flags))
    BY <1>7 DEF WriteFlags
  <2>2. write_flags(mailboxes[n], i, flags).gen = mailboxes[n].gen
    BY <1>0, <2>1, WriteFlagsFields
  <2>3. LifeOf(write_flags(mailboxes[n], i, flags)) \in L!Changed(LifeOf(mailboxes[n]))
    BY <1>0, <2>1, WriteFlagsLife DEF L!Changed
  <2>4. QED
    BY <2>1, <2>2, <2>3, PutChange
<1>8. CASE ClientSync
  BY <1>8, <1>l DEF ClientSync
<1>9. QED
  BY <1>1, <1>2, <1>3, <1>4, <1>5, <1>6, <1>7, <1>8 DEF Next, L!Next

\* An empty store is the one empty life of INBOX.
LEMMA InitLives == Init => L!Init
<1> SUFFICES ASSUME Init PROVE L!Init
  OBVIOUS
<1>1. DOMAIN mailboxes = {INBOX} /\ mailboxes[INBOX] = NewMailbox(0) /\ nextGen = 1
  BY DEF Init
<1>2. mailboxes[INBOX].gen = 0 /\ LifeOf(mailboxes[INBOX]) = L!Empty
  BY <1>1, NewLife DEF NewMailbox
<1>3. Lives = LivesOf(mailboxes) /\ GensDistinct(mailboxes)
  BY <1>1 DEF Lives, LivesOf, GensDistinct
<1>4. /\ Lives = [h \in DOMAIN Lives |-> Lives[h]]
      /\ DOMAIN Lives = {mailboxes[m].gen : m \in DOMAIN mailboxes}
      /\ \A m \in DOMAIN mailboxes : Lives[mailboxes[m].gen] = LifeOf(mailboxes[m])
  BY <1>3, LivesAt
<1>5. DOMAIN Lives = {0} /\ Lives[0] = L!Empty
  BY <1>1, <1>2, <1>4
<1>6. Lives = [g \in {0} |-> L!Empty]
  BY <1>4, <1>5
<1>7. QED
  BY <1>1, <1>6 DEF L!Init

-----------------------------------------------------------------------------
(* The theorems.                                                           *)

\* StoreInv holds in every reachable state of the store.
THEOREM Invariance == Spec => []StoreInv
<1>1. Init => StoreInv
  BY InitInv
<1>2. StoreInv /\ [Next]_vars => StoreInv'
  BY NextInv
<1>3. QED
  BY <1>1, <1>2, PTL DEF Spec

\* The store keeps its type.
THEOREM TypeCorrect == Spec => []TypeOK
<1>1. StoreInv => TypeOK
  BY DEF StoreInv
<1>2. QED
  BY <1>1, Invariance, PTL

\* LIST and JMAP walk exactly the mailboxes that exist.
THEOREM OrderCorrect == Spec => []OrderMatchesMap
<1>1. StoreInv => OrderMatchesMap
  BY DEF StoreInv
<1>2. QED
  BY <1>1, Invariance, PTL

\* Every binary search on UIDs meets its precondition.
THEOREM UidOrder == Spec => []AscendingUids
<1>1. StoreInv => AscendingUids
  BY DEF StoreInv, WellFormed, AscendingUids
<1>2. QED
  BY <1>1, Invariance, PTL

\* No UID leaves a mailbox without an entry in its vanished log.
THEOREM UidAccounting == Spec => []AccountedUids
<1>1. StoreInv => AccountedUids
  BY DEF StoreInv, WellFormed, AccountedUids
<1>2. QED
  BY <1>1, Invariance, PTL

\* modseq stamps are bounded by HIGHESTMODSEQ and pairwise distinct.
THEOREM ModSeqSoundness == Spec => []SoundModSeqs
<1>1. StoreInv => SoundModSeqs
  BY DEF StoreInv, WellFormed, SoundModSeqs
<1>2. QED
  BY <1>1, Invariance, PTL

\* What every protocol session relies on in the store, for any number of
\* mailboxes and changes.
THEOREM StoreSoundness == Spec => []StoreWellFormed
<1>1. OrderMatchesMap /\ AscendingUids /\ AccountedUids /\ SoundModSeqs => StoreWellFormed
  BY DEF StoreWellFormed
<1>2. QED
  BY <1>1, OrderCorrect, UidOrder, UidAccounting, ModSeqSoundness, PTL

\* The client's entry for a mailbox it saw, or the genesis entry, is in step.
LEMMA KnownInStep ==
  ASSUME StoreInv, NEW n \in DOMAIN mailboxes, SameLife(n)
  PROVE  /\ mailboxes[n] \in MailboxType
         /\ WellFormed(mailboxes[n])
         /\ InStep(mailboxes[n], Known(client, n))
<1>1. mailboxes[n] \in MailboxType /\ WellFormed(mailboxes[n])
  BY DEF StoreInv, TypeOK
<1>2. CASE n \in DOMAIN client
  BY <1>1, <1>2 DEF Known, SameLife, StoreInv
<1>3. CASE n \notin DOMAIN client
  BY <1>1, <1>3, GenesisInStep DEF Known
<1>4. QED
  BY <1>1, <1>2, <1>3

\* The delta since any state token brings the client to the store's contents,
\* for every mailbox that lives the life the token saw.
THEOREM DeltaExactness == Spec => []DeltaExact
<1>1. StoreInv => DeltaExact
  BY KnownInStep, InStepExact DEF DeltaExact
<1>2. QED
  BY <1>1, Invariance, PTL

\* created, updated and destroyed are told apart as the client sees them.
THEOREM DeltaClassification == Spec => []DeltaClassified
<1>1. StoreInv => DeltaClassified
  BY KnownInStep, InStepClassified DEF DeltaClassified
<1>2. QED
  BY <1>1, Invariance, PTL

\* A mailbox Mailbox/changes does not mention has the messages it had.
THEOREM MailboxDeltaSoundness == Spec => []MailboxDeltaSound
<1>1. ASSUME StoreInv, NEW n \in DOMAIN mailboxes \cap DOMAIN client,
             SameLife(n), n \notin MailboxUpdated(mailboxes, client)
      PROVE  client[n].view = Content(mailboxes[n])
  <2>1. Known(client, n) = client[n]
    BY DEF Known
  <2>2. mailboxes[n].highest_modseq = client[n].modseq
    BY <1>1 DEF MailboxUpdated
  <2>3. QED
    BY <1>1, <2>1, <2>2, KnownInStep, InStepUnchanged
<1>2. StoreInv => MailboxDeltaSound
  BY <1>1 DEF MailboxDeltaSound
<1>3. QED
  BY <1>2, Invariance, PTL

\* /changes tells every change as the kind of change it was.
THEOREM ChangesSoundness == Spec => []ChangesSound
<1>1. DeltaClassified /\ MailboxDeltaSound => ChangesSound
  BY DEF ChangesSound
<1>2. QED
  BY <1>1, DeltaClassification, MailboxDeltaSoundness, PTL

\* No step of the store reuses a UID or changes what it denotes.
THEOREM UidStability == Spec => UidsNeverReused
<1>1. StoreInv /\ [Next]_vars => [LivesFollow]_vars
  BY NextFollows
<1>2. QED
  BY <1>1, Invariance, PTL DEF Spec, UidsNeverReused

\* The store implements the abstract mailboxes: seen through Lives, every
\* behaviour of the store is one in which lives begin empty, change one at a
\* time as Changed allows and end whole, and INBOX's never ends.
THEOREM StoreImplementsLives == Spec => ImplementsLives
<1>1. Init => InboxFirst
  BY DEF Init, InboxFirst, NewMailbox
<1>2. Spec => [](StoreInv /\ InboxFirst)
  BY <1>1, InboxStays, Invariance, PTL DEF Spec
<1>3. StoreInv /\ StoreInv' /\ InboxFirst /\ [Next]_vars => [L!Next]_<<Lives, nextGen>>
  <2>1. UNCHANGED vars => UNCHANGED <<Lives, nextGen>>
    BY DEF vars, Lives
  <2>2. QED
    BY <2>1, NextLives
<1>4. QED
  BY <1>2, <1>3, InitLives, PTL DEF Spec, ImplementsLives, L!Spec

-----------------------------------------------------------------------------
(* What the answer of Email/set says (Jmap).                               *)

\* The mailbox mb was old when the call began, and of its UIDs the call has
\* listed new as created, upd as updated and gone as destroyed.  New UIDs
\* come from above the old UIDNEXT, what is listed is stamped after all of
\* old, and what is old and not listed is as it was.
Told(old, mb, new, upd, gone) ==
  /\ old.uid_next <= mb.uid_next
  /\ old.highest_modseq <= mb.highest_modseq
  /\ Uids(mb) = (Uids(old) \cup new) \ gone
  /\ \A u \in new : u \in Nat /\ old.uid_next <= u /\ u < mb.uid_next
  /\ \A u \in gone : u \in Nat /\ u < mb.uid_next
  /\ \A i \in DOMAIN mb.messages :
       /\ mb.messages[i].uid \in new \cup upd => mb.messages[i].modseq > old.highest_modseq
       /\ mb.messages[i].uid \in Uids(old) \ upd =>
            Content(old)[mb.messages[i].uid] =
              [flags |-> mb.messages[i].flags, raw |-> mb.messages[i].raw]

\* A call that has done nothing has nothing to tell.
LEMMA NothingTold ==
  ASSUME NEW mb \in Sound
  PROVE  Told(mb, mb, {}, {}, {})
<1>1. mb \in MailboxType /\ WellFormed(mb)
  BY DEF Sound
<1>2. mb.uid_next \in Nat /\ mb.highest_modseq \in Nat
  BY <1>1, MailboxParts
<1>3. \A i \in DOMAIN mb.messages :
        Content(mb)[mb.messages[i].uid] =
          [flags |-> mb.messages[i].flags, raw |-> mb.messages[i].raw]
  BY <1>1, ContentAt DEF WellFormed
<1>4. QED
  BY <1>2, <1>3 DEF Told

\* A creation is told as such.
LEMMA AppendTold ==
  ASSUME NEW old \in Sound, NEW mb \in Sound, NEW new, NEW upd, NEW gone,
         Told(old, mb, new, upd, gone), NEW raw \in Raws, NEW flags \in SUBSET Flags
  PROVE  Told(old, append(mb, raw, flags), new \cup {mb.uid_next}, upd, gone)
<1> DEFINE next == append(mb, raw, flags)
           M    == mb.messages
           N    == next.messages
           msg  == NewMessage(mb.uid_next, flags, mb.highest_modseq + 1, raw)
<1> HIDE DEF next, M, N, msg
<1>0. /\ mb \in MailboxType /\ WellFormed(mb)
      /\ old \in MailboxType /\ WellFormed(old)
  BY DEF Sound
<1>1. /\ next.uid_next = mb.uid_next + 1
      /\ next.highest_modseq = mb.highest_modseq + 1
      /\ DOMAIN N = 1 .. Len(M) + 1
      /\ \A i \in 1 .. Len(M) : N[i] = M[i]
      /\ N[Len(M) + 1] = msg
  BY <1>0, AppendFields DEF next, M, N, msg
<1>2. Uids(next) = Uids(mb) \cup {mb.uid_next}
  BY <1>0, AppendWellFormed DEF next
<1>3. /\ mb.uid_next \in Nat /\ mb.highest_modseq \in Nat
      /\ old.uid_next \in Nat /\ old.highest_modseq \in Nat
      /\ Len(M) \in Nat /\ DOMAIN M = 1 .. Len(M)
      /\ \A i \in DOMAIN M : M[i].uid \in Nat
  BY <1>0, MailboxParts DEF M
<1>4. msg.uid = mb.uid_next /\ msg.modseq = mb.highest_modseq + 1
  BY DEF msg, NewMessage
<1>5. \A i \in DOMAIN N : (i \in DOMAIN M /\ N[i] = M[i]) \/ N[i] = msg
  BY <1>1, <1>3
<1>6. /\ \A u \in Uids(old) : u \in Nat /\ u < mb.uid_next
      /\ \A u \in Uids(mb) : u \in Nat /\ u < mb.uid_next
      /\ old.uid_next <= mb.uid_next /\ old.highest_modseq <= mb.highest_modseq
  <2>1. /\ Uids(old) \subseteq 1 .. old.uid_next - 1
        /\ Uids(mb) \subseteq 1 .. mb.uid_next - 1
    BY <1>0 DEF WellFormed, UidsAccountedFor
  <2>2. QED
    BY <2>1, <1>3 DEF Told
<1>7. Uids(next) = (Uids(old) \cup (new \cup {mb.uid_next})) \ gone
  <2>1. mb.uid_next \notin gone
    BY <1>3 DEF Told
  <2>2. QED
    BY <1>2, <2>1 DEF Told
<1>8. /\ \A u \in new \cup {mb.uid_next} : u \in Nat /\ old.uid_next <= u /\ u < next.uid_next
      /\ \A u \in gone : u \in Nat /\ u < next.uid_next
  BY <1>1, <1>3, <1>6 DEF Told
<1>9. ASSUME NEW i \in DOMAIN N
      PROVE  /\ N[i].uid \in (new \cup {mb.uid_next}) \cup upd => N[i].modseq > old.highest_modseq
             /\ N[i].uid \in Uids(old) \ upd =>
                  Content(old)[N[i].uid] = [flags |-> N[i].flags, raw |-> N[i].raw]
  <2>1. CASE i \in DOMAIN M /\ N[i] = M[i]
    <3>1. M[i].uid # mb.uid_next
      BY <2>1, <1>3, <1>6 DEF M, Uids
    <3>2. QED
      BY <2>1, <3>1 DEF Told, M
  <2>2. CASE N[i] = msg
    <3>1. msg.uid \notin Uids(old)
      BY <1>3, <1>4, <1>6
    <3>2. msg.modseq > old.highest_modseq
      BY <1>3, <1>4, <1>6
    <3>3. QED
      BY <2>2, <3>1, <3>2
  <2>3. QED
    BY <1>5, <2>1, <2>2
<1>10. old.uid_next <= next.uid_next /\ old.highest_modseq <= next.highest_modseq
  BY <1>1, <1>3, <1>6
<1>11. QED
  BY <1>7, <1>8, <1>9, <1>10 DEF Told, next, N

\* An update is told as such.
LEMMA WriteTold ==
  ASSUME NEW old \in Sound, NEW mb \in Sound, NEW new, NEW upd, NEW gone,
         Told(old, mb, new, upd, gone),
         NEW i \in DOMAIN mb.messages, NEW flags \in SUBSET Flags
  PROVE  Told(old, write_flags(mb, i, flags), new, upd \cup {mb.messages[i].uid}, gone)
<1> DEFINE next == write_flags(mb, i, flags)
           M    == mb.messages
           N    == next.messages
<1> HIDE DEF next, M, N
<1>0. /\ mb \in MailboxType /\ WellFormed(mb)
      /\ old \in MailboxType /\ WellFormed(old)
  BY DEF Sound
<1>1. /\ next.uid_next = mb.uid_next
      /\ next.highest_modseq = mb.highest_modseq + 1
      /\ DOMAIN N = DOMAIN M
      /\ i \in DOMAIN M
      /\ \A j \in DOMAIN M : j # i => N[j] = M[j]
      /\ N[i].uid = M[i].uid
      /\ N[i].modseq = mb.highest_modseq + 1
  BY <1>0, WriteFlagsFields DEF next, M, N
<1>2. Uids(next) = Uids(mb)
  BY <1>0, WriteFlagsWellFormed DEF next
<1>3. /\ mb.uid_next \in Nat /\ mb.highest_modseq \in Nat
      /\ old.uid_next \in Nat /\ old.highest_modseq \in Nat
  BY <1>0, MailboxParts
<1>4. ASSUME NEW j \in DOMAIN N
      PROVE  /\ N[j].uid \in new \cup (upd \cup {M[i].uid}) => N[j].modseq > old.highest_modseq
             /\ N[j].uid \in Uids(old) \ (upd \cup {M[i].uid}) =>
                  Content(old)[N[j].uid] = [flags |-> N[j].flags, raw |-> N[j].raw]
  <2>1. CASE j = i
    BY <2>1, <1>1, <1>3 DEF Told
  <2>2. CASE j # i
    <3>1. M[j].uid # M[i].uid
      BY <2>2, <1>0, <1>1, DistinctUids DEF WellFormed, M
    <3>2. QED
      BY <2>2, <3>1, <1>1 DEF Told, M
  <2>3. QED
    BY <2>1, <2>2
<1>5. old.uid_next <= next.uid_next /\ old.highest_modseq <= next.highest_modseq
  BY <1>1, <1>3 DEF Told
<1>6. QED
  BY <1>1, <1>2, <1>4, <1>5 DEF Told, next, N, M

\* A destruction is told as such.
LEMMA RemoveTold ==
  ASSUME NEW old \in Sound, NEW mb \in Sound, NEW new, NEW upd, NEW gone,
         Told(old, mb, new, upd, gone), NEW i \in DOMAIN mb.messages
  PROVE  Told(old, remove_at(mb, i), new, upd, gone \cup {mb.messages[i].uid})
<1> DEFINE next == remove_at(mb, i)
           M    == mb.messages
           N    == next.messages
           n    == Len(mb.messages)
<1> HIDE DEF next, M, N, n
<1>0. /\ mb \in MailboxType /\ WellFormed(mb)
      /\ old \in MailboxType /\ WellFormed(old)
  BY DEF Sound
<1>1. /\ next.uid_next = mb.uid_next
      /\ next.highest_modseq = mb.highest_modseq + 1
      /\ i \in 1 .. n
      /\ DOMAIN N = 1 .. n - 1
      /\ \A j \in 1 .. n - 1 : N[j] = IF j < i THEN M[j] ELSE M[j + 1]
  BY <1>0, RemoveAtFields DEF next, M, N, n
<1>2. /\ mb.uid_next \in Nat /\ mb.highest_modseq \in Nat
      /\ old.uid_next \in Nat /\ old.highest_modseq \in Nat
      /\ n \in Nat /\ DOMAIN M = 1 .. n
      /\ \A j \in DOMAIN M : M[j].uid \in Nat
  BY <1>0, MailboxParts DEF M, n
<1>3. Uids(next) = Uids(mb) \ {M[i].uid}
  BY <1>0, RemoveAtWellFormed DEF next, M
<1>4. \A j \in DOMAIN N : \E l \in DOMAIN M : N[j] = M[l]
  <2>1. \A j \in DOMAIN N : j \in DOMAIN M /\ j + 1 \in DOMAIN M
    BY <1>1, <1>2
  <2>2. QED
    BY <1>1, <2>1
<1>5. M[i].uid \in Nat /\ M[i].uid < mb.uid_next
  <2>1. Uids(mb) \subseteq 1 .. mb.uid_next - 1
    BY <1>0 DEF WellFormed, UidsAccountedFor
  <2>2. M[i].uid \in Uids(mb)
    BY DEF Uids, M
  <2>3. QED
    BY <2>1, <2>2, <1>2
<1>6. \A j \in DOMAIN N :
        /\ N[j].uid \in new \cup upd => N[j].modseq > old.highest_modseq
        /\ N[j].uid \in Uids(old) \ upd =>
             Content(old)[N[j].uid] = [flags |-> N[j].flags, raw |-> N[j].raw]
  BY <1>4 DEF Told, M
<1>7. old.uid_next <= next.uid_next /\ old.highest_modseq <= next.highest_modseq
  BY <1>1, <1>2 DEF Told
<1>8. Uids(next) = (Uids(old) \cup new) \ (gone \cup {M[i].uid})
  BY <1>3 DEF Told
<1>9. \A u \in gone \cup {M[i].uid} : u \in Nat /\ u < next.uid_next
  BY <1>1, <1>5 DEF Told
<1>10. QED
  BY <1>1, <1>6, <1>7, <1>8, <1>9 DEF Told, next, N, M

\* The UIDs of a mailbox in a list of Email ids.
UidsIn(ids, n) == {u \in Nat : <<n, u>> \in ids}

\* The open call of Email/set has told of every mailbox what it did.
Accounts(c, boxes) ==
  /\ DOMAIN c.before = DOMAIN boxes
  /\ c.created \subseteq (DOMAIN boxes) \X Nat
  /\ c.updated \subseteq (DOMAIN boxes) \X Nat
  /\ c.destroyed \subseteq (DOMAIN boxes) \X Nat
  /\ \A n \in DOMAIN boxes :
       /\ c.before[n] \in Sound
       /\ Told(c.before[n], boxes[n],
               UidsIn(c.created, n), UidsIn(c.updated, n), UidsIn(c.destroyed, n))

\* The fields of a call.
IsCall(c) ==
  c \in [name : {c.name}, id : {c.id}, phase : {c.phase}, entries : {c.entries},
         destroy : {c.destroy}, created : {c.created}, updated : {c.updated},
         destroyed : {c.destroyed}, before : {c.before}]

\* The inductive invariant of Jmap: that of the store, and the open call
\* accounts for what it did to the store so far.
JmapInv ==
  /\ StoreInv
  /\ call # <<>> =>
       /\ call = <<call[1]>>
       /\ IsCall(call[1])
       /\ call[1].name = "Email/set" => Accounts(call[1], mailboxes)

\* One mailbox changes and the call tells it; the others are as they were and
\* are told of as before.
LEMMA PutAccounts ==
  ASSUME StoreInv, NEW c, Accounts(c, mailboxes), NEW n \in DOMAIN mailboxes, NEW mb, Put(n, mb),
         NEW d, d.before = c.before,
         d.created \subseteq (DOMAIN mailboxes) \X Nat,
         d.updated \subseteq (DOMAIN mailboxes) \X Nat,
         d.destroyed \subseteq (DOMAIN mailboxes) \X Nat,
         \A m : m # n => /\ UidsIn(d.created, m) = UidsIn(c.created, m)
                         /\ UidsIn(d.updated, m) = UidsIn(c.updated, m)
                         /\ UidsIn(d.destroyed, m) = UidsIn(c.destroyed, m),
         Told(c.before[n], mb, UidsIn(d.created, n), UidsIn(d.updated, n), UidsIn(d.destroyed, n))
  PROVE  Accounts(d, mailboxes')
<1>1. /\ DOMAIN mailboxes' = DOMAIN mailboxes
      /\ \A m \in DOMAIN mailboxes : mailboxes'[m] = IF m = n THEN mb ELSE mailboxes[m]
  BY DEF Put
<1>2. ASSUME NEW m \in DOMAIN mailboxes
      PROVE  Told(c.before[m], mailboxes'[m],
                  UidsIn(d.created, m), UidsIn(d.updated, m), UidsIn(d.destroyed, m))
  <2>1. CASE m = n
    BY <1>1, <2>1
  <2>2. CASE m # n
    BY <1>1, <2>2 DEF Accounts
  <2>3. QED
    BY <2>1, <2>2
<1>3. QED
  BY <1>1, <1>2 DEF Accounts

\* The mailboxes of the store are sound.
LEMMA StoreSound ==
  ASSUME StoreInv
  PROVE  /\ DOMAIN mailboxes \subseteq Names
         /\ \A n \in DOMAIN mailboxes :
              /\ mailboxes[n] \in Sound
              /\ mailboxes[n] \in MailboxType
              /\ WellFormed(mailboxes[n])
  BY DEF StoreInv, TypeOK, Sound

\* A call begins with nothing to account for.
LEMMA OpenInv ==
  ASSUME JmapInv, NEW name, NEW cid, NEW destroy, Set(name, cid, destroy)
  PROVE  JmapInv'
<1> DEFINE c == Opened(name, cid, destroy)
<1>1. /\ call' = <<c>> /\ UNCHANGED vars
      /\ c.created = {} /\ c.updated = {} /\ c.destroyed = {} /\ c.before = mailboxes
      /\ IsCall(c)
  BY DEF Set, Opened, IsCall
<1>2. StoreInv' /\ mailboxes' = mailboxes
  BY <1>1, NextInv DEF JmapInv, vars
<1>3. \A n : UidsIn({}, n) = {}
  BY DEF UidsIn
<1> HIDE DEF c
<1>4. Accounts(c, mailboxes)
  BY <1>1, <1>3, NothingTold, StoreSound DEF Accounts, JmapInv
<1>5. QED
  BY <1>1, <1>2, <1>4 DEF JmapInv

\* compose_email: what is appended is told as created.
LEMMA ComposeInv ==
  ASSUME JmapInv, NEW n \in Names, NEW raw \in Raws, NEW flags \in SUBSET Flags,
         compose_email(n, raw, flags)
  PROVE  JmapInv'
<1> DEFINE to == Destination(n)
           c  == call[1]
           u  == mailboxes[to].uid_next
           d  == [c EXCEPT !.phase = 1, !.entries = @ + 1, !.created = @ \cup {<<to, u>>}]
<1>1. /\ to \in DOMAIN mailboxes /\ to \in Names
      /\ DeliverRaw(to, raw, flags)
      /\ Put(to, append(mailboxes[to], raw, flags))
      /\ call' = <<d>>
      /\ call # <<>> /\ c.name = "Email/set"
  <2>1. DeliverRaw(to, raw, flags)
    BY DEF compose_email
  <2>2. call' = <<d>> /\ call # <<>> /\ c.name = "Email/set"
    BY DEF compose_email, Noted, Entry
  <2>3. to \in DOMAIN mailboxes /\ Put(to, append(mailboxes[to], raw, flags))
    BY <2>1 DEF DeliverRaw
  <2>4. QED
    BY <2>1, <2>2, <2>3, StoreSound DEF JmapInv
<1>2. IsCall(c) /\ Accounts(c, mailboxes) /\ StoreInv
  BY <1>1 DEF JmapInv
<1> HIDE DEF c, u, to
<1>3. /\ d.name = c.name /\ d.before = c.before
      /\ d.created = c.created \cup {<<to, u>>}
      /\ d.updated = c.updated /\ d.destroyed = c.destroyed
      /\ IsCall(d)
  BY <1>2 DEF IsCall
<1>4. StoreInv'
  BY <1>1, <1>2, NextInv DEF Next
<1>5. u \in Nat
  BY <1>1, <1>2, StoreSound, MailboxParts DEF u
<1> HIDE DEF d
<1>j. /\ UidsIn(c.created \cup {<<to, u>>}, to) = UidsIn(c.created, to) \cup {u}
      /\ \A m : m # to => UidsIn(c.created \cup {<<to, u>>}, m) = UidsIn(c.created, m)
  BY <1>5 DEF UidsIn
<1>s. c.created \cup {<<to, u>>} \subseteq (DOMAIN mailboxes) \X Nat
  BY <1>1, <1>2, <1>5 DEF Accounts
<1>6. Told(c.before[to], append(mailboxes[to], raw, flags),
           UidsIn(d.created, to), UidsIn(d.updated, to), UidsIn(d.destroyed, to))
  <2>1. /\ mailboxes[to] \in Sound /\ c.before[to] \in Sound
        /\ Told(c.before[to], mailboxes[to],
                UidsIn(c.created, to), UidsIn(c.updated, to), UidsIn(c.destroyed, to))
    BY <1>1, <1>2, StoreSound DEF Accounts
  <2>2. Told(c.before[to], append(mailboxes[to], raw, flags),
             UidsIn(c.created, to) \cup {u}, UidsIn(c.updated, to), UidsIn(c.destroyed, to))
    BY <2>1, AppendTold DEF u
  <2>3. QED
    BY <2>2, <1>3, <1>j
<1>7. /\ d.created \subseteq (DOMAIN mailboxes) \X Nat
      /\ d.updated \subseteq (DOMAIN mailboxes) \X Nat
      /\ d.destroyed \subseteq (DOMAIN mailboxes) \X Nat
      /\ \A m : m # to => /\ UidsIn(d.created, m) = UidsIn(c.created, m)
                          /\ UidsIn(d.updated, m) = UidsIn(c.updated, m)
                          /\ UidsIn(d.destroyed, m) = UidsIn(c.destroyed, m)
  BY <1>2, <1>3, <1>j, <1>s DEF Accounts
<1>8. Accounts(d, mailboxes')
  BY <1>1, <1>2, <1>3, <1>6, <1>7, PutAccounts
<1>9. QED
  BY <1>1, <1>3, <1>4, <1>8 DEF JmapInv

\* An update leaves flags in the mailbox's vocabulary.
LEMMA PatchedFlags ==
  ASSUME NEW flags \in SUBSET Flags, NEW p \in Patches
  PROVE  Patched(flags, p) \in SUBSET Flags
  BY DEF Patched, Patches

\* EmailUpdate: what is written is told as updated.
LEMMA UpdateInv ==
  ASSUME JmapInv, NEW id \in EmailIds, NEW p \in Patches, EmailUpdate(id, p)
  PROVE  JmapInv'
<1>0. PICK n, u : n = id[1] /\ u = id[2]
  OBVIOUS
<1> DEFINE c == call[1]
           d == [c EXCEPT !.phase = 2, !.entries = @ + 1, !.updated = @ \cup {id}]
<1>1. PICK i \in seq_of_uid(mailboxes[n], u) :
        WriteFlags(n, i, Patched(mailboxes[n].messages[i].flags, p))
  BY <1>0 DEF EmailUpdate, apply_email_update
<1> DEFINE flags == Patched(mailboxes[n].messages[i].flags, p)
<1>2. /\ call' = <<d>>
      /\ call # <<>> /\ c.name = "Email/set"
  BY DEF EmailUpdate, Noted, Entry
<1>3. /\ n \in DOMAIN mailboxes
      /\ i \in DOMAIN mailboxes[n].messages
      /\ mailboxes[n].messages[i].uid = u
      /\ Put(n, write_flags(mailboxes[n], i, flags))
  BY <1>1 DEF WriteFlags, seq_of_uid
<1>4. IsCall(c) /\ Accounts(c, mailboxes) /\ StoreInv
  BY <1>2 DEF JmapInv
<1>5. mailboxes[n] \in Sound /\ mailboxes[n] \in MailboxType /\ WellFormed(mailboxes[n])
  BY <1>3, <1>4, StoreSound
<1>6. u \in Nat /\ flags \in SUBSET Flags
  <2>1. mailboxes[n].messages[i] \in Message /\ mailboxes[n].messages[i].uid \in Nat
    BY <1>3, <1>5, MailboxParts
  <2>2. mailboxes[n].messages[i].flags \in SUBSET Flags
    BY <2>1 DEF Message
  <2>3. QED
    BY <1>3, <2>1, <2>2, PatchedFlags
<1>7. id = <<n, u>>
  BY <1>0 DEF EmailIds
<1> HIDE DEF c, flags
<1>8. /\ d.name = c.name /\ d.before = c.before
      /\ d.updated = c.updated \cup {<<n, u>>}
      /\ d.created = c.created /\ d.destroyed = c.destroyed
      /\ IsCall(d)
  BY <1>4, <1>7 DEF IsCall
<1> HIDE DEF d
<1>9. StoreInv'
  BY <1>3, <1>4, <1>6, WriteInv
<1>j. /\ UidsIn(c.updated \cup {<<n, u>>}, n) = UidsIn(c.updated, n) \cup {u}
      /\ \A m : m # n => UidsIn(c.updated \cup {<<n, u>>}, m) = UidsIn(c.updated, m)
  BY <1>6 DEF UidsIn
<1>s. c.updated \cup {<<n, u>>} \subseteq (DOMAIN mailboxes) \X Nat
  BY <1>3, <1>4, <1>6 DEF Accounts
<1>10. Told(c.before[n], write_flags(mailboxes[n], i, flags),
            UidsIn(d.created, n), UidsIn(d.updated, n), UidsIn(d.destroyed, n))
  <2>1. /\ c.before[n] \in Sound
        /\ Told(c.before[n], mailboxes[n],
                UidsIn(c.created, n), UidsIn(c.updated, n), UidsIn(c.destroyed, n))
    BY <1>3, <1>4 DEF Accounts
  <2>2. Told(c.before[n], write_flags(mailboxes[n], i, flags),
             UidsIn(c.created, n), UidsIn(c.updated, n) \cup {u}, UidsIn(c.destroyed, n))
    BY <2>1, <1>3, <1>5, <1>6, WriteTold
  <2>3. QED
    BY <2>2, <1>8, <1>j
<1>11. /\ d.created \subseteq (DOMAIN mailboxes) \X Nat
       /\ d.updated \subseteq (DOMAIN mailboxes) \X Nat
       /\ d.destroyed \subseteq (DOMAIN mailboxes) \X Nat
       /\ \A m : m # n => /\ UidsIn(d.created, m) = UidsIn(c.created, m)
                          /\ UidsIn(d.updated, m) = UidsIn(c.updated, m)
                          /\ UidsIn(d.destroyed, m) = UidsIn(c.destroyed, m)
  BY <1>4, <1>8, <1>j, <1>s DEF Accounts
<1>12. Accounts(d, mailboxes')
  BY <1>3, <1>4, <1>8, <1>10, <1>11, PutAccounts
<1>13. QED
  BY <1>2, <1>8, <1>9, <1>12 DEF JmapInv, c, d

\* EmailDestroy: what is removed is told as destroyed, what is not found is not.
LEMMA DestroyInv ==
  ASSUME JmapInv, EmailDestroy
  PROVE  JmapInv'
<1> DEFINE c  == call[1]
           id == Head(c.destroy)
           at == Position(mailboxes, id)
           d  == [c EXCEPT !.phase = 3, !.destroy = Tail(@),
                           !.destroyed = IF at = {} THEN @ ELSE @ \cup {id}]
<1>0. PICK n, u : n = id[1] /\ u = id[2]
  OBVIOUS
<1>1. /\ call # <<>>
      /\ call' = <<d>>
      /\ (\E i \in at : Put(n, remove_at(mailboxes[n], i))) \/ (at = {} /\ UNCHANGED vars)
  BY <1>0 DEF EmailDestroy, Destruction, Destroyed
<1>2. IsCall(c) /\ StoreInv /\ (c.name = "Email/set" => Accounts(c, mailboxes))
  BY <1>1 DEF JmapInv
<1> HIDE DEF c, at, id
<1>3. /\ d.name = c.name /\ d.before = c.before
      /\ d.destroyed = IF at = {} THEN c.destroyed ELSE c.destroyed \cup {id}
      /\ d.created = c.created /\ d.updated = c.updated
      /\ IsCall(d)
  BY <1>2 DEF IsCall
<1> HIDE DEF d
<1>4. CASE at = {} /\ UNCHANGED vars
  <2>1. StoreInv' /\ mailboxes' = mailboxes
    BY <1>2, <1>4, NextInv DEF vars
  <2>2. c.name = "Email/set" => Accounts(d, mailboxes)
    BY <1>2, <1>3, <1>4 DEF Accounts
  <2>3. QED
    BY <1>1, <1>3, <2>1, <2>2 DEF JmapInv
<1>5. ASSUME NEW i \in at, Put(n, remove_at(mailboxes[n], i))
      PROVE  JmapInv'
  <2>1. /\ id \in Names \X Nat /\ n \in DOMAIN mailboxes
        /\ i \in DOMAIN mailboxes[n].messages
        /\ mailboxes[n].messages[i].uid = u
    BY <1>0, <1>5 DEF at, Position, seq_of_uid
  <2>2. id = <<n, u>> /\ u \in Nat
    BY <1>0, <2>1
  <2>3. mailboxes[n] \in Sound /\ mailboxes[n] \in MailboxType /\ WellFormed(mailboxes[n])
    BY <1>2, <2>1, StoreSound
  <2>4. StoreInv'
    BY <1>2, <1>5, <2>1, RemoveInv
  <2>5. d.destroyed = c.destroyed \cup {<<n, u>>}
    BY <1>3, <1>5, <2>2
  <2>6. ASSUME c.name = "Email/set" PROVE Accounts(d, mailboxes')
    <3>1. Accounts(c, mailboxes)
      BY <1>2, <2>6
    <3>2. /\ c.before[n] \in Sound
          /\ Told(c.before[n], mailboxes[n],
                  UidsIn(c.created, n), UidsIn(c.updated, n), UidsIn(c.destroyed, n))
      BY <2>1, <3>1 DEF Accounts
    <3>3. Told(c.before[n], remove_at(mailboxes[n], i),
               UidsIn(c.created, n), UidsIn(c.updated, n), UidsIn(c.destroyed, n) \cup {u})
      BY <3>2, <2>1, <2>3, RemoveTold
    <3>j. /\ UidsIn(c.destroyed \cup {<<n, u>>}, n) = UidsIn(c.destroyed, n) \cup {u}
          /\ \A m : m # n => UidsIn(c.destroyed \cup {<<n, u>>}, m) = UidsIn(c.destroyed, m)
      BY <2>2 DEF UidsIn
    <3>s. c.destroyed \cup {<<n, u>>} \subseteq (DOMAIN mailboxes) \X Nat
      BY <2>1, <2>2, <3>1 DEF Accounts
    <3>4. Told(c.before[n], remove_at(mailboxes[n], i),
               UidsIn(d.created, n), UidsIn(d.updated, n), UidsIn(d.destroyed, n))
      BY <3>3, <1>3, <2>5, <3>j
    <3>5. /\ d.created \subseteq (DOMAIN mailboxes) \X Nat
          /\ d.updated \subseteq (DOMAIN mailboxes) \X Nat
          /\ d.destroyed \subseteq (DOMAIN mailboxes) \X Nat
          /\ \A m : m # n => /\ UidsIn(d.created, m) = UidsIn(c.created, m)
                             /\ UidsIn(d.updated, m) = UidsIn(c.updated, m)
                             /\ UidsIn(d.destroyed, m) = UidsIn(c.destroyed, m)
      BY <1>3, <2>5, <3>1, <3>j, <3>s DEF Accounts
    <3>6. QED
      BY <1>2, <1>3, <1>5, <2>1, <3>1, <3>4, <3>5, PutAccounts
  <2>7. QED
    BY <1>1, <1>3, <2>4, <2>6 DEF JmapInv
<1>6. QED
  BY <1>1, <1>4, <1>5

\* A call that takes no notice of an entry, or of Mailbox/set, has the same to
\* account for.
LEMMA EntryInv ==
  ASSUME JmapInv, StoreInv', call # <<>>, NEW d, call' = <<d>>, IsCall(d), d.name = call[1].name,
         \/ d.name # "Email/set"
         \/ /\ mailboxes' = mailboxes
            /\ d.before = call[1].before /\ d.created = call[1].created
            /\ d.updated = call[1].updated /\ d.destroyed = call[1].destroyed
  PROVE  JmapInv'
<1>1. d.name = "Email/set" => Accounts(d, mailboxes')
  BY DEF JmapInv, Accounts
<1>2. QED
  BY <1>1 DEF JmapInv

\* A refused entry changes nothing.
LEMMA RefusedInv ==
  ASSUME JmapInv, call # <<>>, NEW phase, Refused(phase)
  PROVE  JmapInv'
<1> DEFINE c == call[1]
           d == [c EXCEPT !.phase = phase, !.entries = @ + 1]
<1>1. call' = <<d>> /\ UNCHANGED vars
  BY DEF Refused
<1>2. StoreInv' /\ mailboxes' = mailboxes
  BY <1>1, NextInv DEF JmapInv, vars
<1>3. IsCall(c)
  BY DEF JmapInv
<1> HIDE DEF c
<1>4. /\ IsCall(d) /\ d.name = c.name /\ d.before = c.before /\ d.created = c.created
      /\ d.updated = c.updated /\ d.destroyed = c.destroyed
  BY <1>3 DEF IsCall
<1> HIDE DEF d
<1>5. QED
  BY <1>1, <1>2, <1>4, EntryInv DEF c

\* An entry of Mailbox/set, of which Email/set has nothing to tell.
LEMMA MailboxEntryInv ==
  ASSUME JmapInv, Next, call # <<>>, call[1].name = "Mailbox/set",
         NEW phase, NEW field \in {"created", "updated", "destroyed"}, NEW id,
         Noted(phase, field, id)
  PROVE  JmapInv'
<1> DEFINE c == call[1]
           d == [c EXCEPT !.phase = phase, !.entries = @ + 1, ![field] = @ \cup {id}]
<1>1. call' = <<d>>
  BY DEF Noted
<1>2. StoreInv'
  BY NextInv DEF JmapInv
<1>3. IsCall(c)
  BY DEF JmapInv
<1> HIDE DEF c
<1>4. IsCall(d) /\ d.name = c.name
  <2>1. CASE field = "created"
    BY <1>3, <2>1 DEF IsCall
  <2>2. CASE field = "updated"
    BY <1>3, <2>2 DEF IsCall
  <2>3. CASE field = "destroyed"
    BY <1>3, <2>3 DEF IsCall
  <2>4. QED
    BY <2>1, <2>2, <2>3
<1> HIDE DEF d
<1>5. QED
  BY <1>1, <1>2, <1>4, EntryInv DEF c

\* Methods that read leave the store and the open call alone.
LEMMA AnsweredInv ==
  ASSUME JmapInv, UNCHANGED <<vars, call>>
  PROVE  JmapInv'
<1>1. StoreInv' /\ mailboxes' = mailboxes /\ call' = call
  BY NextInv DEF JmapInv, vars
<1>2. QED
  BY <1>1 DEF JmapInv

\* Every step of a JMAP request, and of the store's other users between
\* requests, preserves the invariant.
LEMMA JmapNextInv == JmapInv /\ [jNext]_jvars => JmapInv'
<1> SUFFICES ASSUME JmapInv, [jNext]_jvars PROVE JmapInv'
  OBVIOUS
<1>1. CASE Others
  <2>1. StoreInv' /\ call' = <<>>
    BY <1>1, NextInv DEF Others, Idle, JmapInv
  <2>2. QED
    BY <2>1 DEF JmapInv
<1>2. ASSUME NEW cid, NEW ids, email_get(cid, ids) PROVE JmapInv'
  BY <1>2, AnsweredInv DEF email_get, Answered
<1>3. CASE Referring
  <2>1. ASSUME NEW cid, fails(cid) PROVE JmapInv'
    BY <2>1, AnsweredInv DEF fails, Answered
  <2>2. QED
    BY <1>2, <1>3, <2>1, OpenInv DEF Referring
<1>4. ASSUME NEW cid, NEW in, email_query(cid, in) PROVE JmapInv'
  BY <1>4, AnsweredInv DEF email_query, Answered
<1>5. ASSUME NEW cid, changes(cid) PROVE JmapInv'
  BY <1>5, AnsweredInv DEF changes, Answered
<1>6. ASSUME NEW n \in Names, NEW raw \in Raws, NEW flags \in SUBSET Flags,
             compose_email(n, raw, flags)
      PROVE  JmapInv'
  BY <1>6, ComposeInv
<1>7. ASSUME NEW id \in EmailIds, EmailUpdateFails(id) PROVE JmapInv'
  BY <1>7, RefusedInv DEF EmailUpdateFails, Entry
<1>8. ASSUME NEW id \in EmailIds, NEW p \in Patches, EmailUpdate(id, p) PROVE JmapInv'
  BY <1>8, UpdateInv
<1>9. CASE EmailDestroy
  BY <1>9, DestroyInv
<1>10. ASSUME NEW n \in Names, MailboxCreate(n) PROVE JmapInv'
  <2>1. call # <<>> /\ call[1].name = "Mailbox/set"
    BY <1>10 DEF MailboxCreate, Entry
  <2>2. CASE Create(n) /\ Noted(1, "created", n)
    <3>1. Next
      BY <2>2 DEF Next
    <3>2. QED
      BY <2>1, <2>2, <3>1, MailboxEntryInv
  <2>3. QED
    BY <1>10, <2>1, <2>2, RefusedInv DEF MailboxCreate
<1>11. ASSUME NEW n \in Names, MailboxDestroy(n) PROVE JmapInv'
  <2>1. call # <<>> /\ call[1].name = "Mailbox/set"
    BY <1>11 DEF MailboxDestroy, Entry
  <2>2. CASE Delete(n) /\ Noted(3, "destroyed", n)
    <3>1. Next
      BY <2>2 DEF Next
    <3>2. QED
      BY <2>1, <2>2, <3>1, MailboxEntryInv
  <2>3. QED
    BY <1>11, <2>1, <2>2, RefusedInv DEF MailboxDestroy
<1>12. ASSUME NEW from \in Names, NEW to \in Names, MailboxUpdate(from, to) PROVE JmapInv'
  <2>1. call # <<>> /\ call[1].name = "Mailbox/set"
    BY <1>12 DEF MailboxUpdate, Entry
  <2>2. CASE Rename(from, to) /\ Noted(2, "updated", <<from, to>>)
    <3>1. Next
      BY <2>2 DEF Next
    <3>2. QED
      BY <2>1, <2>2, <3>1, MailboxEntryInv
  <2>3. QED
    BY <1>12, <2>1, <2>2, RefusedInv DEF MailboxUpdate
<1>13. CASE Answer \/ Respond
  <2>1. UNCHANGED vars /\ call' = <<>>
    BY <1>13 DEF Answer, Respond
  <2>2. StoreInv'
    BY <2>1, NextInv DEF JmapInv
  <2>3. QED
    BY <2>1, <2>2 DEF JmapInv
<1>14. CASE UNCHANGED jvars
  BY <1>14, AnsweredInv DEF jvars
<1>15. QED
  BY <1>1, <1>2, <1>3, <1>4, <1>5, <1>6, <1>7, <1>8, <1>9, <1>10, <1>11, <1>12, <1>13, <1>14,
     OpenInv DEF jNext

\* What a call accounts for is what its answer promises.
LEMMA AccountsTruthful ==
  ASSUME JmapInv
  PROVE  AnswerTruthful
<1> SUFFICES ASSUME NEW c \in SX!Range(call), c.name = "Email/set"
             PROVE  /\ Live(mailboxes) = (Live(c.before) \cup c.created) \ c.destroyed
                    /\ c.created \cap Live(c.before) = {}
                    /\ \A id \in Live(c.before) \cap Live(mailboxes) :
                         Content(mailboxes[id[1]])[id[2]] # Content(c.before[id[1]])[id[2]] => id \in c.updated
                    /\ \A id \in (c.created \cup c.updated) \cap Live(mailboxes) :
                         id[2] \in EmailChanged(mailboxes[id[1]], c.before[id[1]].highest_modseq)
  BY DEF AnswerTruthful
<1> DEFINE old == c.before
<1>1. Accounts(c, mailboxes) /\ StoreInv
  <2>1. call # <<>> /\ c = call[1]
    BY DEF SX!Range, JmapInv
  <2>2. QED
    BY <2>1 DEF JmapInv
<1>2. /\ DOMAIN old = DOMAIN mailboxes
      /\ \A n \in DOMAIN mailboxes :
           /\ old[n] \in MailboxType /\ WellFormed(old[n])
           /\ mailboxes[n] \in MailboxType /\ WellFormed(mailboxes[n])
           /\ Told(old[n], mailboxes[n],
                   UidsIn(c.created, n), UidsIn(c.updated, n), UidsIn(c.destroyed, n))
  BY <1>1, StoreSound DEF Accounts, Sound
<1>3. /\ c.created \subseteq (DOMAIN mailboxes) \X Nat
      /\ c.updated \subseteq (DOMAIN mailboxes) \X Nat
      /\ c.destroyed \subseteq (DOMAIN mailboxes) \X Nat
  BY <1>1 DEF Accounts
<1> HIDE DEF old
<1>4. \A n \in DOMAIN mailboxes : Uids(old[n]) \subseteq Nat /\ Uids(mailboxes[n]) \subseteq Nat
  BY <1>2, MailboxParts DEF Uids
<1>5. /\ Live(mailboxes) \subseteq (DOMAIN mailboxes) \X Nat
      /\ Live(old) \subseteq (DOMAIN mailboxes) \X Nat
      /\ \A n \in DOMAIN mailboxes, u \in Nat :
           /\ <<n, u>> \in Live(mailboxes) <=> u \in Uids(mailboxes[n])
           /\ <<n, u>> \in Live(old) <=> u \in Uids(old[n])
  <2>1. Live(mailboxes) \subseteq (DOMAIN mailboxes) \X Nat /\ Live(old) \subseteq (DOMAIN mailboxes) \X Nat
    BY <1>2, <1>4 DEF Live
  <2>2. QED
    BY <1>2, <2>1 DEF Live
<1>6. \A n \in DOMAIN mailboxes, u \in Nat :
        /\ u \in UidsIn(c.created, n) <=> <<n, u>> \in c.created
        /\ u \in UidsIn(c.updated, n) <=> <<n, u>> \in c.updated
        /\ u \in UidsIn(c.destroyed, n) <=> <<n, u>> \in c.destroyed
  BY DEF UidsIn
<1>7. \A n \in DOMAIN mailboxes, u \in Nat :
        <<n, u>> \in Live(mailboxes) <=> <<n, u>> \in (Live(old) \cup c.created) \ c.destroyed
  <2>1. \A n \in DOMAIN mailboxes :
          Uids(mailboxes[n]) = (Uids(old[n]) \cup UidsIn(c.created, n)) \ UidsIn(c.destroyed, n)
    BY <1>2 DEF Told
  <2>2. QED
    BY <2>1, <1>5, <1>6
<1>8. Live(mailboxes) = (Live(old) \cup c.created) \ c.destroyed
  BY <1>3, <1>5, <1>7
<1>9. c.created \cap Live(old) = {}
  <2>1. ASSUME NEW n \in DOMAIN mailboxes, NEW u \in Nat, <<n, u>> \in c.created, <<n, u>> \in Live(old)
        PROVE  FALSE
    <3>1. Uids(old[n]) \subseteq 1 .. old[n].uid_next - 1
      BY <1>2 DEF WellFormed, UidsAccountedFor
    <3>2. old[n].uid_next \in Nat /\ old[n].uid_next <= u
      BY <1>2, <1>6, <2>1, MailboxParts DEF Told
    <3>3. QED
      BY <1>5, <2>1, <3>1, <3>2
  <2>2. QED
    BY <1>3, <2>1
<1>10. ASSUME NEW n \in DOMAIN mailboxes, NEW u \in Nat, <<n, u>> \in Live(mailboxes)
       PROVE  /\ <<n, u>> \in Live(old) /\ Content(mailboxes[n])[u] # Content(old[n])[u] => <<n, u>> \in c.updated
              /\ <<n, u>> \in c.created \cup c.updated => u \in EmailChanged(mailboxes[n], old[n].highest_modseq)
  <2>1. PICK i \in DOMAIN mailboxes[n].messages : mailboxes[n].messages[i].uid = u
    BY <1>5, <1>10 DEF Uids
  <2>2. Content(mailboxes[n])[u] = [flags |-> mailboxes[n].messages[i].flags, raw |-> mailboxes[n].messages[i].raw]
    BY <1>2, <2>1, ContentAt DEF WellFormed
  <2>3. <<n, u>> \in Live(old) /\ <<n, u>> \notin c.updated => Content(old[n])[u] = Content(mailboxes[n])[u]
    BY <1>2, <1>5, <1>6, <2>1, <2>2 DEF Told
  <2>4. <<n, u>> \in c.created \cup c.updated => mailboxes[n].messages[i].modseq > old[n].highest_modseq
    BY <1>2, <1>6, <2>1 DEF Told
  <2>5. mailboxes[n].messages[i].modseq > old[n].highest_modseq => u \in EmailChanged(mailboxes[n], old[n].highest_modseq)
    BY <2>1 DEF EmailChanged, changed_since
  <2>6. QED
    BY <2>3, <2>4, <2>5
<1>11. \A id \in Live(mailboxes) : id[1] \in DOMAIN mailboxes /\ id[2] \in Nat /\ id = <<id[1], id[2]>>
  BY <1>5
<1>12. \A id \in Live(mailboxes) :
         /\ id \in Live(old) /\ Content(mailboxes[id[1]])[id[2]] # Content(old[id[1]])[id[2]] => id \in c.updated
         /\ id \in c.created \cup c.updated => id[2] \in EmailChanged(mailboxes[id[1]], old[id[1]].highest_modseq)
  BY <1>10, <1>11
<1>13. QED
  BY <1>8, <1>9, <1>12 DEF old

\* The store stays in order and Email/set can account for what it did, under
\* any requests and whatever the store's other users do between them.
THEOREM JmapInvariance == jSpec => []JmapInv
<1>1. jInit => JmapInv
  BY InitInv DEF jInit, JmapInv
<1>2. QED
  BY <1>1, JmapNextInv, PTL DEF jSpec

\* The answer of Email/set tells what the call did, also when some of its
\* entries fail: created and destroyed are what is new and gone, what has
\* other flags is among the updated, and the later delta of every client
\* names what the answer names.
THEOREM AnswersTruthful == jSpec => []AnswerTruthful
<1>1. JmapInv => AnswerTruthful
  BY AccountsTruthful
<1>2. QED
  BY <1>1, JmapInvariance, PTL
=============================================================================
