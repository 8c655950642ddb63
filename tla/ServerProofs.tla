----------------------------- MODULE ServerProofs -----------------------------
(***************************************************************************)
(* Theorems about the submission session, the maildrop session and the     *)
(* answers of IMAP commands, for every limit, every set of lines, messages *)
(* and numbers and every bound.  All rest on what a loop over a list       *)
(* computes (LoopHistory, LoopPasses): the octets in a buffer, the mailbox *)
(* that QUIT leaves, the rows of a table, the trees of a union-find.       *)
(***************************************************************************)
EXTENDS Pop3Session, SmtpSession, ImapAnswers, MailboxProofs, NaturalLemmas,
        FiniteSetTheorems, FunctionTheorems, SequenceTheorems

-----------------------------------------------------------------------------
(* The buffer of SMTP DATA.                                                *)

\* The history of counting the octets of a list of lines.
CountsOctets(g, buf) ==
  g = [n \in 0 .. Len(buf) |-> IF n = 0 THEN 0 ELSE g[n - 1] + Len(buf[n]) + 2]

\* Counting the octets of a buffer ends, in a number.
LEMMA SizeCounts ==
  ASSUME NEW O, NEW buf \in Seq(Seq(O))
  PROVE  \E g \in [0 .. Len(buf) -> Nat] : CountsOctets(g, buf) /\ Size(buf) = g[Len(buf)]
<1> DEFINE N == Len(buf)
           F == [p \in (1 .. N) \X Nat |-> p[2] + Len(buf[p[1]]) + 2]
<1>1. N \in Nat /\ \A i \in 1 .. N : Len(buf[i]) \in Nat
  BY LenProperties, ElementOfSeq
<1> HIDE DEF N
<1>2. F \in [(1 .. N) \X Nat -> Nat]
  BY <1>1
<1>3. \A n \in 1 .. N, v \in Nat : F[<<n, v>>] = v + Len(buf[n]) + 2
  OBVIOUS
<1> HIDE DEF F
<1>4. PICK h \in [0 .. N -> Nat] : h[0] = 0 /\ \A n \in 1 .. N : h[n] = F[<<n, h[n - 1]>>]
  <2>1. 0 \in Nat /\ F \in Rounds(N, Nat)
    BY <1>2 DEF Rounds
  <2>2. \E h : IsHistory(h, N, Nat, 0, F)
    BY <1>1, <2>1, LoopHistory
  <2>3. QED
    BY <2>2 DEF IsHistory
<1>5. \A n \in 0 .. N : h[n] = IF n = 0 THEN 0 ELSE h[n - 1] + Len(buf[n]) + 2
  <2>1. TAKE n \in 0 .. N
  <2>2. n # 0 => n \in 1 .. N /\ h[n - 1] \in Nat
    BY <1>1
  <2>3. QED
    BY <1>3, <1>4, <2>2
<1>6. CountsOctets(h, buf)
  BY <1>1, <1>4, <1>5 DEF CountsOctets, N
<1> DEFINE c == CHOOSE g : CountsOctets(g, buf)
<1>7. Size(buf) = c[Len(buf)]
  BY Zenon DEF Size, CountsOctets
<1>8. CountsOctets(c, buf)
  BY <1>6
<1> HIDE DEF c
<1>9. c = h
  <2> DEFINE T == {n \in 0 .. N : c[n] # h[n]}
  <2>1. /\ DOMAIN c = 0 .. N
        /\ \A n \in 0 .. N : c[n] = IF n = 0 THEN 0 ELSE c[n - 1] + Len(buf[n]) + 2
    BY <1>8 DEF CountsOctets, N
  <2>0. c = [n \in 0 .. N |-> c[n]]
    BY <1>8, <2>1 DEF CountsOctets, N
  <2>2. T \subseteq Nat
    BY <1>1
  <2>3. ASSUME T # {} PROVE FALSE
    <3>1. PICK n \in T : \A y \in T : n <= y
      <4> HIDE DEF T
      <4>1. QED
        BY <2>2, <2>3, LeastNatural
    <3>2. n \in 0 .. N /\ c[n] # h[n]
      OBVIOUS
    <3>3. n # 0
      BY <1>1, <1>5, <2>1, <3>2
    <3>4. n - 1 \in 0 .. N /\ ~ (n <= n - 1)
      BY <1>1, <3>2, <3>3
    <3>5. c[n - 1] = h[n - 1]
      BY <3>1, <3>4
    <3>6. QED
      BY <1>5, <2>1, <3>2, <3>3, <3>5
  <2>4. \A n \in 0 .. N : c[n] = h[n]
    BY <2>3
  <2>5. QED
    BY <2>0, <2>4, <1>4
<1>10. QED
  BY <1>6, <1>7, <1>9 DEF N

\* The empty buffer is of size 0; a line adds its octets and a CRLF.
LEMMA SizeAppend ==
  ASSUME NEW O, NEW buf \in Seq(Seq(O)), NEW l \in Seq(O)
  PROVE  /\ Size(<<>>) = 0
         /\ Size(buf) \in Nat
         /\ Append(buf, l) \in Seq(Seq(O))
         /\ Size(Append(buf, l)) = Size(buf) + Len(l) + 2
<1> DEFINE N == Len(buf)
           more == Append(buf, l)
<1>1. N \in Nat /\ Len(l) \in Nat
  BY LenProperties
<1>2. /\ more \in Seq(Seq(O)) /\ Len(more) = N + 1 /\ more[N + 1] = l
      /\ \A i \in 1 .. N : more[i] = buf[i]
  BY AppendProperties
<1>3. PICK g \in [0 .. Len(buf) -> Nat] : CountsOctets(g, buf) /\ Size(buf) = g[Len(buf)]
  BY SizeCounts
<1> HIDE DEF more
<1>4. PICK h \in [0 .. Len(more) -> Nat] : CountsOctets(h, more) /\ Size(more) = h[Len(more)]
  BY <1>2, SizeCounts
<1>5. \A n \in 0 .. N : g[n] = IF n = 0 THEN 0 ELSE g[n - 1] + Len(buf[n]) + 2
  BY <1>3 DEF CountsOctets
<1>6. \A n \in 0 .. N + 1 : h[n] = IF n = 0 THEN 0 ELSE h[n - 1] + Len(more[n]) + 2
  BY <1>2, <1>4 DEF CountsOctets
<1>7. Size(buf) = g[N] /\ Size(more) = h[N + 1] /\ g \in [0 .. N -> Nat]
  BY <1>2, <1>3, <1>4
<1> HIDE DEF N
<1>8. \A n \in 0 .. N : h[n] = g[n]
  <2> DEFINE T == {n \in 0 .. N : h[n] # g[n]}
  <2>1. T \subseteq Nat
    BY <1>1
  <2>2. ASSUME T # {} PROVE FALSE
    <3>1. PICK n \in T : \A y \in T : n <= y
      <4> HIDE DEF T
      <4>1. QED
        BY <2>1, <2>2, LeastNatural
    <3>2. n \in 0 .. N /\ h[n] # g[n] /\ n \in 0 .. N + 1
      BY <1>1
    <3>3. n # 0
      BY <1>5, <1>6, <3>2
    <3>4. n - 1 \in 0 .. N /\ n \in 1 .. N /\ ~ (n <= n - 1)
      BY <1>1, <3>2, <3>3
    <3>5. h[n - 1] = g[n - 1]
      BY <3>1, <3>4
    <3>6. QED
      BY <1>2, <1>5, <1>6, <3>2, <3>3, <3>4, <3>5
  <2>3. QED
    BY <2>2
<1>9. h[N + 1] = h[N] + Len(l) + 2
  BY <1>1, <1>2, <1>6
<1>10. N \in 0 .. N /\ g[N] \in Nat
  BY <1>1, <1>7
<1>11. Size(<<>>) = 0
  <2>1. <<>> \in Seq(Seq(O)) /\ Len(<<>>) = 0
    BY EmptySeq
  <2>2. PICK z \in [0 .. Len(<<>>) -> Nat] : CountsOctets(z, <<>>) /\ Size(<<>>) = z[Len(<<>>)]
    BY <2>1, SizeCounts
  <2>3. QED
    BY <2>1, <2>2 DEF CountsOctets
<1>12. QED
  BY <1>2, <1>7, <1>8, <1>9, <1>10, <1>11 DEF more

\* The dot a client doubles is the one the server takes away.
LEMMA DotRestored ==
  ASSUME NEW O, NEW l \in Seq(O)
  PROVE  Unstuffed(Stuffed(l)) = l
<1>1. CASE l # <<>> /\ Head(l) = Dot
  <2>1. Dot \in O
    BY <1>1, HeadTailProperties
  <2> DEFINE d == <<Dot>> \o l
  <2>2. <<Dot>> \in Seq(O) /\ Len(<<Dot>>) = 1 /\ <<Dot>>[1] = Dot /\ Len(l) \in Nat
    BY <2>1, LenProperties
  <2>3. /\ d \in Seq(O) /\ Len(d) = Len(l) + 1
        /\ d[1] = Dot /\ \A i \in 1 .. Len(l) : d[i + 1] = l[i]
    BY <2>2, ConcatProperties
  <2> HIDE DEF d
  <2>4. d # <<>> /\ Head(d) = Dot
    BY <2>2, <2>3, EmptySeq, HeadTailProperties
  <2>5. /\ Tail(d) \in Seq(O) /\ Len(Tail(d)) = Len(l)
        /\ \A i \in 1 .. Len(l) : Tail(d)[i] = d[i + 1]
    BY <2>2, <2>3, <2>4, HeadTailProperties
  <2>6. Tail(d) = l
    BY <2>3, <2>5, SeqEqual
  <2>7. QED
    BY <1>1, <2>4, <2>6 DEF Stuffed, Unstuffed, d
<1>2. QED
  BY <1>1 DEF Stuffed, Unstuffed

-----------------------------------------------------------------------------
(* The submission session.                                                 *)

Octets == UNION {{l[i] : i \in DOMAIN l} : l \in Lines}

Bodies == Seq(Seq(Octets))

Recipient == Nat \X Recipients

Submission == [mail_from : Nat \cup {None}, rcpt_to : Seq(Recipient), data : Bodies,
               envid : Nat \cup {None}, ret : Nat \cup {None},
               dsn_notify : Seq(Recipient \cup {None}), body : Bodies]

\* The types of a session.
SmtpTypes ==
  /\ online \in BOOLEAN /\ phase \in {"Command", "Data"}
  /\ tls \in BOOLEAN /\ authed \in BOOLEAN
  /\ mail_from \in Nat \cup {None} /\ envid \in Nat \cup {None} /\ ret \in Nat \cup {None}
  /\ rcpt_to \in Seq(Recipient) /\ dsn_notify \in Seq(Recipient \cup {None})
  /\ data_buf \in Bodies /\ dictated \in Bodies /\ data_oversized \in BOOLEAN
  /\ submissions \in Seq(Submission)
  /\ txn \in Nat

\* Two lists, of recipients and of what their lines said of NOTIFY.
Aligned(rcpts, notify) ==
  /\ Len(rcpts) = Len(notify)
  /\ \A i \in DOMAIN rcpts : notify[i] \in {None, rcpts[i]}

\* An envelope all of one transaction.
OneEnvelope(from, rcpts, notify, id, r) ==
  /\ from # None
  /\ id \in {None, from} /\ r \in {None, from}
  /\ \A i \in DOMAIN rcpts : rcpts[i][1] = from
  /\ Aligned(rcpts, notify)

\* A login, or the beginning of one, is under TLS, and an envelope needs a login.
LoginInv ==
  /\ pending_auth # "None" => tls
  /\ authed => tls
  /\ mail_from # None => authed

\* The envelope is of the present transaction, and there is none without a sender.
EnvelopeInv ==
  /\ mail_from # None => mail_from = txn /\ OneEnvelope(mail_from, rcpt_to, dsn_notify, envid, ret)
  /\ mail_from = None => rcpt_to = <<>> /\ dsn_notify = <<>> /\ envid = None /\ ret = None
  /\ online /\ phase = "Data" => mail_from # None /\ rcpt_to # <<>>

\* While a body is received the buffer is the body, until it is over the limit:
\* from then on both are.
BufferInv ==
  /\ phase = "Command" => data_buf = <<>>
  /\ phase = "Data" /\ ~ data_oversized => data_buf = dictated /\ Size(data_buf) <= max_size
  /\ phase = "Data" /\ data_oversized => Size(data_buf) > max_size /\ Size(dictated) > max_size
  /\ \A l \in Lines : (\A m \in Lines : Len(m) <= Len(l)) => Size(data_buf) <= max_size + Len(l) + 2

\* What was accepted.
AcceptedInv ==
  \A k \in DOMAIN submissions :
    LET s == submissions[k]
    IN  /\ OneEnvelope(s.mail_from, s.rcpt_to, s.dsn_notify, s.envid, s.ret)
        /\ s.rcpt_to # <<>>
        /\ s.data = s.body

SmtpInv == SmtpTypes /\ LoginInv /\ EnvelopeInv /\ BufferInv /\ AcceptedInv

\* The lines are of octets.
LEMMA LinesOfOctets == \A l \in Lines : l \in Seq(Octets) /\ Len(l) \in Nat
<1>1. Lines \subseteq Seq(Octets)
  BY SmtpAssumption DEF Octets
<1>2. QED
  BY <1>1, LenProperties

\* A session that has just begun, or is over.
Empty ==
  /\ online \in BOOLEAN /\ phase \in {"Command", "Data"} /\ (online => phase = "Command")
  /\ tls \in BOOLEAN /\ authed = FALSE /\ pending_auth = "None"
  /\ mail_from = None /\ rcpt_to = <<>> /\ dsn_notify = <<>> /\ envid = None /\ ret = None
  /\ data_buf = <<>> /\ data_oversized = FALSE /\ dictated = <<>>
  /\ submissions = <<>> /\ txn \in Nat

\* It satisfies the invariant.
LEMMA EmptyInv == Empty => SmtpInv
<1> SUFFICES ASSUME Empty PROVE SmtpInv
  OBVIOUS
<1> USE DEF Empty
<1>1. /\ rcpt_to \in Seq(Recipient) /\ dsn_notify \in Seq(Recipient \cup {None})
      /\ data_buf \in Bodies /\ dictated \in Bodies /\ submissions \in Seq(Submission)
  BY EmptySeq DEF Bodies
<1>2. Size(data_buf) = 0
  BY SizeAppend, EmptySeq DEF Bodies
<1>3. \A l \in Lines : Len(l) \in Nat
  BY LinesOfOctets
<1>4. SmtpTypes
  BY <1>1 DEF SmtpTypes
<1>5. LoginInv
  BY DEF LoginInv
<1>6. EnvelopeInv
  BY DEF EnvelopeInv
<1>7. BufferInv
  BY <1>2, <1>3, SmtpAssumption DEF BufferInv
<1>8. AcceptedInv
  BY DEF AcceptedInv
<1>9. QED
  BY <1>4, <1>5, <1>6, <1>7, <1>8 DEF SmtpInv

\* And so does the session that follows, when the step empties it.
LEMMA EmptyNext == Empty' => SmtpInv'
  BY EmptyInv, PTL

\* Init establishes the invariant.
LEMMA SmtpInit == smtpInit => SmtpInv
<1>1. smtpInit => Empty
  BY DEF smtpInit, Empty
<1>2. QED
  BY <1>1, EmptyInv

\* A connection that ends, and one that begins, preserve it.
LEMMA ConnectionInv ==
  ASSUME SmtpInv, LosePeer \/ Reconnect \/ QUIT \/ QuitLine
  PROVE  SmtpInv'
<1>1. /\ phase' \in {"Command", "Data"} /\ tls' \in BOOLEAN
      /\ online' \in BOOLEAN /\ (online' => phase' = "Command")
      /\ Cleared
  BY DEF SmtpInv, SmtpTypes, LosePeer, Reconnect, QUIT, QuitLine, Close
<1>2. Empty'
  BY <1>1 DEF SmtpInv, SmtpTypes, Cleared, Empty
<1>3. QED
  BY <1>2, EmptyNext

\* Commands that begin or end a login preserve it.
LEMMA CommandInv ==
  ASSUME SmtpInv,
         \/ STARTTLS \/ auth_plain
         \/ \E step \in {"Plain", "LoginUser"} : cmd_auth(step)
         \/ \E verified \in BOOLEAN : continue_auth(verified)
  PROVE  SmtpInv'
<1>1. /\ UNCHANGED <<link, phase, envelope, data, submissions, txn>>
      /\ tls' \in BOOLEAN /\ authed' \in BOOLEAN
      /\ (tls => tls') /\ (authed => authed')
      /\ pending_auth' # "None" => tls'
      /\ authed' => tls'
  BY DEF SmtpInv, SmtpTypes, LoginInv, STARTTLS, auth_plain, cmd_auth, continue_auth, InCommand
<1>2. /\ online' = online /\ phase' = phase
      /\ mail_from' = mail_from /\ rcpt_to' = rcpt_to /\ dsn_notify' = dsn_notify
      /\ envid' = envid /\ ret' = ret
      /\ data_buf' = data_buf /\ data_oversized' = data_oversized /\ dictated' = dictated
      /\ submissions' = submissions /\ txn' = txn
  BY <1>1 DEF link, envelope, data
<1>3. SmtpTypes' /\ LoginInv'
  BY <1>1, <1>2 DEF SmtpInv, SmtpTypes, LoginInv
<1>4. EnvelopeInv' /\ BufferInv' /\ AcceptedInv'
  BY <1>2 DEF SmtpInv, EnvelopeInv, BufferInv, AcceptedInv
<1>5. QED
  BY <1>3, <1>4 DEF SmtpInv

\* The collection of what was accepted preserves it.
LEMMA CollectInv == SmtpInv /\ take_submissions => SmtpInv'
<1> SUFFICES ASSUME SmtpInv, take_submissions PROVE SmtpInv'
  OBVIOUS
<1>1. /\ online' = online /\ phase' = phase
      /\ tls' = tls /\ authed' = authed /\ pending_auth' = pending_auth
      /\ mail_from' = mail_from /\ rcpt_to' = rcpt_to /\ dsn_notify' = dsn_notify
      /\ envid' = envid /\ ret' = ret
      /\ data_buf' = data_buf /\ data_oversized' = data_oversized /\ dictated' = dictated
      /\ submissions' = <<>> /\ txn' = txn
  BY DEF take_submissions, link, login, envelope, data
<1>2. SmtpTypes' /\ LoginInv'
  BY <1>1, EmptySeq DEF SmtpInv, SmtpTypes, LoginInv
<1>3. EnvelopeInv' /\ BufferInv' /\ AcceptedInv'
  BY <1>1 DEF SmtpInv, EnvelopeInv, BufferInv, AcceptedInv
<1>4. QED
  BY <1>2, <1>3 DEF SmtpInv

\* MAIL begins an envelope.
LEMMA MailInv ==
  ASSUME SmtpInv, NEW hasEnvid \in BOOLEAN, NEW hasRet \in BOOLEAN, cmd_mail(hasEnvid, hasRet)
  PROVE  SmtpInv'
<1>1. /\ online' = online /\ phase' = phase /\ phase = "Command" /\ authed
      /\ tls' = tls /\ authed' = authed /\ pending_auth' = pending_auth
      /\ txn' = txn + 1 /\ mail_from' = txn'
      /\ rcpt_to' = <<>> /\ dsn_notify' = <<>>
      /\ envid' \in {None, txn'} /\ ret' \in {None, txn'}
      /\ data_buf' = data_buf /\ data_oversized' = data_oversized /\ dictated' = dictated
      /\ submissions' = submissions
  BY DEF cmd_mail, InCommand, Param, link, login, data
<1>2. txn' \in Nat
  BY <1>1 DEF SmtpInv, SmtpTypes
<1>3. SmtpTypes'
  BY <1>1, <1>2, EmptySeq DEF SmtpInv, SmtpTypes
<1>4. LoginInv'
  BY <1>1 DEF SmtpInv, LoginInv
<1>5. EnvelopeInv'
  BY <1>1 DEF EnvelopeInv, OneEnvelope, Aligned
<1>6. BufferInv' /\ AcceptedInv'
  BY <1>1 DEF SmtpInv, BufferInv, AcceptedInv
<1>7. QED
  BY <1>3, <1>4, <1>5, <1>6 DEF SmtpInv

\* RCPT adds a recipient and what its line says of NOTIFY.
LEMMA RcptInv ==
  ASSUME SmtpInv, NEW r \in Recipients, NEW notify \in BOOLEAN, cmd_rcpt(r, notify)
  PROVE  SmtpInv'
<1> DEFINE one == <<txn, r>>
           said == Param(notify, one)
           n == Len(rcpt_to)
<1>1. /\ online' = online /\ phase' = phase /\ phase = "Command" /\ mail_from # None
      /\ tls' = tls /\ authed' = authed /\ pending_auth' = pending_auth
      /\ mail_from' = mail_from /\ envid' = envid /\ ret' = ret
      /\ rcpt_to' = Append(rcpt_to, one) /\ dsn_notify' = Append(dsn_notify, said)
      /\ data_buf' = data_buf /\ data_oversized' = data_oversized /\ dictated' = dictated
      /\ submissions' = submissions /\ txn' = txn
  BY DEF cmd_rcpt, InCommand, link, login, data
<1>2. one \in Recipient /\ said \in {None, one} /\ one[1] = txn
  BY DEF SmtpInv, SmtpTypes, Recipient, Param
<1> HIDE DEF one, said
<1>3. /\ rcpt_to \in Seq(Recipient) /\ dsn_notify \in Seq(Recipient \cup {None})
      /\ n \in Nat /\ Len(dsn_notify) = n /\ mail_from = txn
      /\ DOMAIN rcpt_to = 1 .. n
      /\ \A i \in 1 .. n : dsn_notify[i] \in {None, rcpt_to[i]} /\ rcpt_to[i][1] = txn
      /\ envid \in {None, txn} /\ ret \in {None, txn}
  BY <1>1, LenProperties DEF SmtpInv, SmtpTypes, EnvelopeInv, OneEnvelope, Aligned
<1>4. /\ rcpt_to' \in Seq(Recipient) /\ Len(rcpt_to') = n + 1 /\ rcpt_to'[n + 1] = one
      /\ \A i \in 1 .. n : rcpt_to'[i] = rcpt_to[i]
  BY <1>1, <1>2, <1>3, AppendProperties
<1>5. /\ dsn_notify' \in Seq(Recipient \cup {None}) /\ Len(dsn_notify') = n + 1
      /\ dsn_notify'[n + 1] = said
      /\ \A i \in 1 .. n : dsn_notify'[i] = dsn_notify[i]
  <2>1. said \in Recipient \cup {None}
    BY <1>2
  <2>2. QED
    BY <1>1, <1>3, <2>1, AppendProperties
<1>6. DOMAIN rcpt_to' = 1 .. n + 1 /\ rcpt_to' # <<>>
  BY <1>3, <1>4, LenProperties, EmptySeq
<1> HIDE DEF n
<1>7. ASSUME NEW i \in 1 .. n + 1
      PROVE  dsn_notify'[i] \in {None, rcpt_to'[i]} /\ rcpt_to'[i][1] = txn
  <2>1. i \in 1 .. n \/ i = n + 1
    BY <1>3
  <2>2. QED
    BY <1>2, <1>3, <1>4, <1>5, <2>1
<1>8. SmtpTypes'
  BY <1>1, <1>4, <1>5 DEF SmtpInv, SmtpTypes
<1>9. LoginInv'
  BY <1>1 DEF SmtpInv, LoginInv
<1>10. EnvelopeInv'
  BY <1>1, <1>3, <1>4, <1>5, <1>6, <1>7 DEF EnvelopeInv, OneEnvelope, Aligned
<1>11. BufferInv' /\ AcceptedInv'
  BY <1>1 DEF SmtpInv, BufferInv, AcceptedInv
<1>12. QED
  BY <1>8, <1>9, <1>10, <1>11 DEF SmtpInv

\* RSET, and the refusal of a message over the limit, drop the envelope.
LEMMA ResetInv == SmtpInv /\ (RSET \/ Refuse) => SmtpInv'
<1> SUFFICES ASSUME SmtpInv, RSET \/ Refuse PROVE SmtpInv'
  OBVIOUS
<1>1. /\ online' = online /\ phase' = "Command"
      /\ tls' = tls /\ authed' = authed /\ pending_auth' = pending_auth
      /\ mail_from' = None /\ rcpt_to' = <<>> /\ dsn_notify' = <<>>
      /\ envid' = None /\ ret' = None
      /\ data_buf' = <<>> /\ data_oversized' = data_oversized /\ dictated' \in {dictated, <<>>}
      /\ submissions' = submissions /\ txn' = txn
  BY DEF RSET, Refuse, reset_txn, InCommand, link, login
<1>2. dictated' \in Bodies /\ Size(data_buf') = 0
  BY <1>1, EmptySeq, SizeAppend DEF SmtpInv, SmtpTypes, Bodies
<1>3. SmtpTypes'
  BY <1>1, <1>2, EmptySeq DEF SmtpInv, SmtpTypes, Bodies
<1>4. LoginInv'
  BY <1>1 DEF SmtpInv, LoginInv
<1>5. EnvelopeInv'
  BY <1>1 DEF EnvelopeInv
<1>6. BufferInv'
  BY <1>1, <1>2, LinesOfOctets, SmtpAssumption DEF BufferInv
<1>7. AcceptedInv'
  BY <1>1 DEF SmtpInv, AcceptedInv
<1>8. QED
  BY <1>3, <1>4, <1>5, <1>6, <1>7 DEF SmtpInv

\* DATA begins a body.
LEMMA DataInv == SmtpInv /\ cmd_data => SmtpInv'
<1> SUFFICES ASSUME SmtpInv, cmd_data PROVE SmtpInv'
  OBVIOUS
<1>1. /\ online' = online /\ phase' = "Data" /\ mail_from # None /\ rcpt_to # <<>>
      /\ tls' = tls /\ authed' = authed /\ pending_auth' = pending_auth
      /\ mail_from' = mail_from /\ rcpt_to' = rcpt_to /\ dsn_notify' = dsn_notify
      /\ envid' = envid /\ ret' = ret
      /\ data_buf' = <<>> /\ data_oversized' = FALSE /\ dictated' = <<>>
      /\ submissions' = submissions /\ txn' = txn
  BY DEF cmd_data, InCommand, link, login, envelope
<1>2. Size(data_buf') = 0
  BY <1>1, EmptySeq, SizeAppend DEF Bodies
<1>3. SmtpTypes'
  BY <1>1, EmptySeq DEF SmtpInv, SmtpTypes, Bodies
<1>4. LoginInv'
  BY <1>1 DEF SmtpInv, LoginInv
<1>5. EnvelopeInv'
  BY <1>1 DEF SmtpInv, EnvelopeInv
<1>6. BufferInv'
  BY <1>1, <1>2, LinesOfOctets, SmtpAssumption DEF BufferInv
<1>7. AcceptedInv'
  BY <1>1 DEF SmtpInv, AcceptedInv
<1>8. QED
  BY <1>3, <1>4, <1>5, <1>6, <1>7 DEF SmtpInv

\* A body line is added to the buffer as the client meant it, or the buffer is
\* over the limit already.
LEMMA LineInv ==
  ASSUME SmtpInv, NEW l \in Lines, DataLine(l)
  PROVE  SmtpInv'
<1>1. /\ online' = online /\ phase' = phase /\ phase = "Data"
      /\ tls' = tls /\ authed' = authed /\ pending_auth' = pending_auth
      /\ mail_from' = mail_from /\ rcpt_to' = rcpt_to /\ dsn_notify' = dsn_notify
      /\ envid' = envid /\ ret' = ret
      /\ dictated' = Append(dictated, l)
      /\ data_oversized' = (data_oversized \/ Size(data_buf') > max_size)
      /\ submissions' = submissions /\ txn' = txn
  BY DEF DataLine, link, login, envelope
<1>2. /\ l \in Seq(Octets) /\ Len(l) \in Nat /\ max_size \in Nat
      /\ data_buf \in Seq(Seq(Octets)) /\ dictated \in Seq(Seq(Octets))
  BY LinesOfOctets, SmtpAssumption DEF SmtpInv, SmtpTypes, Bodies
<1>3. Unstuffed(Stuffed(l)) = l
  BY <1>2, DotRestored
<1>4. data_buf' = IF Size(data_buf) <= max_size THEN Append(data_buf, l) ELSE data_buf
  BY <1>3 DEF DataLine, Buffered
<1>5. /\ Size(data_buf) \in Nat /\ Append(data_buf, l) \in Seq(Seq(Octets))
      /\ Size(Append(data_buf, l)) = Size(data_buf) + Len(l) + 2
  BY <1>2, SizeAppend
<1>6. /\ Size(dictated) \in Nat /\ dictated' \in Seq(Seq(Octets))
      /\ Size(dictated') = Size(dictated) + Len(l) + 2
  BY <1>1, <1>2, SizeAppend
<1>7. SmtpTypes'
  BY <1>1, <1>2, <1>4, <1>5, <1>6 DEF SmtpInv, SmtpTypes, Bodies
<1>8. LoginInv'
  BY <1>1 DEF SmtpInv, LoginInv
<1>9. EnvelopeInv'
  BY <1>1 DEF SmtpInv, EnvelopeInv
<1>10. BufferInv'
  <2>1. ASSUME ~ data_oversized'
        PROVE  data_buf' = dictated' /\ Size(data_buf') <= max_size
    <3>1. ~ data_oversized /\ ~ (Size(data_buf') > max_size)
      BY <1>1, <2>1
    <3>2. data_buf = dictated /\ Size(data_buf) <= max_size
      BY <1>1, <3>1 DEF SmtpInv, BufferInv
    <3>3. QED
      BY <1>1, <1>2, <1>4, <1>5, <3>1, <3>2
  <2>2. ASSUME data_oversized'
        PROVE  Size(data_buf') > max_size /\ Size(dictated') > max_size
    <3>1. CASE data_oversized
      <4>1. Size(data_buf) > max_size /\ Size(dictated) > max_size
        BY <1>1, <3>1 DEF SmtpInv, BufferInv
      <4>2. QED
        BY <1>2, <1>4, <1>5, <1>6, <4>1
    <3>2. CASE ~ data_oversized
      <4>1. data_buf = dictated /\ Size(data_buf) <= max_size
        BY <1>1, <3>2 DEF SmtpInv, BufferInv
      <4>2. Size(data_buf') > max_size
        BY <1>1, <2>2, <3>2
      <4>3. data_buf' = dictated'
        BY <1>1, <1>4, <4>1
      <4>4. QED
        BY <4>2, <4>3
    <3>3. QED
      BY <3>1, <3>2
  <2>3. ASSUME NEW x \in Lines, \A m \in Lines : Len(m) <= Len(x)
        PROVE  Size(data_buf') <= max_size + Len(x) + 2
    <3>1. Len(l) <= Len(x) /\ Len(x) \in Nat
      BY <2>3, LinesOfOctets
    <3>2. Size(data_buf) <= max_size + Len(x) + 2
      BY <2>3 DEF SmtpInv, BufferInv
    <3>3. QED
      BY <1>2, <1>4, <1>5, <3>1, <3>2
  <2>4. QED
    BY <1>1, <2>1, <2>2, <2>3 DEF BufferInv
<1>11. AcceptedInv'
  BY <1>1 DEF SmtpInv, AcceptedInv
<1>12. QED
  BY <1>7, <1>8, <1>9, <1>10, <1>11 DEF SmtpInv

\* An accepted message is the envelope and the body of the present transaction.
LEMMA AcceptInv == SmtpInv /\ Accept => SmtpInv'
<1> SUFFICES ASSUME SmtpInv, Accept PROVE SmtpInv'
  OBVIOUS
<1> DEFINE s == [mail_from |-> mail_from, rcpt_to |-> rcpt_to, data |-> data_buf,
                 envid |-> envid, ret |-> ret, dsn_notify |-> dsn_notify, body |-> dictated]
           n == Len(submissions)
<1>1. /\ online' = online /\ online /\ phase = "Data" /\ phase' = "Command"
      /\ tls' = tls /\ authed' = authed /\ pending_auth' = pending_auth
      /\ mail_from' = None /\ rcpt_to' = <<>> /\ dsn_notify' = <<>>
      /\ envid' = None /\ ret' = None
      /\ data_buf' = <<>> /\ data_oversized' = data_oversized /\ ~ data_oversized
      /\ dictated' = <<>>
      /\ submissions' = Append(submissions, s) /\ txn' = txn
  BY DEF Accept, reset_txn, link, login
<1>2. s \in Submission
  BY DEF SmtpInv, SmtpTypes, Submission
<1>3. /\ OneEnvelope(s.mail_from, s.rcpt_to, s.dsn_notify, s.envid, s.ret)
      /\ s.rcpt_to # <<>>
      /\ s.data = s.body
  BY <1>1 DEF SmtpInv, EnvelopeInv, BufferInv
<1> HIDE DEF s
<1>4. submissions \in Seq(Submission) /\ n \in Nat /\ DOMAIN submissions = 1 .. n
  BY LenProperties DEF SmtpInv, SmtpTypes
<1>5. /\ submissions' \in Seq(Submission) /\ Len(submissions') = n + 1
      /\ submissions'[n + 1] = s
      /\ \A k \in 1 .. n : submissions'[k] = submissions[k]
  BY <1>1, <1>2, <1>4, AppendProperties
<1>6. DOMAIN submissions' = 1 .. n + 1
  BY <1>5, LenProperties
<1> HIDE DEF n
<1>7. AcceptedInv'
  <2>1. \A k \in 1 .. n + 1 : k \in 1 .. n \/ k = n + 1
    BY <1>4
  <2>2. QED
    BY <1>3, <1>4, <1>5, <1>6, <2>1 DEF SmtpInv, AcceptedInv
<1>8. Size(data_buf') = 0
  BY <1>1, EmptySeq, SizeAppend DEF Bodies
<1>9. SmtpTypes'
  BY <1>1, <1>5, EmptySeq DEF SmtpInv, SmtpTypes, Bodies
<1>10. LoginInv'
  BY <1>1 DEF SmtpInv, LoginInv
<1>11. EnvelopeInv'
  BY <1>1 DEF EnvelopeInv
<1>12. BufferInv'
  BY <1>1, <1>8, LinesOfOctets, SmtpAssumption DEF BufferInv
<1>13. QED
  BY <1>7, <1>9, <1>10, <1>11, <1>12 DEF SmtpInv

\* Every step preserves the invariant.
LEMMA SmtpStep == SmtpInv /\ [smtpNext]_smtpVars => SmtpInv'
<1> SUFFICES ASSUME SmtpInv, [smtpNext]_smtpVars PROVE SmtpInv'
  OBVIOUS
<1>1. CASE UNCHANGED smtpVars
  <2>1. /\ online' = online /\ phase' = phase
        /\ tls' = tls /\ authed' = authed /\ pending_auth' = pending_auth
        /\ mail_from' = mail_from /\ rcpt_to' = rcpt_to /\ dsn_notify' = dsn_notify
        /\ envid' = envid /\ ret' = ret
        /\ data_buf' = data_buf /\ data_oversized' = data_oversized /\ dictated' = dictated
        /\ submissions' = submissions /\ txn' = txn
    BY <1>1 DEF smtpVars, link, login, envelope, data
  <2>2. QED
    BY <2>1 DEF SmtpInv, SmtpTypes, LoginInv, EnvelopeInv, BufferInv, AcceptedInv
<1>2. CASE smtpNext
  BY <1>2, ConnectionInv, CommandInv, CollectInv, MailInv, RcptInv, ResetInv, DataInv, LineInv,
     AcceptInv, Zenon DEF smtpNext
<1>3. QED
  BY <1>1, <1>2

\* The invariant holds of every submission session, whatever the client sends.
THEOREM SmtpInvariance == smtpSpec => []SmtpInv
  BY SmtpInit, SmtpStep, PTL DEF smtpSpec

\* No accepted message carries a sender, recipient or DSN parameter of another
\* transaction (cmd_mail, cmd_rcpt, reset_txn), for every number of transactions,
\* recipients and connections.
THEOREM TransactionsSeparate == smtpSpec => []OneTransaction
<1>1. SmtpInv => OneTransaction
  <2> SUFFICES ASSUME SmtpInv PROVE OneTransaction
    OBVIOUS
  <2>1. mail_from # None => authed /\ tls
    BY DEF SmtpInv, LoginInv
  <2>2. online /\ phase = "Data" => mail_from # None /\ rcpt_to # <<>>
    BY DEF SmtpInv, EnvelopeInv
  <2>3. Aligned(rcpt_to, dsn_notify)
    BY DEF SmtpInv, EnvelopeInv, OneEnvelope, Aligned
  <2>4. ASSUME NEW k \in DOMAIN submissions
        PROVE  LET s == submissions[k]
               IN  /\ s.mail_from # None /\ s.rcpt_to # <<>>
                   /\ {s.envid, s.ret} \subseteq {None, s.mail_from}
                   /\ \A i \in DOMAIN s.rcpt_to : s.rcpt_to[i][1] = s.mail_from
                   /\ Aligned(s.rcpt_to, s.dsn_notify)
    BY DEF SmtpInv, AcceptedInv, OneEnvelope
  <2>5. QED
    BY <2>1, <2>2, <2>3, <2>4 DEF OneTransaction, Aligned
<1>2. QED
  BY <1>1, SmtpInvariance, PTL

\* What is accepted is what was sent, octet by octet, and the buffer never holds
\* more than the limit and one line (feed_data_line), for every limit and every
\* set of lines.
THEOREM BodiesExact == smtpSpec => []BodyExact
<1>1. SmtpInv => BodyExact
  BY DEF SmtpInv, AcceptedInv, BufferInv, BodyExact
<1>2. QED
  BY <1>1, SmtpInvariance, PTL

\* A message is accepted if and only if it is within the limit, whatever became
\* of those before it.
THEOREM VerdictsExact == smtpSpec => SizeVerdict
<1>1. SmtpInv /\ [smtpNext]_smtpVars => [SizeVerdictStep]_smtpVars
  <2> SUFFICES ASSUME SmtpInv, smtpNext, online, phase = "Data", phase' = "Command"
               PROVE  submissions' # submissions <=> Size(dictated) <= max_size
    BY DEF SizeVerdictStep
  <2>1. Accept \/ Refuse
    BY DEF smtpNext, LosePeer, Reconnect, take_submissions, QUIT, STARTTLS, auth_plain, RSET,
           cmd_data, cmd_auth, continue_auth, cmd_mail, cmd_rcpt, DataLine, QuitLine, InCommand, Close
  <2>2. CASE Accept
    <3> DEFINE s == [mail_from |-> mail_from, rcpt_to |-> rcpt_to, data |-> data_buf,
                     envid |-> envid, ret |-> ret, dsn_notify |-> dsn_notify, body |-> dictated]
    <3>1. submissions' = Append(submissions, s) /\ ~ data_oversized
      BY <2>2 DEF Accept
    <3>2. s \in Submission /\ submissions \in Seq(Submission)
      BY DEF SmtpInv, SmtpTypes, Submission
    <3> HIDE DEF s
    <3>3. Len(submissions') = Len(submissions) + 1 /\ Len(submissions) \in Nat
      BY <3>1, <3>2, AppendProperties, LenProperties
    <3>4. Size(dictated) <= max_size
      BY <3>1 DEF SmtpInv, BufferInv
    <3>5. QED
      BY <3>3, <3>4
  <2>3. CASE Refuse
    <3>1. submissions' = submissions /\ data_oversized
      BY <2>3 DEF Refuse
    <3>2. Size(dictated) > max_size
      BY <3>1 DEF SmtpInv, BufferInv
    <3>3. Size(dictated) \in Nat /\ max_size \in Nat
      BY SizeAppend, EmptySeq, SmtpAssumption DEF SmtpInv, SmtpTypes, Bodies
    <3>4. QED
      BY <3>1, <3>2, <3>3
  <2>4. QED
    BY <2>1, <2>2, <2>3
<1>2. QED
  BY <1>1, SmtpInvariance, PTL DEF smtpSpec, SizeVerdict

-----------------------------------------------------------------------------
(* The maildrop session: what QUIT removes.                                *)

\* The messages of one mailbox are among those of another.
Among(new, old) ==
  \A j \in DOMAIN new.messages : \E i \in DOMAIN old.messages : new.messages[j] = old.messages[i]

\* One expunge by UID removes that message, if it is there, and no other.
LEMMA RemoveUidFields ==
  ASSUME NEW mb \in Sound, NEW uid \in Nat
  PROVE  /\ RemoveUid(mb, uid) \in Sound
         /\ Uids(RemoveUid(mb, uid)) = Uids(mb) \ {uid}
         /\ Among(RemoveUid(mb, uid), mb)
<1>1. mb \in MailboxType /\ WellFormed(mb)
  BY DEF Sound
<1>2. CASE uid \notin Uids(mb)
  BY <1>2 DEF RemoveUid, Among
<1>3. CASE uid \in Uids(mb)
  <2> DEFINE i == CHOOSE i \in seq_of_uid(mb, uid) : TRUE
             new == remove_at(mb, i)
             n == Len(mb.messages)
  <2>1. \E x : x \in seq_of_uid(mb, uid)
    BY <1>3 DEF Uids, seq_of_uid
  <2>2. i \in DOMAIN mb.messages /\ mb.messages[i].uid = uid
    BY <2>1 DEF seq_of_uid
  <2>3. RemoveUid(mb, uid) = new
    BY <1>3 DEF RemoveUid
  <2> HIDE DEF i
  <2>4. /\ new \in MailboxType /\ i \in 1 .. n
        /\ DOMAIN new.messages = 1 .. n - 1
        /\ \A j \in 1 .. n - 1 :
             new.messages[j] = IF j < i THEN mb.messages[j] ELSE mb.messages[j + 1]
    BY <1>1, <2>2, RemoveAtFields
  <2>5. WellFormed(new) /\ Uids(new) = Uids(mb) \ {uid}
    BY <1>1, <2>2, RemoveAtWellFormed
  <2>6. n \in Nat /\ DOMAIN mb.messages = 1 .. n
    BY <1>1, MailboxParts
  <2> HIDE DEF new, n
  <2>7. ASSUME NEW j \in DOMAIN new.messages
        PROVE  \E x \in DOMAIN mb.messages : new.messages[j] = mb.messages[x]
    <3>1. j \in 1 .. n /\ j + 1 \in 1 .. n
      BY <2>4, <2>6
    <3>2. QED
      BY <2>4, <2>6, <3>1
  <2>8. QED
    BY <2>3, <2>4, <2>5, <2>7 DEF Sound, Among
<1>4. QED
  BY <1>2, <1>3

\* The mailboxes that QUIT goes through.
Commits(g) ==
  g = [n \in 0 .. Len(slots) |->
         IF n = 0 THEN inbox
         ELSE IF slots[n].deleted THEN RemoveUid(g[n - 1], slots[n].uid)
         ELSE g[n - 1]]

\* QUIT removes the messages marked that are still there, and no other.
LEMMA CommitFields ==
  ASSUME inbox \in Sound, slots \in Seq(Slot)
  PROVE  LET marked == {slots[i].uid : i \in {j \in DOMAIN slots : slots[j].deleted}}
         IN  /\ commit \in Sound
             /\ Uids(commit) = Uids(inbox) \ marked
             /\ Among(commit, inbox)
<1> DEFINE N == Len(slots)
           F == [p \in (1 .. N) \X Sound |->
                   IF slots[p[1]].deleted THEN RemoveUid(p[2], slots[p[1]].uid) ELSE p[2]]
           c == CHOOSE g : Commits(g)
           upto(n) == {slots[i].uid : i \in {j \in 1 .. n : slots[j].deleted}}
           Good(n) == /\ c[n] \in Sound
                      /\ Uids(c[n]) = Uids(inbox) \ upto(n)
                      /\ Among(c[n], inbox)
<1>1. N \in Nat /\ DOMAIN slots = 1 .. N /\ \A i \in 1 .. N : slots[i] \in Slot
  BY LenProperties, ElementOfSeq
<1>2. \A i \in 1 .. N : slots[i].uid \in Nat
  BY <1>1 DEF Slot
<1>3. \E g : Commits(g)
  <2> HIDE DEF N
  <2>1. F \in Rounds(N, Sound)
    BY <1>2, RemoveUidFields DEF Rounds
  <2>2. \A n \in 1 .. N, v \in Sound :
          F[<<n, v>>] = IF slots[n].deleted THEN RemoveUid(v, slots[n].uid) ELSE v
    OBVIOUS
  <2> HIDE DEF F
  <2>3. PICK h : IsHistory(h, N, Sound, inbox, F)
    BY <1>1, <2>1, LoopHistory
  <2>4. h \in [0 .. N -> Sound] /\ h[0] = inbox /\ \A n \in 1 .. N : h[n] = F[<<n, h[n - 1]>>]
    BY <2>3 DEF IsHistory
  <2>5. ASSUME NEW n \in 0 .. N
        PROVE  h[n] = IF n = 0 THEN inbox
                      ELSE IF slots[n].deleted THEN RemoveUid(h[n - 1], slots[n].uid)
                      ELSE h[n - 1]
    <3>1. CASE n = 0
      BY <2>4, <3>1
    <3>2. CASE n # 0
      <4>1. n \in 1 .. N /\ n - 1 \in 0 .. N
        BY <1>1, <3>2
      <4>2. h[n - 1] \in Sound
        BY <2>4, <4>1
      <4>3. QED
        BY <2>2, <2>4, <3>2, <4>1, <4>2
    <3>3. QED
      BY <3>1, <3>2
  <2>6. Commits(h)
    BY <2>4, <2>5 DEF Commits, N
  <2>7. QED
    BY <2>6
<1>4. commit = c[N]
  BY Zenon DEF commit, Commits
<1>5. Commits(c)
  BY <1>3
<1> HIDE DEF c
<1>6. \A n \in 0 .. N : c[n] = IF n = 0 THEN inbox
                               ELSE IF slots[n].deleted THEN RemoveUid(c[n - 1], slots[n].uid)
                               ELSE c[n - 1]
  BY <1>5 DEF Commits
<1> HIDE DEF N
<1>7. Good(0)
  <2>1. c[0] = inbox
    BY <1>1, <1>6
  <2>2. upto(0) = {}
    OBVIOUS
  <2>3. QED
    BY <2>1, <2>2 DEF Among
<1>8. ASSUME NEW n \in 0 .. N, n # 0, Good(n - 1)
      PROVE  Good(n)
  <2>1. n \in 1 .. N /\ n - 1 \in 0 .. N /\ n \in Nat
    BY <1>1, <1>8
  <2>2. upto(n) = IF slots[n].deleted THEN upto(n - 1) \cup {slots[n].uid} ELSE upto(n - 1)
    <3>1. \A j : j \in 1 .. n <=> j \in 1 .. n - 1 \/ j = n
      BY <2>1
    <3>2. CASE slots[n].deleted
      BY <3>1, <3>2
    <3>3. CASE ~ slots[n].deleted
      BY <3>1, <3>3
    <3>4. QED
      BY <3>2, <3>3
  <2> HIDE DEF upto
  <2>3. CASE slots[n].deleted
    <3>1. c[n] = RemoveUid(c[n - 1], slots[n].uid)
      BY <1>6, <1>8, <2>3
    <3>2. /\ c[n] \in Sound
          /\ Uids(c[n]) = Uids(c[n - 1]) \ {slots[n].uid}
          /\ Among(c[n], c[n - 1])
      <4>1. slots[n].uid \in Nat /\ c[n - 1] \in Sound
        BY <1>2, <1>8, <2>1
      <4>2. QED
        BY <3>1, <4>1, RemoveUidFields
    <3>3. Among(c[n], inbox)
      BY <1>8, <3>2 DEF Among
    <3>4. QED
      BY <1>8, <2>2, <2>3, <3>2, <3>3
  <2>4. CASE ~ slots[n].deleted
    <3>1. c[n] = c[n - 1]
      BY <1>6, <1>8, <2>4
    <3>2. QED
      BY <1>8, <2>2, <2>4, <3>1
  <2>5. QED
    BY <2>3, <2>4
<1> HIDE DEF Good
<1> DEFINE T == {n \in 0 .. N : ~ Good(n)}
<1>9. T \subseteq Nat
  OBVIOUS
<1>10. ASSUME T # {} PROVE FALSE
  <2>1. PICK n \in T : \A y \in T : n <= y
    <3> HIDE DEF T
    <3>1. QED
      BY <1>9, <1>10, LeastNatural
  <2>2. n \in 0 .. N /\ n # 0 /\ ~ Good(n)
    BY <1>7
  <2>3. n - 1 \in 0 .. N /\ ~ (n <= n - 1)
    BY <1>1, <2>2
  <2>4. Good(n - 1)
    BY <2>1, <2>3
  <2>5. QED
    BY <1>8, <2>2, <2>4
<1>11. Good(N)
  BY <1>1, <1>10
<1>12. QED
  BY <1>1, <1>4, <1>11 DEF Good, upto

-----------------------------------------------------------------------------
(* The maildrop session.                                                   *)

PopInv ==
  /\ inbox \in Sound
  /\ slots \in Seq(Slot)
  /\ connected \in BOOLEAN /\ pending_sasl \in BOOLEAN
  /\ ~ connected \/ pending_sasl => state = "Authorization"
  /\ state = "Authorization" => slots = <<>>
  /\ MaildropFixed

\* What a mailbox says of a message is what any mailbox with it says.
LEMMA AmongContent ==
  ASSUME NEW new \in Sound, NEW old \in Sound, Among(new, old)
  PROVE  /\ Uids(new) \subseteq Uids(old)
         /\ \A u \in Uids(new) : Content(new)[u] = Content(old)[u]
<1>1. /\ new \in MailboxType /\ old \in MailboxType /\ UidsAscending(new) /\ UidsAscending(old)
  BY DEF Sound, WellFormed
<1>2. ASSUME NEW u \in Uids(new)
      PROVE  u \in Uids(old) /\ Content(new)[u] = Content(old)[u]
  <2>1. PICK j \in DOMAIN new.messages : new.messages[j].uid = u
    BY DEF Uids
  <2>2. PICK i \in DOMAIN old.messages : new.messages[j] = old.messages[i]
    BY DEF Among
  <2>3. Content(new)[u] = [flags |-> new.messages[j].flags, raw |-> new.messages[j].raw]
    BY <1>1, <2>1, ContentAt
  <2>4. /\ u \in Uids(old)
        /\ Content(old)[u] = [flags |-> old.messages[i].flags, raw |-> old.messages[i].raw]
    BY <1>1, <2>1, <2>2, ContentAt
  <2>5. QED
    BY <2>2, <2>3, <2>4
<1>3. QED
  BY <1>2

\* The session begins, or ends.
LEMMA NewSessionInv ==
  ASSUME inbox' \in Sound, connected' \in BOOLEAN, NewSession
  PROVE  PopInv'
<1>1. state' = "Authorization" /\ slots' = <<>> /\ pending_sasl' = FALSE
  BY DEF NewSession
<1>2. slots' \in Seq(Slot)
  BY <1>1, EmptySeq
<1>3. MaildropFixed'
  BY <1>1 DEF MaildropFixed
<1>4. QED
  BY <1>1, <1>2, <1>3 DEF PopInv

\* A login fixes the maildrop.
LEMMA LoginOkInv ==
  ASSUME PopInv, login_ok, inbox' = inbox, connected' = connected, connected, pending_sasl' = FALSE
  PROVE  PopInv'
<1> DEFINE N == Len(inbox.messages)
           M == inbox.messages
<1>1. inbox \in MailboxType /\ UidsAscending(inbox)
  BY DEF PopInv, Sound, WellFormed
<1>2. /\ N \in Nat /\ DOMAIN M = 1 .. N
      /\ \A i \in 1 .. N : M[i] \in Message
  BY <1>1, MailboxParts
<1>3. /\ slots' = [i \in 1 .. N |-> [uid |-> M[i].uid, raw |-> M[i].raw, deleted |-> FALSE]]
      /\ listing' = [i \in 1 .. N |-> M[i].uid]
      /\ asked' = {} /\ state' = "Transaction"
  BY <1>2 DEF login_ok, load_inbox
<1>4. slots' \in Seq(Slot)
  <2>1. slots' \in [1 .. N -> Slot]
    BY <1>2, <1>3 DEF Message, Slot
  <2>2. QED
    BY <1>2, <2>1, SeqDef
<1>5. /\ DOMAIN slots' = 1 .. N
      /\ \A i \in 1 .. N : slots'[i].uid = M[i].uid /\ slots'[i].raw = M[i].raw /\ ~ slots'[i].deleted
  BY <1>3
<1>6. \A i \in 1 .. N : Content(inbox)[M[i].uid].raw = M[i].raw
  <2>1. TAKE i \in 1 .. N
  <2>2. i \in DOMAIN inbox.messages
    BY <1>2
  <2>3. Content(inbox)[inbox.messages[i].uid] = [flags |-> inbox.messages[i].flags, raw |-> inbox.messages[i].raw]
    BY <1>1, <2>2, ContentAt
  <2>4. QED
    BY <2>3
<1>7. MaildropFixed'
  <2>1. [i \in DOMAIN slots' |-> slots'[i].uid] = listing'
    BY <1>3, <1>5
  <2>2. \A i \in DOMAIN slots' : Content(inbox)[slots'[i].uid].raw = slots'[i].raw
    BY <1>5, <1>6
  <2>3. {slots'[i].uid : i \in {j \in DOMAIN slots' : slots'[j].deleted}} = asked'
    BY <1>3, <1>5
  <2>4. QED
    BY <2>1, <2>2, <2>3 DEF MaildropFixed
<1>8. QED
  BY <1>3, <1>4, <1>7 DEF PopInv

\* DELE marks a slot and does not change what a number means.
LEMMA DeleInv ==
  ASSUME PopInv, NEW n, dele(n)
  PROVE  PopInv'
<1> DEFINE N == Len(slots)
           one == [slots[n] EXCEPT !.deleted = TRUE]
<1>1. /\ inbox' = inbox /\ connected' = connected /\ state' = state /\ pending_sasl' = pending_sasl
      /\ listing' = listing /\ state = "Transaction" /\ n \in DOMAIN slots
      /\ asked' = asked \cup {listing[n]}
      /\ slots' = [slots EXCEPT ![n].deleted = TRUE]
  BY DEF dele, index_of
<1>2. N \in Nat /\ DOMAIN slots = 1 .. N /\ slots \in [1 .. N -> Slot]
  BY LenProperties, SeqDef DEF PopInv
<1>3. one \in Slot /\ one.uid = slots[n].uid /\ one.raw = slots[n].raw /\ one.deleted = TRUE
  BY <1>1, <1>2 DEF Slot
<1> HIDE DEF one
<1>4. /\ DOMAIN slots' = 1 .. N /\ slots' \in [1 .. N -> Slot]
      /\ slots'[n] = one /\ \A i \in 1 .. N : i # n => slots'[i] = slots[i]
  <2>1. slots' = [i \in 1 .. N |-> IF i = n THEN one ELSE slots[i]]
    BY <1>1, <1>2 DEF one
  <2>2. QED
    BY <1>1, <1>2, <1>3, <2>1
<1>5. slots' \in Seq(Slot)
  BY <1>2, <1>4, SeqDef
<1>6. /\ \A i \in 1 .. N : slots'[i].uid = slots[i].uid /\ slots'[i].raw = slots[i].raw
      /\ \A i \in 1 .. N : slots'[i].deleted <=> slots[i].deleted \/ i = n
  BY <1>3, <1>4
<1>7. /\ [i \in 1 .. N |-> slots[i].uid] = listing
      /\ {slots[i].uid : i \in {j \in 1 .. N : slots[j].deleted}} = asked
      /\ \A i \in 1 .. N : slots[i].uid \in Uids(inbox) => Content(inbox)[slots[i].uid].raw = slots[i].raw
  BY <1>1, <1>2 DEF PopInv, MaildropFixed
<1>8. listing[n] = slots[n].uid
  BY <1>1, <1>2, <1>7
<1>9. {slots'[i].uid : i \in {j \in 1 .. N : slots'[j].deleted}} = asked'
  BY <1>1, <1>2, <1>6, <1>7, <1>8
<1>10. [i \in DOMAIN slots' |-> slots'[i].uid] = listing'
  BY <1>1, <1>4, <1>6, <1>7
<1>11. MaildropFixed'
  BY <1>1, <1>4, <1>6, <1>7, <1>9, <1>10 DEF MaildropFixed
<1>12. QED
  BY <1>1, <1>5, <1>11 DEF PopInv

\* RSET unmarks them all.
LEMMA RsetInv == PopInv /\ rset => PopInv'
<1> SUFFICES ASSUME PopInv, rset PROVE PopInv'
  OBVIOUS
<1> DEFINE N == Len(slots)
<1>1. N \in Nat /\ DOMAIN slots = 1 .. N /\ slots \in [1 .. N -> Slot]
  BY LenProperties, SeqDef DEF PopInv
<1>2. /\ inbox' = inbox /\ connected' = connected /\ state' = state /\ pending_sasl' = pending_sasl
      /\ listing' = listing /\ state = "Transaction" /\ asked' = {}
      /\ slots' = [i \in 1 .. N |-> [slots[i] EXCEPT !.deleted = FALSE]]
  BY <1>1 DEF rset
<1>3. \A i \in 1 .. N : LET one == [slots[i] EXCEPT !.deleted = FALSE]
                        IN  one \in Slot /\ one.uid = slots[i].uid /\ one.raw = slots[i].raw /\ one.deleted = FALSE
  BY <1>1 DEF Slot
<1>4. /\ DOMAIN slots' = 1 .. N /\ slots' \in [1 .. N -> Slot]
      /\ \A i \in 1 .. N : slots'[i].uid = slots[i].uid /\ slots'[i].raw = slots[i].raw /\ slots'[i].deleted = FALSE
  BY <1>2, <1>3
<1>5. slots' \in Seq(Slot)
  BY <1>1, <1>4, SeqDef
<1>6. /\ [i \in 1 .. N |-> slots[i].uid] = listing
      /\ \A i \in 1 .. N : slots[i].uid \in Uids(inbox) => Content(inbox)[slots[i].uid].raw = slots[i].raw
  BY <1>1, <1>2 DEF PopInv, MaildropFixed
<1>7. {slots'[i].uid : i \in {j \in DOMAIN slots' : slots'[j].deleted}} = asked'
  BY <1>2, <1>4
<1>8. [i \in DOMAIN slots' |-> slots'[i].uid] = listing'
  BY <1>2, <1>4, <1>6
<1>9. MaildropFixed'
  BY <1>2, <1>4, <1>6, <1>7, <1>8 DEF MaildropFixed
<1>10. QED
  BY <1>2, <1>5, <1>9 DEF PopInv

\* QUIT that does not end the connection leaves the session as it was, over the
\* messages that remain.
LEMMA QuitInv ==
  ASSUME PopInv, inbox' = (IF state = "Transaction" THEN commit ELSE inbox),
         UNCHANGED <<connected, session, listing, asked>>
  PROVE  PopInv'
<1>1. /\ connected' = connected /\ listing' = listing /\ asked' = asked
      /\ state' = state /\ pending_sasl' = pending_sasl /\ slots' = slots
  BY DEF session
<1>2. inbox' \in Sound /\ Among(inbox', inbox)
  <2>1. inbox \in Sound /\ slots \in Seq(Slot)
    BY DEF PopInv
  <2>2. commit \in Sound /\ Among(commit, inbox)
    BY <2>1, CommitFields
  <2>3. Among(inbox, inbox)
    BY DEF Among
  <2>4. QED
    BY <2>1, <2>2, <2>3
<1>3. /\ Uids(inbox') \subseteq Uids(inbox)
      /\ \A u \in Uids(inbox') : Content(inbox')[u] = Content(inbox)[u]
  BY <1>2, AmongContent DEF PopInv
<1>4. MaildropFixed'
  BY <1>1, <1>3 DEF PopInv, MaildropFixed
<1>5. QED
  BY <1>1, <1>2, <1>4 DEF PopInv

\* Init establishes the invariant.
LEMMA PopInit == popInit => PopInv
<1> SUFFICES ASSUME popInit PROVE PopInv
  OBVIOUS
<1>1. inbox \in Sound
  BY NewWellFormed DEF popInit, Sound
<1>2. slots \in Seq(Slot)
  BY EmptySeq DEF popInit
<1>3. QED
  BY <1>1, <1>2 DEF popInit, PopInv, MaildropFixed

\* Every step preserves it.
LEMMA PopStep == PopInv /\ [popNext]_popVars => PopInv'
<1> SUFFICES ASSUME PopInv, [popNext]_popVars PROVE PopInv'
  OBVIOUS
<1>0. inbox \in Sound /\ connected \in BOOLEAN
  BY DEF PopInv
<1>1. CASE Connect \/ Drop
  <2>1. inbox' \in Sound /\ connected' \in BOOLEAN /\ NewSession
    BY <1>0, <1>1 DEF Connect, Drop
  <2>2. QED
    BY <2>1, NewSessionInv
<1>2. ASSUME inbox' \in Sound, ~ connected, UNCHANGED <<connected, session, listing, asked>>
      PROVE  PopInv'
  <2>1. /\ connected' = connected /\ state' = state /\ pending_sasl' = pending_sasl /\ slots' = slots
        /\ state = "Authorization"
    BY <1>2 DEF session, PopInv
  <2>2. QED
    BY <1>2, <2>1 DEF PopInv, MaildropFixed
<1>3. ASSUME NEW raw \in Raws, NodeDeliver(raw) PROVE PopInv'
  <2>1. {Recent} \in SUBSET Flags
    BY Pop3Assumption
  <2>2. inbox \in MailboxType /\ WellFormed(inbox)
    BY <1>0 DEF Sound
  <2>3. append(inbox, raw, {Recent}) \in MailboxType /\ WellFormed(append(inbox, raw, {Recent}))
    BY <2>1, <2>2, AppendFields, AppendWellFormed
  <2>4. QED
    BY <1>2, <1>3, <2>3 DEF NodeDeliver, Sound
<1>4. ASSUME NEW i \in 1 .. MaxUid, OtherExpunge(i) PROVE PopInv'
  <2>1. inbox \in MailboxType /\ WellFormed(inbox) /\ i \in DOMAIN inbox.messages
    BY <1>0, <1>4 DEF Sound, OtherExpunge
  <2>2. remove_at(inbox, i) \in MailboxType /\ WellFormed(remove_at(inbox, i))
    BY <2>1, RemoveAtFields, RemoveAtWellFormed
  <2>3. QED
    BY <1>2, <1>4, <2>2 DEF OtherExpunge, Sound
<1>5. CASE USER
  BY <1>5 DEF USER, Line, PopInv, MaildropFixed
<1>6. CASE pass \/ apop
  <2>1. login_ok /\ inbox' = inbox /\ connected' = connected /\ connected /\ pending_sasl' = FALSE
    BY <1>6 DEF pass, apop, Line, PopInv
  <2>2. QED
    BY <2>1, LoginOkInv
<1>7. CASE auth_cmd
  BY <1>7 DEF auth_cmd, Line, PopInv, MaildropFixed
<1>8. ASSUME NEW verified \in BOOLEAN, NEW q \in BOOLEAN, continue_sasl(verified, q) PROVE PopInv'
  <2>1. CASE q
    <3>1. inbox' \in Sound /\ connected' \in BOOLEAN /\ NewSession
      BY <1>0, <1>8, <2>1 DEF continue_sasl
    <3>2. QED
      BY <3>1, NewSessionInv
  <2>2. CASE ~ q /\ verified
    <3>1. login_ok /\ inbox' = inbox /\ connected' = connected /\ connected /\ pending_sasl' = FALSE
      BY <1>8, <2>2 DEF continue_sasl
    <3>2. QED
      BY <3>1, LoginOkInv
  <2>3. CASE ~ q /\ ~ verified
    BY <1>8, <2>3 DEF continue_sasl, PopInv, MaildropFixed
  <2>4. QED
    BY <2>1, <2>2, <2>3
<1>9. ASSUME NEW n \in 1 .. MaxUid, dele(n) PROVE PopInv'
  BY <1>9, DeleInv
<1>10. CASE rset
  BY <1>10, RsetInv
<1>11. ASSUME NEW bare \in BOOLEAN, quit(bare) PROVE PopInv'
  <2>1. inbox' = (IF state = "Transaction" THEN commit ELSE inbox)
    BY <1>11 DEF quit
  <2>2. CASE bare
    <3>1. slots \in Seq(Slot)
      BY DEF PopInv
    <3>2. inbox' \in Sound /\ connected' \in BOOLEAN /\ NewSession
      BY <1>0, <1>11, <2>1, <2>2, <3>1, CommitFields DEF quit
    <3>3. QED
      BY <3>2, NewSessionInv
  <2>3. CASE ~ bare
    BY <1>11, <2>1, <2>3, QuitInv DEF quit
  <2>4. QED
    BY <2>2, <2>3
<1>12. CASE UNCHANGED popVars
  BY <1>12 DEF popVars, session, PopInv, MaildropFixed
<1>13. QED
  BY <1>1, <1>3, <1>4, <1>5, <1>6, <1>7, <1>8, <1>9, <1>10, <1>11, <1>12, Zenon DEF popNext

\* The invariant holds of every sequence of maildrop sessions.
THEOREM PopInvariance == popSpec => []PopInv
  BY PopInit, PopStep, PTL DEF popSpec

\* A message number means the same message from login until the session ends, and
\* what RETR serves is that message's body (load_inbox, dele, rset, quit), for
\* maildrops of every size and every interleaving of the connections.
THEOREM MaildropsFixed == popSpec => []MaildropFixed
<1>1. PopInv => MaildropFixed
  BY DEF PopInv
<1>2. QED
  BY <1>1, PopInvariance, PTL

\* A session removes exactly the messages its client asked to delete and that are
\* still there, at QUIT and at once.
THEOREM DeletesExactly == popSpec => ExactlyAsked
<1>1. PopInv /\ [popNext]_popVars => [ExactlyAskedStep]_popVars
  <2> SUFFICES ASSUME PopInv, popNext, connected
               PROVE  ExactlyAskedStep
    BY DEF ExactlyAskedStep
  <2>1. CASE inbox' = inbox
    BY <2>1 DEF ExactlyAskedStep
  <2>2. ASSUME state = "Transaction", inbox' = commit
        PROVE  ExactlyAskedStep
    <3>1. inbox \in Sound /\ slots \in Seq(Slot)
      BY DEF PopInv
    <3>2. {slots[i].uid : i \in {j \in DOMAIN slots : slots[j].deleted}} = asked
      BY <2>2 DEF PopInv, MaildropFixed
    <3>3. Uids(commit) = Uids(inbox) \ asked
      BY <3>1, <3>2, CommitFields
    <3>4. Uids(inbox') = Uids(inbox) \ asked
      BY <2>2, <3>3
    <3>5. QED
      BY <2>2, <3>4 DEF ExactlyAskedStep
  <2>3. inbox' = inbox \/ (state = "Transaction" /\ inbox' = commit)
    BY DEF popNext, Connect, Drop, NodeDeliver, OtherExpunge, USER, pass, apop, auth_cmd,
           continue_sasl, dele, rset, quit
  <2>4. QED
    BY <2>1, <2>2, <2>3
<1>2. QED
  BY <1>1, PopInvariance, PTL DEF popSpec, ExactlyAsked

-----------------------------------------------------------------------------
(* The loops behind the answers of IMAP.                                   *)

\* What round i of the loop c makes of v.
Pass(c, i, v) ==
  CASE c.loop = "row"     -> IF entry(c.char, c.text, c.below, v, i) THEN v \cup {i} ELSE v
    [] c.loop = "table"   -> fill(c.text[Len(c.text) - i + 1], c.against, v)
    [] c.loop = "ranges"  -> IF i \in c.ids THEN extend(v, i) ELSE v
    [] c.loop = "refs"    -> joined(v, c.p, c.refs[i])
    [] c.loop = "letters" -> linked(v, i)

Passes(g, c, base, N) == g = [i \in 0 .. N |-> IF i = 0 THEN base ELSE Pass(c, i, g[i - 1])]

\* Every one of them has a history, however many its rounds.
LEMMA LoopPasses ==
  ASSUME NEW c, NEW base, NEW N \in Nat
  PROVE  \E g : Passes(g, c, base, N)
<1> DEFINE T == {k \in Nat : \E g : Passes(g, c, base, k)}
<1>1. 0 \in T
  <2> DEFINE g == [i \in 0 .. 0 |-> base]
  <2>1. Passes(g, c, base, 0)
    BY DEF Passes
  <2>2. QED
    BY <2>1
<1>2. ASSUME NEW k \in 1 .. N, k - 1 \in T PROVE k \in T
  <2>1. PICK g : Passes(g, c, base, k - 1)
    BY <1>2
  <2> DEFINE v == Pass(c, k, g[k - 1])
             h == [i \in 0 .. k |-> IF i = k THEN v ELSE g[i]]
  <2>2. \A i \in 0 .. k - 1 : h[i] = g[i]
    BY <1>2
  <2>3. h[k] = v
    BY <1>2
  <2>4. \A i \in 0 .. k - 1 : g[i] = IF i = 0 THEN base ELSE Pass(c, i, g[i - 1])
    BY <2>1 DEF Passes
  <2>5. ASSUME NEW i \in 0 .. k PROVE h[i] = IF i = 0 THEN base ELSE Pass(c, i, h[i - 1])
    <3>1. CASE i = k
      <4>1. h[i - 1] = g[k - 1]
        BY <1>2, <2>2, <3>1
      <4>2. QED
        BY <1>2, <2>3, <3>1, <4>1
    <3>2. CASE i # k
      <4>1. i \in 0 .. k - 1
        BY <3>2
      <4>2. i # 0 => h[i - 1] = g[i - 1]
        BY <2>2, <4>1
      <4>3. QED
        BY <2>2, <2>4, <4>1, <4>2
    <3>3. QED
      BY <3>1, <3>2
  <2>6. h = [i \in 0 .. k |-> h[i]]
    OBVIOUS
  <2> HIDE DEF h
  <2>7. Passes(h, c, base, k)
    BY <2>5, <2>6 DEF Passes
  <2>8. QED
    BY <2>7
<1> HIDE DEF T
<1>3. \A k \in 0 .. N : k \in T
  BY <1>1, <1>2, UpFromZero
<1>4. N \in 0 .. N
  OBVIOUS
<1>5. QED
  BY <1>3, <1>4 DEF T

-----------------------------------------------------------------------------
(* LIST.                                                                   *)

RowBase(c, below) == IF c \in Wild THEN below \cap {0} ELSE {}

Fills(g, c, n, below) ==
  g = [k \in 0 .. Len(n) |->
         IF k = 0 THEN IF c \in Wild THEN below \cap {0} ELSE {}
         ELSE IF entry(c, n, below, g[k - 1], k) THEN g[k - 1] \cup {k} ELSE g[k - 1]]

Entered(c, n, below, row, k) == IF entry(c, n, below, row, k) THEN row \cup {k} ELSE row

RowRun(row, c, n, below) ==
  /\ fill(c, n, below) = row[Len(n)] /\ row[0] = RowBase(c, below)
  /\ \A k \in 1 .. Len(n) : row[k] = Entered(c, n, below, row[k - 1], k)

\* A row entry by entry.
LEMMA RowPasses ==
  ASSUME NEW c, NEW n, NEW below, Len(n) \in Nat
  PROVE  \E row : RowRun(row, c, n, below)
<1> DEFINE l == [loop |-> "row", char |-> c, text |-> n, below |-> below]
           row == CHOOSE g : Fills(g, c, n, below)
<1>1. PICK g : Passes(g, l, RowBase(c, below), Len(n))
  BY LoopPasses
<1>2. \A i, v : Pass(l, i, v) = IF entry(c, n, below, v, i) THEN v \cup {i} ELSE v
  BY DEF Pass
<1>3. Fills(g, c, n, below)
  BY <1>1, <1>2 DEF Passes, Fills, RowBase
<1>4. Fills(row, c, n, below)
  BY <1>3
<1>5. fill(c, n, below) = row[Len(n)]
  BY Zenon DEF fill, Fills
<1> HIDE DEF row
<1>6. 0 \in 0 .. Len(n) /\ \A k \in 1 .. Len(n) : k \in 0 .. Len(n) /\ k # 0
  OBVIOUS
<1>7. row = [k \in 0 .. Len(n) |-> IF k = 0 THEN RowBase(c, below) ELSE Entered(c, n, below, row[k - 1], k)]
  BY <1>4 DEF Fills, RowBase, Entered
<1>8. \A k \in 0 .. Len(n) : row[k] = IF k = 0 THEN RowBase(c, below) ELSE Entered(c, n, below, row[k - 1], k)
  BY <1>7
<1>9. RowRun(row, c, n, below)
  BY <1>5, <1>6, <1>8 DEF RowRun
<1>10. QED
  BY <1>9

\* The last k characters of n can be what c and the rest of a pattern stand for, if
\* the rest can stand for the numbers of last characters in below.
Reach(c, n, below, k) == \E m \in 0 .. k : m \in below /\ Piece(c, n, Len(n) - k, Len(n) - m)

\* An entry asks for no more than the one before it and the row below.
LEMMA ReachStep ==
  ASSUME NEW c, NEW n, NEW below, Len(n) \in Nat, NEW k \in 1 .. Len(n), NEW row,
         k - 1 \in row <=> Reach(c, n, below, k - 1)
  PROVE  entry(c, n, below, row, k) <=> Reach(c, n, below, k)
<1>1. PICK N, x : N = Len(n) /\ x = n[N - k + 1]
  OBVIOUS
<1>2. k - 1 \in Nat /\ k \in Nat /\ N \in Nat
  BY <1>1
<1>3. CASE c = "*"
  <2>1. \A b \in 0 .. N, a \in 0 .. N : Piece(c, n, a, b) <=> a <= b
    BY <1>3 DEF Piece, Wild
  <2>2. \A m \in 0 .. k : Piece(c, n, N - k, N - m)
    BY <1>1, <1>2, <2>1
  <2>3. \A m \in 0 .. k - 1 : Piece(c, n, N - (k - 1), N - m)
    BY <1>1, <1>2, <2>1
  <2>4. Reach(c, n, below, k) <=> \E m \in 0 .. k : m \in below
    BY <1>1, <2>2 DEF Reach
  <2>5. Reach(c, n, below, k - 1) <=> \E m \in 0 .. k - 1 : m \in below
    BY <1>1, <2>3 DEF Reach
  <2>6. entry(c, n, below, row, k) <=> k \in below \/ k - 1 \in row
    BY <1>3 DEF entry, Wild
  <2>7. 0 .. k = (0 .. k - 1) \cup {k}
    BY <1>2
  <2>8. QED
    BY <2>4, <2>5, <2>6, <2>7
<1>4. CASE c = "%"
  <2>1. \A b \in 0 .. N, a \in 0 .. N : Piece(c, n, a, b) <=> a <= b /\ \A i \in a + 1 .. b : n[i] # "/"
    BY <1>4 DEF Piece, Wild
  <2>2. entry(c, n, below, row, k) <=> k \in below \/ (x # "/" /\ k - 1 \in row)
    BY <1>1, <1>4 DEF entry, Wild
  <2>3. ASSUME k \in below PROVE Reach(c, n, below, k)
    <3>1. Piece(c, n, N - k, N - k)
      BY <1>1, <1>2, <2>1
    <3>2. QED
      BY <1>1, <1>2, <2>3, <3>1 DEF Reach
  <2>4. ASSUME NEW m \in 0 .. k - 1
        PROVE  Piece(c, n, N - k, N - m) <=> x # "/" /\ Piece(c, n, N - (k - 1), N - m)
    <3>1. N - k \in 0 .. N /\ N - m \in 0 .. N /\ N - (k - 1) \in 0 .. N /\ N - k <= N - m /\ N - (k - 1) <= N - m
      BY <1>1, <1>2
    <3>2. N - (k - 1) = N - k + 1 /\ (N - k + 1 .. N - m) = {N - k + 1} \cup (N - (k - 1) + 1 .. N - m)
      BY <1>1, <1>2
    <3>3. (\A i \in N - k + 1 .. N - m : n[i] # "/")
            <=> x # "/" /\ \A i \in N - (k - 1) + 1 .. N - m : n[i] # "/"
      BY <1>1, <3>2
    <3>4. QED
      BY <2>1, <3>1, <3>3
  <2>5. Reach(c, n, below, k) => k \in below \/ (x # "/" /\ Reach(c, n, below, k - 1))
    <3>1. ASSUME NEW m \in 0 .. k, m \in below, Piece(c, n, N - k, N - m), m # k
          PROVE  x # "/" /\ Reach(c, n, below, k - 1)
      <4>1. m \in 0 .. k - 1
        BY <1>2, <3>1
      <4>2. QED
        BY <1>1, <2>4, <3>1, <4>1 DEF Reach
    <3>2. QED
      BY <1>1, <3>1 DEF Reach
  <2>6. x # "/" /\ Reach(c, n, below, k - 1) => Reach(c, n, below, k)
    <3>1. ASSUME x # "/", NEW m \in 0 .. k - 1, m \in below, Piece(c, n, N - (k - 1), N - m)
          PROVE  Reach(c, n, below, k)
      <4>1. m \in 0 .. k
        BY <1>2
      <4>2. QED
        BY <1>1, <2>4, <3>1, <4>1 DEF Reach
    <3>2. QED
      BY <1>1, <3>1 DEF Reach
  <2>7. QED
    BY <2>2, <2>3, <2>5, <2>6
<1>5. CASE c \notin Wild
  <2>1. \A b \in 0 .. N, a \in 0 .. N : Piece(c, n, a, b) <=> b = a + 1 /\ n[b] = c
    BY <1>5 DEF Piece, Wild
  <2>2. entry(c, n, below, row, k) <=> x = c /\ k - 1 \in below
    BY <1>1, <1>5 DEF entry
  <2>3. \A m \in 0 .. k : Piece(c, n, N - k, N - m) <=> m = k - 1 /\ x = c
    BY <1>1, <1>2, <2>1
  <2>4. k - 1 \in 0 .. k
    BY <1>2
  <2>5. QED
    BY <1>1, <2>2, <2>3, <2>4 DEF Reach
<1>6. QED
  BY <1>3, <1>4, <1>5 DEF Wild

\* A row is right if the one below it is.
LEMMA RowExact ==
  ASSUME NEW c, NEW n, NEW below, Len(n) \in Nat
  PROVE  fill(c, n, below) = {k \in 0 .. Len(n) : Reach(c, n, below, k)}
<1> DEFINE N == Len(n)
<1>1. PICK row : RowRun(row, c, n, below)
  BY RowPasses
<1> DEFINE T == {k \in 0 .. N : row[k] = {i \in 0 .. k : Reach(c, n, below, i)}}
<1>2. 0 \in T
  <2>1. Piece(c, n, N, N) <=> c \in Wild
    <3>1. N + 1 .. N = {} /\ N # N + 1 /\ N <= N
      OBVIOUS
    <3>2. QED
      BY <3>1 DEF Piece, Wild
  <2>2. 0 .. 0 = {0} /\ N - 0 = N /\ 0 \in 0 .. N
    OBVIOUS
  <2>3. Reach(c, n, below, 0) <=> 0 \in below /\ c \in Wild
    BY <2>1, <2>2 DEF Reach
  <2>4. row[0] = {i \in 0 .. 0 : Reach(c, n, below, i)}
    BY <1>1, <2>2, <2>3 DEF RowRun, RowBase
  <2>5. QED
    BY <2>2, <2>4
<1>3. ASSUME NEW k \in 1 .. N, k - 1 \in T PROVE k \in T
  <2>1. row[k - 1] = {i \in 0 .. k - 1 : Reach(c, n, below, i)}
    BY <1>3
  <2>2. k - 1 \in row[k - 1] <=> Reach(c, n, below, k - 1)
    BY <2>1
  <2>3. entry(c, n, below, row[k - 1], k) <=> Reach(c, n, below, k)
    BY <2>2, ReachStep
  <2>4. 0 .. k = (0 .. k - 1) \cup {k} /\ k \in 0 .. N
    OBVIOUS
  <2>5. row[k] = {i \in 0 .. k : Reach(c, n, below, i)}
    <3>1. row[k] = Entered(c, n, below, row[k - 1], k)
      BY <1>1 DEF RowRun
    <3>2. QED
      BY <2>1, <2>3, <2>4, <3>1 DEF Entered
  <2>6. QED
    BY <2>4, <2>5
<1> HIDE DEF T
<1>4. \A k \in 0 .. N : k \in T
  BY <1>2, <1>3, UpFromZero
<1>5. N \in 0 .. N
  OBVIOUS
<1>6. row[N] = {i \in 0 .. N : Reach(c, n, below, i)}
  BY <1>4, <1>5 DEF T
<1>7. QED
  BY <1>1, <1>6 DEF RowRun

\* The last j characters of p stand for the last k of n.
Cuts(cut, p, n, j, k) ==
  /\ cut \in [0 .. Len(p) -> 0 .. Len(n)]
  /\ cut[Len(p) - j] = Len(n) - k /\ cut[Len(p)] = Len(n)
  /\ \A i \in Len(p) - j + 1 .. Len(p) : Piece(p[i], n, cut[i - 1], cut[i])

Fit(p, n, j, k) == \E cut : Cuts(cut, p, n, j, k)

\* One character of the pattern more, from the end.
LEMMA FitStep ==
  ASSUME NEW p, NEW n, Len(p) \in Nat, Len(n) \in Nat, NEW j \in 1 .. Len(p), NEW k \in 0 .. Len(n)
  PROVE  Fit(p, n, j, k) <=>
           \E m \in 0 .. k : Fit(p, n, j - 1, m) /\ Piece(p[Len(p) - j + 1], n, Len(n) - k, Len(n) - m)
<1>1. PICK P, N, at : P = Len(p) /\ N = Len(n) /\ at = P - j + 1
  OBVIOUS
<1>2. /\ P \in Nat /\ N \in Nat /\ at \in 1 .. P /\ at - 1 = P - j /\ at = P - (j - 1)
      /\ (at .. P) = {at} \cup (at + 1 .. P) /\ at \in at .. P /\ at \in 0 .. P
  BY <1>1
<1>3. ASSUME NEW cut, Cuts(cut, p, n, j, k)
      PROVE  \E m \in 0 .. k : Fit(p, n, j - 1, m) /\ Piece(p[at], n, N - k, N - m)
  <2>1. cut[at] \in 0 .. N /\ cut[at - 1] = N - k
    BY <1>1, <1>2, <1>3 DEF Cuts
  <2>2. Piece(p[at], n, cut[at - 1], cut[at])
    BY <1>1, <1>2, <1>3 DEF Cuts
  <2>3. PICK m : m = N - cut[at]
    OBVIOUS
  <2>4. cut[at] = N - m
    BY <1>2, <2>1, <2>3
  <2>5. N - k <= cut[at]
    BY <1>1, <1>2, <2>1, <2>2 DEF Piece
  <2>6. m \in 0 .. k
    BY <1>1, <1>2, <2>1, <2>3, <2>5
  <2>7. Cuts(cut, p, n, j - 1, m)
    <3>1. \A i \in at + 1 .. P : Piece(p[i], n, cut[i - 1], cut[i])
      BY <1>1, <1>2, <1>3 DEF Cuts
    <3>2. P - (j - 1) + 1 = at + 1
      BY <1>2
    <3>3. QED
      BY <1>1, <1>2, <1>3, <2>4, <3>1, <3>2 DEF Cuts
  <2>8. QED
    BY <2>1, <2>2, <2>4, <2>6, <2>7 DEF Fit
<1>4. ASSUME NEW m \in 0 .. k, NEW old, Cuts(old, p, n, j - 1, m), Piece(p[at], n, N - k, N - m)
      PROVE  Fit(p, n, j, k)
  <2> DEFINE cut == [old EXCEPT ![at - 1] = N - k]
  <2>1. /\ old \in [0 .. P -> 0 .. N] /\ old[at] = N - m /\ old[P] = N
        /\ \A i \in at + 1 .. P : Piece(p[i], n, old[i - 1], old[i])
    BY <1>1, <1>2, <1>4 DEF Cuts
  <2>2. N - k \in 0 .. N /\ at - 1 \in 0 .. P /\ P # at - 1
    BY <1>1, <1>2
  <2>3. cut \in [0 .. P -> 0 .. N] /\ cut[at - 1] = N - k
    BY <2>1, <2>2
  <2>4. \A i \in at .. P : cut[i] = old[i]
    BY <1>2, <2>1
  <2> HIDE DEF cut
  <2>5. ASSUME NEW i \in at .. P PROVE Piece(p[i], n, cut[i - 1], cut[i])
    <3>1. CASE i = at
      BY <1>2, <1>4, <2>1, <2>3, <2>4, <3>1
    <3>2. CASE i # at
      <4>1. i \in at + 1 .. P /\ i - 1 \in at .. P
        BY <1>2, <3>2
      <4>2. QED
        BY <2>1, <2>4, <2>5, <4>1
    <3>3. QED
      BY <3>1, <3>2
  <2>6. cut[P] = N
    BY <1>2, <2>1, <2>4
  <2>7. Cuts(cut, p, n, j, k)
    BY <1>1, <1>2, <2>3, <2>5, <2>6 DEF Cuts
  <2>8. QED
    BY <2>7 DEF Fit
<1>5. QED
  BY <1>1, <1>3, <1>4 DEF Fit

Tables(g, p, n) ==
  g = [left \in 0 .. Len(p) |->
         IF left = 0 THEN {0} ELSE fill(p[Len(p) - left + 1], n, g[left - 1])]

TableRun(dp, p, n) ==
  /\ wildcard_match(p, n) <=> Len(n) \in dp[Len(p)]
  /\ dp[0] = {0}
  /\ \A j \in 1 .. Len(p) : dp[j] = fill(p[Len(p) - j + 1], n, dp[j - 1])

\* The table row by row.
LEMMA TablePasses ==
  ASSUME NEW p, NEW n, Len(p) \in Nat
  PROVE  \E dp : TableRun(dp, p, n)
<1> DEFINE l == [loop |-> "table", text |-> p, against |-> n]
           dp == CHOOSE g : Tables(g, p, n)
<1>1. PICK g : Passes(g, l, {0}, Len(p))
  BY LoopPasses
<1>2. \A i, v : Pass(l, i, v) = fill(p[Len(p) - i + 1], n, v)
  BY DEF Pass
<1>3. Tables(g, p, n)
  BY <1>1, <1>2 DEF Passes, Tables
<1>4. Tables(dp, p, n)
  BY <1>3
<1>5. wildcard_match(p, n) <=> Len(n) \in dp[Len(p)]
  BY Zenon DEF wildcard_match, Tables
<1> HIDE DEF dp
<1>6. 0 \in 0 .. Len(p) /\ \A k \in 1 .. Len(p) : k \in 0 .. Len(p) /\ k # 0
  OBVIOUS
<1>7. \A k \in 0 .. Len(p) : dp[k] = IF k = 0 THEN {0} ELSE fill(p[Len(p) - k + 1], n, dp[k - 1])
  BY <1>4 DEF Tables
<1>8. TableRun(dp, p, n)
  BY <1>5, <1>6, <1>7 DEF TableRun
<1>9. QED
  BY <1>8

\* LIST matches a name just if the pattern stands for it.
LEMMA MatchExact ==
  ASSUME NEW p, NEW n, Len(p) \in Nat, Len(n) \in Nat
  PROVE  wildcard_match(p, n) <=> StandsFor(p, n)
<1> DEFINE P == Len(p)
           N == Len(n)
<1>1. PICK dp : TableRun(dp, p, n)
  BY TablePasses
<1> DEFINE T == {j \in 0 .. P : dp[j] = {k \in 0 .. N : Fit(p, n, j, k)}}
<1>2. 0 \in T
  <2>1. ASSUME NEW k \in 0 .. N PROVE Fit(p, n, 0, k) <=> k = 0
    <3>1. ASSUME NEW cut, Cuts(cut, p, n, 0, k) PROVE k = 0
      BY <3>1 DEF Cuts
    <3>2. Fit(p, n, 0, 0)
      <4> DEFINE cut == [i \in 0 .. P |-> N]
      <4>1. P - 0 + 1 .. P = {} /\ P - 0 = P /\ N - 0 = N /\ P \in 0 .. P /\ N \in 0 .. N
        OBVIOUS
      <4>2. Cuts(cut, p, n, 0, 0)
        BY <4>1 DEF Cuts
      <4>3. QED
        BY <4>2 DEF Fit
    <3>3. QED
      BY <3>1, <3>2 DEF Fit
  <2>2. dp[0] = {0} /\ 0 \in 0 .. N
    BY <1>1 DEF TableRun
  <2>3. dp[0] = {k \in 0 .. N : Fit(p, n, 0, k)}
    BY <2>1, <2>2
  <2>4. QED
    BY <2>3
<1>3. ASSUME NEW j \in 1 .. P, j - 1 \in T PROVE j \in T
  <2>1. PICK below, c : below = dp[j - 1] /\ c = p[P - j + 1]
    OBVIOUS
  <2>2. below = {k \in 0 .. N : Fit(p, n, j - 1, k)}
    BY <1>3, <2>1
  <2>3. dp[j] = {k \in 0 .. N : Reach(c, n, below, k)}
    <3>1. dp[j] = fill(c, n, below)
      BY <1>1, <2>1 DEF TableRun
    <3>2. QED
      BY <3>1, RowExact
  <2>4. ASSUME NEW k \in 0 .. N PROVE Reach(c, n, below, k) <=> Fit(p, n, j, k)
    <3>1. \A m \in 0 .. k : m \in below <=> Fit(p, n, j - 1, m)
      BY <2>2
    <3>2. Fit(p, n, j, k) <=> \E m \in 0 .. k : Fit(p, n, j - 1, m) /\ Piece(c, n, N - k, N - m)
      BY <2>1, FitStep
    <3>3. QED
      BY <3>1, <3>2 DEF Reach
  <2>5. dp[j] = {k \in 0 .. N : Fit(p, n, j, k)}
    BY <2>3, <2>4
  <2>6. QED
    BY <2>5
<1> HIDE DEF T
<1>4. \A j \in 0 .. P : j \in T
  BY <1>2, <1>3, UpFromZero
<1>5. P \in 0 .. P /\ N \in 0 .. N
  OBVIOUS
<1>6. N \in dp[P] <=> Fit(p, n, P, N)
  BY <1>4, <1>5 DEF T
<1>7. Fit(p, n, P, N) <=> StandsFor(p, n)
  <2>1. P - P = 0 /\ N - N = 0 /\ P - P + 1 = 1
    OBVIOUS
  <2>2. \A cut : Cuts(cut, p, n, P, N) <=>
          /\ cut \in [0 .. P -> 0 .. N] /\ cut[0] = 0 /\ cut[P] = N
          /\ \A i \in 1 .. P : Piece(p[i], n, cut[i - 1], cut[i])
    BY <2>1 DEF Cuts
  <2>3. QED
    BY <2>2 DEF Fit, StandsFor
<1>8. QED
  BY <1>1, <1>6, <1>7 DEF TableRun

-----------------------------------------------------------------------------
(* ESEARCH and VANISHED.                                                   *)

\* The ranges of the numbers up to n.
Compressed(r, ids, n) ==
  /\ r \in Seq(Nat \X Nat)
  /\ \A i \in 1 .. Len(r) : r[i][1] <= r[i][2] /\ r[i][2] <= n
  /\ \A i, j \in 1 .. Len(r) : i < j => r[i][2] + 1 < r[j][1]
  /\ \A x \in Nat : x \in ids /\ x <= n <=> \E i \in 1 .. Len(r) : r[i][1] <= x /\ x <= r[i][2]

\* A number more.
LEMMA ExtendExact ==
  ASSUME NEW ids, NEW n \in Nat, NEW r, Compressed(r, ids, n), n + 1 \in ids
  PROVE  Compressed(extend(r, n + 1), ids, n + 1)
<1>1. PICK L, e, s : L = Len(r) /\ e = n + 1 /\ s = extend(r, e)
  OBVIOUS
<1>2. /\ r \in Seq(Nat \X Nat) /\ L \in Nat /\ e \in Nat
      /\ \A i \in 1 .. L : r[i] \in Nat \X Nat /\ r[i][1] \in Nat /\ r[i][2] \in Nat
      /\ \A i \in 1 .. L : r[i][1] <= r[i][2] /\ r[i][2] <= n
      /\ \A i, j \in 1 .. L : i < j => r[i][2] + 1 < r[j][1]
      /\ \A x \in Nat : x \in ids /\ x <= n <=> \E i \in 1 .. L : r[i][1] <= x /\ x <= r[i][2]
  <2>1. r \in Seq(Nat \X Nat)
    BY DEF Compressed
  <2>2. \A i \in 1 .. Len(r) : r[i] \in Nat \X Nat
    BY <2>1
  <2>3. QED
    BY <1>1, <2>1, <2>2 DEF Compressed
<1>3. \A x \in Nat : x <= e <=> x <= n \/ x = e
  BY <1>1
<1>4. CASE L # 0 /\ r[L][2] + 1 = e
  <2>1. L \in 1 .. L /\ r # <<>>
    BY <1>1, <1>2, <1>4
  <2>2. s = [r EXCEPT ![L] = <<r[L][1], e>>]
    BY <1>1, <1>4, <2>1 DEF extend
  <2>3. PICK v : v = <<r[L][1], e>>
    OBVIOUS
  <2>4. v \in Nat \X Nat /\ v[1] = r[L][1] /\ v[2] = e
    BY <1>2, <2>1, <2>3
  <2>5. s \in Seq(Nat \X Nat) /\ Len(s) = L /\ \A i \in 1 .. L : s[i] = IF i = L THEN v ELSE r[i]
    <3>1. PICK S : S = Nat \X Nat
      OBVIOUS
    <3>2. s = [r EXCEPT ![L] = v] /\ r \in Seq(S) /\ v \in S /\ Len(r) = L /\ L \in 1 .. L
      BY <1>1, <1>2, <2>1, <2>2, <2>3, <2>4, <3>1
    <3>3. s \in Seq(S) /\ Len(s) = L /\ \A i \in 1 .. L : s[i] = IF i = L THEN v ELSE r[i]
      BY <3>2, ExceptSeq
    <3>4. QED
      BY <3>1, <3>3
  <2>6. \A i \in 1 .. L : s[i][1] = r[i][1] /\ s[i][2] = IF i = L THEN e ELSE r[i][2]
    BY <2>4, <2>5
  <2>7. r[L][2] = n
    BY <1>1, <1>2, <1>4, <2>1
  <2>8. \A i \in 1 .. L : s[i][1] <= s[i][2] /\ s[i][2] <= e
    <3>1. TAKE i \in 1 .. L
    <3>2. r[i][1] <= e /\ r[i][2] <= e
      BY <1>1, <1>2
    <3>3. s[i][1] = r[i][1] /\ (s[i][2] = e \/ s[i][2] = r[i][2])
      BY <2>6
    <3>4. r[i][1] <= r[i][2] /\ e <= e
      BY <1>2
    <3>5. QED
      BY <3>2, <3>3, <3>4
  <2>9. \A i, j \in 1 .. L : i < j => s[i][2] + 1 < s[j][1]
    <3>1. TAKE i, j \in 1 .. L
    <3>2. HAVE i < j
    <3>3. i # L
      BY <1>2, <3>2
    <3>4. s[i][2] = r[i][2] /\ s[j][1] = r[j][1]
      BY <2>6, <3>3
    <3>5. QED
      BY <1>2, <3>2, <3>4
  <2>10. ASSUME NEW x \in Nat
         PROVE  x \in ids /\ x <= e <=> \E i \in 1 .. L : s[i][1] <= x /\ x <= s[i][2]
    <3>1. CASE x = e
      <4>1. s[L][1] <= x /\ x <= s[L][2]
        BY <1>1, <1>2, <2>1, <2>6, <3>1
      <4>2. QED
        BY <1>1, <2>1, <3>1, <4>1
    <3>2. CASE x # e
      <4>1. \A i \in 1 .. L : s[i][1] <= x /\ x <= s[i][2] <=> r[i][1] <= x /\ x <= r[i][2]
        <5>1. TAKE i \in 1 .. L
        <5>2. CASE i = L
          <6>1. x <= e <=> x <= n
            BY <1>3, <3>2
          <6>2. QED
            BY <2>6, <2>7, <5>2, <6>1
        <5>3. CASE i # L
          BY <2>6, <5>3
        <5>4. QED
          BY <5>2, <5>3
      <4>2. QED
        BY <1>2, <1>3, <3>2, <4>1
    <3>3. QED
      BY <3>1, <3>2
  <2>11. QED
    BY <1>1, <2>5, <2>8, <2>9, <2>10 DEF Compressed
<1>5. CASE L = 0 \/ r[L][2] + 1 # e
  <2>1. s = Append(r, <<e, e>>)
    BY <1>1, <1>2, <1>5 DEF extend
  <2>2. /\ s \in Seq(Nat \X Nat) /\ Len(s) = L + 1
        /\ (\A i \in 1 .. L : s[i] = r[i]) /\ s[L + 1] = <<e, e>>
    <3>1. <<e, e>> \in Nat \X Nat
      BY <1>2
    <3>2. PICK S, v : S = Nat \X Nat /\ v = <<e, e>>
      OBVIOUS
    <3>3. r \in Seq(S) /\ v \in S /\ s = Append(r, v) /\ Len(r) = L
      BY <1>1, <1>2, <2>1, <3>1, <3>2
    <3>4. /\ s \in Seq(S) /\ Len(s) = L + 1
          /\ (\A i \in 1 .. L : s[i] = r[i]) /\ s[L + 1] = v
      BY <3>3, AppendProperties
    <3>5. QED
      BY <3>2, <3>4
  <2>3. \A i \in 1 .. L : s[i] = r[i]
    BY <2>2
  <2>4. s[L + 1] = <<e, e>>
    BY <2>2
  <2>5. s[L + 1][1] = e /\ s[L + 1][2] = e
    BY <2>4
  <2>6. 1 .. L + 1 = (1 .. L) \cup {L + 1} /\ L + 1 \notin 1 .. L
    BY <1>2
  <2>7. ASSUME NEW i \in 1 .. L PROVE r[i][2] + 1 < e
    <3>1. L \in 1 .. L /\ L # 0 /\ i <= L /\ i \in Nat
      BY <1>2
    <3>2. r[L][2] + 1 # e /\ r[L][2] \in Nat /\ r[L][2] <= n
      BY <1>2, <1>5, <3>1
    <3>3. r[L][2] + 1 < e
      BY <1>1, <3>2
    <3>4. CASE i = L
      BY <3>3, <3>4
    <3>5. CASE i # L
      <4>1. i < L
        BY <1>2, <3>1, <3>5
      <4>2. r[i][2] + 1 < r[L][1] /\ r[L][1] <= r[L][2] /\ r[i][2] \in Nat /\ r[L][1] \in Nat
        BY <1>2, <3>1, <4>1
      <4>3. PICK u, v, w : u = r[i][2] /\ v = r[L][1] /\ w = r[L][2]
        OBVIOUS
      <4>4. u \in Nat /\ v \in Nat /\ w \in Nat /\ u + 1 < v /\ v <= w /\ w + 1 < e
        BY <3>2, <3>3, <4>2, <4>3
      <4>5. u + 1 < e
        BY <1>2, <4>4
      <4>6. QED
        BY <4>3, <4>5
    <3>6. QED
      BY <3>4, <3>5
  <2>8. \A i \in 1 .. L + 1 : s[i][1] <= s[i][2] /\ s[i][2] <= e
    <3>1. \A i \in 1 .. L : s[i][1] <= s[i][2] /\ s[i][2] <= e
      BY <1>1, <1>2, <2>3
    <3>2. QED
      BY <1>2, <2>5, <2>6, <3>1
  <2>9. \A i, j \in 1 .. L + 1 : i < j => s[i][2] + 1 < s[j][1]
    <3>1. TAKE i, j \in 1 .. L + 1
    <3>2. HAVE i < j
    <3>3. i \in 1 .. L
      BY <1>2, <3>2
    <3>4. CASE j = L + 1
      BY <2>3, <2>5, <2>7, <3>3, <3>4
    <3>5. CASE j # L + 1
      BY <1>2, <2>3, <2>6, <3>2, <3>3, <3>5
    <3>6. QED
      BY <3>4, <3>5
  <2>10. ASSUME NEW x \in Nat
         PROVE  x \in ids /\ x <= e <=> \E i \in 1 .. L + 1 : s[i][1] <= x /\ x <= s[i][2]
    <3>1. (\E i \in 1 .. L + 1 : s[i][1] <= x /\ x <= s[i][2])
            <=> (\E i \in 1 .. L : r[i][1] <= x /\ x <= r[i][2]) \/ (e <= x /\ x <= e)
      BY <2>3, <2>5, <2>6
    <3>2. e <= x /\ x <= e <=> x = e
      BY <1>2
    <3>3. QED
      BY <1>1, <1>2, <1>3, <3>1, <3>2
  <2>11. QED
    BY <1>1, <2>2, <2>8, <2>9, <2>10 DEF Compressed
<1>6. QED
  BY <1>4, <1>5

Lists(g, ids) ==
  g = [n \in 0 .. MaxNumber |->
         IF n = 0 THEN <<>> ELSE IF n \in ids THEN extend(g[n - 1], n) ELSE g[n - 1]]

\* What to_sequence_set_of makes of a set of numbers.
LEMMA RangesExact ==
  ASSUME NEW ids, ids \subseteq 1 .. MaxNumber
  PROVE  Compressed(to_sequence_set_of(ids), ids, MaxNumber)
<1> DEFINE l == [loop |-> "ranges", ids |-> ids]
           out == CHOOSE g : Lists(g, ids)
<1>1. MaxNumber \in Nat
  BY AnswersAssumption
<1>2. PICK g : Passes(g, l, <<>>, MaxNumber)
  BY <1>1, LoopPasses
<1>3. \A i, v : Pass(l, i, v) = IF i \in ids THEN extend(v, i) ELSE v
  BY DEF Pass
<1>4. Lists(g, ids)
  BY <1>2, <1>3 DEF Passes, Lists
<1>5. Lists(out, ids)
  BY <1>4
<1>6. to_sequence_set_of(ids) = out[MaxNumber]
  BY Zenon DEF to_sequence_set_of, Lists
<1> HIDE DEF out
<1>7. \A n \in 0 .. MaxNumber :
        out[n] = IF n = 0 THEN <<>> ELSE IF n \in ids THEN extend(out[n - 1], n) ELSE out[n - 1]
  BY <1>5 DEF Lists
<1> DEFINE T == {n \in 0 .. MaxNumber : Compressed(out[n], ids, n)}
<1>8. 0 \in T
  <2>1. 0 \in 0 .. MaxNumber
    BY <1>1
  <2>2. out[0] = <<>>
    BY <1>7, <2>1
  <2>3. \A x \in Nat : ~ (x \in ids /\ x <= 0)
    BY <1>1
  <2>4. <<>> \in Seq(Nat \X Nat) /\ Len(<<>>) = 0 /\ 1 .. 0 = {}
    OBVIOUS
  <2>5. Compressed(<<>>, ids, 0)
    BY <2>3, <2>4 DEF Compressed
  <2>6. QED
    BY <2>1, <2>2, <2>5
<1>9. ASSUME NEW n \in 1 .. MaxNumber, n - 1 \in T PROVE n \in T
  <2>1. PICK m : m = n - 1
    OBVIOUS
  <2>2. m \in Nat /\ n = m + 1 /\ n \in 0 .. MaxNumber /\ n # 0
    BY <1>1, <2>1
  <2>3. Compressed(out[m], ids, m)
    BY <1>9, <2>1
  <2>4. out[n] = IF n \in ids THEN extend(out[m], n) ELSE out[m]
    BY <1>7, <2>1, <2>2
  <2>5. CASE n \in ids
    <3>1. Compressed(extend(out[m], m + 1), ids, m + 1)
      BY <2>2, <2>3, <2>5, ExtendExact
    <3>2. QED
      BY <2>2, <2>4, <2>5, <3>1
  <2>6. CASE n \notin ids
    <3>1. \A x \in Nat : x \in ids => (x <= n <=> x <= m)
      BY <2>2, <2>6
    <3>2. \A x \in Nat : x <= m => x <= n
      BY <2>2
    <3>3. PICK r : r = out[m]
      OBVIOUS
    <3>4. /\ r \in Seq(Nat \X Nat) /\ \A i \in 1 .. Len(r) : r[i][2] \in Nat
      BY <2>3, <3>3 DEF Compressed
    <3>5. Compressed(r, ids, n)
      BY <2>3, <3>1, <3>2, <3>3, <3>4 DEF Compressed
    <3>6. QED
      BY <2>2, <2>4, <2>6, <3>3, <3>5
  <2>7. QED
    BY <2>5, <2>6
<1> HIDE DEF T
<1>10. \A n \in 0 .. MaxNumber : n \in T
  BY <1>1, <1>8, <1>9, UpFromZero
<1>11. MaxNumber \in 0 .. MaxNumber
  BY <1>1
<1>12. QED
  BY <1>6, <1>10, <1>11 DEF T

RangesKept ==
  \A opts \in SUBSET {"MIN", "MAX", "COUNT", "ALL"} :
    LET all == esearch_line(hits, opts).ALL
    IN  "ALL" \in opts \/ opts \cap {"MIN", "MAX", "COUNT"} = {} =>
          /\ Expanded(all) = hits
          /\ \A i, j \in DOMAIN all : i < j => all[i][2] + 1 < all[j][1]

\* The ranges of an answer stand for the numbers found.
LEMMA AnswersRanges ==
  ASSUME hits \subseteq 1 .. MaxNumber
  PROVE  RangesKept
<1> SUFFICES ASSUME NEW opts \in SUBSET {"MIN", "MAX", "COUNT", "ALL"},
                    "ALL" \in opts \/ opts \cap {"MIN", "MAX", "COUNT"} = {},
                    NEW all, all = esearch_line(hits, opts).ALL
             PROVE  /\ Expanded(all) = hits
                    /\ \A i, j \in DOMAIN all : i < j => all[i][2] + 1 < all[j][1]
  BY DEF RangesKept
<1>1. all = to_sequence_set_of(hits)
  BY DEF esearch_line
<1>2. Compressed(all, hits, MaxNumber)
  BY <1>1, RangesExact
<1>3. all \in Seq(Nat \X Nat) /\ DOMAIN all = 1 .. Len(all)
  BY <1>2 DEF Compressed
<1>4. \A i \in 1 .. Len(all) : all[i][1] \in Nat /\ all[i][2] \in Nat
  <2>1. \A i \in 1 .. Len(all) : all[i] \in Nat \X Nat
    BY <1>3
  <2>2. QED
    BY <2>1
<1>5. \A x : x \in hits => x \in Nat /\ x <= MaxNumber
  BY AnswersAssumption
<1>6. \A x \in Nat : x \in hits <=> \E i \in 1 .. Len(all) : all[i][1] <= x /\ x <= all[i][2]
  BY <1>2, <1>5 DEF Compressed
<1>7. \A x : x \in Expanded(all) <=> \E i \in 1 .. Len(all) : x \in all[i][1] .. all[i][2]
  <2>1. \A x : x \in Expanded(all) <=> \E e \in Range(all) : x \in e[1] .. e[2]
    BY DEF Expanded
  <2>2. \A e : e \in Range(all) <=> \E i \in 1 .. Len(all) : e = all[i]
    BY <1>3 DEF Range
  <2>3. QED
    BY <2>1, <2>2
<1>8. \A x : \A i \in 1 .. Len(all) : x \in all[i][1] .. all[i][2] <=> x \in Nat /\ all[i][1] <= x /\ x <= all[i][2]
  BY <1>4
<1>9. Expanded(all) = hits
  BY <1>5, <1>6, <1>7, <1>8
<1>10. QED
  BY <1>2, <1>3, <1>9 DEF Compressed

-----------------------------------------------------------------------------
(* SORT.                                                                   *)

\* The least member.
LEMMA MinIs ==
  ASSUME NEW T, T \subseteq Nat, T # {}
  PROVE  Min(T) \in T /\ \A y \in T : Min(T) <= y
<1>1. \E x \in T : \A y \in T : x <= y
  BY LeastNatural
<1>2. QED
  BY <1>1 DEF Min

MatchedOK == matched \in Seq(Letters)

\* What a matched message holds.
LEMMA LetterFields ==
  ASSUME MatchedOK, NEW p \in DOMAIN matched
  PROVE  /\ matched[p].id \in STRING /\ matched[p].refs \in Seq(STRING)
         /\ matched[p].date \in Nat /\ matched[p].arrival \in Nat
         /\ matched[p].subject \in Seq(STRING) /\ matched[p].from \in Nat
<1>1. matched[p] \in Letters
  BY DEF MatchedOK
<1>2. QED
  BY <1>1, AnswersAssumption

\* Dates are numbers.
LEMMA DateIs ==
  ASSUME MatchedOK, NEW p \in DOMAIN matched
  PROVE  sort_date(matched[p]) \in Nat
<1>1. PICK d, e : d = matched[p].date /\ e = matched[p].arrival
  OBVIOUS
<1>2. d \in Nat /\ e \in Nat
  BY <1>1, LetterFields
<1>3. e \div DayLength \in Nat
  BY <1>2, AnswersAssumption
<1>4. QED
  BY <1>1, <1>2, <1>3 DEF sort_date

\* And so is everything that messages are sorted by.
LEMMA KeyIs ==
  ASSUME MatchedOK, NEW p \in DOMAIN matched, NEW key \in Keys
  PROVE  KeyOf(matched[p], key) \in Nat
<1>1. PICK m : m = matched[p]
  OBVIOUS
<1>2. m.arrival \in Nat /\ m.from \in Nat /\ m.subject \in Seq(STRING) /\ sort_date(m) \in Nat
  BY <1>1, LetterFields, DateIs
<1>3. Len(base_subject(m.subject)) \in Nat
  <2>1. PICK s : s = m.subject
    OBVIOUS
  <2> DEFINE words == {i \in DOMAIN s : s[i] \notin {"re:", "fwd:", "fw:"}}
  <2>2. s \in Seq(STRING) /\ DOMAIN s = 1 .. Len(s) /\ Len(s) \in Nat
    BY <1>2, <2>1
  <2>3. base_subject(s) = IF words = {} THEN <<>> ELSE SubSeq(s, Min(words), Len(s))
    BY DEF base_subject
  <2>4. words \subseteq 1 .. Len(s) /\ words \subseteq Nat
    BY <2>2
  <2> HIDE DEF words
  <2>5. CASE words = {}
    BY <2>1, <2>3, <2>5
  <2>6. CASE words # {}
    <3>1. Min(words) \in 1 .. Len(s)
      BY <2>4, <2>6, MinIs
    <3>2. SubSeq(s, Min(words), Len(s)) \in Seq(STRING)
      BY <2>2, <3>1
    <3>3. QED
      BY <2>1, <2>3, <2>6, <3>2
  <2>7. QED
    BY <2>5, <2>6
<1>4. key \in {"ARRIVAL", "DATE", "SUBJECT", "FROM"}
  BY DEF Keys
<1>5. QED
  BY <1>1, <1>2, <1>3, <1>4 DEF KeyOf

AnyCriteria == Seq([key : Keys, reverse : BOOLEAN])

\* The parts of a list of criteria.
LEMMA CriterionParts ==
  ASSUME NEW criteria \in AnyCriteria
  PROVE  /\ Len(criteria) \in Nat /\ DOMAIN criteria = 1 .. Len(criteria)
         /\ \A k \in 1 .. Len(criteria) : criteria[k].key \in Keys /\ criteria[k].reverse \in BOOLEAN
<1>1. PICK S : S = [key : Keys, reverse : BOOLEAN]
  OBVIOUS
<1>2. criteria \in Seq(S)
  BY <1>1 DEF AnyCriteria
<1>3. Len(criteria) \in Nat /\ DOMAIN criteria = 1 .. Len(criteria)
      /\ \A k \in 1 .. Len(criteria) : criteria[k] \in S
  BY <1>2
<1>4. \A x \in S : x.key \in Keys /\ x.reverse \in BOOLEAN
  BY <1>1
<1>5. QED
  BY <1>3, <1>4

Key(x, k, criteria) == KeyOf(matched[x], criteria[k].key)

Alike(a, b, criteria, m) == \A k \in 1 .. m : Key(a, k, criteria) = Key(b, k, criteria)

\* b comes after a by criterion m.
Ahead(a, b, criteria, m) ==
  IF criteria[m].reverse THEN Key(b, m, criteria) < Key(a, m, criteria)
  ELSE Key(a, m, criteria) < Key(b, m, criteria)

Decided(a, b, criteria, m) == Alike(a, b, criteria, m - 1) /\ Ahead(a, b, criteria, m)

\* The order, without the search for the first difference.
LEMMA CompareIs ==
  ASSUME MatchedOK, NEW criteria \in AnyCriteria, NEW a \in DOMAIN matched, NEW b \in DOMAIN matched
  PROVE  sort_compare(a, b, criteria) <=>
           \/ Alike(a, b, criteria, Len(criteria)) /\ a < b
           \/ \E m \in 1 .. Len(criteria) : Decided(a, b, criteria, m)
<1> DEFINE D == {c \in DOMAIN criteria : KeyOf(matched[a], criteria[c].key) # KeyOf(matched[b], criteria[c].key)}
           L == Len(criteria)
<1>1. L \in Nat /\ DOMAIN criteria = 1 .. L
  BY CriterionParts
<1>2. \A k \in 1 .. L : criteria[k].key \in Keys /\ criteria[k].reverse \in BOOLEAN
  BY CriterionParts
<1>3. \A k \in 1 .. L : Key(a, k, criteria) \in Nat /\ Key(b, k, criteria) \in Nat
  BY <1>2, KeyIs DEF Key
<1>4. \A k : k \in D <=> k \in 1 .. L /\ Key(a, k, criteria) # Key(b, k, criteria)
  BY <1>1 DEF Key
<1>5. sort_compare(a, b, criteria) <=>
        IF D = {} THEN a < b
        ELSE IF criteria[Min(D)].reverse THEN ~ (Key(a, Min(D), criteria) < Key(b, Min(D), criteria))
             ELSE Key(a, Min(D), criteria) < Key(b, Min(D), criteria)
  BY Zenon DEF sort_compare, Key
<1> HIDE DEF D
<1>6. CASE D = {}
  <2>1. Alike(a, b, criteria, L)
    BY <1>4, <1>6 DEF Alike
  <2>2. \A m \in 1 .. L : ~ Ahead(a, b, criteria, m)
    <3>1. TAKE m \in 1 .. L
    <3>2. Key(a, m, criteria) = Key(b, m, criteria) /\ Key(a, m, criteria) \in Nat
      BY <1>3, <1>4, <1>6
    <3>3. QED
      BY <3>2 DEF Ahead
  <2>3. QED
    BY <1>5, <1>6, <2>1, <2>2 DEF Decided
<1>7. CASE D # {}
  <2>1. PICK m : m = Min(D)
    OBVIOUS
  <2>2. D \subseteq Nat
    BY <1>1, <1>4
  <2>3. m \in D /\ \A y \in D : m <= y
    BY <1>7, <2>1, <2>2, MinIs
  <2>4. m \in 1 .. L /\ Key(a, m, criteria) # Key(b, m, criteria)
    BY <1>4, <2>3
  <2>5. ~ Alike(a, b, criteria, L)
    BY <2>4 DEF Alike
  <2>6. Alike(a, b, criteria, m - 1)
    <3>1. ASSUME NEW k \in 1 .. m - 1 PROVE Key(a, k, criteria) = Key(b, k, criteria)
      <4>1. k \in 1 .. L /\ ~ (m <= k)
        BY <1>1, <2>4
      <4>2. QED
        BY <1>4, <2>3, <4>1
    <3>2. QED
      BY <3>1 DEF Alike
  <2>7. sort_compare(a, b, criteria) <=> Ahead(a, b, criteria, m)
    <3>1. PICK u, v : u = Key(a, m, criteria) /\ v = Key(b, m, criteria)
      OBVIOUS
    <3>2. u \in Nat /\ v \in Nat /\ u # v
      BY <1>3, <2>4, <3>1
    <3>3. ~ (u < v) <=> v < u
      BY <3>2
    <3>4. QED
      BY <1>5, <1>7, <2>1, <3>1, <3>3 DEF Ahead
  <2>8. ASSUME NEW k \in 1 .. L, Decided(a, b, criteria, k) PROVE k = m
    <3>1. Key(a, k, criteria) # Key(b, k, criteria)
      <4>1. Key(a, k, criteria) \in Nat /\ Key(b, k, criteria) \in Nat
        BY <1>3
      <4>2. QED
        BY <2>8, <4>1 DEF Decided, Ahead
    <3>2. m <= k
      BY <1>4, <2>3, <3>1
    <3>3. ~ (m <= k - 1)
      <4>1. m <= k - 1 => m \in 1 .. k - 1
        BY <1>1, <2>4
      <4>2. QED
        BY <2>4, <2>8, <4>1 DEF Decided, Alike
    <3>4. QED
      BY <1>1, <2>4, <3>2, <3>3
  <2>9. QED
    BY <2>4, <2>5, <2>6, <2>7, <2>8 DEF Decided
<1>8. QED
  BY <1>6, <1>7

\* The first criterion that tells two messages apart.
Apart(a, b, criteria, m) ==
  Alike(a, b, criteria, m - 1) /\ Key(a, m, criteria) # Key(b, m, criteria)

\* The order is total, for criteria of any number and reversed at will.
LEMMA SortTotal ==
  ASSUME MatchedOK, NEW criteria \in AnyCriteria, NEW a \in DOMAIN matched, NEW b \in DOMAIN matched, a # b
  PROVE  sort_compare(a, b, criteria) <=> ~ sort_compare(b, a, criteria)
<1>1. PICK L : L = Len(criteria)
  OBVIOUS
<1>2. L \in Nat /\ \A k \in 1 .. L : criteria[k].key \in Keys /\ criteria[k].reverse \in BOOLEAN
  BY <1>1, CriterionParts
<1>3. \A k \in 1 .. L : Key(a, k, criteria) \in Nat /\ Key(b, k, criteria) \in Nat
  BY <1>2, KeyIs DEF Key
<1>4. a \in Nat /\ b \in Nat
  BY DEF MatchedOK
<1>5. /\ sort_compare(a, b, criteria) <=>
           \/ Alike(a, b, criteria, L) /\ a < b
           \/ \E m \in 1 .. L : Decided(a, b, criteria, m)
      /\ sort_compare(b, a, criteria) <=>
           \/ Alike(b, a, criteria, L) /\ b < a
           \/ \E m \in 1 .. L : Decided(b, a, criteria, m)
  BY <1>1, CompareIs
<1>6. \A m : Alike(a, b, criteria, m) <=> Alike(b, a, criteria, m)
  BY DEF Alike
<1>7. \A m \in 1 .. L : Decided(a, b, criteria, m) => Apart(a, b, criteria, m)
  BY <1>3 DEF Decided, Ahead, Apart
<1>8. \A m \in 1 .. L : Decided(b, a, criteria, m) => Apart(a, b, criteria, m)
  BY <1>3, <1>6 DEF Decided, Ahead, Apart
<1>9. \A m \in 1 .. L : Apart(a, b, criteria, m) => ~ Alike(a, b, criteria, L)
  BY DEF Apart, Alike
<1>10. CASE Alike(a, b, criteria, L)
  <2>1. \A m \in 1 .. L : ~ Decided(a, b, criteria, m) /\ ~ Decided(b, a, criteria, m)
    BY <1>7, <1>8, <1>9, <1>10
  <2>2. QED
    BY <1>4, <1>5, <1>6, <1>10, <2>1
<1>11. CASE ~ Alike(a, b, criteria, L)
  <2>1. PICK m \in 1 .. L : Apart(a, b, criteria, m)
    <3> DEFINE T == {k \in 1 .. L : Key(a, k, criteria) # Key(b, k, criteria)}
    <3>1. T \subseteq Nat /\ T # {}
      BY <1>2, <1>11 DEF Alike
    <3> HIDE DEF T
    <3>2. PICK m \in T : \A y \in T : m <= y
      BY <3>1, LeastNatural
    <3>3. m \in 1 .. L /\ Key(a, m, criteria) # Key(b, m, criteria)
      BY DEF T
    <3>4. ASSUME NEW k \in 1 .. m - 1 PROVE Key(a, k, criteria) = Key(b, k, criteria)
      <4>1. k \in 1 .. L /\ ~ (m <= k)
        BY <1>2, <3>3
      <4>2. QED
        BY <3>2, <4>1 DEF T
    <3>5. QED
      BY <3>3, <3>4 DEF Apart, Alike
  <2>2. ASSUME NEW k \in 1 .. L, Apart(a, b, criteria, k) PROVE k = m
    <3>1. k < m => k \in 1 .. m - 1
      BY <1>2
    <3>2. m < k => m \in 1 .. k - 1
      BY <1>2
    <3>3. k < m \/ m < k \/ k = m
      BY <1>2
    <3>4. QED
      BY <2>1, <2>2, <3>1, <3>2, <3>3 DEF Apart, Alike
  <2>3. Decided(a, b, criteria, m) <=> ~ Decided(b, a, criteria, m)
    <3>1. PICK u, v : u = Key(a, m, criteria) /\ v = Key(b, m, criteria)
      OBVIOUS
    <3>2. u \in Nat /\ v \in Nat /\ u # v
      BY <1>3, <2>1, <3>1 DEF Apart
    <3>3. u < v <=> ~ (v < u)
      BY <3>2
    <3>4. Alike(a, b, criteria, m - 1) /\ Alike(b, a, criteria, m - 1)
      BY <1>6, <2>1 DEF Apart
    <3>5. QED
      BY <3>1, <3>3, <3>4 DEF Decided, Ahead
  <2>4. (\E k \in 1 .. L : Decided(a, b, criteria, k)) <=> Decided(a, b, criteria, m)
    BY <1>7, <2>2
  <2>5. (\E k \in 1 .. L : Decided(b, a, criteria, k)) <=> Decided(b, a, criteria, m)
    BY <1>8, <2>2
  <2>6. QED
    BY <1>5, <1>6, <1>11, <2>3, <2>4, <2>5
<1>12. QED
  BY <1>10, <1>11

\* And transitive.
LEMMA SortTransitive ==
  ASSUME MatchedOK, NEW criteria \in AnyCriteria, NEW a \in DOMAIN matched, NEW b \in DOMAIN matched,
         NEW c \in DOMAIN matched, sort_compare(a, b, criteria), sort_compare(b, c, criteria)
  PROVE  sort_compare(a, c, criteria)
<1>1. PICK L : L = Len(criteria)
  OBVIOUS
<1>2. L \in Nat /\ \A k \in 1 .. L : criteria[k].key \in Keys /\ criteria[k].reverse \in BOOLEAN
  BY <1>1, CriterionParts
<1>3. \A k \in 1 .. L : Key(a, k, criteria) \in Nat /\ Key(b, k, criteria) \in Nat /\ Key(c, k, criteria) \in Nat
  BY <1>2, KeyIs DEF Key
<1>4. a \in Nat /\ b \in Nat /\ c \in Nat
  BY DEF MatchedOK
<1>5. \/ Alike(a, b, criteria, L) /\ a < b
      \/ \E m \in 1 .. L : Decided(a, b, criteria, m)
  BY <1>1, CompareIs
<1>6. \/ Alike(b, c, criteria, L) /\ b < c
      \/ \E m \in 1 .. L : Decided(b, c, criteria, m)
  BY <1>1, CompareIs
<1>7. SUFFICES \/ Alike(a, c, criteria, L) /\ a < c
               \/ \E m \in 1 .. L : Decided(a, c, criteria, m)
  BY <1>1, CompareIs
<1>8. CASE Alike(a, b, criteria, L) /\ a < b /\ Alike(b, c, criteria, L) /\ b < c
  <2>1. a < c
    BY <1>4, <1>8
  <2>2. QED
    BY <1>8, <2>1 DEF Alike
<1>9. ASSUME Alike(a, b, criteria, L), NEW m \in 1 .. L, Decided(b, c, criteria, m)
      PROVE  Decided(a, c, criteria, m)
  <2>1. \A k \in 1 .. m : Key(a, k, criteria) = Key(b, k, criteria)
    <3>1. \A k \in 1 .. m : k \in 1 .. L
      BY <1>2
    <3>2. QED
      BY <1>9, <3>1 DEF Alike
  <2>2. m \in 1 .. m /\ \A k \in 1 .. m - 1 : k \in 1 .. m
    BY <1>2
  <2>3. QED
    BY <1>9, <2>1, <2>2 DEF Decided, Alike, Ahead
<1>10. ASSUME NEW m \in 1 .. L, Decided(a, b, criteria, m), Alike(b, c, criteria, L)
       PROVE  Decided(a, c, criteria, m)
  <2>1. \A k \in 1 .. m : Key(b, k, criteria) = Key(c, k, criteria)
    <3>1. \A k \in 1 .. m : k \in 1 .. L
      BY <1>2
    <3>2. QED
      BY <1>10, <3>1 DEF Alike
  <2>2. m \in 1 .. m /\ \A k \in 1 .. m - 1 : k \in 1 .. m
    BY <1>2
  <2>3. QED
    BY <1>10, <2>1, <2>2 DEF Decided, Alike, Ahead
<1>11. ASSUME NEW m \in 1 .. L, Decided(a, b, criteria, m), NEW k \in 1 .. L, Decided(b, c, criteria, k)
       PROVE  \E i \in 1 .. L : Decided(a, c, criteria, i)
  <2>1. m < k \/ k < m \/ m = k
    BY <1>2
  <2>2. CASE m < k
    <3>1. m \in 1 .. k - 1 /\ \A i \in 1 .. m - 1 : i \in 1 .. k - 1
      BY <1>2, <2>2
    <3>2. Decided(a, c, criteria, m)
      BY <1>11, <3>1 DEF Decided, Alike, Ahead
    <3>3. QED
      BY <3>2
  <2>3. CASE k < m
    <3>1. k \in 1 .. m - 1 /\ \A i \in 1 .. k - 1 : i \in 1 .. m - 1
      BY <1>2, <2>3
    <3>2. Decided(a, c, criteria, k)
      BY <1>11, <3>1 DEF Decided, Alike, Ahead
    <3>3. QED
      BY <3>2
  <2>4. CASE m = k
    <3>1. PICK u, v, w : u = Key(a, m, criteria) /\ v = Key(b, m, criteria) /\ w = Key(c, m, criteria)
      OBVIOUS
    <3>2. u \in Nat /\ v \in Nat /\ w \in Nat
      BY <1>3, <3>1
    <3>3. (u < v /\ v < w => u < w) /\ (v < u /\ w < v => w < u)
      BY <3>2
    <3>4. Ahead(a, c, criteria, m)
      BY <1>11, <2>4, <3>1, <3>3 DEF Decided, Ahead
    <3>5. Alike(a, c, criteria, m - 1)
      BY <1>11, <2>4 DEF Decided, Alike
    <3>6. QED
      BY <3>4, <3>5 DEF Decided
  <2>5. QED
    BY <2>1, <2>2, <2>3, <2>4
<1>12. QED
  BY <1>5, <1>6, <1>8, <1>9, <1>10, <1>11

\* sort_by is given an order.
LEMMA SortOrders ==
  ASSUME MatchedOK
  PROVE  SortIsTotal
<1>1. \A criteria \in Criteria : criteria \in AnyCriteria
  <2>1. \A k \in Keys, r \in BOOLEAN : <<[key |-> k, reverse |-> r]>> \in AnyCriteria
    BY DEF AnyCriteria
  <2>2. "FROM" \in Keys
    BY DEF Keys
  <2>3. \A k \in Keys, r \in BOOLEAN :
          <<[key |-> k, reverse |-> r], [key |-> "FROM", reverse |-> ~r]>> \in AnyCriteria
    BY <2>2 DEF AnyCriteria
  <2>4. QED
    BY <2>1, <2>3 DEF Criteria
<1>2. SUFFICES ASSUME NEW criteria \in Criteria,
                      NEW a \in DOMAIN matched, NEW b \in DOMAIN matched, NEW c \in DOMAIN matched
               PROVE  /\ a # b => (sort_compare(a, b, criteria) <=> ~ sort_compare(b, a, criteria))
                      /\ sort_compare(a, b, criteria) /\ sort_compare(b, c, criteria)
                           => sort_compare(a, c, criteria)
  BY DEF SortIsTotal
<1>3. criteria \in AnyCriteria
  BY <1>1
<1>4. a # b => (sort_compare(a, b, criteria) <=> ~ sort_compare(b, a, criteria))
  BY <1>3, SortTotal
<1>5. sort_compare(a, b, criteria) /\ sort_compare(b, c, criteria) => sort_compare(a, c, criteria)
  BY <1>3, SortTransitive
<1>6. QED
  BY <1>4, <1>5

-----------------------------------------------------------------------------
(* THREAD: the union-find.                                                 *)

\* The parents form a forest over D: r is the root of each member, and d falls on
\* the way up.
RootsOf(parent, D, r, d) ==
  /\ parent \in [D -> D] /\ r \in [D -> D] /\ d \in [D -> Nat]
  /\ \A x \in D : r[parent[x]] = r[x]
  /\ \A x \in D : parent[x] = x => r[x] = x
  /\ \A x \in D : parent[x] # x => d[parent[x]] < d[x]

\* The way up is the least set with its start that is closed under parent.
LEMMA PathIs ==
  ASSUME NEW D, NEW parent \in [D -> D], NEW p \in D
  PROVE  /\ path(parent, p) \subseteq D /\ p \in path(parent, p)
         /\ \A q \in path(parent, p) : parent[q] \in path(parent, p)
         /\ \A S \in SUBSET D : p \in S /\ (\A x \in S : parent[x] \in S) => path(parent, p) \subseteq S
<1>1. DOMAIN parent = D
  OBVIOUS
<1>2. \A q : q \in path(parent, p) <=>
        /\ q \in D
        /\ \A S \in SUBSET D : p \in S /\ (\A x \in S : parent[x] \in S) => q \in S
  BY <1>1 DEF path
<1>3. \A x \in D : parent[x] \in D
  OBVIOUS
<1>4. ASSUME NEW q \in path(parent, p) PROVE parent[q] \in path(parent, p)
  <2>1. q \in D
    BY <1>2
  <2>2. ASSUME NEW S \in SUBSET D, p \in S, \A x \in S : parent[x] \in S PROVE parent[q] \in S
    BY <1>2, <2>2
  <2>3. QED
    BY <1>2, <1>3, <2>1, <2>2
<1>5. QED
  BY <1>2, <1>4

\* It ends at the root, which nothing else is below.
LEMMA RootIs ==
  ASSUME NEW D, NEW parent, NEW r, NEW d, RootsOf(parent, D, r, d), NEW p \in D
  PROVE  /\ root(parent, p) = r[p] /\ r[p] \in D /\ parent[r[p]] = r[p] /\ r[r[p]] = r[p]
         /\ r[p] # p => d[r[p]] < d[p]
         /\ \A q \in path(parent, p) : r[q] = r[p]
<1>1. /\ parent \in [D -> D] /\ r \in [D -> D] /\ d \in [D -> Nat]
      /\ \A x \in D : r[parent[x]] = r[x]
      /\ \A x \in D : parent[x] = x => r[x] = x
      /\ \A x \in D : parent[x] # x => d[parent[x]] < d[x]
  BY DEF RootsOf
<1>2. PICK P : P = path(parent, p)
  OBVIOUS
<1>3. /\ P \subseteq D /\ p \in P /\ \A q \in P : parent[q] \in P
      /\ \A S \in SUBSET D : p \in S /\ (\A x \in S : parent[x] \in S) => P \subseteq S
  BY <1>1, <1>2, PathIs
<1>4. \A q \in P : r[q] = r[p]
  <2> DEFINE S == {x \in D : r[x] = r[p]}
  <2>1. S \in SUBSET D /\ p \in S /\ \A x \in S : parent[x] \in S
    BY <1>1
  <2> HIDE DEF S
  <2>2. P \subseteq S
    BY <1>3, <2>1
  <2>3. QED
    BY <2>2 DEF S
<1>5. \A q \in P : q = p \/ d[q] < d[p]
  <2> DEFINE S == {x \in D : x = p \/ d[x] < d[p]}
  <2>1. ASSUME NEW x \in S PROVE parent[x] \in S
    <3>1. x \in D /\ parent[x] \in D /\ d[x] \in Nat /\ d[p] \in Nat /\ d[parent[x]] \in Nat
      BY <1>1
    <3>2. CASE parent[x] = x
      BY <3>2
    <3>3. CASE parent[x] # x
      <4>1. d[parent[x]] < d[x]
        BY <1>1, <3>1, <3>3
      <4>2. x = p \/ d[x] < d[p]
        OBVIOUS
      <4>3. d[parent[x]] < d[p]
        BY <3>1, <4>1, <4>2
      <4>4. QED
        BY <3>1, <4>3
    <3>4. QED
      BY <3>2, <3>3
  <2>2. S \in SUBSET D /\ p \in S
    OBVIOUS
  <2> HIDE DEF S
  <2>3. P \subseteq S
    BY <1>3, <2>1, <2>2
  <2>4. QED
    BY <2>3 DEF S
<1>6. \E q \in P : parent[q] = q
  <2> DEFINE T == {d[q] : q \in P}
  <2>1. T \subseteq Nat /\ T # {}
    BY <1>1, <1>3
  <2> HIDE DEF T
  <2>2. PICK m \in T : \A y \in T : m <= y
    BY <2>1, LeastNatural
  <2>3. PICK q \in P : m = d[q]
    BY DEF T
  <2>4. parent[q] \in P /\ q \in D
    BY <1>3
  <2>5. d[parent[q]] \in T
    BY <2>4 DEF T
  <2>6. m <= d[parent[q]] /\ d[parent[q]] \in Nat /\ m \in Nat
    BY <2>1, <2>2, <2>5
  <2>7. ~ (d[parent[q]] < d[q])
    BY <2>3, <2>6
  <2>8. QED
    BY <1>1, <2>4, <2>7
<1>7. \A q \in P : parent[q] = q => q = r[p]
  BY <1>1, <1>3, <1>4
<1>8. root(parent, p) = r[p]
  BY <1>2, <1>6, <1>7 DEF root
<1>9. r[p] \in P /\ parent[r[p]] = r[p]
  BY <1>6, <1>7
<1>10. r[p] \in D /\ r[r[p]] = r[p]
  BY <1>1, <1>9
<1>11. QED
  BY <1>2, <1>4, <1>5, <1>8, <1>9, <1>10

\* find shortens ways and moves no root.
LEMMA FindKeeps ==
  ASSUME NEW D, NEW parent, NEW r, NEW d, RootsOf(parent, D, r, d), NEW p \in D
  PROVE  /\ RootsOf(find(parent, p), D, r, d) /\ find(parent, p)[p] = r[p]
         /\ \A x \in D : parent[x] = r[x] => find(parent, p)[x] = r[x]
<1>1. /\ parent \in [D -> D] /\ r \in [D -> D] /\ d \in [D -> Nat]
      /\ \A x \in D : r[parent[x]] = r[x]
      /\ \A x \in D : parent[x] = x => r[x] = x
      /\ \A x \in D : parent[x] # x => d[parent[x]] < d[x]
  BY DEF RootsOf
<1>2. PICK P, f : P = path(parent, p) /\ f = find(parent, p)
  OBVIOUS
<1>3. P \subseteq D /\ p \in P
  BY <1>1, <1>2, PathIs
<1>4. \A x \in D : /\ r[x] \in D /\ r[r[x]] = r[x] /\ (r[x] # x => d[r[x]] < d[x])
  BY RootIs
<1>5. root(parent, p) = r[p] /\ \A q \in P : r[q] = r[p]
  BY <1>2, RootIs
<1>6. f = [q \in D |-> IF q \in P THEN r[p] ELSE parent[q]]
  BY <1>1, <1>2, <1>5 DEF find
<1>7. f \in [D -> D] /\ \A q \in D : f[q] = IF q \in P THEN r[q] ELSE parent[q]
  BY <1>1, <1>4, <1>5, <1>6
<1>8. \A x \in D : r[f[x]] = r[x]
  BY <1>1, <1>4, <1>7
<1>9. \A x \in D : f[x] = x => r[x] = x
  BY <1>1, <1>7
<1>10. \A x \in D : f[x] # x => d[f[x]] < d[x]
  BY <1>1, <1>4, <1>7
<1>11. RootsOf(f, D, r, d)
  BY <1>1, <1>7, <1>8, <1>9, <1>10 DEF RootsOf
<1>12. QED
  BY <1>2, <1>3, <1>7, <1>11

\* The roots once p and o are in one tree.
Merged(r, D, p, o) == [x \in D |-> IF r[x] = r[p] THEN r[o] ELSE r[x]]

\* union moves what has the root of p, all of it, under the root of the other.
LEMMA UnionRoots ==
  ASSUME NEW D, NEW parent, NEW r, NEW d, RootsOf(parent, D, r, d), NEW p \in D, NEW o \in D
  PROVE  \E e : RootsOf(union(parent, p, o), D, Merged(r, D, p, o), e)
<1>1. PICK f1, f, u, r2 : /\ f1 = find(parent, p) /\ f = find(f1, o) /\ u = union(parent, p, o)
                          /\ r2 = Merged(r, D, p, o)
  OBVIOUS
<1>2. RootsOf(f1, D, r, d) /\ f1[p] = r[p]
  BY <1>1, FindKeeps
<1>3. RootsOf(f, D, r, d) /\ f[o] = r[o] /\ f[p] = r[p]
  BY <1>1, <1>2, FindKeeps
<1>4. PICK a, b : a = r[p] /\ b = r[o]
  OBVIOUS
<1>5. /\ f \in [D -> D] /\ r \in [D -> D] /\ d \in [D -> Nat]
      /\ \A x \in D : r[f[x]] = r[x]
      /\ \A x \in D : f[x] = x => r[x] = x
      /\ \A x \in D : f[x] # x => d[f[x]] < d[x]
  BY <1>3 DEF RootsOf
<1>6. a \in D /\ b \in D /\ r[a] = a /\ r[b] = b /\ f[a] = a
  BY <1>3, <1>4, RootIs
<1>7. u = [f EXCEPT ![a] = b]
  BY <1>1, <1>3, <1>4, Zenon DEF union
<1>8. u \in [D -> D] /\ u[a] = b /\ \A x \in D : x # a => u[x] = f[x]
  BY <1>5, <1>6, <1>7
<1>9. r2 \in [D -> D] /\ \A x \in D : r2[x] = IF r[x] = a THEN b ELSE r[x]
  BY <1>1, <1>4, <1>5, <1>6 DEF Merged
<1>10. \A x \in D : r2[u[x]] = r2[x]
  <2>1. TAKE x \in D
  <2>2. CASE x = a
    BY <1>6, <1>8, <1>9, <2>2
  <2>3. CASE x # a
    BY <1>5, <1>8, <1>9, <2>3
  <2>4. QED
    BY <2>2, <2>3
<1>11. \A x \in D : u[x] = x => r2[x] = x
  <2>1. TAKE x \in D
  <2>2. HAVE u[x] = x
  <2>3. CASE x = a
    BY <1>6, <1>8, <1>9, <2>2, <2>3
  <2>4. CASE x # a
    <3>1. r[x] = x
      BY <1>5, <1>8, <2>2, <2>4
    <3>2. QED
      BY <1>9, <2>4, <3>1
  <2>5. QED
    BY <2>3, <2>4
<1>12. CASE a = b
  <2>1. \A x \in D : u[x] = f[x]
    BY <1>6, <1>8, <1>12
  <2>2. \A x \in D : u[x] # x => d[u[x]] < d[x]
    BY <1>5, <2>1
  <2>3. RootsOf(u, D, r2, d)
    BY <1>5, <1>8, <1>9, <1>10, <1>11, <2>2 DEF RootsOf
  <2>4. QED
    BY <1>1, <2>3
<1>13. CASE a # b
  <2> DEFINE e == [x \in D |-> IF r[x] = a THEN d[x] + d[b] + 1 ELSE d[x]]
  <2>1. \A x \in D : d[x] \in Nat
    BY <1>5
  <2>2. e \in [D -> Nat] /\ \A x \in D : e[x] = IF r[x] = a THEN d[x] + d[b] + 1 ELSE d[x]
    BY <1>6, <2>1
  <2> HIDE DEF e
  <2>3. ASSUME NEW x \in D, u[x] # x PROVE e[u[x]] < e[x]
    <3>1. CASE x = a
      <4>1. e[u[x]] = d[b] /\ e[x] = d[a] + d[b] + 1
        BY <1>6, <1>8, <1>13, <2>2, <3>1
      <4>2. QED
        BY <1>6, <2>1, <4>1
    <3>2. CASE x # a
      <4>1. PICK y : y = f[x]
        OBVIOUS
      <4>2. y \in D /\ u[x] = y /\ r[y] = r[x] /\ d[y] < d[x]
        BY <1>5, <1>8, <2>3, <3>2, <4>1
      <4>3. d[y] \in Nat /\ d[x] \in Nat /\ d[b] \in Nat
        BY <1>6, <2>1, <4>2
      <4>4. d[y] + d[b] + 1 < d[x] + d[b] + 1
        BY <4>2, <4>3
      <4>5. QED
        BY <2>2, <4>2, <4>4
    <3>3. QED
      BY <3>1, <3>2
  <2>4. RootsOf(u, D, r2, e)
    BY <1>8, <1>9, <1>10, <1>11, <2>2, <2>3 DEF RootsOf
  <2>5. QED
    BY <1>1, <2>4
<1>14. QED
  BY <1>12, <1>13

-----------------------------------------------------------------------------
(* THREAD: the references.                                                 *)

Positions == DOMAIN matched

\* p and q are in the same sets that are closed under references.
Akin(p, q) == \A S \in Closed : p \in S <=> q \in S

\* References that were followed: all of the messages before p, and the first i of p.
Followed(r, p, i) ==
  \A q \in Positions : \A j \in DOMAIN matched[q].refs : \A h \in Holder(matched[q].refs[j]) :
    q < p \/ (q = p /\ j <= i) => r[q] = r[h]

\* The forest, with roots that tell what was followed and nothing that is not
\* connected.
JoinedBy(parent, r, d, p, i) ==
  /\ RootsOf(parent, Positions, r, d)
  /\ \A x, y \in Positions : r[x] = r[y] => Akin(x, y)
  /\ Followed(r, p, i)

Joins(parent, p, i) == \E r, d : JoinedBy(parent, r, d, p, i)

\* An id has at most one holder.
LEMMA HolderIs ==
  ASSUME MatchedOK, NEW id
  PROVE  \/ Holder(id) = {}
         \/ \E o \in Positions : Holder(id) = {o}
<1> DEFINE S == {p \in DOMAIN matched : matched[p].id = id}
<1>1. Holder(id) = IF id = "" \/ S = {} THEN {} ELSE {Min(S)}
  BY DEF Holder
<1>2. S \subseteq Nat /\ S \subseteq Positions
  BY DEF MatchedOK, Positions
<1> HIDE DEF S
<1>3. S # {} => Min(S) \in S
  BY <1>2, MinIs
<1>4. QED
  BY <1>1, <1>2, <1>3

\* A reference connects.
LEMMA RefersAkin ==
  ASSUME NEW p \in Positions, NEW o \in Positions, Refers(p, o)
  PROVE  Akin(p, o)
<1>1. ASSUME NEW S \in Closed PROVE p \in S <=> o \in S
  <2>1. S \subseteq Positions /\ \A x \in S, y \in Positions \ S : ~ Refers(x, y) /\ ~ Refers(y, x)
    BY DEF Closed, Positions
  <2>2. QED
    BY <2>1
<1>2. QED
  BY <1>1 DEF Akin

\* One reference more.
LEMMA JoinStep ==
  ASSUME MatchedOK, NEW p \in Positions, NEW i \in DOMAIN matched[p].refs,
         NEW parent, Joins(parent, p, i - 1)
  PROVE  Joins(joined(parent, p, matched[p].refs[i]), p, i)
<1>1. PICK r, d : JoinedBy(parent, r, d, p, i - 1)
  BY DEF Joins
<1>2. /\ RootsOf(parent, Positions, r, d)
      /\ \A x, y \in Positions : r[x] = r[y] => Akin(x, y)
      /\ Followed(r, p, i - 1)
  BY <1>1 DEF JoinedBy
<1>3. PICK id : id = matched[p].refs[i]
  OBVIOUS
<1>4. \A q \in Positions : \A j \in DOMAIN matched[q].refs : j \in Int
  BY LetterFields DEF Positions
<1>5. i \in Int
  BY <1>4
<1>6. \A j \in Int : j <= i <=> j <= i - 1 \/ j = i
  BY <1>5
<1>7. CASE Holder(id) = {}
  <2>1. joined(parent, p, id) = parent
    BY <1>7 DEF joined
  <2>2. Followed(r, p, i)
    <3>1. ASSUME NEW q \in Positions, NEW j \in DOMAIN matched[q].refs, NEW h \in Holder(matched[q].refs[j]),
                 q < p \/ (q = p /\ j <= i)
          PROVE  r[q] = r[h]
      <4>1. ~ (q = p /\ j = i)
        BY <1>3, <1>7
      <4>2. q < p \/ (q = p /\ j <= i - 1)
        BY <1>4, <1>6, <3>1, <4>1
      <4>3. QED
        BY <1>2, <4>2 DEF Followed
    <3>2. QED
      BY <3>1 DEF Followed
  <2>3. JoinedBy(parent, r, d, p, i)
    BY <1>2, <2>2 DEF JoinedBy
  <2>4. QED
    BY <1>3, <2>1, <2>3 DEF Joins
<1>8. CASE Holder(id) # {}
  <2>1. PICK o \in Positions : Holder(id) = {o}
    BY <1>8, HolderIs
  <2>2. joined(parent, p, id) = union(parent, p, o)
    <3>1. (CHOOSE x \in {o} : TRUE) = o
      OBVIOUS
    <3>2. joined(parent, p, id) = union(parent, p, CHOOSE x \in {o} : TRUE)
      BY <1>8, <2>1, Zenon DEF joined
    <3>3. QED
      BY <3>1, <3>2
  <2>3. PICK r2 : r2 = Merged(r, Positions, p, o)
    OBVIOUS
  <2>4. PICK e : RootsOf(union(parent, p, o), Positions, r2, e)
    BY <1>2, <2>3, UnionRoots
  <2>5. \A x \in Positions : r2[x] = IF r[x] = r[p] THEN r[o] ELSE r[x]
    BY <2>3 DEF Merged
  <2>6. Akin(p, o)
    <3>1. Refers(p, o)
      BY <1>3, <2>1 DEF Refers
    <3>2. QED
      BY <3>1, RefersAkin
  <2>7. ASSUME NEW x \in Positions, NEW y \in Positions, r2[x] = r2[y] PROVE Akin(x, y)
    <3>1. CASE r[x] = r[y]
      BY <1>2, <3>1
    <3>2. CASE r[x] = r[p] /\ r[y] = r[o]
      <4>1. Akin(x, p) /\ Akin(o, y)
        BY <1>2, <3>2
      <4>2. QED
        BY <2>6, <4>1 DEF Akin
    <3>3. CASE r[x] = r[o] /\ r[y] = r[p]
      <4>1. Akin(x, o) /\ Akin(p, y)
        BY <1>2, <3>3
      <4>2. QED
        BY <2>6, <4>1 DEF Akin
    <3>4. QED
      BY <2>5, <2>7, <3>1, <3>2, <3>3
  <2>8. ASSUME NEW q \in Positions, NEW j \in DOMAIN matched[q].refs, NEW h \in Holder(matched[q].refs[j]),
               q < p \/ (q = p /\ j <= i)
        PROVE  r2[q] = r2[h]
    <3>1. h \in Positions
      BY HolderIs
    <3>2. CASE q = p /\ j = i
      <4>1. h = o
        BY <1>3, <2>1, <3>2
      <4>2. QED
        BY <2>5, <3>2, <4>1
    <3>3. CASE ~ (q = p /\ j = i)
      <4>1. q < p \/ (q = p /\ j <= i - 1)
        BY <1>4, <1>6, <2>8, <3>3
      <4>2. r[q] = r[h]
        BY <1>2, <4>1 DEF Followed
      <4>3. QED
        BY <2>5, <3>1, <4>2
    <3>4. QED
      BY <3>2, <3>3
  <2>9. JoinedBy(union(parent, p, o), r2, e, p, i)
    BY <2>4, <2>7, <2>8 DEF JoinedBy, Followed
  <2>10. QED
    BY <1>3, <2>2, <2>9 DEF Joins
<1>9. QED
  BY <1>7, <1>8

LinksFrom(g, parent, p) ==
  g = [i \in 0 .. Len(matched[p].refs) |->
         IF i = 0 THEN parent ELSE joined(g[i - 1], p, matched[p].refs[i])]

\* One message more.
LEMMA LinkStep ==
  ASSUME MatchedOK, NEW p \in Positions, NEW parent, Joins(parent, p, 0)
  PROVE  Joins(linked(parent, p), p, Len(matched[p].refs))
<1>1. PICK refs, N : refs = matched[p].refs /\ N = Len(refs)
  OBVIOUS
<1>2. refs \in Seq(STRING) /\ N \in Nat /\ DOMAIN refs = 1 .. N
  <2>1. refs \in Seq(STRING)
    BY <1>1, LetterFields DEF Positions
  <2>2. QED
    BY <1>1, <2>1
<1> DEFINE l == [loop |-> "refs", p |-> p, refs |-> refs]
           after == CHOOSE g : LinksFrom(g, parent, p)
<1>3. PICK g : Passes(g, l, parent, N)
  BY <1>2, LoopPasses
<1>4. \A i, v : Pass(l, i, v) = joined(v, p, refs[i])
  BY DEF Pass
<1>5. LinksFrom(g, parent, p)
  BY <1>1, <1>3, <1>4 DEF Passes, LinksFrom
<1>6. LinksFrom(after, parent, p)
  BY <1>5
<1>7. linked(parent, p) = after[N]
  BY <1>1, Zenon DEF linked, LinksFrom
<1> HIDE DEF after
<1>8. after = [i \in 0 .. N |-> IF i = 0 THEN parent ELSE joined(after[i - 1], p, refs[i])]
  BY <1>1, <1>6 DEF LinksFrom
<1> DEFINE T == {i \in 0 .. N : Joins(after[i], p, i)}
<1>9. 0 \in T
  <2>1. 0 \in 0 .. N
    BY <1>2
  <2>2. after[0] = parent
    BY <1>8, <2>1
  <2>3. QED
    BY <2>1, <2>2
<1>10. ASSUME NEW i \in 1 .. N, i - 1 \in T PROVE i \in T
  <2>1. i \in 0 .. N /\ i # 0
    BY <1>2
  <2>2. after[i] = joined(after[i - 1], p, refs[i])
    BY <1>8, <2>1
  <2>3. Joins(after[i - 1], p, i - 1) /\ i \in DOMAIN matched[p].refs
    BY <1>1, <1>2, <1>10
  <2>4. Joins(joined(after[i - 1], p, refs[i]), p, i)
    BY <1>1, <2>3, JoinStep
  <2>5. QED
    BY <2>1, <2>2, <2>4
<1> HIDE DEF T
<1>11. \A i \in 0 .. N : i \in T
  BY <1>2, <1>9, <1>10, UpFromZero
<1>12. N \in 0 .. N
  BY <1>2
<1>13. QED
  BY <1>1, <1>7, <1>11, <1>12 DEF T

Links(g) ==
  g = [p \in 0 .. Len(matched) |-> IF p = 0 THEN [q \in DOMAIN matched |-> q] ELSE linked(g[p - 1], p)]

\* All of them.
LEMMA LinkedJoins ==
  ASSUME MatchedOK
  PROVE  Joins(Linked, Len(matched) + 1, 0)
<1>1. PICK N : N = Len(matched)
  OBVIOUS
<1>2. N \in Nat /\ Positions = 1 .. N
  BY <1>1 DEF MatchedOK, Positions
<1> DEFINE l == [loop |-> "letters"]
           base == [q \in DOMAIN matched |-> q]
           after == CHOOSE g : Links(g)
<1>3. PICK g : Passes(g, l, base, N)
  BY <1>2, LoopPasses
<1>4. \A i, v : Pass(l, i, v) = linked(v, i)
  BY DEF Pass
<1>5. Links(g)
  BY <1>1, <1>3, <1>4 DEF Passes, Links
<1>6. Links(after)
  BY <1>5
<1>7. Linked = after[N]
  BY <1>1, Zenon DEF Linked, Links
<1> HIDE DEF after
<1>8. after = [p \in 0 .. N |-> IF p = 0 THEN base ELSE linked(after[p - 1], p)]
  BY <1>1, <1>6 DEF Links
<1>9. Joins(base, 1, 0)
  <2> DEFINE d == [x \in Positions |-> 0]
  <2>1. base \in [Positions -> Positions] /\ \A x \in Positions : base[x] = x
    BY DEF Positions
  <2>2. d \in [Positions -> Nat]
    OBVIOUS
  <2> HIDE DEF base, d
  <2>3. RootsOf(base, Positions, base, d)
    BY <2>1, <2>2 DEF RootsOf
  <2>4. \A x, y \in Positions : base[x] = base[y] => Akin(x, y)
    BY <2>1 DEF Akin
  <2>5. Followed(base, 1, 0)
    <3>1. \A q \in Positions : ~ (q < 1)
      BY <1>2
    <3>2. \A q \in Positions : \A j \in DOMAIN matched[q].refs : ~ (j <= 0)
      BY LetterFields DEF Positions
    <3>3. QED
      BY <3>1, <3>2 DEF Followed
  <2>6. JoinedBy(base, base, d, 1, 0)
    BY <2>3, <2>4, <2>5 DEF JoinedBy
  <2>7. QED
    BY <2>6 DEF Joins
<1> HIDE DEF base
<1> DEFINE T == {p \in 0 .. N : Joins(after[p], p + 1, 0)}
<1>10. 0 \in T
  <2>1. 0 \in 0 .. N /\ 0 + 1 = 1
    BY <1>2
  <2>2. after[0] = base
    BY <1>8, <2>1
  <2>3. QED
    BY <1>9, <2>1, <2>2
<1>11. ASSUME NEW p \in 1 .. N, p - 1 \in T PROVE p \in T
  <2>1. p \in 0 .. N /\ p # 0 /\ p \in Positions /\ (p - 1) + 1 = p
    BY <1>2
  <2>2. after[p] = linked(after[p - 1], p)
    BY <1>8, <2>1
  <2>3. Joins(after[p - 1], p, 0)
    BY <1>11, <2>1
  <2>4. Joins(after[p], p, Len(matched[p].refs))
    BY <2>1, <2>2, <2>3, LinkStep
  <2>5. PICK r, d : JoinedBy(after[p], r, d, p, Len(matched[p].refs))
    BY <2>4 DEF Joins
  <2>6. Followed(r, p + 1, 0)
    <3>1. ASSUME NEW q \in Positions, NEW j \in DOMAIN matched[q].refs, NEW h \in Holder(matched[q].refs[j]),
                 q < p + 1 \/ (q = p + 1 /\ j <= 0)
          PROVE  r[q] = r[h]
      <4>1. matched[q].refs \in Seq(STRING)
        BY LetterFields DEF Positions
      <4>2. j \in Nat /\ 1 <= j /\ j <= Len(matched[q].refs)
        BY <4>1
      <4>3. q < p \/ q = p
        BY <1>2, <3>1, <4>2
      <4>4. q < p \/ (q = p /\ j <= Len(matched[p].refs))
        BY <4>2, <4>3
      <4>5. Followed(r, p, Len(matched[p].refs))
        BY <2>5 DEF JoinedBy
      <4>6. QED
        BY <4>4, <4>5 DEF Followed
    <3>2. QED
      BY <3>1 DEF Followed
  <2>7. JoinedBy(after[p], r, d, p + 1, 0)
    BY <2>5, <2>6 DEF JoinedBy
  <2>8. Joins(after[p], p + 1, 0)
    BY <2>7 DEF Joins
  <2>9. QED
    BY <2>1, <2>8
<1> HIDE DEF T
<1>12. \A p \in 0 .. N : p \in T
  BY <1>2, <1>10, <1>11, UpFromZero
<1>13. N \in 0 .. N
  BY <1>2
<1>14. QED
  BY <1>1, <1>7, <1>12, <1>13 DEF T

\* The roots are the same exactly for what references connect.
LEMMA RootsExact ==
  ASSUME MatchedOK, NEW p \in Positions, NEW q \in Positions
  PROVE  root(Linked, p) = root(Linked, q) <=> Akin(p, q)
<1>1. PICK r, d : JoinedBy(Linked, r, d, Len(matched) + 1, 0)
  BY LinkedJoins DEF Joins
<1>2. /\ RootsOf(Linked, Positions, r, d)
      /\ \A x, y \in Positions : r[x] = r[y] => Akin(x, y)
      /\ Followed(r, Len(matched) + 1, 0)
  BY <1>1 DEF JoinedBy
<1>3. root(Linked, p) = r[p] /\ root(Linked, q) = r[q]
  BY <1>2, RootIs
<1>4. ASSUME NEW x \in Positions, NEW y \in Positions, Refers(x, y) PROVE r[x] = r[y]
  <2>1. x < Len(matched) + 1
    BY DEF MatchedOK, Positions
  <2>2. PICK i \in DOMAIN matched[x].refs : y \in Holder(matched[x].refs[i])
    BY <1>4 DEF Refers
  <2>3. QED
    BY <1>2, <2>1, <2>2 DEF Followed
<1> DEFINE S == {x \in Positions : r[x] = r[p]}
<1>5. S \in Closed
  BY <1>4 DEF Closed, Positions
<1>6. p \in S /\ (q \in S <=> r[q] = r[p])
  OBVIOUS
<1> HIDE DEF S
<1>7. Akin(p, q) => r[p] = r[q]
  BY <1>5, <1>6 DEF Akin
<1>8. QED
  BY <1>2, <1>3, <1>7

-----------------------------------------------------------------------------
(* THREAD: the order.                                                      *)

\* before orders S.
Orders(S, before) ==
  /\ \A a \in S : <<a, a>> \notin before
  /\ \A a, b \in S : a # b => <<a, b>> \in before \/ <<b, a>> \in before
  /\ \A a, b, c \in S : <<a, b>> \in before /\ <<b, c>> \in before => <<a, c>> \in before

\* s lists S, every member once, by before.
Sorted(s, S, before) ==
  /\ s \in [1 .. Cardinality(S) -> S] /\ Cardinality(S) \in Nat
  /\ \A i, j \in 1 .. Cardinality(S) : i < j => <<s[i], s[j]>> \in before
  /\ \A i, j \in 1 .. Cardinality(S) : s[i] = s[j] => i = j
  /\ \A x \in S : \E i \in 1 .. Cardinality(S) : s[i] = x

OneToOne(f, S) == \A a, b \in S : f[a] = f[b] => a = b

Onto(f, S, T) == \A t \in T : \E a \in S : f[a] = t

\* An injection of a finite set into one as large reaches all of it.
LEMMA OneToOneIsOnto ==
  ASSUME NEW S, NEW T, IsFiniteSet(S), IsFiniteSet(T), Cardinality(S) = Cardinality(T),
         NEW f \in [S -> T], OneToOne(f, S)
  PROVE  Onto(f, S, T)
<1>1. f \in Injection(S, T)
  BY DEF Injection, IsInjective, OneToOne
<1>2. f \in Surjection(S, T)
  BY <1>1, FS_Injection
<1>3. QED
  BY <1>2 DEF Surjection, Onto

Upto(S, before, x) == {y \in S : y = x \/ <<y, x>> \in before}

\* A finite set that is ordered can be sorted, and is.
LEMMA SortedIs ==
  ASSUME NEW S, NEW before, IsFiniteSet(S), Orders(S, before)
  PROVE  Sorted(InOrder(S, before), S, before)
<1>1. PICK n : n = Cardinality(S)
  OBVIOUS
<1>2. n \in Nat
  BY <1>1, FS_CardinalityType
<1>3. IsFiniteSet(1 .. n) /\ Cardinality(1 .. n) = n
  <2>1. 0 \in Int /\ 1 \in Int /\ n \in Int
    BY <1>2
  <2>2. IsFiniteSet(1 .. n) /\ Cardinality(1 .. n) = IF 1 > n THEN 0 ELSE n - 1 + 1
    BY <2>1, FS_Interval
  <2>3. QED
    BY <1>2, <2>2
<1>4. /\ \A a \in S : <<a, a>> \notin before
      /\ \A a, b \in S : a # b => <<a, b>> \in before \/ <<b, a>> \in before
      /\ \A a, b, c \in S : <<a, b>> \in before /\ <<b, c>> \in before => <<a, c>> \in before
  BY DEF Orders
<1> DEFINE rank == [x \in S |-> Cardinality(Upto(S, before, x))]
<1>5. \A x \in S : IsFiniteSet(Upto(S, before, x)) /\ Cardinality(Upto(S, before, x)) \in 1 .. n
  <2>1. TAKE x \in S
  <2>2. PICK U : U = Upto(S, before, x)
    OBVIOUS
  <2>3. U \in SUBSET S /\ x \in U
    BY <2>2 DEF Upto
  <2>4. IsFiniteSet(U) /\ Cardinality(U) <= n /\ Cardinality(U) \in Nat
    BY <1>1, <2>3, FS_Subset, FS_CardinalityType
  <2>5. Cardinality(U) # 0
    BY <2>3, <2>4, FS_EmptySet
  <2>6. QED
    BY <1>2, <2>2, <2>4, <2>5
<1>6. rank \in [S -> 1 .. n] /\ \A x \in S : rank[x] = Cardinality(Upto(S, before, x))
  BY <1>5
<1> HIDE DEF rank
<1>7. ASSUME NEW a \in S, NEW b \in S, <<a, b>> \in before PROVE rank[a] < rank[b]
  <2>1. PICK A, B : A = Upto(S, before, a) /\ B = Upto(S, before, b)
    OBVIOUS
  <2>2. IsFiniteSet(B) /\ Cardinality(B) \in 1 .. n /\ Cardinality(A) \in 1 .. n
    BY <1>5, <2>1
  <2>3. A \in SUBSET B
    BY <1>4, <1>7, <2>1 DEF Upto
  <2>4. b \in B /\ b \notin A
    <3>1. <<b, a>> \notin before
      BY <1>4, <1>7
    <3>2. QED
      BY <1>4, <1>7, <2>1, <3>1 DEF Upto
  <2>5. Cardinality(A) <= Cardinality(B) /\ Cardinality(A) # Cardinality(B)
    BY <2>2, <2>3, <2>4, FS_Subset
  <2>6. Cardinality(A) < Cardinality(B)
    BY <1>2, <2>2, <2>5
  <2>7. QED
    BY <1>6, <2>1, <2>6
<1>8. \A a, b \in S : rank[a] = rank[b] => a = b
  <2>1. \A a \in S : rank[a] \in Int
    BY <1>2, <1>6
  <2>2. ASSUME NEW a \in S, NEW b \in S, rank[a] = rank[b], a # b PROVE FALSE
    <3>1. rank[a] < rank[b] \/ rank[b] < rank[a]
      BY <1>4, <1>7, <2>2
    <3>2. QED
      BY <2>1, <2>2, <3>1
  <2>3. QED
    BY <2>2
<1>9. \A i \in 1 .. n : \E x \in S : rank[x] = i
  <2>1. Cardinality(S) = Cardinality(1 .. n)
    BY <1>1, <1>3
  <2>2. OneToOne(rank, S)
    BY <1>8 DEF OneToOne
  <2>3. Onto(rank, S, 1 .. n)
    BY <1>3, <1>6, <2>1, <2>2, OneToOneIsOnto
  <2>4. QED
    BY <2>3 DEF Onto
<1> DEFINE s == [i \in 1 .. n |-> CHOOSE x \in S : rank[x] = i]
           By(t) == \A i, j \in DOMAIN t : i < j => <<t[i], t[j]>> \in before
<1>10. s \in [1 .. n -> S] /\ \A i \in 1 .. n : rank[s[i]] = i
  BY <1>9
<1> HIDE DEF s
<1>11. ASSUME NEW i \in 1 .. n, NEW j \in 1 .. n, i < j PROVE <<s[i], s[j]>> \in before
  <2>1. s[i] \in S /\ s[j] \in S /\ rank[s[i]] = i /\ rank[s[j]] = j
    BY <1>10
  <2>2. i \in Int /\ j \in Int /\ ~ (j < i) /\ i # j
    BY <1>2, <1>11
  <2>3. s[i] # s[j]
    BY <2>1, <2>2
  <2>4. <<s[j], s[i]>> \notin before
    BY <1>7, <2>1, <2>2
  <2>5. QED
    BY <1>4, <2>1, <2>3, <2>4
<1>12. \E t \in [1 .. n -> S] : By(t)
  <2>1. DOMAIN s = 1 .. n
    BY <1>10
  <2>2. By(s)
    BY <1>11, <2>1
  <2> HIDE DEF By
  <2>3. QED
    BY <1>10, <2>2
<1>13. InOrder(S, before) = CHOOSE t \in [1 .. n -> S] : By(t)
  BY <1>1, Zenon DEF InOrder
<1>14. PICK t : t = InOrder(S, before)
  OBVIOUS
<1>15. t \in [1 .. n -> S] /\ By(t)
  <2> HIDE DEF By
  <2>1. QED
    BY <1>12, <1>13, <1>14
<1>16. \A i, j \in 1 .. n : i < j => <<t[i], t[j]>> \in before
  BY <1>15
<1>17. \A i, j \in 1 .. n : t[i] = t[j] => i = j
  <2>1. ASSUME NEW i \in 1 .. n, NEW j \in 1 .. n, t[i] = t[j], i # j PROVE FALSE
    <3>1. i < j \/ j < i
      BY <1>2, <2>1
    <3>2. t[i] \in S
      BY <1>15
    <3>3. <<t[i], t[i]>> \in before
      BY <1>16, <2>1, <3>1
    <3>4. QED
      BY <1>4, <3>2, <3>3
  <2>2. QED
    BY <2>1
<1>18. \A x \in S : \E i \in 1 .. n : t[i] = x
  <2>1. Cardinality(1 .. n) = Cardinality(S)
    BY <1>1, <1>3
  <2>2. OneToOne(t, 1 .. n)
    BY <1>17 DEF OneToOne
  <2>3. Onto(t, 1 .. n, S)
    <3> HIDE DEF By
    <3>1. QED
      BY <1>3, <1>15, <2>1, <2>2, OneToOneIsOnto
  <2>4. QED
    BY <2>3 DEF Onto
<1>19. QED
  BY <1>1, <1>2, <1>14, <1>15, <1>16, <1>17, <1>18 DEF Sorted

\* Dates, and places among equal dates, order the messages.
LEMMA EarlierOrders ==
  ASSUME MatchedOK
  PROVE  /\ \A a \in Positions : ~ Earlier(a, a)
         /\ \A a, b \in Positions : a # b => Earlier(a, b) \/ Earlier(b, a)
         /\ \A a, b, c \in Positions : Earlier(a, b) /\ Earlier(b, c) => Earlier(a, c)
         /\ \A a, b \in Positions : Earlier(a, b) => sort_date(matched[a]) <= sort_date(matched[b])
<1>1. \A a \in Positions : a \in Nat /\ sort_date(matched[a]) \in Nat
  BY DateIs DEF MatchedOK, Positions
<1>2. PICK f : f = [a \in Positions |-> sort_date(matched[a])]
  OBVIOUS
<1>3. \A a \in Positions : a \in Nat /\ f[a] \in Nat /\ sort_date(matched[a]) = f[a]
  BY <1>1, <1>2
<1>4. \A a, b \in Positions : Earlier(a, b) <=> f[a] < f[b] \/ (f[a] = f[b] /\ a < b)
  BY <1>3 DEF Earlier
<1>5. \A a \in Positions : ~ Earlier(a, a)
  BY <1>3, <1>4
<1>6. \A a, b \in Positions : a # b => Earlier(a, b) \/ Earlier(b, a)
  BY <1>3, <1>4
<1>7. ASSUME NEW a \in Positions, NEW b \in Positions, NEW c \in Positions, Earlier(a, b), Earlier(b, c)
      PROVE  Earlier(a, c)
  <2>1. PICK u, v, w : u = f[a] /\ v = f[b] /\ w = f[c]
    OBVIOUS
  <2>2. u \in Nat /\ v \in Nat /\ w \in Nat /\ a \in Nat /\ b \in Nat /\ c \in Nat
    BY <1>3, <2>1
  <2>3. (u < v \/ (u = v /\ a < b)) /\ (v < w \/ (v = w /\ b < c))
    BY <1>4, <1>7, <2>1
  <2>4. u < w \/ (u = w /\ a < c)
    BY <2>2, <2>3
  <2>5. QED
    BY <1>4, <2>1, <2>4
<1>8. \A a, b \in Positions : Earlier(a, b) => sort_date(matched[a]) <= sort_date(matched[b])
  BY <1>3, <1>4
<1>9. QED
  BY <1>5, <1>6, <1>7, <1>8

Dates(S) == {e \in S \X S : Earlier(e[1], e[2])}

\* The places are finitely many.
LEMMA PositionsFinite ==
  ASSUME MatchedOK
  PROVE  IsFiniteSet(Positions)
<1>1. Positions = 1 .. Len(matched) /\ 1 \in Int /\ Len(matched) \in Int
  BY DEF MatchedOK, Positions
<1>2. QED
  BY <1>1, FS_Interval

\* A group is listed by date.
LEMMA DatedIs ==
  ASSUME MatchedOK, NEW S, S \subseteq Positions
  PROVE  Sorted(Dated(S), S, Dates(S))
<1>1. IsFiniteSet(S)
  BY PositionsFinite, FS_Subset
<1>2. \A a, b : <<a, b>> \in Dates(S) <=> a \in S /\ b \in S /\ Earlier(a, b)
  BY DEF Dates
<1>3. Orders(S, Dates(S))
  <2>1. \A a \in S : <<a, a>> \notin Dates(S)
    BY <1>2, EarlierOrders
  <2>2. \A a, b \in S : a # b => <<a, b>> \in Dates(S) \/ <<b, a>> \in Dates(S)
    BY <1>2, EarlierOrders
  <2>3. \A a, b, c \in S : <<a, b>> \in Dates(S) /\ <<b, c>> \in Dates(S) => <<a, c>> \in Dates(S)
    BY <1>2, EarlierOrders
  <2>4. QED
    BY <2>1, <2>2, <2>3 DEF Orders
<1>4. Dated(S) = InOrder(S, Dates(S))
  BY DEF Dated, Dates
<1>5. QED
  BY <1>1, <1>3, <1>4, SortedIs

-----------------------------------------------------------------------------
(* THREAD: the threads.                                                    *)

Algorithms == {"REFERENCES", "ORDEREDSUBJECT"}

Class(algorithm, p) == {q \in Positions : Together(algorithm, p, q)}

\* Belonging together is an equivalence.
LEMMA TogetherIs ==
  ASSUME NEW algorithm \in Algorithms, NEW p, NEW q
  PROVE  /\ Together(algorithm, p, p)
         /\ Together(algorithm, p, q) => Together(algorithm, q, p)
         /\ \A r : Together(algorithm, p, q) /\ Together(algorithm, q, r) => Together(algorithm, p, r)
<1>1. \A x, y : Together("REFERENCES", x, y) <=> Akin(x, y)
  BY DEF Together, Akin
<1>2. \A x, y : Together("ORDEREDSUBJECT", x, y)
                  <=> base_subject(matched[x].subject) = base_subject(matched[y].subject)
  BY DEF Together
<1>3. CASE algorithm = "REFERENCES"
  BY <1>1, <1>3 DEF Akin
<1>4. CASE algorithm = "ORDEREDSUBJECT"
  BY <1>2, <1>4
<1>5. QED
  BY <1>3, <1>4 DEF Algorithms

\* The groups are its classes.
LEMMA GroupsAre ==
  ASSUME MatchedOK, NEW algorithm \in Algorithms
  PROVE  Groups(algorithm) = {Class(algorithm, p) : p \in Positions}
<1>1. CASE algorithm = "REFERENCES"
  <2>1. Groups(algorithm) =
          {{q \in Positions : root(Linked, q) = root(Linked, p)} : p \in Positions}
    BY <1>1, Zenon DEF Groups, Positions
  <2>2. \A p \in Positions : {q \in Positions : root(Linked, q) = root(Linked, p)} = Class(algorithm, p)
    <3>1. TAKE p \in Positions
    <3>2. \A q \in Positions : root(Linked, q) = root(Linked, p) <=> Together(algorithm, p, q)
      <4>1. TAKE q \in Positions
      <4>2. root(Linked, p) = root(Linked, q) <=> Akin(p, q)
        BY RootsExact
      <4>3. Together(algorithm, p, q) <=> Akin(p, q)
        BY <1>1 DEF Together, Akin
      <4>4. QED
        BY <4>2, <4>3
    <3>3. QED
      BY <3>2 DEF Class
  <2>3. QED
    BY <2>1, <2>2
<1>2. CASE algorithm = "ORDEREDSUBJECT"
  <2>1. Groups(algorithm) =
          {{q \in Positions : base_subject(matched[q].subject) = base_subject(matched[p].subject)}
             : p \in Positions}
    BY <1>2, Zenon DEF Groups, Positions
  <2>2. \A p \in Positions :
          {q \in Positions : base_subject(matched[q].subject) = base_subject(matched[p].subject)}
            = Class(algorithm, p)
    BY <1>2 DEF Class, Together
  <2>3. QED
    BY <2>1, <2>2
<1>3. QED
  BY <1>1, <1>2 DEF Algorithms

\* t is the thread of p.
ThreadOf(algorithm, p) == Dated(Class(algorithm, p))

Threads(algorithm) == {ThreadOf(algorithm, p) : p \in Positions}

Firsts(threads) == {e \in threads \X threads : Earlier(e[1][1], e[2][1])}

\* What a thread is.
Thread(t, algorithm, p) ==
  /\ 1 \in DOMAIN t
  /\ \A k \in DOMAIN t : t[k] \in Positions /\ Together(algorithm, p, t[k])
  /\ \A k, l \in DOMAIN t : t[k] = t[l] => k = l
  /\ \A q \in Positions : Together(algorithm, p, q) => \E k \in DOMAIN t : t[k] = q

LEMMA ThreadIs ==
  ASSUME MatchedOK, NEW algorithm \in Algorithms, NEW p \in Positions
  PROVE  Thread(ThreadOf(algorithm, p), algorithm, p)
<1>1. PICK S, t, n : S = Class(algorithm, p) /\ t = ThreadOf(algorithm, p) /\ n = Cardinality(S)
  OBVIOUS
<1>2. \A q : q \in S <=> q \in Positions /\ Together(algorithm, p, q)
  BY <1>1 DEF Class
<1>3. Sorted(t, S, Dates(S))
  BY <1>1, <1>2, DatedIs DEF ThreadOf
<1>4. /\ t \in [1 .. n -> S] /\ n \in Nat
      /\ \A i, j \in 1 .. n : t[i] = t[j] => i = j
      /\ \A x \in S : \E i \in 1 .. n : t[i] = x
  BY <1>1, <1>3 DEF Sorted
<1>5. DOMAIN t = 1 .. n /\ p \in S
  BY <1>2, <1>4, TogetherIs
<1>6. 1 \in 1 .. n
  BY <1>4, <1>5
<1>7. Thread(t, algorithm, p)
  BY <1>2, <1>4, <1>5, <1>6 DEF Thread
<1>8. QED
  BY <1>1, <1>7

\* What a thread holds tells which it is.
LEMMA SameThread ==
  ASSUME NEW algorithm \in Algorithms, NEW p, NEW q, NEW x,
         Together(algorithm, p, x), Together(algorithm, q, x)
  PROVE  ThreadOf(algorithm, p) = ThreadOf(algorithm, q)
<1>1. Together(algorithm, p, q) /\ Together(algorithm, q, p)
  BY TogetherIs
<1>2. \A y : Together(algorithm, p, y) <=> Together(algorithm, q, y)
  BY <1>1, TogetherIs
<1>3. Class(algorithm, p) = Class(algorithm, q)
  BY <1>2 DEF Class
<1>4. QED
  BY <1>3 DEF ThreadOf

\* The list of threads is what their first dates make of them.
LEMMA ThreadsSorted ==
  ASSUME MatchedOK, NEW algorithm \in Algorithms
  PROVE  Sorted(build_threads(algorithm), Threads(algorithm), Firsts(Threads(algorithm)))
<1>1. PICK T : T = Threads(algorithm)
  OBVIOUS
<1>2. build_threads(algorithm) = InOrder(T, Firsts(T))
  <2>1. {Dated(g) : g \in Groups(algorithm)} = T
    BY <1>1, GroupsAre DEF Threads, ThreadOf
  <2>2. build_threads(algorithm) =
          LET threads == {Dated(g) : g \in Groups(algorithm)}
          IN  InOrder(threads, {e \in threads \X threads : Earlier(e[1][1], e[2][1])})
    BY Zenon DEF build_threads
  <2>3. QED
    BY <2>1, <2>2 DEF Firsts
<1>3. IsFiniteSet(T)
  <2> DEFINE f == [p \in Positions |-> ThreadOf(algorithm, p)]
  <2>1. f \in Surjection(Positions, T)
    BY <1>1 DEF Surjection, Threads
  <2>2. QED
    BY <2>1, PositionsFinite, FS_Surjection
<1>4. \A t \in T : \E p \in Positions : t = ThreadOf(algorithm, p) /\ Thread(t, algorithm, p)
  BY <1>1, ThreadIs DEF Threads
<1>5. \A t \in T : t[1] \in Positions
  BY <1>4 DEF Thread
<1>6. \A a, b : <<a, b>> \in Firsts(T) <=> a \in T /\ b \in T /\ Earlier(a[1], b[1])
  BY DEF Firsts
<1>7. ASSUME NEW a \in T, NEW b \in T, a[1] = b[1] PROVE a = b
  <2>1. PICK p \in Positions : a = ThreadOf(algorithm, p) /\ Thread(a, algorithm, p)
    BY <1>4
  <2>2. PICK q \in Positions : b = ThreadOf(algorithm, q) /\ Thread(b, algorithm, q)
    BY <1>4
  <2>3. Together(algorithm, p, a[1]) /\ Together(algorithm, q, a[1])
    BY <1>7, <2>1, <2>2 DEF Thread
  <2>4. QED
    BY <2>1, <2>2, <2>3, SameThread
<1>8. Orders(T, Firsts(T))
  <2>1. \A a \in T : <<a, a>> \notin Firsts(T)
    BY <1>5, <1>6, EarlierOrders
  <2>2. \A a, b \in T : a # b => <<a, b>> \in Firsts(T) \/ <<b, a>> \in Firsts(T)
    BY <1>5, <1>6, <1>7, EarlierOrders
  <2>3. \A a, b, c \in T : <<a, b>> \in Firsts(T) /\ <<b, c>> \in Firsts(T) => <<a, c>> \in Firsts(T)
    BY <1>5, <1>6, EarlierOrders
  <2>4. QED
    BY <2>1, <2>2, <2>3 DEF Orders
<1>9. QED
  BY <1>1, <1>2, <1>3, <1>8, SortedIs

\* Together in a thread, together by references or by subject; once; and in order.
ThreadsOf(algorithm, threads) ==
  /\ \A p, q \in DOMAIN matched :
       (\E i \in DOMAIN threads : {p, q} \subseteq Range(threads[i])) <=> Together(algorithm, p, q)
  /\ \A i, j \in DOMAIN threads : \A k \in DOMAIN threads[i], l \in DOMAIN threads[j] :
       threads[i][k] = threads[j][l] => i = j /\ k = l
  /\ \A i, j \in DOMAIN threads :
       i < j => sort_date(matched[threads[i][1]]) <= sort_date(matched[threads[j][1]])

LEMMA ThreadsAre ==
  ASSUME MatchedOK, NEW algorithm \in Algorithms
  PROVE  ThreadsOf(algorithm, build_threads(algorithm))
<1>1. PICK s, T, n : s = build_threads(algorithm) /\ T = Threads(algorithm) /\ n = Cardinality(T)
  OBVIOUS
<1>2. /\ s \in [1 .. n -> T]
      /\ \A i, j \in 1 .. n : i < j => <<s[i], s[j]>> \in Firsts(T)
      /\ \A i, j \in 1 .. n : s[i] = s[j] => i = j
      /\ \A x \in T : \E i \in 1 .. n : s[i] = x
  BY <1>1, ThreadsSorted DEF Sorted
<1>3. DOMAIN s = 1 .. n
  BY <1>2
<1>4. \A i \in 1 .. n : \E p \in Positions : s[i] = ThreadOf(algorithm, p) /\ Thread(s[i], algorithm, p)
  BY <1>1, <1>2, ThreadIs DEF Threads
<1>5. ASSUME NEW p \in Positions, NEW q \in Positions
      PROVE  (\E i \in 1 .. n : {p, q} \subseteq Range(s[i])) <=> Together(algorithm, p, q)
  <2>1. ASSUME NEW i \in 1 .. n, {p, q} \subseteq Range(s[i]) PROVE Together(algorithm, p, q)
    <3>1. PICK x \in Positions : Thread(s[i], algorithm, x)
      BY <1>4
    <3>2. \A y \in Range(s[i]) : Together(algorithm, x, y)
      BY <3>1 DEF Thread, Range
    <3>3. Together(algorithm, x, p) /\ Together(algorithm, x, q)
      BY <2>1, <3>2
    <3>4. QED
      BY <3>3, TogetherIs
  <2>2. ASSUME Together(algorithm, p, q) PROVE \E i \in 1 .. n : {p, q} \subseteq Range(s[i])
    <3>1. PICK t : t = ThreadOf(algorithm, p)
      OBVIOUS
    <3>2. t \in T /\ Thread(t, algorithm, p)
      BY <1>1, <3>1, ThreadIs DEF Threads
    <3>3. PICK i \in 1 .. n : s[i] = t
      BY <1>2, <3>2
    <3>4. Together(algorithm, p, p)
      BY TogetherIs
    <3>5. p \in Range(t) /\ q \in Range(t)
      BY <2>2, <3>2, <3>4 DEF Thread, Range
    <3>6. QED
      BY <3>3, <3>5
  <2>3. QED
    BY <2>1, <2>2
<1>6. ASSUME NEW i \in 1 .. n, NEW j \in 1 .. n, NEW k \in DOMAIN s[i], NEW l \in DOMAIN s[j], s[i][k] = s[j][l]
      PROVE  i = j /\ k = l
  <2>1. PICK p \in Positions : s[i] = ThreadOf(algorithm, p) /\ Thread(s[i], algorithm, p)
    BY <1>4
  <2>2. PICK q \in Positions : s[j] = ThreadOf(algorithm, q) /\ Thread(s[j], algorithm, q)
    BY <1>4
  <2>3. Together(algorithm, p, s[i][k]) /\ Together(algorithm, q, s[i][k])
    BY <1>6, <2>1, <2>2 DEF Thread
  <2>4. s[i] = s[j]
    BY <2>1, <2>2, <2>3, SameThread
  <2>5. i = j
    BY <1>2, <2>4
  <2>6. k = l
    BY <1>6, <2>1, <2>4 DEF Thread
  <2>7. QED
    BY <2>5, <2>6
<1>7. ASSUME NEW i \in 1 .. n, NEW j \in 1 .. n, i < j
      PROVE  sort_date(matched[s[i][1]]) <= sort_date(matched[s[j][1]])
  <2>1. Earlier(s[i][1], s[j][1])
    BY <1>2, <1>7 DEF Firsts
  <2>2. s[i][1] \in Positions /\ s[j][1] \in Positions
    BY <1>4 DEF Thread
  <2>3. QED
    BY <2>1, <2>2, EarlierOrders
<1>8. ThreadsOf(algorithm, s)
  BY <1>3, <1>5, <1>6, <1>7 DEF ThreadsOf, Positions
<1>9. QED
  BY <1>1, <1>8

\* THREAD by either algorithm.
LEMMA ThreadsAreExact ==
  ASSUME MatchedOK
  PROVE  ThreadsExact
<1>1. ThreadsExact <=> \A algorithm \in Algorithms : ThreadsOf(algorithm, build_threads(algorithm))
  BY Zenon DEF ThreadsExact, ThreadsOf, Algorithms
<1>2. QED
  BY <1>1, ThreadsAre

-----------------------------------------------------------------------------
(* The inputs a behaviour grows.                                           *)
AnswersOK ==
  /\ matched \in Seq(Letters) /\ pattern \in Seq(PatternChars) /\ name \in Seq(NameChars)
  /\ hits \subseteq 1 .. MaxNumber

\* They stay what the answers are computed from.
LEMMA AnswersStep ==
  ASSUME AnswersOK, [answerNext]_answerVars
  PROVE  AnswersOK'
<1> USE DEF AnswersOK
<1>1. CASE UNCHANGED answerVars
  BY <1>1 DEF answerVars
<1>2. ASSUME NEW m \in Letters, match(m) PROVE AnswersOK'
  BY <1>2 DEF match
<1>3. ASSUME NEW c \in PatternChars, ask(c) PROVE AnswersOK'
  BY <1>3 DEF ask
<1>4. ASSUME NEW c \in NameChars, called(c) PROVE AnswersOK'
  BY <1>4 DEF called
<1>5. ASSUME NEW n \in 1 .. MaxNumber, hit(n) PROVE AnswersOK'
  BY <1>5 DEF hit
<1>6. QED
  BY <1>1, <1>2, <1>3, <1>4, <1>5 DEF answerNext

\* SORT, THREAD, LIST and ESEARCH answer what they are meant to, whatever the
\* messages and how many: threads are exactly the messages that references or
\* subjects connect, each listed once and by date; the order of SORT is total; a
\* pattern matches what it stands for; and the ranges are the numbers found.
THEOREM AnswersAreExact == answerSpec => []AnswersExact
<1>1. answerInit => AnswersOK
  BY DEF answerInit, AnswersOK
<1>2. AnswersOK /\ [answerNext]_answerVars => AnswersOK'
  BY AnswersStep
<1>3. ASSUME AnswersOK PROVE AnswersExact
  <2>1. ThreadsExact
    BY <1>3, ThreadsAreExact DEF AnswersOK, MatchedOK
  <2>2. SortIsTotal
    BY <1>3, SortOrders DEF AnswersOK, MatchedOK
  <2>3. wildcard_match(pattern, name) <=> StandsFor(pattern, name)
    BY <1>3, MatchExact DEF AnswersOK
  <2>4. RangesKept
    BY <1>3, AnswersRanges DEF AnswersOK
  <2>5. QED
    BY <2>1, <2>2, <2>3, <2>4, Zenon DEF AnswersExact, RangesKept
<1>4. QED
  BY <1>1, <1>2, <1>3, PTL DEF answerSpec
===============================================================================
