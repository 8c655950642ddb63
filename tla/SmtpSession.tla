----------------------------- MODULE SmtpSession -----------------------------
(***************************************************************************)
(* SMTP submission sessions, one after the other: smtp.rs with the         *)
(* connection loop serve_smtp of net.rs.  One action is one line given to  *)
(* feed_line_bytes.  Refused lines, NOOP, VRFY and HELP change nothing and *)
(* are stutters.                                                           *)
(*                                                                         *)
(* txn is a ghost that counts the accepted MAIL commands; an address or a  *)
(* DSN parameter is named by the transaction whose client line carried it, *)
(* so that a field which survives into the next message can be seen.       *)
(* dictated is a ghost too: the body the client means to send, by lines.   *)
(***************************************************************************)
EXTENDS Naturals, Sequences

CONSTANTS max_size,    \* the SIZE limit
          Lines,       \* body lines: sequences of octets, Dot among them
          Dot, Quit,   \* the octet "." and the text QUIT, taken as one octet
          Recipients, None,
          MaxTxn, MaxRcpt, MaxLines   \* bounds

ASSUME SmtpAssumption ==
  /\ max_size \in Nat
  /\ Lines \subseteq Seq(UNION {{l[i] : i \in DOMAIN l} : l \in Lines})

VARIABLES
  online, closedBy,                 \* the connection and what ended the last one
  phase, tls, authed, pending_auth,
  mail_from, rcpt_to, dsn_notify, envid, ret,
  data_buf, data_oversized,
  submissions,
  txn, dictated                     \* ghosts

link     == <<online, closedBy>>
login    == <<tls, authed, pending_auth>>
envelope == <<mail_from, rcpt_to, dsn_notify, envid, ret>>
data     == <<data_buf, data_oversized, dictated>>
smtpVars == <<link, phase, login, envelope, data, submissions, txn>>

\* The buffer, as octets: every line is kept with its CRLF.
Size(buf) ==
  LET upto[n \in 0 .. Len(buf)] == IF n = 0 THEN 0 ELSE upto[n - 1] + Len(buf[n]) + 2
  IN  upto[Len(buf)]

-----------------------------------------------------------------------------
(* The connection.                                                         *)

\* SmtpSession::new and the greeting.
smtpInit ==
  /\ online = TRUE /\ closedBy = "nobody"
  /\ phase = "Command"
  /\ tls \in BOOLEAN /\ authed = FALSE /\ pending_auth = "None"
  /\ mail_from = None /\ rcpt_to = <<>> /\ dsn_notify = <<>>
  /\ envid = None /\ ret = None
  /\ data_buf = <<>> /\ data_oversized = FALSE
  /\ submissions = <<>>
  /\ txn = 0 /\ dictated = <<>>

\* A new session, or none: nothing is left of the one before.  (phase is kept
\* to see where the last one ended.)
Cleared ==
  /\ authed' = FALSE /\ pending_auth' = "None"
  /\ mail_from' = None /\ rcpt_to' = <<>> /\ dsn_notify' = <<>>
  /\ envid' = None /\ ret' = None
  /\ data_buf' = <<>> /\ data_oversized' = FALSE /\ dictated' = <<>>
  /\ submissions' = <<>>
  /\ UNCHANGED txn

\* The session is dropped with what it holds, submissions included: the loop
\* never takes them.
Close(by) ==
  /\ online' = FALSE /\ closedBy' = by
  /\ Cleared
  /\ UNCHANGED <<phase, tls>>

\* The peer goes away at any point.
LosePeer == online /\ Close("peer")

Reconnect ==
  /\ ~online
  /\ online' = TRUE /\ closedBy' = "nobody"
  /\ phase' = "Command"
  /\ tls' \in BOOLEAN
  /\ Cleared

\* The node collects what was accepted.
take_submissions ==
  /\ online /\ submissions # <<>>
  /\ submissions' = <<>>
  /\ UNCHANGED <<link, phase, login, envelope, data, txn>>

-----------------------------------------------------------------------------
(* Commands.                                                               *)

InCommand == online /\ phase = "Command" /\ pending_auth = "None"

\* The loop ends at a line that is QUIT, whoever reads it.
QUIT == online /\ phase = "Command" /\ Close("QUIT")

STARTTLS ==
  /\ InCommand
  /\ tls' = TRUE
  /\ UNCHANGED <<link, phase, authed, pending_auth, envelope, data, submissions, txn>>

\* AUTH PLAIN with its response, verified.
auth_plain ==
  /\ InCommand /\ ~authed /\ tls
  /\ authed' = TRUE
  /\ UNCHANGED <<link, phase, tls, pending_auth, envelope, data, submissions, txn>>

\* AUTH, the exchange to be continued.
cmd_auth(step) ==
  /\ InCommand /\ ~authed /\ tls
  /\ pending_auth' = step
  /\ UNCHANGED <<link, phase, tls, authed, envelope, data, submissions, txn>>

continue_auth(verified) ==
  /\ online /\ phase = "Command" /\ pending_auth # "None"
  /\ pending_auth' = IF pending_auth = "LoginUser" THEN "LoginPass" ELSE "None"
  /\ authed' = (authed \/ (verified /\ pending_auth # "LoginUser"))
  /\ UNCHANGED <<link, phase, tls, envelope, data, submissions, txn>>

reset_txn ==
  /\ mail_from' = None /\ rcpt_to' = <<>> /\ dsn_notify' = <<>>
  /\ envid' = None /\ ret' = None
  /\ data_buf' = <<>>

\* EHLO, HELO and RSET.
RSET ==
  /\ InCommand
  /\ reset_txn
  /\ UNCHANGED <<link, phase, login, data_oversized, dictated, submissions, txn>>

\* The DSN parameter a line carries, or none.
Param(given, value) == IF given THEN value ELSE None

\* Mutant of cmd_mail: ENVID and RET kept when the line has none.
cmd_mail_sticky(hasEnvid, hasRet) ==
  /\ InCommand
  /\ authed
  /\ txn < MaxTxn
  /\ txn' = txn + 1
  /\ envid' = (IF hasEnvid THEN txn' ELSE envid)
  /\ ret' = (IF hasRet THEN txn' ELSE ret)
  /\ mail_from' = txn' /\ rcpt_to' = <<>> /\ dsn_notify' = <<>>
  /\ UNCHANGED <<link, phase, login, data, submissions>>

\* MAIL FROM, SIZE= within the limit.  A MAIL in the middle of a transaction
\* starts the next one.
cmd_mail(hasEnvid, hasRet) ==
  /\ InCommand
  /\ authed
  /\ txn < MaxTxn
  /\ txn' = txn + 1
  /\ envid' = Param(hasEnvid, txn')
  /\ ret' = Param(hasRet, txn')
  /\ mail_from' = txn' /\ rcpt_to' = <<>> /\ dsn_notify' = <<>>
  /\ UNCHANGED <<link, phase, login, data, submissions>>

cmd_rcpt(r, notify) ==
  /\ InCommand
  /\ mail_from # None
  /\ Len(rcpt_to) < MaxRcpt
  /\ rcpt_to' = Append(rcpt_to, <<txn, r>>)
  /\ dsn_notify' = Append(dsn_notify, Param(notify, <<txn, r>>))
  /\ UNCHANGED <<link, phase, login, mail_from, envid, ret, data, submissions, txn>>

\* Mutant of cmd_data: the verdict on the last message kept.
cmd_data_stale ==
  /\ InCommand
  /\ mail_from # None /\ rcpt_to # <<>>
  /\ phase' = "Data"
  /\ data_buf' = <<>> /\ dictated' = <<>>
  /\ UNCHANGED <<link, login, envelope, data_oversized, submissions, txn>>

cmd_data ==
  /\ InCommand
  /\ mail_from # None /\ rcpt_to # <<>>
  /\ phase' = "Data"
  /\ data_buf' = <<>> /\ data_oversized' = FALSE
  /\ dictated' = <<>>
  /\ UNCHANGED <<link, login, envelope, submissions, txn>>

-----------------------------------------------------------------------------
(* DATA.                                                                   *)

\* What the client puts on the wire for a body line: a leading dot doubled.
Stuffed(l) == IF l # <<>> /\ Head(l) = Dot THEN <<Dot>> \o l ELSE l

\* Mutant of Unstuffed: every leading dot goes.
UnstuffedAll(l) == SelectSeq(l, LAMBDA o : o # Dot)

\* strip_prefix(b"."): one leading dot goes.
Unstuffed(l) == IF l # <<>> /\ Head(l) = Dot THEN Tail(l) ELSE l

\* Once the buffer is over the limit nothing is added to it.
Buffered(l) ==
  IF Size(data_buf) <= max_size THEN Append(data_buf, Unstuffed(l)) ELSE data_buf

\* A line that is not the terminating dot.
DataLine(l) ==
  /\ online /\ phase = "Data"
  /\ l # <<Quit>>
  /\ Len(dictated) < MaxLines
  /\ data_buf' = Buffered(Stuffed(l))
  /\ data_oversized' = (data_oversized \/ Size(data_buf') > max_size)
  /\ dictated' = Append(dictated, l)
  /\ UNCHANGED <<link, phase, login, envelope, submissions, txn>>

\* The loop compares every line with QUIT, body lines too, and ends.
QuitLine == online /\ phase = "Data" /\ <<Quit>> \in Lines /\ Close("QUIT")

\* The terminating dot of a message within the limit: 250.
Accept ==
  /\ online /\ phase = "Data"
  /\ ~data_oversized
  /\ phase' = "Command"
  /\ submissions' = Append(submissions,
       [mail_from |-> mail_from, rcpt_to |-> rcpt_to, data |-> data_buf,
        envid |-> envid, ret |-> ret, dsn_notify |-> dsn_notify, body |-> dictated])
  /\ reset_txn
  /\ dictated' = <<>>
  /\ UNCHANGED <<link, login, data_oversized, txn>>

\* The terminating dot of a message over the limit: 552.
Refuse ==
  /\ online /\ phase = "Data"
  /\ data_oversized
  /\ phase' = "Command"
  /\ reset_txn
  /\ dictated' = <<>>
  /\ UNCHANGED <<link, login, data_oversized, submissions, txn>>

smtpNext ==
  \/ LosePeer \/ Reconnect \/ take_submissions
  \/ QUIT \/ STARTTLS \/ auth_plain \/ RSET \/ cmd_data
  \/ \E step \in {"Plain", "LoginUser"} : cmd_auth(step)
  \/ \E verified \in BOOLEAN : continue_auth(verified)
  \/ \E hasEnvid, hasRet \in BOOLEAN : cmd_mail(hasEnvid, hasRet)
  \/ \E r \in Recipients, notify \in BOOLEAN : cmd_rcpt(r, notify)
  \/ \E l \in Lines : DataLine(l)
  \/ QuitLine
  \/ Accept \/ Refuse

smtpSpec == smtpInit /\ [][smtpNext]_smtpVars

-----------------------------------------------------------------------------
(* Properties.                                                             *)

\* Everything in the envelope of an accepted message was said in its own
\* transaction: no sender, recipient, ENVID, RET or NOTIFY of an earlier one,
\* accepted, refused, reset or abandoned, is left in it.  The NOTIFY list is
\* aligned with the recipients (Submission::dsn_notify, "aligned with
\* rcpt_to"), in the session too: the i-th NOTIFY is what the i-th recipient's
\* own line said.  There is an envelope only after a login under TLS, and a
\* message is received for an envelope only.
OneTransaction ==
  LET aligned(rcpts, notify) ==
        /\ Len(rcpts) = Len(notify)
        /\ \A i \in DOMAIN rcpts : notify[i] \in {None, rcpts[i]}
  IN  /\ mail_from # None => authed /\ tls
      /\ online /\ phase = "Data" => mail_from # None /\ rcpt_to # <<>>
      /\ aligned(rcpt_to, dsn_notify)
      /\ \A k \in DOMAIN submissions :
           LET s == submissions[k]
           IN  /\ s.mail_from # None /\ s.rcpt_to # <<>>
               /\ {s.envid, s.ret} \subseteq {None, s.mail_from}
               /\ \A i \in DOMAIN s.rcpt_to : s.rcpt_to[i][1] = s.mail_from
               /\ aligned(s.rcpt_to, s.dsn_notify)

\* The body of an accepted message is the body the client sent, octet by
\* octet: dots restored, nothing truncated, nothing of another message; and on
\* the way the buffer never holds more than the limit and one line, whatever the
\* client sends (feed_data_line).
BodyExact ==
  /\ \A k \in DOMAIN submissions : submissions[k].data = submissions[k].body
  /\ \A l \in Lines : (\A m \in Lines : Len(m) <= Len(l)) => Size(data_buf) <= max_size + Len(l) + 2

\* At the terminating dot a message is accepted if it is within the limit and
\* refused if it is not, whatever became of the messages before it.
SizeVerdictStep ==
  online /\ phase = "Data" /\ phase' = "Command" =>
    (submissions' # submissions <=> Size(dictated) <= max_size)

SizeVerdict == [][SizeVerdictStep]_smtpVars

\* What the comments on DATA say ("DATA must be carried as raw bytes
\* end-to-end", "DATA lines must be buffered byte-exact"): a body line is no
\* command, so the server does not end the connection in the middle of a body.
BodyNotObeyed == closedBy = "QUIT" => phase # "Data"
=============================================================================
