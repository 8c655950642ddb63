------------------------------ MODULE MCServers ------------------------------
(* The three connection loops of net.rs for TLC, and the answers of IMAP     *)
(* commands: a behaviour is one of POP3 sessions, SMTP sessions, the framing  *)
(* of IMAP commands or the growing input of one of them (part).  SMTP body *)
(* lines are a text, a lone dot (the line that would end the message were it  *)
(* not doubled) and QUIT; two lines fill max_size.  IMAP arguments hold what   *)
(* the reader and the tokenizer look for: braces, digits, quotes, line ends.   *)
EXTENDS Pop3Session, SmtpSession, ImapFraming, ImapAnswers

CONSTANTS dot, x, quitWord

VARIABLE part

BodyLines == {<<x>>, <<dot>>, <<quitWord>>}

Arg(kind, octets, sync) == [kind |-> kind, octets |-> octets, sync |-> sync]

Words == {Arg("Atom", <<"a">>, FALSE), Arg("Atom", <<"1", "}">>, FALSE)}

Strings ==
  {Arg("Quoted", s, FALSE) :
     s \in {<<>>, <<"{", "1", "}">>, <<"{">>, <<"\"">>, <<"{", "1", "\\">>}}

Literals ==
  {Arg("Literal", s, sync) : s \in {<<>>, <<"LF">>, <<"{", "}">>, <<"a", "a", "a">>}, sync \in BOOLEAN}

MCCommands ==
  {<<w>> : w \in Words \cup Strings \cup Literals}
  \cup {<<s, l>> : s \in {Arg("Atom", <<"1", "}">>, FALSE), Arg("Quoted", <<"{">>, FALSE)},
                   l \in {Arg("Literal", <<"LF">>, TRUE), Arg("Literal", <<"{", "}">>, FALSE)}}
  \cup {<<l, s>> : l \in {Arg("Literal", <<"{", "}">>, TRUE)},
                   s \in {Arg("Atom", <<"1", "}">>, FALSE), Arg("Literal", <<"LF">>, FALSE)}}

\* Letters that reply to each other in every order, to themselves and to letters
\* that never came, with equal and missing dates, subjects and authors.
Letter(id, refs, date, arrival, subject, from) ==
  [id |-> id, refs |-> refs, date |-> date, arrival |-> arrival, subject |-> subject, from |-> from]

MCLetters ==
  {Letter(i, r, 0, 3, <<"s">>, 0) : i \in {"i", "j"}, r \in {<<>>, <<"i">>, <<"k", "j">>}}
  \cup {Letter("", r, 2, 3, <<"re:", "fwd:">>, 1) : r \in {<<"i", "j">>, <<"j", "k">>}}
  \cup {Letter("k", r, d, 4 - d, s, 2 - d) :
          r \in {<<>>, <<"j">>}, d \in {0, 2}, s \in {<<"re:", "s">>, <<"s", "re:">>}}

serversVars == <<part, popVars, smtpVars, fvars, answerVars>>

serversInit ==
  /\ part \in {"POP3", "SMTP", "IMAP", "ANSWERS"}
  /\ popInit /\ smtpInit /\ fInit /\ answerInit
  /\ part # "SMTP" => tls
  /\ part # "ANSWERS" => command = "LIST"

serversNext ==
  \/ part = "POP3" /\ popNext /\ UNCHANGED <<part, smtpVars, fvars, answerVars>>
  \/ part = "SMTP" /\ smtpNext /\ UNCHANGED <<part, popVars, fvars, answerVars>>
  \/ part = "IMAP" /\ fNext /\ UNCHANGED <<part, popVars, smtpVars, answerVars>>
  \/ part = "ANSWERS" /\ answerNext /\ UNCHANGED <<part, popVars, smtpVars, fvars>>

serversSpec ==
  /\ serversInit
  /\ [][serversNext]_serversVars
  /\ WF_serversVars(part = "IMAP" /\ Serve /\ UNCHANGED <<part, popVars, smtpVars, answerVars>>)
  /\ WF_serversVars(part = "IMAP" /\ Talk /\ UNCHANGED <<part, popVars, smtpVars, answerVars>>)
=============================================================================
