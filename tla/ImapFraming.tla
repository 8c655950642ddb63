----------------------------- MODULE ImapFraming -----------------------------
(***************************************************************************)
(* How an IMAP command travels: the reader of the connection loop          *)
(* (crates/kotva-mail/src/net.rs: read_imap_command and serve_imap), which *)
(* assembles a command with its literals, and the tokenizer that takes the *)
(* assembled buffer apart again (imap/parser.rs).  The two find the ends   *)
(* of literals by rules of their own and have to agree.                    *)
(*                                                                         *)
(* An octet is a one-character string; "LF" is the end of a line (a CR     *)
(* before it is dropped by every rule here).  The client is external: it   *)
(* writes well-formed commands, may send the next one before the answer,   *)
(* waits for the prompt before the octets of a synchronizing literal and   *)
(* may hang up at any octet.                                               *)
(***************************************************************************)
EXTENDS Integers, Sequences, SequencesExt

CONSTANTS Commands,      \* the commands clients send: sequences of arguments
          MAX_LITERAL, MAX_LINE,
          MaxCommands    \* bound: commands of one connection

VARIABLES
  unsent,    \* octets the client has still to write, prompts it waits for among them
  wire,      \* octets on their way to the server
  prompts,   \* continuation prompts on their way to the client
  eof,       \* the client has hung up
  held,      \* the lines and literals of the command so far
  due,       \* octets of the literal being read, -1 outside one
  closed,    \* the server has left its loop
  sent,      \* ghost: the commands the client wrote
  got        \* what process was called with, in order

fvars == <<unsent, wire, prompts, eof, held, due, closed, sent, got>>

-----------------------------------------------------------------------------
(* The client's side: how arguments are written.                           *)

Digits == [d \in {"0", "1", "2", "3"} |-> CASE d = "0" -> 0 [] d = "1" -> 1 [] d = "2" -> 2 [] d = "3" -> 3]
DigitOf(n) == CHOOSE d \in DOMAIN Digits : Digits[d] = n

\* Where the client waits for a prompt.
AwaitPrompt == "WAIT"

Escaped(s) == FlattenSeq([i \in DOMAIN s |-> IF s[i] \in {"\"", "\\"} THEN <<"\\", s[i]>> ELSE <<s[i]>>])

Written(arg) ==
  CASE arg.kind = "Atom"    -> arg.octets
    [] arg.kind = "Quoted"  -> <<"\"">> \o Escaped(arg.octets) \o <<"\"">>
    [] arg.kind = "Literal" -> <<"{", DigitOf(Len(arg.octets))>>
                               \o (IF arg.sync THEN <<"}", "LF", AwaitPrompt>> ELSE <<"+", "}", "LF">>)
                               \o arg.octets

Rendered(args) ==
  FlattenSeq([i \in DOMAIN args |-> (IF i = 1 THEN <<>> ELSE <<" ">>) \o Written(args[i])]) \o <<"LF">>

-----------------------------------------------------------------------------
(* The server's side: the reader.                                          *)

IsNumber(s) == s # <<>> /\ \A i \in DOMAIN s : s[i] \in DOMAIN Digits
Number(s) == FoldLeft(LAMBDA n, d : 10 * n + Digits[d], 0, s)

NoLiteral == [size |-> -1, sync |-> FALSE]

\* The digits between an opening brace and the closing one at the end.
Announced(inner) ==
  LET plus   == inner # <<>> /\ Last(inner) = "+"
      digits == IF plus THEN Front(inner) ELSE inner
  IN  IF IsNumber(digits) THEN [size |-> Number(digits), sync |-> ~plus] ELSE NoLiteral

\* The octets between the i-th one and the last.
Inside(s, i) == SubSeq(s, i + 1, Len(s) - 1)

\* Mutant of trailing_literal: the first opening brace of the line.
trailing_literal_first(l) ==
  LET t    == IF l # <<>> /\ Last(l) = "LF" THEN Front(l) ELSE l
      open == {i \in DOMAIN t : t[i] = "{"}
  IN  IF t = <<>> \/ open = {} THEN NoLiteral
      ELSE IF Last(t) # "}" THEN NoLiteral
      ELSE Announced(Inside(t, Min(open)))

\* A literal announced at the end of the line, by its last opening brace.
trailing_literal(l) ==
  LET t    == IF l # <<>> /\ Last(l) = "LF" THEN Front(l) ELSE l
      open == {i \in DOMAIN t : t[i] = "{"}
  IN  IF t = <<>> \/ open = {} THEN NoLiteral
      ELSE IF Last(t) # "}" THEN NoLiteral
      ELSE Announced(Inside(t, Max(open)))

-----------------------------------------------------------------------------
(* The tokenizer.  A result is [ok, tokens]; positions count from 1.       *)

Bad == [ok |-> FALSE, tokens |-> <<>>]

Blank == {" ", "LF"}
Stops == Blank \cup {"(", ")", "[", "]", "{", "\""}

RECURSIVE read_quoted(_, _, _)
\* The position after the closing quote, 0 when there is none.
read_quoted(b, i, s) ==
  IF i > Len(b) THEN [octets |-> s, next |-> 0]
  ELSE IF b[i] = "\"" THEN [octets |-> s, next |-> i + 1]
  ELSE IF b[i] = "\\" /\ i < Len(b) THEN read_quoted(b, i + 2, Append(s, b[i + 1]))
  ELSE read_quoted(b, i + 1, Append(s, b[i]))

read_literal(b, i) ==
  LET none   == [octets |-> <<>>, next |-> 0]
      digits == SubSeq(b, i, SelectInSubSeq(b, i, Len(b), LAMBDA c : c \notin DOMAIN Digits) - 1)
      j      == i + Len(digits)
      k      == IF j <= Len(b) /\ b[j] = "+" THEN j + 1 ELSE j
      from   == IF k < Len(b) /\ b[k + 1] = "LF" THEN k + 2 ELSE k + 1
  IN  IF ~IsNumber(digits) \/ k > Len(b) THEN none
      ELSE IF b[k] # "}" THEN none
      ELSE IF Number(digits) > MAX_LITERAL \/ Number(digits) > Len(b) - from + 1 THEN none
      ELSE [octets |-> SubSeq(b, from, from + Number(digits) - 1), next |-> from + Number(digits)]

\* The end of an atom: the first octet that stops one.
read_atom(b, i) ==
  LET e == SelectInSubSeq(b, i, Len(b), LAMBDA c : c \in Stops)
      n == IF e = 0 THEN Len(b) + 1 ELSE e
  IN  [octets |-> SubSeq(b, i, n - 1), next |-> n]

RECURSIVE tokenize_from(_, _, _)
tokenize_from(b, i, tokens) ==
  IF i > Len(b) THEN [ok |-> TRUE, tokens |-> tokens]
  ELSE IF b[i] \in Blank THEN tokenize_from(b, i + 1, tokens)
  ELSE IF b[i] \in {"(", ")", "[", "]"}
       THEN tokenize_from(b, i + 1, Append(tokens, [kind |-> b[i], octets |-> <<>>]))
  ELSE LET kind == CASE b[i] = "\"" -> "Quoted" [] b[i] = "{" -> "Literal" [] OTHER -> "Atom"
           t    == CASE kind = "Quoted"  -> read_quoted(b, i + 1, <<>>)
                     [] kind = "Literal" -> read_literal(b, i + 1)
                     [] OTHER            -> read_atom(b, i)
       IN  IF t.next = 0 THEN Bad
           ELSE tokenize_from(b, t.next, Append(tokens, [kind |-> kind, octets |-> t.octets]))

tokenize(b) == tokenize_from(b, 1, <<>>)

-----------------------------------------------------------------------------
fInit ==
  /\ unsent = <<>> /\ wire = <<>> /\ prompts = 0 /\ eof = FALSE
  /\ held = <<>> /\ due = -1 /\ closed = FALSE
  /\ sent = <<>> /\ got = <<>>

\* The client starts another command.
issue(args) ==
  /\ ~eof
  /\ Len(sent) < MaxCommands
  /\ unsent = <<>>
  /\ unsent' = Rendered(args)
  /\ sent' = Append(sent, args)
  /\ UNCHANGED <<wire, prompts, eof, held, due, closed, got>>

\* What it can write before the next prompt it has to wait for.
Sendable ==
  LET w == SelectInSeq(unsent, LAMBDA c : c = AwaitPrompt)
  IN  IF w = 0 THEN unsent ELSE SubSeq(unsent, 1, w - 1)

write ==
  /\ ~eof
  /\ unsent # <<>> /\ unsent[1] # AwaitPrompt
  /\ wire' = wire \o Sendable
  /\ unsent' = SubSeq(unsent, Len(Sendable) + 1, Len(unsent))
  /\ UNCHANGED <<prompts, eof, held, due, closed, sent, got>>

prompted ==
  /\ ~eof
  /\ unsent # <<>>
  /\ Head(unsent) = AwaitPrompt
  /\ prompts > 0
  /\ prompts' = prompts - 1
  /\ unsent' = Tail(unsent)
  /\ UNCHANGED <<wire, eof, held, due, closed, sent, got>>

\* It goes away, with n more octets of its command on the wire.
hang_up(n) ==
  /\ ~eof
  /\ eof' = TRUE
  /\ wire' = wire \o SubSeq(Sendable, 1, n)
  /\ UNCHANGED <<unsent, prompts, held, due, closed, sent, got>>

\* Dropping the connection: an over-long line or literal (told with a BAD), a
\* literal cut short, or a clean end.
Hang ==
  /\ closed' = TRUE
  /\ UNCHANGED <<unsent, prompts, eof, held, due, sent, got>>

\* process is called with a command and answers it.
Processed(command) ==
  /\ got' = Append(got, command)
  /\ held' = <<>> /\ due' = -1
  /\ UNCHANGED <<unsent, prompts, eof, closed, sent>>

\* Mutant of line_read: the prompt is given for the other kind of literal.
line_read_swapped(l) ==
  \E lit \in {trailing_literal(l)} :
    IF Len(l) > MAX_LINE \/ lit.size > MAX_LITERAL THEN Hang
    ELSE IF lit = NoLiteral THEN Processed(held \o l)
    ELSE /\ prompts' = IF lit.sync THEN prompts ELSE prompts + 1
         /\ due' = lit.size
         /\ held' = held \o l
         /\ UNCHANGED <<unsent, eof, closed, sent, got>>

\* A line is complete: it ends the command unless it announces a literal.
line_read(l) ==
  \E lit \in {trailing_literal(l)} :
    IF Len(l) > MAX_LINE \/ lit.size > MAX_LITERAL THEN Hang
    ELSE IF lit = NoLiteral THEN Processed(held \o l)
    ELSE /\ prompts' = IF lit.sync THEN prompts + 1 ELSE prompts
         /\ due' = lit.size
         /\ held' = held \o l
         /\ UNCHANGED <<unsent, eof, closed, sent, got>>

\* read_until_lf: up to the line's end, or all there is once that is past
\* the cap.
read_until_lf ==
  /\ ~closed /\ due = -1
  /\ "LF" \in Range(wire) \/ Len(wire) > MAX_LINE
  /\ \E n \in {IF "LF" \in Range(wire) THEN SelectInSeq(wire, LAMBDA c : c = "LF") ELSE Len(wire)} :
       /\ wire' = SubSeq(wire, n + 1, Len(wire))
       /\ line_read(SubSeq(wire, 1, n))

\* read_exact for a literal.
read_exact ==
  /\ ~closed /\ due >= 0
  /\ Len(wire) >= due
  /\ held' = held \o SubSeq(wire, 1, due)
  /\ wire' = SubSeq(wire, due + 1, Len(wire))
  /\ due' = -1
  /\ UNCHANGED <<unsent, prompts, eof, closed, sent, got>>

\* The end of the stream.  What was read of a line, or of a command whose
\* next line is missing, counts as the command; a literal cut short does not.
end_of_stream ==
  /\ ~closed /\ eof
  /\ wire' = <<>>
  /\ \/ due >= 0 /\ Len(wire) < due /\ Hang
     \/ /\ due = -1
        /\ "LF" \notin Range(wire)
        /\ \/ wire # <<>> /\ line_read(wire)
           \/ wire = <<>> /\ held # <<>> /\ Processed(held)
           \/ wire = <<>> /\ held = <<>> /\ Hang

Serve == read_until_lf \/ read_exact \/ end_of_stream

Talk == write \/ prompted

fNext ==
  \/ \E args \in Commands : issue(args)
  \/ Talk
  \/ \E n \in 0 .. Len(Sendable) : hang_up(n)
  \/ Serve

\* The server's thread keeps reading while there is something to read, and
\* the client, unless it hangs up, finishes the command it has begun.
fFairness == WF_fvars(Serve) /\ WF_fvars(Talk)

fSpec == fInit /\ [][fNext]_fvars /\ fFairness

-----------------------------------------------------------------------------
(* Properties.                                                             *)

Plain(args) == [i \in DOMAIN args |-> [kind |-> args[i].kind, octets |-> args[i].octets]]

\* A command as the tokenizer sees it, once all of it has come.
Understood(command) == tokenize(command)

\* Every command that reaches the session is the one the client wrote, in the
\* order it wrote them, whatever quoted strings and literals contain: the
\* reader's and the tokenizer's rules for literals never disagree.  A last
\* one may have been cut short by a hang-up.
FramesAsSent ==
  \A i \in DOMAIN got :
    \/ i = Len(got) /\ eof
    \/ i \in DOMAIN sent /\ Understood(got[i]) = [ok |-> TRUE, tokens |-> Plain(sent[i])]

\* Client and server never wait for each other: every command is processed,
\* or the connection is closed.
EveryCommandServed ==
  \A k \in 1 .. MaxCommands : (Len(sent) >= k) ~> (Len(got) >= k \/ closed)
=============================================================================
