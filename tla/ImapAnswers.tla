----------------------------- MODULE ImapAnswers -----------------------------
(***************************************************************************)
(* The computations behind the answers of an IMAP session, imap/session.rs: *)
(* SORT and THREAD over the messages a search matched, the names LIST       *)
(* matches, and the numbers ESEARCH and VANISHED compress.  Each is checked *)
(* against what it is meant to compute, over every small input: a behaviour *)
(* grows the input of one command.                                         *)
(*                                                                         *)
(* A message is reduced to the headers these read.  A subject is a sequence *)
(* of words, all alike but for the reply prefixes, so that the order of two *)
(* texts is that of their lengths; an address is a number, 0 if there is     *)
(* none.  A Date header gives a day, 0 if it is missing or does not parse,   *)
(* and INTERNALDATE a moment of some day.                                    *)
(***************************************************************************)
EXTENDS Integers, Sequences, FiniteSets, SequencesExt

CONSTANTS Letters,       \* the messages that arrive
          PatternChars, NameChars,
          DayLength,                        \* moments in a day
          MaxLetters, MaxChars, MaxNumber   \* bounds

ASSUME AnswersAssumption ==
  /\ Letters \subseteq [id : STRING, refs : Seq(STRING), date : Nat, arrival : Nat,
                         subject : Seq(STRING), from : Nat]
  /\ DayLength \in Nat \ {0} /\ MaxNumber \in Nat

VARIABLES
  command,    \* THREAD, LIST or ESEARCH
  matched,    \* the messages the search matched, in UID order
  pattern, name,
  hits        \* the numbers found

answerVars == <<command, matched, pattern, name, hits>>

-----------------------------------------------------------------------------
(* SORT.                                                                   *)

\* The Date header, the day of INTERNALDATE without one.
sort_date(m) == IF m.date = 0 THEN m.arrival \div DayLength ELSE m.date

\* From the first word on that is no prefix of a reply.
base_subject(s) ==
  LET words == {i \in DOMAIN s : s[i] \notin {"re:", "fwd:", "fw:"}}
  IN  IF words = {} THEN <<>> ELSE SubSeq(s, Min(words), Len(s))

Keys == {"ARRIVAL", "DATE", "SUBJECT", "FROM"}

\* TO, CC, DISPLAYFROM, DISPLAYTO and SIZE read another field as FROM does.
KeyOf(m, key) ==
  CASE key = "ARRIVAL" -> m.arrival
    [] key = "DATE"    -> sort_date(m)
    [] key = "SUBJECT" -> Len(base_subject(m.subject))
    [] key = "FROM"    -> m.from

\* The first criterion that tells a from b decides; the UID, which is the
\* place in matched, decides between the rest.
sort_compare(a, b, criteria) ==
  LET differ == {c \in DOMAIN criteria :
                   KeyOf(matched[a], criteria[c].key) # KeyOf(matched[b], criteria[c].key)}
  IN  IF differ = {} THEN a < b
      ELSE LET c    == criteria[Min(differ)]
               less == KeyOf(matched[a], c.key) < KeyOf(matched[b], c.key)
           IN  IF c.reverse THEN ~less ELSE less

-----------------------------------------------------------------------------
(* THREAD.                                                                 *)

\* entry(mid).or_insert: the first message with an id has it.
Holder(id) ==
  LET S == {p \in DOMAIN matched : matched[p].id = id}
  IN  IF id = "" \/ S = {} THEN {} ELSE {Min(S)}

\* The messages on the way from p up, and the one it ends at.
path(parent, p) ==
  {q \in DOMAIN parent :
     \A S \in SUBSET DOMAIN parent : p \in S /\ (\A x \in S : parent[x] \in S) => q \in S}

root(parent, p) == CHOOSE r \in path(parent, p) : parent[r] = r

\* find leaves every message on its way pointing at the root.
find(parent, p) ==
  [q \in DOMAIN parent |-> IF q \in path(parent, p) THEN root(parent, p) ELSE parent[q]]

\* Mutant of union: the message itself is hung under the other root, not the
\* root of what it is already in.
union_shallow(parent, p, other) ==
  LET f == find(find(parent, p), other)
  IN  [f EXCEPT ![p] = f[other]]

\* The root of p goes under the root of the message referred to.
union(parent, p, other) ==
  LET f == find(find(parent, p), other)
  IN  [f EXCEPT ![f[p]] = f[other]]

joined(parent, p, id) ==
  IF Holder(id) = {} THEN parent ELSE union(parent, p, CHOOSE o \in Holder(id) : TRUE)

\* Every message in turn, every reference of it in turn.
linked(parent, p) ==
  LET refs == matched[p].refs
      after[i \in 0 .. Len(refs)] == IF i = 0 THEN parent ELSE joined(after[i - 1], p, refs[i])
  IN  after[Len(refs)]

Linked ==
  LET after[p \in 0 .. Len(matched)] ==
        IF p = 0 THEN [q \in DOMAIN matched |-> q] ELSE linked(after[p - 1], p)
  IN  after[Len(matched)]

Groups(algorithm) ==
  CASE algorithm = "ORDEREDSUBJECT" ->
         {{q \in DOMAIN matched : base_subject(matched[q].subject) = base_subject(matched[p].subject)}
            : p \in DOMAIN matched}
    [] algorithm = "REFERENCES" ->
         LET parent == Linked
         IN  {{q \in DOMAIN matched : root(parent, q) = root(parent, p)} : p \in DOMAIN matched}

\* By date, then by place.
Earlier(a, b) == \/ sort_date(matched[a]) < sort_date(matched[b])
                 \/ sort_date(matched[a]) = sort_date(matched[b]) /\ a < b

\* The members of S, sorted.
InOrder(S, before) ==
  CHOOSE s \in [1 .. Cardinality(S) -> S] :
    \A i, j \in DOMAIN s : i < j => <<s[i], s[j]>> \in before

Dated(S) == InOrder(S, {e \in S \X S : Earlier(e[1], e[2])})

\* The threads, each by date, in the order of their first dates; of threads
\* with the same first date the code keeps the order of its map, which no
\* property is about.
build_threads(algorithm) ==
  LET threads == {Dated(g) : g \in Groups(algorithm)}
  IN  InOrder(threads, {e \in threads \X threads : Earlier(e[1][1], e[2][1])})

-----------------------------------------------------------------------------
(* LIST.                                                                   *)

\* The table is filled from the ends of both, row by row.  A row is the set of
\* its true entries, each the number of characters of the name that are left.
Wild == {"*", "%"}

entry(c, n, below, row, k) ==
  LET first == n[Len(n) - k + 1]
  IN  \/ c \in Wild /\ k \in below
      \/ c \in Wild /\ (c = "%" => first # "/") /\ k - 1 \in row
      \/ c \notin Wild /\ first = c /\ k - 1 \in below

fill(c, n, below) ==
  LET row[k \in 0 .. Len(n)] ==
        IF k = 0 THEN IF c \in Wild THEN below \cap {0} ELSE {}
        ELSE IF entry(c, n, below, row[k - 1], k) THEN row[k - 1] \cup {k} ELSE row[k - 1]
  IN  row[Len(n)]

wildcard_match(p, n) ==
  LET dp[left \in 0 .. Len(p)] ==
        IF left = 0 THEN {0} ELSE fill(p[Len(p) - left + 1], n, dp[left - 1])
  IN  Len(n) \in dp[Len(p)]

-----------------------------------------------------------------------------
(* ESEARCH ALL and VANISHED.                                               *)

\* A number goes on the range that ends before it, or begins one.
extend(ranges, n) ==
  IF ranges # <<>> /\ ranges[Len(ranges)][2] + 1 = n
  THEN [ranges EXCEPT ![Len(ranges)] = <<@[1], n>>]
  ELSE Append(ranges, <<n, n>>)

\* to_sequence_set over the sorted numbers.
to_sequence_set_of(ids) ==
  LET out[n \in 0 .. MaxNumber] ==
        IF n = 0 THEN <<>> ELSE IF n \in ids THEN extend(out[n - 1], n) ELSE out[n - 1]
  IN  out[MaxNumber]

\* MIN, MAX and ALL are left out of an answer without hits.
esearch_line(ids, ret) ==
  [MIN   |-> IF "MIN" \in ret /\ ids # {} THEN {Min(ids)} ELSE {},
   MAX   |-> IF "MAX" \in ret /\ ids # {} THEN {Max(ids)} ELSE {},
   COUNT |-> IF "COUNT" \in ret THEN {Cardinality(ids)} ELSE {},
   ALL   |-> IF "ALL" \in ret \/ ret \cap {"MIN", "MAX", "COUNT"} = {} THEN to_sequence_set_of(ids) ELSE <<>>]

-----------------------------------------------------------------------------
answerInit ==
  /\ command \in {"THREAD", "LIST", "ESEARCH"}
  /\ matched = <<>> /\ pattern = <<>> /\ name = <<>> /\ hits = {}

match(m) ==
  /\ command = "THREAD"
  /\ Len(matched) < MaxLetters
  /\ matched' = Append(matched, m)
  /\ UNCHANGED <<command, pattern, name, hits>>

ask(c) ==
  /\ command = "LIST"
  /\ name = <<>> /\ Len(pattern) < MaxChars
  /\ pattern' = Append(pattern, c)
  /\ UNCHANGED <<command, matched, name, hits>>

called(c) ==
  /\ command = "LIST"
  /\ Len(name) < MaxChars
  /\ name' = Append(name, c)
  /\ UNCHANGED <<command, matched, pattern, hits>>

hit(n) ==
  /\ command = "ESEARCH"
  /\ hits' = hits \cup {n}
  /\ UNCHANGED <<command, matched, pattern, name>>

answerNext ==
  \/ \E m \in Letters : match(m)
  \/ \E c \in PatternChars : ask(c)
  \/ \E c \in NameChars : called(c)
  \/ \E n \in 1 .. MaxNumber : hit(n)

answerSpec == answerInit /\ [][answerNext]_answerVars

-----------------------------------------------------------------------------
(* Properties.                                                             *)

\* Two messages belong together if a chain of references, followed in either
\* direction, leads from one to the other: nothing closed under references in
\* either direction holds one without the other.
Refers(p, q) == \E i \in DOMAIN matched[p].refs : q \in Holder(matched[p].refs[i])

Closed == {S \in SUBSET DOMAIN matched :
             \A p \in S, q \in DOMAIN matched \ S : ~Refers(p, q) /\ ~Refers(q, p)}

Together(algorithm, p, q) ==
  \/ /\ algorithm = "REFERENCES"
     /\ \A S \in Closed : p \in S <=> q \in S
  \/ /\ algorithm = "ORDEREDSUBJECT"
     /\ base_subject(matched[p].subject) = base_subject(matched[q].subject)

\* The union-find of build_threads puts two messages in one thread exactly if
\* references connect them, whatever order they lie in; every matched message
\* is in one thread, once; and a thread is never listed before one that began
\* earlier.
ThreadsExact ==
  \A algorithm \in {"REFERENCES", "ORDEREDSUBJECT"} :
    LET threads == build_threads(algorithm)
        Date(i) == sort_date(matched[threads[i][1]])
    IN  /\ \A p, q \in DOMAIN matched :
             (\E i \in DOMAIN threads : {p, q} \subseteq Range(threads[i])) <=> Together(algorithm, p, q)
        /\ \A i, j \in DOMAIN threads : \A k \in DOMAIN threads[i], l \in DOMAIN threads[j] :
             threads[i][k] = threads[j][l] => i = j /\ k = l
        /\ \A i, j \in DOMAIN threads : i < j => Date(i) <= Date(j)

Criteria ==
  {<<[key |-> k, reverse |-> r]>> : k \in Keys, r \in BOOLEAN}
  \cup {<<[key |-> k, reverse |-> r], [key |-> "FROM", reverse |-> ~r]>> : k \in Keys \ {"FROM"}, r \in BOOLEAN}

\* sort_compare is a strict total order whatever the criteria, reversed ones
\* and equal keys included: sort_by may panic on anything less.
SortIsTotal ==
  \A criteria \in Criteria :
    \A a, b, c \in DOMAIN matched :
      LET less(p, q) == sort_compare(p, q, criteria)
      IN  /\ a # b => (less(a, b) <=> ~less(b, a))
          /\ less(a, b) /\ less(b, c) => less(a, c)

\* What a pattern stands for: each `*` some characters, each `%` some without
\* a delimiter (RFC 9051, section 6.3.9, as the comment cites it), any other
\* character itself.  A piece is the characters of n after the first a up to b.
Piece(c, n, a, b) ==
  \/ c = "*" /\ a <= b
  \/ c = "%" /\ a <= b /\ \A i \in a + 1 .. b : n[i] # "/"
  \/ c \notin Wild /\ b = a + 1 /\ n[b] = c

StandsFor(p, n) ==
  \E cut \in [0 .. Len(p) -> 0 .. Len(n)] :
    /\ cut[0] = 0 /\ cut[Len(p)] = Len(n)
    /\ \A i \in 1 .. Len(p) : Piece(p[i], n, cut[i - 1], cut[i])

\* The numbers a compressed set stands for.
Expanded(ranges) == UNION {r[1] .. r[2] : r \in Range(ranges)}

\* LIST matches by its table exactly what the pattern stands for, and the
\* ranges of ESEARCH and VANISHED stand for the numbers found, in order and with
\* no two ranges that touch.
AnswersExact ==
  /\ ThreadsExact
  /\ SortIsTotal
  /\ wildcard_match(pattern, name) <=> StandsFor(pattern, name)
  /\ \A ret \in SUBSET {"MIN", "MAX", "COUNT", "ALL"} :
       LET all == esearch_line(hits, ret).ALL
       IN  "ALL" \in ret \/ ret \cap {"MIN", "MAX", "COUNT"} = {} =>
             /\ Expanded(all) = hits
             /\ \A i, j \in DOMAIN all : i < j => all[i][2] + 1 < all[j][1]
=============================================================================
