--------------------------- MODULE MCFeedFollower ---------------------------
(* FeedFollower for TLC: one publisher and another who interferes.  The     *)
(* entries form a fork after genesis (e1.. and f1..), with an entry      *)
(* whose place does not follow its predecessor's (g2) and one whose          *)
(* predecessor nobody serves (d1).  A content address is the entry under a   *)
(* hash, so that it commits to everything before it.                         *)
EXTENDS FeedFollower, FiniteSets

CONSTANTS pub, other, unknown,
          MaxLen,      \* bound: entries in a fetch of any shape
          Topics

MCentry_id(e) == [blake3 |-> e]

Entry(seq, announce, prev) == [seq |-> seq, announce |-> announce, prev |-> prev]

e0 == Entry(0, "a", None)
e1 == Entry(1, "b", MCentry_id(e0))
e2 == Entry(2, "c", MCentry_id(e1))
e3 == Entry(3, "z", MCentry_id(e2))
f1 == Entry(1, "x", MCentry_id(e0))
f2 == Entry(2, "c", MCentry_id(f1))
f3 == Entry(3, "z", MCentry_id(f2))
g2 == Entry(2, "g", MCentry_id(e0))
d1 == Entry(1, "d", unknown)

MCEntries == {e0, e1, e2, e3, f1, f2, f3, g2, d1}

MCpublisher == [f \in Followers |-> pub]

\* Everything short, and the longer ranges whose places follow each other.
MCRanges ==
  UNION {[1 .. n -> MCEntries] : n \in 0 .. MaxLen}
    \cup {r \in UNION {[1 .. n -> MCEntries] : n \in 3 .. 4} :
            \A i \in 2 .. Len(r) : r[i].seq = r[i - 1].seq + 1}

\* Every entry under its own place, one under another, one unsigned and one
\* signed by somebody else.
MCHeads ==
  LET head(p, t, s, e, v) ==
        [publisher |-> p, topic |-> t, seq |-> s, tip |-> MCentry_id(e), valid |-> v]
  IN  {head(pub, t, e.seq, e, TRUE) : e \in MCEntries, t \in Topics}
        \cup {head(pub, t, 2, f1, TRUE) : t \in Topics}
        \cup {head(pub, t, 2, e2, FALSE) : t \in Topics}
        \cup {head(other, t, 1, e1, TRUE) : t \in Topics}
=============================================================================
