--------------------------- MODULE KeyTransparency ---------------------------
(***************************************************************************)
(* The transparency log of crates/kotva-core/src/kt.rs: the Merkle tree,   *)
(* the inclusion and consistency proofs it hands out, and the client that  *)
(* pins the last tree head it accepted.                                    *)
(***************************************************************************)
EXTENDS MerkleTrees, SequencesExt

CONSTANT MaxLeaves    \* bound on the size of a log

VARIABLES log,      \* the leaves the server shows now: 1, 2, 3 ... are the ones
                    \* it was given, and 101, 102 ... those of another history
          pinned,   \* the tree head the client holds: [tree_size, root_hash]
          view      \* the leaves under that head, which the client never sees

ktVars == <<log, pinned, view>>

-----------------------------------------------------------------------------
(* The tree.                                                               *)

Digest(x)     == leaf("plain", x)
over(l, r)    == node("plain", l, r)
trees(leaves) == heads("plain", [i \in DOMAIN leaves |-> Digest(leaves[i])])

\* The root of an empty tree is a head nobody can prove anything about.
root(leaves) == IF leaves = <<>> THEN Digest(0) ELSE trees(leaves)[Len(leaves)][0]

\* One step down from the n leaves after the first lo, to the half with the
\* x-th; the head of the other half goes before the path.
halved(of, s, x) ==
  LET k == split_point(s.n)
  IN  IF x < s.lo + k
      THEN [lo |-> s.lo, n |-> k, path |-> <<of[s.n - k][s.lo + k]>> \o s.path]
      ELSE [lo |-> s.lo + k, n |-> s.n - k, path |-> <<of[k][s.lo]>> \o s.path]

whole(leaves) == [lo |-> 0, n |-> Len(leaves), path |-> <<>>]

\* Down to the m-th leaf.
to_leaf(of, s, m) == IF s.n <= 1 THEN s ELSE halved(of, s, m)

audit_path(m, leaves) ==
  LET down[i \in 0 .. Len(leaves)] ==
        IF i = 0 THEN whole(leaves) ELSE to_leaf(trees(leaves), down[i - 1], m)
  IN  down[Len(leaves)].path

\* Down to the subtree in which the first m leaves end; its head is missing in
\* the path if it is the old tree itself, which no step to the right led to.
to_edge(of, s, m) == IF s.lo + s.n = m THEN s ELSE halved(of, s, m - 1)

subproof(m, leaves) ==
  LET down[i \in 0 .. Len(leaves)] ==
        IF i = 0 THEN whole(leaves) ELSE to_edge(trees(leaves), down[i - 1], m)
      end == down[Len(leaves)]
  IN  IF end.lo = 0 THEN end.path ELSE <<trees(leaves)[end.n][end.lo]>> \o end.path

consistency_path(first, leaves) ==
  IF first \in {0, Len(leaves)} THEN <<>> ELSE subproof(first, leaves)

-----------------------------------------------------------------------------
(* The client's checks.                                                    *)

\* One level up: the number of a node, and of the last one of its level.
above(s) == <<s[1] \div 2, s[2] \div 2>>

\* fold_inclusion's inner loop: at least one level up, and on while the node
\* is a left child.
past_left(s) == IF s[1] % 2 = 1 \/ s[1] = 0 THEN s ELSE above(s)

climb(idx, last) ==
  LET up[i \in 0 .. idx] == IF i = 0 THEN above(<<idx, last>>) ELSE past_left(up[i - 1])
  IN  up[idx]

\* The next element of an audit path: the left sibling, also of a last node
\* which has none on the levels between, or the right one.
folded(s, h) ==
  LET left == s.idx % 2 = 1 \/ s.idx = s.last
      up   == IF left /\ s.idx % 2 = 0 THEN climb(s.idx, s.last) ELSE <<s.idx, s.last>>
  IN  IF s.last = 0 THEN [s EXCEPT !.ok = FALSE]
      ELSE [idx |-> up[1] \div 2, last |-> up[2] \div 2, ok |-> s.ok,
            r |-> IF left THEN over(h, s.r) ELSE over(s.r, h)]

fold(tree_size, leaf_index, leaf_hash, path) ==
  LET after[j \in 0 .. Len(path)] ==
        IF j = 0 THEN [idx |-> leaf_index, last |-> tree_size - 1, ok |-> TRUE, r |-> leaf_hash]
        ELSE folded(after[j - 1], path[j])
  IN  after[Len(path)]

\* Mutant of fold_inclusion: the path may end below the root.
fold_inclusion_short(tree_size, leaf_index, leaf_hash, path, root_hash) ==
  /\ leaf_index < tree_size
  /\ fold(tree_size, leaf_index, leaf_hash, path).ok

\* InclusionProof::verify_against.
fold_inclusion(tree_size, leaf_index, leaf_hash, path, root_hash) ==
  LET end == fold(tree_size, leaf_index, leaf_hash, path)
  IN  leaf_index < tree_size /\ end.ok /\ end.last = 0 /\ end.r = root_hash

\* verify_consistency's first loop: the levels on which the old tree's last
\* node is a right child.
past_right(s) == IF s[1] % 2 = 1 THEN above(s) ELSE s

shared(idx, last) ==
  LET up[i \in 0 .. idx] == IF i = 0 THEN <<idx, last>> ELSE past_right(up[i - 1])
  IN  up[idx]

\* A level of its other two loops: a left sibling is in both trees, a right
\* one in the new tree only, above the old tree's root too.
risen(path, s) ==
  LET odd     == s.idx % 2 = 1
      sibling == odd \/ s.idx < s.last
      h       == path[s.used + 1]
  IN  IF sibling /\ s.used = Len(path) THEN [s EXCEPT !.ok = FALSE]
      ELSE [idx |-> s.idx \div 2, last |-> s.last \div 2, ok |-> s.ok,
            used |-> IF sibling THEN s.used + 1 ELSE s.used,
            old  |-> IF odd THEN over(h, s.old) ELSE s.old,
            new  |-> IF odd THEN over(h, s.new) ELSE IF sibling THEN over(s.new, h) ELSE s.new]

\* All levels, from one where both trees have the node h; a tree of n leaves
\* has less than n levels.
rise(path, idx, last, used, h, n) ==
  LET up[i \in 0 .. n] ==
        IF i = 0 THEN [idx |-> idx, last |-> last, ok |-> TRUE, used |-> used, old |-> h, new |-> h]
        ELSE risen(path, up[i - 1])
  IN  up[n]

\* The three loops together, with the first node of the path or the old root.
rebuilt(old, new, path) ==
  LET start == shared(old.tree_size - 1, new.tree_size - 1)
  IN  IF start[1] > 0
      THEN rise(path, start[1], start[2], 1, path[1], new.tree_size)
      ELSE rise(path, start[1], start[2], 0, old.root_hash, new.tree_size)

begins(old, new, path) ==
  path = <<>> => shared(old.tree_size - 1, new.tree_size - 1)[1] = 0

\* Mutant of verify_consistency: only the new root is compared.
verify_consistency_new(old, new, path) ==
  \/ /\ old.tree_size = new.tree_size
     /\ path = <<>> /\ old.root_hash = new.root_hash
  \/ old.tree_size = 0 /\ new.tree_size > 0 /\ path = <<>>
  \/ /\ 0 < old.tree_size /\ old.tree_size < new.tree_size
     /\ begins(old, new, path)
     /\ rebuilt(old, new, path).ok /\ rebuilt(old, new, path).new = new.root_hash

verify_consistency(old, new, path) ==
  \/ /\ old.tree_size = new.tree_size
     /\ path = <<>> /\ old.root_hash = new.root_hash
  \/ old.tree_size = 0 /\ new.tree_size > 0 /\ path = <<>>
  \/ /\ 0 < old.tree_size /\ old.tree_size < new.tree_size
     /\ begins(old, new, path)
     /\ LET end == rebuilt(old, new, path)
        IN  /\ end.ok /\ end.used = Len(path)
            /\ end.old = old.root_hash /\ end.new = new.root_hash

-----------------------------------------------------------------------------

Head_(leaves) == [tree_size |-> Len(leaves), root_hash |-> root(leaves)]

\* The proof a server hands out, and what a damaged or forged one may be: an
\* element less, one more, or one replaced by any subtree's hash.
Forged(path, pool) ==
  {path} \cup {SubSeq(path, 1, i - 1) \o SubSeq(path, i + 1, Len(path)) : i \in DOMAIN path}
    \cup {path \o <<h>> : h \in pool}
    \cup {[path EXCEPT ![i] = h] : i \in DOMAIN path, h \in pool}

ktInit ==
  /\ log = <<>>
  /\ pinned = Head_(<<>>)
  /\ view = <<>>

Forked == log # <<>> /\ Last(log) > 100

\* MerkleTree::append, to the history shown.
append ==
  /\ Len(log) < MaxLeaves
  /\ log' = Append(log, Len(log) + 1 + IF Forked THEN 100 ELSE 0)
  /\ UNCHANGED <<pinned, view>>

\* The server shows another history: one that leaves the first after k leaves.
fork(k) ==
  /\ ~ Forked /\ k < Len(log)
  /\ log' = Append(SubSeq(log, 1, k), k + 101)
  /\ UNCHANGED <<pinned, view>>

\* And the first one again.
rejoin ==
  /\ Forked
  /\ log' = [i \in 1 .. Len(log) |-> i]
  /\ UNCHANGED <<pinned, view>>

\* The client is shown the current head and a proof, and pins what it accepts.
advance(path) ==
  /\ log # <<>>
  /\ verify_consistency(pinned, Head_(log), path)
  /\ pinned' = Head_(log)
  /\ view' = log
  /\ UNCHANGED log

Pool == {Digest(Len(log)), Digest(101), pinned.root_hash, root(log)}

Paths ==
  Forged(consistency_path(IF pinned.tree_size <= Len(log) THEN pinned.tree_size ELSE 0, log), Pool)

ktNext ==
  \/ append
  \/ \E k \in 0 .. MaxLeaves - 1 : fork(k)
  \/ rejoin
  \/ \E path \in Paths : advance(path)

ktSpec == ktInit /\ [][ktNext]_ktVars

-----------------------------------------------------------------------------
(* Properties.                                                             *)

\* Every proof a log hands out is accepted, whatever the two sizes, around the
\* powers of two too (audit_path and subproof against fold_inclusion and
\* verify_consistency); and a leaf is proved to be where it is and nowhere
\* else, by an honest path or a damaged one (InclusionProof::verify_against).
ProofsSound ==
  LET n == Len(log) IN
  log # <<>> =>
    /\ \A i \in 0 .. n - 1 : fold_inclusion(n, i, Digest(log[i + 1]), audit_path(i, log), root(log))
    /\ \A m \in 0 .. n : verify_consistency(Head_(SubSeq(log, 1, m)), Head_(log), consistency_path(m, log))
    /\ \A i, j \in 0 .. n - 1 : \A path \in Forged(audit_path(j, log), Pool) :
         fold_inclusion(n, i, Digest(log[j + 1]), path, root(log)) => i = j

\* A client that advances only by verify_consistency never leaves the history
\* it has seen: what is under each head it pins extends what was under the last.
AppendOnlyView == [][IsPrefix(view, view')]_ktVars
=============================================================================
