----------------------------- MODULE MerkleTrees -----------------------------
(***************************************************************************)
(* The Merkle tree of RFC 6962 as the key-transparency log                 *)
(* (crates/kotva-core/src/kt.rs), sealed files (mote.rs) and public        *)
(* objects (pubobj.rs) compute it, each with a copy of its own.            *)
(*                                                                         *)
(* Hashing is free: a digest is the term that was hashed, so only equal    *)
(* inputs have equal digests.                                              *)
(***************************************************************************)
EXTENDS Integers, Sequences

\* Mutant of leaf: an interior node can pass for a leaf.
leaf_bare(ds, h) == h

\* The octet in front keeps leaves and nodes apart.  Public manifests put a
\* tag of their own before it; ds is "public" for them and "plain" elsewhere.
leaf(ds, h) == <<ds, "leaf", h>>

node(ds, l, r) == <<ds, "node", l, r>>

\* The largest power of two below n, for n of 2 at least.
doubled(k, n) == IF 2 * k < n THEN 2 * k ELSE k

split_point(n) ==
  LET k[i \in 0 .. n] == IF i = 0 THEN 1 ELSE doubled(k[i - 1], n)
  IN  k[n]

\* The heads of all stretches of the leaves: heads(ds, leaves)[n][lo] is that
\* of the n leaves after the first lo.
heads(ds, leaves) ==
  LET of[n \in 1 .. Len(leaves)] ==
        [lo \in 0 .. Len(leaves) - n |->
           IF n = 1 THEN leaves[lo + 1]
           ELSE LET k == split_point(n)
                IN  node(ds, of[k][lo], of[n - k][lo + k])]
  IN  of

mth(ds, leaves) == heads(ds, leaves)[Len(leaves)][0]
=============================================================================
