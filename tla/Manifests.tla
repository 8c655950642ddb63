------------------------------ MODULE Manifests ------------------------------
(***************************************************************************)
(* Manifests: a list of chunks named by the root of a tree over it, of a     *)
(* sealed file (mote.rs) or of a public object (pubobj.rs).                  *)
(***************************************************************************)
EXTENDS MerkleTrees

CONSTANTS ChunkIds,             \* the content addresses a manifest may list
          MaxChunks             \* bound

VARIABLE listing                \* the chunks of a manifest, in order

-----------------------------------------------------------------------------
Leaves(ds, chunks) == [i \in DOMAIN chunks |-> leaf(ds, chunks[i])]

merkle_root(chunks) == mth("plain", Leaves("plain", chunks))

pub_manifest_root(chunks) == mth("public", Leaves("public", chunks))

-----------------------------------------------------------------------------
manifestsInit == listing = <<>>

chunk(h) ==
  /\ Len(listing) < MaxChunks
  /\ listing' = Append(listing, h)

manifestsNext == \E h \in ChunkIds : chunk(h)

manifestsSpec == manifestsInit /\ [][manifestsNext]_listing

-----------------------------------------------------------------------------
(* Properties.                                                             *)

Listings == UNION {[1 .. n -> ChunkIds] : n \in 1 .. MaxChunks}

\* The root names the list: no other list of chunks has it, be a chunk's own
\* digest one of an interior node, and no list has the same root as a public
\* and as a sealed manifest.
RootNamesList ==
  listing # <<>> =>
    \A other \in Listings :
      /\ merkle_root(other) = merkle_root(listing) => other = listing
      /\ pub_manifest_root(other) = pub_manifest_root(listing) => other = listing
      /\ pub_manifest_root(other) # merkle_root(listing)
=============================================================================
