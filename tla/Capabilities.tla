----------------------------- MODULE Capabilities -----------------------------
(***************************************************************************)
(* Delegated capabilities: crates/kotva-core/src/capability.rs.            *)
(*                                                                         *)
(* Anyone signs tokens, for anyone and over anything; a verifier is given  *)
(* a token and a list of claimed ancestors.  A token's content address is  *)
(* its place in `tokens`, a scope is its sequence of segments, and caveats *)
(* are a set of key-value pairs (NoCaveats when the field is absent).           *)
(***************************************************************************)
EXTENDS Integers, Sequences, SequencesExt

CONSTANTS Principals,
          Root,         \* the issuer the verifier trusts
          Terms,        \* what tokens may say: a capability, nbf and exp
          MaxTokens     \* bound on the tokens signed

ASSUME RootAssumption == Root \in Principals

ASSUME TermsAssumption ==
  \A term \in Terms :
    /\ term.nbf \in Nat /\ term.exp \in Nat
    /\ term.grant.resource \in Seq(STRING) /\ term.grant.ability \in Seq(STRING)

VARIABLE tokens

capVars == <<tokens>>

NoCaveats == {"absent"}

\* Equal, or below it.
scope_covers(parent, child) == IsPrefix(parent, child)

\* Caveats are only added.
caveats_tightened(parent, child) ==
  \/ parent = NoCaveats
  \/ IF child = NoCaveats THEN parent = {} ELSE parent \subseteq child

capability_covers(parent, child) ==
  /\ scope_covers(parent.resource, child.resource)
  /\ scope_covers(parent.ability, child.ability)
  /\ caveats_tightened(parent.caveats, child.caveats)

\* Mutant of link: whoever holds any token may delegate.
link_any(child, parent, parentId) ==
  /\ child.prnt = parentId
  /\ child.nbf >= parent.nbf /\ child.exp <= parent.exp
  /\ \A c \in child.caps : \E p \in parent.caps : capability_covers(p, c)

\* One link of a chain: the child names the parent, was issued by its audience,
\* is not valid for longer and grants nothing more.
link(child, parent, parentId) ==
  /\ child.prnt = parentId
  /\ child.iss = parent.aud
  /\ child.nbf >= parent.nbf /\ child.exp <= parent.exp
  /\ \A c \in child.caps : \E p \in parent.caps : capability_covers(p, c)

\* t and chain are content addresses, the nearest parent first.  Signatures are
\* good: nothing else is in `tokens`.
verify_chain(t, chain) ==
  LET path == <<t>> \o chain IN
  /\ \A i \in 1 .. Len(chain) : link(tokens[path[i]], tokens[path[i + 1]], path[i + 1])
  /\ tokens[Last(path)].prnt = 0

verify_chain_rooted(t, chain, trusted_root) ==
  /\ verify_chain(t, chain)
  /\ tokens[Last(<<t>> \o chain)].iss = trusted_root

\* The window and the revocations, of this token alone.
verify_at(t, when, revocations) ==
  /\ tokens[t].nbf <= when /\ when < tokens[t].exp
  /\ t \notin revocations

\* CapabilityRevocation::verify_authorized, given a token and its ancestors.
verify_authorized(iss, t, chain) == iss \in {tokens[i].iss : i \in Range(<<t>> \o chain)}

-----------------------------------------------------------------------------

capInit == tokens = <<>>

\* CapabilityToken::issue: the parent is any token, or none.
issue(iss, aud, term, prnt) ==
  /\ Len(tokens) < MaxTokens
  /\ tokens' = Append(tokens, [iss |-> iss, aud |-> aud, caps |-> {term.grant}, nbf |-> term.nbf, exp |-> term.exp,
                               prnt |-> prnt])

capNext ==
  \E iss \in Principals, aud \in Principals \ {Root}, term \in Terms, prnt \in 0 .. Len(tokens) :
    issue(iss, aud, term, prnt)

capSpec == capInit /\ [][capNext]_capVars

-----------------------------------------------------------------------------
(* Properties.                                                             *)

Chains == UNION {[1 .. n -> DOMAIN tokens] : n \in 0 .. MaxTokens - 1}

\* Delegation never widens: whatever chain is offered, an accepted token grants
\* what a token signed by the trusted root grants or less and is valid at no
\* time the root's is not, and whoever may revoke it is the root or someone the
\* root's grant reached through the audiences along the chain
\* (verify_chain_rooted, verify_at, verify_authorized).
NoAmplification ==
  \A t \in DOMAIN tokens, chain \in Chains :
    verify_chain_rooted(t, chain, Root) =>
      LET top == tokens[Last(<<t>> \o chain)]
          me  == tokens[t]
      IN  /\ \A when \in UNION {term.nbf .. term.exp : term \in Terms} :
               verify_at(t, when, {}) => top.nbf <= when /\ when < top.exp
          /\ \A c \in me.caps : \E p \in top.caps :
               /\ IsPrefix(p.resource, c.resource) /\ IsPrefix(p.ability, c.ability)
               /\ p.caveats \in {NoCaveats, {}} \/ (c.caveats # NoCaveats /\ p.caveats \subseteq c.caveats)
          /\ \A who \in Principals : verify_authorized(who, t, chain) =>
               who = Root \/ \E i \in DOMAIN chain : tokens[chain[i]].aud = who
=============================================================================
