-------------------------------- MODULE Files --------------------------------
(***************************************************************************)
(* The files that travel with motes, mote.rs: what tier an attachment may   *)
(* use, the spool that bounds what one sender pushes, and the contract of a *)
(* file that is only referred to; and the public objects a holder stores,   *)
(* pubobj.rs.                                                              *)
(*                                                                         *)
(* Sizes are numbers below 2^64, here at most U64_MAX.  An absent optional  *)
(* field is {}, a present one a set of its one value.                       *)
(***************************************************************************)
EXTENDS Sums

CONSTANTS Senders,
          Attachments,          \* what senders attach
          U64_MAX,
          INLINE_TIER_MAX, ATTACHED_TIER_MAX,
          cap,                  \* what one sender may fill
          Objects, declined, max_object_size, per_publisher_quota,
          MaxPushes, MaxClock   \* bounds

ASSUME FilesAssumption ==
  /\ U64_MAX \in Nat /\ cap \in Nat
  /\ \A a \in Attachments : a.size \in Nat
  /\ \A object \in Objects : object.size \in Nat
  /\ per_publisher_quota \subseteq Nat

VARIABLES
  spool,      \* per sender: InboundSpool.used
  pushed,     \* per sender: the sizes of the files taken
  referred,   \* the references accepted
  fetched,    \* the references fetched
  stored,     \* per sender: the public objects of theirs a holder stores
  day

filesVars == <<spool, pushed, referred, fetched, stored, day>>

-----------------------------------------------------------------------------
(* The tier of an attachment.                                              *)

classify(size) ==
  CASE size <= INLINE_TIER_MAX                                -> "Inline"
    [] size > INLINE_TIER_MAX /\ size <= ATTACHED_TIER_MAX -> "Attached"
    [] size > ATTACHED_TIER_MAX                               -> "Referenced"

\* Durability::validate.
valid_contract(d) ==
  \/ d.class \in {"OriginHold", "RecipientPinned"}
  \/ d.class = "ClusterReplicated" /\ \E n \in d.replicas : n >= 1
  \/ d.class = "Pinned" /\ d.retention # {}

\* The tier is that of the reference's own size.
validate_durability(ref) ==
  /\ ref.durability = {} => classify(ref.size) # "Referenced"
  /\ \A d \in ref.durability : valid_contract(d)

\* Exactly one of the bytes and a reference; the tier is that of the size the
\* attachment declares.
check_delivery_tier(a) ==
  \/ /\ a.manifest = {} /\ classify(a.size) = "Inline"
     /\ a.inline = {a.size}
  \/ /\ a.inline = {} /\ classify(a.size) # "Inline"
     /\ \E ref \in a.manifest : validate_durability(ref)

\* A fetch at the term itself is too late.
check_retention(d, when) == d.class = "Pinned" => \A term \in d.retention : when < term

-----------------------------------------------------------------------------
(* Limits.                                                                 *)

\* Mutant of spool_admit: the total wraps around.
spool_admit_wrapping(used, incoming) ==
  IF (used + incoming) % (U64_MAX + 1) <= cap THEN {(used + incoming) % (U64_MAX + 1)} ELSE {}

\* The total after an admitted push; a total that overflows is refused.
spool_admit(used, incoming) ==
  IF used + incoming <= U64_MAX /\ used + incoming <= cap THEN {used + incoming} ELSE {}

saturating_add(m, n) == IF m + n > U64_MAX THEN U64_MAX ELSE m + n

\* ServePolicy::admit; an absent limit is {}.
serve_admit(object, already_stored) ==
  /\ object.id \notin declined
  /\ \A max \in max_object_size : object.size <= max
  /\ \A quota \in per_publisher_quota : saturating_add(already_stored, object.size) <= quota

-----------------------------------------------------------------------------
(* A recipient takes what a sender attaches if its tier allows it; what is   *)
(* pushed with the mote is charged to the sender's spool.                    *)

filesInit ==
  /\ spool = [s \in Senders |-> 0]
  /\ pushed = [s \in Senders |-> <<>>]
  /\ referred = {} /\ fetched = {}
  /\ stored = [s \in Senders |-> <<>>]
  /\ day = 0

\* InboundSpool::admit: a refused push records nothing.
push(s, a) ==
  /\ check_delivery_tier(a) /\ classify(a.size) # "Referenced"
  /\ Len(pushed[s]) < MaxPushes
  /\ \E used \in spool_admit(spool[s], a.size) : spool' = [spool EXCEPT ![s] = used]
  /\ pushed' = [pushed EXCEPT ![s] = Append(@, a.size)]
  /\ UNCHANGED <<referred, fetched, stored, day>>

refer(a) ==
  /\ check_delivery_tier(a) /\ classify(a.size) = "Referenced"
  /\ referred' = referred \cup a.manifest
  /\ UNCHANGED <<spool, pushed, fetched, stored, day>>

\* Some holder is reachable (check_file_available) and the term is not over.
fetch(ref) ==
  /\ \A d \in ref.durability : check_retention(d, day)
  /\ fetched' = fetched \cup {ref}
  /\ UNCHANGED <<spool, pushed, referred, stored, day>>

\* A holder stores a publisher's object.
store(s, object) ==
  /\ Len(stored[s]) < MaxPushes
  /\ serve_admit(object, Tally(stored[s]))
  /\ stored' = [stored EXCEPT ![s] = Append(@, object.size)]
  /\ UNCHANGED <<spool, pushed, referred, fetched, day>>

age ==
  /\ day < MaxClock
  /\ day' = day + 1
  /\ UNCHANGED <<spool, pushed, referred, fetched, stored>>

filesNext ==
  \/ \E s \in Senders, a \in Attachments : push(s, a)
  \/ \E a \in Attachments : refer(a)
  \/ \E ref \in referred : fetch(ref)
  \/ \E s \in Senders, object \in Objects : store(s, object)
  \/ age

filesSpec == filesInit /\ [][filesNext]_filesVars

-----------------------------------------------------------------------------
(* Properties.                                                             *)

\* InboundSpool and ServePolicy bound what they are meant to bound: the spool
\* records exactly the bytes taken from its sender, and neither these nor the
\* bytes stored for a publisher pass their limit, whatever sizes near 2^64
\* senders declare.  (A quota of the largest number is no limit.)
StorageBounded ==
  \A s \in Senders :
    /\ spool[s] = Tally(pushed[s])
    /\ Tally(pushed[s]) <= cap
    /\ \A quota \in per_publisher_quota : quota < U64_MAX => Tally(stored[s]) <= quota
=============================================================================
