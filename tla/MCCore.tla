------------------------------- MODULE MCCore -------------------------------
(* The objects and trackers of kotva-core for TLC: a behaviour is of one part *)
(* of it, the others stay as they begin.                                      *)
EXTENDS Wire, Cbor, KeyTransparency, Trackers, Capabilities, Subscriptions, Motes, Files, Manifests, Calls

VARIABLE part

\* Wire: every record, and texts that readers tell apart.
AllRecords == DOMAIN Readers
AllTokens  == {"", "s", "t", "x/y", "send", "public", "sovereign", "device"}

\* Cbor: every major type; numbers in each form and on both sides of where it is
\* the shortest; every form of major type 7; indefinite and reserved heads; lengths
\* that an octet of the head cannot hold, or no input; text that is not UTF-8.
Zeros(n) == [i \in 1 .. n |-> 0]
Ones(n)  == [i \in 1 .. n |-> 255]

MCPieces ==
  {<<o>> : o \in {0, 32, 95, 96, 129, 161, 162, 192, 244, 245, 246, 247, 255}}
  \cup {<<24, 23>>, <<24, 24>>, <<25, 0, 255>>, <<25, 1, 0>>, <<26, 0, 0>> \o Ones(2), <<26, 0, 1, 0, 0>>,
        <<27>> \o Zeros(4) \o Ones(4), <<27>> \o Zeros(3) \o <<1>> \o Zeros(4), <<27>> \o Ones(8)}
  \cup {<<88, 23>> \o Zeros(23), <<88, 24>> \o Zeros(24), <<89, 1, 0>> \o Zeros(256),
        <<91>> \o Ones(8), <<155>> \o Ones(8), <<187>> \o Ones(8)}
  \cup {<<56, 24>>, <<216, 24>>, <<248, 32>>, <<249>> \o Zeros(2), <<250>> \o Zeros(4), <<251>> \o Zeros(8)}
  \cup {<<65, 97>>, <<97, 97>>, <<97, 200>> \o Zeros(8), <<92>> \o Zeros(8), <<252>> \o Zeros(8)}

\* Capabilities: a grant, a shorter one, a narrower one and one with a caveat.
Term(resource, caveats, nbf, exp) ==
  [grant |-> [resource |-> resource, ability |-> <<"read">>, caveats |-> caveats], nbf |-> nbf, exp |-> exp]

MCTerms == {Term(<<"mail">>, NoCaveats, 0, 3), Term(<<"mail">>, NoCaveats, 1, 2),
            Term(<<"mail", "inbox">>, NoCaveats, 0, 3), Term(<<"mail">>, {"k"}, 0, 3)}

\* Files: an attachment of every tier, with and without a sound contract.
Contract(class, retention, replicas) == [class |-> class, retention |-> retention, replicas |-> replicas]

Contracts == {{}} \cup {{c} : c \in {Contract("OriginHold", {}, {}), Contract("Pinned", {1}, {}), Contract("Pinned", {}, {}),
                                   Contract("ClusterReplicated", {}, {0}), Contract("Unknown", {}, {})}}

MCAttachments ==
  {[size |-> n, inline |-> {k}, manifest |-> {}] : n \in {1, 2, 3}, k \in {1, 2}}
  \cup {[size |-> n, inline |-> {}, manifest |-> {[size |-> n, durability |-> d]}] : n \in {1, 3, 5, 7}, d \in Contracts}

MCObjects == {[id |-> i, size |-> n] : i \in {"o", "p"}, n \in {1, 3, 6}}

\* Manifests: chunk digests that are also those of interior nodes.
Block(n) == <<"block", n>>

MCChunkIds ==
  {Block(1), Block(2), node("plain", Block(1), Block(2))}
  \cup {node(ds, leaf(ds, Block(1)), leaf(ds, Block(2))) : ds \in {"plain", "public"}}

\* Calls: floors in the order of the code's, two slots a core.
MCFloor == [k \in {"audio", "video", "slides"} |-> CASE k = "audio" -> 1 [] k = "video" -> 2 [] OTHER -> 4]

MCCapacity == [max_tracks |-> 3, max_aggregate_bps |-> 9, max_tracks_per_participant |-> 2, max_bps_per_track |-> 11]

MCResources == {[cores |-> c, uplink |-> u, downlink |-> d] : c \in {0, 3}, u \in {4, 9}, d \in {3, 16}}

-----------------------------------------------------------------------------
Parts == {"wire", "cbor", "log", "trackers", "capabilities", "subscriptions", "motes", "files", "manifests", "calls"}

\* One record, for the behaviours of the other parts.
OneRecord ==
  /\ name = "IceCandidate"
  /\ orig = CHOOSE r \in Structs("IceCandidate") : TRUE
  /\ wire = det_cbor(name, orig)
  /\ edited = TRUE

coreVars == <<part, wireVars, octets, ktVars, trVars, capVars, subVars, moVars, filesVars, listing, callsVars>>

coreInit ==
  /\ part \in Parts
  /\ IF part = "wire" THEN wireInit ELSE OneRecord
  /\ cborInit /\ ktInit /\ trInit /\ capInit /\ subInit /\ moInit /\ filesInit /\ manifestsInit /\ callsInit
  /\ part # "trackers" => tracker = "suite"

coreNext ==
  \/ /\ part = "wire" /\ wireNext
     /\ UNCHANGED <<part, octets, ktVars, trVars, capVars, subVars, moVars, filesVars, listing, callsVars>>
  \/ /\ part = "cbor" /\ cborNext
     /\ UNCHANGED <<part, wireVars, ktVars, trVars, capVars, subVars, moVars, filesVars, listing, callsVars>>
  \/ /\ part = "log" /\ ktNext
     /\ UNCHANGED <<part, wireVars, octets, trVars, capVars, subVars, moVars, filesVars, listing, callsVars>>
  \/ /\ part = "trackers" /\ trNext
     /\ UNCHANGED <<part, wireVars, octets, ktVars, capVars, subVars, moVars, filesVars, listing, callsVars>>
  \/ /\ part = "capabilities" /\ capNext
     /\ UNCHANGED <<part, wireVars, octets, ktVars, trVars, subVars, moVars, filesVars, listing, callsVars>>
  \/ /\ part = "subscriptions" /\ subNext
     /\ UNCHANGED <<part, wireVars, octets, ktVars, trVars, capVars, moVars, filesVars, listing, callsVars>>
  \/ /\ part = "motes" /\ moNext
     /\ UNCHANGED <<part, wireVars, octets, ktVars, trVars, capVars, subVars, filesVars, listing, callsVars>>
  \/ /\ part = "files" /\ filesNext
     /\ UNCHANGED <<part, wireVars, octets, ktVars, trVars, capVars, subVars, moVars, listing, callsVars>>
  \/ /\ part = "manifests" /\ manifestsNext
     /\ UNCHANGED <<part, wireVars, octets, ktVars, trVars, capVars, subVars, moVars, filesVars, callsVars>>
  \/ /\ part = "calls" /\ callsNext
     /\ UNCHANGED <<part, wireVars, octets, ktVars, trVars, capVars, subVars, moVars, filesVars, listing>>

coreSpec == coreInit /\ [][coreNext]_coreVars
=============================================================================
