------------------------------ MODULE CoreProofs ------------------------------
(***************************************************************************)
(* What holds of the parts of kotva-core that keep state, for every number *)
(* of issuers, users, tokens, messages and tracks and for behaviours of any *)
(* length.                                                                 *)
(***************************************************************************)
EXTENDS Trackers, Subscriptions, Capabilities, Motes, Calls, Files, NaturalLemmas, FiniteSetTheorems, SequenceTheorems, TLAPS

-----------------------------------------------------------------------------
(* Trackers.                                                               *)

\* What has been accepted is remembered: by a reserved nonce, or by a mark not
\* below it.  The journal of a LocationTracker holds every accepted record, and
\* the mark of an issuer is the highest of its entries.
TrInv ==
  /\ tracker \in Kinds
  /\ issued \in [Issuers -> Seq(Int)]
  /\ now \in Int
  /\ seen \in [Issuers -> Nat \cup {NoMark}]
  /\ journal \subseteq Issuers \X Nat
  /\ nonces \subseteq Issuers \X Nat
  /\ accepted \in Seq(Issuers \X Nat)
  /\ NoRollback
  /\ NotLockedOut
  /\ \A a \in DOMAIN accepted :
       IF tracker = "wake" THEN accepted[a] \in nonces
       ELSE /\ seen[accepted[a][1]] # NoMark
            /\ accepted[a][2] <= seen[accepted[a][1]]
  /\ tracker = "location" =>
       \A i \in Issuers :
         /\ \A m \in journal : m[1] = i => m[2] <= seen[i]
         /\ seen[i] # NoMark => <<i, seen[i]>> \in journal

\* A new node has accepted nothing.
LEMMA TrInit == trInit => TrInv
<1> SUFFICES ASSUME trInit PROVE TrInv
  OBVIOUS
<1>1. /\ tracker \in Kinds
      /\ issued = [i \in Issuers |-> <<>>]
      /\ seen = [i \in Issuers |-> NoMark]
      /\ journal = {} /\ nonces = {} /\ accepted = <<>> /\ now = 0
  BY DEF trInit
<1>2. <<>> \in Seq(Int) /\ <<>> \in Seq(Issuers \X Nat) /\ DOMAIN accepted = {} /\ Len(<<>>) = 0
  BY <1>1, EmptySeq
<1>3. \A i \in Issuers : seen[i] <= Len(issued[i])
  BY <1>1, <1>2 DEF NoMark
<1>4. QED
  BY <1>1, <1>2, <1>3 DEF TrInv, NoRollback, NotLockedOut

\* A record signed later raises no mark.
LEMMA PublishInv ==
  ASSUME TrInv, NEW i \in Issuers, publish(i)
  PROVE  TrInv'
<1>1. /\ issued' = [issued EXCEPT ![i] = Append(@, now)]
      /\ tracker' = tracker /\ seen' = seen /\ journal' = journal
      /\ nonces' = nonces /\ accepted' = accepted /\ now' = now
  BY DEF publish
<1>2. \A j \in Issuers : issued[j] \in Seq(Int) /\ Len(issued[j]) \in Nat
  BY LenProperties DEF TrInv
<1>3. Append(issued[i], now) \in Seq(Int) /\ Len(Append(issued[i], now)) = Len(issued[i]) + 1
  BY <1>2, AppendProperties DEF TrInv
<1>4. issued' \in [Issuers -> Seq(Int)]
  BY <1>1, <1>3 DEF TrInv
<1>5. \A j \in Issuers : Len(issued[j]) <= Len(issued'[j]) /\ Len(issued'[j]) \in Nat
  BY <1>1, <1>2, <1>3 DEF TrInv
<1>6. NotLockedOut'
  <2>1. \A j \in Issuers : seen[j] \in Int /\ seen[j] <= Len(issued[j])
    BY DEF TrInv, NotLockedOut, NoMark
  <2>2. \A j \in Issuers : seen'[j] <= Len(issued'[j])
    BY <1>1, <1>2, <1>5, <2>1
  <2>3. \A n \in nonces : n[1] \in Issuers /\ n[2] \in Nat /\ n[2] <= Len(issued[n[1]])
    BY DEF TrInv, NotLockedOut
  <2>4. \A n \in nonces' : n[2] <= Len(issued'[n[1]])
    BY <1>1, <1>2, <1>5, <2>3
  <2>5. QED
    BY <2>2, <2>4 DEF NotLockedOut
<1>7. NoRollback'
  BY <1>1 DEF TrInv, NoRollback
<1>8. QED
  BY <1>1, <1>4, <1>6, <1>7 DEF TrInv

\* An accepted record is genuine, and newer than the mark.
LEMMA AdmitsGenuine ==
  ASSUME TrInv, NEW r \in Record, Offered(r), admits(r)
  PROVE  /\ r.ik \in Issuers /\ r.seq \in Nat
         /\ r.seq <= Len(issued[r.ik])
         /\ tracker = "wake" => <<r.ik, r.seq>> \notin nonces
         /\ tracker \notin {"wake", "suite"} => seen[r.ik] = NoMark \/ r.seq > seen[r.ik]
         /\ tracker = "suite" => r.seq >= seen[r.ik]
<1>1. r.ik \in Issuers /\ r.seq \in Nat
  BY TrackersAssumption DEF Record
<1>2. seen[r.ik] \in Int
  BY <1>1 DEF TrInv, NoMark
<1>3. tracker \in Kinds
  BY DEF TrInv
<1>4. r.good
  BY <1>3 DEF Kinds, admits, location_admit, validate, mix_accept, caps_accept, ratchet_accept,
           profile_accept, open_dedup
<1>5. r.seq <= Len(issued[r.ik])
  BY <1>4 DEF Offered, Genuine
<1>6. tracker = "wake" => <<r.ik, r.seq>> \notin nonces
  BY DEF admits, open_dedup
<1>7. tracker \notin {"wake", "suite"} => newer(r)
  BY <1>3 DEF Kinds, admits, location_admit, mix_accept, caps_accept, profile_accept
<1>8. tracker = "suite" => r.seq >= seen[r.ik]
  BY <1>1, <1>2 DEF admits, ratchet_accept
<1>9. QED
  BY <1>1, <1>5, <1>6, <1>7, <1>8 DEF newer

\* Accepting a record moves its issuer forward.
LEMMA DeliverInv ==
  ASSUME TrInv, NEW r \in Record, deliver(r)
  PROVE  TrInv'
<1> DEFINE rec == <<r.ik, r.seq>>
           n   == Len(accepted)
<1>1. /\ Offered(r) /\ admits(r)
      /\ tracker' = tracker /\ issued' = issued /\ now' = now
      /\ accepted' = Append(accepted, rec)
      /\ journal' = IF tracker = "location" THEN journal \cup {rec} ELSE journal
      /\ tracker = "wake" => nonces' = nonces \cup {rec} /\ seen' = seen
      /\ tracker # "wake" => nonces' = nonces /\ seen' = [seen EXCEPT ![r.ik] = r.seq]
  BY DEF deliver
<1>2. /\ r.ik \in Issuers /\ r.seq \in Nat
      /\ r.seq <= Len(issued[r.ik])
      /\ tracker = "wake" => rec \notin nonces
      /\ tracker \notin {"wake", "suite"} => seen[r.ik] = NoMark \/ r.seq > seen[r.ik]
      /\ tracker = "suite" => r.seq >= seen[r.ik]
  BY <1>1, AdmitsGenuine
<1>3. /\ rec \in Issuers \X Nat
      /\ rec[1] = r.ik /\ rec[2] = r.seq
  BY <1>2
<1>4. /\ accepted \in Seq(Issuers \X Nat)
      /\ n \in Nat /\ DOMAIN accepted = 1 .. n
      /\ \A a \in 1 .. n : /\ accepted[a] \in Issuers \X Nat
                           /\ accepted[a][1] \in Issuers
                           /\ accepted[a][2] \in Nat
  BY LenProperties, ElementOfSeq DEF TrInv
<1> HIDE DEF rec, n
<1>5. /\ accepted' \in Seq(Issuers \X Nat)
      /\ DOMAIN accepted' = 1 .. n + 1
      /\ \A a \in 1 .. n : accepted'[a] = accepted[a]
      /\ accepted'[n + 1] = rec
  BY <1>1, <1>3, <1>4, AppendProperties, LenProperties DEF n
<1>6. /\ seen' \in [Issuers -> Nat \cup {NoMark}]
      /\ journal' \subseteq Issuers \X Nat
      /\ nonces' \subseteq Issuers \X Nat
  BY <1>1, <1>2, <1>3 DEF TrInv
<1>7. \A i \in Issuers : seen[i] \in Int /\ seen'[i] \in Int /\ seen[i] >= NoMark
  BY <1>6 DEF TrInv, NoMark
<1>8. \A i \in Issuers : seen[i] <= seen'[i]
  <2>1. tracker # "wake" => seen[r.ik] <= r.seq
    BY <1>2, <1>7 DEF NoMark
  <2>2. ASSUME NEW i \in Issuers PROVE seen[i] <= seen'[i]
    <3>1. CASE tracker = "wake"
      BY <1>1, <1>7, <3>1
    <3>2. CASE tracker # "wake" /\ i = r.ik
      <4>1. seen' = [seen EXCEPT ![r.ik] = r.seq] /\ DOMAIN seen = Issuers
        BY <1>1, <3>2 DEF TrInv
      <4>2. seen'[r.ik] = r.seq
        BY <1>2, <4>1
      <4>3. QED
        BY <2>1, <3>2, <4>2
    <3>3. CASE tracker # "wake" /\ i # r.ik
      <4>1. seen'[i] = seen[i]
        BY <1>1, <3>3 DEF TrInv
      <4>2. QED
        BY <1>7, <4>1
    <3>4. QED
      BY <3>1, <3>2, <3>3
  <2>3. QED
    BY <2>2
<1>9. tracker # "wake" => seen'[r.ik] = r.seq /\ r.seq # NoMark
  BY <1>1, <1>2 DEF TrInv, NoMark
<1>10. ASSUME NEW a \in 1 .. n
       PROVE  IF tracker = "wake" THEN accepted[a] \in nonces
              ELSE /\ seen[accepted[a][1]] # NoMark
                   /\ accepted[a][2] <= seen[accepted[a][1]]
  BY <1>4 DEF TrInv
<1>11. ASSUME NEW a \in DOMAIN accepted'
       PROVE  IF tracker' = "wake" THEN accepted'[a] \in nonces'
              ELSE /\ seen'[accepted'[a][1]] # NoMark
                   /\ accepted'[a][2] <= seen'[accepted'[a][1]]
  <2>1. CASE a \in 1 .. n
    <3>1. accepted'[a] = accepted[a] /\ accepted[a][1] \in Issuers /\ accepted[a][2] \in Nat
      BY <1>4, <1>5, <2>1
    <3>2. CASE tracker = "wake"
      BY <1>1, <1>10, <2>1, <3>1, <3>2
    <3>3. CASE tracker # "wake"
      <4> DEFINE i == accepted[a][1]
      <4>1. seen[i] # NoMark /\ accepted[a][2] <= seen[i]
        BY <1>10, <2>1, <3>3
      <4>2. seen[i] >= 0 /\ seen'[i] >= seen[i] /\ seen'[i] \in Int /\ seen[i] \in Int
        BY <1>7, <1>8, <3>1, <4>1 DEF NoMark
      <4> HIDE DEF i
      <4>3. seen'[i] # NoMark /\ accepted[a][2] <= seen'[i]
        BY <3>1, <4>1, <4>2 DEF NoMark
      <4>4. QED
        BY <1>1, <3>1, <3>3, <4>3 DEF i
    <3>4. QED
      BY <3>2, <3>3
  <2>2. CASE a = n + 1
    BY <1>1, <1>2, <1>3, <1>5, <1>9, <2>2
  <2>3. QED
    BY <1>4, <1>5, <2>1, <2>2
<1>12. NoRollback'
  <2> SUFFICES ASSUME NEW a \in DOMAIN accepted', NEW b \in DOMAIN accepted',
                      a < b, accepted'[a][1] = accepted'[b][1]
               PROVE  CASE tracker' = "suite" -> accepted'[a][2] <= accepted'[b][2]
                        [] tracker' = "wake"  -> accepted'[a][2] # accepted'[b][2]
                        [] OTHER              -> accepted'[a][2] < accepted'[b][2]
    BY DEF NoRollback
  <2>1. a \in 1 .. n /\ (b \in 1 .. n \/ b = n + 1)
    BY <1>4, <1>5
  <2>2. CASE b \in 1 .. n
    BY <1>1, <1>4, <1>5, <2>1, <2>2 DEF TrInv, NoRollback
  <2>3. CASE b = n + 1
    <3>1. /\ accepted'[a] = accepted[a]
          /\ accepted[a] = <<accepted[a][1], accepted[a][2]>>
          /\ accepted[a][1] = r.ik
          /\ accepted[a][2] \in Nat
          /\ accepted'[b][2] = r.seq
      BY <1>3, <1>4, <1>5, <2>1, <2>3
    <3>2. CASE tracker = "wake"
      <4>1. accepted[a] \in nonces /\ rec \notin nonces
        BY <1>2, <1>10, <2>1, <3>2
      <4>2. QED
        BY <1>1, <3>1, <3>2, <4>1 DEF rec
    <3>3. CASE tracker # "wake"
      <4>1. seen[r.ik] # NoMark /\ accepted[a][2] <= seen[r.ik]
        BY <1>10, <2>1, <3>1, <3>3
      <4>2. tracker = "suite" => accepted[a][2] <= r.seq
        BY <1>2, <1>7, <3>1, <4>1
      <4>3. tracker # "suite" => accepted[a][2] < r.seq
        BY <1>2, <1>7, <3>1, <3>3, <4>1
      <4>4. QED
        BY <1>1, <3>1, <3>3, <4>2, <4>3
    <3>4. QED
      BY <3>2, <3>3
  <2>4. QED
    BY <2>1, <2>2, <2>3
<1>13. NotLockedOut'
  <2>1. \A i \in Issuers : seen'[i] <= Len(issued'[i])
    BY <1>1, <1>2 DEF TrInv, NotLockedOut
  <2>2. \A x \in nonces' : x[2] <= Len(issued'[x[1]])
    BY <1>1, <1>2, <1>3 DEF TrInv, NotLockedOut
  <2>3. QED
    BY <2>1, <2>2 DEF NotLockedOut
<1>14. ASSUME tracker' = "location", NEW i \in Issuers
       PROVE  /\ \A m \in journal' : m[1] = i => m[2] <= seen'[i]
              /\ seen'[i] # NoMark => <<i, seen'[i]>> \in journal'
  <2>1. /\ journal' = journal \cup {rec}
        /\ seen' = [seen EXCEPT ![r.ik] = r.seq]
    BY <1>1, <1>14
  <2>2. /\ \A m \in journal : m[1] = i => m[2] <= seen[i] /\ m[2] \in Nat
        /\ seen[i] # NoMark => <<i, seen[i]>> \in journal
    BY <1>1, <1>14 DEF TrInv
  <2>3. \A m \in journal : m[1] = i => m[2] <= seen'[i]
    BY <1>7, <1>8, <2>2
  <2>4. r.ik = i => r.seq <= seen'[i]
    BY <1>1, <1>2, <1>9, <1>14
  <2>5. seen'[i] # NoMark => <<i, seen'[i]>> \in journal'
    <3>1. CASE i = r.ik
      BY <1>1, <1>9, <1>14, <2>1, <3>1 DEF rec
    <3>2. CASE i # r.ik
      BY <2>1, <2>2, <3>2 DEF TrInv
    <3>3. QED
      BY <3>1, <3>2
  <2>6. QED
    BY <1>3, <2>1, <2>3, <2>4, <2>5
<1>15. QED
  BY <1>1, <1>5, <1>6, <1>11, <1>12, <1>13, <1>14 DEF TrInv

\* A tracker rebuilt from its journal has the marks it had.
LEMMA RestartRestores ==
  ASSUME TrInv, restart
  PROVE  seen' = seen
<1>1. ASSUME NEW i \in Issuers
      PROVE  from_high_water_marks(journal)[i] = seen[i]
  <2> DEFINE of == {m[2] : m \in {x \in journal : x[1] = i}}
  <2>1. from_high_water_marks(journal)[i] =
          IF of = {} THEN NoMark ELSE CHOOSE s \in of : \A x \in of : x <= s
    BY DEF from_high_water_marks
  <2>2. /\ \A m \in journal : m[1] = i => m[2] <= seen[i]
        /\ seen[i] # NoMark => <<i, seen[i]>> \in journal
        /\ seen[i] \in Nat \cup {NoMark}
        /\ journal \subseteq Issuers \X Nat
    BY DEF TrInv, restart
  <2>3. \A x \in of : x \in Nat /\ x <= seen[i]
    BY <2>2
  <2>4. CASE seen[i] = NoMark
    <3>1. of = {}
      BY <2>3, <2>4 DEF NoMark
    <3>2. QED
      BY <2>1, <2>4, <3>1
  <2>5. CASE seen[i] # NoMark
    <3>1. seen[i] \in of /\ seen[i] \in Nat
      BY <2>2, <2>5
    <3> HIDE DEF of
    <3>2. \A s \in of : (\A x \in of : x <= s) => s = seen[i]
      BY <2>3, <3>1
    <3>3. (CHOOSE s \in of : \A x \in of : x <= s) = seen[i]
      BY <2>3, <3>1, <3>2
    <3>4. QED
      BY <2>1, <3>1, <3>3
  <2>6. QED
    BY <2>4, <2>5
<1>2. seen' = from_high_water_marks(journal)
  BY DEF restart
<1>3. from_high_water_marks(journal) = [i \in Issuers |-> from_high_water_marks(journal)[i]]
  BY DEF from_high_water_marks
<1>4. seen = [i \in Issuers |-> seen[i]]
  BY DEF TrInv
<1>5. QED
  BY <1>1, <1>2, <1>3, <1>4

\* Every step of a tracker preserves TrInv.
LEMMA TrNext == TrInv /\ [trNext]_trVars => TrInv'
<1> SUFFICES ASSUME TrInv, [trNext]_trVars PROVE TrInv'
  OBVIOUS
<1>1. ASSUME NEW i \in Issuers, publish(i) PROVE TrInv'
  BY <1>1, PublishInv
<1>2. ASSUME NEW r \in Record, deliver(r) PROVE TrInv'
  BY <1>2, DeliverInv
<1>3. CASE restart
  <2>1. seen' = seen
    BY <1>3, RestartRestores
  <2>2. QED
    BY <1>3, <2>1 DEF restart, TrInv, NoRollback, NotLockedOut
<1>4. CASE tick
  BY <1>4 DEF tick, TrInv, NoRollback, NotLockedOut
<1>5. CASE UNCHANGED trVars
  BY <1>5 DEF trVars, TrInv, NoRollback, NotLockedOut
<1>6. QED
  BY <1>1, <1>2, <1>3, <1>4, <1>5 DEF trNext

\* TrInv holds in every reachable state of a tracker.
THEOREM TrackerInvariance == trSpec => []TrInv
<1>1. QED
  BY TrInit, TrNext, PTL DEF trSpec

\* No tracker accepts an older record after a newer one, across restarts and
\* whatever the network repeats, reorders or forges.
THEOREM NoRollbackEver == trSpec => []NoRollback
<1>1. TrInv => NoRollback
  BY DEF TrInv
<1>2. QED
  BY <1>1, TrackerInvariance, PTL

\* No forged record raises a mark above what the issuer signed.
THEOREM NeverLockedOut == trSpec => []NotLockedOut
<1>1. TrInv => NotLockedOut
  BY DEF TrInv
<1>2. QED
  BY <1>1, TrackerInvariance, PTL
-----------------------------------------------------------------------------
(* Subscriptions.                                                          *)

\* The ids shown as revoked are never served, and those of the user's bodies
\* were revoked by the user, also for a body that has not been made yet.
SubInv ==
  /\ \A b \in made : b.subscriber = "u"
  /\ \A b \in gone : b.subscriber = "u" => b \in quit
  /\ \A id \in ledger : id[1] = id[2] /\ id[2] \notin gone
  /\ byUser \subseteq gone

\* Only the user's own keys make a revoke that verifies for the user's entry.
LEMMA UserRevokes ==
  ASSUME NEW rev, NEW id, NEW c, id[1].subscriber = "u", verify_for(rev, id, c)
  PROVE  rev.good /\ rev.signer \in UserKeys
<1>1. \A d : cert_verify(d) /\ d.ik = "u" => d.device_key = "d"
  BY DEF cert_verify
<1>2. QED
  BY <1>1 DEF verify_for, Authorised, UserKeys

\* Every step of holder and subscriber preserves SubInv.
LEMMA SubNext == SubInv /\ [subNext]_subVars => SubInv'
<1> SUFFICES ASSUME SubInv, [subNext]_subVars PROVE SubInv'
  OBVIOUS
<1>1. ASSUME NEW b \in Body, make(b) PROVE SubInv'
  BY <1>1 DEF make, SubInv
<1>2. ASSUME NEW b \in Body, withdraw(b) PROVE SubInv'
  BY <1>2 DEF withdraw, SubInv
<1>3. ASSUME NEW b \in Body, NEW sig \in {1, 2}, NEW c \in Certs \cup {NoCert}, subscribe(b, sig, c)
      PROVE  SubInv'
  <2> DEFINE id == <<b, b>>
  <2>1. /\ id[2] \notin gone /\ ledger' = ledger \cup {id}
        /\ made' = made /\ quit' = quit /\ gone' = gone /\ byUser' = byUser
    BY <1>3 DEF subscribe, subscription_id
  <2>2. QED
    BY <2>1 DEF SubInv
<1>4. ASSUME NEW id \in ledger, NEW named \in Body, NEW s \in {"u", "d", "e", "x"},
             NEW i \in Certs \cup {NoCert}, NEW c \in Certs \cup {NoCert},
             unsubscribe(id, named, s, i, c)
      PROVE  SubInv'
  <2> DEFINE b   == id[1]
             rev == [subscription |-> named, signer |-> s, device_cert |-> i,
                     good |-> s \notin UserKeys \/ named \in quit]
  <2>1. /\ verify_for(rev, id, c)
        /\ gone' = gone \cup {id[2]}
        /\ ledger' = {x \in ledger : x[2] # id[2]}
        /\ byUser' \subseteq byUser \cup {id[1]}
        /\ made' = made /\ quit' = quit
    BY <1>4 DEF unsubscribe, subscription_id
  <2>r. /\ rev.subscription = named /\ rev.signer = s
        /\ rev.good = (s \notin UserKeys \/ named \in quit)
    OBVIOUS
  <2> HIDE DEF rev
  <2>n. named = b /\ id[2] = b
    BY <2>1, <2>r DEF verify_for, SubInv
  <2>2. ASSUME b.subscriber = "u" PROVE b \in quit
    <3>1. rev.good /\ rev.signer \in UserKeys
      BY <2>1, <2>2, UserRevokes
    <3>2. QED
      BY <2>r, <2>n, <3>1
  <2> HIDE DEF b
  <2>3. QED
    BY <2>1, <2>2, <2>n DEF SubInv, b
<1>5. ASSUME NEW id \in ledger, NEW lag \in {0, 1}, hint(id, lag) PROVE SubInv'
  BY <1>5 DEF hint, SubInv
<1>6. CASE pass
  BY <1>6 DEF pass, SubInv
<1>7. CASE UNCHANGED subVars
  BY <1>7 DEF subVars, SubInv
<1>8. QED
  BY <1>1, <1>2, <1>3, <1>4, <1>5, <1>6, <1>7 DEF subNext

\* A subscription ends by its user's will, and then for good.
THEOREM SubscriberDecidesEver == subSpec => []SubscriberDecides
<1>1. subInit => SubInv
  BY DEF subInit, SubInv
<1>2. SubInv => SubscriberDecides
  BY DEF SubInv, SubscriberDecides, subscription_id
<1>3. QED
  BY <1>1, <1>2, SubNext, PTL DEF subSpec

-----------------------------------------------------------------------------
(* The hint budget.  The history does not say in which window a hint was   *)
(* taken; the number used so far tells it: the last u of n hints are the   *)
(* present window's, and whatever is M places before them is older than    *)
(* the window before it.                                                   *)

\* ws and u are the budget's window and count, tk the moments of the hints taken
\* and c the clock, which is at most one ahead of the subscriber's.
HintsSpaced(ws, u, tk, c) ==
  LET n == Len(tk)
      M == MaxPerWindow
  IN  /\ u \in 0 .. M /\ ws \in 0 .. c /\ c \in Nat
      /\ tk \in Seq(Nat)
      /\ \A k \in 1 .. n : tk[k] <= c
      /\ \A k, l \in 1 .. n : k <= l => tk[k] <= tk[l]
      /\ Window > 0 =>
           /\ \A k \in 1 .. n : tk[k] <= ws + Window
           /\ \A k \in 1 .. n : k <= n - u => tk[k] <= ws
           /\ \A k \in 1 .. n : k <= n - u - M => tk[k] + Window <= ws
           /\ \A k \in 1 .. n : k + 2 * M <= n => tk[k] + Window <= tk[k + 2 * M]

\* A window that has ended gives way to a new one.
LEMMA HintRoll ==
  ASSUME NEW ws, NEW u, NEW tk, NEW c, NEW t \in 0 .. c,
         HintsSpaced(ws, u, tk, c), t >= ws, t - ws >= Window
  PROVE  HintsSpaced(t, 0, tk, c)
<1> DEFINE n == Len(tk)
           M == MaxPerWindow
<1>1. n \in Nat /\ \A k \in 1 .. n : tk[k] \in Nat
  BY LenProperties, ElementOfSeq DEF HintsSpaced
<1>2. M \in Nat /\ Window \in Nat
  BY HintAssumption
<1>3. u \in 0 .. M /\ ws \in 0 .. c /\ c \in Nat
  BY DEF HintsSpaced
<1> HIDE DEF n, M
<1>4. ASSUME Window > 0, NEW k \in 1 .. n
      PROVE  /\ tk[k] <= t + Window
             /\ tk[k] <= t
             /\ k <= n - 0 - M => tk[k] + Window <= t
             /\ k + 2 * M <= n => tk[k] + Window <= tk[k + 2 * M]
  <2>1. /\ tk[k] <= ws + Window
        /\ k <= n - u => tk[k] <= ws
        /\ k + 2 * M <= n => tk[k] + Window <= tk[k + 2 * M]
    BY <1>4 DEF HintsSpaced, n, M
  <2>2. k <= n - 0 - M => k <= n - u
    BY <1>1, <1>2, <1>3
  <2>3. QED
    BY <1>1, <1>2, <1>3, <2>1, <2>2
<1>5. QED
  BY <1>2, <1>4 DEF HintsSpaced, n, M

\* One more hint is taken in the window.
LEMMA HintTake ==
  ASSUME NEW ws, NEW u, NEW tk, NEW c,
         HintsSpaced(ws, u, tk, c), u < MaxPerWindow, Window > 0 => c <= ws + Window
  PROVE  HintsSpaced(ws, u + 1, Append(tk, c), c)
<1> DEFINE n  == Len(tk)
           M  == MaxPerWindow
           tn == Append(tk, c)
<1>1. n \in Nat /\ \A k \in 1 .. n : tk[k] \in Nat
  BY LenProperties, ElementOfSeq DEF HintsSpaced
<1>2. M \in Nat /\ Window \in Nat
  BY HintAssumption
<1>3. u \in 0 .. M /\ ws \in 0 .. c /\ c \in Nat /\ u + 1 \in 0 .. M
  BY <1>2 DEF HintsSpaced
<1>4. /\ tn \in Seq(Nat) /\ Len(tn) = n + 1
      /\ \A k \in 1 .. n : tn[k] = tk[k]
      /\ tn[n + 1] = c
  BY <1>3, AppendProperties DEF HintsSpaced
<1> HIDE DEF n, M, tn
<1>5. \A k \in 1 .. n + 1 : k \in 1 .. n \/ k = n + 1
  BY <1>1
<1>6. \A k \in 1 .. n + 1 : tn[k] <= c /\ tn[k] \in Nat
  <2>1. \A k \in 1 .. n : tk[k] <= c
    BY DEF HintsSpaced, n
  <2>2. QED
    BY <1>1, <1>3, <1>4, <1>5, <2>1
<1>7. \A k, l \in 1 .. n + 1 : k <= l => tn[k] <= tn[l]
  <2>1. \A k, l \in 1 .. n : k <= l => tk[k] <= tk[l]
    BY DEF HintsSpaced, n
  <2>2. \A k, l \in 1 .. n + 1 : k <= l => (k \in 1 .. n /\ l \in 1 .. n) \/ l = n + 1
    BY <1>1
  <2>3. QED
    BY <1>4, <1>6, <2>1, <2>2
<1>8. ASSUME Window > 0, NEW k \in 1 .. n + 1
      PROVE  /\ tn[k] <= ws + Window
             /\ k <= (n + 1) - (u + 1) => tn[k] <= ws
             /\ k <= (n + 1) - (u + 1) - M => tn[k] + Window <= ws
             /\ k + 2 * M <= n + 1 => tn[k] + Window <= tn[k + 2 * M]
  <2>1. \A j \in 1 .. n : /\ tk[j] <= ws + Window
                          /\ j <= n - u => tk[j] <= ws
                          /\ j <= n - u - M => tk[j] + Window <= ws
                          /\ j + 2 * M <= n => tk[j] + Window <= tk[j + 2 * M]
    BY <1>8 DEF HintsSpaced, n, M
  <2>2. CASE k = n + 1
    BY <1>1, <1>2, <1>3, <1>4, <1>8, <2>2
  <2>3. CASE k \in 1 .. n
    <3>1. /\ tn[k] <= ws + Window
          /\ k <= (n + 1) - (u + 1) => tn[k] <= ws
          /\ k <= (n + 1) - (u + 1) - M => tn[k] + Window <= ws
      BY <1>1, <1>2, <1>3, <1>4, <2>1, <2>3
    <3>2. ASSUME k + 2 * M <= n PROVE tn[k] + Window <= tn[k + 2 * M]
      <4>1. k + 2 * M \in 1 .. n
        BY <1>1, <1>2, <2>3, <3>2
      <4>2. QED
        BY <1>4, <2>1, <2>3, <3>2, <4>1
    <3>3. ASSUME k + 2 * M = n + 1 PROVE tn[k] + Window <= tn[k + 2 * M]
      <4>1. k <= n - u - M
        BY <1>1, <1>2, <1>3, <2>3, <3>3
      <4>2. tk[k] + Window <= ws
        BY <2>1, <2>3, <4>1
      <4>3. tn[k + 2 * M] = c /\ tn[k] = tk[k]
        BY <1>4, <2>3, <3>3
      <4>4. tk[k] + Window <= c
        BY <1>1, <1>2, <1>3, <2>3, <4>2
      <4>5. QED
        BY <4>3, <4>4
    <3>4. k + 2 * M <= n + 1 => k + 2 * M <= n \/ k + 2 * M = n + 1
      BY <1>1, <1>2, <2>3
    <3>5. QED
      BY <3>1, <3>2, <3>3, <3>4
  <2>4. QED
    BY <1>5, <2>2, <2>3
<1>9. HintsSpaced(ws, u + 1, tn, c)
  BY <1>3, <1>4, <1>6, <1>7, <1>8 DEF HintsSpaced, M
<1>10. QED
  BY <1>9 DEF tn

\* Hints so spaced keep to the bound: those within a window of each other are at
\* less than 2 * MaxPerWindow consecutive places.
LEMMA SpacedBound ==
  ASSUME NEW ws, NEW u, NEW c, HintsSpaced(ws, u, taken, c)
  PROVE  HintBound
<1> DEFINE n == Len(taken)
           M == MaxPerWindow
<1>1. /\ n \in Nat /\ DOMAIN taken = 1 .. n
      /\ \A k \in 1 .. n : taken[k] \in Nat
      /\ \A k, l \in 1 .. n : k <= l => taken[k] <= taken[l]
      /\ Window > 0 => \A k \in 1 .. n : k + 2 * M <= n => taken[k] + Window <= taken[k + 2 * M]
  BY LenProperties, ElementOfSeq DEF HintsSpaced
<1>2. M \in Nat /\ Window \in Nat
  BY HintAssumption
<1> HIDE DEF n, M
<1>3. ASSUME NEW i \in 1 .. n
      PROVE  Cardinality({j \in 1 .. n : taken[j] >= taken[i] /\ taken[j] - taken[i] < Window}) <= 2 * M
  <2> DEFINE S == {j \in 1 .. n : taken[j] >= taken[i] /\ taken[j] - taken[i] < Window}
  <2>1. CASE S = {}
    BY <1>2, <2>1, FS_EmptySet
  <2>2. CASE S # {}
    <3>1. S \subseteq Nat /\ S \subseteq 1 .. n
      BY <1>1
    <3>2. PICK m \in S : \A j \in S : m <= j
      BY <2>2, <3>1, LeastNatural
    <3>3. Window > 0
      BY <1>1, <1>2, <3>2
    <3>4. ASSUME NEW j \in S PROVE j \in m .. m + 2 * M - 1
      <4>1. ASSUME j >= m + 2 * M PROVE FALSE
        <5>1. m + 2 * M \in 1 .. n
          BY <1>1, <1>2, <4>1
        <5>2. taken[m] + Window <= taken[m + 2 * M] /\ taken[m + 2 * M] <= taken[j]
          BY <1>1, <1>2, <3>3, <4>1, <5>1
        <5>3. taken[m] >= taken[i] /\ taken[j] - taken[i] < Window
          OBVIOUS
        <5>4. QED
          BY <1>1, <1>2, <5>1, <5>2, <5>3
      <4>2. QED
        BY <1>1, <1>2, <3>2, <4>1
    <3> HIDE DEF S
    <3>5. m \in Int /\ m + 2 * M - 1 \in Int
      BY <1>1, <1>2, <3>1
    <3>6. /\ IsFiniteSet(m .. m + 2 * M - 1)
          /\ Cardinality(m .. m + 2 * M - 1) <= 2 * M
      <4> DEFINE hi == m + 2 * M - 1
      <4>1. hi \in Int /\ m \in Int /\ hi - m + 1 = 2 * M
        BY <1>2, <3>5
      <4> HIDE DEF hi
      <4>2. IsFiniteSet(m .. hi) /\ Cardinality(m .. hi) = IF m > hi THEN 0 ELSE hi - m + 1
        BY <4>1, FS_Interval
      <4>3. Cardinality(m .. hi) <= 2 * M
        BY <1>2, <4>1, <4>2
      <4>4. QED
        BY <4>2, <4>3 DEF hi
    <3>7. /\ S \in SUBSET (m .. m + 2 * M - 1)
      BY <3>4
    <3>8. IsFiniteSet(S) /\ Cardinality(S) <= Cardinality(m .. m + 2 * M - 1)
      BY <3>6, <3>7, FS_Subset
    <3>9. Cardinality(S) \in Nat /\ Cardinality(m .. m + 2 * M - 1) \in Nat
      BY <3>6, <3>8, FS_CardinalityType
    <3>10. Cardinality(S) <= 2 * M
      BY <1>2, <3>6, <3>8, <3>9
    <3>11. QED
      BY <3>10 DEF S
  <2>3. QED
    BY <2>1, <2>2
<1>4. QED
  BY <1>1, <1>3 DEF HintBound, M

\* The budget and the history of hints taken.
HintInv ==
  /\ budget = [window_start |-> budget.window_start, used |-> budget.used]
  /\ HintsSpaced(budget.window_start, budget.used, taken, clock)

\* Every step preserves HintInv.
LEMMA HintNext == HintInv /\ [subNext]_subVars => HintInv'
<1> SUFFICES ASSUME HintInv, [subNext]_subVars PROVE HintInv'
  OBVIOUS
<1>1. CASE UNCHANGED <<budget, taken, clock>>
  BY <1>1 DEF HintInv
<1>2. ASSUME NEW id \in ledger, NEW lag \in {0, 1}, hint(id, lag) PROVE HintInv'
  <2> DEFINE ws == budget.window_start
             u  == budget.used
             t  == IF clock >= lag THEN clock - lag ELSE 0
             ends == t >= ws /\ t - ws >= Window
             rolled == IF ends THEN [window_start |-> t, used |-> 0] ELSE budget
             r  == admit_hint(budget, t)
  <2>1. budget' = r[1] /\ taken' = IF r[2] THEN Append(taken, clock) ELSE taken
    BY <1>2 DEF hint
  <2>2. clock' = clock
    BY <1>2 DEF hint
  <2>3. /\ HintsSpaced(ws, u, taken, clock)
        /\ budget = [window_start |-> ws, used |-> u]
    BY DEF HintInv
  <2>4. clock \in Nat /\ ws \in 0 .. clock /\ Window \in Nat /\ MaxPerWindow \in Nat /\ u \in 0 .. MaxPerWindow
    BY <2>3, HintAssumption DEF HintsSpaced
  <2>5. t \in 0 .. clock /\ clock <= t + 1
    BY <2>4
  <2>6. r = IF rolled.used >= MaxPerWindow THEN <<rolled, FALSE>>
            ELSE <<[rolled EXCEPT !.used = @ + 1], TRUE>>
    BY DEF admit_hint
  <2> HIDE DEF t, r
  <2>7. PICK w, v : /\ rolled = [window_start |-> w, used |-> v]
                    /\ HintsSpaced(w, v, taken, clock)
                    /\ Window > 0 => clock <= w + Window
    <3>1. CASE ends
      <4>1. HintsSpaced(t, 0, taken, clock)
        BY <2>3, <2>5, <3>1, HintRoll
      <4>2. QED
        BY <2>4, <2>5, <3>1, <4>1
    <3>2. CASE ~ ends
      <4>1. Window > 0 => clock <= ws + Window
        BY <2>4, <2>5, <3>2
      <4>2. QED
        BY <2>3, <3>2, <4>1
    <3>3. QED
      BY <3>1, <3>2
  <2> HIDE DEF rolled, ends
  <2>8. v \in Nat
    BY <2>4, <2>7 DEF HintsSpaced
  <2>9. CASE v >= MaxPerWindow
    <3>1. budget' = rolled /\ taken' = taken
      BY <2>1, <2>6, <2>7, <2>9
    <3>2. QED
      BY <2>2, <2>7, <3>1 DEF HintInv
  <2>10. CASE ~ (v >= MaxPerWindow)
    <3>1. HintsSpaced(w, v + 1, Append(taken, clock), clock)
      BY <2>4, <2>7, <2>8, <2>10, HintTake
    <3>2. budget' = [rolled EXCEPT !.used = @ + 1] /\ taken' = Append(taken, clock)
      BY <2>1, <2>6, <2>7, <2>10
    <3>3. budget' = [window_start |-> w, used |-> v + 1]
      BY <2>7, <3>2
    <3>4. budget'.window_start = w /\ budget'.used = v + 1
      BY <3>3
    <3>5. QED
      BY <2>2, <3>1, <3>2, <3>3, <3>4 DEF HintInv
  <2>11. QED
    BY <2>9, <2>10
<1>3. CASE pass
  <2>1. clock' = clock + 1 /\ budget' = budget /\ taken' = taken
    BY <1>3 DEF pass
  <2>2. HintsSpaced(budget.window_start, budget.used, taken, clock)
    BY DEF HintInv
  <2>3. HintsSpaced(budget.window_start, budget.used, taken, clock + 1)
    <3>1. clock \in Nat /\ budget.window_start \in 0 .. clock
      BY <2>2 DEF HintsSpaced
    <3>2. \A k \in 1 .. Len(taken) : taken[k] \in Nat
      BY <2>2, ElementOfSeq DEF HintsSpaced
    <3>3. QED
      BY <2>2, <3>1, <3>2 DEF HintsSpaced
  <2>4. QED
    BY <2>1, <2>3 DEF HintInv
<1>4. QED
  BY <1>1, <1>2, <1>3
    DEF subNext, subVars, make, withdraw, subscribe, unsubscribe

\* At most 2 * MaxPerWindow hints are taken within any window, whatever the
\* moments at which they are pushed and with a clock that lags.
THEOREM HintBoundEver == subSpec => []HintBound
<1>1. subInit => HintInv
  <2> SUFFICES ASSUME subInit PROVE HintInv
    OBVIOUS
  <2>1. budget = [window_start |-> 0, used |-> 0] /\ taken = <<>> /\ clock = 0
    BY DEF subInit
  <2>2. <<>> \in Seq(Nat) /\ Len(<<>>) = 0 /\ MaxPerWindow \in Nat
    BY EmptySeq, HintAssumption
  <2>3. HintsSpaced(0, 0, taken, 0)
    BY <2>1, <2>2 DEF HintsSpaced
  <2>4. QED
    BY <2>1, <2>3 DEF HintInv
<1>2. HintInv => HintBound
  BY SpacedBound DEF HintInv
<1>3. QED
  BY <1>1, <1>2, HintNext, PTL DEF subSpec
-----------------------------------------------------------------------------
(* Capabilities.                                                           *)

\* Prefixes, element by element.
LEMMA PrefixAt ==
  ASSUME NEW S, NEW s \in Seq(S), NEW t \in Seq(S)
  PROVE  IsPrefix(s, t) <=> Len(s) <= Len(t) /\ \A i \in 1 .. Len(s) : s[i] = t[i]
<1> DEFINE n == Len(s)
<1>1. n \in Nat /\ Len(t) \in Nat
  BY LenProperties
<1>2. SubSeq(s, 1, n) = s
  BY SubSeqFull
<1>3. ASSUME n <= Len(t)
      PROVE  /\ SubSeq(t, 1, n) \in Seq(S)
             /\ Len(SubSeq(t, 1, n)) = n
             /\ \A i \in 1 .. n : SubSeq(t, 1, n)[i] = t[i]
  <2>1. \A i \in 1 .. n : t[i] \in S
    BY <1>1, <1>3, ElementOfSeq
  <2>2. /\ SubSeq(t, 1, n) \in Seq(S)
        /\ Len(SubSeq(t, 1, n)) = IF 1 <= n THEN n - 1 + 1 ELSE 0
        /\ \A i \in 1 .. n - 1 + 1 : SubSeq(t, 1, n)[i] = t[1 + i - 1]
    BY <1>1, <2>1, SubSeqProperties
  <2>3. \A i \in 1 .. n : i \in 1 .. n - 1 + 1 /\ 1 + i - 1 = i
    BY <1>1
  <2>4. QED
    BY <1>1, <2>2, <2>3
<1>4. CASE n <= Len(t)
  <2>1. SubSeq(t, 1, n) = s <=> \A i \in 1 .. n : s[i] = t[i]
    BY <1>3, <1>4, SeqEqual
  <2>2. QED
    BY <1>2, <1>4, <2>1 DEF IsPrefix
<1>5. CASE ~ (n <= Len(t))
  BY <1>5 DEF IsPrefix
<1>6. QED
  BY <1>4, <1>5

\* A prefix of a prefix is a prefix.
LEMMA PrefixTransitive ==
  ASSUME NEW S, NEW s \in Seq(S), NEW t \in Seq(S), NEW u \in Seq(S),
         IsPrefix(s, t), IsPrefix(t, u)
  PROVE  IsPrefix(s, u)
<1>1. Len(s) \in Nat /\ Len(t) \in Nat /\ Len(u) \in Nat
  BY LenProperties
<1>2. /\ Len(s) <= Len(t) /\ \A i \in 1 .. Len(s) : s[i] = t[i]
      /\ Len(t) <= Len(u) /\ \A i \in 1 .. Len(t) : t[i] = u[i]
  BY PrefixAt
<1>3. Len(s) <= Len(u) /\ \A i \in 1 .. Len(s) : s[i] = u[i]
  BY <1>1, <1>2
<1>4. QED
  BY <1>3, PrefixAt

\* The grant c is nothing more than p.
Within(c, p) ==
  /\ IsPrefix(p.resource, c.resource) /\ IsPrefix(p.ability, c.ability)
  /\ p.caveats \in {NoCaveats, {}} \/ (c.caveats # NoCaveats /\ p.caveats \subseteq c.caveats)

Grants == {term.grant : term \in Terms}

Token == [iss : Principals, aud : Principals, caps : SUBSET Grants, nbf : Nat, exp : Nat, prnt : Nat]

\* The token a is nothing more than b.
Narrower(a, b) ==
  /\ a.nbf >= b.nbf /\ a.exp <= b.exp
  /\ \A c \in a.caps : \E p \in b.caps : Within(c, p)

\* A grant is within itself.
LEMMA WithinItself ==
  ASSUME NEW c \in Grants
  PROVE  Within(c, c)
<1>1. c.resource \in Seq(STRING) /\ c.ability \in Seq(STRING)
  BY TermsAssumption DEF Grants
<1>2. IsPrefix(c.resource, c.resource) /\ IsPrefix(c.ability, c.ability)
  BY <1>1, LenProperties, PrefixAt
<1>3. QED
  BY <1>2 DEF Within

\* What is within a grant within another is within that.  (With caveats it is
\* the middle grant that matters: it has some, and may not have lost them.)
LEMMA WithinTransitive ==
  ASSUME NEW c \in Grants, NEW q \in Grants, NEW p \in Grants, Within(c, q), Within(q, p)
  PROVE  Within(c, p)
<1>1. /\ c.resource \in Seq(STRING) /\ c.ability \in Seq(STRING)
      /\ q.resource \in Seq(STRING) /\ q.ability \in Seq(STRING)
      /\ p.resource \in Seq(STRING) /\ p.ability \in Seq(STRING)
  BY TermsAssumption DEF Grants
<1>2. IsPrefix(p.resource, c.resource) /\ IsPrefix(p.ability, c.ability)
  BY <1>1, PrefixTransitive DEF Within
<1>3. p.caveats \in {NoCaveats, {}} \/ (c.caveats # NoCaveats /\ p.caveats \subseteq c.caveats)
  BY DEF Within
<1>4. QED
  BY <1>2, <1>3 DEF Within

\* One link of a chain narrows.
LEMMA LinkNarrows ==
  ASSUME NEW a \in Token, NEW b \in Token, NEW id, link(a, b, id)
  PROVE  Narrower(a, b)
<1>1. \A c, p : capability_covers(p, c) => Within(c, p)
  BY DEF capability_covers, scope_covers, caveats_tightened, Within
<1>2. QED
  BY <1>1 DEF link, Narrower

\* Narrowing is transitive.
LEMMA NarrowerTransitive ==
  ASSUME NEW a \in Token, NEW b \in Token, NEW c \in Token, Narrower(a, b), Narrower(b, c)
  PROVE  Narrower(a, c)
<1>1. /\ a.nbf \in Nat /\ b.nbf \in Nat /\ c.nbf \in Nat
      /\ a.exp \in Nat /\ b.exp \in Nat /\ c.exp \in Nat
      /\ a.caps \subseteq Grants /\ b.caps \subseteq Grants /\ c.caps \subseteq Grants
  BY DEF Token
<1>2. a.nbf >= c.nbf /\ a.exp <= c.exp
  BY <1>1 DEF Narrower
<1>3. ASSUME NEW x \in a.caps PROVE \E p \in c.caps : Within(x, p)
  <2>1. PICK q \in b.caps : Within(x, q)
    BY DEF Narrower
  <2>2. PICK p \in c.caps : Within(q, p)
    BY DEF Narrower
  <2>3. Within(x, p)
    BY <1>1, <2>1, <2>2, WithinTransitive
  <2>4. QED
    BY <2>3
<1>4. QED
  BY <1>2, <1>3 DEF Narrower

\* Every token of an unbroken path is wider than the first.
LEMMA PathNarrows ==
  ASSUME NEW n \in Nat, NEW path, \A i \in 1 .. n + 1 : tokens[path[i]] \in Token,
         \A i \in 1 .. n : link(tokens[path[i]], tokens[path[i + 1]], path[i + 1])
  PROVE  \A i \in 1 .. n + 1 : Narrower(tokens[path[1]], tokens[path[i]])
<1> DEFINE bad == {i \in 1 .. n + 1 : ~ Narrower(tokens[path[1]], tokens[path[i]])}
<1>1. ASSUME bad # {} PROVE FALSE
  <2>1. PICK x \in bad : \A y \in bad : x <= y
    <3>1. bad \subseteq Nat
      OBVIOUS
    <3> HIDE DEF bad
    <3>2. QED
      BY <1>1, <3>1, LeastNatural
  <2>2. x # 1
    <3>1. tokens[path[1]] \in Token
      OBVIOUS
    <3>2. \A a \in Token : Narrower(a, a)
      BY WithinItself DEF Token, Narrower
    <3>3. QED
      BY <2>1, <3>1, <3>2
  <2>3. x - 1 \in 1 .. n /\ x - 1 \in 1 .. n + 1 /\ (x - 1) + 1 = x /\ x \in 1 .. n + 1
    BY <2>1, <2>2
  <2>4. x - 1 \notin bad
    BY <2>1, <2>3
  <2>5. Narrower(tokens[path[1]], tokens[path[x - 1]])
    BY <2>3, <2>4
  <2>6. Narrower(tokens[path[x - 1]], tokens[path[x]])
    <3>1. link(tokens[path[x - 1]], tokens[path[x]], path[x])
      BY <2>3
    <3>2. QED
      BY <2>3, <3>1, LinkNarrows
  <2>7. Narrower(tokens[path[1]], tokens[path[x]])
    <3>1. 1 \in 1 .. n + 1
      OBVIOUS
    <3>2. QED
      BY <2>3, <2>5, <2>6, <3>1, NarrowerTransitive
  <2>8. QED
    BY <2>1, <2>7
<1>2. QED
  BY <1>1

\* What verify_chain_rooted accepts is nothing more than the root's own token, and
\* everyone on the way to it was named by the one before.
LEMMA AcceptedNarrows ==
  ASSUME tokens \in Seq(Token), NEW t \in DOMAIN tokens, NEW chain \in Seq(DOMAIN tokens),
         verify_chain_rooted(t, chain, Root)
  PROVE  /\ Last(<<t>> \o chain) \in DOMAIN tokens
         /\ Narrower(tokens[t], tokens[Last(<<t>> \o chain)])
         /\ \A who : verify_authorized(who, t, chain) =>
              who = Root \/ \E i \in DOMAIN chain : tokens[chain[i]].aud = who
<1> DEFINE path == <<t>> \o chain
           n    == Len(chain)
<1>1. /\ n \in Nat /\ DOMAIN chain = 1 .. n
      /\ \A i \in 1 .. n : chain[i] \in DOMAIN tokens
  BY LenProperties, ElementOfSeq
<1>2. <<t>> \in Seq(DOMAIN tokens) /\ Len(<<t>>) = 1 /\ <<t>>[1] = t
  OBVIOUS
<1>3. /\ path \in Seq(DOMAIN tokens) /\ Len(path) = 1 + n
      /\ \A i \in 1 .. 1 + n : path[i] = IF i <= 1 THEN <<t>>[i] ELSE chain[i - 1]
  BY <1>2, ConcatProperties
<1>4. /\ \A i \in 1 .. n : link(tokens[path[i]], tokens[path[i + 1]], path[i + 1])
      /\ tokens[Last(path)].iss = Root
  BY DEF verify_chain_rooted, verify_chain
<1> HIDE DEF path, n
<1>5. /\ path[1] = t
      /\ \A i \in 1 .. n : path[i + 1] = chain[i]
      /\ Last(path) = path[n + 1]
      /\ DOMAIN path = 1 .. n + 1
  BY <1>1, <1>2, <1>3, LenProperties DEF Last
<1>6. \A i \in 1 .. n + 1 : path[i] \in DOMAIN tokens /\ tokens[path[i]] \in Token
  BY <1>1, <1>3, <1>5, ElementOfSeq
<1>7. \A i \in 1 .. n + 1 : Narrower(tokens[path[1]], tokens[path[i]])
  BY <1>1, <1>4, <1>6, PathNarrows
<1>8. n + 1 \in 1 .. n + 1
  BY <1>1
<1>9. ASSUME NEW who, verify_authorized(who, t, chain)
      PROVE  who = Root \/ \E i \in DOMAIN chain : tokens[chain[i]].aud = who
  <2>1. PICK i \in DOMAIN path : who = tokens[path[i]].iss
    BY <1>9 DEF verify_authorized, Range, path
  <2>2. CASE i = n + 1
    BY <1>4, <1>5, <2>1, <2>2
  <2>3. CASE i \in 1 .. n
    <3>1. tokens[path[i]].iss = tokens[chain[i]].aud
      BY <1>4, <1>5, <2>3 DEF link
    <3>2. QED
      BY <1>1, <2>1, <2>3, <3>1
  <2>4. QED
    BY <1>1, <1>5, <2>2, <2>3
<1>10. QED
  BY <1>5, <1>6, <1>7, <1>8, <1>9 DEF path

\* Tokens are well typed, whoever signs them.
LEMMA CapNext == tokens \in Seq(Token) /\ [capNext]_capVars => (tokens \in Seq(Token))'
<1> SUFFICES ASSUME tokens \in Seq(Token), [capNext]_capVars PROVE tokens' \in Seq(Token)
  OBVIOUS
<1>1. ASSUME NEW iss \in Principals, NEW aud \in Principals \ {Root}, NEW term \in Terms,
             NEW prnt \in 0 .. Len(tokens), issue(iss, aud, term, prnt)
      PROVE  tokens' \in Seq(Token)
  <2> DEFINE new == [iss |-> iss, aud |-> aud, caps |-> {term.grant}, nbf |-> term.nbf,
                     exp |-> term.exp, prnt |-> prnt]
  <2>1. prnt \in Nat
    BY LenProperties
  <2>2. {term.grant} \in SUBSET Grants /\ term.nbf \in Nat /\ term.exp \in Nat
    BY TermsAssumption DEF Grants
  <2>3. new \in Token
    BY <2>1, <2>2 DEF Token
  <2>4. tokens' = Append(tokens, new)
    BY <1>1 DEF issue
  <2> HIDE DEF new
  <2>5. QED
    BY <2>3, <2>4, AppendProperties
<1>2. CASE UNCHANGED capVars
  BY <1>2 DEF capVars
<1>3. QED
  BY <1>1, <1>2 DEF capNext

\* No chain of delegations, of whatever length and by whomever, grants more than
\* the root granted.
THEOREM NoAmplificationEver == capSpec => []NoAmplification
<1>1. capInit => tokens \in Seq(Token)
  BY EmptySeq DEF capInit
<1>2. ASSUME tokens \in Seq(Token), NEW t \in DOMAIN tokens, NEW chain \in Chains,
             verify_chain_rooted(t, chain, Root)
      PROVE  LET top == tokens[Last(<<t>> \o chain)]
                 me  == tokens[t]
             IN  /\ \A when \in UNION {term.nbf .. term.exp : term \in Terms} :
                      verify_at(t, when, {}) => top.nbf <= when /\ when < top.exp
                 /\ \A c \in me.caps : \E p \in top.caps :
                      /\ IsPrefix(p.resource, c.resource) /\ IsPrefix(p.ability, c.ability)
                      /\ p.caveats \in {NoCaveats, {}} \/ (c.caveats # NoCaveats /\ p.caveats \subseteq c.caveats)
                 /\ \A who \in Principals : verify_authorized(who, t, chain) =>
                      who = Root \/ \E i \in DOMAIN chain : tokens[chain[i]].aud = who
  <2> DEFINE top == tokens[Last(<<t>> \o chain)]
             me  == tokens[t]
  <2>1. chain \in Seq(DOMAIN tokens)
    BY SeqDef DEF Chains
  <2>2. /\ Last(<<t>> \o chain) \in DOMAIN tokens
        /\ Narrower(me, top)
        /\ \A who : verify_authorized(who, t, chain) =>
             who = Root \/ \E i \in DOMAIN chain : tokens[chain[i]].aud = who
    BY <1>2, <2>1, AcceptedNarrows
  <2>3. me \in Token /\ top \in Token
    BY <1>2, <2>2, ElementOfSeq, LenProperties
  <2> HIDE DEF top
  <2>4. ASSUME NEW when \in UNION {term.nbf .. term.exp : term \in Terms}, verify_at(t, when, {})
        PROVE  top.nbf <= when /\ when < top.exp
    <3>1. when \in Int
      BY TermsAssumption
    <3>2. me.nbf <= when /\ when < me.exp
      BY <2>4 DEF verify_at
    <3>3. /\ me.nbf \in Nat /\ me.exp \in Nat /\ top.nbf \in Nat /\ top.exp \in Nat
          /\ me.nbf >= top.nbf /\ me.exp <= top.exp
      BY <2>2, <2>3 DEF Token, Narrower
    <3> HIDE DEF me
    <3>4. QED
      BY <3>1, <3>2, <3>3
  <2>5. QED
    BY <2>2, <2>4 DEF Narrower, Within, top
<1>3. tokens \in Seq(Token) => NoAmplification
  BY <1>2 DEF NoAmplification
<1>4. QED
  BY <1>1, <1>3, CapNext, PTL DEF capSpec

-----------------------------------------------------------------------------
(* Motes.                                                                  *)

\* A mote as build_mote makes it.
WellBuilt(x) ==
  LET env == x.env
      ct  == env.ciphertext
      pl  == ct.payload
  IN  /\ env.v = 0 /\ env.suite \in {1, 2} /\ env.id = ct /\ env.challenge = None
      /\ env.sender_eph = Key("eph", env.suite)
      /\ env.sender_sig = Sign(env.sender_eph, sender_authed_bytes(env.id, env.to, env.ts, env.kind, env.challenge))
      /\ env.to = KeyTag(ct.for)
      /\ ct.aad = aad_bytes(env.suite, env.kind, env.ts, env.to)
      /\ pl.from = Key(x.who, env.suite)
      /\ pl.sig = Sign(pl.from, payload_hash(pl.from, pl.body, pl.expires, env.kind, env.ts, env.to))

\* What acceptance says of an envelope.
LEMMA AcceptedMeans ==
  ASSUME NEW env, NEW known, validate_mote(env, known) = "accepted"
  PROVE  LET pl == env.ciphertext.payload
         IN  /\ env.id = env.ciphertext
             /\ env.to = KeyTag(Us)
             /\ env.ciphertext.aad = aad_bytes(env.suite, env.kind, env.ts, env.to)
             /\ env.suite \in {1, 2} /\ pl.from[2] = env.suite
             /\ pl.sig = Sign(pl.from, payload_hash(pl.from, pl.body, pl.expires, env.kind, env.ts, env.to))
  BY DEF validate_mote, mote_supported, resolves_to_key, Opens, verify_sig_for_suite

\* What build_mote makes is genuine.
LEMMA BuildsWell ==
  ASSUME NEW nonce, NEW p, NEW suite \in 1 .. 2, NEW r, NEW k, NEW ts, NEW b, NEW e, NEW n
  PROVE  WellBuilt([who |-> p, n |-> n, env |-> build_mote(nonce, p, suite, r, k, ts, b, e)])
<1> DEFINE to == KeyTag(r)
           from == Key(p, suite)
           sig == Sign(from, payload_hash(from, b, e, k, ts, to))
           pl == [from |-> from, body |-> b, expires |-> e, sig |-> sig]
           aad == aad_bytes(suite, k, ts, to)
           ct == [nonce |-> nonce, for |-> r, aad |-> aad, payload |-> pl]
           eph == Key("eph", suite)
           signed == Sign(eph, sender_authed_bytes(ct, to, ts, k, None))
           env == [v |-> 0, suite |-> suite, id |-> ct, to |-> to, ts |-> ts, kind |-> k,
                   challenge |-> None, ciphertext |-> ct, sender_eph |-> eph, sender_sig |-> signed]
           x == [who |-> p, n |-> n, env |-> env]
<1>1. build_mote(nonce, p, suite, r, k, ts, b, e) = env
  BY DEF build_mote, Envelope, Sealed, Payload
<1>2. pl.from = from /\ pl.body = b /\ pl.expires = e /\ pl.sig = sig
  OBVIOUS
<1> HIDE DEF pl
<1>3. ct.for = r /\ ct.aad = aad /\ ct.payload = pl
  OBVIOUS
<1> HIDE DEF ct
<1>4. /\ env.v = 0 /\ env.suite = suite /\ env.id = ct /\ env.to = to /\ env.ts = ts /\ env.kind = k
      /\ env.challenge = None /\ env.ciphertext = ct /\ env.sender_eph = eph /\ env.sender_sig = signed
  OBVIOUS
<1> HIDE DEF env
<1>5. x.who = p /\ x.env = env
  OBVIOUS
<1> HIDE DEF x
<1>6. WellBuilt(x)
  BY <1>2, <1>3, <1>4, <1>5 DEF WellBuilt
<1>7. QED
  BY <1>1, <1>6 DEF x

\* A genuine mote for us is accepted.
LEMMA WellBuiltAccepted ==
  ASSUME NEW x, WellBuilt(x), x.env.to = KeyTag(Us)
  PROVE  validate_mote(x.env, TRUE) = "accepted"
<1> DEFINE env == x.env
           pl  == env.ciphertext.payload
<1>1. env.sender_sig # None /\ env.sender_eph # None
  BY DEF WellBuilt, Sign, Key, None
<1>2. x.env.ciphertext.for = Us
  BY DEF WellBuilt, KeyTag
<1>3. QED
  BY <1>1, <1>2 DEF WellBuilt, validate_mote, mote_supported, resolves_to_key, Opens, verify_sig_for_suite, Key

\* Only a genuine mote for us is accepted, whatever its envelope says: a payload
\* sealed again was signed for somebody else's address.
LEMMA AcceptedSent ==
  ASSUME \A x \in posted : WellBuilt(x),
         NEW env, NEW known, validate_mote(env, known) = "accepted",
         \/ \E x \in posted : env.ciphertext = x.env.ciphertext
         \/ env.ciphertext.payload \in Held
  PROVE  \E x \in posted :
           /\ env.ciphertext = x.env.ciphertext /\ x.env.to = KeyTag(Us)
           /\ x.env.suite = env.suite /\ x.env.kind = env.kind /\ x.env.ts = env.ts
<1> DEFINE pl == env.ciphertext.payload
<1>0. ASSUME NEW p, NEW s, NEW b, pl = Loose(p, s, b) PROVE FALSE
  <2> DEFINE A == payload_hash(pl.from, pl.body, pl.expires, env.kind, env.ts, env.to)
             B == payload_hash_unbound(Key(p, s), b, None)
  <2>1. pl.sig = Sign(pl.from, A)
    BY AcceptedMeans
  <2>2. pl.sig = Sign(Key(p, s), B)
    BY <1>0 DEF Loose
  <2> HIDE DEF A, B
  <2>3. A = B
    BY <2>1, <2>2 DEF Sign
  <2>4. Len(A) = 6 /\ Len(B) = 3
    BY DEF A, B, payload_hash, payload_hash_unbound
  <2>5. QED
    BY <2>3, <2>4
<1>1. PICK x \in posted : /\ pl = x.env.ciphertext.payload
                          /\ env.ciphertext = x.env.ciphertext \/ x.env.ciphertext.for # Us
  BY <1>0 DEF Held
<1>2. WellBuilt(x)
  OBVIOUS
<1>3. payload_hash(pl.from, pl.body, pl.expires, env.kind, env.ts, env.to)
      = payload_hash(pl.from, pl.body, pl.expires, x.env.kind, x.env.ts, x.env.to)
  <2> DEFINE A == payload_hash(pl.from, pl.body, pl.expires, env.kind, env.ts, env.to)
             B == payload_hash(pl.from, pl.body, pl.expires, x.env.kind, x.env.ts, x.env.to)
  <2>1. pl.sig = Sign(pl.from, A)
    BY AcceptedMeans
  <2>2. pl.sig = Sign(pl.from, B)
    BY <1>1, <1>2 DEF WellBuilt
  <2> HIDE DEF A, B
  <2>3. pl.sig.over = A
    BY <2>1 DEF Sign
  <2>4. pl.sig.over = B
    BY <2>2 DEF Sign
  <2>5. QED
    BY <2>3, <2>4 DEF A, B
<1>4. env.kind = x.env.kind /\ env.ts = x.env.ts /\ env.to = x.env.to
  BY <1>3 DEF payload_hash
<1>5. x.env.to = KeyTag(Us) /\ x.env.to = KeyTag(x.env.ciphertext.for)
  BY <1>2, <1>4, AcceptedMeans DEF WellBuilt
<1>6. x.env.ciphertext.for = Us
  BY <1>5 DEF KeyTag
<1>7. x.env.suite = env.suite
  BY <1>1, <1>2, AcceptedMeans DEF WellBuilt, Key
<1>8. QED
  BY <1>1, <1>4, <1>5, <1>6, <1>7

\* A delivered mote is one that was sent to us.
Sent(m, x) ==
  /\ x.who = m.from[1] /\ x.env.to = KeyTag(Us) /\ x.env.suite = m.suite
  /\ x.env.kind = m.kind /\ x.env.ts = m.ts
  /\ x.env.ciphertext.payload.body = m.body

\* Which mote each entry of the inbox is: a recorded one, and no two the same.
Delivers(del) ==
  /\ del \in [inbox -> posted]
  /\ \A m \in inbox : Sent(m, del[m]) /\ del[m].env.ciphertext \in recorded
  /\ \A m, d \in inbox : del[m] = del[d] => m = d

\* A floor is the suite of its key, an address is recorded only for a mote that
\* was delivered, and the deliveries are of motes that were sent.
MoInv ==
  /\ IsFiniteSet(posted)
  /\ \A x \in posted : WellBuilt(x)
  /\ \A key \in DOMAIN floors : key[2] \in {1, 2} /\ floors[key] = key[2]
  /\ \A id \in recorded : \E m \in inbox :
       m.from = id.payload.from /\ m.body = id.payload.body /\ m.kind = id.aad[2] /\ m.ts = id.aad[3]
  /\ \A m \in inbox : m = [from |-> m.from, body |-> m.body, kind |-> m.kind, ts |-> m.ts,
                           suite |-> m.suite, n |-> m.n]
  /\ \E del : Delivers(del)

\* A new node has delivered nothing.
LEMMA MoInit == moInit => MoInv
<1> SUFFICES ASSUME moInit PROVE MoInv
  OBVIOUS
<1>1. posted = {} /\ DOMAIN floors = {} /\ recorded = {} /\ inbox = {}
  BY DEF moInit
<1>2. Delivers([m \in {} |-> m])
  BY <1>1 DEF Delivers
<1>3. QED
  BY <1>1, <1>2, FS_EmptySet DEF MoInv

\* Posting keeps what was posted, and what is posted is genuine.
LEMMA PostInv ==
  ASSUME MoInv, NEW p, NEW s \in 1 .. 2, NEW r, NEW k, NEW b, NEW e, post(p, s, r, k, b, e)
  PROVE  MoInv'
<1> DEFINE c == Cardinality(posted)
           x == [who |-> p, n |-> c, env |-> build_mote(<<c>>, p, s, r, k, hour, b, e)]
<1>1. /\ posted' = posted \cup {x}
      /\ floors' = floors /\ recorded' = recorded /\ inbox' = inbox
  BY DEF post
<1>2. WellBuilt(x)
  BY BuildsWell
<1> HIDE DEF x
<1>3. IsFiniteSet(posted')
  BY <1>1, FS_AddElement DEF MoInv
<1>4. \A z \in posted' : WellBuilt(z)
  BY <1>1, <1>2 DEF MoInv
<1>5. PICK del : Delivers(del)
  BY DEF MoInv
<1>6. Delivers(del)'
  BY <1>1, <1>5 DEF Delivers
<1>7. QED
  BY <1>1, <1>3, <1>4, <1>6 DEF MoInv

\* A mote that is received is genuine and ours, or nothing changes.
LEMMA ReceiveInv ==
  ASSUME MoInv, NEW env, NEW known, receive(env, known),
         \/ \E x \in posted : env.ciphertext = x.env.ciphertext
         \/ env.ciphertext.payload \in Held
  PROVE  MoInv'
<1> DEFINE ct == env.ciphertext
           pl == ct.payload
           suite == env.suite
           new == [from |-> pl.from, body |-> pl.body, kind |-> env.kind, ts |-> env.ts,
                   suite |-> env.suite, n |-> Cardinality(inbox)]
<1>1. /\ validate_mote(env, known) = "accepted"
      /\ floors' = ratcheted(pl.from, suite)
      /\ posted' = posted
      /\ \/ /\ ~ is_duplicate(env.id)
            /\ recorded' = recorded \cup {env.id} /\ inbox' = inbox \cup {new}
         \/ recorded' = recorded /\ inbox' = inbox
  BY DEF receive
<1>2. /\ env.id = ct /\ ct.aad = aad_bytes(suite, env.kind, env.ts, env.to)
      /\ suite \in {1, 2} /\ pl.from[2] = suite
  BY <1>1, AcceptedMeans
<1>3. PICK x \in posted : /\ ct = x.env.ciphertext /\ x.env.to = KeyTag(Us)
                          /\ x.env.suite = suite /\ x.env.kind = env.kind /\ x.env.ts = env.ts
  BY <1>1, AcceptedSent DEF MoInv
<1>4. \A key \in DOMAIN floors' : key[2] \in {1, 2} /\ floors'[key] = key[2]
  <2> DEFINE f == pl.from
  <2>1. floor(f) \in {0, suite}
    BY <1>2 DEF MoInv, floor
  <2>2. floors' = [key \in DOMAIN floors \cup {f} |->
                     IF key = f THEN (IF suite > floor(key) THEN suite ELSE floor(key)) ELSE floors[key]]
    BY <1>1 DEF ratcheted
  <2>3. f[2] = suite
    BY <1>2
  <2> HIDE DEF f, suite
  <2>4. (IF suite > floor(f) THEN suite ELSE floor(f)) = suite
    BY <1>2, <2>1
  <2>5. QED
    BY <1>2, <2>2, <2>3, <2>4 DEF MoInv
<1>5. PICK del : Delivers(del)
  BY DEF MoInv
<1>6. CASE recorded' = recorded /\ inbox' = inbox
  <2>1. Delivers(del)'
    BY <1>1, <1>5, <1>6 DEF Delivers
  <2>2. QED
    BY <1>1, <1>4, <1>6, <2>1 DEF MoInv
<1>7. CASE /\ ~ is_duplicate(env.id)
           /\ recorded' = recorded \cup {env.id} /\ inbox' = inbox \cup {new}
  <2>1. /\ new.from = pl.from /\ new.body = pl.body /\ new.kind = env.kind /\ new.ts = env.ts
        /\ new.suite = suite
        /\ new = [from |-> new.from, body |-> new.body, kind |-> new.kind, ts |-> new.ts,
                  suite |-> new.suite, n |-> new.n]
    OBVIOUS
  <2>2. ct \notin recorded /\ recorded' = recorded \cup {ct}
    BY <1>2, <1>7 DEF is_duplicate
  <2>3. Sent(new, x)
    <3>1. WellBuilt(x)
      BY DEF MoInv
    <3>2. x.who = pl.from[1]
      BY <1>3, <3>1 DEF WellBuilt, Key
    <3>3. QED
      BY <1>3, <2>1, <3>2 DEF Sent
  <2> HIDE DEF new
  <2>4. ct.aad[2] = env.kind /\ ct.aad[3] = env.ts
    BY <1>2 DEF aad_bytes
  <2>5. \A id \in recorded' : \E m \in inbox' :
          m.from = id.payload.from /\ m.body = id.payload.body /\ m.kind = id.aad[2] /\ m.ts = id.aad[3]
    BY <1>7, <2>1, <2>2, <2>4 DEF MoInv
  <2>6. \A m \in inbox' : m = [from |-> m.from, body |-> m.body, kind |-> m.kind, ts |-> m.ts,
                               suite |-> m.suite, n |-> m.n]
    BY <1>7, <2>1 DEF MoInv
  <2>7. \E g : Delivers(g)'
    <3>1. CASE new \in inbox
      <4>1. inbox' = inbox
        BY <1>7, <3>1
      <4>2. Delivers(del)'
        BY <1>1, <1>5, <2>2, <4>1 DEF Delivers
      <4>3. QED
        BY <4>2
    <3>2. CASE new \notin inbox
      <4>0. PICK g : g = [m \in inbox \cup {new} |-> IF m = new THEN x ELSE del[m]]
        OBVIOUS
      <4>1. g \in [inbox' -> posted']
        BY <1>1, <1>5, <1>7, <4>0 DEF Delivers
      <4>2. g[new] = x /\ \A m \in inbox : g[m] = del[m]
        BY <3>2, <4>0
      <4>3. \A m \in inbox' : Sent(m, g[m]) /\ g[m].env.ciphertext \in recorded'
        BY <1>3, <1>5, <1>7, <2>2, <2>3, <4>2 DEF Delivers
      <4>4. \A m, d \in inbox' : g[m] = g[d] => m = d
        <5>1. \A m \in inbox : del[m] # x
          BY <1>3, <1>5, <2>2 DEF Delivers
        <5>2. QED
          BY <1>5, <1>7, <4>2, <5>1 DEF Delivers
      <4>5. Delivers(g)'
        BY <4>1, <4>3, <4>4 DEF Delivers, Sent
      <4>6. QED
        BY <4>5
    <3>3. QED
      BY <3>1, <3>2
  <2>8. QED
    BY <1>1, <1>4, <2>5, <2>6, <2>7 DEF MoInv
<1>8. QED
  BY <1>1, <1>6, <1>7

\* Every step preserves the invariant.
LEMMA MoNext == MoInv /\ [moNext]_moVars => MoInv'
<1> SUFFICES ASSUME MoInv, [moNext]_moVars PROVE MoInv'
  OBVIOUS
<1>1. CASE UNCHANGED <<posted, floors, recorded, inbox>>
  <2>1. PICK del : Delivers(del)
    BY DEF MoInv
  <2>2. Delivers(del)'
    BY <1>1, <2>1 DEF Delivers
  <2>3. QED
    BY <1>1, <2>2 DEF MoInv
<1>2. ASSUME NEW p \in People, NEW s \in 1 .. 2, NEW r \in (People \ Honest) \cup {Us},
             NEW k \in MoteKinds, NEW b \in Bodies, NEW x \in {None, <<hour>>}, post(p, s, r, k, b, x)
      PROVE  MoInv'
  BY <1>2, PostInv
<1>3. ASSUME NEW pm \in posted, NEW known \in BOOLEAN, receive(pm.env, known)
      PROVE  MoInv'
  BY <1>3, ReceiveInv
<1>4. ASSUME NEW suite \in 1 .. 3, NEW k \in MoteKinds, NEW ts \in 0 .. hour,
             NEW to \in {KeyTag(Us), GroupTag(Us)}, NEW ch \in Challenges, NEW form \in Forms,
             NEW known \in BOOLEAN, NEW ct \in Ciphertexts(suite, k, ts),
             receive(Rewritten(suite, k, ts, to, ch, ct, form), known)
      PROVE  MoInv'
  <2> DEFINE env == Rewritten(suite, k, ts, to, ch, ct, form)
  <2>1. env.ciphertext = ct
    BY DEF Rewritten, Envelope, Forms
  <2>2. (\E x \in posted : ct = x.env.ciphertext) \/ ct.payload \in Held
    BY DEF Ciphertexts, Sealed
  <2> HIDE DEF env
  <2>3. \/ \E x \in posted : env.ciphertext = x.env.ciphertext
        \/ env.ciphertext.payload \in Held
    BY <2>1, <2>2
  <2>4. receive(env, known)
    BY <1>4 DEF env
  <2>5. QED
    BY <2>3, <2>4, ReceiveInv
<1>5. CASE strike
  BY <1>1, <1>5 DEF strike
<1>6. CASE UNCHANGED moVars
  BY <1>1, <1>6 DEF moVars
<1>7. QED
  <2>1. CASE \E p \in People, s \in 1 .. 2, r \in (People \ Honest) \cup {Us}, k \in MoteKinds,
                b \in Bodies, x \in {None, <<hour>>} : p # r /\ post(p, s, r, k, b, x)
    BY <1>2, <2>1
  <2>2. CASE \E pm \in posted, known \in BOOLEAN : receive(pm.env, known)
    BY <1>3, <2>2
  <2>3. CASE \E suite \in 1 .. 3, k \in MoteKinds, ts \in 0 .. hour, to \in {KeyTag(Us), GroupTag(Us)},
                ch \in Challenges, form \in Forms, known \in BOOLEAN :
               \E ct \in Ciphertexts(suite, k, ts) :
                 receive(Rewritten(suite, k, ts, to, ch, ct, form), known)
    BY <1>4, <2>3
  <2>4. QED
    BY <1>5, <1>6, <2>1, <2>2, <2>3, Zenon DEF moNext

\* The invariant holds of every exchange of motes.
THEOREM MoteInvariance == moSpec => []MoInv
  BY MoInit, MoNext, PTL DEF moSpec

\* What is shown as an honest person's mote he sent to us, as it is shown, and it
\* is shown once (validate, CallerPolicy), whatever the network rewrites, seals
\* again or repeats, for any number of people, motes and deliveries.
THEOREM ShownAsSent == moSpec => []SentAsShown
<1>1. MoInv => SentAsShown
  <2> SUFFICES ASSUME MoInv, NEW m \in inbox
               PROVE  Cardinality({d \in inbox : [d EXCEPT !.n = 0] = [m EXCEPT !.n = 0]})
                        <= Cardinality({x \in posted : Sent(m, x)})
    BY DEF SentAsShown, Sent
  <2> DEFINE alike == {d \in inbox : [d EXCEPT !.n = 0] = [m EXCEPT !.n = 0]}
             sent == {x \in posted : Sent(m, x)}
  <2>1. PICK del : Delivers(del)
    BY DEF MoInv
  <2> DEFINE f == [d \in alike |-> del[d]]
  <2>2. ASSUME NEW d \in alike
        PROVE  /\ d.from = m.from /\ d.body = m.body /\ d.kind = m.kind /\ d.ts = m.ts
               /\ d.suite = m.suite
    <3> DEFINE Fields(z) == [from |-> z.from, body |-> z.body, kind |-> z.kind, ts |-> z.ts,
                             suite |-> z.suite, n |-> z.n]
               Zeroed(z) == [from |-> z.from, body |-> z.body, kind |-> z.kind, ts |-> z.ts,
                             suite |-> z.suite, n |-> 0]
    <3>1. ASSUME NEW z, z = Fields(z) PROVE [z EXCEPT !.n = 0] = Zeroed(z)
      BY <3>1
    <3>2. d = Fields(d) /\ m = Fields(m)
      BY DEF MoInv
    <3>3. Zeroed(d) = Zeroed(m)
      BY <3>1, <3>2
    <3>4. QED
      BY <3>3
  <2>3. IsFiniteSet(sent)
    BY FS_Subset DEF MoInv
  <2>4. f \in [alike -> sent] /\ \A a, b \in alike : f[a] = f[b] => a = b
    BY <2>1, <2>2 DEF Delivers, Sent
  <2> HIDE DEF f, alike, sent
  <2>5. f \in Injection(alike, sent)
    BY <2>4 DEF Injection, IsInjective
  <2>6. QED
    BY <2>3, <2>5, FS_Injection DEF alike, sent
<1>2. QED
  BY <1>1, MoteInvariance, PTL

\* Until it is delivered, the envelope an honest person built is accepted, if he did
\* not write under a higher suite: nobody else raises his floor (SuiteRatchet) or
\* uses up the address of his mote.
THEOREM NeverPoisoned == moSpec => []NotPoisoned
<1>1. MoInv => NotPoisoned
  <2> SUFFICES ASSUME MoInv, NEW x \in posted, x.env.to = KeyTag(Us),
                      \A m \in inbox : ~ (m.from = x.env.ciphertext.payload.from
                                          /\ m.body = x.env.ciphertext.payload.body
                                          /\ m.kind = x.env.kind /\ m.ts = x.env.ts)
               PROVE  /\ validate_mote(x.env, TRUE) = "accepted"
                      /\ ratchet_allows(x.env.ciphertext.payload.from, x.env.suite)
                      /\ ~ is_duplicate(x.env.id)
    BY DEF NotPoisoned
  <2>1. WellBuilt(x)
    BY DEF MoInv
  <2>2. validate_mote(x.env, TRUE) = "accepted"
    BY <2>1, WellBuiltAccepted
  <2> DEFINE from == x.env.ciphertext.payload.from
             s == x.env.suite
  <2>3. from[2] = s /\ s \in {1, 2}
    BY <2>1 DEF WellBuilt, Key
  <2> HIDE DEF from, s
  <2>4. ratchet_allows(from, s)
    BY <2>3 DEF MoInv, ratchet_allows, floor
  <2>5. x.env.id = x.env.ciphertext
    BY <2>1 DEF WellBuilt
  <2>6. x.env.ciphertext.aad[2] = x.env.kind /\ x.env.ciphertext.aad[3] = x.env.ts
    BY <2>1 DEF WellBuilt, aad_bytes
  <2>7. x.env.ciphertext \notin recorded
    BY <2>6 DEF MoInv
  <2>8. QED
    BY <2>2, <2>4, <2>5, <2>7 DEF is_duplicate, from, s
<1>2. QED
  BY <1>1, MoteInvariance, PTL

-----------------------------------------------------------------------------
(* Calls.                                                                  *)

Load == [tracks : Nat, bitrate_bps : Nat]

\* Addition keeps the type, and what it returns is within the integers' range.
LEMMA PlusParts ==
  ASSUME NEW l \in Load, NEW m \in Load
  PROVE  /\ plus(l, m) \in Load
         /\ plus(l, m).tracks = saturated(l.tracks + m.tracks, MAX_COUNT)
         /\ plus(l, m).bitrate_bps = saturated(l.bitrate_bps + m.bitrate_bps, MAX_RATE)
  BY CallsAssumption DEF plus, saturated, Load

\* The loop of sum.
Adds(g, loads) ==
  g = [n \in 0 .. Len(loads) |-> IF n = 0 THEN NoLoad ELSE plus(g[n - 1], loads[n])]

\* sum, load after load.
LEMMA SumRounds ==
  ASSUME NEW loads \in Seq(Load)
  PROVE  \E g \in [0 .. Len(loads) -> Load] :
           /\ g[0] = NoLoad
           /\ \A n \in 1 .. Len(loads) : g[n] = plus(g[n - 1], loads[n])
           /\ sum(loads) = g[Len(loads)]
<1> DEFINE N == Len(loads)
           F == [p \in (1 .. N) \X Load |-> plus(p[2], loads[p[1]])]
           c == CHOOSE g : Adds(g, loads)
<1>1. N \in Nat /\ NoLoad \in Load /\ \A n \in 1 .. N : loads[n] \in Load
  BY LenProperties, ElementOfSeq DEF NoLoad, Load
<1> HIDE DEF N
<1>2. F \in Rounds(N, Load)
  BY <1>1, PlusParts DEF Rounds
<1>3. \A n \in 1 .. N, v \in Load : F[<<n, v>>] = plus(v, loads[n])
  OBVIOUS
<1> HIDE DEF F
<1>4. \E g : Adds(g, loads)
  <2>1. PICK h : IsHistory(h, N, Load, NoLoad, F)
    BY <1>1, <1>2, LoopHistory
  <2>2. h \in [0 .. N -> Load] /\ h[0] = NoLoad /\ \A n \in 1 .. N : h[n] = F[<<n, h[n - 1]>>]
    BY <2>1 DEF IsHistory
  <2>3. ASSUME NEW n \in 0 .. N
        PROVE  h[n] = IF n = 0 THEN NoLoad ELSE plus(h[n - 1], loads[n])
    <3>1. CASE n = 0
      BY <2>2, <3>1
    <3>2. CASE n # 0
      <4>1. n \in 1 .. N /\ n - 1 \in 0 .. N
        BY <1>1, <3>2
      <4>2. h[n - 1] \in Load
        BY <2>2, <4>1
      <4>3. QED
        BY <1>3, <2>2, <3>2, <4>1, <4>2
    <3>3. QED
      BY <3>1, <3>2
  <2>4. Adds(h, loads)
    BY <2>2, <2>3 DEF Adds, N
  <2>5. QED
    BY <2>4
<1>5. sum(loads) = c[Len(loads)]
  BY Zenon DEF sum, Adds
<1>6. Adds(c, loads)
  BY <1>4
<1> HIDE DEF c
<1>7. /\ DOMAIN c = 0 .. N
      /\ c = [n \in 0 .. N |-> c[n]]
      /\ \A n \in 0 .. N : c[n] = IF n = 0 THEN NoLoad ELSE plus(c[n - 1], loads[n])
  BY <1>6 DEF Adds, N
<1>8. c[0] = NoLoad
  <2>1. 0 \in 0 .. N
    BY <1>1
  <2>2. QED
    BY <1>7, <2>1, Zenon
<1>9. \A n \in 1 .. N : c[n] = plus(c[n - 1], loads[n])
  <2>1. \A n \in 1 .. N : n \in 0 .. N /\ n # 0
    BY <1>1
  <2>2. QED
    BY <1>7, <2>1
<1>10. \A n \in 0 .. N : c[n] \in Load
  <2>1. c[0] \in Load
    BY <1>1, <1>8
  <2>2. \A n \in 1 .. N : c[n - 1] \in Load => c[n] = F[<<n, c[n - 1]>>]
    BY <1>3, <1>9
  <2>3. QED
    BY <1>1, <1>2, <2>1, <2>2, LoopStays
<1>11. c \in [0 .. N -> Load]
  BY <1>7, <1>10
<1>12. QED
  BY <1>5, <1>8, <1>9, <1>11 DEF N

\* The loop of Tally.
Tallies(g, counts) ==
  g = [n \in 0 .. Len(counts) |-> IF n = 0 THEN 0 ELSE g[n - 1] + counts[n]]

\* Tally, count after count.
LEMMA TallyRounds ==
  ASSUME NEW counts \in Seq(Nat)
  PROVE  \E g \in [0 .. Len(counts) -> Nat] :
           /\ g[0] = 0
           /\ \A n \in 1 .. Len(counts) : g[n] = g[n - 1] + counts[n]
           /\ Tally(counts) = g[Len(counts)]
<1> DEFINE N == Len(counts)
           F == [p \in (1 .. N) \X Nat |-> p[2] + counts[p[1]]]
           c == CHOOSE g : Tallies(g, counts)
<1>1. N \in Nat /\ \A n \in 1 .. N : counts[n] \in Nat
  BY LenProperties, ElementOfSeq
<1> HIDE DEF N
<1>2. F \in Rounds(N, Nat)
  BY <1>1 DEF Rounds
<1>3. \A n \in 1 .. N, v \in Nat : F[<<n, v>>] = v + counts[n]
  OBVIOUS
<1> HIDE DEF F
<1>4. \E g : Tallies(g, counts)
  <2>0. 0 \in Nat
    OBVIOUS
  <2>1. PICK h : IsHistory(h, N, Nat, 0, F)
    BY <1>1, <1>2, <2>0, LoopHistory
  <2>2. h \in [0 .. N -> Nat] /\ h[0] = 0 /\ \A n \in 1 .. N : h[n] = F[<<n, h[n - 1]>>]
    BY <2>1 DEF IsHistory
  <2>3. ASSUME NEW n \in 0 .. N
        PROVE  h[n] = IF n = 0 THEN 0 ELSE h[n - 1] + counts[n]
    <3>1. CASE n = 0
      BY <2>2, <3>1
    <3>2. CASE n # 0
      <4>1. n \in 1 .. N /\ n - 1 \in 0 .. N
        BY <1>1, <3>2
      <4>2. h[n - 1] \in Nat
        BY <2>2, <4>1
      <4>3. QED
        BY <1>3, <2>2, <3>2, <4>1, <4>2
    <3>3. QED
      BY <3>1, <3>2
  <2>4. Tallies(h, counts)
    BY <2>2, <2>3 DEF Tallies, N
  <2>5. QED
    BY <2>4
<1>5. Tally(counts) = c[Len(counts)]
  BY Zenon DEF Tally, Tallies
<1>6. Tallies(c, counts)
  BY <1>4
<1> HIDE DEF c
<1>7. /\ DOMAIN c = 0 .. N
      /\ c = [n \in 0 .. N |-> c[n]]
      /\ \A n \in 0 .. N : c[n] = IF n = 0 THEN 0 ELSE c[n - 1] + counts[n]
  BY <1>6 DEF Tallies, N
<1>8. c[0] = 0
  <2>1. 0 \in 0 .. N
    BY <1>1
  <2>2. QED
    BY <1>7, <2>1, Zenon
<1>9. \A n \in 1 .. N : c[n] = c[n - 1] + counts[n]
  <2>1. \A n \in 1 .. N : n \in 0 .. N /\ n # 0
    BY <1>1
  <2>2. QED
    BY <1>7, <2>1
<1>10. \A n \in 0 .. N : c[n] \in Nat
  <2>1. c[0] \in Nat
    BY <1>8
  <2>2. \A n \in 1 .. N : c[n - 1] \in Nat => c[n] = F[<<n, c[n - 1]>>]
    BY <1>3, <1>9
  <2>3. QED
    BY <1>1, <1>2, <2>1, <2>2, LoopStays
<1>11. c \in [0 .. N -> Nat]
  BY <1>7, <1>10
<1>12. QED
  BY <1>5, <1>8, <1>9, <1>11 DEF N

\* A function on 1 .. N is a list of N.
LEMMA ListOf ==
  ASSUME NEW N \in Nat, NEW S, NEW f \in [1 .. N -> S]
  PROVE  f \in Seq(S) /\ Len(f) = N
<1>1. f \in Seq(S) /\ DOMAIN f = 1 .. N
  BY SeqDef
<1>2. QED
  BY <1>1, LenProperties

\* Saturating sums are exact sums, cut off once.
LEMMA SumIsTally ==
  ASSUME NEW N \in Nat, NEW loads \in [1 .. N -> Load]
  PROVE  /\ sum(loads).tracks = saturated(Tally([n \in 1 .. N |-> loads[n].tracks]), MAX_COUNT)
         /\ sum(loads).bitrate_bps = saturated(Tally([n \in 1 .. N |-> loads[n].bitrate_bps]), MAX_RATE)
<1> DEFINE ts == [n \in 1 .. N |-> loads[n].tracks]
           bs == [n \in 1 .. N |-> loads[n].bitrate_bps]
<1>1. /\ loads \in Seq(Load) /\ Len(loads) = N
      /\ ts \in Seq(Nat) /\ Len(ts) = N
      /\ bs \in Seq(Nat) /\ Len(bs) = N
  <2>1. ts \in [1 .. N -> Nat] /\ bs \in [1 .. N -> Nat]
    BY DEF Load
  <2> HIDE DEF ts, bs
  <2>2. QED
    BY <2>1, SeqDef, LenProperties
<1>2. \A n \in 1 .. N : ts[n] = loads[n].tracks /\ bs[n] = loads[n].bitrate_bps /\ loads[n] \in Load
  OBVIOUS
<1> HIDE DEF ts, bs
<1>3. PICK g \in [0 .. N -> Load] :
        g[0] = NoLoad /\ (\A n \in 1 .. N : g[n] = plus(g[n - 1], loads[n])) /\ sum(loads) = g[N]
  BY <1>1, SumRounds
<1>4. PICK s \in [0 .. N -> Nat] :
        s[0] = 0 /\ (\A n \in 1 .. N : s[n] = s[n - 1] + ts[n]) /\ Tally(ts) = s[N]
  BY <1>1, TallyRounds
<1>5. PICK r \in [0 .. N -> Nat] :
        r[0] = 0 /\ (\A n \in 1 .. N : r[n] = r[n - 1] + bs[n]) /\ Tally(bs) = r[N]
  BY <1>1, TallyRounds
<1> DEFINE Agrees(n) == g[n].tracks = saturated(s[n], MAX_COUNT) /\ g[n].bitrate_bps = saturated(r[n], MAX_RATE)
           T == {n \in 0 .. N : ~ Agrees(n)}
<1>6. Agrees(0)
  BY <1>3, <1>4, <1>5, CallsAssumption DEF NoLoad, saturated
<1>7. ASSUME NEW n \in 1 .. N, Agrees(n - 1) PROVE Agrees(n)
  <2>1. n - 1 \in 0 .. N /\ n \in 0 .. N
    OBVIOUS
  <2>2. /\ g[n - 1] \in Load /\ s[n - 1] \in Nat /\ r[n - 1] \in Nat
        /\ loads[n].tracks \in Nat /\ loads[n].bitrate_bps \in Nat /\ loads[n] \in Load
    BY <1>2, <2>1 DEF Load
  <2>3. /\ g[n].tracks = saturated(g[n - 1].tracks + loads[n].tracks, MAX_COUNT)
        /\ g[n].bitrate_bps = saturated(g[n - 1].bitrate_bps + loads[n].bitrate_bps, MAX_RATE)
    BY <1>3, <2>2, PlusParts
  <2>4. \A a, b, max \in Nat : saturated(saturated(a, max) + b, max) = saturated(a + b, max)
    BY DEF saturated
  <2>5. s[n] = s[n - 1] + loads[n].tracks /\ r[n] = r[n - 1] + loads[n].bitrate_bps
    BY <1>2, <1>4, <1>5
  <2>6. MAX_COUNT \in Nat /\ MAX_RATE \in Nat
    BY CallsAssumption
  <2>7. g[n].tracks = saturated(s[n], MAX_COUNT)
    <3>1. saturated(saturated(s[n - 1], MAX_COUNT) + loads[n].tracks, MAX_COUNT)
            = saturated(s[n - 1] + loads[n].tracks, MAX_COUNT)
      BY <2>2, <2>4, <2>6
    <3>2. QED
      BY <1>7, <2>3, <2>5, <3>1
  <2>8. g[n].bitrate_bps = saturated(r[n], MAX_RATE)
    <3>1. saturated(saturated(r[n - 1], MAX_RATE) + loads[n].bitrate_bps, MAX_RATE)
            = saturated(r[n - 1] + loads[n].bitrate_bps, MAX_RATE)
      BY <2>2, <2>4, <2>6
    <3>2. QED
      BY <1>7, <2>3, <2>5, <3>1
  <2>9. QED
    BY <2>7, <2>8
<1> HIDE DEF Agrees
<1>8. ASSUME T # {} PROVE FALSE
  <2>1. T \subseteq Nat
    OBVIOUS
  <2>2. PICK n \in T : \A y \in T : n <= y
    <3> HIDE DEF T
    <3>1. QED
      BY <1>8, <2>1, LeastNatural
  <2>3. n \in 1 .. N /\ n - 1 \in 0 .. N /\ ~ (n <= n - 1)
    BY <1>6
  <2>4. QED
    BY <1>7, <2>2, <2>3
<1>9. Agrees(N)
  <2>1. N \in 0 .. N
    OBVIOUS
  <2>2. QED
    BY <1>8, <2>1
<1>10. QED
  BY <1>3, <1>4, <1>5, <1>9 DEF Agrees, ts, bs

\* One count that was nothing becomes something.
LEMMA TallyReplaced ==
  ASSUME NEW N \in Nat, NEW f \in [1 .. N -> Nat], NEW g \in [1 .. N -> Nat], NEW p \in 1 .. N,
         f[p] = 0, \A n \in 1 .. N : n # p => g[n] = f[n]
  PROVE  Tally(g) = Tally(f) + g[p]
<1>0. f \in Seq(Nat) /\ Len(f) = N
  BY ListOf
<1>1. g \in Seq(Nat) /\ Len(g) = N
  BY ListOf
<1>2. PICK s \in [0 .. N -> Nat] :
        s[0] = 0 /\ (\A n \in 1 .. N : s[n] = s[n - 1] + f[n]) /\ Tally(f) = s[N]
  BY <1>0, TallyRounds
<1>3. PICK r \in [0 .. N -> Nat] :
        r[0] = 0 /\ (\A n \in 1 .. N : r[n] = r[n - 1] + g[n]) /\ Tally(g) = r[N]
  BY <1>1, TallyRounds
<1> DEFINE Agrees(n) == r[n] = IF n < p THEN s[n] ELSE s[n] + g[p]
           T == {n \in 0 .. N : ~ Agrees(n)}
<1>4. Agrees(0)
  BY <1>2, <1>3
<1>5. ASSUME NEW n \in 1 .. N, Agrees(n - 1) PROVE Agrees(n)
  <2>1. n - 1 \in 0 .. N /\ s[n - 1] \in Nat /\ r[n - 1] \in Nat /\ f[n] \in Nat /\ g[n] \in Nat
    OBVIOUS
  <2>2. s[n] = s[n - 1] + f[n] /\ r[n] = r[n - 1] + g[n]
    BY <1>2, <1>3
  <2>3. CASE n = p
    BY <1>5, <2>1, <2>2, <2>3
  <2>4. CASE n # p
    <3>0. g[n] = f[n]
      BY <2>4
    <3>1. g[n] = f[n] /\ (n - 1 < p <=> n < p)
      <4>1. n \in Int /\ p \in Int
        OBVIOUS
      <4>2. n - 1 < p <=> n < p
        <5> HIDE DEF Agrees
        <5>1. QED
          BY <2>4, <4>1
      <4>3. QED
        BY <3>0, <4>2
    <3>2. g[p] \in Nat
      OBVIOUS
    <3>3. CASE n < p
      BY <1>5, <2>1, <2>2, <3>1, <3>3
    <3>4. CASE ~ (n < p)
      <4>1. r[n - 1] = s[n - 1] + g[p]
        BY <1>5, <3>1, <3>4
      <4>2. QED
        BY <2>1, <2>2, <3>1, <3>2, <3>4, <4>1
    <3>5. QED
      BY <3>3, <3>4
  <2>5. QED
    BY <2>3, <2>4
<1> HIDE DEF Agrees
<1>6. ASSUME T # {} PROVE FALSE
  <2>1. T \subseteq Nat
    OBVIOUS
  <2>2. PICK n \in T : \A y \in T : n <= y
    <3> HIDE DEF T
    <3>1. QED
      BY <1>6, <2>1, LeastNatural
  <2>3. n \in 1 .. N /\ n - 1 \in 0 .. N /\ ~ (n <= n - 1)
    BY <1>4
  <2>4. QED
    BY <1>5, <2>2, <2>3
<1>7. Agrees(N)
  BY <1>6
<1>8. QED
  BY <1>2, <1>3, <1>7 DEF Agrees

\* Nothing, counted.
LEMMA TallyOfNothing ==
  ASSUME NEW N \in Nat, NEW f \in [1 .. N -> Nat], \A n \in 1 .. N : f[n] = 0
  PROVE  Tally(f) = 0
<1>1. f \in Seq(Nat) /\ Len(f) = N
  BY ListOf
<1>2. PICK s \in [0 .. N -> Nat] :
        s[0] = 0 /\ (\A n \in 1 .. N : s[n] = s[n - 1] + f[n]) /\ Tally(f) = s[N]
  BY <1>1, TallyRounds
<1> DEFINE T == {n \in 0 .. N : s[n] # 0}
<1>3. ASSUME T # {} PROVE FALSE
  <2>1. T \subseteq Nat
    OBVIOUS
  <2>2. PICK n \in T : \A y \in T : n <= y
    <3> HIDE DEF T
    <3>1. QED
      BY <1>3, <2>1, LeastNatural
  <2>3. n \in 1 .. N /\ n - 1 \in 0 .. N /\ ~ (n <= n - 1)
    BY <1>2
  <2>4. s[n - 1] = 0
    BY <2>2, <2>3
  <2>5. QED
    BY <1>2, <2>2, <2>3, <2>4
<1>4. QED
  BY <1>2, <1>3

\* Counts add up to a number.
LEMMA TallyNat ==
  ASSUME NEW counts \in Seq(Nat)
  PROVE  Tally(counts) \in Nat
<1>1. Len(counts) \in Nat
  BY LenProperties
<1>2. QED
  BY <1>1, TallyRounds

Track == [media : {"audio", "video"}, purpose : {"main", "slides"},
          direction : {"inactive", "sendrecv"}, declared : SUBSET Nat]

\* A track costs a slot, and a rate.
LEMMA TrackLoadType ==
  ASSUME NEW t \in Track
  PROVE  track_load(t) \in Load /\ track_load(t).tracks = 1
<1>1. kind(t) \in {"audio", "video", "slides"}
  BY DEF kind, Track
<1>2. Floor[kind(t)] \in Nat
  BY <1>1, CallsAssumption
<1>3. budget_bitrate_bps(t) \in Nat
  <2>1. CASE \E k \in t.declared : k > Floor[kind(t)]
    <3>1. (CHOOSE k \in t.declared : TRUE) \in t.declared
      BY <2>1
    <3>2. t.declared \subseteq Nat
      BY DEF Track
    <3>3. QED
      BY <2>1, <3>1, <3>2 DEF budget_bitrate_bps
  <2>2. CASE ~ \E k \in t.declared : k > Floor[kind(t)]
    BY <1>2, <2>2 DEF budget_bitrate_bps
  <2>3. QED
    BY <2>1, <2>2
<1>4. QED
  BY <1>3 DEF track_load, Load

\* The load of a description with tracks is at least one slot.
LEMMA LoadType ==
  ASSUME NEW tracks \in Seq(Track)
  PROVE  /\ load(tracks) \in Load
         /\ tracks # <<>> => load(tracks).tracks > 0
<1> DEFINE N == Len(tracks)
           loads == [i \in 1 .. N |-> track_load(tracks[i])]
<1>1. N \in Nat /\ \A i \in 1 .. N : track_load(tracks[i]) \in Load
  BY LenProperties, ElementOfSeq, TrackLoadType
<1>2. load(tracks) = sum(loads)
  BY DEF load
<1>z. tracks # <<>> => N # 0
  BY EmptySeq, LenProperties
<1> HIDE DEF N
<1>3. loads \in [1 .. N -> Load]
  BY <1>1
<1>4. \A i \in 1 .. N : loads[i] = track_load(tracks[i]) /\ loads[i].tracks = 1 /\ loads[i] \in Load
  <2>1. \A i \in 1 .. N : track_load(tracks[i]).tracks = 1
    BY ElementOfSeq, TrackLoadType DEF N
  <2>2. QED
    BY <1>1, <2>1
<1> HIDE DEF loads
<1>5. loads \in Seq(Load) /\ Len(loads) = N
  BY <1>1, <1>3, SeqDef, LenProperties
<1>6. PICK g \in [0 .. N -> Load] :
        g[0] = NoLoad /\ (\A n \in 1 .. N : g[n] = plus(g[n - 1], loads[n])) /\ sum(loads) = g[N]
  BY <1>5, SumRounds
<1>7. g[N] \in Load
  BY <1>1, <1>6
<1>8. ASSUME N # 0 PROVE g[N].tracks > 0
  <2>1. N \in 1 .. N /\ N - 1 \in 0 .. N
    BY <1>1, <1>8
  <2>2. g[N - 1] \in Load /\ g[N] = plus(g[N - 1], loads[N]) /\ loads[N] \in Load /\ loads[N].tracks = 1
    BY <1>4, <1>6, <2>1
  <2>3. g[N].tracks = saturated(g[N - 1].tracks + 1, MAX_COUNT) /\ g[N - 1].tracks \in Nat
    BY <2>2, PlusParts DEF Load
  <2>4. MAX_COUNT \in Nat /\ MAX_COUNT > 0
    BY CallsAssumption
  <2>5. QED
    BY <2>3, <2>4 DEF saturated
<1>9. QED
  BY <1>2, <1>6, <1>7, <1>8, <1>z

\* The inductive invariant of Calls: the types, and what is forwarded is within
\* what the gateway published.
CallsInv ==
  /\ scanned \in Nat
  /\ sections \in Seq(Track)
  /\ admitted \in [Participants -> Load]
  /\ CallWithinCapacity

\* A gateway without calls.
LEMMA CallsInitInv == callsInit => CallsInv
<1> SUFFICES ASSUME callsInit PROVE CallsInv
  OBVIOUS
<1>1. scanned = 0 /\ sections = <<>> /\ admitted = [p \in Participants |-> NoLoad]
  BY DEF callsInit
<1>2. NoLoad \in Load /\ NoLoad.tracks = 0 /\ NoLoad.bitrate_bps = 0
  BY DEF NoLoad, Load
<1>3. admitted \in [Participants -> Load]
  BY <1>1, <1>2
<1>4. Forwarded("tracks") = 0 /\ Forwarded("bitrate_bps") = 0
  <2> DEFINE ts == [p \in Participants |-> admitted[p]["tracks"]]
             bs == [p \in Participants |-> admitted[p]["bitrate_bps"]]
  <2>1. /\ ts \in [1 .. PARTIES -> Nat] /\ \A p \in 1 .. PARTIES : ts[p] = 0
        /\ bs \in [1 .. PARTIES -> Nat] /\ \A p \in 1 .. PARTIES : bs[p] = 0
    BY <1>1, <1>2 DEF Participants
  <2>2. Forwarded("tracks") = Tally(ts) /\ Forwarded("bitrate_bps") = Tally(bs)
    BY DEF Forwarded
  <2>3. PARTIES \in Nat
    BY CallsAssumption
  <2> HIDE DEF ts, bs
  <2>4. QED
    BY <2>1, <2>2, <2>3, TallyOfNothing
<1>5. CallWithinCapacity
  BY <1>4, CallsAssumption DEF CallWithinCapacity
<1>6. sections \in Seq(Track)
  BY <1>1, EmptySeq
<1>7. QED
  BY <1>1, <1>3, <1>5, <1>6 DEF CallsInv

\* What is admitted beside the others' loads is within the capacity with them.
LEMMA AdmittedFits ==
  ASSUME NEW loads \in [Participants -> Load], NEW p \in Participants, NEW offer \in Load,
         admit(sum([q \in Participants |-> IF q = p THEN NoLoad ELSE loads[q]]), offer, offer)
  PROVE  LET new == [loads EXCEPT ![p] = offer]
         IN  /\ capacity.max_tracks < MAX_COUNT =>
                  Tally([q \in Participants |-> new[q]["tracks"]]) <= capacity.max_tracks
             /\ capacity.max_aggregate_bps < MAX_RATE =>
                  Tally([q \in Participants |-> new[q]["bitrate_bps"]]) <= capacity.max_aggregate_bps
<1> DEFINE N   == PARTIES
           old == [q \in Participants |-> IF q = p THEN NoLoad ELSE loads[q]]
           new == [loads EXCEPT ![p] = offer]
           ot  == [q \in 1 .. N |-> old[q].tracks]
           ob  == [q \in 1 .. N |-> old[q].bitrate_bps]
           nt  == [q \in Participants |-> new[q]["tracks"]]
           nb  == [q \in Participants |-> new[q]["bitrate_bps"]]
<1>0. /\ N \in Nat /\ MAX_COUNT \in Nat /\ MAX_RATE \in Nat
      /\ capacity.max_tracks \in Nat /\ capacity.max_aggregate_bps \in Nat
  BY CallsAssumption
<1>1. NoLoad \in Load /\ NoLoad.tracks = 0 /\ NoLoad.bitrate_bps = 0
  BY DEF NoLoad, Load
<1>2. /\ p \in 1 .. N
      /\ old \in [1 .. N -> Load] /\ old[p] = NoLoad
      /\ new \in [1 .. N -> Load] /\ new[p] = offer
      /\ \A q \in 1 .. N : q # p => new[q] = old[q]
  BY <1>1 DEF Participants
<1> HIDE DEF old, new
<1>3. /\ ot \in [1 .. N -> Nat] /\ ob \in [1 .. N -> Nat]
      /\ nt \in [1 .. N -> Nat] /\ nb \in [1 .. N -> Nat]
      /\ ot[p] = 0 /\ ob[p] = 0
      /\ nt[p] = offer.tracks /\ nb[p] = offer.bitrate_bps
      /\ \A q \in 1 .. N : q # p => nt[q] = ot[q] /\ nb[q] = ob[q]
  BY <1>1, <1>2 DEF Load, Participants
<1>4. /\ sum(old).tracks = saturated(Tally(ot), MAX_COUNT)
      /\ sum(old).bitrate_bps = saturated(Tally(ob), MAX_RATE)
  BY <1>0, <1>2, SumIsTally
<1> HIDE DEF ot, ob, nt, nb
<1>5. Tally(nt) = Tally(ot) + offer.tracks /\ Tally(nb) = Tally(ob) + offer.bitrate_bps
  BY <1>0, <1>2, <1>3, TallyReplaced
<1>6. Tally(ot) \in Nat /\ Tally(ob) \in Nat /\ offer.tracks \in Nat /\ offer.bitrate_bps \in Nat
  <2>1. ot \in Seq(Nat) /\ ob \in Seq(Nat)
    BY <1>0, <1>3, SeqDef
  <2>2. QED
    BY <2>1, TallyNat DEF Load
<1>7. /\ saturated(sum(old).tracks + offer.tracks, MAX_COUNT) <= capacity.max_tracks
      /\ saturated(sum(old).bitrate_bps + offer.bitrate_bps, MAX_RATE) <= capacity.max_aggregate_bps
  BY DEF admit, plus, old
<1>8. capacity.max_tracks < MAX_COUNT => Tally(nt) <= capacity.max_tracks
  BY <1>0, <1>4, <1>5, <1>6, <1>7 DEF saturated
<1>9. capacity.max_aggregate_bps < MAX_RATE => Tally(nb) <= capacity.max_aggregate_bps
  BY <1>0, <1>4, <1>5, <1>6, <1>7 DEF saturated
<1>10. QED
  BY <1>8, <1>9 DEF nt, nb, new

\* Every step of a gateway and of the descriptions it reads.
LEMMA CallsNextInv == CallsInv /\ [callsNext]_callsVars => CallsInv'
<1> SUFFICES ASSUME CallsInv, [callsNext]_callsVars PROVE CallsInv'
  OBVIOUS
<1>0. /\ scanned \in Nat /\ sections \in Seq(Track) /\ admitted \in [Participants -> Load]
      /\ CallWithinCapacity /\ <<>> \in Seq(Track) /\ Participants \subseteq Nat
  BY EmptySeq DEF CallsInv, Participants
<1>1. ASSUME scanned' \in Nat, sections' \in Seq(Track), admitted' = admitted
      PROVE  CallsInv'
  BY <1>0, <1>1 DEF CallsInv, CallWithinCapacity, Forwarded
<1>2. ASSUME NEW p \in Participants, NEW typ, signal(p, typ) PROVE CallsInv'
  BY <1>0, <1>1, <1>2 DEF signal
<1>3. ASSUME NEW media \in {"audio", "video"}, NEW protected \in BOOLEAN, m_line(media, protected)
      PROVE  CallsInv'
  <2> DEFINE t == [media |-> media, purpose |-> "main", direction |-> "sendrecv", declared |-> {}]
  <2>1. t \in Track
    BY DEF Track
  <2> HIDE DEF t
  <2>2. Append(sections, t) \in Seq(Track)
    BY <1>0, <2>1, AppendProperties
  <2>3. /\ admitted' = admitted
        /\ (sections' = Append(sections, t) /\ scanned' = scanned) \/ (sections' = <<>> /\ scanned' = 0)
    BY <1>3 DEF m_line, t
  <2>4. scanned' \in Nat /\ sections' \in Seq(Track)
    <3>1. 0 \in Nat
      OBVIOUS
    <3>2. QED
      BY <1>0, <2>2, <2>3, <3>1, Zenon
  <2>5. QED
    BY <1>1, <2>3, <2>4
<1>4. ASSUME NEW field, NEW value, attribute(field, value),
             \A t \in Track : [t EXCEPT ![field] = value] \in Track
      PROVE  CallsInv'
  <2> DEFINE n == Len(sections)
             t == [sections[n] EXCEPT ![field] = value]
  <2>1. n \in Nat /\ n \in DOMAIN sections /\ sections \in [1 .. n -> Track] /\ n \in 1 .. n
    BY <1>0, <1>4, LenProperties, EmptySeq DEF attribute
  <2>2. t \in Track
    BY <1>4, <2>1
  <2>3. sections' = [sections EXCEPT ![n] = t]
    BY <1>4 DEF attribute
  <2> HIDE DEF n, t
  <2>4. sections' \in [1 .. n -> Track]
    BY <2>1, <2>2, <2>3
  <2>5. sections' \in Seq(Track)
    BY <2>1, <2>4, SeqDef
  <2>6. QED
    BY <1>0, <1>1, <1>4, <2>5 DEF attribute
<1>5. CASE attribute("purpose", "slides")
  <2>1. \A t \in Track : [t EXCEPT !["purpose"] = "slides"] \in Track
    BY DEF Track
  <2>2. QED
    BY <1>4, <1>5, <2>1
<1>6. ASSUME NEW d \in {"inactive", "sendrecv"}, attribute("direction", d) PROVE CallsInv'
  <2>1. \A t \in Track : [t EXCEPT !["direction"] = d] \in Track
    BY DEF Track
  <2>2. QED
    BY <1>4, <1>6, <2>1
<1>7. ASSUME NEW k \in Declared, attribute("declared", {saturated(k * KILO, MAX_RATE)})
      PROVE  CallsInv'
  <2>1. saturated(k * KILO, MAX_RATE) \in Nat
    BY CallsAssumption DEF saturated
  <2>2. \A t \in Track : [t EXCEPT !["declared"] = {saturated(k * KILO, MAX_RATE)}] \in Track
    BY <2>1 DEF Track
  <2>3. QED
    BY <1>4, <1>7, <2>2
<1>8. CASE offered
  <2> DEFINE offer == load(sections)
             others == sum([p \in Participants |-> IF p = scanned THEN NoLoad ELSE admitted[p]])
  <2>1. scanned \in Participants /\ scanned' = 0 /\ sections' = <<>>
    BY <1>8 DEF offered
  <2>2. offer \in Load
    BY <1>0, LoadType
  <2>3. admitted' = IF admit(others, offer, offer) THEN [admitted EXCEPT ![scanned] = offer] ELSE admitted
    BY <1>8 DEF offered
  <2> HIDE DEF offer
  <2>4. CASE ~ admit(others, offer, offer)
    BY <1>0, <1>1, <2>1, <2>3, <2>4
  <2>5. CASE admit(others, offer, offer)
    <3>1. admitted' = [admitted EXCEPT ![scanned] = offer]
      BY <2>3, <2>5
    <3>2. admitted' \in [Participants -> Load]
      BY <1>0, <2>1, <2>2, <3>1
    <3>3. CallWithinCapacity'
      <4>1. PICK loads, p : loads = admitted /\ p = scanned
        OBVIOUS
      <4>2. /\ loads \in [Participants -> Load] /\ p \in Participants
            /\ admit(sum([q \in Participants |-> IF q = p THEN NoLoad ELSE loads[q]]), offer, offer)
        BY <1>0, <2>1, <2>5, <4>1
      <4> DEFINE new == [loads EXCEPT ![p] = offer]
      <4>3. /\ capacity.max_tracks < MAX_COUNT =>
                 Tally([q \in Participants |-> new[q]["tracks"]]) <= capacity.max_tracks
            /\ capacity.max_aggregate_bps < MAX_RATE =>
                 Tally([q \in Participants |-> new[q]["bitrate_bps"]]) <= capacity.max_aggregate_bps
        BY <2>2, <4>2, AdmittedFits
      <4>4. admitted' = new
        BY <3>1, <4>1
      <4> HIDE DEF new
      <4>5. QED
        BY <4>3, <4>4 DEF CallWithinCapacity, Forwarded
    <3>4. QED
      BY <1>0, <2>1, <3>2, <3>3 DEF CallsInv
  <2>6. QED
    BY <2>4, <2>5
<1>9. CASE UNCHANGED callsVars
  BY <1>0, <1>1, <1>9 DEF callsVars
<1>10. QED
  BY <1>2, <1>3, <1>5, <1>6, <1>7, <1>8, <1>9 DEF callsNext

\* How often per fits into all: so often, and not once more.
LEMMA SharesExact ==
  ASSUME NEW all \in Nat, NEW per \in Nat, NEW s \in Nat
  PROVE  /\ shares(all, per) \in Nat
         /\ shares(all, per) <= MAX_COUNT
         /\ s <= shares(all, per) => per * s <= all
         /\ s = shares(all, per) /\ s < MAX_COUNT => per # 0 /\ per * (s + 1) > all
<1>0. MAX_COUNT \in Nat
  BY CallsAssumption
<1>1. CASE per = 0
  BY <1>0, <1>1 DEF shares
<1>2. CASE per # 0
  <2> DEFINE q == all \div per
  <2>1. q \in Nat /\ per * q <= all /\ all < per * (q + 1)
    BY <1>2
  <2>2. shares(all, per) = IF q > MAX_COUNT THEN MAX_COUNT ELSE q
    BY <1>2 DEF shares, saturated
  <2> HIDE DEF q
  <2>3. ASSUME s <= q PROVE per * s <= per * q
    BY <2>1, <2>3
  <2>4. s <= shares(all, per) => s <= q
    BY <1>0, <2>1, <2>2
  <2>5. s <= shares(all, per) => per * s <= all
    BY <2>1, <2>3, <2>4
  <2>6. s = shares(all, per) /\ s < MAX_COUNT => s = q
    BY <1>0, <2>1, <2>2
  <2>7. QED
    BY <1>0, <1>2, <2>1, <2>2, <2>5, <2>6
<1>3. QED
  BY <1>1, <1>2

\* The least of three numbers.
LEMMA LeastOfThree ==
  ASSUME NEW x \in Nat, NEW y \in Nat, NEW z \in Nat
  PROVE  /\ Min({x, y, z}) \in {x, y, z}
         /\ Min({x, y, z}) <= x /\ Min({x, y, z}) <= y /\ Min({x, y, z}) <= z
<1>1. \E v \in {x, y, z} : \A w \in {x, y, z} : v <= w
  <2>1. CASE x <= y /\ x <= z
    BY <2>1
  <2>2. CASE y <= x /\ y <= z
    BY <2>2
  <2>3. CASE z <= x /\ z <= y
    BY <2>3
  <2>4. QED
    BY <2>1, <2>2, <2>3
<1>2. QED
  BY <1>1 DEF Min

\* The capacity a peer derives from its resources is a capacity.
LEMMA MeshParts ==
  ASSUME NEW r \in Resources
  PROVE  /\ from_local_resources(r).max_tracks \in Nat
         /\ from_local_resources(r).max_send \in Nat
         /\ from_local_resources(r).max_recv \in Nat
<1>1. /\ MAX_COUNT \in Nat /\ MAX_RATE \in Nat /\ TRACKS_PER_CORE \in Nat
      /\ r.cores \in Nat /\ r.uplink \in Nat /\ r.downlink \in Nat
  BY CallsAssumption
<1>2. \A n, max \in Nat : saturated(n, max) \in Nat
  BY DEF saturated
<1>3. \A n \in Nat : n \div 4 \in Nat
  OBVIOUS
<1>4. r.cores * TRACKS_PER_CORE \in Nat /\ r.uplink * 3 \in Nat /\ r.downlink * 3 \in Nat
  BY <1>1
<1>5. /\ saturated(r.cores * TRACKS_PER_CORE, MAX_COUNT) \in Nat
      /\ saturated(r.uplink * 3, MAX_RATE) \div 4 \in Nat
      /\ saturated(r.downlink * 3, MAX_RATE) \div 4 \in Nat
  BY <1>1, <1>2, <1>3, <1>4
<1>6. QED
  BY <1>5 DEF from_local_resources

\* The ceiling is exact, for every capacity and every load with a track.
LEMMA CeilingFits ==
  ASSUME NEW mesh, mesh.max_tracks \in Nat, mesh.max_send \in Nat, mesh.max_recv \in Nat,
         NEW per \in Load, per.tracks > 0
  PROVE  LET n == mesh_participant_ceiling(mesh, per)
         IN  /\ n = 1 \/ Fits(mesh, per, n)
             /\ n = MAX_COUNT \/ ~ Fits(mesh, per, n + 1)
<1>1. PICK T, B, M, S, R, X :
        /\ T = per.tracks /\ B = per.bitrate_bps
        /\ M = mesh.max_tracks /\ S = mesh.max_send /\ R = mesh.max_recv /\ X = MAX_COUNT
  OBVIOUS
<1>2. T \in Nat /\ T > 0 /\ B \in Nat /\ M \in Nat /\ S \in Nat /\ R \in Nat /\ X \in Nat /\ X > 1
  BY <1>1, CallsAssumption DEF Load
<1>3. PICK rest : rest = IF T > M THEN 0 ELSE M - T
  OBVIOUS
<1>4. rest \in Nat
  BY <1>2, <1>3
<1>5. PICK x, y, z : x = shares(rest, T) /\ y = shares(S, B) /\ z = shares(R, B)
  OBVIOUS
<1>6. PICK s : s = Min({x, y, z})
  OBVIOUS
<1>7. x \in Nat /\ y \in Nat /\ z \in Nat /\ x <= X /\ y <= X /\ z <= X
  BY <1>1, <1>2, <1>4, <1>5, SharesExact
<1>8. s \in Nat /\ s \in {x, y, z} /\ s <= x /\ s <= y /\ s <= z /\ s <= X
  BY <1>6, <1>7, LeastOfThree
<1>9. PICK n : n = mesh_participant_ceiling(mesh, per)
  OBVIOUS
<1>10. n = IF s + 1 > X THEN X ELSE s + 1
  BY <1>1, <1>3, <1>5, <1>6, <1>9 DEF mesh_participant_ceiling, saturated
<1>11. n \in Nat /\ n > 0 /\ n - 1 \in Nat /\ n - 1 <= s
  BY <1>2, <1>8, <1>10
<1>12. n = 1 \/ Fits(mesh, per, n)
  <2>1. n - 1 <= x /\ n - 1 <= y /\ n - 1 <= z
    BY <1>7, <1>8, <1>11
  <2>2. T * (n - 1) <= rest /\ B * (n - 1) <= S /\ B * (n - 1) <= R
    BY <1>2, <1>4, <1>5, <1>11, <2>1, SharesExact
  <2>3. CASE T > M
    <3>1. T * (n - 1) <= 0
      BY <1>3, <2>2, <2>3
    <3>2. n - 1 = 0
      BY <1>2, <1>11, <3>1
    <3>3. QED
      BY <1>11, <3>2
  <2>4. CASE ~ (T > M)
    <3>1. T * (n - 1) <= M - T
      BY <1>3, <2>2, <2>4
    <3>2. T * n = T * (n - 1) + T
      BY <1>2, <1>11
    <3>3. T * (n - 1) \in Nat
      BY <1>2, <1>11
    <3>4. T * n <= M
      BY <1>2, <3>1, <3>2, <3>3
    <3>5. QED
      BY <1>1, <2>2, <3>4 DEF Fits
  <2>5. QED
    BY <2>3, <2>4
<1>13. n = X \/ ~ Fits(mesh, per, n + 1)
  <2> SUFFICES ASSUME n # X PROVE ~ Fits(mesh, per, n + 1)
    OBVIOUS
  <2>1. n = s + 1 /\ s < X
    BY <1>2, <1>8, <1>10
  <2>2. CASE s = x
    <3>1. T * (s + 1) > rest
      BY <1>1, <1>2, <1>4, <1>5, <1>8, <2>1, <2>2, SharesExact
    <3>2. T * (n + 1) = T * (s + 1) + T /\ T * (s + 1) \in Nat
      BY <1>2, <1>8, <2>1
    <3>3. ~ (T * (n + 1) <= M)
      BY <1>2, <1>3, <1>4, <3>1, <3>2
    <3>4. QED
      BY <1>1, <3>3 DEF Fits
  <2>3. CASE s = y
    <3>1. B * (s + 1) > S
      BY <1>1, <1>2, <1>5, <1>8, <2>1, <2>3, SharesExact
    <3>2. (n + 1) - 1 = s + 1 /\ B * (s + 1) \in Nat
      BY <1>2, <1>8, <2>1
    <3>3. ~ (B * ((n + 1) - 1) <= S)
      BY <1>2, <3>1, <3>2
    <3>4. QED
      BY <1>1, <3>3 DEF Fits
  <2>4. CASE s = z
    <3>1. B * (s + 1) > R
      BY <1>1, <1>2, <1>5, <1>8, <2>1, <2>4, SharesExact
    <3>2. (n + 1) - 1 = s + 1 /\ B * (s + 1) \in Nat
      BY <1>2, <1>8, <2>1
    <3>3. ~ (B * ((n + 1) - 1) <= R)
      BY <1>2, <3>1, <3>2
    <3>4. QED
      BY <1>1, <3>3 DEF Fits
  <2>5. QED
    BY <1>8, <2>2, <2>3, <2>4
<1>14. QED
  BY <1>1, <1>9, <1>12, <1>13

\* The gateway's totals are kept for any number of participants, tracks and
\* renegotiations.
THEOREM CallsInvariance == callsSpec => []CallsInv
<1>1. callsInit => CallsInv
  BY CallsInitInv
<1>2. QED
  BY <1>1, CallsNextInv, PTL DEF callsSpec

\* What a gateway forwards stays within what it published, although the sums it
\* compares saturate: whatever is declared, offered again and replaced.
THEOREM CallsFit == callsSpec => []CallWithinCapacity
<1>1. CallsInv => CallWithinCapacity
  BY DEF CallsInv
<1>2. QED
  BY <1>1, CallsInvariance, PTL

\* mesh_participant_ceiling is exact for every description a peer reads and all
\* of its resources: so many participants fit and one more does not.
THEOREM CeilingsExact == callsSpec => []CeilingExact
<1>1. CallsInv => CeilingExact
  <2> SUFFICES ASSUME CallsInv, sections # <<>>, NEW r \in Resources
               PROVE  LET mesh == from_local_resources(r)
                          per  == load(sections)
                          n    == mesh_participant_ceiling(mesh, per)
                      IN  /\ n = 1 \/ Fits(mesh, per, n)
                          /\ n = MAX_COUNT \/ ~ Fits(mesh, per, n + 1)
    BY DEF CeilingExact
  <2>1. PICK mesh, per : mesh = from_local_resources(r) /\ per = load(sections)
    OBVIOUS
  <2>2. per \in Load /\ per.tracks > 0
    BY <2>1, LoadType DEF CallsInv
  <2>3. mesh.max_tracks \in Nat /\ mesh.max_send \in Nat /\ mesh.max_recv \in Nat
    BY <2>1, MeshParts
  <2>4. QED
    BY <2>1, <2>2, <2>3, CeilingFits
<1>2. QED
  BY <1>1, CallsInvariance, PTL
-----------------------------------------------------------------------------
(* Files.                                                                  *)

\* One more count.
LEMMA TallyAppended ==
  ASSUME NEW f \in Seq(Nat), NEW m \in Nat
  PROVE  Append(f, m) \in Seq(Nat) /\ Tally(Append(f, m)) = Tally(f) + m
<1>1. PICK N, g : N = Len(f) /\ g = Append(f, m)
  OBVIOUS
<1>0. N \in Nat
  BY <1>1, LenProperties
<1>2. /\ g \in Seq(Nat) /\ Len(g) = N + 1 /\ g[N + 1] = m
      /\ \A n \in 1 .. N : g[n] = f[n]
  BY <1>0, <1>1, AppendProperties
<1>3. \A n \in 1 .. N : f[n] \in Nat
  BY <1>1, ElementOfSeq
<1>4. PICK s \in [0 .. N -> Nat] :
        s[0] = 0 /\ (\A n \in 1 .. N : s[n] = s[n - 1] + f[n]) /\ Tally(f) = s[N]
  BY <1>0, <1>1, TallyRounds
<1>5. PICK r \in [0 .. N + 1 -> Nat] :
        r[0] = 0 /\ (\A n \in 1 .. N + 1 : r[n] = r[n - 1] + g[n]) /\ Tally(g) = r[N + 1]
  BY <1>0, <1>2, TallyRounds
<1> DEFINE T == {n \in 0 .. N : r[n] # s[n]}
<1>6. ASSUME T # {} PROVE FALSE
  <2>1. T \subseteq Nat
    BY <1>0
  <2>2. PICK n \in T : \A y \in T : n <= y
    <3> HIDE DEF T
    <3>1. QED
      BY <1>6, <2>1, LeastNatural
  <2>3. n \in 1 .. N /\ n \in 1 .. N + 1 /\ n - 1 \in 0 .. N /\ ~ (n <= n - 1)
    BY <1>0, <1>4, <1>5
  <2>4. r[n - 1] = s[n - 1]
    BY <2>2, <2>3
  <2>5. r[n] = r[n - 1] + g[n] /\ s[n] = s[n - 1] + f[n] /\ g[n] = f[n]
    BY <1>2, <1>4, <1>5, <2>3
  <2>6. QED
    BY <1>0, <2>2, <2>3, <2>4, <2>5
<1>7. N \in 0 .. N /\ N + 1 \in 1 .. N + 1 /\ (N + 1) - 1 = N
  BY <1>0
<1>8. r[N] = s[N]
  BY <1>6, <1>7
<1>9. r[N + 1] = r[N] + m
  BY <1>2, <1>5, <1>7
<1>10. QED
  BY <1>1, <1>2, <1>4, <1>5, <1>8, <1>9

\* An empty list adds up to nothing.
LEMMA TallyOfNone == Tally(<<>>) = 0
<1>1. <<>> \in Seq(Nat) /\ Len(<<>>) = 0
  BY EmptySeq
<1>2. QED
  BY <1>1, TallyRounds

\* What is taken from a sender and stored for a publisher, in sizes.
FilesInv ==
  /\ pushed \in [Senders -> Seq(Nat)]
  /\ stored \in [Senders -> Seq(Nat)]
  /\ spool \in [Senders -> Nat]
  /\ StorageBounded

\* Nothing is taken or stored at first.
LEMMA FilesInitInv == filesInit => FilesInv
<1> SUFFICES ASSUME filesInit PROVE FilesInv
  OBVIOUS
<1>1. <<>> \in Seq(Nat)
  BY EmptySeq
<1>2. /\ pushed \in [Senders -> Seq(Nat)]
      /\ stored \in [Senders -> Seq(Nat)]
      /\ spool \in [Senders -> Nat]
  BY <1>1 DEF filesInit
<1>3. ASSUME NEW s \in Senders PROVE spool[s] = 0 /\ pushed[s] = <<>> /\ stored[s] = <<>>
  BY DEF filesInit
<1>4. StorageBounded
  <2>1. cap \in Nat /\ per_publisher_quota \subseteq Nat
    BY FilesAssumption
  <2>2. ASSUME NEW s \in Senders PROVE spool[s] = 0 /\ Tally(pushed[s]) = 0 /\ Tally(stored[s]) = 0
    <3>1. spool[s] = 0 /\ pushed[s] = <<>> /\ stored[s] = <<>>
      BY <1>3
    <3>2. QED
      BY <3>1, TallyOfNone, Zenon
  <2>3. QED
    BY <2>1, <2>2 DEF StorageBounded
<1>5. QED
  BY <1>2, <1>4 DEF FilesInv

\* A push and a stored object add their size; every other step leaves the sizes
\* alone.
LEMMA FilesNextInv == FilesInv /\ [filesNext]_filesVars => FilesInv'
<1> SUFFICES ASSUME FilesInv, [filesNext]_filesVars PROVE FilesInv'
  OBVIOUS
<1>1. ASSUME NEW s \in Senders, NEW a \in Attachments, push(s, a) PROVE FilesInv'
  <2>1. /\ spool' = [spool EXCEPT ![s] = spool[s] + a.size]
        /\ spool[s] + a.size <= cap
        /\ pushed' = [pushed EXCEPT ![s] = Append(pushed[s], a.size)]
        /\ stored' = stored
    BY <1>1 DEF push, spool_admit
  <2>2. pushed[s] \in Seq(Nat) /\ spool[s] \in Nat /\ a.size \in Nat /\ spool[s] = Tally(pushed[s])
    BY FilesAssumption DEF FilesInv, StorageBounded
  <2>3. Append(pushed[s], a.size) \in Seq(Nat) /\ Tally(Append(pushed[s], a.size)) = Tally(pushed[s]) + a.size
    BY <2>2, TallyAppended
  <2>4. /\ pushed' \in [Senders -> Seq(Nat)]
        /\ stored' \in [Senders -> Seq(Nat)]
        /\ spool' \in [Senders -> Nat]
    BY <2>1, <2>2, <2>3 DEF FilesInv
  <2>5. ASSUME NEW t \in Senders
        PROVE  /\ spool'[t] = Tally(pushed'[t])
               /\ Tally(pushed'[t]) <= cap
               /\ \A quota \in per_publisher_quota : quota < U64_MAX => Tally(stored'[t]) <= quota
    <3>1. CASE t = s
      <4>1. spool'[t] = spool[s] + a.size /\ pushed'[t] = Append(pushed[s], a.size)
        BY <2>1, <3>1 DEF FilesInv
      <4>2. QED
        BY <2>1, <2>2, <2>3, <4>1 DEF FilesInv, StorageBounded
    <3>2. CASE t # s
      <4>1. spool'[t] = spool[t] /\ pushed'[t] = pushed[t]
        BY <2>1, <3>2 DEF FilesInv
      <4>2. QED
        BY <2>1, <4>1 DEF FilesInv, StorageBounded
    <3>3. QED
      BY <3>1, <3>2
  <2>6. StorageBounded'
    BY <2>5 DEF StorageBounded
  <2>7. QED
    BY <2>4, <2>6 DEF FilesInv
<1>2. ASSUME NEW s \in Senders, NEW object \in Objects, store(s, object) PROVE FilesInv'
  <2>1. /\ stored' = [stored EXCEPT ![s] = Append(stored[s], object.size)]
        /\ spool' = spool /\ pushed' = pushed
    BY <1>2 DEF store
  <2>2. stored[s] \in Seq(Nat) /\ object.size \in Nat
    BY FilesAssumption DEF FilesInv
  <2>3. /\ Append(stored[s], object.size) \in Seq(Nat)
        /\ Tally(Append(stored[s], object.size)) = Tally(stored[s]) + object.size
        /\ Tally(stored[s]) \in Nat
    BY <2>2, TallyAppended, TallyNat
  <2>4. ASSUME NEW quota \in per_publisher_quota, quota < U64_MAX
        PROVE  Tally(stored[s]) + object.size <= quota
    <3>1. saturating_add(Tally(stored[s]), object.size) <= quota
      BY <1>2 DEF store, serve_admit
    <3>2. quota \in Nat /\ U64_MAX \in Nat
      BY FilesAssumption
    <3>3. QED
      BY <2>2, <2>3, <2>4, <3>1, <3>2 DEF saturating_add
  <2>5. /\ pushed' \in [Senders -> Seq(Nat)]
        /\ stored' \in [Senders -> Seq(Nat)]
        /\ spool' \in [Senders -> Nat]
    BY <2>1, <2>3 DEF FilesInv
  <2>6. ASSUME NEW t \in Senders, NEW quota \in per_publisher_quota, quota < U64_MAX
        PROVE  Tally(stored'[t]) <= quota
    <3>1. CASE t = s
      <4>1. stored'[t] = Append(stored[s], object.size)
        BY <2>1, <3>1 DEF FilesInv
      <4>2. QED
        BY <2>3, <2>4, <2>6, <4>1
    <3>2. CASE t # s
      <4>1. stored'[t] = stored[t]
        BY <2>1, <3>2 DEF FilesInv
      <4>2. QED
        BY <2>6, <4>1 DEF FilesInv, StorageBounded
    <3>3. QED
      BY <3>1, <3>2
  <2>7. StorageBounded'
    BY <2>1, <2>6 DEF FilesInv, StorageBounded
  <2>8. QED
    BY <2>5, <2>7 DEF FilesInv
<1>3. ASSUME UNCHANGED <<spool, pushed, stored>> PROVE FilesInv'
  BY <1>3 DEF FilesInv, StorageBounded
<1>4. ASSUME NEW a, refer(a) PROVE FilesInv'
  BY <1>3, <1>4 DEF refer
<1>5. ASSUME NEW ref, fetch(ref) PROVE FilesInv'
  BY <1>3, <1>5 DEF fetch
<1>6. CASE age
  BY <1>3, <1>6 DEF age
<1>7. CASE UNCHANGED filesVars
  BY <1>3, <1>7 DEF filesVars
<1>8. QED
  BY <1>1, <1>2, <1>4, <1>5, <1>6, <1>7 DEF filesNext

\* The limits on what senders push and publishers have stored hold for any
\* sizes, any number of senders and any number of files.
THEOREM StorageStaysBounded == filesSpec => []StorageBounded
<1>1. filesInit => FilesInv
  BY FilesInitInv
<1>2. filesSpec => []FilesInv
  BY <1>1, FilesNextInv, PTL DEF filesSpec
<1>3. FilesInv => StorageBounded
  BY DEF FilesInv
<1>4. QED
  BY <1>2, <1>3, PTL
=============================================================================
