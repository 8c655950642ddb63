-------------------------------- MODULE Calls --------------------------------
(***************************************************************************)
(* Capacity of a real-time call, rtc.rs: the session description that a     *)
(* participant signals is scanned line by line into tracks, and these are    *)
(* admitted or refused by a gateway's published capacity; a mesh peer         *)
(* computes from its own resources how many participants it can meet.         *)
(*                                                                         *)
(* MAX_COUNT and MAX_RATE stand for u32::MAX and u64::MAX; rates are in a    *)
(* coarse unit, Floor gives the least charge by kind.  An absent optional    *)
(* value is {}.  Participants are numbered.                                  *)
(***************************************************************************)
EXTENDS Sums, FiniteSetsExt

CONSTANTS PARTIES,               \* the number of participants
          Floor,                 \* kind of track -> rate
          Declared,              \* the values of b=AS lines
          KILO,                  \* 1000
          MAX_COUNT, MAX_RATE,
          capacity,              \* the gateway's RtcCapacity
          Resources,             \* [cores, uplink, downlink] of mesh peers
          TRACKS_PER_CORE,
          MaxSections            \* bound: m= lines of a description

ASSUME CallsAssumption ==
  /\ PARTIES \in Nat
  /\ Floor \in [{"audio", "video", "slides"} -> Nat]
  /\ Declared \subseteq Nat /\ KILO \in Nat
  /\ MAX_COUNT \in Nat \ {0, 1} /\ MAX_RATE \in Nat
  /\ capacity.max_tracks \in Nat /\ capacity.max_aggregate_bps \in Nat
  /\ Resources \subseteq [cores : Nat, uplink : Nat, downlink : Nat]
  /\ TRACKS_PER_CORE \in Nat

Participants == 1 .. PARTIES

VARIABLES
  scanned,    \* the sender of the description being read, or 0
  sections,   \* the tracks scanned so far
  admitted    \* per participant: the load the gateway admitted

callsVars == <<scanned, sections, admitted>>

-----------------------------------------------------------------------------
(* Signals.                                                                *)

carries_sdp(typ) == typ \in {"offer", "pranswer", "answer"}

-----------------------------------------------------------------------------
(* Loads.                                                                  *)

saturated(n, max) == IF n > max THEN max ELSE n

kind(track) ==
  IF track.media = "video" /\ track.purpose = "slides" THEN "slides" ELSE track.media

\* A declared rate can only raise the charge.
budget_bitrate_bps(track) ==
  IF \E k \in track.declared : k > Floor[kind(track)]
  THEN CHOOSE k \in track.declared : TRUE
  ELSE Floor[kind(track)]

NoLoad == [tracks |-> 0, bitrate_bps |-> 0]

\* Mutant of plus: the sums wrap around.
plus_wrapping(l, m) ==
  [tracks      |-> (l.tracks + m.tracks) % (MAX_COUNT + 1),
   bitrate_bps |-> (l.bitrate_bps + m.bitrate_bps) % (MAX_RATE + 1)]

plus(l, m) ==
  [tracks      |-> saturated(l.tracks + m.tracks, MAX_COUNT),
   bitrate_bps |-> saturated(l.bitrate_bps + m.bitrate_bps, MAX_RATE)]

\* A muted track holds its slot and costs no bandwidth.
track_load(t) ==
  [tracks |-> 1, bitrate_bps |-> IF t.direction = "inactive" THEN 0 ELSE budget_bitrate_bps(t)]

\* Loads added up one after another.
sum(loads) ==
  LET of[n \in 0 .. Len(loads)] == IF n = 0 THEN NoLoad ELSE plus(of[n - 1], loads[n])
  IN  of[Len(loads)]

\* MediaLoad::of.
load(tracks) == sum([i \in 1 .. Len(tracks) |-> track_load(tracks[i])])

-----------------------------------------------------------------------------
(* Ceilings.                                                               *)

\* Three quarters of the links, four tracks a core, at least two.
from_local_resources(r) ==
  [max_tracks |-> LET n == saturated(r.cores * TRACKS_PER_CORE, MAX_COUNT) IN IF n < 2 THEN 2 ELSE n,
   max_send   |-> saturated(r.uplink * 3, MAX_RATE) \div 4,
   max_recv   |-> saturated(r.downlink * 3, MAX_RATE) \div 4]

\* How often per fits into all.
shares(all, per) == IF per = 0 THEN MAX_COUNT ELSE saturated(all \div per, MAX_COUNT)

\* Mutant of mesh_participant_ceiling: the peer's own tracks take no slot.
mesh_participant_ceiling_free(mesh, per) ==
  saturated(Min({shares(mesh.max_tracks, per.tracks), shares(mesh.max_send, per.bitrate_bps),
                 shares(mesh.max_recv, per.bitrate_bps)}) + 1, MAX_COUNT)

\* The peer encodes its own tracks once and sends them to every other, whose
\* tracks it decodes.
mesh_participant_ceiling(mesh, per) ==
  LET rest == IF per.tracks > mesh.max_tracks THEN 0 ELSE mesh.max_tracks - per.tracks
  IN  saturated(Min({shares(rest, per.tracks), shares(mesh.max_send, per.bitrate_bps),
                     shares(mesh.max_recv, per.bitrate_bps)}) + 1, MAX_COUNT)

\* RtcCapacity::admit.
admit(current, incoming, per_participant) ==
  LET total == plus(current, incoming)
  IN  /\ total.tracks <= capacity.max_tracks
      /\ total.bitrate_bps <= capacity.max_aggregate_bps
      /\ per_participant.tracks <= capacity.max_tracks_per_participant
      /\ per_participant.bitrate_bps <= capacity.max_bps_per_track

-----------------------------------------------------------------------------
callsInit ==
  /\ scanned = 0 /\ sections = <<>>
  /\ admitted = [p \in Participants |-> NoLoad]

\* A signal that carries a description: tracks() scans it.
signal(p, typ) ==
  /\ scanned = 0
  /\ carries_sdp(typ)
  /\ scanned' = p /\ sections' = <<>>
  /\ UNCHANGED admitted

\* An m= line.  One section over plain RTP refuses the whole description.
m_line(media, protected) ==
  /\ scanned \in Participants
  /\ Len(sections) < MaxSections
  /\ IF protected
     THEN /\ sections' = Append(sections, [media |-> media, purpose |-> "main",
                                           direction |-> "sendrecv", declared |-> {}])
          /\ UNCHANGED scanned
     ELSE scanned' = 0 /\ sections' = <<>>
  /\ UNCHANGED admitted

\* An a= or b= line belongs to the section before it.
attribute(field, value) ==
  /\ scanned \in Participants
  /\ sections # <<>>
  /\ sections' = [sections EXCEPT ![Len(sections)][field] = value]
  /\ UNCHANGED <<scanned, admitted>>

\* The end of the description: the gateway weighs it against what it forwards
\* for the others, and it replaces what the participant sent before.
offered ==
  /\ scanned \in Participants
  /\ LET offer  == load(sections)
         others == sum([p \in Participants |-> IF p = scanned THEN NoLoad ELSE admitted[p]])
     IN  admitted' = IF admit(others, offer, offer)
                     THEN [admitted EXCEPT ![scanned] = offer]
                     ELSE admitted
  /\ scanned' = 0 /\ sections' = <<>>

callsNext ==
  \/ \E p \in Participants, typ \in {"offer", "answer", "candidate", "bye"} : signal(p, typ)
  \/ \E media \in {"audio", "video"}, protected \in BOOLEAN : m_line(media, protected)
  \/ attribute("purpose", "slides")
  \/ \E d \in {"inactive", "sendrecv"} : attribute("direction", d)
  \/ \E k \in Declared : attribute("declared", {saturated(k * KILO, MAX_RATE)})
  \/ offered

callsSpec == callsInit /\ [][callsNext]_callsVars

-----------------------------------------------------------------------------
(* Properties.                                                             *)

\* What the participants send through the gateway, counted without a limit.
Forwarded(part) == Tally([p \in Participants |-> admitted[p][part]])

\* Whatever is renegotiated in whatever order, the tracks a gateway forwards
\* stay within the tracks and the rate it published: no declared rate, however
\* large, makes a total small.  (To publish the largest number is to publish
\* no limit.)
CallWithinCapacity ==
  /\ capacity.max_tracks < MAX_COUNT => Forwarded("tracks") <= capacity.max_tracks
  /\ capacity.max_aggregate_bps < MAX_RATE => Forwarded("bitrate_bps") <= capacity.max_aggregate_bps

\* A mesh call of n participants, each sending per, fits the peer.
Fits(mesh, per, n) ==
  /\ per.tracks * n <= mesh.max_tracks
  /\ per.bitrate_bps * (n - 1) <= mesh.max_send
  /\ per.bitrate_bps * (n - 1) <= mesh.max_recv

\* mesh_participant_ceiling is exact: so many participants fit, unless not even
\* one other does, and one more does not.
CeilingExact ==
  LET per == load(sections) IN
  sections # <<>> =>
    \A r \in Resources :
      LET mesh == from_local_resources(r)
          n    == mesh_participant_ceiling(mesh, per)
      IN  /\ n = 1 \/ Fits(mesh, per, n)
          /\ n = MAX_COUNT \/ ~Fits(mesh, per, n + 1)
=============================================================================
