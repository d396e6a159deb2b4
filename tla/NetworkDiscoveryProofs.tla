----------------------- MODULE NetworkDiscoveryProofs -----------------------
(***************************************************************************)
(* For any hosts, ports, flows and thresholds: no scan is overlooked, and  *)
(* evidence about one destination is repeated only when it grew.           *)
(***************************************************************************)
EXTENDS NetworkDiscovery, FiniteSetTheorems, TLAPS

(* What the tables count are natural numbers.                              *)
LEMMA AmountType ==
    ASSUME TypeOK
    PROVE  /\ \A t \in Transports, k \in Scans : Amount(t, k) \in Nat
           /\ \A k \in Pings : PingAmount(k) \in Nat
<1>1. ASSUME NEW t \in Transports, NEW k \in Scans PROVE Amount(t, k) \in Nat
  <2>1. CASE k[1] = "vertical"
    <3>1. k[2] \in Hosts
      BY <1>1, <2>1 DEF Scans, Verticals, Horizontals
    <3>2. ips[t][k[2]] \subseteq Ports
      BY <1>1, <3>1 DEF TypeOK
    <3> QED BY <2>1, <3>2, FS_Subset, FS_CardinalityType, DestinationsAssumption
            DEF Amount
  <2>2. CASE k[1] # "vertical"
    <3>1. k[2] \in Ports
      BY <1>1, <2>2 DEF Scans, Verticals, Horizontals
    <3>2. dports[t][k[2]] \subseteq Hosts
      BY <1>1, <3>1 DEF TypeOK
    <3> QED BY <2>2, <3>2, FS_Subset, FS_CardinalityType, DestinationsAssumption
            DEF Amount
  <2> QED BY <2>1, <2>2
<1>2. ASSUME NEW k \in Pings PROVE PingAmount(k) \in Nat
  <2>1. Cardinality(Pinged) \in Nat
    BY FS_Subset, FS_CardinalityType, DestinationsAssumption DEF Pinged
  <2>2. k = Sweep \/ k[2] \in Hosts
    BY <1>2 DEF Pings
  <2> QED BY <2>1, <2>2 DEF PingAmount, TypeOK
<1> QED BY <1>1, <1>2

(* The keys of scans and those of pings are apart.                         *)
LEMMA KeysApart == Scans \cap Pings = {}
BY DEF Scans, Verticals, Horizontals, Pings, Sweep

(* SetEvidence with natural amounts keeps the types of what it changes.    *)
LEMMA SetEvidenceType ==
    ASSUME TypeOK, NEW hits, hits \subseteq Keys, NEW amount,
           \A k \in hits : amount[k] \in Nat, SetEvidence(hits, amount)
    PROVE  /\ cached' \in [Keys -> Nat]
           /\ evidence' \in [Keys -> Nat]
           /\ reported' \in [Keys -> Nat]
BY DEF TypeOK, SetEvidence

-----------------------------------------------------------------------------
(* One more flow, if any, waits for Timeline.                              *)
LEMMA GoToType ==
    ASSUME TypeOK, NEW place \in Places, GoTo(place), profiler # "idle"
    PROVE  /\ profiler' = place
           /\ new_flow' \in Nat
           /\ handled' \in 0..MaxFlows
           /\ IF place = "idle" THEN flow' = NoFlow ELSE flow' \in Flows
BY DEF TypeOK, GoTo

LEMMA AnnounceType ==
    ASSUME TypeOK, Announce
    PROVE  tw_modified' \in 0..MaxUnread /\ last_flipped' \in BOOLEAN
<1>1. tw_modified' \in 0..MaxUnread
  BY ThresholdsAssumption DEF TypeOK, Announce
<1>2. last_flipped' = FALSE
  BY DEF Announce
<1> QED BY <1>1, <1>2

LEMMA ProfileKeepsType == TypeOK /\ Profile /\ UNCHANGED timeline => TypeOK'
<1> SUFFICES ASSUME TypeOK, Profile, UNCHANGED timeline PROVE TypeOK'
  OBVIOUS
<1> USE DestinationsAssumption, ThresholdsAssumption
<1>1. CASE TakeFlow
  BY <1>1 DEF TypeOK, TakeFlow, tables, evidenceVars, dhcpVars, Places
<1>2. CASE AddTuple
  <2>1. GoTo("add_ips") /\ "add_ips" \in Places /\ profiler # "idle" /\ Announce
    BY <1>2 DEF AddTuple, Places
  <2>2. /\ profiler' = "add_ips" /\ flow' \in Flows
        /\ new_flow' \in Nat /\ handled' \in 0..MaxFlows
    BY <2>1, GoToType
  <2>3. tw_modified' \in 0..MaxUnread /\ last_flipped' \in BOOLEAN
    BY <2>1, AnnounceType
  <2> QED BY <1>2, <2>1, <2>2, <2>3 DEF TypeOK, AddTuple, tables, evidenceVars, dhcpVars
<1>3. CASE AddIps
  <2>1. flow \in Flow
    BY <1>3 DEF TypeOK, AddIps
  <2>2. ips' \in [Transports -> [Hosts -> SUBSET Ports]]
    <3>1. CASE flow.proto \in Transports
      <4>1. flow.daddr \in Hosts /\ flow.dport \in Ports
        BY <2>1 DEF Flow
      <4> DEFINE f == [ips[flow.proto] EXCEPT ![flow.daddr] = @ \cup {flow.dport}]
      <4>2. f \in [Hosts -> SUBSET Ports]
        BY <3>1, <4>1 DEF TypeOK
      <4>3. ips' = [ips EXCEPT ![flow.proto] = f]
        BY <1>3, <3>1 DEF AddIps
      <4> QED BY <3>1, <4>2, <4>3 DEF TypeOK
    <3>2. CASE flow.proto \notin Transports
      BY <1>3, <3>2 DEF AddIps, TypeOK
    <3> QED BY <3>1, <3>2
  <2>3. profiler # "idle" /\ \E place \in Places : GoTo(place)
    BY <1>3 DEF AddIps, Places
  <2>4. last_flipped' \in BOOLEAN
    <3>1. last_flipped' = last_flipped \/ last_flipped' = (flow \in Flipped)
      BY <1>3 DEF AddIps
    <3>2. last_flipped \in BOOLEAN
      BY DEF TypeOK
    <3>3. (flow \in Flipped) \in BOOLEAN
      OBVIOUS
    <3> QED BY <3>1, <3>2, <3>3, Zenon
  <2>5. UNCHANGED <<dports, pings, evidenceVars, dhcpVars, tw_modified, check>>
    BY <1>3 DEF AddIps
  <2> QED BY <2>2, <2>3, <2>4, <2>5, GoToType DEF TypeOK, evidenceVars, dhcpVars
<1>4. CASE AnnounceDst
  <2>1. GoTo("store_dst") /\ "store_dst" \in Places /\ profiler # "idle" /\ Announce
    BY <1>4 DEF AnnounceDst, Places
  <2>2. /\ profiler' = "store_dst" /\ flow' \in Flows
        /\ new_flow' \in Nat /\ handled' \in 0..MaxFlows
    BY <2>1, GoToType
  <2>3. tw_modified' \in 0..MaxUnread /\ last_flipped' \in BOOLEAN
    BY <2>1, AnnounceType
  <2> QED BY <1>4, <2>1, <2>2, <2>3 DEF TypeOK, AnnounceDst, tables, evidenceVars, dhcpVars
<1>5. CASE StoreDst
  <2>1. flow \in Flow /\ flow.daddr \in Hosts /\ flow.dport \in Ports
    BY <1>5 DEF TypeOK, StoreDst, Flow
  <2>2. dports' \in [Transports -> [Ports -> SUBSET Hosts]]
    <3>1. CASE flow.proto \in Transports /\ dports' # dports
      <4> DEFINE f == [dports[flow.proto] EXCEPT ![flow.dport] = @ \cup {flow.daddr}]
      <4>1. f \in [Ports -> SUBSET Hosts]
        BY <2>1, <3>1 DEF TypeOK
      <4>2. dports' = [dports EXCEPT ![flow.proto] = f]
        BY <1>5, <3>1 DEF StoreDst
      <4> QED BY <3>1, <4>1, <4>2 DEF TypeOK
    <3>2. CASE dports' = dports
      BY <3>2 DEF TypeOK
    <3> QED BY <1>5, <3>1, <3>2 DEF StoreDst
  <2>3. GoTo("announce_src") /\ "announce_src" \in Places /\ profiler # "idle"
    BY <1>5 DEF StoreDst, Places
  <2> QED BY <1>5, <2>2, <2>3, GoToType DEF TypeOK, StoreDst, evidenceVars, dhcpVars
<1>6. CASE AnnounceSrc
  <2>1. GoTo("store_src") /\ "store_src" \in Places /\ profiler # "idle" /\ Announce
    BY <1>6 DEF AnnounceSrc, Places
  <2>2. /\ profiler' = "store_src" /\ flow' \in Flows
        /\ new_flow' \in Nat /\ handled' \in 0..MaxFlows
    BY <2>1, GoToType
  <2>3. tw_modified' \in 0..MaxUnread /\ last_flipped' \in BOOLEAN
    BY <2>1, AnnounceType
  <2> QED BY <1>6, <2>1, <2>2, <2>3 DEF TypeOK, AnnounceSrc, tables, evidenceVars, dhcpVars
<1>7. CASE StoreSrc
  <2>1. pings' \in [Hosts -> Nat]
    <3>1. CASE flow.proto = "ICMP"
      <4>1. flow.daddr \in Hosts
        BY <1>7 DEF TypeOK, StoreSrc, Flow
      <4>2. pings' = [pings EXCEPT ![flow.daddr] = @ + 1]
        BY <1>7, <3>1 DEF StoreSrc
      <4> QED BY <4>1, <4>2 DEF TypeOK
    <3>2. CASE flow.proto # "ICMP"
      BY <1>7, <3>2 DEF TypeOK, StoreSrc
    <3> QED BY <3>1, <3>2
  <2>2. GoTo("idle") /\ "idle" \in Places /\ profiler # "idle"
    BY <1>7 DEF StoreSrc, Places
  <2> QED BY <1>7, <2>1, <2>2, GoToType DEF TypeOK, StoreSrc, evidenceVars, dhcpVars
<1>8. CASE AddTimelineLine
  <2>1. tw_modified' \in 0..MaxUnread /\ last_flipped' \in BOOLEAN
    BY <1>8, AnnounceType DEF AddTimelineLine
  <2>2. new_flow' \in Nat
    BY <1>8 DEF TypeOK, AddTimelineLine
  <2> QED BY <1>8, <2>1, <2>2 DEF TypeOK, AddTimelineLine, tables, evidenceVars, dhcpVars
<1>9. CASE AddDhcp
  BY <1>9 DEF TypeOK, AddDhcp, tables, evidenceVars, profilerVars
<1> QED BY <1>1, <1>2, <1>3, <1>4, <1>5, <1>6, <1>7, <1>8, <1>9 DEF Profile

LEMMA MainKeepsType == TypeOK /\ Main /\ UNCHANGED timeline => TypeOK'
<1> SUFFICES ASSUME TypeOK, Main, UNCHANGED timeline PROVE TypeOK'
  OBVIOUS
<1> USE DestinationsAssumption, ThresholdsAssumption
<1>1. CASE ReceiveModified
  BY <1>1 DEF TypeOK, ReceiveModified, tables, evidenceVars, dhcpVars, profilerVars
<1>2. CASE NothingModified
  BY <1>2 DEF TypeOK, NothingModified, tables, evidenceVars, dhcpVars, profilerVars
<1>3. CASE CheckScans
  <2>1. PICK hits \in SUBSET Scans, t \in Transports :
           SetEvidence(hits, [k \in Scans |-> Amount(t, k)])
    <3>1. Checks[check][2] \in Transports
      BY <1>3 DEF CheckScans, Checks, Transports
    <3> QED BY <1>3, <3>1 DEF CheckScans
  <2>2. hits \subseteq Keys
    BY DEF Keys
  <2>3. \A k \in hits : [j \in Scans |-> Amount(t, j)][k] \in Nat
    BY AmountType
  <2>4. /\ cached' \in [Keys -> Nat]
        /\ evidence' \in [Keys -> Nat]
        /\ reported' \in [Keys -> Nat]
    BY <2>1, <2>2, <2>3, SetEvidenceType
  <2> QED BY <1>3, <2>4 DEF TypeOK, CheckScans, Checks, tables, dhcpVars, profilerVars
<1>4. CASE CheckIcmpScan
  <2>1. PICK hits \in SUBSET Pings : SetEvidence(hits, [k \in Pings |-> PingAmount(k)])
    BY <1>4 DEF CheckIcmpScan
  <2>2. hits \subseteq Keys
    BY DEF Keys
  <2>3. \A k \in hits : [j \in Pings |-> PingAmount(j)][k] \in Nat
    BY AmountType
  <2>4. /\ cached' \in [Keys -> Nat]
        /\ evidence' \in [Keys -> Nat]
        /\ reported' \in [Keys -> Nat]
    BY <2>1, <2>2, <2>3, SetEvidenceType
  <2> QED BY <1>4, <2>4 DEF TypeOK, CheckIcmpScan, tables, dhcpVars, profilerVars
<1>5. CASE ReceiveDhcp
  <2>1. dhcp_flows' \subseteq Addrs /\ dhcp_evidence' \in Nat /\ new_dhcp' \in Seq(Addrs \cup {NoAddr})
    <3>1. CASE new_dhcp = <<>>
      BY <1>5, <3>1 DEF TypeOK, ReceiveDhcp
    <3>2. CASE new_dhcp # <<>>
      <4>1. Head(new_dhcp) \in Addrs \cup {NoAddr} /\ Tail(new_dhcp) \in Seq(Addrs \cup {NoAddr})
        BY <3>2 DEF TypeOK
      <4>2. CheckDhcpScan(Head(new_dhcp)) /\ new_dhcp' = Tail(new_dhcp)
        BY <1>5, <3>2 DEF ReceiveDhcp
      <4>3. dhcp_flows' \subseteq Addrs
        BY <4>1, <4>2 DEF TypeOK, CheckDhcpScan
      <4>4. dhcp_evidence' \in {dhcp_evidence, dhcp_evidence + 1}
        BY <4>2 DEF CheckDhcpScan
      <4> QED BY <4>1, <4>2, <4>3, <4>4 DEF TypeOK
    <3> QED BY <3>1, <3>2
  <2>2. check' \in 0..6 /\ UNCHANGED <<tables, evidenceVars, profilerVars, tw_modified, last_flipped>>
    BY <1>5 DEF ReceiveDhcp
  <2> QED BY <2>1, <2>2 DEF TypeOK, tables, evidenceVars, profilerVars
<1> QED BY <1>1, <1>2, <1>3, <1>4, <1>5 DEF Main

(* A table holds each destination once, no message is read that was not    *)
(* published, and every amount is a natural number.                        *)
THEOREM TypeCorrect == Spec => []TypeOK
<1>1. Init => TypeOK
  <2> SUFFICES ASSUME Init PROVE TypeOK
    OBVIOUS
  <2>1. /\ ips \in [Transports -> [Hosts -> SUBSET Ports]]
        /\ dports \in [Transports -> [Ports -> SUBSET Hosts]]
        /\ pings \in [Hosts -> Nat]
    BY DEF Init
  <2>2. /\ cached \in [Keys -> Nat] /\ evidence \in [Keys -> Nat]
        /\ reported \in [Keys -> Nat]
    BY DEF Init
  <2>3. new_dhcp \in Seq(Addrs \cup {NoAddr})
    BY DEF Init
  <2>4. timeline \in BOOLEAN /\ last_flipped \in BOOLEAN
    BY DEF Init
  <2>5. tw_modified \in 0..MaxUnread /\ handled \in 0..MaxFlows
    BY ThresholdsAssumption DEF Init
  <2>6. /\ dhcp_flows \subseteq Addrs /\ new_flow \in Nat /\ dhcp_evidence \in Nat
        /\ profiler \in Places /\ check \in 0..6
        /\ IF profiler = "idle" THEN flow = NoFlow ELSE flow \in Flows
    BY DEF Init, Places
  <2> QED BY <2>1, <2>2, <2>3, <2>4, <2>5, <2>6 DEF TypeOK
<1>2. TypeOK /\ [Next]_vars => TypeOK'
  <2>1. TypeOK /\ UNCHANGED vars => TypeOK'
    BY DEF TypeOK, vars, tables, evidenceVars, dhcpVars, profilerVars
  <2> QED BY <2>1, ProfileKeepsType, MainKeepsType DEF Next
<1> QED BY <1>1, <1>2, PTL DEF Spec

-----------------------------------------------------------------------------
(* What the module remembers of the last evidence about a destination is   *)
(* what that evidence said.                                                *)
CachedIsReported == cached = reported

LEMMA CachedIsRight == Spec => []CachedIsReported
<1>1. Init => CachedIsReported
  BY DEF Init, CachedIsReported
<1>2. CachedIsReported /\ [Next]_vars => CachedIsReported'
  <2> SUFFICES ASSUME CachedIsReported, [Next]_vars PROVE CachedIsReported'
    OBVIOUS
  <2>1. CASE UNCHANGED evidenceVars
    BY <2>1 DEF CachedIsReported, evidenceVars
  <2>2. CASE CheckScans
    BY <2>2 DEF CachedIsReported, CheckScans, SetEvidence
  <2>3. CASE CheckIcmpScan
    BY <2>3 DEF CachedIsReported, CheckIcmpScan, SetEvidence
  <2> QED
    BY <2>1, <2>2, <2>3 DEF Next, Profile, Main, vars, TakeFlow, AddTuple, AddIps,
       AnnounceDst, StoreDst, AnnounceSrc, StoreSrc, AddTimelineLine, AddDhcp,
       ReceiveModified, NothingModified, ReceiveDhcp
<1> QED BY <1>1, <1>2, PTL DEF Spec

(* Only the checks of scans and of pings set evidence about a key.         *)
LEMMA EvidenceStays ==
    ASSUME [Next]_vars, ~CheckScans, ~CheckIcmpScan
    PROVE  UNCHANGED evidenceVars
BY DEF Next, Profile, Main, vars, TakeFlow, AddTuple, AddIps, AnnounceDst,
   StoreDst, AnnounceSrc, StoreSrc, AddTimelineLine, AddDhcp, ReceiveModified,
   NothingModified, ReceiveDhcp

Grows ==
    \A k \in Keys : evidence'[k] # evidence[k] =>
       /\ evidence'[k] = evidence[k] + 1
       /\ reported[k] > 0 =>
            \/ k \in Scans /\ reported'[k] >= reported[k] + Growth
            \/ k \in Pings /\ reported'[k] > reported[k]

LEMMA StepGrows == TypeOK /\ CachedIsReported /\ [Next]_vars => Grows
<1> SUFFICES ASSUME TypeOK, CachedIsReported, [Next]_vars PROVE Grows
  OBVIOUS
<1>1. CASE CheckScans
  <2> DEFINE proto == Checks[check][2]
             amount == [k \in Scans |-> Amount(proto, k)]
             hits == {k \in Scans : /\ k[1] = Checks[check][1]
                                    /\ ShouldSetEvidence(amount[k], cached[k])}
  <2>1. SetEvidence(hits, amount)
    BY <1>1 DEF CheckScans
  <2> SUFFICES ASSUME NEW k \in Keys, evidence'[k] # evidence[k]
               PROVE  /\ evidence'[k] = evidence[k] + 1
                      /\ reported[k] > 0 => k \in Scans /\ reported'[k] >= reported[k] + Growth
    BY DEF Grows
  <2>2. k \in hits /\ evidence'[k] = evidence[k] + 1 /\ reported'[k] = amount[k]
    BY <2>1 DEF SetEvidence
  <2>3. k \in Scans /\ ShouldSetEvidence(amount[k], cached[k])
    BY <2>2
  <2>4. cached[k] = reported[k] /\ reported[k] \in Nat
    BY DEF TypeOK, CachedIsReported
  <2> HIDE DEF hits, amount
  <2> QED BY <2>2, <2>3, <2>4 DEF ShouldSetEvidence
<1>2. CASE CheckIcmpScan
  <2> DEFINE amount == [k \in Pings |-> PingAmount(k)]
             hits == {k \in Pings : ShouldSetPingEvidence(k)}
  <2>1. SetEvidence(hits, amount)
    BY <1>2 DEF CheckIcmpScan
  <2> SUFFICES ASSUME NEW k \in Keys, evidence'[k] # evidence[k]
               PROVE  /\ evidence'[k] = evidence[k] + 1
                      /\ k \in Pings /\ reported'[k] > reported[k]
    BY DEF Grows
  <2>2. k \in hits /\ evidence'[k] = evidence[k] + 1 /\ reported'[k] = amount[k]
    BY <2>1 DEF SetEvidence
  <2>3. k \in Pings /\ cached[k] < PingAmount(k)
    BY <2>2 DEF ShouldSetPingEvidence
  <2>4. cached[k] = reported[k] /\ reported[k] \in Nat /\ PingAmount(k) \in Nat
    BY <2>3, AmountType DEF TypeOK, CachedIsReported
  <2>5. reported'[k] = PingAmount(k)
    BY <2>2, <2>3
  <2> QED BY <2>2, <2>3, <2>4, <2>5
<1>3. CASE ~CheckScans /\ ~CheckIcmpScan
  BY <1>3, EvidenceStays DEF Grows, evidenceVars
<1> QED BY <1>1, <1>2, <1>3

(* A destination gets one evidence at a time, and after the first only     *)
(* when Growth more ports or hosts were scanned over one protocol than the *)
(* last one said; pinged hosts, only when there are more.                  *)
THEOREM EvidenceOnlyGrows == Spec => EvidenceGrows
<1>1. TypeOK /\ CachedIsReported /\ [Next]_vars => [Grows]_vars
  BY StepGrows
<1> QED BY <1>1, TypeCorrect, CachedIsRight, PTL DEF Spec, EvidenceGrows, Grows

-----------------------------------------------------------------------------
(* The module is still to read the table of t that holds k.                *)
Ahead(t, k) ==
    \E i \in DOMAIN Checks : check > 0 /\ check <= i /\ Checks[i] = <<k[1], t>>

(* A scan that needs evidence was made by a flow whose other add_port is   *)
(* still to come, or by a flipped flow, or is about to be checked.         *)
ScanInv ==
    \A t \in Transports, k \in Scans :
       \/ Settled(t, k)
       \/ last_flipped
       \/ tw_modified > 0
       \/ profiler \in {"announce_dst", "store_dst", "announce_src"}
       \/ Ahead(t, k)

(* A scan settled stays settled while its table does, also when evidence   *)
(* about the same destination over the other protocol raises the bar.      *)
LEMMA ReportedKeepsSettled ==
    ASSUME TypeOK, TypeOK', NEW t \in Transports, NEW k \in Scans, Settled(t, k),
           Amount(t, k)' = Amount(t, k), reported'[k] >= reported[k]
    PROVE  Settled(t, k)'
<1>1. k \in Keys /\ reported[k] \in Nat /\ reported'[k] \in Nat
  BY DEF TypeOK, Keys
<1>2. Amount(t, k) \in Nat
  BY AmountType
<1>3. CASE Amount(t, k) < Minimum
  BY <1>3 DEF Settled
<1>4. CASE reported[k] > 0 /\ Amount(t, k) < reported[k] + Growth
  <2>1. reported'[k] > 0 /\ Amount(t, k) < reported'[k] + Growth
    BY <1>1, <1>2, <1>4, ThresholdsAssumption
  <2> QED BY <2>1 DEF Settled
<1> QED BY <1>3, <1>4 DEF Settled

(* The tables alone decide the amounts.                                    *)
LEMMA AmountStays ==
    ASSUME UNCHANGED <<ips, dports>>, NEW t \in Transports, NEW k \in Scans
    PROVE  Amount(t, k)' = Amount(t, k)
BY DEF Amount

(* What was not settled before a check of its table is settled after it.   *)
LEMMA CheckSettles ==
    ASSUME TypeOK, TypeOK', CachedIsReported, CheckScans,
           NEW t \in Transports, NEW k \in Scans
    PROVE  /\ reported'[k] >= reported[k]
           /\ Checks[check] = <<k[1], t>> => Settled(t, k)'
<1> DEFINE proto == Checks[check][2]
           amount == [j \in Scans |-> Amount(proto, j)]
           hits == {j \in Scans : /\ j[1] = Checks[check][1]
                                  /\ ShouldSetEvidence(amount[j], cached[j])}
<1>1. SetEvidence(hits, amount) /\ UNCHANGED <<ips, dports>> /\ check \in 1..4
  BY DEF CheckScans, tables, Checks
<1>2. proto \in Transports
  BY <1>1 DEF Checks, Transports
<1>3. k \in Keys /\ reported[k] \in Nat /\ cached[k] = reported[k]
  BY DEF TypeOK, Keys, CachedIsReported
<1>4. Amount(proto, k) \in Nat /\ amount[k] = Amount(proto, k)
  BY <1>2, AmountType
<1>5. CASE k \in hits
  <2>1. reported'[k] = Amount(proto, k)
    BY <1>1, <1>3, <1>4, <1>5 DEF SetEvidence
  <2>2. /\ Amount(proto, k) >= Minimum
        /\ reported[k] = 0 \/ Amount(proto, k) >= reported[k] + Growth
    BY <1>3, <1>4, <1>5 DEF ShouldSetEvidence
  <2>3. reported'[k] >= reported[k] /\ reported'[k] > 0
    BY <1>3, <1>4, <2>1, <2>2, ThresholdsAssumption
  <2>4. ASSUME Checks[check] = <<k[1], t>> PROVE Settled(t, k)'
    <3>1. proto = t
      BY <2>4
    <3>2. Amount(t, k)' = Amount(t, k)
      BY <1>1, AmountStays
    <3>3. Amount(t, k) < reported'[k] + Growth
      BY <1>4, <2>1, <3>1, ThresholdsAssumption
    <3> QED BY <2>3, <3>2, <3>3 DEF Settled
  <2> QED BY <2>3, <2>4
<1>6. CASE k \notin hits
  <2>1. reported'[k] = reported[k]
    BY <1>1, <1>3, <1>6 DEF SetEvidence
  <2>2. ASSUME Checks[check] = <<k[1], t>> PROVE Settled(t, k)'
    <3>1. proto = t /\ Checks[check][1] = k[1]
      BY <2>2
    <3>2. ~ShouldSetEvidence(Amount(t, k), reported[k])
      BY <1>3, <1>4, <1>6, <3>1
    <3>3. Settled(t, k)
      BY <1>3, <1>4, <3>1, <3>2, ThresholdsAssumption DEF ShouldSetEvidence, Settled
    <3>4. Amount(t, k)' = Amount(t, k)
      BY <1>1, AmountStays
    <3> QED BY <1>3, <2>1, <3>3, <3>4, ReportedKeepsSettled
  <2> QED BY <1>3, <2>1, <2>2
<1> QED BY <1>5, <1>6

(* A step that changes neither tables nor evidence keeps a settled scan.   *)
LEMMA SettledStays ==
    ASSUME UNCHANGED <<ips, dports, reported>>, NEW t \in Transports, NEW k \in Scans,
           Settled(t, k)
    PROVE  Settled(t, k)'
BY DEF Settled, Amount

LEMMA ProfileKeepsScans ==
    ASSUME TypeOK, TypeOK', ScanInv, Profile
    PROVE  ScanInv'
<1> SUFFICES ASSUME NEW t \in Transports, NEW k \in Scans
             PROVE  \/ Settled(t, k)' \/ last_flipped' \/ tw_modified' > 0
                    \/ profiler' \in {"announce_dst", "store_dst", "announce_src"}
                    \/ Ahead(t, k)'
  BY DEF ScanInv
<1>a. \/ Settled(t, k) \/ last_flipped \/ tw_modified > 0
      \/ profiler \in {"announce_dst", "store_dst", "announce_src"}
      \/ Ahead(t, k)
  BY DEF ScanInv
<1>b. ASSUME UNCHANGED <<ips, dports, reported, last_flipped, tw_modified, check>>,
             profiler \notin {"announce_dst", "store_dst", "announce_src"}
      PROVE  Settled(t, k)' \/ last_flipped' \/ tw_modified' > 0 \/ Ahead(t, k)'
  BY <1>a, <1>b, SettledStays DEF Ahead
<1>c. ASSUME Announce PROVE tw_modified' > 0
  BY <1>c DEF Announce, TypeOK
<1>1. CASE TakeFlow
  BY <1>1, <1>b DEF TakeFlow, tables, evidenceVars
<1>2. CASE AddTuple
  BY <1>2, <1>c DEF AddTuple
<1>3. CASE AddIps
  <2>1. CASE flow \notin Flipped
    BY <1>3, <2>1 DEF AddIps, GoTo
  <2>2. CASE flow \in Flipped /\ flow.proto \in Transports
    BY <1>3, <2>2 DEF AddIps
  <2>3. CASE flow.proto \notin Transports
    BY <1>3, <2>3, <1>b DEF AddIps, evidenceVars
  <2> QED BY <2>1, <2>2, <2>3
<1>4. CASE AnnounceDst
  BY <1>4, <1>c DEF AnnounceDst
<1>5. CASE StoreDst
  BY <1>5 DEF StoreDst, GoTo
<1>6. CASE AnnounceSrc
  BY <1>6, <1>c DEF AnnounceSrc
<1>7. CASE StoreSrc
  BY <1>7, <1>b DEF StoreSrc, evidenceVars
<1>8. CASE AddTimelineLine
  BY <1>8, <1>c DEF AddTimelineLine
<1>9. CASE AddDhcp
  BY <1>9, <1>b DEF AddDhcp, tables, evidenceVars
<1> QED BY <1>1, <1>2, <1>3, <1>4, <1>5, <1>6, <1>7, <1>8, <1>9 DEF Profile

LEMMA MainKeepsScans ==
    ASSUME TypeOK, TypeOK', CachedIsReported, ScanInv, Main
    PROVE  ScanInv'
<1> SUFFICES ASSUME NEW t \in Transports, NEW k \in Scans
             PROVE  \/ Settled(t, k)' \/ last_flipped' \/ tw_modified' > 0
                    \/ profiler' \in {"announce_dst", "store_dst", "announce_src"}
                    \/ Ahead(t, k)'
  BY DEF ScanInv
<1>a. \/ Settled(t, k) \/ last_flipped \/ tw_modified > 0
      \/ profiler \in {"announce_dst", "store_dst", "announce_src"}
      \/ Ahead(t, k)
  BY DEF ScanInv
<1>b. UNCHANGED <<ips, dports, profiler, last_flipped>>
  BY DEF Main, ReceiveModified, NothingModified, CheckScans, CheckIcmpScan,
         ReceiveDhcp, tables, profilerVars
<1>c. \E i \in 1..4 : Checks[i] = <<k[1], t>>
  <2>1. k[1] \in {"vertical", "horizontal"}
    BY DEF Scans, Verticals, Horizontals
  <2> QED BY <2>1 DEF Checks, Transports
<1>d. DOMAIN Checks = 1..4
  BY DEF Checks
<1>1. CASE ReceiveModified
  BY <1>1, <1>c, <1>d DEF ReceiveModified, Ahead
<1>2. CASE NothingModified
  <2>1. ~Ahead(t, k) /\ tw_modified = 0
    BY <1>2 DEF NothingModified, Ahead
  <2> QED BY <1>a, <1>b, <1>2, <2>1, SettledStays DEF NothingModified, evidenceVars
<1>3. CASE CheckScans
  <2>1. UNCHANGED tw_modified /\ check' = check + 1 /\ check \in 1..4
    BY <1>3, <1>d DEF CheckScans
  <2>2. CASE Settled(t, k)
    <3>1. reported'[k] >= reported[k] /\ Amount(t, k)' = Amount(t, k)
      BY <1>3, <1>b, CheckSettles, AmountStays
    <3> QED BY <2>2, <3>1, ReportedKeepsSettled
  <2>3. CASE Ahead(t, k)
    <3>1. PICK i \in 1..4 : check <= i /\ Checks[i] = <<k[1], t>>
      BY <2>3, <1>d DEF Ahead
    <3>2. CASE check = i
      BY <1>3, <3>1, <3>2, CheckSettles
    <3>3. CASE check # i
      <4>1. check' > 0 /\ check' <= i
        BY <2>1, <3>1, <3>3
      <4> QED BY <3>1, <4>1, <1>d DEF Ahead
    <3> QED BY <3>2, <3>3
  <2> QED BY <1>a, <1>b, <2>1, <2>2, <2>3
<1>4. CASE CheckIcmpScan
  <2>1. ~Ahead(t, k) /\ UNCHANGED tw_modified
    BY <1>4, <1>d DEF CheckIcmpScan, Ahead
  <2>2. reported'[k] = reported[k]
    <3>1. k \in Keys /\ k \notin Pings
      BY KeysApart DEF Keys
    <3> QED BY <1>4, <3>1 DEF CheckIcmpScan, SetEvidence
  <2>3. Settled(t, k) => Settled(t, k)'
    BY <1>b, <2>2 DEF Settled, Amount
  <2> QED BY <1>a, <1>b, <2>1, <2>3
<1>5. CASE ReceiveDhcp
  <2>1. ~Ahead(t, k) /\ UNCHANGED <<tw_modified, reported>>
    BY <1>5, <1>d DEF ReceiveDhcp, Ahead, evidenceVars
  <2> QED BY <1>a, <1>b, <2>1, SettledStays
<1> QED BY <1>1, <1>2, <1>3, <1>4, <1>5 DEF Main

LEMMA ScanInvHolds == Spec => []ScanInv
<1>1. Init => ScanInv
  <2> SUFFICES ASSUME Init, NEW t \in Transports, NEW k \in Scans PROVE Settled(t, k)
    BY DEF ScanInv
  <2>1. Amount(t, k) = 0
    BY FS_EmptySet DEF Init, Amount, Scans, Verticals, Horizontals
  <2> QED BY <2>1, ThresholdsAssumption DEF Settled
<1>2. TypeOK /\ TypeOK' /\ CachedIsReported /\ ScanInv /\ [Next]_vars => ScanInv'
  <2> SUFFICES ASSUME TypeOK, TypeOK', CachedIsReported, ScanInv, [Next]_vars PROVE ScanInv'
    OBVIOUS
  <2>1. CASE UNCHANGED vars
    BY <2>1 DEF ScanInv, vars, tables, evidenceVars, profilerVars, Settled, Amount, Ahead
  <2> QED BY <2>1, ProfileKeepsScans, MainKeepsScans DEF Next
<1> QED BY <1>1, <1>2, TypeCorrect, CachedIsRight, PTL DEF Spec

(* However the profiler's calls, Timeline's and the module's checks        *)
(* interleave, no scan is overlooked once every message is read.           *)
THEOREM NoScanOverlooked == Spec => []ScansReported
<1>1. TypeOK /\ ScanInv => ScansReported
  BY DEF ScanInv, ScansReported, Quiet, Ahead, Checks
<1> QED BY <1>1, TypeCorrect, ScanInvHolds, PTL

-----------------------------------------------------------------------------
(* Counting up by one passes a multiple of m exactly when it reaches one.  *)
LEMMA NextMultiple ==
    ASSUME NEW c \in Nat, NEW m \in Nat \ {0}
    PROVE  (c + 1) \div m = IF (c + 1) % m = 0 THEN (c \div m) + 1 ELSE c \div m
OBVIOUS

(* However often addresses are requested again, the DHCP scan evidence of  *)
(* the window is one for each MinimumAddrs distinct addresses.             *)
THEOREM DhcpEvidenceIsExact == Spec => []DhcpEvidenceEveryFour
<1>1. Init => DhcpEvidenceEveryFour
  <2>1. 0 = 0 \div MinimumAddrs
    BY ThresholdsAssumption
  <2> QED BY <2>1, FS_EmptySet DEF Init, DhcpEvidenceEveryFour
<1>2. TypeOK /\ DhcpEvidenceEveryFour /\ [Next]_vars => DhcpEvidenceEveryFour'
  <2> SUFFICES ASSUME TypeOK, DhcpEvidenceEveryFour, [Next]_vars
               PROVE  DhcpEvidenceEveryFour'
    OBVIOUS
  <2>1. CASE UNCHANGED <<dhcp_flows, dhcp_evidence>>
    BY <2>1 DEF DhcpEvidenceEveryFour
  <2>2. ASSUME NEW a, a \in Addrs \cup {NoAddr}, CheckDhcpScan(a), a # NoAddr, a \notin dhcp_flows
        PROVE  DhcpEvidenceEveryFour'
    <3> DEFINE c == Cardinality(dhcp_flows)
    <3>1. IsFiniteSet(dhcp_flows) /\ c \in Nat
      BY FS_Subset, FS_CardinalityType, DestinationsAssumption DEF TypeOK
    <3>2. dhcp_flows' = dhcp_flows \cup {a}
      BY <2>2 DEF CheckDhcpScan
    <3>3. Cardinality(dhcp_flows') = c + 1
      BY <2>2, <3>1, <3>2, FS_AddElement
    <3>4. (c + 1) \div MinimumAddrs
            = IF (c + 1) % MinimumAddrs = 0 THEN (c \div MinimumAddrs) + 1
                                            ELSE c \div MinimumAddrs
      BY <3>1, NextMultiple, ThresholdsAssumption
    <3>5. dhcp_flows = {} => (c + 1) % MinimumAddrs # 0
      <4>1. dhcp_flows = {} => c = 0
        BY FS_EmptySet
      <4>2. 1 % MinimumAddrs = 1
        BY ThresholdsAssumption
      <4> QED BY <4>1, <4>2
    <3>6. dhcp_evidence' = IF (c + 1) % MinimumAddrs = 0 THEN dhcp_evidence + 1
                                                         ELSE dhcp_evidence
      BY <2>2, <3>2, <3>3, <3>5 DEF CheckDhcpScan
    <3> QED BY <3>3, <3>4, <3>6 DEF DhcpEvidenceEveryFour
  <2>3. CASE ReceiveDhcp
    <3>1. CASE new_dhcp = <<>>
      BY <2>1, <2>3, <3>1 DEF ReceiveDhcp
    <3>2. CASE new_dhcp # <<>>
      <4>1. CheckDhcpScan(Head(new_dhcp)) /\ Head(new_dhcp) \in Addrs \cup {NoAddr}
        BY <2>3, <3>2 DEF ReceiveDhcp, TypeOK
      <4> QED BY <2>1, <2>2, <4>1 DEF CheckDhcpScan
    <3> QED BY <3>1, <3>2
  <2> QED
    BY <2>1, <2>3 DEF Next, Profile, Main, vars, TakeFlow, AddTuple, AddIps,
       AnnounceDst, StoreDst, AnnounceSrc, StoreSrc, AddTimelineLine, AddDhcp,
       ReceiveModified, NothingModified, CheckScans, CheckIcmpScan, dhcpVars
<1> QED BY <1>1, <1>2, TypeCorrect, PTL DEF Spec
=============================================================================
