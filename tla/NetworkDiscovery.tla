--------------------------- MODULE NetworkDiscovery -------------------------
(***************************************************************************)
(* Port scans, ping sweeps and DHCP scans (modules/network_discovery).     *)
(*                                                                         *)
(* The profiler adds every flow to JSON tables in the hash of the time     *)
(* window (add_ips and add_port of redis_db/profile_handler.py) and        *)
(* publishes tw_modified.  The Network Discovery module, another process,  *)
(* reads the tables when it hears of it, and sets evidence when a table    *)
(* holds enough.  A message says only which window changed, and add_port   *)
(* publishes it BEFORE it stores the flow.  The Timeline module, unless    *)
(* disabled, publishes it once more for each flow.                         *)
(*                                                                         *)
(* One profile, of a unicast address, and one time window: the keys of the *)
(* tables and of the thresholds contain both.  Only the flows the module   *)
(* looks for: TCP and UDP not established, and established pings (sport    *)
(* 0x0008 in Argus files).  The order of the profiler's calls for one flow *)
(* is that of tests/test_flow_handler.py (external).                       *)
(***************************************************************************)
EXTENDS Integers, Sequences, FiniteSets

CONSTANTS
    Hosts,            \* destination addresses
    Ports,            \* destination ports
    Flows,            \* flows the profiler may be given
    Flipped,          \* those with ^ in their history
    Resolved,         \* hosts with a DNS resolution, multicast and broadcast
    Addrs,            \* addresses a DHCP client may request
    NoAddr,           \* a DHCP flow that requests none
    NoFlow,           \* the profiler handles none
    Minimum,          \* minimum_dports_to_set_evidence: 5
    Growth,           \* distance from the amount of the last evidence: 15
    MinimumFlows,     \* pingscan_minimum_flows: 5
    MinimumHosts,     \* pingscan_minimum_scanned_ips: 5
    MinimumAddrs,     \* minimum_requested_addrs: 4
    MaxFlows,         \* bound: flows the profiler handles
    MaxUnread,        \* bound: tw_modified messages the module has not read
    MaxRequests       \* bound: DHCP messages the module has not read

Transports == {"TCP", "UDP"}
Flow == [proto : Transports \cup {"ICMP"}, daddr : Hosts, dport : Ports]

ASSUME DestinationsAssumption ==
    /\ IsFiniteSet(Hosts) /\ IsFiniteSet(Ports) /\ IsFiniteSet(Addrs)
    /\ Resolved \subseteq Hosts
    /\ Flows \subseteq Flow /\ Flipped \subseteq Flows
    /\ NoAddr \notin Addrs
    /\ NoFlow \notin Flows
ASSUME ThresholdsAssumption ==
    /\ Minimum \in Nat \ {0} /\ Growth \in Nat \ {0}
    /\ MinimumFlows \in Nat \ {0} /\ MinimumHosts \in Nat \ {0}
    /\ MinimumAddrs \in Nat \ {0, 1}
    /\ MaxFlows \in Nat /\ MaxUnread \in Nat /\ MaxRequests \in Nat

(* What an evidence is about, and the key its last amount is cached under. *)
(* A scan of the same destination over TCP and over UDP is one key.        *)
Verticals == {"vertical"} \X Hosts
Horizontals == {"horizontal"} \X Ports
Scans == Verticals \cup Horizontals
Sweep == <<"sweep", "0x0008">>
Pings == ({"ping"} \X Hosts) \cup {Sweep}
Keys == Scans \cup Pings

(* The tables NetworkDiscovery reads, in the order it reads them.          *)
Checks == <<<<"horizontal", "TCP">>, <<"horizontal", "UDP">>,
            <<"vertical", "TCP">>, <<"vertical", "UDP">>>>

VARIABLES
    ips,            \* DstIPsClient<proto>Not Established: ports of each host
    dports,         \* DstPortsClient<proto>Not Established: hosts of each port
    pings,          \* SrcPortsClientICMPEstablished: flows to each host
    dhcp_flows,     \* addresses requested in the window
    timeline,       \* whether the configuration leaves the Timeline module on
    new_flow,       \* flows Timeline has not read
    tw_modified,    \* messages about the window the module has not read
    new_dhcp,       \* addresses in the messages it has not read
    profiler,       \* place of the profiler
    flow,           \* the flow it handles
    handled,        \* flows handled, against MaxFlows
    check,          \* 0: between two messages; i: about to read Checks[i];
                    \* 5: the pings; 6: the DHCP channel
    cached,         \* cached_thresholds_per_tw and cache_det_thresholds
    evidence,       \* number of evidence set about each key
    reported,       \* history: amount in the last of them
    dhcp_evidence,  \* number of DHCP scan evidence set
    last_flipped    \* history: after the last tw_modified, only a flipped flow

tables == <<ips, dports, pings>>
evidenceVars == <<cached, evidence, reported>>
dhcpVars == <<dhcp_flows, new_dhcp, dhcp_evidence>>
profilerVars == <<profiler, flow, handled, new_flow>>
vars == <<tables, evidenceVars, dhcpVars, profilerVars, tw_modified, check,
          timeline, last_flipped>>

Places == {"idle", "add_tuple", "add_ips", "announce_dst", "store_dst",
           "announce_src", "store_src"}

(* A table holds each destination once, a message is counted before it is  *)
(* read, and every amount is a number of distinct things or of flows.      *)
TypeOK ==
    /\ ips \in [Transports -> [Hosts -> SUBSET Ports]]
    /\ dports \in [Transports -> [Ports -> SUBSET Hosts]]
    /\ pings \in [Hosts -> Nat]
    /\ dhcp_flows \subseteq Addrs
    /\ tw_modified \in 0..MaxUnread
    /\ timeline \in BOOLEAN
    /\ new_flow \in Nat
    /\ new_dhcp \in Seq(Addrs \cup {NoAddr})
    /\ profiler \in Places
    /\ IF profiler = "idle" THEN flow = NoFlow ELSE flow \in Flows
    /\ handled \in 0..MaxFlows
    /\ check \in 0..6
    /\ cached \in [Keys -> Nat]
    /\ evidence \in [Keys -> Nat]
    /\ reported \in [Keys -> Nat]
    /\ dhcp_evidence \in Nat
    /\ last_flipped \in BOOLEAN

Init ==
    /\ ips = [t \in Transports |-> [h \in Hosts |-> {}]]
    /\ dports = [t \in Transports |-> [p \in Ports |-> {}]]
    /\ pings = [h \in Hosts |-> 0]
    /\ dhcp_flows = {} /\ new_dhcp = <<>> /\ dhcp_evidence = 0
    /\ tw_modified = 0 /\ new_flow = 0 /\ timeline \in BOOLEAN
    /\ profiler = "idle" /\ flow = NoFlow /\ handled = 0
    /\ check = 0
    /\ cached = [k \in Keys |-> 0]
    /\ evidence = [k \in Keys |-> 0]
    /\ reported = [k \in Keys |-> 0]
    /\ last_flipped = FALSE
-----------------------------------------------------------------------------
(***************************************************************************)
(* The profiler: add_tuple, add_ips, add_port of the destination port and  *)
(* add_port of the source port, for each flow; add_flow, which publishes   *)
(* new_flow, ends it.  Only Timeline's reading of new_flow matters here.   *)
(***************************************************************************)
GoTo(place) ==
    /\ profiler' = place
    /\ flow' = IF place = "idle" THEN NoFlow ELSE flow
    /\ new_flow' = IF place = "idle" /\ timeline THEN new_flow + 1 ELSE new_flow
    /\ UNCHANGED handled

(* mark_profile_tw_as_modified; what it does to the window itself is in    *)
(* Timewindows.                                                            *)
Announce ==
    /\ tw_modified < MaxUnread
    /\ tw_modified' = tw_modified + 1
    /\ last_flipped' = FALSE

TakeFlow ==
    /\ profiler = "idle"
    /\ handled < MaxFlows
    /\ profiler' = "add_tuple"
    /\ flow' \in Flows
    /\ handled' = handled + 1
    /\ UNCHANGED <<new_flow, tables, evidenceVars, dhcpVars, tw_modified, check, last_flipped>>

AddTuple ==
    /\ profiler = "add_tuple"
    /\ Announce
    /\ GoTo("add_ips")
    /\ UNCHANGED <<tables, evidenceVars, dhcpVars, check>>

(* The profiler alone writes the tables of clients, so that reading,       *)
(* extending and storing one is one step.  Established pings go to a key   *)
(* of DstIPs nobody reads.  add_port returns at once for a flipped flow.   *)
AddIps ==
    /\ profiler = "add_ips"
    /\ IF flow.proto \in Transports
       THEN /\ ips' = [ips EXCEPT ![flow.proto][flow.daddr] = @ \cup {flow.dport}]
            /\ last_flipped' = (flow \in Flipped)
       ELSE UNCHANGED <<ips, last_flipped>>
    /\ GoTo(IF flow \in Flipped THEN "idle" ELSE "announce_dst")
    /\ UNCHANGED <<dports, pings, evidenceVars, dhcpVars, tw_modified, check>>

AnnounceDst ==
    /\ profiler = "announce_dst"
    /\ Announce
    /\ GoTo("store_dst")
    /\ UNCHANGED <<tables, evidenceVars, dhcpVars, check>>

(* Only the table of TCP leaves out the resolved hosts.                    *)
StoreDst ==
    /\ profiler = "store_dst"
    /\ \/ /\ flow.proto \in Transports
          /\ ~(flow.proto = "TCP" /\ flow.daddr \in Resolved)
          /\ dports' = [dports EXCEPT ![flow.proto][flow.dport] = @ \cup {flow.daddr}]
       \/ /\ flow.proto = "ICMP" \/ (flow.proto = "TCP" /\ flow.daddr \in Resolved)
          /\ UNCHANGED dports
    /\ GoTo("announce_src")
    /\ UNCHANGED <<ips, pings, evidenceVars, dhcpVars, tw_modified, check, last_flipped>>

MutNotAnnounced ==
    /\ profiler = "announce_src"
    /\ GoTo("store_src")
    /\ UNCHANGED <<tables, evidenceVars, dhcpVars, tw_modified, check, last_flipped>>

(* add_port of the source port: its table has pings only.                  *)
AnnounceSrc ==
    /\ profiler = "announce_src"
    /\ Announce
    /\ GoTo("store_src")
    /\ UNCHANGED <<tables, evidenceVars, dhcpVars, check>>

StoreSrc ==
    /\ profiler = "store_src"
    /\ pings' = IF flow.proto = "ICMP" THEN [pings EXCEPT ![flow.daddr] = @ + 1]
                                       ELSE pings
    /\ GoTo("idle")
    /\ UNCHANGED <<ips, dports, evidenceVars, dhcpVars, tw_modified, check, last_flipped>>

(* Timeline adds a line about every flow it reads (add_timeline_line).     *)
AddTimelineLine ==
    /\ new_flow > 0
    /\ new_flow' = new_flow - 1
    /\ Announce
    /\ UNCHANGED <<tables, evidenceVars, dhcpVars, profiler, flow, handled, check>>

(* (external) A DHCP flow of the profile.                                  *)
AddDhcp ==
    /\ profiler = "idle"
    /\ Len(new_dhcp) < MaxRequests
    /\ \E a \in Addrs \cup {NoAddr} : new_dhcp' = Append(new_dhcp, a)
    /\ UNCHANGED <<tables, evidenceVars, profilerVars, dhcp_flows, dhcp_evidence,
                   tw_modified, check, last_flipped>>
-----------------------------------------------------------------------------
(***************************************************************************)
(* main() of the module.                                                   *)
(***************************************************************************)
ReceiveModified ==
    /\ check = 0
    /\ tw_modified > 0
    /\ tw_modified' = tw_modified - 1
    /\ check' = 1
    /\ UNCHANGED <<tables, evidenceVars, dhcpVars, profilerVars, last_flipped>>

NothingModified ==
    /\ check = 0
    /\ tw_modified = 0
    /\ check' = 6
    /\ UNCHANGED <<tables, evidenceVars, dhcpVars, profilerVars, tw_modified, last_flipped>>

(* How many ports of a host, or hosts of a port, one table holds.          *)
Amount(proto, k) ==
    Cardinality(IF k[1] = "vertical" THEN ips[proto][k[2]] ELSE dports[proto][k[2]])

MutMinimumOnly(amount, last) == amount >= Minimum

ShouldSetEvidence(amount, last) ==
    /\ amount >= Minimum
    /\ last = 0 \/ amount >= last + Growth

(* Evidence about every key of hits, each with its amount, and the amounts *)
(* in the cache.                                                           *)
SetEvidence(hits, amount) ==
    /\ cached' = [k \in Keys |-> IF k \in hits THEN amount[k] ELSE cached[k]]
    /\ reported' = [k \in Keys |-> IF k \in hits THEN amount[k] ELSE reported[k]]
    /\ evidence' = [k \in Keys |-> IF k \in hits THEN evidence[k] + 1 ELSE evidence[k]]

(* One table is read in one HGET and all its destinations are looked at.   *)
CheckScans ==
    /\ check \in DOMAIN Checks
    /\ LET kind == Checks[check][1]
           proto == Checks[check][2]
           amount == [k \in Scans |-> Amount(proto, k)]
       IN SetEvidence({k \in Scans : k[1] = kind /\ ShouldSetEvidence(amount[k], cached[k])},
                      amount)
    /\ check' = check + 1
    /\ UNCHANGED <<tables, dhcpVars, profilerVars, tw_modified, last_flipped>>

Pinged == {h \in Hosts : pings[h] > 0}

(* How often one host was pinged, and how many hosts were.                 *)
PingAmount(k) == IF k = Sweep THEN Cardinality(Pinged) ELSE pings[k[2]]

ShouldSetPingEvidence(k) ==
    LET n == PingAmount(k)
    IN /\ IF k = Sweep THEN n > 1 /\ n % MinimumHosts = 0
                       ELSE Pinged = {k[2]} /\ n % MinimumFlows = 0
       /\ cached[k] < n

CheckIcmpScan ==
    /\ check = 5
    /\ SetEvidence({k \in Pings : ShouldSetPingEvidence(k)},
                   [k \in Pings |-> PingAmount(k)])
    /\ check' = 6
    /\ UNCHANGED <<tables, dhcpVars, profilerVars, tw_modified, last_flipped>>

MutCountRepeated(a) ==
    IF a = NoAddr THEN UNCHANGED <<dhcp_flows, dhcp_evidence>>
    ELSE /\ dhcp_flows' = dhcp_flows \cup {a}
         /\ dhcp_evidence' = IF Cardinality(dhcp_flows') % MinimumAddrs = 0
                             THEN dhcp_evidence + 1 ELSE dhcp_evidence

(* Only this module writes the addresses: reading, storing and reading     *)
(* them again is one step.                                                 *)
CheckDhcpScan(a) ==
    IF a = NoAddr \/ a \in dhcp_flows THEN UNCHANGED <<dhcp_flows, dhcp_evidence>>
    ELSE /\ dhcp_flows' = dhcp_flows \cup {a}
         /\ dhcp_evidence' =
              IF /\ dhcp_flows # {}
                 /\ Cardinality(dhcp_flows') % MinimumAddrs = 0
              THEN dhcp_evidence + 1 ELSE dhcp_evidence

ReceiveDhcp ==
    /\ check = 6
    /\ \/ /\ new_dhcp # <<>>
          /\ CheckDhcpScan(Head(new_dhcp))
          /\ new_dhcp' = Tail(new_dhcp)
       \/ /\ new_dhcp = <<>>
          /\ UNCHANGED <<dhcp_flows, dhcp_evidence, new_dhcp>>
    /\ check' = 0
    /\ UNCHANGED <<tables, evidenceVars, profilerVars, tw_modified, last_flipped>>
-----------------------------------------------------------------------------
Profile ==
    \/ TakeFlow \/ AddTuple \/ AddIps \/ AnnounceDst \/ StoreDst
    \/ AnnounceSrc \/ StoreSrc \/ AddTimelineLine \/ AddDhcp

Main ==
    \/ ReceiveModified \/ NothingModified \/ CheckScans \/ CheckIcmpScan
    \/ ReceiveDhcp

Next == (Profile \/ Main) /\ UNCHANGED timeline

Spec == Init /\ [][Next]_vars
-----------------------------------------------------------------------------
(* Nothing is on its way to the module and it looks at nothing.            *)
Quiet == profiler = "idle" /\ new_flow = 0 /\ tw_modified = 0 /\ check \in {0, 6}

(* A destination needs no evidence: too few ports or hosts were scanned    *)
(* over one protocol, or not enough more than the last evidence said.      *)
Settled(proto, k) ==
    \/ Amount(proto, k) < Minimum
    \/ reported[k] > 0 /\ Amount(proto, k) < reported[k] + Growth

(* However flows and checks interleave, no scan is overlooked: when the    *)
(* module has nothing left to read, every destination scanned on Minimum   *)
(* ports over one protocol has its evidence, and fewer than Growth ports   *)
(* were scanned since.  add_port announces a flow before it stores it, and *)
(* the module may check in between: what saves the scan is the message of  *)
(* the second add_port.  A flipped flow has none, and waits for the next.  *)
ScansReported ==
    Quiet /\ ~last_flipped => \A t \in Transports, k \in Scans : Settled(t, k)

(* Checks repeat with every message, often on the same tables, but a       *)
(* destination gets one evidence more only when the amount grew by Growth  *)
(* since the last one over either protocol; for pings by whole minimums.   *)
EvidenceGrows ==
    [][\A k \in Keys : evidence'[k] # evidence[k] =>
         /\ evidence'[k] = evidence[k] + 1
         /\ reported[k] > 0 =>
              \/ k \in Scans /\ reported'[k] >= reported[k] + Growth
              \/ k \in Pings /\ reported'[k] > reported[k]]_vars

(* A DHCP scan evidence for every MinimumAddrs distinct addresses, however *)
(* often they are requested again ("4, 8, 12", docs/detection_modules.md). *)
DhcpEvidenceEveryFour == dhcp_evidence = Cardinality(dhcp_flows) \div MinimumAddrs
=============================================================================
