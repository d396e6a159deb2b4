---------------------------- MODULE LocalNetwork ----------------------------
(***************************************************************************)
(* What the database knows of the local network: for each MAC address the  *)
(* list of addresses that use it, for each profile its MAC, and for the    *)
(* interface its gateway's IP or MAC.  The profiler stores MACs; the IP    *)
(* info module and the profiler store the gateway; the ARP module accuses  *)
(* of a MITM attack a host that announces an address its MAC is not known  *)
(* for.  A MAC is stored in several Redis calls, one action each, and the  *)
(* profiler may be killed between them.                                    *)
(***************************************************************************)
EXTENDS Absent, Naturals, FiniteSets

CONSTANTS
    Macs, V4, V6,  \* MAC and IP addresses
    Public,        \* addresses that are not private
    LocalPeers,    \* trusted peers, or the host when it defends itself
    FarFrom(_),    \* addresses out of the home network, first octet not this one's
    IgnoredIPs,    \* multicast, reserved and loopback addresses
    MaxCalls       \* bound: calls that store something

ASSUME NetworkAssumption == None \notin V4 \cup V6

VARIABLES
    ipsOf,                 \* key MAC: the addresses of each MAC; json of list(set) has no order
    macOf,                 \* field MAC of each profile
    others,                \* its fields IPv4 and IPv6: addresses of the same host
    gateway,               \* default_gateway of the interface: [type, value], or None
    vendorOf,              \* the MAC that the vendor stored in the profile is the vendor of
    macDb, vendorQueries,  \* the file of vendors is open; pending_mac_queries
    gwFound,               \* _gateway_MAC_found of the process that stores MACs
    accused,               \* evidence of the last ARP reply: type, attacker, victim
    calls,
    adding,                \* the MAC being stored: next call, address, MAC, address found
    profilerUp             \* the profiler has not been killed

vendorVars == <<vendorOf, macDb, vendorQueries>>
tables == <<ipsOf, macOf, others>>
lnvars == <<tables, vendorVars, gateway, gwFound, accused, calls, adding, profilerUp>>

Addresses == V4 \cup V6
Idle == [at |-> "idle", ip |-> None, mac |-> None, found |-> None]

NetworkInit ==
    /\ ipsOf = [mac \in Macs |-> {}] /\ macOf = [ip \in Addresses |-> None]
    /\ others = [ip \in Addresses |-> [v4 |-> None, v6 |-> {}]]
    /\ vendorOf = [ip \in Addresses |-> None] /\ macDb = FALSE /\ vendorQueries = {}
    /\ gateway = None /\ gwFound = FALSE /\ accused = {} /\ calls = 0
    /\ adding = Idle /\ profilerUp = TRUE

HasGateway(type) == gateway # None /\ gateway.type = type
GatewayIs(type, value) == HasGateway(type) /\ gateway.value = value
Call == calls < MaxCalls /\ calls' = calls + 1

\* set_default_gateway: the one value is stored under the interface, and the
\* other kind of address, if there was one, is gone.
Stored(type, value) == IF HasGateway(type) THEN gateway ELSE [type |-> type, value |-> value]

SetDefaultGateway(type, value) ==
    /\ gateway' = Stored(type, value)
    /\ UNCHANGED <<tables, gwFound, accused, vendorVars, adding, profilerUp>>

\* IPInfo.pre_main stores the gateway's IP and then the MAC it knows or finds.
GatewayMacs(ip) == IF macOf[ip] # None THEN {macOf[ip]} ELSE Macs
FoundGatewayIP(ip) == Call /\ SetDefaultGateway("IP", ip)
FoundGatewayMac(ip) == Call /\ \E mac \in GatewayMacs(ip) : SetDefaultGateway("MAC", mac)

\* _is_gw_mac, _should_associate_this_mac_with_this_ip
IsGwMac(mac) == gwFound /\ GatewayIs("MAC", mac)
ShouldAssociate(ip, mac) == ~IsGwMac(mac) /\ ~GatewayIs("IP", ip)

\* _determine_gw_mac: a MAC that is seen with a public address
DetermineGwMac(ip, mac) ==
    /\ gwFound' = (gwFound \/ ip \in Public)
    /\ gateway' = IF gwFound \/ ip \notin Public THEN gateway ELSE Stored("MAC", mac)

\* add_mac_addr_to_profile, up to its first call that stores: two IPv4 addresses
\* may not share a MAC, but the address compared is the last of a list made from
\* a set.
Storing(at, ip, mac, found) == [at |-> at, ip |-> ip, mac |-> mac, found |-> found]

\* Mutant: the profile of a second IPv4 address gets the MAC as well.
MutAddMac(ip, mac) ==
    /\ Call /\ profilerUp /\ adding = Idle /\ ShouldAssociate(ip, mac) /\ DetermineGwMac(ip, mac)
    /\ \/ ipsOf[mac] = {} /\ adding' = Storing("list", ip, mac, None)
       \/ \E found \in ipsOf[mac] :
             adding' = IF ip \in ipsOf[mac] THEN Idle
                       ELSE Storing(IF {ip, found} \subseteq V4 THEN "mac" ELSE "own", ip, mac, found)
    /\ UNCHANGED <<tables, accused, vendorVars, profilerUp>>

AddMac(ip, mac) ==
    /\ Call /\ profilerUp /\ adding = Idle /\ ShouldAssociate(ip, mac) /\ DetermineGwMac(ip, mac)
    /\ \/ ipsOf[mac] = {} /\ adding' = Storing("list", ip, mac, None)
       \/ \E found \in ipsOf[mac] :
             adding' = IF ip \in ipsOf[mac] \/ {ip, found} \subseteq V4 THEN Idle
                       ELSE Storing("own", ip, mac, found)
    /\ UNCHANGED <<tables, accused, vendorVars, profilerUp>>

\* The call the profiler is at, and the one after it.
Calls(at, next) ==
    /\ profilerUp /\ adding.at = at
    /\ adding' = IF next = "idle" THEN Idle ELSE [adding EXCEPT !.at = next]
    /\ UNCHANGED <<gateway, gwFound, accused, calls, vendorVars, profilerUp>>

\* The IPv4 or IPv6 field of a profile: two IPv6 addresses are added to what is
\* there, an IPv4 and an IPv6 address overwrite it.
AddToTheListOfIPv6(ip, new) == others[ip].v6 \cup {new}
Link(ip, other) ==
    IF {ip, other} \subseteq V6 THEN [others EXCEPT ![ip].v6 = AddToTheListOfIPv6(ip, other)]
    ELSE IF ip \in V4 THEN [others EXCEPT ![ip].v6 = {other}] ELSE [others EXCEPT ![ip].v4 = other]

\* First the incoming profile's field, then that of the profile found.
StoreOwnLink ==
    Calls("own", "peer") /\ others' = Link(adding.ip, adding.found) /\ UNCHANGED <<ipsOf, macOf>>
StorePeerLink ==
    Calls("peer", "list") /\ others' = Link(adding.found, adding.ip) /\ UNCHANGED <<ipsOf, macOf>>

\* Then the list of the MAC, and then the MAC of one profile or of both.
StoreList ==
    /\ Calls("list", "mac") /\ UNCHANGED <<macOf, others>>
    /\ ipsOf' = [ipsOf EXCEPT ![adding.mac] = @ \cup {adding.ip}]
StoreMac ==
    /\ Calls("mac", IF adding.found = None THEN "idle" ELSE "peerMac") /\ UNCHANGED <<ipsOf, others>>
    /\ macOf' = [macOf EXCEPT ![adding.ip] = adding.mac]
StorePeerMac ==
    /\ Calls("peerMac", "idle") /\ UNCHANGED <<ipsOf, others>>
    /\ macOf' = [macOf EXCEPT ![adding.found] = adding.mac]

\* kill_all_children, when the shutdown takes too long
KillProfiler ==
    /\ profilerUp /\ profilerUp' = FALSE
    /\ UNCHANGED <<tables, vendorVars, gateway, gwFound, accused, calls, adding>>

-----------------------------------------------------------------------------
(* The ARP module *)

Accusation(type, by, victims) == {[type |-> type, by |-> by, victim |-> v] : v \in victims}

\* detect_mitm_arp_attack: the first of the list is the one seen before.
Mitm(ip, original) == Accusation("mitm", ip, {original} \ {ip})

\* detect_unsolicited_arp: an ARP reply to both broadcast addresses
Unsolicited(ip, broadcast) == IF broadcast THEN Accusation("unsolicited", ip, {None}) ELSE {}

\* check_dstip_outside_localnet, on an ARP request
OutsideLocalnet(ip, to) == Accusation("outside", ip, {to} \cap FarFrom(ip))

\* ARPEvidenceFilter: what SmartShield and its peers do themselves is dropped.
ShouldDiscard(ip) == ip \in LocalPeers
Filtered(found) == {e \in found : ~ShouldDiscard(e.by)}

\* A reply, to a broadcast address or not.  A request is not filtered.
Reply(ip, mac, gratuitous, broadcast) ==
    /\ broadcast => gratuitous
    /\ \E original \in IF ipsOf[mac] = {} THEN {ip} ELSE ipsOf[mac] :
          accused' = Filtered((IF gratuitous THEN Mitm(ip, original) ELSE {}) \cup Unsolicited(ip, broadcast))
    /\ UNCHANGED <<tables, gateway, gwFound, calls, vendorVars, adding, profilerUp>>
RequestOut(ip, to) ==
    /\ accused' = OutsideLocalnet(ip, to)
    /\ UNCHANGED <<tables, gateway, gwFound, calls, vendorVars, adding, profilerUp>>

-----------------------------------------------------------------------------
(* The vendors of MAC addresses, IP Info *)

\* get_vendor_offline: without the file the query is kept for later; then
\* get_vendor_online.
AskOffline(ask) == vendorQueries' = IF macDb THEN vendorQueries ELSE vendorQueries \cup ask
MayBeFound(ask, online) == IF macDb \/ online THEN SUBSET ask ELSE {{}}

\* set_mac_vendor_to_profile stores a first vendor, and only for the MAC the
\* profile has.
StoreVendors(found) ==
    vendorOf' = [ip \in Addresses |-> IF vendorOf[ip] = None /\ <<ip, macOf[ip]>> \in found
                                 THEN macOf[ip] ELSE vendorOf[ip]]

\* get_vendor: only ignored addresses get past its first test.
GetVendor(ip, mac) ==
    /\ Call /\ ip \in IgnoredIPs /\ vendorOf[ip] = None
    /\ AskOffline({<<ip, mac>>})
    /\ \E found \in MayBeFound({<<ip, mac>>}, TRUE) : StoreVendors(found)
    /\ UNCHANGED <<tables, gateway, gwFound, accused, macDb, adding, profilerUp>>

\* check_if_we_have_pending_offline_mac_queries, on any MAC
CheckPending ==
    /\ Call /\ macDb /\ vendorQueries # {} /\ vendorQueries' = {}
    /\ \E found \in MayBeFound(vendorQueries, FALSE) : StoreVendors(found)
    /\ UNCHANGED <<tables, gateway, gwFound, accused, macDb, adding, profilerUp>>

\* read_mac_db opens the file once the update manager has downloaded it.
OpenMacDb ==
    /\ ~macDb /\ macDb' = TRUE
    /\ UNCHANGED <<tables, gateway, gwFound, accused, calls, vendorOf, vendorQueries, adding, profilerUp>>

NetworkNext ==
    \/ OpenMacDb \/ CheckPending \/ \E ip \in Addresses, mac \in Macs : GetVendor(ip, mac)
    \/ \E ip, to \in V4 : RequestOut(ip, to)
    \/ \E ip \in Addresses, mac \in Macs : AddMac(ip, mac)
    \/ StoreOwnLink \/ StorePeerLink \/ StoreList \/ StoreMac \/ StorePeerMac \/ KillProfiler
    \/ \E ip \in V4 : FoundGatewayIP(ip) \/ FoundGatewayMac(ip)
    \/ \E ip \in V4, mac \in Macs, gratuitous, broadcast \in BOOLEAN : Reply(ip, mac, gratuitous, broadcast)

NetworkSpec == NetworkInit /\ [][NetworkNext]_lnvars

-----------------------------------------------------------------------------
NetworkTypeOK ==
    /\ ipsOf \in [Macs -> SUBSET Addresses] /\ macOf \in [Addresses -> Macs \cup {None}]
    /\ others \in [Addresses -> [v4 : V4 \cup {None}, v6 : SUBSET V6]]
    /\ gateway = None \/ (gateway.type = "IP" /\ gateway.value \in Addresses)
                      \/ (gateway.type = "MAC" /\ gateway.value \in Macs)
    /\ vendorOf \in [Addresses -> Macs \cup {None}] /\ macDb \in BOOLEAN /\ vendorQueries \subseteq Addresses \X Macs
    /\ gwFound \in BOOLEAN /\ calls \in 0..MaxCalls /\ profilerUp \in BOOLEAN
    /\ \/ adding = Idle
       \/ adding \in [at : {"own", "peer", "list", "mac", "peerMac"}, ip : Addresses, mac : Macs,
                      found : Addresses \cup {None}]
    /\ \A e \in accused : e.by \in IF e.type = "outside" THEN V4 ELSE V4 \ LocalPeers

\* The tables add_mac_addr_to_profile keeps do not part, wherever the profiler is
\* among their calls or was killed, and however addresses move between MACs: the
\* MAC stored in a profile, and the one its vendor was looked up for, list the
\* profile's address; and what a profile says are the other addresses of its
\* host have a MAC in common with it, but for the two profiles being linked.
BeingLinked(a, b) == adding.at \in {"peer", "list"} /\ {a, b} = {adding.ip, adding.found}
OthersOf(ip) == others[ip].v6 \cup ({others[ip].v4} \ {None})
MacTablesAgree ==
    \A ip \in Addresses :
        /\ macOf[ip] # None => ip \in ipsOf[macOf[ip]]
        /\ vendorOf[ip] # None => ip \in ipsOf[vendorOf[ip]]
        /\ \A other \in OthersOf(ip) :
              BeingLinked(ip, other) \/ \E mac \in Macs : {ip, other} \subseteq ipsOf[mac]
=============================================================================
