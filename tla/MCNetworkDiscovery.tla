-------------------------- MODULE MCNetworkDiscovery ------------------------
(***************************************************************************)
(* Two hosts (three to be pinged), of which h2 has a DNS resolution, and   *)
(* three ports.                                                            *)
(* Thresholds are scaled down: evidence from one port on, and again with   *)
(* two more; pings and DHCP requests by twos.                              *)
(***************************************************************************)
EXTENDS NetworkDiscovery, TLC

CONSTANTS h1, h2, h3, p1, p2, p3, a1, a2

MCFlow(proto, daddr, dport) == [proto |-> proto, daddr |-> daddr, dport |-> dport]

MCPings == {MCFlow("ICMP", h, p1) : h \in Hosts}
MCFlipped == {MCFlow("UDP", h2, p1)}
MCFlows ==
    MCPings \cup MCFlipped \cup {MCFlow("TCP", h1, p) : p \in {p1, p2, p3}}
            \cup {MCFlow("TCP", h2, p1), MCFlow("UDP", h1, p1)}
(* No flow tells p2 from p3, and no constant tells a1 from a2.             *)
MCSymmetry == Permutations({p2, p3}) \cup Permutations({a1, a2})
=============================================================================
