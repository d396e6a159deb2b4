----------------------------- MODULE MCModules -----------------------------
(***************************************************************************)
(* Small instances of the modules that share nothing with each other but   *)
(* the messages they get, in one run: a behaviour is that of one module,   *)
(* chosen at the start, and the others stay as they began.                 *)
(***************************************************************************)
EXTENDS Blocking, ArpPoisoner, ArpScans, FlowCounters, FlowEvidence, HttpAnalyzer, DelayedChecks,
        LocalNetwork, ThreatIntel, P2PTrust, OtDetection, TLC

CONSTANTS a1, a2, a3, m1, m2

VARIABLES
    part,
    lNow, lInfo, writer, announced, ranges, passive, lQueue, badKey, lMsgs, limits

lookupVars == <<lNow, lInfo, writer, announced, ranges, passive, lQueue, badKey, lMsgs, limits>>

-----------------------------------------------------------------------------
\* Blocking: the text of a1 occurs in that of a2 (10.0.0.1, 10.0.0.12).
TextWithin(a, b) == a = b \/ (a = a1 /\ b = a2)

\* ArpPoisoner
FirstHost == {{a1}}

\* ArpScans
KeyWithin(j, k) == j = k \/ <<j, k>> = <<"p1", "p10">>

\* FlowCounters
Enough ==
    [telnet |-> 2, reconnection |-> 3, dga |-> 3, arpa |-> 2, smtp |-> 3, ssh |-> 3, empty |-> 3]
Spans == [k \in DOMAIN Enough |-> 0]

\* FlowEvidence
EndIs(end) == CASE end = "own" -> "own" [] end = "far" -> "private" [] end = "pub" -> "public"
FlowKinds ==
    {{"port_53"}, {"port_53", "answers"}, {"high_udp", "unknown_port"},
     {"port_53", "answers", "high_entropy", "private_answer"},
     {"unknown_port", "established", "several_ports"}, {"long", "port_0", "upload", "sends"},
     {"org_in_cn", "cn_differs", "self_signed", "young"}, {"malicious_ja3s", "gre_scan", "doh"},
     {"telnet", "dga", "non_ssl", "bad_smtp"}}

\* HttpAnalyzer
AgentOS(a) == CASE a \in {"mac1", "mac2"} -> "apple" [] a = "win" -> "windows" [] OTHER -> None
HasServerBag(a) == a = "mac2"
MentionsOS(a, o) == AgentOS(a) = o
MacVendor(p) == IF p = "p" THEN "apple" ELSE None
MakersIn(x) == CASE x = "windows" -> {"microsoft"} [] x = None -> {} [] OTHER -> {x}
IsSafari(a) == a = "mac1"

\* DelayedChecks
CheckGroups == {{"ssl"}, {"http"}, {"pastebin", "weird"}, {"ssh", "dns"}}
IsLarge(x) == x = "a"
Never(x) == FALSE
NoIPs(x) == {}

\* LocalNetwork
OtherNetwork(to) == {"b"} \ {to}

\* ThreatIntel
ResolvesTo(d) == IF d = "d1" THEN "a1" ELSE None
LocalLines(n, v) ==
    CASE n = "own_malicious_iocs" /\ v = 0 -> <<"d1", "d2", "a1">>
      [] n = "own_malicious_iocs" /\ v = 1 -> <<"a1", "a2", "d1">>
      [] n = "own_malicious_JARM" /\ v = 0 -> <<"j1", "j2">>
      [] n = "own_malicious_JARM" /\ v = 1 -> <<"j2", "short", "j1">>
      [] n = "own_malicious_JA3" -> <<"h1", "h2">>
      [] OTHER -> <<"h3">>

\* IpLookups
RangeOf(i) == {i}
Lookups == INSTANCE IpLookups WITH
    now <- lNow, info <- lInfo, queue <- lQueue, msgs <- lMsgs,
    IPs <- {"i"}, Domains <- {"d"}, Urls <- {"u"}, Private <- {}, SameRange <- RangeOf, Announces <- TRUE, HelperRuns <- TRUE,
    Period <- 0, MaxTime <- 0, MaxMsgs <- 1, MaxLimits <- 1

\* OtDetection
Message(channel, by, on, is) == [channel |-> channel, saddr |-> by, daddr |-> on, is |-> is]
NtpFlows == {Message("new_flow", a, "plc1", {"ntp", "udp"}) : a \in {"x", "y"}}
MessageGroups ==
    {NtpFlows,
     {Message("new_flow", "x", "plc1", {"modbus", "tcp"}), Message("new_flow", "master", "plc1", {"modbus", "tcp"}),
      Message("new_flow", "x", "y", {"modbus", "tcp", "heavy"}), Message("new_modbus", "x", "plc1", {"write"}),
      Message("new_modbus", "master", "plc1", {"write", "illegal"})},
     {Message("new_flow", "x", "plc1", {"s7", "tcp"}), Message("new_flow", "plc1", "x", {"s7", "tcp"}),
      Message("new_s7comm", "x", "plc1", {"write"}), Message("new_s7comm", "master", "plc1", {"write", "control"})},
     {Message("new_flow", "x", "plc1", {"dnp3", p}) : p \in {"tcp", "udp", "icmp"}}
        \cup {Message("new_dnp3", "x", "plc1", {"reserved"})},
     {Message("new_flow", "x", "plc1", {p, "udp"}) : p \in {"profinet", "cip", "ptp"}}
        \cup {Message("new_flow", "plc1", "y", {"ptp", "udp", "heavy"}), Message("new_flow", "x", "y", {"cip", "tcp"}),
              Message("new_flow", "y", "x", {"opcua", "tcp", "heavy"})},
     {Message("new_notice", a, "plc1", {"plc"}) : a \in {"x", "y"}}
        \cup {Message("new_notice", "x", "plc1", {n}) : n \in {"watchdog", "valve", "motor"}}}
Twice == [t \in {"modbus", "s7", "dnp3", "profinet", "cip", "ntp", "plc"} |-> 2]
Instant == [t \in DOMAIN Twice |-> 0]

-----------------------------------------------------------------------------
ModulesInit ==
    /\ part \in {"blocking", "poisoner", "counters", "flows", "http", "intel", "network",
                 "scans", "lookups", "peering", "delayed", "ot"}
    /\ Init /\ PoisonInit /\ FlowInit /\ HttpInit /\ IntelInit
    /\ NetworkInit /\ ScanInit /\ Lookups!Init /\ PeerInit
    /\ CountInit /\ (part # "counters" => kind = "telnet")
    /\ DelayedInit /\ (part # "delayed" => checks = {"ssl"})
    /\ OtInit /\ (part # "ot" => group = NtpFlows)

ModulesNext ==
    /\ UNCHANGED part
    /\ \/ /\ part = "blocking" /\ Next
          /\ UNCHANGED <<avars, cvars, fvars, hvars, tivars,
                      lnvars, asvars, lookupVars, ptvars, dvars, otvars>>
       \/ /\ part = "poisoner" /\ PoisonNext
          /\ UNCHANGED <<bvars, cvars, fvars, hvars, tivars,
                      lnvars, asvars, lookupVars, ptvars, dvars, otvars>>
       \/ /\ part = "counters" /\ CountNext
          /\ UNCHANGED <<bvars, avars, fvars, hvars, tivars,
                      lnvars, asvars, lookupVars, ptvars, dvars, otvars>>
       \/ /\ part = "flows" /\ FlowNext
          /\ UNCHANGED <<bvars, avars, cvars, hvars, tivars,
                      lnvars, asvars, lookupVars, ptvars, dvars, otvars>>
       \/ /\ part = "http" /\ HttpNext
          /\ UNCHANGED <<bvars, avars, cvars, fvars, tivars,
                      lnvars, asvars, lookupVars, ptvars, dvars, otvars>>
       \/ /\ part = "intel" /\ IntelNext
          /\ UNCHANGED <<bvars, avars, cvars, fvars, hvars, 
                      lnvars, asvars, lookupVars, ptvars, dvars, otvars>>
       \/ /\ part = "network" /\ NetworkNext
          /\ UNCHANGED <<bvars, avars, cvars, fvars, hvars, 
                      tivars, asvars, lookupVars, ptvars, dvars, otvars>>
       \/ /\ part = "scans" /\ ScanNext
          /\ UNCHANGED <<bvars, avars, cvars, fvars, hvars, 
                      tivars, lnvars, lookupVars, ptvars, dvars, otvars>>
       \/ /\ part = "lookups" /\ Lookups!Next
          /\ UNCHANGED <<bvars, avars, cvars, fvars, hvars, 
                      tivars, lnvars, asvars, ptvars, dvars, otvars>>
       \/ /\ part = "peering" /\ PeerNext
          /\ UNCHANGED <<bvars, avars, cvars, fvars, hvars, 
                      tivars, lnvars, asvars, lookupVars, dvars, otvars>>
       \/ /\ part = "delayed" /\ DelayedNext
          /\ UNCHANGED <<bvars, avars, cvars, fvars, hvars, 
                      tivars, lnvars, asvars, lookupVars, ptvars, otvars>>
       \/ /\ part = "ot" /\ OtNext
          /\ UNCHANGED <<bvars, avars, cvars, fvars, hvars, 
                      tivars, lnvars, asvars, lookupVars, ptvars, dvars>>

modulesVars == <<part, bvars, avars, cvars, fvars, hvars, 
                 tivars, lnvars, asvars, lookupVars, ptvars, dvars, otvars>>

ModulesSpec == ModulesInit /\ [][ModulesNext]_modulesVars

-----------------------------------------------------------------------------
(* The properties, stated where their modules are. *)

\* Every module's variables keep their types.
TypesOK ==
    /\ part = "blocking" => TypeOK
    /\ part = "poisoner" => PoisonTypeOK
    /\ part = "counters" => CountTypeOK
    /\ part = "flows" => FlowTypeOK
    /\ part = "http" => HttpTypeOK
    /\ part = "intel" => IntelTypeOK
    /\ part = "network" => NetworkTypeOK
    /\ part = "scans" => ScanTypeOK
    /\ part = "lookups" => Lookups!TypeOK
    /\ part = "peering" => PeerTypeOK
    /\ part = "delayed" => DelayedTypeOK
    /\ part = "ot" => OtTypeOK
=============================================================================
