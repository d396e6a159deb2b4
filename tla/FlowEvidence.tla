---------------------------- MODULE FlowEvidence ----------------------------
(***************************************************************************)
(* The checks of Flow Alerts that judge a flow by itself, or with a little *)
(* memory: conn.py, dns.py, ssl.py and the small analyzers, and what       *)
(* set_evidence.py files for each.  A flow is its two addresses and the    *)
(* set of traits the checks ask about; an evidence is its kind, the role   *)
(* whose profile it is filed in and its threat level.  The analyzers see   *)
(* the same flow through different channels, in any order.                 *)
(***************************************************************************)
EXTENDS Absent, Naturals, FiniteSets, TLC

CONSTANTS
    FlowIPs,
    Where(_),            \* own, private (outside the local network), public, special, multicast
    Gateway,
    TraitSets,           \* the sets of traits flows may have
    Localnet,            \* the local network of the interface is known
    P2PConns, P2PAddrs,  \* 6 and 5: when is_p2p says yes
    DnsReplies,          \* 5: answers that make a private server the DNS server
    UploadLimit,         \* uploads to one address that are an exfiltration
    MaxAnalyzed          \* bound: flows

ASSUME FlowAssumption == DnsReplies \in Nat \ {0} /\ None \notin FlowIPs

VARIABLES
    flow,          \* the flow under analysis
    toAnalyze,     \* the analyzers that have not seen it
    flowEvidence,  \* [kind, on, level, by] set for it
    p2p,           \* p2p_daddrs: connections to high UDP ports per address
    replies,       \* priv_ips_doing_dns_outside_of_localnet
    dnsIP,         \* detected_dns_ip, or none
    macIP,         \* the IPv4 address of the MAC, which all the flows have as smac
    seen,          \* srcips_seen_in_connlog
    uploads,       \* uploads to each address in all the flows of the profile
    analyzed,
    letPass        \* history: DNS flows to each server outside the network let pass

fvars == <<flow, toAnalyze, flowEvidence, p2p, replies, dnsIP, macIP, seen, uploads, analyzed, letPass>>

Analyzers == {"conn", "dns", "ssl", "other"}
IsPrivate(ip) == Where(ip) \in {"own", "private"}
Is(t) == t \in flow.traits

FlowInit ==
    /\ flow = [saddr |-> None, daddr |-> None, traits |-> {}]
    /\ toAnalyze = {} /\ flowEvidence = {} /\ analyzed = 0
    /\ p2p = [ip \in FlowIPs |-> 0] /\ replies = [ip \in FlowIPs |-> 0]
    /\ dnsIP = None /\ macIP = None /\ seen = {} /\ uploads = [ip \in FlowIPs |-> 0]
    /\ letPass = [ip \in FlowIPs |-> 0]

-----------------------------------------------------------------------------
(* What set_evidence.py files: pairs of a role and a level.  "self" is the *)
(* profile the flow is analysed in.                                        *)

On(role, level) == <<role, level>>

CertificateAndDoh ==
    "cn_url_mismatch" :> {On("saddr", "low"), On("daddr", "medium")}
    @@ "doh" :> {On("daddr", "info")}
    @@ "young_domain" :> {On("answer", "low"), On("saddr", "info")}
VersionsAndNetworks ==
    "multiple_ssh_versions" :> {On("saddr", "medium")}
    @@ "localnet_srcip" :> {On("saddr", "low")}
    @@ "localnet_dstip" :> {On("daddr", "high")}
    @@ "device_changing_ips" :> {On("saddr", "medium")}
SslAndDns ==
    "non_ssl" :> {On("saddr", "medium")}
    @@ "incompatible_cn" :> {On("saddr", "medium")}
    @@ "dga" :> {On("saddr", "high")}
    @@ "dns_without_conn" :> {On("saddr", "info")}
DownloadsAndPorts ==
    "pastebin" :> {On("saddr", "info")}
    @@ "conn_without_dns" :> {On("saddr", "info")}
    @@ "arpa" :> {On("saddr", "medium")}
    @@ "unknown_port_established" :> {On("saddr", "high")}
    @@ "unknown_port" :> {On("saddr", "medium")}
\* ssh_pw_guessing has no caller that gives it its arguments (FlowCounters!Ssh).
ZeekNotices ==
    "pw_guessing" :> {On("scanner", "high")}
    @@ "horizontal_portscan" :> {On("self", "high")}
    @@ "conn_to_private_ip" :> {On("saddr", "info")}
TunnelsAndScans ==
    "gre_tunnel" :> {On("saddr", "low")} @@ "gre_scan" :> {On("saddr", "low")}
    @@ "vertical_portscan" :> {On("scanner", "high")}
    @@ "ssh_successful" :> {On("saddr", "info")}
LongAndSelfSigned ==
    "long_connection" :> {On("saddr", "low")}
    @@ "self_signed" :> {On("saddr", "low"), On("daddr", "low")}
    @@ "telnet" :> {On("saddr", "medium")}
PortsAndAnswers ==
    "reconnection" :> {On("saddr", "medium")}
    @@ "multiple_ports" :> {On("self", "info")}
    @@ "suspicious_dns_answer" :> {On("daddr", "medium"), On("saddr", "low")}
InvalidAndJa3s ==
    "invalid_dns_answer" :> {On("saddr", "info")}
    @@ "port_0" :> {On("self", "high")}
    @@ "malicious_ja3s" :> {On("daddr", "feed"), On("saddr", "low")}
Ja3AndUploads ==
    "malicious_ja3" :> {On("saddr", "feed")}
    @@ "data_upload" :> {On("self", "info"), On("daddr", "high")}
    @@ "bad_smtp" :> {On("saddr", "high")}
FileCertificates ==
    "smtp_bruteforce" :> {On("saddr", "high")}
    @@ "malicious_ssl" :> {On("daddr", "feed"), On("saddr", "low")}

FiledIn ==
    CertificateAndDoh @@ VersionsAndNetworks @@ SslAndDns @@ DownloadsAndPorts @@ ZeekNotices
    @@ TunnelsAndScans @@ LongAndSelfSigned @@ PortsAndAnswers @@ InvalidAndJa3s
    @@ Ja3AndUploads @@ FileCertificates

\* Kinds that take more than one flow: FlowCounters and DelayedChecks say which
\* flow is the one, here it is a trait.  Connections without DNS, and DNS without
\* connections, never come to an evidence (see there).
Later == [conn |-> {"telnet", "reconnection"}, dns |-> {"dga", "arpa"}, ssl |-> {"non_ssl", "pastebin"},
          other |-> {"bad_smtp", "smtp_bruteforce", "ssh_successful"}]

\* The evidence of the kinds whose checks hold.
Set(by, kinds) ==
    UNION {{[kind |-> k, on |-> p[1], level |-> p[2], by |-> by] : p \in FiledIn[k]} :
              k \in kinds \cup (Later[by] \cap flow.traits)}

-----------------------------------------------------------------------------
(* conn.py *)

\* is_p2p: high UDP ports to many addresses, or often to one.  It counts.
HighUdp == Is("high_udp")
P2PAfter == IF HighUdp /\ p2p[flow.daddr] < P2PConns
            THEN [p2p EXCEPT ![flow.daddr] = @ + 1] ELSE p2p
IsP2P == HighUdp /\ (p2p[flow.daddr] >= P2PConns
                     \/ Cardinality({ip \in FlowIPs : P2PAfter[ip] > 0}) >= P2PAddrs)

\* port_belongs_to_an_org: organisations are known to use the port, and the
\* address is listed for it, or is by its vendor, name or range one of theirs.
PortBelongsToOrg ==
    Is("org_port") /\ flow.traits \cap {"org_ip", "org_vendor", "org_name", "org_range"} # {}

\* check_unknown_port: the port is in no list, belongs to no organisation of
\* the address; only then is is_p2p asked, and counts the flow.
AsksP2P == Is("unknown_port") /\ ~PortBelongsToOrg
UnknownPort ==
    IF AsksP2P /\ ~IsP2P /\ ~Is("ftp")
    THEN {IF Is("established") THEN "unknown_port_established" ELSE "unknown_port"} ELSE {}

\* check_long_connection
LongConnection ==
    IF Is("long") /\ "multicast" \notin {Where(flow.saddr), Where(flow.daddr)}
    THEN {"long_connection"} ELSE {}

\* check_conn_to_port_0
Port0 == IF Is("port_0") /\ Where(flow.daddr) # "multicast" THEN {"port_0"} ELSE {}

\* _is_ok_to_connect_to_ip_outside_localnet returns in the first round of its
\* loop: only the source address is looked at.
OkOutside(ip) == Where(ip) \in {"public", "special", "multicast"}

\* check_different_localnet_usage, for one end; what is not port 53/udp.
Outside(ip) == Localnet /\ Where(ip) # "own"
ConnLocalnet ==
    IF Is("port_53") \/ OkOutside(flow.saddr) THEN {}
    ELSE {k \in {"localnet_srcip", "localnet_dstip"} :
            Outside(IF k = "localnet_srcip" THEN flow.saddr ELSE flow.daddr)}

\* detect_connection_to_multiple_ports: an established TCP flow to unnamed
\* ports, and another port to the same address before.
MultiplePorts ==
    IF {"established", "several_ports"} \subseteq flow.traits THEN {"multiple_ports"} ELSE {}

\* is_ignored_ip_data_upload, check_data_upload
IgnoredUpload(ip) == ip = Gateway \/ Where(ip) = "multicast"
DataUpload == IF Is("upload") /\ ~IgnoredUpload(flow.daddr) THEN {"data_upload"} ELSE {}

\* check_connection_to_local_ip, except DNS and DHCP with the gateway
ConnToLocal ==
    IF IsPrivate(flow.saddr) /\ IsPrivate(flow.daddr) /\ ~(Is("port_53") /\ flow.daddr = Gateway)
    THEN {"conn_to_private_ip"} ELSE {}

\* check_device_changing_ips: at the first flow of a private address, whose MAC
\* was seen with another one.
ChangingIPs ==
    IF IsPrivate(flow.saddr) /\ flow.saddr \notin seen /\ macIP \notin {None, flow.saddr}
    THEN {"device_changing_ips"} ELSE {}

AnalyzeConn ==
    /\ "conn" \in toAnalyze /\ toAnalyze' = toAnalyze \ {"conn"}
    /\ flowEvidence' = flowEvidence \cup
         Set("conn", UnknownPort \cup LongConnection \cup Port0 \cup ConnLocalnet \cup MultiplePorts
                     \cup DataUpload \cup ConnToLocal \cup ChangingIPs)
    /\ p2p' = IF AsksP2P THEN P2PAfter ELSE p2p
    /\ seen' = IF IsPrivate(flow.saddr) THEN seen \cup {flow.saddr} ELSE seen
    /\ uploads' = IF Is("sends") THEN [uploads EXCEPT ![flow.daddr] = @ + 1] ELSE uploads
    /\ UNCHANGED <<flow, replies, dnsIP, macIP, analyzed, letPass>>

\* detect_data_upload_in_twid, on tw_closed: the flows are all those of the
\* profile, whatever their window.
FlowTwClosed ==
    /\ toAnalyze = {}
    /\ flowEvidence' = Set("conn", IF \E ip \in FlowIPs : uploads[ip] >= UploadLimit /\ ~IgnoredUpload(ip)
                               THEN {"data_upload"} ELSE {})
    /\ flowEvidence' # flowEvidence
    /\ UNCHANGED <<flow, toAnalyze, p2p, replies, dnsIP, macIP, seen, uploads, analyzed, letPass>>

-----------------------------------------------------------------------------
(* dns.py *)

\* is_possible_dns_misconfiguration: the first answers of a private server
\* outside the local network are let pass, and at the 5th it is the DNS server.
\* From then on nothing is let pass: what should spare the server
\* (_is_ok_to_connect_to_ip_outside_localnet) looks at the source only.
PossibleMisconfiguration == dnsIP = None /\ Is("answers")

\* Mutant: answers are let pass when the server is known as well.
MutDnsLocalnet ==
    IF ~Is("port_53") \/ OkOutside(flow.saddr) \/ flow.saddr = dnsIP THEN {}
    ELSE {k \in {"localnet_srcip", "localnet_dstip"} :
            LET ip == IF k = "localnet_srcip" THEN flow.saddr ELSE flow.daddr IN
            IsPrivate(ip) /\ Outside(ip) /\ ~(k = "localnet_dstip" /\ Is("answers"))}

\* check_different_localnet_usage of dns.py: only port 53/udp, a private end.
DnsLocalnet ==
    IF ~Is("port_53") \/ OkOutside(flow.saddr) \/ flow.saddr = dnsIP THEN {}
    ELSE {k \in {"localnet_srcip", "localnet_dstip"} :
            LET ip == IF k = "localnet_srcip" THEN flow.saddr ELSE flow.daddr IN
            /\ IsPrivate(ip) /\ Outside(ip)
            /\ ~(k = "localnet_dstip" /\ PossibleMisconfiguration)}

JudgesServer == Is("port_53") /\ ~OkOutside(flow.saddr) /\ flow.saddr # dnsIP /\ IsPrivate(flow.daddr)
CountsReply == JudgesServer /\ PossibleMisconfiguration
Passes == JudgesServer /\ Outside(flow.daddr) /\ "localnet_dstip" \notin DnsLocalnet

\* check_high_entropy_dns_answers
HighEntropy ==
    IF {"answers", "high_entropy"} \subseteq flow.traits /\ Where(flow.saddr) # "multicast"
    THEN {"suspicious_dns_answer"} ELSE {}
\* check_invalid_dns_answers: a private address among the answers
InvalidAnswer == IF {"answers", "private_answer"} \subseteq flow.traits THEN {"invalid_dns_answer"} ELSE {}
\* detect_young_domains
YoungDomain == IF Is("young") THEN {"young_domain"} ELSE {}

AnalyzeDns ==
    /\ "dns" \in toAnalyze /\ toAnalyze' = toAnalyze \ {"dns"}
    /\ flowEvidence' = flowEvidence \cup
         Set("dns", HighEntropy \cup InvalidAnswer \cup DnsLocalnet \cup YoungDomain)
    /\ replies' = IF CountsReply THEN [replies EXCEPT ![flow.daddr] = @ + 1] ELSE replies
    /\ dnsIP' = IF replies'[flow.daddr] >= DnsReplies /\ dnsIP = None THEN flow.daddr ELSE dnsIP
    /\ letPass' = IF Passes THEN [letPass EXCEPT ![flow.daddr] = @ + 1] ELSE letPass
    /\ UNCHANGED <<flow, p2p, macIP, seen, uploads, analyzed>>

-----------------------------------------------------------------------------
(* ssl.py and the analyzers of single Zeek logs *)

\* detect_incompatible_cn: an organisation named in the certificate owns
\* neither the address nor the domain.
IncompatibleCn == IF Is("org_in_cn") /\ ~Is("org_owns") THEN {"incompatible_cn"} ELSE {}
\* domains_belong_to_same_org: of the same root domain, or of one organisation;
\* an organisation that cannot be found is taken for the same.
SameOrg == flow.traits \cap {"same_root", "same_org", "org_unknown"} # {}
\* detect_cn_url_mismatch
CnMismatch == IF Is("cn_differs") /\ ~SameOrg THEN {"cn_url_mismatch"} ELSE {}
SelfSigned == IF Is("self_signed") THEN {"self_signed"} ELSE {}
Ja3 == {k \in {"malicious_ja3", "malicious_ja3s"} : Is(k)}
Doh == IF Is("doh") THEN {"doh"} ELSE {}

AnalyzeSsl ==
    /\ "ssl" \in toAnalyze /\ toAnalyze' = toAnalyze \ {"ssl"}
    /\ flowEvidence' = flowEvidence \cup
         Set("ssl", SelfSigned \cup Ja3 \cup IncompatibleCn \cup Doh \cup CnMismatch)
    /\ UNCHANGED <<flow, p2p, replies, dnsIP, macIP, seen, uploads, analyzed, letPass>>

\* notice.py, software.py, tunnel.py and downloaded_file.py: one trait each
NoticeKinds == {"vertical_portscan", "horizontal_portscan", "pw_guessing"}
SoftwareKinds == {"multiple_ssh_versions"}
TunnelKinds == {"gre_tunnel", "gre_scan"}
FileKinds == {"malicious_ssl"}

AnalyzeOther ==
    /\ "other" \in toAnalyze /\ toAnalyze' = toAnalyze \ {"other"}
    /\ flowEvidence' = flowEvidence \cup
         Set("other", {k \in NoticeKinds \cup SoftwareKinds \cup TunnelKinds \cup FileKinds : Is(k)})
    /\ UNCHANGED <<flow, p2p, replies, dnsIP, macIP, seen, uploads, analyzed, letPass>>

\* The profiler has stored the MAC of the source before a flow is announced.
NewFlow(s, d, ts) ==
    /\ toAnalyze = {} /\ analyzed < MaxAnalyzed /\ s # d
    /\ flow' = [saddr |-> s, daddr |-> d, traits |-> ts]
    /\ toAnalyze' = Analyzers /\ flowEvidence' = {} /\ analyzed' = analyzed + 1
    /\ macIP' = IF IsPrivate(s) /\ macIP = None THEN s ELSE macIP
    /\ UNCHANGED <<p2p, replies, dnsIP, seen, uploads, letPass>>

FlowNext ==
    \/ \E s, d \in FlowIPs, ts \in TraitSets : NewFlow(s, d, ts)
    \/ AnalyzeConn \/ AnalyzeDns \/ AnalyzeSsl \/ AnalyzeOther
    \/ FlowTwClosed

FlowSpec == FlowInit /\ [][FlowNext]_fvars

-----------------------------------------------------------------------------
FlowEvidenceType == [kind : DOMAIN FiledIn, on : {"saddr", "daddr", "self", "scanner", "answer"},
             level : {"info", "low", "medium", "high", "feed"}, by : Analyzers]

FlowTypeOK ==
    /\ flow.saddr \in FlowIPs \cup {None} /\ flow.daddr \in FlowIPs \cup {None}
    /\ flow.traits \in TraitSets \cup {{}}
    /\ toAnalyze \subseteq Analyzers /\ flowEvidence \subseteq FlowEvidenceType
    /\ p2p \in [FlowIPs -> 0..P2PConns] /\ replies \in [FlowIPs -> 0..DnsReplies]
    /\ dnsIP \in FlowIPs \cup {None} /\ macIP \in FlowIPs \cup {None} /\ seen \subseteq FlowIPs
    /\ uploads \in [FlowIPs -> Nat] /\ analyzed \in 0..MaxAnalyzed
    /\ letPass \in [FlowIPs -> Nat]

\* A private DNS server outside the local network that clients with private
\* addresses ask is let pass a few times only, however the flows to several such
\* servers alternate: one reaches the number of answers, the others stop short
\* of it when that one is taken for the network's, and no more are let pass,
\* not even to the server that was detected.
FewAnswersPass ==
    \A ip \in FlowIPs : letPass[ip] < DnsReplies \/ (ip = dnsIP /\ letPass[ip] = DnsReplies)
=============================================================================
