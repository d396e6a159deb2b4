----------------------------- MODULE IpLookups ------------------------------
(***************************************************************************)
(* What SmartShield stores about an address, a domain or a URL, and the    *)
(* modules that look it up: IP Info (country, ASN, reverse DNS, age and    *)
(* owner of a domain), Risk IQ (passive DNS) and VirusTotal, whose calls   *)
(* over the API limit wait in a queue for a thread.  A writer reads an     *)
(* entry, adds its fields and writes the whole entry back.                 *)
(*                                                                         *)
(* IP Info is an AsyncModule: its handlers are described as if awaited.    *)
(* Announces is TRUE for what set_new_ip means, FALSE for what it does:    *)
(* it compares with FALSE what get_ip_info returns, None.  HelperRuns is   *)
(* TRUE for what the caller of start_thread means.                         *)
(***************************************************************************)
EXTENDS Naturals, FiniteSets, Sequences, SequencesExt, Functions, TLC

CONSTANTS
    IPs, Domains, Urls,
    Private,       \* addresses VirusTotal is not asked for
    SameRange(_),  \* the addresses of one range of an ASN
    Announces, HelperRuns,
    Period,        \* update periods of the ASN and of VirusTotal
    MaxTime, MaxMsgs, MaxLimits, \* bounds: time, messages, answers over the limit
    None

VARIABLES
    now,
    info,      \* each entry: the fields it has; asn and vt when they were stored, or 0
    writer,    \* each writer: what it still stores, where, and the copy it read
    announced, \* new_ip messages each module has not handled yet
    ranges,    \* addresses whose range is in the cache of ASNs
    passive,   \* addresses with passive DNS
    queue,     \* api_call_queue
    badKey,    \* incorrect_API_key
    msgs, limits

bounded == <<msgs, limits>>
ivars == <<now, info, writer, announced, ranges, passive, queue, badKey, bounded>>

Iocs == IPs \cup Domains \cup Urls
Fields == {"geocountry", "asn", "reverse_dns", "dns", "ips", "age", "org", "vt"}
Writers == {"ip info", "vt", "vt queue", "profiler"}
Subscribers == {"ip info", "riskiq"}
Idle == [todo |-> <<>>, copy |-> None]
IsEntry(e) == DOMAIN e \subseteq Fields /\ \A f \in DOMAIN e : e[f] \in 0..(MaxTime + 1)
Has(entry, f) == f \in DOMAIN entry
Nothing == [f \in {} |-> 0]

Init ==
    /\ now = 0 /\ info = [i \in Iocs |-> Nothing]
    /\ writer = [w \in Writers |-> Idle] /\ announced = [s \in Subscribers |-> {}]
    /\ ranges = {} /\ passive = {} /\ queue = <<>> /\ badKey = FALSE
    /\ msgs = 0 /\ limits = 0

-----------------------------------------------------------------------------
(* set_ip_info, set_info_for_domains, cache_url_info_by_virustotal *)

Item(i, fields) == [ioc |-> i, new |-> [f \in fields |-> 0]]
Store(w, items) ==
    /\ writer[w].todo = <<>>
    /\ writer' = [writer EXCEPT ![w] = [todo |-> items, copy |-> None]]

\* set_new_ip, for an address without an entry
SetNewIp(i) ==
    announced' = IF i \in IPs /\ info[i] = Nothing /\ Announces
                 THEN [s \in Subscribers |-> announced[s] \cup {i}] ELSE announced

\* get_ip_info, get_domain_data, is_cached_url_by_vt
Read(w) ==
    /\ writer[w].todo # <<>> /\ writer[w].copy = None
    /\ LET i == Head(writer[w].todo).ioc IN
       /\ writer' = [writer EXCEPT ![w].copy = info[i]]
       /\ SetNewIp(i)
    /\ UNCHANGED <<now, info, ranges, passive, queue, badKey, bounded>>

\* A domain keeps the field it has, and nothing after it is stored; its addresses
\* are added up.  For the others a field is overwritten.
InfoOfDomain(old, new) ==
    IF Has(new, "vt") /\ Has(old, "vt") THEN old ELSE old @@ new

Write(w) ==
    /\ writer[w].copy # None
    /\ LET i == Head(writer[w].todo).ioc
           new == Head(writer[w].todo).new
           old == writer[w].copy
       IN  info' = [info EXCEPT ![i] = IF i \in Domains THEN InfoOfDomain(old, new) ELSE new @@ old]
    /\ writer' = [writer EXCEPT ![w] = [todo |-> Tail(@.todo), copy |-> None]]
    /\ UNCHANGED <<now, announced, ranges, passive, queue, badKey, bounded>>

Message == msgs < MaxMsgs /\ msgs' = msgs + 1

\* set_dns_resolution: the domains of the address answered, then the addresses of
\* the domain asked for.
DnsAnswer(i, d) ==
    /\ Message /\ Store("profiler", <<Item(i, {"dns"}), Item(d, {"ips"})>>)
    /\ UNCHANGED <<now, info, announced, ranges, passive, queue, badKey, limits>>

-----------------------------------------------------------------------------
(* IP Info and Risk IQ *)

\* should_update_asn wants the time in the field, as VirusTotal stores it;
\* update_ip_info stores it beside the field.
ShouldUpdateAsn(entry) ==
    ~Has(entry, "asn") \/ entry["asn"] = 0 \/ now + 1 - entry["asn"] > Period

\* get_asn: the cache of ranges, whois, whose range is cached, GeoLite or ip-api.
GetAsn(i, found, whois) ==
    /\ i \in ranges => found /\ ~whois
    /\ whois => found
    /\ ranges' = IF whois THEN ranges \cup SameRange(i) ELSE ranges

\* update_ip_info stores again all that was read at the start.
UpdateIpInfo(i, cached) == [ioc |-> i, new |-> [f \in {"asn"} |-> 0] @@ cached]

\* handle_new_ip: country, ASN, reverse DNS, each stored when it is found.
HandleNewIp(i) ==
    /\ i \in announced["ip info"] /\ announced' = [announced EXCEPT !["ip info"] = @ \ {i}]
    /\ \E hasAsn, whois, hasName \in BOOLEAN :
       LET cached == info[i]
           asks == ShouldUpdateAsn(cached)
           If(cond, item) == IF cond THEN <<item>> ELSE <<>>
       IN  /\ IF asks THEN GetAsn(i, hasAsn, whois) ELSE ~hasAsn /\ ~whois /\ UNCHANGED ranges
           /\ Store("ip info", If(~Has(cached, "geocountry"), Item(i, {"geocountry"}))
                               \o If(hasAsn, UpdateIpInfo(i, cached))
                               \o If(hasName, Item(i, {"reverse_dns"})))
    /\ UNCHANGED <<now, info, passive, queue, badKey, bounded>>

\* get_domain_info: whois of the domain, then of its second level for the owner.
HasCachedInfo(d) == Has(info[d], "age") /\ Has(info[d], "org")
DomainInfo(d) ==
    /\ Message /\ ~HasCachedInfo(d)
    /\ \E found \in SUBSET {"age", "org"} :
          Store("ip info", SetToSeq({Item(d, {f}) : f \in found}))
    /\ UNCHANGED <<now, info, announced, ranges, passive, queue, badKey, limits>>

\* Risk IQ stores passive DNS unless there is some.
RiskIQ(i) ==
    /\ i \in announced["riskiq"] /\ announced' = [announced EXCEPT !["riskiq"] = @ \ {i}]
    /\ \/ passive' = passive \cup {i}
       \/ UNCHANGED passive
    /\ UNCHANGED <<now, info, writer, ranges, queue, badKey, bounded>>

-----------------------------------------------------------------------------
(* VirusTotal *)

\* api_query_: over the limit (204) the indicator goes to the queue, and like any
\* failure it gives no scores; a wrong key (403) ends all queries.
Answers == IF badKey THEN {"none"} ELSE {"scores", "limit", "bad key", "none"}
ApiQuery(i, answer, rest) ==
    /\ answer = "limit" => limits < MaxLimits
    /\ limits' = IF answer = "limit" THEN limits + 1 ELSE limits
    /\ badKey' = (badKey \/ answer = "bad key")
    /\ queue' = IF answer = "limit" THEN Append(rest, i) ELSE rest

\* set_vt_data_in_IPInfo, update_domain_info_cache, set_url_data_in_URLInfo: what
\* is returned is stored whatever the answer, with scores of 0 for none.
VtOfIp(i, answer) ==
    [f \in {"vt"} |-> now + 1]
    @@ IF answer = "scores" /\ info[i] # Nothing /\ ~Has(info[i], "asn")
       THEN [f \in {"asn"} |-> now + 1] ELSE Nothing
VtOfDomain(i) ==
    [f \in {"vt"} |-> now + 1]
    @@ IF info[i] # Nothing /\ ~Has(info[i], "asn") THEN [f \in {"asn"} |-> 0] ELSE Nothing
VtOfUrl == [f \in {"vt"} |-> now + 1]

Ask(w, i, rest) ==
    \E answer \in IF i \in Private THEN {"none"} ELSE Answers :
       /\ ApiQuery(i, answer, rest)
       /\ Store(w, <<[ioc |-> i, new |-> CASE i \in IPs -> VtOfIp(i, answer)
                                          [] i \in Domains -> VtOfDomain(i)
                                          [] OTHER -> VtOfUrl]>>)
       /\ \/ UNCHANGED passive
          \/ i \in IPs /\ answer = "scores" /\ passive' = passive \cup {i}

\* main() on new_flow, new_dns and new_url; its next call stops on a bad key.
IsOld(i) == Has(info[i], "vt") => now + 1 - info[i]["vt"] > Period
Lookup(i) ==
    /\ Message /\ ~badKey /\ writer["vt"].todo = <<>>
    /\ IF IsOld(i) /\ (i \in Private => Has(info[i], "vt")) THEN Ask("vt", i, queue)
       ELSE UNCHANGED <<writer, queue, badKey, limits, passive>>
    /\ UNCHANGED <<now, info, announced, ranges>>

\* api_calls_queue_handler asks for what has no data of VirusTotal at all.
AskQueued ==
    /\ HelperRuns /\ queue # <<>> /\ writer["vt queue"].todo = <<>>
    /\ IF Has(info[Head(queue)], "vt")
       THEN queue' = Tail(queue) /\ UNCHANGED <<writer, badKey, limits, passive>>
       ELSE Ask("vt queue", Head(queue), Tail(queue))
    /\ UNCHANGED <<now, info, announced, ranges, msgs>>

Tick ==
    /\ now < MaxTime /\ now' = now + 1
    /\ UNCHANGED <<info, writer, announced, ranges, passive, queue, badKey, bounded>>

LookupStep == AskQueued \/ \E w \in Writers : Read(w) \/ Write(w)

Next ==
    \/ LookupStep
    \/ \E i \in IPs : HandleNewIp(i) \/ RiskIQ(i)
    \/ \E i \in IPs, d \in Domains : DnsAnswer(i, d)
    \/ \E d \in Domains : DomainInfo(d)
    \/ \E i \in Iocs : Lookup(i)
    \/ Tick

Spec == Init /\ [][Next]_ivars /\ WF_ivars(LookupStep)

-----------------------------------------------------------------------------
TypeOK ==
    /\ now \in 0..MaxTime /\ msgs \in 0..MaxMsgs /\ limits \in 0..MaxLimits
    /\ \A i \in Iocs : IsEntry(info[i])
    /\ \A w \in Writers : writer[w].copy = None \/ IsEntry(writer[w].copy)
    /\ announced \in [Subscribers -> SUBSET IPs] /\ badKey \in BOOLEAN
    /\ ranges \subseteq IPs /\ passive \subseteq IPs
    /\ \A n \in 1..Len(queue) : queue[n] \in Iocs
=============================================================================
