----------------------------- MODULE ThreatIntel -----------------------------
(***************************************************************************)
(* The Threat Intelligence module.  When it starts it reads the user's own *)
(* lists of indicators into the Redis cache, deleting first what an older  *)
(* version of a list had; a hash stored last tells the next start that the *)
(* list is loaded.  Then it looks up the addresses, domains, URLs and file *)
(* hashes it is sent, in the cache or at URLhaus, and sets evidence.  The  *)
(* update manager changes the cache meanwhile.                             *)
(*                                                                         *)
(* IModule stops a module whose main() raises, and two lookups do: that of *)
(* a domain that is not itself listed, in a trie whose search() returns a  *)
(* truth value where a pair is expected; and that of a source address that *)
(* is not in the cache, which is asked of utils.is_ip_in_client_ips, a     *)
(* function that does not exist.  So no address is ever sent to Spamhaus.  *)
(***************************************************************************)
EXTENDS Absent, Naturals, FiniteSets, Sequences

CONSTANTS
    IocIPs, Domains,
    NeverListed,    \* addresses and domains that are never looked up
    HostIPs,        \* addresses of the host
    FeedIocs,       \* indicators that feeds list
    Resolution(_),  \* the address a domain is known to resolve to, or None
    Md5s,           \* lines of the JA3 list that begin with a valid hash
    Short,          \* lines of fewer than three fields
    Content(_, _),  \* the lines of each version of each local list, comments left out
    Editable,       \* the lists the user edits
    MaxVersion, MaxStarts, MaxLookups \* bounds

VARIABLES
    file,           \* version of each local list on disk
    hash,           \* the hash stored for it: a version, or None
    local,          \* addresses and domains in the cache that have the local list as their source
    hashes,         \* what the cache holds of each list of hashes
    feeds,          \* addresses and domains that have a feed as their source
    ti,             \* "next", "read", "delete domains", "parse", "add domains", "hash", "on", "write back", "off"
    reading,        \* the local list being read
    looked,         \* the address being looked up, how it was met, its source
    marked,         \* addresses and domains with threat intelligence in the databases
    intelEvidence,  \* evidence of the last message: type and profile
    stopAsked, starts, lookups

readVars == <<ti, reading>>
cacheVars == <<file, hash, local, hashes, feeds>>
resultVars == <<looked, marked, intelEvidence>>
tivars == <<cacheVars, readVars, resultVars, stopAsked, starts, lookups>>

Lists == <<"own_malicious_iocs", "own_malicious_JA3", "own_malicious_JARM", "known_fp_md5_hashes">>
ListNames == {Lists[k] : k \in 1..Len(Lists)}
HashLists == ListNames \ {"own_malicious_iocs"}
Iocs == IocIPs \cup Domains
Versions == 0..MaxVersion

IntelInit ==
    /\ file = [n \in ListNames |-> 0] /\ hash = [n \in ListNames |-> None]
    /\ local = {} /\ hashes = [n \in HashLists |-> {}] /\ feeds = {}
    /\ ti = "next" /\ reading = 1 /\ looked = None /\ marked = {} /\ intelEvidence = {}
    /\ stopAsked = FALSE /\ starts = 1 /\ lookups = 0

-----------------------------------------------------------------------------
(* pre_main: update_local_file for each of the lists *)

Name == Lists[reading]
Reads(pc) == ti = pc /\ reading <= Len(Lists) /\ UNCHANGED <<resultVars, stopAsked, starts, lookups>>

\* The loop that skips comments takes the first line that is none.
LinesOf(n) == LET ls == Content(n, file[n]) IN {ls[k] : k \in 1..Len(ls)}
AfterFirst(n) == LET ls == Content(n, file[n]) IN {ls[k] : k \in 2..Len(ls)}

\* parse_local_ti_file: an address must be global; what is no address is a domain.
Parsed == {i \in AfterFirst("own_malicious_iocs") \cap Iocs : i \in IocIPs => i \notin NeverListed}

\* parse_ja3_file, parse_jarm_file, parse_known_fp_hashes.  Only the JARM file
\* may have short lines: the others' raise, and so does storing nothing.
Ja3Lines == AfterFirst("own_malicious_JA3") \cap Md5s
JarmLines == AfterFirst("own_malicious_JARM") \ Short
KnownFps == LinesOf("known_fp_md5_hashes")
HashLines ==
    CASE Name = "own_malicious_JA3" -> IF AfterFirst(Name) \cap Short # {} THEN {} ELSE Ja3Lines
      [] Name = "own_malicious_JARM" -> JarmLines
      [] OTHER -> KnownFps

\* should_update_local_ti_file
ShouldUpdate ==
    /\ Reads("next")
    /\ IF hash[Name] = file[Name] THEN ti' = "next" /\ reading' = reading + 1
       ELSE ti' = (IF hash[Name] = None THEN "parse" ELSE "read") /\ UNCHANGED reading
    /\ UNCHANGED cacheVars

\* The lists are read; main() begins.
Loaded ==
    /\ ti = "next" /\ reading > Len(Lists) /\ ti' = "on"
    /\ UNCHANGED <<cacheVars, reading, resultVars, stopAsked, starts, lookups>>

\* Mutant: the domains of the old list are forgotten.
MutDeleteOldIps ==
    /\ Reads("read") /\ ti' = "parse"
    /\ local' = IF Name \in HashLists THEN local ELSE local \ IocIPs
    /\ UNCHANGED <<file, hash, hashes, feeds, reading>>

\* __delete_old_source_ips, __delete_old_source_domains: nothing deletes the
\* hashes of an old list.
DeleteOldIps ==
    /\ Reads("read") /\ ti' = "delete domains"
    /\ local' = IF Name \in HashLists THEN local ELSE local \ IocIPs
    /\ UNCHANGED <<file, hash, hashes, feeds, reading>>
DeleteOldDomains ==
    /\ Reads("delete domains") /\ ti' = "parse"
    /\ local' = IF Name \in HashLists THEN local ELSE local \ Domains
    /\ UNCHANGED <<file, hash, hashes, feeds, reading>>

\* An indicator has one source: the last one that stored it.
Add(s) == local' = local \cup s /\ feeds' = feeds \ s

AddIps ==
    /\ Reads("parse") /\ Name \notin HashLists
    /\ IF AfterFirst(Name) \cap Short # {} THEN ti' = "off" /\ UNCHANGED <<local, feeds>>
       ELSE ti' = "add domains" /\ Add(Parsed \cap IocIPs)
    /\ UNCHANGED <<file, hash, hashes, reading>>
AddDomains ==
    /\ Reads("add domains") /\ ti' = "hash" /\ Add(Parsed \cap Domains)
    /\ UNCHANGED <<file, hash, hashes, reading>>
AddHashes ==
    /\ Reads("parse") /\ Name \in HashLists
    /\ IF HashLines = {} THEN ti' = "off" /\ UNCHANGED hashes
       ELSE ti' = "hash" /\ hashes' = [hashes EXCEPT ![Name] = @ \cup HashLines]
    /\ UNCHANGED <<file, hash, local, feeds, reading>>
StoreHash ==
    /\ Reads("hash") /\ ti' = "next" /\ reading' = reading + 1
    /\ hash' = [hash EXCEPT ![Name] = file[Name]]
    /\ UNCHANGED <<file, local, hashes, feeds>>

-----------------------------------------------------------------------------
(* Evidence: its type, and the ends of the flow it is filed for *)

Evid(type, who) == [type : {type}, profile : who]

\* set_evidence_malicious_ip, its two cases, and the one for DNS answers
ConnFromMalicious(a) == Evid("blacklisted ip", {a})
ConnToMalicious(a) == Evid("blacklisted ip", {a, "saddr"})
MaliciousAnswer(a) == Evid("blacklisted answer", {a, "saddr"})
MaliciousIp(l) ==
    CASE l.met = "dns answer" -> MaliciousAnswer(l.ip)
      [] l.met = "srcip" -> ConnFromMalicious(l.ip)
      [] OTHER -> ConnToMalicious(l.ip)

MaliciousDomain(d) ==
    Evid("blacklisted domain", {"saddr"} \cup (IF Resolution(d) = None THEN {} ELSE {Resolution(d)}))
MaliciousCname == Evid("blacklisted answer", {"saddr"})
AnswerOfMaliciousQuery(a) == Evid("answer of blacklisted query", {a, "saddr"})
MaliciousUrl == Evid("malicious url", {"saddr", "daddr"})

-----------------------------------------------------------------------------
(* Where an indicator is looked up *)

\* _match_exact_domain; _match_subdomain, which is tried next, raises.
MatchExactDomain(d) == d \in local \cup feeds
MatchSubdomain == ti' = "off" /\ intelEvidence' = {} /\ UNCHANGED <<looked, marked>>

\* is_inbound_traffic raises at its last test, made for an address of the host
\* that the source is not; it finds nothing inbound where it does not raise.
IsInboundRaises(a, met) == met = "srcip" /\ \E h \in HostIPs : h # a

\* search_offline_for_ip: the source, or None
Source(a) ==
    CASE a \in local -> "local"
      [] a \notin local /\ a \in feeds -> "feed"
      [] OTHER -> None

-----------------------------------------------------------------------------
(* main() *)

Receive == ti = "on" /\ lookups < MaxLookups /\ lookups' = lookups + 1 /\ UNCHANGED <<cacheVars, reading, stopAsked, starts>>
Nothing == intelEvidence' = {} /\ UNCHANGED <<ti, looked, marked>>

\* should_lookup
ShouldLookup(a, met) == a \notin NeverListed /\ met # "outgoing ICMP"

\* is_malicious_domain for the query of a DNS answer: is it ignored
IsIgnoredDomain(d) == d = None \/ d \in NeverListed

\* is_malicious_ip finds a source, or asks whether the address is inbound.
IsMaliciousIp(a, met) ==
    CASE Source(a) # None ->
            /\ looked' = [ip |-> a, met |-> met, source |-> Source(a)]
            /\ ti' = "write back"
      [] Source(a) = None /\ IsInboundRaises(a, met) -> ti' = "off" /\ UNCHANGED looked
      [] OTHER -> UNCHANGED <<ti, looked>>

\* is_dns_answer_of_a_malicious_query comes before is_malicious_ip.
IsAnswerOfMaliciousQuery(a, query) ==
    IF IsIgnoredDomain(query) THEN intelEvidence' = {} /\ UNCHANGED marked
    ELSE intelEvidence' = AnswerOfMaliciousQuery(a) /\ marked' = marked \cup {query}

\* The reverse lookup of an address has no query; a query that is not listed raises.
LookupIP(a, met, query) ==
    /\ Receive /\ (met # "dns answer" => query = None)
    /\ CASE ~ShouldLookup(a, met) -> Nothing
         [] ShouldLookup(a, met) /\ ~IsIgnoredDomain(query) /\ ~MatchExactDomain(query) -> MatchSubdomain
         [] OTHER -> IsAnswerOfMaliciousQuery(a, query) /\ IsMaliciousIp(a, met)

\* The rest of is_malicious_ip: what was found is stored again, with the source it
\* was found with, and evidence is set.  The ranges and ASNs looked up next are
\* never stored: detect_ioc_type knows no range and takes AS39770 for a domain.
WriteBack ==
    /\ ti = "write back" /\ ti' = "on" /\ looked' = None
    /\ IF looked.source = "local" THEN local' = local \cup {looked.ip} /\ feeds' = feeds \ {looked.ip}
       ELSE feeds' = feeds \cup {looked.ip} /\ local' = local \ {looked.ip}
    /\ intelEvidence' = intelEvidence \cup MaliciousIp(looked)
    /\ marked' = marked \cup {looked.ip}
    /\ UNCHANGED <<file, hash, hashes, reading, stopAsked, starts, lookups>>

LookupDomain(d) ==
    /\ Receive
    /\ CASE IsIgnoredDomain(d) -> Nothing
         [] ~IsIgnoredDomain(d) /\ ~MatchExactDomain(d) -> MatchSubdomain
         [] OTHER -> intelEvidence' = MaliciousDomain(d) /\ marked' = marked \cup {d} /\ UNCHANGED <<ti, looked>>

LookupCname(d) ==
    /\ Receive
    /\ CASE IsIgnoredDomain(d) -> Nothing
         [] ~IsIgnoredDomain(d) /\ ~MatchExactDomain(d) -> MatchSubdomain
         [] OTHER -> intelEvidence' = MaliciousCname /\ marked' = marked \cup {d} /\ UNCHANGED <<ti, looked>>

\* urlhaus.lookup: parse_urlhaus_url_response leaves threat_level unassigned for a
\* URL it knows no payload of, and raises.
LookupUrl(answer) ==
    /\ Receive
    /\ CASE answer = "payload" -> intelEvidence' = MaliciousUrl /\ UNCHANGED <<ti, looked, marked>>
         [] answer = "no payload" -> ti' = "off" /\ intelEvidence' = {} /\ UNCHANGED <<looked, marked>>
         [] OTHER -> Nothing

\* is_known_fp_md5_hash returns a list, which is true, found or not: no hash of a
\* downloaded file is looked up at Circl.lu or URLhaus.
LookupHash == Receive /\ Nothing

-----------------------------------------------------------------------------
(* The update manager, the user, the end of a run *)

FeedAdds(i) ==
    /\ i \notin feeds /\ feeds' = feeds \cup {i} /\ local' = local \ {i}
    /\ UNCHANGED <<file, hash, hashes, readVars, resultVars, stopAsked, starts, lookups>>
FeedDrops(i) ==
    /\ i \in feeds /\ feeds' = feeds \ {i}
    /\ UNCHANGED <<file, hash, local, hashes, readVars, resultVars, stopAsked, starts, lookups>>

Edit(n) ==
    /\ file[n] < MaxVersion /\ ti \in {"on", "write back", "off"}
    /\ file' = [file EXCEPT ![n] = @ + 1]
    /\ UNCHANGED <<hash, local, hashes, feeds, readVars, resultVars, stopAsked, starts, lookups>>

AskToStop == ~stopAsked /\ stopAsked' = TRUE /\ UNCHANGED <<cacheVars, readVars, resultVars, starts, lookups>>
Stop == stopAsked /\ ti = "on" /\ ti' = "off" /\ UNCHANGED <<cacheVars, reading, resultVars, stopAsked, starts, lookups>>

\* SmartShield is killed, or has ended, and is started again on the same cache.
Kill ==
    /\ ti # "off" /\ starts < MaxStarts /\ ti' = "off"
    /\ looked' = None /\ intelEvidence' = {}
    /\ UNCHANGED <<cacheVars, reading, marked, stopAsked, starts, lookups>>
Restart ==
    /\ ti = "off" /\ starts < MaxStarts /\ starts' = starts + 1
    /\ ti' = "next" /\ reading' = 1 /\ looked' = None /\ intelEvidence' = {} /\ stopAsked' = FALSE
    /\ UNCHANGED <<cacheVars, marked, lookups>>

Read ==
    \/ ShouldUpdate \/ DeleteOldIps \/ DeleteOldDomains \/ AddIps \/ AddDomains \/ AddHashes
    \/ StoreHash \/ Loaded
Lookup ==
    \/ \E a \in IocIPs, met \in {"srcip", "dstip", "outgoing ICMP", "dns answer"}, q \in Domains \cup {None} :
          LookupIP(a, met, q)
    \/ WriteBack
    \/ \E d \in Domains : LookupDomain(d) \/ LookupCname(d)
    \/ \E answer \in {"payload", "no payload", "none"} : LookupUrl(answer)
    \/ LookupHash

IntelNext ==
    \/ Read \/ Lookup \/ AskToStop \/ Stop \/ Kill \/ Restart
    \/ \E n \in Editable : Edit(n)
    \/ \E i \in FeedIocs : FeedAdds(i) \/ FeedDrops(i)

IntelSpec == IntelInit /\ [][IntelNext]_tivars /\ WF_tivars(Read)

-----------------------------------------------------------------------------
IntelTypeOK ==
    /\ file \in [ListNames -> Versions] /\ hash \in [ListNames -> Versions \cup {None}]
    /\ local \subseteq Iocs /\ feeds \subseteq Iocs /\ DOMAIN hashes = HashLists
    /\ ti \in {"next", "read", "delete domains", "parse", "add domains", "hash", "on", "write back", "off"}
    /\ reading \in 1..Len(Lists) + 1
    /\ looked # None => looked.ip \in IocIPs /\ looked.source \in {"local", "feed"}
    /\ marked \subseteq Iocs /\ stopAsked \in BOOLEAN
    /\ starts \in 1..MaxStarts /\ lookups \in 0..MaxLookups

OwnLines == "own_malicious_iocs"
IsLoaded == hash[OwnLines] = file[OwnLines]

\* Wherever a run was killed while it read the local list, the list counts as
\* loaded only when nothing of it is missing that no feed lists too, and, where an
\* older one was stored, when nothing of that is left; and while it counts as
\* loaded, lookups add nothing to it but what a feed took over meanwhile (should_update_local_ti_file compares
\* hashes, update_local_file stores them last, and without a stored hash it
\* deletes nothing).
LoadedListIsExact ==
    [][IsLoaded' =>
          /\ (Parsed \ FeedIocs)' \subseteq local'
          /\ IsLoaded => local' \subseteq local \cup Parsed \cup FeedIocs
          /\ ~IsLoaded /\ hash[OwnLines] # None => local' \subseteq Parsed']_tivars
=============================================================================
