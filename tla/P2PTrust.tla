------------------------------ MODULE P2PTrust ------------------------------
(***************************************************************************)
(* The local peer-to-peer network.  Peers report addresses and change      *)
(* their own; SmartShield asks the network about an address it met, sleeps *)
(* while the answers pile up behind the same main loop, and combines the   *)
(* reports stored before: each counts by its reporter's reliability and by *)
(* what SmartShield itself knows of the address the reporter had then.     *)
(* The Go program that carries the messages is outside.                    *)
(*                                                                         *)
(* TrustDB is described by the operations it calls: ISQLite, as it is in   *)
(* the repository, declares them abstract and has no select or insert.     *)
(***************************************************************************)
EXTENDS Absent, Naturals, FiniteSets, Sequences, SequencesExt

CONSTANTS
    Peers, PeerIPs,
    HostProfile,              \* the profile the requests are about, not in PeerIPs
    OwnIPs,                   \* addresses of this machine
    Scores,                   \* 0 for none; see Named
    Named,                    \* the scores that are exactly a threat level's number
    CacheAge,                 \* of an opinion
    MaxPeerTime, MaxPeerMsgs  \* bounds: time; messages and requests

\* No address has the look of a missing one.
ASSUME PeerAssumption == None \notin PeerIPs

VARIABLES
    peerTime,
    reports,       \* table reports: by, of, score, sure, ts
    reliability,   \* table go_reliability: peers with an entry; the first counts
    addresses,     \* table peer_ips: peer, ip, ts; ts None is stored as text
    reputation,    \* smartshield_reputation: addresses evidence was set for
    cached,        \* opinion_cache: score and ts of an opinion, or None
    peerTrust,     \* peer_trust: addresses with a trust value
    waiting,       \* the address main() asked about before it sleeps, or None
    peerEvidence,  \* evidence: type, attacker
    peerSent,      \* messages for the network: type, to, about
    peerMsgs

ptvars == <<peerTime, reports, reliability, addresses, reputation, cached, peerTrust, waiting, peerEvidence, peerSent, peerMsgs>>

PeerInit ==
    /\ peerTime = 0 /\ reports = <<>> /\ reliability = {} /\ addresses = {}
    /\ reputation = {} /\ cached = [i \in PeerIPs |-> None] /\ peerTrust = {}
    /\ waiting = None /\ peerEvidence = {} /\ peerSent = {} /\ peerMsgs = 0

\* main() sleeps in a data request: nothing else is handled then.
Handle == waiting = None /\ peerMsgs < MaxPeerMsgs /\ peerMsgs' = peerMsgs + 1

\* validate_timestamp: peers may give any time up to now; any other counts as none.
Stamps == 0..peerTime

\* What main() puts on the channel of the Go program.
SendEvaluation(to, ip) == peerSent' = peerSent \cup {[type |-> "report", to |-> to, about |-> ip]}
SendRequest(ip) == peerSent' = peerSent \cup {[type |-> "request", to |-> "*", about |-> ip]}

-----------------------------------------------------------------------------
(* handle_gopy_data: messages of the Go program. Those with a missing key,  *)
(* an unknown type or a value out of its range change nothing.             *)

\* process_go_update: without a valid time the present is stored as a text, which
\* SQLite holds to be later than any number. ip is None when missing or invalid.
PeerUpdate(p, ip, ts, reliable) ==
    /\ Handle
    /\ reliability' = IF reliable THEN reliability \cup {p} ELSE reliability
    /\ addresses' = IF ip = None THEN addresses ELSE addresses \cup {[peer |-> p, ip |-> ip, ts |-> ts]}
    /\ UNCHANGED <<peerTime, reports, reputation, cached, peerTrust, waiting, peerEvidence, peerSent>>

\* set_evidence_p2p_report: a score that is no level's number is the level
\* "unknown", and Evidence raises the KeyError that handle_gopy_data prints.
ReportEvidence(ip, score) ==
    IF score \in Named THEN {[type |-> "reported", attacker |-> ip]} ELSE {}

\* process_evaluation_score_confidence: stored whatever becomes of the evidence.
PeerReport(p, ip, ts, score, sure) ==
    /\ Handle
    /\ reports' = Append(reports, [by |-> p, of |-> ip, score |-> score, sure |-> sure, ts |-> ts])
    /\ peerEvidence' = peerEvidence \cup ReportEvidence(ip, score)
    /\ UNCHANGED <<peerTime, reliability, addresses, reputation, cached, peerTrust, waiting, peerSent>>

\* respond_to_message_request: answered when SmartShield has a score of its own.
PeerRequest(p, ip) ==
    /\ Handle
    /\ IF ip \in reputation THEN SendEvaluation(p, ip) ELSE UNCHANGED peerSent
    /\ UNCHANGED <<peerTime, reports, reliability, addresses, reputation, cached, peerTrust, waiting, peerEvidence>>

\* A blame is published for others without a look at it.
Blame(ip) ==
    /\ Handle
    /\ peerSent' = peerSent \cup {[type |-> "new_blame", to |-> "modules", about |-> ip]}
    /\ UNCHANGED <<peerTime, reports, reliability, addresses, reputation, cached, peerTrust, waiting, peerEvidence>>

-----------------------------------------------------------------------------
(* new_evidence_callback: evidence SmartShield found itself *)

\* should_share, of evidence with an address as attacker, a level and a confidence.
ShouldShare(type, ip) == ip \notin OwnIPs /\ type # "reported"

\* Without an opinion in the cache, or with one of score 0, peers are told.
Share(type, ip) ==
    /\ Handle
    /\ IF ShouldShare(type, ip) /\ (cached[ip] = None \/ cached[ip].score = 0)
       THEN SendEvaluation("*", ip) ELSE UNCHANGED peerSent
    /\ UNCHANGED <<peerTime, reports, reliability, addresses, reputation, cached, peerTrust, waiting, peerEvidence>>

-----------------------------------------------------------------------------
(* handle_data_request *)

IsFresh(ip) == cached[ip] # None /\ peerTime < cached[ip].ts + CacheAge

DataRequest(ip) ==
    /\ Handle
    /\ IF IsFresh(ip) THEN UNCHANGED <<waiting, peerSent>> ELSE waiting' = ip /\ SendRequest(ip)
    /\ UNCHANGED <<peerTime, reports, reliability, addresses, reputation, cached, peerTrust, peerEvidence>>

\* get_reporter_ip: the last address stored not after the report, of those
\* stored with a number; two of one time are told apart by nothing.
ReporterIps(r) ==
    LET then == {a \in addresses : a.peer = r.by /\ a.ts # None /\ a.ts <= r.ts}
    IN  {a.ip : a \in {b \in then : \A c \in then : c.ts <= b.ts}}

\* get_reports_for_ip
About(ip) == {n \in 1..Len(reports) : reports[n].of = ip}

\* TrustDB.get_opinion_on_ip with one choice of addresses: reports of the address
\* itself and of those SmartShield does not know do not count; a reporter without
\* reliability ends it with a TypeError, which data_request_callback catches.
\* Mutant: the reporter may be the one reported.
MutOthers(ip, at) == About(ip)

Others(ip, at) == {n \in About(ip) : at[n] # ip}
Raises(ip, at) == \E n \in Others(ip, at) : reports[n].by \notin reliability
Counted(ip, at) == {n \in Others(ip, at) : at[n] \in reputation}

\* assemble_peer_opinion: the weights are positive and sum to one.
Combined(counted) ==
    LET scores == {reports[n].score : n \in counted}
    IN  IF Cardinality(scores) = 1 THEN scores ELSE Scores \ {0}

\* set_evidence_malicious_ip, one for each end: a score that is no level's number
\* has no name in ThreatLevel, and the KeyError ends the request.
MaliciousForPeers(ip, score) ==
    IF score \in Named \ {0} THEN {[type |-> "from the network", attacker |-> a] : a \in {HostProfile, ip}} ELSE {}

\* get_opinion_on_ip after the sleep: the opinion is cached and the reporters'
\* trust stored; process_network_response sets evidence when score and confidence
\* are positive, which takes a sure report of a reporter with positive trust.
GetOpinion ==
    /\ waiting # None /\ waiting' = None
    /\ \E at \in [About(waiting) -> PeerIPs \cup {None}], trust \in BOOLEAN :
       /\ \A n \in About(waiting) :
             IF ReporterIps(reports[n]) = {} THEN at[n] = None ELSE at[n] \in ReporterIps(reports[n])
       /\ LET counted == Counted(waiting, at)
          IN  IF Raises(waiting, at) \/ counted = {}
              THEN UNCHANGED <<cached, peerTrust, peerEvidence>>
              ELSE \E score \in Combined(counted) :
                   /\ cached' = [cached EXCEPT ![waiting] = [score |-> score, ts |-> peerTime]]
                   /\ peerTrust' = peerTrust \cup {at[n] : n \in counted}
                   /\ peerEvidence' = IF trust /\ \E n \in counted : reports[n].sure
                                  THEN peerEvidence \cup MaliciousForPeers(waiting, score) ELSE peerEvidence
    /\ UNCHANGED <<peerTime, reports, reliability, addresses, reputation, peerSent, peerMsgs>>

\* DBManager.update_threat_level stores the score of an address with evidence.
SetReputation(ip) ==
    /\ ip \notin reputation /\ reputation' = reputation \cup {ip}
    /\ UNCHANGED <<peerTime, reports, reliability, addresses, cached, peerTrust, waiting, peerEvidence, peerSent, peerMsgs>>

PeerTick ==
    /\ peerTime < MaxPeerTime /\ peerTime' = peerTime + 1
    /\ UNCHANGED <<reports, reliability, addresses, reputation, cached, peerTrust, waiting, peerEvidence, peerSent, peerMsgs>>

PeerNext ==
    \/ \E p \in Peers, ip \in PeerIPs \cup {None}, ts \in Stamps \cup {None}, b \in BOOLEAN : PeerUpdate(p, ip, ts, b)
    \/ \E p \in Peers, ip \in PeerIPs, ts \in Stamps, score \in Scores, sure \in BOOLEAN :
          PeerReport(p, ip, ts, score, sure)
    \/ \E p \in Peers, ip \in PeerIPs : PeerRequest(p, ip)
    \/ \E type \in {"reported", "found"}, ip \in PeerIPs : Share(type, ip)
    \/ \E ip \in PeerIPs : DataRequest(ip) \/ SetReputation(ip) \/ Blame(ip)
    \/ GetOpinion \/ PeerTick

PeerSpec == PeerInit /\ [][PeerNext]_ptvars

-----------------------------------------------------------------------------
PeerTypeOK ==
    /\ peerTime \in 0..MaxPeerTime /\ peerMsgs \in 0..MaxPeerMsgs
    /\ \A n \in 1..Len(reports) : reports[n].by \in Peers /\ reports[n].of \in PeerIPs /\ reports[n].score \in Scores
    /\ reliability \subseteq Peers /\ reputation \subseteq PeerIPs /\ peerTrust \subseteq PeerIPs
    /\ \A a \in addresses : a.peer \in Peers /\ a.ip \in PeerIPs
    /\ \A i \in PeerIPs : cached[i] = None \/ cached[i] \in [score : Scores, ts : 0..MaxPeerTime]
    /\ waiting \in PeerIPs \cup {None}

\* Nobody is judged by itself: an opinion on an address comes from a report of a
\* reliable peer that had, when it reported, another address, one that SmartShield
\* knows; and only such a reporter's address is trusted (ARPEvidenceFilter then
\* spares it), however peers change their addresses and restart their clocks.
OpinionsHaveReporters ==
    /\ \A ip \in PeerIPs : cached[ip] # None =>
         \E n \in About(ip) : /\ reports[n].by \in reliability
                              /\ \E a \in addresses : /\ a.peer = reports[n].by /\ a.ts # None
                                                      /\ a.ts <= reports[n].ts
                                                      /\ a.ip \in reputation \ {ip}
    /\ \A ip \in peerTrust : \E a \in addresses : a.ip = ip /\ a.peer \in reliability

=============================================================================
