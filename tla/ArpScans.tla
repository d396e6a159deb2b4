------------------------------ MODULE ArpScans ------------------------------
(***************************************************************************)
(* ARP scans.  The module groups the ARP requests of each profile in each  *)
(* time window; when a profile has asked for enough addresses within half  *)
(* a minute it reports a scan.  The first scan of the module's life is     *)
(* reported at once.  Later ones go to a queue: a timer thread takes one,  *)
(* waits, merges what the queue has of the same profile and reports it.    *)
(* Both pop the profile's requests from the one dictionary.                *)
(*                                                                         *)
(* TimerRuns is TRUE for what the caller of utils.start_thread means,      *)
(* FALSE for what it does: the new thread raises at its first step.        *)
(***************************************************************************)
EXTENDS Absent, Naturals, FiniteSets, Sequences, SequencesExt

CONSTANTS
    ScanKeys,                 \* profileid_twid
    Within(_, _),             \* Within(j, k): the text of j occurs in k
    TrustedKeys,              \* keys of trusted peers, or of the host that defends itself
    Addrs,                    \* what is asked for
    ScanThreshold,            \* arp_scan_threshold
    Slack,                    \* the 30 seconds
    OtherScans,               \* scans of others the thread puts back before it reports
    TimerRuns,
    MaxScanTime, MaxRequests  \* bounds

ASSUME ScanAssumption == ScanThreshold \in Nat

VARIABLES
    scanTime, arpRequests,  \* the ARP requests so far: key, to; a uid is a place here
    cachedRequests,         \* cache_arp_requests: for each key, what it asked for
    alerted,                \* alerted_once_arp_scan
    queue,                  \* pending_arp_scan_evidence
    timer, held,            \* the thread: off, get, merge, report; what it will report
    scansCtr,
    reportedScans           \* evidence of ARP scans

asvars == <<scanTime, arpRequests, cachedRequests, alerted, queue, timer, held, scansCtr, reportedScans>>

ScanInit ==
    /\ scanTime = 0 /\ arpRequests = <<>> /\ cachedRequests = [k \in {} |-> <<>>] /\ alerted = FALSE
    /\ queue = <<>> /\ timer = IF TimerRuns THEN "get" ELSE "off"
    /\ held = None /\ scansCtr = 0 /\ reportedScans = {}

-----------------------------------------------------------------------------
(* main() *)

\* The requests of a key with one more: asking again moves the time of an
\* address, not its place.
WithRequest(k, d) ==
    LET old == IF k \in DOMAIN cachedRequests THEN cachedRequests[k] ELSE <<>>
        uid == Len(arpRequests) + 1
    IN  IF \A n \in DOMAIN old : old[n].to # d
        THEN Append(old, [to |-> d, ts |-> scanTime, uids |-> {uid}])
        ELSE [n \in DOMAIN old |->
                 IF old[n].to # d THEN old[n] ELSE [to |-> d, ts |-> scanTime, uids |-> old[n].uids \cup {uid}]]

Uids(requests) == UNION {requests[n].uids : n \in 1..Len(requests)}
Apart(a, b) == IF a > b THEN a - b ELSE b - a

\* Mutant: the requests are counted, not the addresses they ask for.
MutIsScan(k, requests) ==
    /\ k \in DOMAIN cachedRequests /\ Cardinality(Uids(requests)) >= ScanThreshold
    /\ Apart(requests[1].ts, Last(requests).ts) <= Slack

\* The first request of a key only makes its entry.
IsScan(k, requests) ==
    /\ k \in DOMAIN cachedRequests /\ Len(requests) >= ScanThreshold
    /\ Apart(requests[1].ts, Last(requests).ts) <= Slack

\* set_evidence_arp_scan pops the key also when the filter drops the evidence.
ScanEvidence(k, uids) == IF k \in TrustedKeys THEN {} ELSE {[key |-> k, uids |-> uids]}
WithoutKeys(keys) == [j \in DOMAIN cachedRequests \ keys |-> cachedRequests[j]]
SetEvidenceArpScan(k, uids) == reportedScans' = reportedScans \cup ScanEvidence(k, uids) /\ cachedRequests' = WithoutKeys({k})
KeepRequests(k, requests) ==
    /\ cachedRequests' = [j \in DOMAIN cachedRequests \cup {k} |-> IF j = k THEN requests ELSE cachedRequests[j]]
    /\ UNCHANGED reportedScans

\* main() on new_arp, a request with no hardware address: check_arp_scan.  A
\* queued scan leaves its requests in place, so the next one queues it again.
ArpRequest(k, d) ==
    /\ Len(arpRequests) < MaxRequests
    /\ arpRequests' = Append(arpRequests, [key |-> k, to |-> d])
    /\ LET requests == WithRequest(k, d)
           scan == IsScan(k, requests)
       IN  /\ alerted' = (alerted \/ scan)
           /\ CASE scan /\ ~alerted -> SetEvidenceArpScan(k, Uids(requests)) /\ UNCHANGED queue
                [] scan /\ alerted -> KeepRequests(k, requests) /\ queue' = Append(queue, [key |-> k, uids |-> Uids(requests)])
                [] OTHER -> KeepRequests(k, requests) /\ UNCHANGED queue
    /\ UNCHANGED <<scanTime, timer, held, scansCtr>>

\* main() on tw_closed: every key that contains the closed one.
ScansTwClosed(k) ==
    /\ cachedRequests' = WithoutKeys({j \in DOMAIN cachedRequests : Within(k, j)})
    /\ cachedRequests' # cachedRequests
    /\ UNCHANGED <<scanTime, arpRequests, alerted, queue, timer, held, scansCtr, reportedScans>>

-----------------------------------------------------------------------------
(* wait_for_arp_scans, the timer thread *)

Take ==
    /\ timer = "get" /\ queue # <<>>
    /\ held' = Head(queue) /\ queue' = Tail(queue) /\ timer' = "merge"
    /\ UNCHANGED <<scanTime, arpRequests, cachedRequests, alerted, scansCtr, reportedScans>>

\* After the wait: merge what is of the same key, put the rest back, and stop
\* when the queue is empty or the third of the rest was put back.
Merge ==
    /\ timer = "merge"
    /\ \/ /\ queue = <<>> /\ timer' = "report" /\ UNCHANGED <<queue, held, scansCtr>>
       \/ /\ queue # <<>> /\ Head(queue).key = held.key
          /\ held' = [held EXCEPT !.uids = @ \cup Head(queue).uids]
          /\ queue' = Tail(queue) /\ UNCHANGED <<timer, scansCtr>>
       \/ /\ queue # <<>> /\ Head(queue).key # held.key
          /\ queue' = Append(Tail(queue), Head(queue))
          /\ scansCtr' = (scansCtr + 1) % OtherScans
          /\ timer' = IF scansCtr' = 0 THEN "report" ELSE "merge"
          /\ UNCHANGED held
    /\ UNCHANGED <<scanTime, arpRequests, cachedRequests, alerted, reportedScans>>

\* Mutant: what was reported stays in the thread's hand.
MutReport ==
    /\ timer = "report" /\ timer' = "get"
    /\ reportedScans' = reportedScans \cup ScanEvidence(held.key, held.uids)
    /\ cachedRequests' = WithoutKeys({held.key})
    /\ UNCHANGED <<scanTime, arpRequests, alerted, queue, held, scansCtr>>

ReportScan ==
    /\ timer = "report" /\ timer' = "get" /\ held' = None
    /\ SetEvidenceArpScan(held.key, held.uids)
    /\ UNCHANGED <<scanTime, arpRequests, alerted, queue, scansCtr>>

ScanTick == scanTime < MaxScanTime /\ scanTime' = scanTime + 1 /\ UNCHANGED <<arpRequests, cachedRequests, alerted, queue, timer, held, scansCtr, reportedScans>>

Timer == Take \/ Merge \/ ReportScan

ScanNext ==
    \/ \E k \in ScanKeys, d \in Addrs : ArpRequest(k, d)
    \/ \E k \in ScanKeys : ScansTwClosed(k)
    \/ Timer \/ ScanTick

ScanSpec == ScanInit /\ [][ScanNext]_asvars /\ WF_asvars(Timer)

-----------------------------------------------------------------------------
Scan == [key : ScanKeys, uids : SUBSET (1..MaxRequests)]

ScanTypeOK ==
    /\ scanTime \in 0..MaxScanTime /\ Len(arpRequests) <= MaxRequests
    /\ DOMAIN cachedRequests \subseteq ScanKeys
    /\ \A k \in DOMAIN cachedRequests : cachedRequests[k] # <<>>
    /\ alerted \in BOOLEAN /\ timer \in {"off", "get", "merge", "report"}
    /\ \A n \in 1..Len(queue) : queue[n] \in Scan
    /\ (held = None) <=> (timer \in {"off", "get"})
    /\ scansCtr \in 0..(OtherScans - 1)
    /\ reportedScans \subseteq Scan

\* However main() and the timer thread share the requests and the queue, an
\* ARP scan is reported with requests of its own profile only, for as many
\* addresses as a scan needs, and never of a trusted peer.
ScanHasItsRequests ==
    \A e \in reportedScans :
        /\ e.key \notin TrustedKeys
        /\ \A n \in e.uids : arpRequests[n].key = e.key
        /\ Cardinality({arpRequests[n].to : n \in e.uids}) >= ScanThreshold

=============================================================================
