---------------------------- MODULE FlowCounters ----------------------------
(***************************************************************************)
(* The analyzers of Flow Alerts that count flows of one key until there is *)
(* enough for an evidence: Telnet and other reconnections (conn.py), DGA   *)
(* and ARPA scans (dns.py), SMTP brute force (smtp.py) and guessing of SSH *)
(* passwords (ssh.py), and the HTTP analyzer's empty connections.  A key   *)
(* is what the code counts under: a profile, with its window or its        *)
(* victim, or a host.  A flow's uid is its place in `counted`.  The times   *)
(* are the flows' own and come in any order: Zeek logs a flow when it ends. *)
(***************************************************************************)
EXTENDS Naturals, Sequences, FiniteSets, SequencesExt

CONSTANTS
    CountKeys,
    QueryNames,      \* what a DNS query asks for
    CountThreshold,  \* per kind: flows that make an evidence
    Step,            \* DGA evidence only at its multiples
    Span,            \* per kind: time the counted flows may span
    MaxCounted,      \* bound: flows
    MaxClock         \* bound: time of a flow

Counters == {"telnet", "reconnection", "dga", "arpa", "smtp", "ssh", "empty"}

\* smtp_bruteforce_threshold is 3; arpa_scan_threshold and nxdomains_threshold
\* are 10.
ASSUME CountAssumption ==
    /\ CountThreshold \in [Counters -> Nat \ {0}] /\ CountThreshold["smtp"] = 3
    /\ CountThreshold["arpa"] >= 2 /\ CountThreshold["dga"] >= 2
    /\ Span \in [Counters -> Nat] /\ Step \in Nat \ {0}
    /\ MaxCounted \in Nat /\ MaxClock \in Nat

VARIABLES
    kind,           \* the analyzer that sees the flows
    counted,        \* the flows so far: key, name asked for, time
    table,          \* uids kept for each key that has an entry
    countEvidence,  \* sets of uids reported
    crashed         \* uids whose analysis raised

cvars == <<kind, counted, table, countEvidence, crashed>>

CountInit ==
    /\ kind \in Counters /\ counted = <<>>
    /\ table = [k \in {} |-> <<>>]
    /\ countEvidence = {} /\ crashed = {}

Kept(k) == IF k \in DOMAIN table THEN table[k] ELSE <<>>
Store(k, uids) == [j \in DOMAIN table \cup {k} |-> IF j = k THEN uids ELSE table[j]]
WithoutKey(k) == [j \in DOMAIN table \ {k} |-> table[j]]

\* get_time_diff has no sign.
TimeApart(fs, u, v) ==
    LET t == fs[u].time  s == fs[v].time IN IF t <= s THEN s - t ELSE t - s

KeepUids(k, uids) == table' = Store(k, uids) /\ UNCHANGED <<countEvidence, crashed>>
ReportUids(uids, newTable) ==
    /\ countEvidence' = countEvidence \cup {ToSet(uids)}
    /\ table' = newTable
    /\ UNCHANGED crashed

NamesOf(fs, uids) == {fs[u].name : u \in uids}

\* Mutant: the attempts are not forgotten once they are reported.
MutTelnet(k, uids) ==
    IF Len(uids) < CountThreshold["telnet"] THEN KeepUids(k, uids) ELSE ReportUids(uids, Store(k, uids))

\* check_multiple_telnet_reconnection_attempts: at the 4th attempt an evidence,
\* and the count starts again at 0 in the hash of the window.
Telnet(k, uids) ==
    IF Len(uids) < CountThreshold["telnet"] THEN KeepUids(k, uids) ELSE ReportUids(uids, Store(k, <<>>))

\* check_multiple_reconnection_attempts: the same for 5 rejected connections.
Reconnection(k, uids) ==
    IF Len(uids) < CountThreshold["reconnection"] THEN KeepUids(k, uids) ELSE ReportUids(uids, Store(k, <<>>))

\* detect_dga: the queries of a profile's window.  The test that a query is new
\* compares it with the pair of lists and never finds it, so each flow counts.
\* The first one is kept without a look at the threshold.
Dga(k, uids) ==
    IF k \notin DOMAIN table \/ Len(uids) % Step # 0 \/ Len(uids) < CountThreshold["dga"]
    THEN KeepUids(k, uids) ELSE ReportUids(uids, Store(k, <<>>))

\* check_dns_arpa_scan: enough different names, asked between the first query
\* kept and this one within 2 s.  What is too old is kept as well.
Arpa(fs, k, uids) ==
    IF \/ k \notin DOMAIN table
       \/ Cardinality(NamesOf(fs, ToSet(uids))) < CountThreshold["arpa"]
       \/ TimeApart(fs, uids[1], Last(uids)) > Span["arpa"]
    THEN KeepUids(k, uids) ELSE ReportUids(uids, WithoutKey(k))

\* Mutant: logins that took too long are all forgotten but the last.
MutSmtp(fs, k, uids) ==
    IF Len(uids) # CountThreshold["smtp"] THEN KeepUids(k, uids)
    ELSE IF TimeApart(fs, uids[1], Last(uids)) > Span["smtp"]
    THEN KeepUids(k, <<Last(uids)>>) ELSE ReportUids(uids, Store(k, <<>>))

\* check_smtp_bruteforce: three bad logins within 10 s; when they took longer
\* the first one is forgotten.
Smtp(fs, k, uids) ==
    IF Len(uids) # CountThreshold["smtp"] THEN KeepUids(k, uids)
    ELSE IF TimeApart(fs, uids[1], Last(uids)) > Span["smtp"]
    THEN KeepUids(k, Tail(uids)) ELSE ReportUids(uids, Store(k, <<>>))

\* check_ssh_password_guessing: a first failed login to a victim replaces the
\* whole cache.  At the threshold pw_guessing is called with an argument it
\* does not take: it raises, nothing is reported and the entry stays.
Ssh(k, uids) ==
    /\ table' = IF k \in DOMAIN table THEN Store(k, uids) ELSE [j \in {k} |-> uids]
    /\ crashed' = IF Len(uids) >= CountThreshold["ssh"] THEN crashed \cup {Last(uids)} ELSE crashed
    /\ UNCHANGED countEvidence

\* check_multiple_empty_connections: by host, whoever connects; 4 of them are
\* reported and the count starts again.
Empty(k, uids) ==
    IF Len(uids) # CountThreshold["empty"] THEN KeepUids(k, uids) ELSE ReportUids(uids, Store(k, <<>>))

Analyze(k, n, t) ==
    LET fs == Append(counted, [key |-> k, name |-> n, time |-> t])
        uids == Append(Kept(k), Len(fs)) IN
    /\ Len(counted) < MaxCounted
    /\ counted' = fs
    /\ \/ kind = "telnet" /\ Telnet(k, uids)
       \/ kind = "reconnection" /\ Reconnection(k, uids)
       \/ kind = "dga" /\ Dga(k, uids)
       \/ kind = "arpa" /\ Arpa(fs, k, uids)
       \/ kind = "smtp" /\ Smtp(fs, k, uids)
       \/ kind = "ssh" /\ Ssh(k, uids)
       \/ kind = "empty" /\ Empty(k, uids)
    /\ UNCHANGED kind

CountNext == \E k \in CountKeys, n \in QueryNames, t \in 0..MaxClock : Analyze(k, n, t)

CountSpec == CountInit /\ [][CountNext]_cvars

-----------------------------------------------------------------------------
CountTypeOK ==
    /\ kind \in Counters
    /\ counted \in Seq([key : CountKeys, name : QueryNames, time : 0..MaxClock])
    /\ DOMAIN table \subseteq CountKeys
    /\ \A k \in DOMAIN table : ToSet(table[k]) \subseteq 1..Len(counted)
    /\ \A e \in countEvidence : e \subseteq 1..Len(counted)
    /\ crashed \subseteq 1..Len(counted)

Reported == UNION countEvidence
FlowsOf(k) == {u \in 1..Len(counted) : counted[u].key = k}
Unreported(k) == FlowsOf(k) \ Reported

\* A flow counts for one evidence of its kind at most, and an evidence is about
\* flows of one key only: what was reported is not weighed again.
EachFlowInOneEvidence ==
    /\ \A e, f \in countEvidence : e # f => e \cap f = {}
    /\ \A e \in countEvidence : \A u, v \in e : counted[u].key = counted[v].key

\* Whatever the order and the times of the flows of all keys, no threshold is
\* passed in silence.  Of each key, what is left unreported is short of it
FewLeft(k) == Cardinality(Unreported(k)) < CountThreshold[kind]

\* (for DGA it never was a multiple of the step at the threshold or above);
NoMultipleLeft(k) ==
    \A m \in CountThreshold["dga"]..Cardinality(Unreported(k)) : m % Step # 0

\* an ARPA query that completes the names of a scan came too far from the first
\* query left (those that are too old stay and silence the scans after them);
ScansTooSlow(k) ==
    \A f, u \in Unreported(k) :
        LET sofar == {v \in Unreported(k) : v <= u} IN
        (\A v \in sofar : f <= v)
        => Cardinality(NamesOf(counted, sofar)) < CountThreshold["arpa"] \/ TimeApart(counted, f, u) > Span["arpa"]

\* three bad SMTP logins in a row are further apart than the span;
LoginsTooSlow(k) ==
    \A u, v, w \in Unreported(k) :
        u < v /\ v < w /\ {x \in FlowsOf(k) : u <= x /\ x <= w} = {u, v, w}
        => TimeApart(counted, u, w) > Span["smtp"]

\* and as many failed SSH logins in a row, none of another key between them, as
\* make a guess end in the call that raises.
GuessesRaise(k) ==
    \A u \in FlowsOf(k) :
        (\A v \in 1..Len(counted) : v <= u /\ u < v + CountThreshold["ssh"] => v \in FlowsOf(k))
        => u < CountThreshold["ssh"] \/ u \in crashed

ThresholdReported ==
    \A k \in CountKeys :
        /\ kind \in {"telnet", "reconnection", "empty"} => FewLeft(k)
        /\ kind = "dga" => NoMultipleLeft(k)
        /\ kind = "arpa" => ScansTooSlow(k)
        /\ kind = "smtp" => LoginsTooSlow(k)
        /\ kind = "ssh" => GuessesRaise(k)
=============================================================================
