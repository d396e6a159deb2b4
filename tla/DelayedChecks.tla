---------------------------- MODULE DelayedChecks ----------------------------
(***************************************************************************)
(* The checks that look twice: Flow Alerts and the HTTP analyzer start a   *)
(* task for a flow, the task looks for something that may still be read    *)
(* (the conn.log record, a flow Zeek recognised), sleeps and looks again.  *)
(* Reading goes on while it sleeps.  DNS queries without a connection wait *)
(* in a queue of their own.                                                *)
(*                                                                         *)
(* Connections without a DNS resolution get no second look: for every flow *)
(* it does not ignore, should_ignore_conn_without_dns calls                *)
(* utils.is_ip_in_client_ips, which does not exist, and the task raises.   *)
(* Time is the start time of the flows, which are read in the order of     *)
(* their lines; a task may sleep while any of them are read.               *)
(***************************************************************************)
EXTENDS Naturals, FiniteSets, Sequences

CONSTANTS
    CheckedIPs,
    Large(_),              \* the flow to the address is above the size threshold
    Exempt(_),             \* the query for an address is one no connection need follow
    CnameIPs(_),           \* addresses the CNAMEs of its domain resolve to
    Earlier(_),            \* addresses its domain resolved to before
    Window,                \* 5 minutes, in flow time
    DnsWait,               \* 30 minutes, in flow time
    AwaitMain,             \* the module loop awaits the coroutine main() returns
    QueueThreadRuns,       \* start_thread starts the thread of the pending queue
    Groups,                \* bound: the checks whose flows one behaviour may have
    MaxFlowTime, MaxTasks  \* bounds

ASSUME WindowAssumption == Window \in Nat /\ MaxFlowTime \in Nat

VARIABLES
    flowTime,    \* start time of the last flow read
    moreFlows,   \* will_smartshield_have_new_incoming_flows
    conns,       \* addresses whose flows are in the database, as conn.log has them,
                 \* contacted under either version of the host's address
    recognised,  \* ssl_ and http_recognized_flows: start times, by address
    outOfOrder,  \* history: <<time, task>>, a recognised flow recorded while a flow
                 \* that began after it was waiting
    tasks,       \* tasks asleep: [kind, ip, ts]
    lastReport,  \* the last evidence: [kind, ip, ts, of]
    dnsPending,  \* pending_dns_without_conn
    checks,      \* the checks this behaviour has flows for
    loop,        \* the module: "init", "running", "stopped"
    endAsked     \* the termination event is set

read == <<flowTime, moreFlows, conns, checks>>
dvars == <<flowTime, moreFlows, conns, recognised, outOfOrder, tasks, lastReport,
           dnsPending, checks, loop, endAsked>>

Protos == {"ssl", "http"}
NeedsConn == {"pastebin", "ssh", "weird"}

DelayedInit ==
    /\ checks \in Groups /\ flowTime = 0 /\ moreFlows = TRUE /\ conns = {}
    /\ recognised = [p \in Protos |-> [ip \in CheckedIPs |-> {}]]
    /\ outOfOrder = {} /\ tasks = {} /\ lastReport = {} /\ dnsPending = {} /\ loop = "init" /\ endAsked = FALSE

\* main() makes a task of an analyzer's coroutine and does not wait for it.
Sleep(kind, ip) ==
    /\ kind \in checks /\ Cardinality(tasks) < MaxTasks
    /\ tasks' = tasks \cup {[kind |-> kind, ip |-> ip, ts |-> flowTime]}
\* A connection to port 80 that is not HTTP is filed for both its ends.
Ends(kind) == IF kind = "http" THEN {"saddr", "daddr"} ELSE {"saddr"}
ReportDelayed(kind, ip, ts) ==
    lastReport' = [kind : {kind}, ip : {ip}, ts : {ts}, of : Ends(kind)]

-----------------------------------------------------------------------------
(* The module loop.  IModule.run calls main() and stops on a true result;  *)
(* a coroutine nobody awaits is one, and shutdown_gracefully is not        *)
(* awaited either.                                                         *)

Run ==
    /\ loop = "init"
    /\ loop' = IF AwaitMain THEN "running" ELSE "stopped"
    /\ UNCHANGED <<flowTime, moreFlows, conns, checks, recognised, outOfOrder, tasks, lastReport,
                   dnsPending, endAsked>>

AskToEnd ==
    /\ ~endAsked /\ endAsked' = TRUE
    /\ UNCHANGED <<flowTime, moreFlows, conns, checks, recognised, outOfOrder, tasks, lastReport,
                   dnsPending, loop>>

\* FlowAlerts.shutdown_gracefully: the pending DNS flows are taken from the
\* queue and the coroutine made for each is dropped; the tasks asleep die with
\* the process.
TakeAllPending == dnsPending' = {}
StopFlowAlerts ==
    /\ loop = "running" /\ endAsked
    /\ loop' = "stopped" /\ TakeAllPending /\ tasks' = {}
    /\ UNCHANGED <<flowTime, moreFlows, conns, checks, recognised, outOfOrder, lastReport, endAsked>>

-----------------------------------------------------------------------------
(* What the profiler reads and stores meanwhile.                           *)

ReadConn(ip) ==
    /\ moreFlows /\ checks \cap ({"dns"} \cup NeedsConn) # {} /\ conns' = conns \cup {ip}
    /\ UNCHANGED <<flowTime, moreFlows, checks, recognised, outOfOrder, tasks, lastReport, dnsPending, loop,
                   endAsked>>
\* Lines come when a flow ends, so that its start may lie before the last one.
NextFlow ==
    /\ moreFlows /\ flowTime' \in (0..MaxFlowTime) \ {flowTime}
    /\ UNCHANGED <<moreFlows, conns, checks, recognised, outOfOrder, tasks, lastReport,
                   dnsPending, loop, endAsked>>
LastFlow ==
    /\ moreFlows /\ moreFlows' = FALSE
    /\ UNCHANGED <<flowTime, conns, checks, recognised, outOfOrder, tasks, lastReport, dnsPending,
                   loop, endAsked>>

-----------------------------------------------------------------------------
(* ssh.py, ssl.py and http_analyzer.py: checks that need the conn.log      *)
(* record of the flow.                                                     *)

Judge(kind, ip, ts) ==
    IF kind = "weird" \/ Large(ip) THEN ReportDelayed(kind, ip, ts) ELSE UNCHANGED lastReport

WaitForConn(kind, ip) ==
    /\ loop = "running" /\ moreFlows /\ kind \in checks
    /\ IF ip \in conns THEN Judge(kind, ip, flowTime) /\ UNCHANGED tasks
       ELSE Sleep(kind, ip) /\ UNCHANGED lastReport
    /\ UNCHANGED <<read, recognised, outOfOrder, dnsPending, loop, endAsked>>
CheckSuccessfulSsh(ip) == WaitForConn("ssh", ip)
CheckPastebinDownload(ip) == WaitForConn("pastebin", ip)
CheckWeirdHttpMethod(ip) == WaitForConn("weird", ip)

ResumeWithConn(t) ==
    /\ t.kind \in NeedsConn
    /\ IF t.ip \in conns THEN Judge(t.kind, t.ip, t.ts) ELSE UNCHANGED lastReport

-----------------------------------------------------------------------------
(* ssl.py and http_analyzer.py: port 443 that is not SSL, port 80 that is  *)
(* not HTTP.                                                               *)

\* search_*_recognized_flows_for_ts_range
Matching(p, ip, start, end) == {t \in recognised[p][ip] : start <= t /\ t <= end}
\* Mutant: no look back.
MutPast(p, ip, ts) == Matching(p, ip, ts, ts)

Past(p, ip, ts) == Matching(p, ip, IF ts < Window THEN 0 ELSE ts - Window, ts)
Future(p, ip, ts) == Matching(p, ip, ts, ts + Window)

\* The flows of the address that began after the time and sleep.
Overtaken(p, ip, ts) == {t \in tasks : t.kind = p /\ t.ip = ip /\ ts < t.ts}

\* keep_track_of_*_flow: the start time goes where it belongs in the sorted list.
KeepTrack(p, ip) ==
    /\ loop = "running" /\ moreFlows
    /\ p \in checks /\ recognised' = [recognised EXCEPT ![p][ip] = @ \cup {flowTime}]
    /\ outOfOrder' = outOfOrder \cup ({flowTime} \X Overtaken(p, ip, flowTime))
    /\ UNCHANGED <<read, tasks, lastReport, dnsPending, loop, endAsked>>
KeepTrackOfSsl(ip) == KeepTrack("ssl", ip)
KeepTrackOfHttp(ip) == KeepTrack("http", ip)

LookBack(p, ip) ==
    /\ loop = "running" /\ moreFlows
    /\ Past(p, ip, flowTime) = {} /\ Sleep(p, ip)
    /\ UNCHANGED <<read, recognised, outOfOrder, lastReport, dnsPending, loop, endAsked>>
CheckNonSslPort443(ip) == LookBack("ssl", ip)
CheckNonHttpPort80(ip) == LookBack("http", ip)

LookAhead(t) ==
    /\ t.kind \in Protos
    /\ IF Future(t.kind, t.ip, t.ts) # {} THEN UNCHANGED lastReport ELSE ReportDelayed(t.kind, t.ip, t.ts)

Newest(S) == CHOOSE t \in S : \A u \in S : u <= t

\* remove_old_entries_from_*_recognized_flows: takes out the times of the last
\* five minutes, except the last, and keeps the older ones.
Garbage(S) == IF S = {} THEN {} ELSE {t \in S : t + Window > Newest(S) /\ t # Newest(S)}
Cleanup(p) ==
    /\ loop = "running"
    /\ \E ip \in CheckedIPs : Garbage(recognised[p][ip]) # {}
    /\ recognised' = [recognised EXCEPT ![p] = [ip \in CheckedIPs |-> @[ip] \ Garbage(@[ip])]]
    /\ UNCHANGED <<read, outOfOrder, tasks, lastReport, dnsPending, loop, endAsked>>
RemoveOldSslEntries == Cleanup("ssl")
RemoveOldHttpEntries == Cleanup("http")

\* A sleep ends: after its time, or (for those that wait for new flows) when no
\* more flows come.
Resume(t) ==
    /\ loop = "running" /\ tasks' = tasks \ {t}
    /\ ResumeWithConn(t) \/ LookAhead(t)
    /\ UNCHANGED <<read, recognised, outOfOrder, dnsPending, loop, endAsked>>

-----------------------------------------------------------------------------
(* dns.py: DNS without connection                                          *)

\* should_detect_dns_without_conn
ShouldDetect(ip) == ~Exempt(ip)

\* is_any_flow_answer_contacted: the answer, what the domain resolved to before,
\* and the addresses of its CNAMEs.
CnameContacted(ip) == CnameIPs(ip) \cap conns # {}
AnswerContacted(ip) == ({ip} \cup Earlier(ip)) \cap conns # {} \/ CnameContacted(ip)

DnsWithoutConn(ip) ==
    /\ loop = "running" /\ moreFlows /\ "dns" \in checks
    /\ ShouldDetect(ip) /\ ~AnswerContacted(ip)
    /\ Cardinality(dnsPending) < MaxTasks /\ dnsPending' = dnsPending \cup {[ip |-> ip, ts |-> flowTime]}
    /\ UNCHANGED <<read, recognised, outOfOrder, tasks, lastReport, loop, endAsked>>

\* check_pending_flows_timeout at a DNS flow of the current time: what waited
\* 10, 20 or at least 30 minutes leaves the queue; the coroutine that would look for
\* the connection and set the evidence, or put the flow back, is not awaited.
Waited(f) == IF f.ts <= flowTime THEN flowTime - f.ts ELSE f.ts - flowTime
Due(f) == 3 * Waited(f) \in {DnsWait, 2 * DnsWait} \/ Waited(f) >= DnsWait
CheckDnsPending ==
    /\ loop = "running" /\ moreFlows /\ QueueThreadRuns
    /\ \E f \in dnsPending : Due(f)
    /\ dnsPending' = {f \in dnsPending : ~Due(f)}
    /\ UNCHANGED <<read, recognised, outOfOrder, tasks, lastReport, loop, endAsked>>

-----------------------------------------------------------------------------
DelayedNext ==
    \/ Run \/ AskToEnd \/ StopFlowAlerts \/ NextFlow \/ LastFlow
    \/ \E ip \in CheckedIPs :
        \/ ReadConn(ip) \/ CheckSuccessfulSsh(ip) \/ CheckPastebinDownload(ip) \/ CheckWeirdHttpMethod(ip)
        \/ CheckNonSslPort443(ip) \/ CheckNonHttpPort80(ip) \/ DnsWithoutConn(ip)
        \/ KeepTrackOfSsl(ip) \/ KeepTrackOfHttp(ip)
    \/ RemoveOldSslEntries \/ RemoveOldHttpEntries \/ CheckDnsPending
    \/ \E t \in tasks : Resume(t)

TaskKinds == NeedsConn \cup Protos
Items == [kind : TaskKinds, ip : CheckedIPs, ts : 0..MaxFlowTime]

\* The process runs, and the event loop wakes each task when its sleep is over.
DelayedSpec == DelayedInit /\ [][DelayedNext]_dvars
        /\ WF_dvars(Run) /\ WF_dvars(StopFlowAlerts)
        /\ \A t \in Items : WF_dvars(t \in tasks /\ Resume(t))

-----------------------------------------------------------------------------
DelayedTypeOK ==
    /\ checks \in Groups /\ flowTime \in 0..MaxFlowTime /\ moreFlows \in BOOLEAN /\ endAsked \in BOOLEAN
    /\ conns \subseteq CheckedIPs
    /\ recognised \in [Protos -> [CheckedIPs -> SUBSET (0..MaxFlowTime)]]
    /\ tasks \subseteq Items /\ outOfOrder \subseteq (0..MaxFlowTime) \X Items
    /\ lastReport \subseteq [kind : TaskKinds, ip : CheckedIPs, ts : 0..MaxFlowTime, of : {"saddr", "daddr"}]
    /\ dnsPending \subseteq [ip : CheckedIPs, ts : 0..MaxFlowTime]
    /\ loop \in {"init", "running", "stopped"}

\* No flow is reported as not SSL (or not HTTP) when a recognised flow of the
\* same addresses, that began at most five minutes before or after it, is known:
\* not one read before the first look, nor one read while the task slept, in
\* whatever order their start times come.  The one exception is a flow that began
\* before it and was read while it slept, which neither look asks for.
OnlyUnrecognised ==
    \A r \in lastReport' \ lastReport : r.kind \in Protos =>
        \A t \in recognised[r.kind][r.ip] :
            \/ t + Window < r.ts \/ t > r.ts + Window
            \/ t < r.ts /\ <<t, [kind |-> r.kind, ip |-> r.ip, ts |-> r.ts]>> \in outOfOrder
RecognisedNotReported == [][OnlyUnrecognised]_dvars

\* main() is "called repeatedly": the module stops only when it is asked to.
StopsOnlyWhenAsked == loop = "stopped" => endAsked
=============================================================================
