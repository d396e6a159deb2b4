# SmartShield: TLA+ models, model-checking runs and proofs

SmartShield is an intrusion prevention system: a tree of Python processes that
reads traffic, splits it into profiles and time windows, runs detection modules
over the flows, turns their evidence into alerts, and blocks attackers. The
processes share one Redis database and one SQLite file and talk over Redis
channels. Almost none of the database code uses a transaction, so what makes the
system hard is interleaving. The modules here model that: the shared state, the
steps of every process on it, and what may happen when a process is interrupted
or killed between two of them.

Paths below are relative to the repository; `RDB` is
`smartshield_files/core/database/redis_db`.

## 1. The system

### Processes and how they interact

| Process | Code | Talks to |
|---|---|---|
| main | `smartshield/main.py`, `managers/process_manager.py`, `managers/metadata_manager.py` | polls two semaphores of the input and the profiler, the control channel, closes time windows, starts and stops everybody |
| input, profiler | `core/input.py`, `core/profiler.py` (not in the repository) | a multiprocessing queue between them; the profiler writes flows, MACs and DNS answers to Redis and SQLite and publishes them |
| detection modules | `modules/*`, on `common/abstracts/imodule.py` | one Redis channel each message type; `set_evidence` |
| evidence handler | `core/evidence_handler.py` (not in the repository) | channel `evidence_added`; `set_alert`; publishes `new_alert`, `new_blocking`, ... |
| blocking, ARP poisoner, exporting | `modules/blocking`, `modules/arp_poisoner`, `modules/exporting_alerts` | consume what the evidence handler publishes; iptables, ARP packets, STIX |
| update manager, threat intelligence | `modules/update_manager`, `modules/threat_intelligence` | download lists and write them to the cache; look up what flows contain |
| P2P trust, Fides, Iris | `modules/p2ptrust`, ... | peers, through programs outside the repository |

Inside a process there are more actors: the checker thread of Blocking, the timer
thread of the ARP module, the `InfiniteTimer`s of the update manager, the queue
thread of VirusTotal, and the tasks of the two asynchronous modules (Flow Alerts,
HTTP analyzer), which sleep while the main loop goes on.

Some files the code imports are absent (`core/input.py`, `core/profiler.py`,
`core/evidence_handler.py`, `core/helpers`). What they do is modelled from the
calls made for them and from their tests, and is marked external.

### Contracts the shipped base classes break

Some abstract classes and helpers do not fit their users, and some modules cannot
even start for that reason. The models take each module with a base class that fits,
so that the code behind the misfit is checked too. Where a run shows what the files
do as they are, a constant chooses:

| Code | What it does | Constant | Run with the code as it is |
|---|---|---|---|
| `IModule.run` with an `async def main` (`imodule.py:109`) | a coroutine counts as an error, the module stops | `AwaitMain` | `delayed` |
| `UpdateManager.init` (`update_manager.py:58`), `update` (`:1677`) and `log` (`:205`) | ask for an attribute `IModule` does not have, for one only `init` sets although `start_update_manager` never calls it, and hand `print` a keyword it does not take | `FitsBase` | `feeds` |
| `set_new_ip` (`RDB/profile_handler.py`) | tests `is False` on what is `None`: `new_ip` is never published | `Announces` | -- |
| `utils.start_thread(target, args)` (`common/smartshield_utils.py:463`) | some callers hand it a `Thread` and the database: the new thread raises | `TimerRuns`, `QueueThreadRuns` | -- |

Without a run:

- `Unblocker` and `ARPUnblocker` cannot be instantiated: `IUnblocker` takes no database
  and keeps abstract methods (`common/abstracts/iunblocker.py`), and
  `_get_tw_to_unblock_at`, which both call, is nowhere defined. `Blocking.pre_main`
  (`blocking.py:287`) and `ARPPoisoner.init` (`arp_poisoner.py:47`) raise, so that as
  shipped nothing is blocked or poisoned. `Blocking` and `ArpPoisoner` take the classes
  as if they could be made, with a request that ends so many windows after that of its
  message, and `Blocking` with the thread that `start_thread` is given.
- `utils.is_ip_in_client_ips` does not exist and has three callers. Two of them are
  modelled as they are: `is_inbound_traffic` raises where it would find an address
  inbound (`threat_intelligence.py:1210`), so that Spamhaus is never asked, and
  `should_ignore_conn_without_dns` raises for every flow it does not ignore
  (`flowalerts/conn.py:462`), so that no connection without DNS is ever reported. The
  third is in the timeline (`timeline.py:57`).
- The P2P module's `init` reads `self.redis_port` (`p2ptrust.py:162`, `:206`), which
  `IModule` hands on and does not keep, and makes a `TrustDB` whose base `ISQLite` has
  abstract methods it lacks. `AsyncModule` keeps some too. `P2PTrust`, `DelayedChecks`
  and `IpLookups` take the subclasses as written.
- `core/structures/evidence.py` has no `id` and lacks most of the evidence types the
  modules name; the models take evidence as the modules build it.

### Inventory

| Component | State | Operations | Hard behaviour | What must hold |
|---|---|---|---|---|
| Time windows (`RDB/profile_handler.py`) | `tws<profile>`, `ModifiedTW`, `ClosedTW`, internal time | register, mark modified, list and close, announce, advance internal time | several processes close and re-open at once; main interrupted; writers killed | no window lost, all closed in the end, every removal announced, time monotone |
| Evidence and alerts (`RDB/alert_handler.py`, `database_manager.py`, `sqlite_db/database.py`) | evidence hashes, counter, processed and whitelisted sets, accumulated and maximal threat level, alerts, labels of SQLite rows | `set_evidence`, mark, delete, accumulate, `set_alert`, label | check-then-act without transactions; deletion against repetition; kill between two writes; rows inserted late | deleted stays deleted, counter right, an alert holds only safe evidence, nothing counted twice |
| Shutdown (`process_manager.py`, `imodule.py`) | termination events, semaphores, processes, lists of children | poll, wait in rounds, kill, Ctrl-C | child in `main()` when its event is set; timeout against the last exit; second Ctrl-C | order of stopping, databases outlive children, honest report, shutdown ends |
| Network discovery | tables of the window written by the profiler, thresholds of the last evidence | count ports, hosts, pings, requested addresses; report over a threshold | flows announced before they are stored; thresholds shared between protocols; checks that skip amounts | no scan overlooked, evidence grows, never repeated |
| Blocking | firewall rules, `blocked_ips`, unblocking requests | block, extend, unblock when due, count windows down | checker thread against `main()` on one dictionary; one of two rules, or the listing, fails; an address found inside another's text | one rule for each direction as long as the listings work, none for a protected address, what is recorded is blocked |
| ARP poisoner | requests, poisoned hosts, cached scan | poison, re-poison, extend, end | attacks take seconds while requests run out and are extended | (see section 7) |
| Flow Alerts: counters | tables of uids by profile, host, window | count, report, reset or keep | seven near copies, each with its own reset and time span | no flow in two evidence, no threshold passed in silence |
| Flow Alerts: single flows | p2p counts, known DNS server, replies | every check of `conn.py`, `dns.py`, `ssl.py`, `notice.py`, `smtp.py`, `ssh.py`, `software.py`, `tunnel.py`, `downloaded_file.py` | the analyzers see one flow in any order; DNS servers are counted side by side, under one flag | a server outside the network gets few answers past the check |
| Delayed checks of Flow Alerts and the HTTP analyzer | sleeping tasks, recognised flows, pending DNS flows | look, sleep, look again, clean up, drain at shutdown | reading and cleaning go on during the sleep; start times come in any order; a coroutine is not awaited | nothing recognised is reported |
| HTTP analyzer | user agents of a profile | learn, compare, report | answers of an online service come late | the first agent of a profile stands |
| Update manager | feeds' e-tags and times, whitelist, responses, dictionaries, files | check, download, delete, parse, store, mark; timers | three timers share the process's dictionaries; crash anywhere; another configuration at restart | what counts as up to date is loaded |
| Threat intelligence | local lists with their hashes, indicators in the cache | read a list, delete what it had, look up, write back | kill anywhere, the list edited, feeds changing under a lookup | what counts as loaded is exact |
| Profiles, MACs, gateway (`RDB/profile_handler.py`), ARP detection of MITM | address lists of MACs, MACs, other addresses and vendors of profiles, gateway | `add_mac_addr_to_profile`, vendors online and offline, accuse | tables written one after the other, the profiler killed between; an arbitrary one of several addresses | the tables agree |
| ARP scans | requests by profile, queue of scans | group, report, merge, forget | timer thread and `main()` take from one dictionary | a scan rests on its own requests |
| IP information | entry of each address, domain and URL | look up country, ASN, names, scores | every writer reads, adds, writes back the whole entry | (see section 8) |
| P2P trust | reports, reliability, addresses of peers, cached opinions | report, ask, sleep, combine, blame | answers arrive behind the loop that waits for them | opinions rest on known reporters other than the judged |
| Message tracking in Redis | who processed which flow | count on `get_message` | subscribers change while counting | each flow counted once |
| Redis servers, daemon | ports, log of open servers, pidfile | choose port, start, stop, clean log | two instances at once | one server per instance |
| OT detection | counters of connections by wall clock, keys of alerts by window, protected devices | count, compare with the authorized masters, alert once a window | clock and window move apart; the keys are emptied now and then | no flood passes in silence, in any window it reaches |
| Fides, Iris, ML, timeline, leak detector, exporters, output, web | mostly stateless per flow | scoring, formatting | I/O | see section 8 |

## 2. Plan

Order: what every process depends on first, then what acts on the network, then
what detects.

1. `Timewindows`, `Evidence`, `Shutdown`, `EvidenceLife`, `NetworkDiscovery`, each
   with its proofs -- done.
2. Response: `Blocking` with `BlockingProofs`, `ArpPoisoner` -- done.
3. Detection: `FlowCounters`, `FlowEvidence`, `DelayedChecks`, `HttpAnalyzer`,
   `ArpScans`, `OtDetection`, `LocalNetwork` with `LocalNetworkProofs` -- done.
4. Intelligence: `ThreatFeeds`, `ThreatIntel` with `ThreatIntelProofs`,
   `IpLookups`, `P2PTrust` -- done.
5. `MCThreatFeeds`, which runs `ThreatFeeds`, and `MCModules`, which runs the rest of items
   2 to 4 -- done.
6. `WindowLife`, the abstract specification of `Timewindows` -- done.
7. Message tracking; `RedisServers` -- to do.

Theorems: every invariant and every action property the runs check is proved
(section 5), but for the type invariants gathered in `TypesOK`; section 6 says why.

## 3. Modules

Each `MC*` module extends one component and gives its functions small values;
the `.cfg` files choose the rest. `MCModules` extends eleven, whose definitions
therefore have names of their own (`PoisonNext`, `ScanSpec`, `peerTime`), and
instantiates `IpLookups`; `Absent` holds what they share, the
constant `None`. Each `*Proofs` module extends the components it is about:
`FlowAlertsProofs` the five that judge flows one by one, `LocalNetworkProofs` also
`ArpScans`, `ThreatIntelProofs` also `P2PTrust` and `ThreatFeeds`.
Definitions whose name begins with `Mut` are deliberate mistakes: put in place
of the definition below them, they make a property fail, which shows that the
property depends on that piece of code.

### Timewindows

`RDB/profile_handler.py`, `MetadataManager.update_smartshield_stats_in_the_db`
and the loop of `main.py`. One action per Redis call.

| Code | Model |
|---|---|
| `get_timewindow` | `TwNumber`, `TwStart`; registering is part of `MarkModified` |
| `mark_profile_tw_as_modified` | `MarkModified`: the score is the wall clock, whatever the flow's time is; continues in `check_tw_to_close` |
| `check_tw_to_close` | `ReadInternalTime`, `ListWindowsToClose`, `EndCheck` |
| `mark_profile_tw_as_closed` | `AddToClosed` (SADD), `RemoveFromModified` (ZREM), `PublishClosed` |
| `update_smartshield_stats_in_the_db` | `ReadLastModification`, `SetInternalTime` |
| main loop, shutdown | `LoopIteration`, `InputDone`, `Shutdown` |
| Ctrl-C in the main loop; in `shutdown_gracefully`, which swallows it (`process_manager.py:869`) | `Interrupt`; `InterruptShutdown` |
| a writer stopped or killed after the termination event | `StopWriter` |

A window absent from `ModifiedTW` has score 0. `touched`, `removed`, `lost` and
`shutAt` are history variables: no action reads them.

### WindowLife

The abstract specification: each window is unseen, open or closed; `Modify` opens it,
a process that decided on it while it was open (`Decide`) closes it (`Close`), says so
once (`Announce`), and may be interrupted (`GiveUp`). `Timewindows` ends with the
refinement mapping: open is being in `ModifiedTW`, closed being in `ClosedTW` only; a
process decided on what it listed and has not taken out (`DecidedOn`), and owes the
announcement of what it took out (`InFlight`). Registering is no step of a window's
life, nor is SADD: a window about to be removed is open, or closed by another process.
That a process closes what was modified again after it decided is in the promise,
because it is what the code does (section 7).

### Evidence

One attacker profile. One action per Redis or SQLite call of `set_evidence`,
`update_max_threat_level`, `set_alert` and `set_flow_label`; a detection module
may be killed before any of them (`KillSetter`). The evidence handler takes one
evidence at a time from its subscription: `ReceiveEvidence`, `Decide`, 
`CheckThreshold` and the helpers they use are external, all the database
operations it calls are translated. `ByOthers` is evidence of direction DST,
which counts for another profile. `AddRow` is `add_flow` and `add_altflow`
(INSERT OR REPLACE). `late` is a history variable.

### EvidenceLife

The abstract specification: the life of each evidence (unknown, stored, heard,
then dropped, kept as somebody else's, or counted, then alerted) and the weight
counted in each window since its last alert. `Alert(w)` takes all the counted
evidence of its window, needs the threshold and resets the weight in one step.
`Evidence` ends with the refinement mapping: `LifeOf` reads the stage of an
evidence off `stored`, `processed`, `whitelisted`, the alerts and what the
handler is doing; `WeightOf` is the accumulated threat level, taken as reset
from the moment the alert is recorded.

### Shutdown

`ProcessManager` in interactive mode, with `IModule.run` for every child.

| Code | Model |
|---|---|
| `IModule.run` | `EnterMain`, `StopOnEvent`, `StopOnInterrupt`, `StopOnError`; one call of `main()` is `Idle`, `HandleFlow`, `HandleEvidence` (external) or `Consume` |
| input, profiler (external) | `ReadLine`, `FinishInput`, `EndInput`, `ProfileLine`, `EndProfiler`, `ProfilerIdle` |
| `stop_smartshield`, `is_done_receiving_new_flows` | `PollControl`, `PollInput`, `PollProfiler` |
| `shutdown_gracefully`, `shutdown_interactive` | `StartShutdown`, `While`, `Join`, `JoinedFirst`, `JoinedLast`, `CheckTime` |
| `kill_all_children` | `KillChild`, `AllKilled` |
| `save_the_db`, export, `close_all_dbs` | `Finish` |
| KeyboardInterrupt | `Interrupt` |

Messages are counted, not named. Time is counted in joins of 3 s that timed
out. `aborted` is a Ctrl-C outside the waiting loop: `shutdown_gracefully`
returns False there without closing the databases.

### NetworkDiscovery

The profiler, the Timeline module and the Network Discovery module on the tables
of one profile and one window.

| Code | Model |
|---|---|
| order of the calls for one flow | `TakeFlow` to `StoreSrc`, from `tests/test_flow_handler.py` (the flow handler is external) |
| `add_tuple`, `add_ips`, `add_port` (Dst, then Src) | `AddTuple`, `AddIps`, `AnnounceDst`, `StoreDst`, `AnnounceSrc`, `StoreSrc`: `add_port` publishes `tw_modified` and then stores |
| `_was_flow_flipped` | `Flipped`: `add_ips` stores such a flow, `add_port` returns at once |
| `add_flow`, Timeline's `add_timeline_line` | `new_flow` in `GoTo`, `AddTimelineLine`; `timeline` says whether the module is on |
| `main()` of the module | `ReceiveModified`, `CheckScans` (four tables, one read each), `CheckIcmpScan`, `ReceiveDhcp`; `NothingModified` when there is no message |
| `should_set_evidence`, the caches | `ShouldSetEvidence`, `cached` |
| `check_icmp_scan`, `check_dhcp_scan` | `ShouldSetPingEvidence`, `CheckDhcpScan` |

`check` counts the tables read since the last message, so that the profiler may
write between two of them. `reported` and `last_flipped` are history variables.
Source addresses that `is_valid_saddr` rejects have no horizontal check; the
profile is one of a unicast address.

### Blocking

`modules/blocking/blocking.py` and `unblocker.py`: `main()` and the checker thread.

| Code | Model |
|---|---|
| `_is_ip_already_blocked` (text search in the listing, whose return code is not looked at: a failed one is empty), `_is_ot_protected` | `Listed`, `IsOtProtected` in the guard of `NewBlocking` |
| `_block_ip`, both rules | `BlockFrom`, `BlockTo`, each may fail; the address is recorded if the last one worked |
| `unblock_request`, `_add_req`, `_get_tw_to_unblock_at` | `UnblockRequest`, `AddReq` |
| `update_requests` at `tw_closed` | `TwClosed` |
| `check_if_time_to_unblock` | `StartRound`, `NextItem` (raises when `grown` says the dictionary grew), `UnblockFrom`, `UnblockTo`, `DelBlockedIP` |

Time is the number of the window. `new_blocking` is modelled with `block` true;
its other uses belong to `exec_iptables_command`, which they do not reach.
`unseen` is a history variable.

### ArpPoisoner

`main()` phase by phase: `KeepAttackersPoisoned`, `Repoison` for each request (wait,
let go, or attack) with `RepoisonEnds` when the attack is over, `LoopEnds`, then
`PoisonNewBlocking` with `FirstAttackEnds`, then `PoisonTwClosed`. Time passes between
the check of a request and the end of the attack it allows, as an attack asks for a
MAC, scans and sends. A due request whose start time is missing, because it was
extended, raises `KeyError` and stops the module (`running`). `attacked` is the set of
addresses the network was told about.

### FlowCounters

One behaviour is one analyzer (`kind`): seven functions of the same signature,
each from its own code, because each resets, keeps or forgets differently.
`table` is the analyzer's dictionary of uids. Each flow has a time of its own, and they
come in any order: Zeek logs a flow when it ends.

### FlowEvidence

A flow is two addresses and the set of traits the checks ask about; an evidence
is its kind, the profile it is filed in and its level, as `set_evidence.py`
builds it (`FiledIn`). Every analyzer gets the flow once, in any order; what one
leaves to a later check is `Later`. `letPass` is a history variable: the answers of
each server that `DnsLocalnet` did not report for being a possible misconfiguration.

### DelayedChecks

`Sleep` starts a task of a kind, `Resume` is its second look: `WaitForConn` (pastebin,
SSH, weird method), `LookBack` and `LookAhead` (port 443 not SSL, port 80 not HTTP),
with the records kept by `KeepTrack` and rewritten by `Garbage`. `flowTime` is the start
time of the last flow read; `NextFlow` moves it either way, and `KeepTrack` puts it
where it belongs in the list, as `bisect.insort` does. `outOfOrder` is a history
variable. DNS flows without connection have the queue `dnsPending`, its thread
`CheckDnsPending` and the drain `TakeAllPending` in `StopFlowAlerts`. The coroutines
nobody awaits do nothing, and the check of connections without DNS is absent (section 1).

### HttpAnalyzer

`NewHttp` is the whole handler of `new_http`: the checks that set evidence, the
first user agent with an answer of the online service (or none), the agents seen
since, and Zeek's `server_bag`. `last` is the evidence of the last flow.

### ThreatFeeds

Each updating thread (`pre_main`, then three timers) goes through `Start`,
`UpdateMacDb`, `CheckWhitelist`, `DropWhitelist`/`Refill`, `DropUnused`/`DropEntries`,
`CheckFeed`, `CheckRiskIQ`, and for each changed feed `WriteFile`, `DeletePrevious`,
`StartParsing`, `ParseLines`/`ParseOther`, `Store`, `MarkUpdated`. `responses`,
`dict` and `disk` are shared by the threads as in the code. `Fire` starts a
timer's round, `Publish` changes a server's list, `StartAgain(c)` kills the process
at any point and starts it with the feeds `c`: what is in the cache and on disk
stays. `UpToDateMeansLoaded` speaks of each feed that shares no indicator with another
(`Alone`): of one that two feeds list, the cache keeps only who came last. `clashed` is
a history variable: the feeds, or the whitelist, that two threads had in hand at once,
until a thread finds the feed changed again with nobody else at it.

### ThreatIntel

`update_local_ti_files` list by list (`Loaded`, `DeleteOldIps`,
`DeleteOldDomains`, `AddIps`, `AddDomains`, `AddHashes`, `StoreHash`), then
`main()`: `LookupIP` with `WriteBack`, `LookupDomain`, `LookupCname`,
`LookupUrl`, `LookupHash`. A source address that no list has makes `IsInboundRaises`
stop the module. Entries of the local list and of feeds are told apart
(`local`, `feeds`), because an entry has one source in the cache. `FeedAdds` and
`FeedDrops` are the update manager; `Kill` may come at any step.

### LocalNetwork

`add_mac_addr_to_profile`: `AddMac` decides, with the arbitrary element of `list(set)`
as a choice, and then come its Redis calls, one action each: `StoreOwnLink` and
`StorePeerLink` (the IPv4 and IPv6 fields, by `Link`), `StoreList` (the list of the MAC),
`StoreMac` and `StorePeerMac` (the MACs of the two profiles). `KillProfiler` may come
between any two. Also the gateway, the vendor of a profile from the offline database or
an online answer (`GetVendor`, `CheckPending`), and the ARP module's accusations with
its filter for peers.

### ArpScans

`ArpRequest` is the handler of `new_arp`, `Take`, `Merge`, `ReportScan` the timer
thread, `ScansTwClosed` the cleaning of `cachedRequests`, by text, as in the code: the
name of one profile's window may occur in another's (`Within`).

### IpLookups

Every writer of an entry is two steps, `Read` and `Write` of its copy. `SetNewIp`,
`DnsAnswer`, `HandleNewIp`, `DomainInfo`, `RiskIQ`, `Lookup` and `AskQueued` give
a writer what to store.

### P2PTrust

One action for each message of the Go program (`PeerUpdate`,
`PeerReport`, `PeerRequest`) and for each message of SmartShield (`Share`, `Blame`,
`DataRequest`). `DataRequest` asks and sleeps (`waiting`), `GetOpinion` combines
what was stored before; the module handles nothing in between.

### OtDetection

`HandleOt` is `main()` on one message of any of its channels: `Alerts` picks the
handler, `SeenWith` adds to the tables of times and drops what is too old (two
messages of one time are two entries, told apart by their numbers), `Floods`,
`VolumeFloods`, `Strangers`, `PtpSpoofing` and `AlertsOfModbus` to
`AlertsOfNotice` are the rules, `AlertKey` and `SetOtEvidence` the alert once a window
with the marking of a protected source. A message is two hosts and the set of
traits the rules ask about; its window is free of the wall clock, as the module
counts by the one and alerts by the other. `CleanUp` empties the keys at any time,
which stands for every 10000 passes of the loop. `otMsgs` is a history variable.

## 4. Runs

| Run | Question | Answer |
|---|---|---|
| `timewindows` | Do two writers and the main loop, interrupted and killed anywhere, also while shutdown closes windows, keep the windows straight? | `NeverLost`, `ShutdownClosesAll`, `ClosingsAnnounced`, `InternalTimeAdvances`, `OpenWindowsClose`, `ImplementsLife` hold |
| `evidence` | Do modules that set, repeat and die mid-way, and the handler, agree on the evidence? | `DeletedStaysDeleted`, `CounterMatches`, `AlertedEvidenceSafe`, `AccumulatedMatchesEvidence`, `AlertedRowsLabelled` hold |
| `evidence_life` | Do all these calls amount to the simple life of `EvidenceLife`, does evidence reach the handler, and the threshold raise an alert? | `ImplementsLife`, `EvidenceGetsProcessed`, `ThresholdRaisesAlert` hold |
| `evidence_labels` | Is every flow of an alert labelled malicious, as `set_alert`'s docstring says? | no: a row written after its UPDATE stays benign |
| `shutdown` | Is the order of stopping right, whatever fails, hangs or is interrupted? | `HandlerStopsLast`, `DatabasesOutliveChildren`, `GracefulKillsNobody`, `StopsAfterLastLine` hold |
| `shutdown_live` | Does the loop notice the end, and does shutdown end with a module that hangs? | `StopsWhenDone`, `ShutdownEnds` hold |
| `shutdown_drain` | Does a module empty its channels before it stops, as the documentation says? | no: it stops at the first check of its event |
| `discovery` | Is a port scan ever overlooked, or reported again without growth, when flows are announced before they are stored? | `ScansReported`, `EvidenceGrows`, `DhcpEvidenceEveryFour` hold |
| `modules` | Does each of twelve modules keep its promise under failing commands and listings, timers, crashes, late answers and any order of flows? | the properties below hold |
| `lists` | Does an update that fails, is killed or meets the other timers' threads leave a list marked up to date and not loaded? | `FeedTypeOK` and `UpToDateMeansLoaded` hold, but for a list that two threads had in hand at once |
| `feeds` | Are the feeds loaded at the start? | no: `init` raises, and the update before the start raises at its first line |
| `delayed` | Does Flow Alerts run until it is asked to stop? | no: the coroutine `main()` returns stops it |

The properties of `modules`:

| Part | Property | What would go wrong without it |
|---|---|---|
| Blocking | `OneRulePerDirection` | one unblocking would leave a second rule, though every listing worked, and a PLC could be cut off |
| Blocking | `RecordedIsBlocked` | readers of `blocked_ips` would trust a block that failed or is gone |
| FlowCounters | `EachFlowInOneEvidence`, `ThresholdReported` | one attempt would count twice, or a threshold pass in silence |
| FlowEvidence | `FewAnswersPass` | a DNS server outside the network would be let pass without end |
| HttpAnalyzer | `FirstAgentStands` | a later answer would replace the agent that later flows are compared with |
| DelayedChecks | `RecognisedNotReported` | proper TLS or HTTP would be reported after all |
| ThreatIntel | `LoadedListIsExact` | the user's list would be incomplete, or hold what was deleted from it |
| LocalNetwork | `MacTablesAgree` | a MITM accusation would name the wrong host |
| ArpScans | `ScanHasItsRequests` | a scan would be reported with requests of another host |
| OtDetection | `FloodsReported` | a flood of an industrial protocol, or of mode switches of a PLC, would leave a window without evidence |
| P2PTrust | `OpinionsHaveReporters` | a peer could vouch for its own address |
| all | `TypesOK` | |

Deadlock is off except in `discovery`, which goes round for ever: elsewhere the
program ends, or the bounds stop the rest.

### Bounds and why they are enough

- `timewindows`: two writers, `MaxMods` = 3 modifications of two windows of one
  profile, clock up to 3, width 1. Two writers are needed to close one window
  twice, three modifications to re-open a window after it was closed and to
  have one modified during another's closing. A second profile adds no new
  relation: windows are independent keys. One flow is older than the first flow,
  which gives a window number below 1. One Ctrl-C, in the main loop or while
  shutdown closes the windows it listed.
- `evidence`: two modules and four evidence, two that reach the threshold
  together, one whitelisted, one of another profile. `MaxSets` = 4 allows every
  repetition pattern of two modules; `MaxInserts` = 1 row before or after the
  label. One window: evidence and accumulated levels are keyed by window, and
  only the labels, here of one uid shared by all evidence, cross windows.
  `evidence_life` leaves out the row, which no stage depends on, and has one
  repetition less, for the liveness.
- `shutdown`: one detection module (may fail, may hang), one consumer, input,
  profiler and handler; `Timeout` = 2 rounds, one line, one Ctrl-C. One line is
  enough for every order of the two semaphores; with one Ctrl-C all of its
  positions are covered, the second Ctrl-C of a user being the first inside
  `shutdown_gracefully`. `shutdown_live` drops the consumer and the Ctrl-C.
- `discovery`: three flows out of eight, which between them share a host, a
  port, and a host over two protocols, and include a resolved host, a flipped
  flow and pings. `MaxUnread` = 2 messages let the profiler be a whole flow ahead
  of the module, or right beside it. Thresholds are scaled down (evidence from
  one port on, then every second one) so that three flows reach the second
  evidence; DHCP requests go by twos and one may be unread.
- `modules`: a behaviour is that of one module, chosen at the start, and the
  others stay as they began. That loses nothing: the twelve share no state, only
  messages, and every message is taken in any order at any time in each part.
  - *Blocking*: three addresses, the text of one within that of another, one
    protected; two messages, three windows, any command and any listing may fail. Two
    messages block an address twice, or the two whose texts overlap.
  - *ArpPoisoner*: two hosts that may be poisoned, one that may not, two messages, a
    window of two units in four, a scan every one or two, re-poisoning after one. It adds to `TypesOK` only (section 6).
  - *FlowCounters*: two keys, two names, five flows at times 0 or 1 in any order,
    thresholds of two or three, spans of 0, DGA by twos from three on. So every analyzer
    reaches its threshold within four flows, and the fifth is one too many, or goes to
    the other key: two names for ARPA, three logins or attempts for SMTP and SSH, the
    bound of reconnections, and for DGA the report at four.
  - *FlowEvidence*: three flows, nine sets of traits chosen so that each trait
    occurs, with the ones that exclude each other; our own address and another private
    one, either of which may serve DNS, and a public one; two answers detect a server.
  - *DelayedChecks*: one address, start times up to three in any order with a window
    of two, one task asleep; the groups of checks are taken one at a time, since a task
    reads only its own record.
  - *HttpAnalyzer*: two profiles, two agents of one OS and one of another, four
    flows: learn, confirm, contradict, repeat.
  - *ThreatIntel*: two addresses and three domains, one of them resolving to an
    address, two versions of two lists, three starts, one message; the message
    may fall between any two steps of the feeds.
  - *LocalNetwork*: two MACs, two IPv4 and two IPv6 addresses, three calls with each of
    their Redis calls, and a kill between any two: enough for an address to be linked, to
    move to the other MAC, and to be linked there.
  - *OtDetection*: six groups of messages (connections to each protocol, volumes,
    authorized and foreign masters, commands, notices), three messages, two
    windows, clock 0 or 1, thresholds of two within a span of 0: two messages make
    a flood, a tick between them breaks it, and the third falls in the other
    window or after the keys were emptied.
  - *ArpScans*: two profiles, one name within the other, five requests, evidence
    from two; *IpLookups*: one address, domain and URL, one message, one answer
    over the limit, which suffices for two writers on one entry; *P2PTrust*: two
    peers, two addresses, three messages.
- `lists`: `pre_main` and the three timers of the code, symmetric; two feeds, one of
  addresses and a domain in two versions, one of hashes which may fail anywhere; two
  periods, one restart with the first feed alone. Two versions let a feed be outdated,
  current, or overtaken by its server during its update.
- `feeds` and `delayed` have the constant of the contract set to what the code does.
  `feeds` has nothing fail, nothing restart; `delayed` two tasks asleep.

### Fairness

Each process is scheduled by the operating system: weak fairness of the main
process's steps, of each writer's, of each module's, of the handler's and, in
Shutdown, of each child outside `MayHang`. Nothing is assumed of the
environment except, in Timewindows, that the input is finite (`InputDone`):
`OpenWindowsClose` is about runs that end. Nobody has to detect, repeat, press
Ctrl-C, send a stop message or kill. Redis calls are atomic steps, as Redis
executes commands one at a time.

Of the newer modules those with a thread or a sleeping task state weak fairness
of it (`ArpScans`, `DelayedChecks`, `IpLookups`, `ThreatFeeds`, `ThreatIntel`): `feeds` is
refuted although every step that could help is taken. Messages need not come.
`OpenWindowsClose` excepts a run whose shutdown was interrupted while it closed
windows: the code swallows that Ctrl-C and leaves the rest open.

## 5. What is proved

All proofs hold for every value of the constants that satisfies the assumptions
named in the modules; no bound of a run is used. The assumptions are facts of the
code (disjoint process names, a positive width of a window, thresholds and spans
that are numbers, the SMTP threshold of three, `None` not an address), and TLC
evaluates each on the run of its module. Two theorems state one more:
`LoadedListExact` that `MaxVersion` is a number, that `None` is none and that what is
edited is a list, and `StopsWhenProfiled` that the profiler raises no error: one that
fails releases its semaphore with lines unread, and the program stops early.

| Module | Theorem | States of every behaviour |
|---|---|---|
| `TimewindowsProofs` | `TypeCorrect` | `TypeOK` |
| | `WindowsNeverLost` | `NeverLost` |
| | `ShutdownClosesWhatItListed` | `ShutdownClosesAll` |
| | `EveryClosingAnnounced` | `ClosingsAnnounced` |
| | `InternalTimeNeverGoesBack` | `InternalTimeAdvances` |
| | `TimewindowsImplementLife` | `ImplementsLife`: initial states map to initial states, each step to a step or a stutter |
| | `FlowInItsWindow` | the window of a flow contains it, also before the first flow |
| `EvidenceProofs` | `TypeCorrect` | `TypeOK` |
| | `WhitelistedStayDeleted` | `DeletedStaysDeleted` |
| | `AlertedEvidenceIsSafe` | `AlertedEvidenceSafe` |
| | `CounterIsRight` | `CounterMatches` |
| | `TotalThreatAdds` | what the fold of threat levels computes, one evidence at a time |
| | `AccumulatedIsTheSum` | `AccumulatedMatchesEvidence` |
| | `AlertsLabelTheirFlows` | `AlertedRowsLabelled` |
| | `EvidenceImplementsLife` | `ImplementsLife`: initial states map to initial states, each step to a step or a stutter |
| `ShutdownProofs` | `TypeCorrect` | `TypeOK` |
| | `HandlerIsToldLast` | `HandlerStopsLast` |
| | `DatabasesCloseLast` | `DatabasesOutliveChildren` |
| | `GracefulIsTrue` | `GracefulKillsNobody` |
| | `StopsWhenProfiled` | `StopsAfterLastLine` |
| `NetworkDiscoveryProofs` | `TypeCorrect` | `TypeOK` |
| | `EvidenceOnlyGrows` | `EvidenceGrows` |
| | `NoScanOverlooked` | `ScansReported` |
| | `DhcpEvidenceIsExact` | `DhcpEvidenceEveryFour` |
| `BlockingProofs` | `TypeCorrect` | `TypeOK` |
| | `NoSecondRule` | `OneRulePerDirection` |
| | `RecordIsTrue` | `RecordedIsBlocked` |
| `FlowAlertsProofs` | `OneEvidencePerFlow` | `EachFlowInOneEvidence` |
| | `NoThresholdPassedInSilence` | `ThresholdReported` |
| | `FewDnsAnswersPass` | `FewAnswersPass` |
| | `FirstAgentNeverReplaced` | `FirstAgentStands` |
| | `RecognisedNeverReported` | `RecognisedNotReported` |
| | `NoFloodPassedOver` | `FloodsReported` |
| `LocalNetworkProofs` | `TablesNeverPart` | `MacTablesAgree` |
| | `ScansHaveTheirRequests` | `ScanHasItsRequests` |
| `ThreatIntelProofs` | `LoadedListExact` | `LoadedListIsExact` |
| | `OpinionsOfReporters` | `OpinionsHaveReporters` |
| | `FeedTypeCorrect` | `FeedTypeOK` of `ThreatFeeds` |
| | `UpToDateIsLoaded` | `UpToDateMeansLoaded`, with any number of timers |

`BlockingProofs` holds for any listing in which the text of an address occurs in its
own lines (`BlockingAssumption`), whatever fails; `OneRulePerDirection` allows a
second rule for each listing that failed while a rule was there (`unseen`), as the
code does. `UpToDateIsLoaded` has no hypothesis on how updates interleave: what the
property excepts (`clashed`) is defined by what the threads did with the list in question.

The type invariants of `Timewindows` and `NetworkDiscovery` are proved and no run
repeats them.

The inductive invariants, and why they are needed:

- `LostInv` adds to `NeverLost` that a process between SADD and ZREM holds a
  window that is in `ClosedTW`: without it ZREM could remove the last trace.
- `ShutInv` says of the main process at each place of the shutdown that an open
  window is still in its list, or the one it is closing, or was modified since, until
  a Ctrl-C aborts it.
- `NewerLast` says that the time read but not yet stored is 0 or at least the
  internal time; only the main process writes it.
- `LifeInv` follows one evidence through its calls: only its own module sets it,
  and it is announced at most once before it is processed. A module past the
  whitelist check can then never hold an evidence the handler has decided on,
  because the handler decides after the announcement, and a second call of the
  same module starts after the first returned. `AlertInv` builds on it for the
  evidence of alerts, and `CounterMatches` is inductive together with it.
- `ReadyInv` carries what the handler decided over the calls between: an evidence
  about to be counted is not in an alert, and one about to be alerted with is
  exactly the evidence that counts, with the threshold reached. It is what the
  simulation needs beside `LifeInv` and `AlertInv`; steps that touch no evidence
  are covered by one lemma (`Quiet`), and the seven others have a lemma each.
- `WaitInv` (`FirstInv`, `LastInv`, `KillInv`): a process missing from the
  list being joined is dead; `stopped_modules` holds only dead processes; while
  the shutdown is graceful nobody was killed. No child ever comes back, which is
  lemma `ChildKeeps`.
- `ScanInv`: a destination that needs evidence has a message unread, or its
  table is still ahead of the module, or the profiler is between the announcement
  of the destination port and that of the source port. The last case is the
  point: only the second `add_port` of a flow announces what the first stored.
  That evidence over TCP raises the bar for UDP never unsettles a destination is
  lemma `ReportedKeepsSettled`.

- `Working` says that `main()` and the checker, in the middle of an address, have
  one. `Rules` adds to `OneRulePerDirection` that the address `main()` is about to
  insert a rule for has none in that direction, but for those its failed listing did not
  show, and is not protected: only `main()` inserts, and while the checker deletes,
  rules only get fewer (`FewerRules`).
- `MacsInv` adds to `MacTablesAgree` where the profiler is among its calls (`AddingOK`):
  the address it found was in the list of the MAC, and once the list is written, so is
  the new one. Lists of a MAC only grow, and `Link` joins only the two addresses it is
  given (`LinkAddsOnly`), so that two linked profiles share a MAC from the moment the
  list is written, and are excepted (`BeingLinked`) before.
- `IInv` follows the reading of the local list: at each step, what is certain of
  the local entries (`Reading`); the stored hash belongs to the file or an older
  one (`HashIsOld`); and a lookup about to write back found its address in the
  list, or in no list, so that it can bring no deleted entry back (`Found`).
- `AnnounceInv` adds to `ClosingsAnnounced`, which compares numbers, that each
  process in the middle of a closing has a window (`ClosesAWindow`), so that a
  removal moves it into the set of closings in flight and a publication, or a
  kill, out of it, one at a time.
- `DecisionInv`: only a process in the middle of closing has a list, what is on it was
  modified once, and the window in its hands is no longer on it. With `LostInv` it makes
  each Redis call one step of `WindowLife` or none; SADD is none because of `LostInv`
  (`AddIsNothing`).
- `DrainInv`: while nobody pressed Ctrl-C, the semaphores tell the truth
  (`SemaphoresTell`): the input's is released after its last line, the profiler's
  with its queue empty and closed.
- `WeightInv` equates the weight of each window in the abstract life with the sum
  over its evidence still to be alerted. A sum over a set is a fold, which is
  defined by recursion and chooses elements in an order of its own; that it adds
  an evidence whichever was chosen first is `SumsRemove`, by `SubsetInduction`: the
  rule of induction over finite sets stated with a set of good subsets, not with an
  operator, and proved from the smallest bad one.
- `LabelInv`: a row of an alert that is not yet labelled is one the handler has
  still to come to (`ToLabel`): from the moment the alert is recorded it holds the
  evidence that caused it, or the uids left; and the uids of an evidence are stored
  before the evidence is (`FlowsRecorded`).
- `KeptInv`: what an analyzer keeps for a key are flows of that key which no
  evidence is about. For thresholds, four analyzers keep everything until they report
  it (`AllKept`: nothing else is left unreported, and it is short of the threshold, or
  of the next multiple for DGA). The other three each have an invariant of their own:
  ARPA keeps everything too, and looks from the oldest flow it keeps to the new one
  (`ArpaInv`); SMTP forgets the oldest login and has the last two left unreported
  (`SmtpInv`); SSH has at least as many attempts as came in a row without another key
  between (`SshInv`).
- `PassInv`: a flow let pass is a counted reply, and the count is below the number of
  answers, but for the detected server, which has it exactly.
- `HttpInv`: the first agent is in the history and the count is the history's size.
- `LookedBack`: a task asleep found nothing recognised in the window before its
  flow: an earlier entry is older than the window, or was recorded out of order while
  the task slept (`outOfOrder`, which the property excepts). Entries that `Garbage`
  removes only make this weaker.
- `OtInv`: every message within the span is still in the table of its host
  (`SeenInSpan`), and a key that keeps a flood from being reported stands for an
  evidence of that flood, host and window (`KeysHaveEvidence`). Emptying the keys
  keeps both.
- `ScansInv`: the requests cached for a profile are its own and grouped by address,
  a scan in the queue or in the hands of the timer thread has enough of them, and
  merging two scans of one key keeps that (`MergedIsScan`).
- `PeerInv`: reports, addresses, reliability and reputation only grow
  (`GrowingTables`), so that an opinion, once right, stays so; and a report that
  counts has a reporter at another, known address (`CountedReport`).
- `FeedInv` speaks of each feed no two threads had in hand at once (`Clean`). The one
  thread that has it (`InHand`) finds it outdated (its e-tag is forgotten or older than
  the server's) until `MarkUpdated`, and by then the cache has the version it is marked
  with (`AtFeed`, step by step). So a kill or a failed parse leaves nothing that counts as
  up to date. The dictionaries are shared too: while a thread parses a clean feed, no
  other parses one, and they name no other clean feed (`OwnDict`). `NothingNewer` keeps
  it when a server publishes under the update; `Sourced` says that an indicator's sources
  are lists that keep it, so that deleting one feed's entries spares a feed that shares
  none and leaves none of its own. `WhitelistDated` is the same for the whitelist.

The single-setter argument of `LifeInv` rests on `SetterOf`: the id of an
evidence is a uuid4 drawn by the module that builds it
(`modules/flowalerts/set_evidence.py`, `modules/threat_intelligence`), so no
two modules set the same one. The shipped dataclass
`core/structures/evidence.py` declares no `id` field although
`RDB/alert_handler.py` stores every evidence under `evidence.id`; the model
follows the database code, for which each evidence has an id.

## 6. Only model-checked

- `TypesOK`: it includes the bounds of the run. What the proofs need of types is
  part of their invariants (`OtTypes`, `PeerTypes`, `CountTypeOK`, ...).
- Every liveness property: fairness and ENABLED are out of the prover's reach.

`IpLookups` and `ArpPoisoner` have only their type invariants. What one would ask of
them does not hold (section 7): their states serve to see how the writers lose each
other's fields, and how an attack outlives the request it was started for.

## 7. Where the code and its words disagree

With a run:

1. `set_alert` does not label every flow of the alert (`evidence_labels`).
2. A module does not keep looping until its channels are empty
   (`docs/create_new_module.md:548`), and the modules killed last share their
   event with those killed first (`shutdown_drain`).
3. The update manager loads nothing (`feeds`): its `init` asks for `self.bloom_filters`,
   which `IModule` keeps under another name, and raises; the one made before the start
   never has `init` called, so that its first update raises at `self.update_period`,
   although `update_ti_files` says that it stores the files "before smartshield starts".
4. Modules with an asynchronous `main()` stop at their first iteration (`delayed`).

Also seen, in the models but with no run of their own:

- A window "that havent been modified in the last 1h"
  (`RDB/profile_handler.py:1522`) may have been modified between the listing and
  its ZREM.
- `update_max_threat_level` can lower the maximum: it reads and writes in two calls.
- A ping sweep is not reported "every threshold": if the number of hosts goes
  from 4 to 6 between two checks, the next evidence is at 10.
- The documentation of port scans speaks of 6 ports or hosts and of 6 more for
  the next evidence, the code has 5 and 15; and it says that vertical scans from
  a multicast or broadcast source are ignored (`docs/detection_modules.md:809`),
  a check only the horizontal scan makes. A flipped flow adds to the table of
  vertical scans but is not announced by `add_port`: a scan completed by it waits
  for the next message (`ScansReported` excepts it).
- The checker of Blocking deletes the requests it found due after its loop: a
  request registered meanwhile for an address just unblocked goes with them, and
  the address stays blocked. The checker dies when the dictionary grows under it.
  `docs/detection_modules.md:258-261` says that a blocked address stays blocked until
  it is unblocked by hand.
- `iptables -L` runs with its return code unseen (`blocking.py:185-191`): a listing that
  fails shows nothing, so that an address blocked already gets a second rule in each
  direction, and one unblocking leaves it blocked.
- A Ctrl-C while shutdown closes the windows it listed is swallowed
  (`process_manager.py:869`), and the rest stay open.
- An ARP attack may end after the request it was started for: it takes seconds, and
  the time is checked before it.
- The detected DNS server "is not alerted on", says the comment at `dns.py:595-606`.
  It is: `dns.py:648-650` returns in the first round of its loop, which looks at
  the source address only.
- The clean-up of recognised flows keeps what its docstring says it removes
  (`ssl.py:400-407`): the last five minutes go, the older entries stay.
- An address whose text occurs in a listed one counts as blocked and is not.
- `check_pending_flows_timeout` (`flowalerts/dns.py:331`) and two more calls make
  a coroutine and drop it: a DNS flow whose 30 minutes are over is not checked.
- A first reading of a local list that is killed half-way leaves entries and no
  hash. If the list is edited before the next start, nothing is deleted, because
  deletion needs a stored hash (`LoadedListIsExact` says so).
- A domain that is only below a listed one is looked up in a trie whose `search`
  returns a truth value where a pair is unpacked: the lookup raises and the
  module stops. URLhaus's answer without payloads leaves `threat_level` unbound.
- A lookup writes its address back as an indicator after the search, also when
  the update manager has just dropped it.
- The address a MAC "had" is the first or last of `list(set(...))`: the IPv4 and
  IPv6 links go to an arbitrary one of several.
- Two modules that look up one address lose each other's fields: each writes the
  whole entry back (`RDB/alert_handler.py:458`). VirusTotal's queue skips an
  address whose answer came with no quota, and leaves zeros as its scores.
- The OT module compares a protected device with a host as text, so an entry that
  is a network protects nothing there, while Blocking reads the same file and
  understands networks. What it writes to `ot_protected_ips` in Redis has no reader.
- The update manager starts three timers that run the same update
  (`update_manager.py:1777-1779`) on dictionaries they share, two with equal default
  periods, and no lock between them. A thread that found a feed changed before
  another marked it deletes the entries again; if its parser then fails, the feed stays
  marked as up to date and is empty. `UpToDateMeansLoaded` excepts the lists that two
  threads had in hand at once (`clashed`), and without that exception `lists` fails.
- The ARP poisoner stops with a `KeyError` when a request is extended that has
  no start time.

## 8. Not modelled, and why

- SIGTERM, whose handler runs `shutdown_gracefully` inside whatever it
  interrupted and returns there: what follows depends on closed database
  clients. `-S` in daemon mode (`kill_daemon_children`). What happens to
  children after an aborted shutdown belongs to Python's `multiprocessing`.
- Which evidence is disabled in the configuration (the constant `Evidence` holds
  the enabled), and the confidence, text and victims of an evidence.
- Spamhaus, which is never asked, and the check of connections without DNS, which
  raises for every flow it would judge (section 1).
- ICMP types other than echo, which the module treats alike, and
  `check_icmp_sweep`, which turns one Zeek notice into one evidence.
- The deletion of the whole chain when Blocking ends, packets of the ARP poisoner
  beyond who is told about whom, circl.lu with its own queue, JARM probes, the
  organisations' files, DHCP and host names of a profile.
- Redis losing a message to a subscriber that is too slow, and Redis failing;
  `get_message`'s count of who processed a flow.
- Redis servers and ports, the daemon: calls of the operating system around one
  text file. Fides and Iris: numerical aggregation over, and a wrapper of, a
  program outside the repository. The
  machine-learning detectors are numerical. Parsers, exporters, the web
  interface and the printer are I/O and formatting.
