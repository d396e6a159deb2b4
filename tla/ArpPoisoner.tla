---------------------------- MODULE ArpPoisoner ----------------------------
(***************************************************************************)
(* The ARP poisoner: one thread that re-poisons every attacker it has a    *)
(* request for, takes a new attacker from new_blocking and counts requests *)
(* down when a time window closes.  An attack asks for a MAC, scans and    *)
(* sends for seconds after the check that allows it.  Time is counted in   *)
(* units of 10 s.                                                          *)
(***************************************************************************)
EXTENDS Absent, Naturals, FiniteSets

CONSTANTS
    Hosts,
    Poisonable,        \* private, in the local network, not broadcast nor gateway
    RepoisonAfter,     \* 30 s
    ScanMin, ScanMax,  \* _scan_delay runs from 30 s to 120 s
    Width,             \* units in a time window
    Networks,          \* what arp-scan may find
    MaxUnits,          \* bound: units of time that pass
    MaxPoisonings      \* bound: new_blocking messages

ASSUME PoisonAssumption == Width \in Nat \ {0} /\ RepoisonAfter \in Nat

VARIABLES
    time,
    running,         \* an exception in main() makes IModule.run stop the module
    poisonRequests,  \* unblocking requests: until, left, start_of_poison_ts known
    poisoned,        \* _time_since_last_repoison
    attacked,        \* addresses the network was told about
    scanDelay, lastScan, found, \* arp-scan: delay, last time, cached output
    lastClosed,      \* last_closed_tw
    poisonMsgs,
    at,              \* where main() is: "begin", "loop", "new_blocking", "attack", "tw_closed"
    toVisit,         \* requests the loop has not come to
    over,            \* ips_to_stop_poisoning
    target           \* the address under attack

scanVars == <<scanDelay, lastScan, found>>
poisonerVars == <<at, toVisit, over, target>>
avars == <<time, running, poisonRequests, poisoned, attacked, scanVars, lastClosed, poisonMsgs, poisonerVars>>

WindowAt(t) == 1 + t \div Width
NoRequests == [a \in {} |-> 0]

PoisonInit ==
    /\ time = RepoisonAfter /\ running = TRUE
    /\ poisonRequests = NoRequests
    /\ poisoned = [a \in Hosts |-> 0] /\ attacked = {}
    /\ scanDelay = ScanMin /\ lastScan = 0 /\ found = {}
    /\ lastClosed = 0 /\ poisonMsgs = 0
    /\ at = "begin" /\ toVisit = {} /\ over = {} /\ target = None

\* _arp_scan: the cached hosts, or those of a new scan, which resets the delay
\* when something changed and lengthens it by 10 s when nothing did.  A failed
\* scan returns the cached hosts.
ArpScan(now, hosts) ==
    IF now - lastScan < scanDelay THEN UNCHANGED <<scanDelay, lastScan, found>>
    ELSE
    /\ lastScan' = now
    /\ \/ UNCHANGED <<scanDelay, found>>
       \/ /\ found' = hosts
          /\ scanDelay' = IF hosts # found \/ hosts = {} THEN ScanMin
                          ELSE IF scanDelay + 1 < ScanMax THEN scanDelay + 1 ELSE ScanMax

\* _cut_targets_internet: the target is told of a fake gateway, the gateway of a
\* fake target.
CutInternet(a) == attacked' = attacked \cup {a}

\* _isolate_target_from_localnet: the scanned hosts are told of the fake target.
Isolate == \E hosts \in Networks : ArpScan(time, hosts)

\* _attack on an address ends: its MAC and interface were found, or it returned.
Attack(a) == (CutInternet(a) /\ Isolate) \/ UNCHANGED <<attacked, scanVars>>

\* _is_time_to_repoison
TimeToRepoison(a) == poisoned[a] = 0 \/ time - poisoned[a] >= RepoisonAfter

\* check_if_time_to_unblock
PoisonDue(a) == poisonRequests[a].until < WindowAt(time)

\* main() begins with keep_attackers_poisoned.
KeepAttackersPoisoned ==
    /\ running /\ at = "begin" /\ at' = "loop" /\ toVisit' = DOMAIN poisonRequests
    /\ UNCHANGED <<time, running, poisonRequests, poisoned, attacked, scanVars, lastClosed, poisonMsgs,
                   over, target>>

\* One address of its loop: nothing within 30 s, let go when due, or else an
\* attack begins.  A due request without its start time raises KeyError in
\* check_if_time_to_unblock and ends the module.
Repoison(a) ==
    /\ running /\ a \in toVisit /\ target = None
    /\ toVisit' = toVisit \ {a}
    /\ \/ ~TimeToRepoison(a) /\ UNCHANGED <<poisoned, over, target, running>>
       \/ /\ TimeToRepoison(a) /\ PoisonDue(a) /\ poisoned' = [poisoned EXCEPT ![a] = time]
          /\ over' = over \cup {a} /\ running' = poisonRequests[a].started /\ UNCHANGED target
       \/ /\ TimeToRepoison(a) /\ ~PoisonDue(a) /\ poisoned' = [poisoned EXCEPT ![a] = time]
          /\ target' = a /\ UNCHANGED <<over, running>>
    /\ UNCHANGED <<time, poisonRequests, attacked, scanVars, lastClosed, poisonMsgs, at>>
RepoisonEnds ==
    /\ at = "loop" /\ target # None /\ Attack(target) /\ target' = None
    /\ UNCHANGED <<time, running, poisonRequests, poisoned, lastClosed, poisonMsgs, at, toVisit, over>>

\* After the loop the requests that are over are deleted.
LoopEnds ==
    /\ running /\ at = "loop" /\ toVisit = {} /\ target = None
    /\ at' = "new_blocking" /\ over' = {}
    /\ poisonRequests' = [a \in DOMAIN poisonRequests \ over |-> poisonRequests[a]]
    /\ UNCHANGED <<time, running, poisoned, attacked, scanVars, lastClosed, poisonMsgs, toVisit, target>>

\* can_poison_ip
CanPoison(a) == a \in Poisonable

\* _add_req replaces what was there, so that the start of the poisoning, which
\* only the first request has, is lost when a request is extended.
AddPoisonReq(a, k, started) ==
    poisonRequests' = [b \in DOMAIN poisonRequests \cup {a} |->
                   IF b = a THEN [until |-> WindowAt(time) + k, left |-> k, started |-> started]
                   ELSE poisonRequests[b]]

\* unblock_request: one window, or one more.
UnblockPoisoned(a) ==
    IF a \in DOMAIN poisonRequests THEN AddPoisonReq(a, poisonRequests[a].left + 1, FALSE) ELSE AddPoisonReq(a, 1, TRUE)

\* main() on new_blocking: an attack comes before the request; an address that
\* cannot be poisoned ends main().
PoisonNewBlocking(a) ==
    /\ at = "new_blocking" /\ poisonMsgs < MaxPoisonings /\ poisonMsgs' = poisonMsgs + 1
    /\ \/ CanPoison(a) /\ at' = "attack" /\ target' = a
       \/ ~CanPoison(a) /\ at' = "begin" /\ UNCHANGED target
    /\ UNCHANGED <<time, running, poisonRequests, poisoned, attacked, scanVars, lastClosed, toVisit, over>>
FirstAttackEnds ==
    /\ at = "attack" /\ at' = "tw_closed" /\ Attack(target) /\ UnblockPoisoned(target) /\ target' = None
    /\ UNCHANGED <<time, running, poisoned, lastClosed, poisonMsgs, toVisit, over>>

\* main() on tw_closed: update_requests, unless the same window closed last.
PoisonTwClosed(w) ==
    /\ at = "tw_closed" /\ at' = "begin" /\ w <= WindowAt(time) /\ w # lastClosed
    /\ lastClosed' = w
    /\ poisonRequests' = [a \in {b \in DOMAIN poisonRequests : poisonRequests[b].left > 0} |->
                       [poisonRequests[a] EXCEPT !.left = @ - 1]]
    /\ UNCHANGED <<time, running, poisoned, attacked, scanVars, poisonMsgs, toVisit, over, target>>

\* No message in a channel
NoPoisonMessage ==
    /\ \/ at = "new_blocking" /\ at' = "tw_closed"
       \/ at = "tw_closed" /\ at' = "begin"
    /\ UNCHANGED <<time, running, poisonRequests, poisoned, attacked, scanVars, lastClosed, poisonMsgs,
                   toVisit, over, target>>

PoisonTick == time < MaxUnits /\ time' = time + 1
        /\ UNCHANGED <<running, poisonRequests, poisoned, attacked, scanVars, lastClosed, poisonMsgs, poisonerVars>>

PoisonNext ==
    \/ KeepAttackersPoisoned \/ RepoisonEnds \/ LoopEnds \/ FirstAttackEnds \/ NoPoisonMessage
    \/ \E a \in Hosts : Repoison(a) \/ PoisonNewBlocking(a)
    \/ \E w \in 1..WindowAt(MaxUnits) : PoisonTwClosed(w)
    \/ PoisonTick

PoisonSpec == PoisonInit /\ [][PoisonNext]_avars

-----------------------------------------------------------------------------
\* The types; and an address is let go, or attacked, only while main() is where
\* it may be.
PoisonTypeOK ==
    /\ time \in Nat /\ lastScan \in Nat /\ lastClosed \in Nat /\ poisonMsgs \in 0..MaxPoisonings
    /\ running \in BOOLEAN
    /\ DOMAIN poisonRequests \subseteq Hosts
    /\ \A a \in DOMAIN poisonRequests : poisonRequests[a] \in [until : Nat, left : Nat, started : BOOLEAN]
    /\ poisoned \in [Hosts -> Nat] /\ attacked \subseteq Poisonable
    /\ scanDelay \in ScanMin..ScanMax
    /\ found \in Networks \cup {{}}
    /\ at \in {"begin", "loop", "new_blocking", "attack", "tw_closed"}
    /\ toVisit \subseteq DOMAIN poisonRequests /\ over \subseteq DOMAIN poisonRequests \ toVisit
    /\ target \in Poisonable \cup {None}
    /\ toVisit \cup over # {} => at = "loop"
=============================================================================
