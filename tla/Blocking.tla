------------------------------ MODULE Blocking ------------------------------
(***************************************************************************)
(* The firewall of SmartShield: main() of the Blocking module inserts a    *)
(* rule for each direction of an attacker's traffic and books a request to *)
(* unblock it; a helper thread of the same module removes the rules of due *)
(* requests.  The two share the dictionary of requests, the thread reading *)
(* it without the lock.  Time is counted in time windows.                  *)
(*                                                                         *)
(* As the files are, pre_main() cannot make the Unblocker: IUnblocker has  *)
(* abstract methods it lacks and an __init__ that takes no database, and   *)
(* _get_tw_to_unblock_at is nowhere defined.  The module is taken with     *)
(* them: a request ends with the window k after that of its message, and   *)
(* the thread that utils.start_thread is given runs.                       *)
(***************************************************************************)
EXTENDS Absent, Naturals, FiniteSets

CONSTANTS
    IPs,
    Protected,     \* addresses of config/ot_protected_devices.conf
    TextIn(_, _),  \* TextIn(a, b): the text of a occurs in a listing of b
    OnInterface,   \* private addresses whose messages name an interface
    Leftover,      \* addresses whose rules an earlier run left in the chain
    MayFail,       \* an iptables command may fail
    MaxTime,       \* bound: windows that pass
    MaxMsgs        \* bound: new_blocking messages

ASSUME BlockingAssumption ==
    /\ Protected \subseteq IPs /\ OnInterface \subseteq IPs /\ Leftover \subseteq IPs
    /\ Leftover \cap Protected = {}
    /\ MayFail \in BOOLEAN
    /\ MaxTime \in Nat /\ MaxMsgs \in Nat
    /\ None \notin IPs
    /\ \A a \in IPs : TextIn(a, a)

VARIABLES
    now,         \* the current time window
    closed,      \* last_closed_tw
    rules,       \* number of rules of each address and direction, -s and -d
    blocked,     \* blocked_ips in Redis
    requests,    \* unblocking requests: window to unblock at, windows left
    pc, ip, tw,  \* main(): where it is, the message it handles
    msgs,        \* messages received
    checker,     \* the helper thread: idle, at a command, dead
    todo,        \* requests the thread still visits in this round
    cur,         \* the request it works on
    due,         \* requests_to_del
    grown,       \* the dictionary it iterates over got a new key / was replaced
    unseen       \* history: listings that failed when an address was looked for

mainVars == <<pc, ip, tw, msgs>>
checkerVars == <<checker, todo, cur, due, grown>>
bvars == <<now, closed, rules, blocked, requests, mainVars, checkerVars, unseen>>

Directions == {"-s", "-d"}
Request == [until : Nat, left : Nat]

\* _is_ot_protected
IsOtProtected(a) == a \in Protected

\* Mutant: only the second rule of an address is looked for.
MutListed(a, ok) == ok /\ \E b \in IPs : TextIn(a, b) /\ rules[b]["-d"] > 0

\* _is_ip_already_blocked searches the listing of the chain for the text.  Nobody
\* looks at the command's return code: a listing that failed shows no rule.
Listed(a, ok) == ok /\ \E b \in IPs, d \in Directions : TextIn(a, b) /\ rules[b][d] > 0

Init ==
    /\ now = 1 /\ closed = 0
    /\ rules = [a \in IPs |-> [d \in Directions |-> IF a \in Leftover THEN 1 ELSE 0]]
    /\ blocked = {} /\ requests = [a \in {} |-> 0]
    /\ pc = "idle" /\ ip = None /\ tw = 0 /\ msgs = 0
    /\ checker = "idle" /\ todo = {} /\ cur = None /\ due = {} /\ grown = "no"
    /\ unseen = [a \in IPs |-> 0]

-----------------------------------------------------------------------------
(* main() on new_blocking *)

\* _block_ip stops before any command for a protected or a listed address;
\* main() books the request all the same.
NewBlocking(a) ==
    /\ pc = "idle" /\ msgs < MaxMsgs
    /\ msgs' = msgs + 1 /\ ip' = a /\ tw' = now
    /\ IF IsOtProtected(a) THEN pc' = "request" /\ UNCHANGED unseen
       ELSE \E ok \in BOOLEAN :
              /\ ok \/ MayFail
              /\ pc' = IF Listed(a, ok) THEN "request" ELSE "-s"
              /\ unseen' = IF ok THEN unseen ELSE [unseen EXCEPT ![a] = @ + 1]
    /\ UNCHANGED <<now, closed, rules, blocked, requests, checkerVars>>

\* exec_iptables_command: insert one rule, TRUE when the command exits with 0.
Insert(a, d, ok) ==
    /\ ok \/ MayFail
    /\ rules' = IF ok THEN [rules EXCEPT ![a][d] = @ + 1] ELSE rules

BlockFrom ==
    /\ pc = "-s"
    /\ \E ok \in BOOLEAN : Insert(ip, "-s", ok)
    /\ pc' = "-d"
    /\ UNCHANGED <<now, closed, blocked, requests, ip, tw, msgs, checkerVars, unseen>>

BlockTo ==
    /\ pc = "-d"
    /\ \E ok \in BOOLEAN :
          /\ Insert(ip, "-d", ok)
          /\ blocked' = IF ok THEN blocked \cup {ip} ELSE blocked
    /\ pc' = "request"
    /\ UNCHANGED <<now, closed, requests, ip, tw, msgs, checkerVars, unseen>>

\* _add_req, for k windows from the one of the message.
AddReq(k) ==
    requests' = [a \in DOMAIN requests \cup {ip} |->
                   IF a = ip THEN [until |-> tw + k, left |-> k] ELSE requests[a]]

\* unblock_request extends a request by one window, or makes one.  A new key
\* grows the dictionary the checker may be iterating over.
UnblockRequest ==
    /\ pc = "request"
    /\ AddReq(IF ip \in DOMAIN requests THEN requests[ip].left + 1 ELSE 1)
    /\ grown' = IF ip \notin DOMAIN requests /\ checker # "idle" /\ grown = "no"
                THEN "grown" ELSE grown
    /\ pc' = "idle" /\ ip' = None
    /\ UNCHANGED <<now, closed, rules, blocked, tw, msgs, checker, todo, cur, due, unseen>>

(* main() on tw_closed: update_requests counts the requests down, drops    *)
(* those at 0 and puts a new dictionary in place of the one it read.       *)
TwClosed(w) ==
    /\ pc = "idle" /\ w <= now /\ w # closed
    /\ closed' = w
    /\ requests' = [a \in {b \in DOMAIN requests : requests[b].left > 0} |->
                      [requests[a] EXCEPT !.left = @ - 1]]
    /\ grown' = IF grown = "no" THEN "replaced" ELSE grown
    /\ UNCHANGED <<now, rules, blocked, pc, ip, tw, msgs, checker, todo, cur, due, unseen>>

-----------------------------------------------------------------------------
(* The checker thread, check_if_time_to_unblock *)

StartRound ==
    /\ checker = "idle"
    /\ checker' = "next" /\ todo' = DOMAIN requests
    /\ cur' = None /\ due' = {} /\ grown' = "no"
    /\ UNCHANGED <<now, closed, rules, blocked, requests, mainVars, unseen>>

\* The next item of the iteration: a dictionary that grew raises RuntimeError.
\* After update_requests the thread goes on over the old dictionary, with the
\* window each request had there: due or not, whatever the new one says.
NextItem ==
    /\ checker = "next"
    /\ \/ /\ grown = "grown"
          /\ checker' = "dead"
          /\ UNCHANGED <<todo, cur, requests, due>>
       \/ /\ grown # "grown" /\ todo # {}
          /\ \E a \in todo, isDue \in BOOLEAN :
                /\ grown = "no" => isDue = (requests[a].until < now)
                /\ todo' = todo \ {a}
                /\ IF isDue THEN cur' = a /\ checker' = "-s"
                   ELSE UNCHANGED <<cur, checker>>
          /\ UNCHANGED <<requests, due>>
       \/ /\ grown # "grown" /\ todo = {}
          /\ requests' = [a \in DOMAIN requests \ due |-> requests[a]]
          /\ checker' = "idle" /\ cur' = None /\ due' = {}
          /\ UNCHANGED todo
    /\ UNCHANGED <<now, closed, rules, blocked, mainVars, grown, unseen>>

\* _unblock names neither the interface nor, therefore, a rule made with one:
\* the command then matches no rule and fails.
Delete(a, d, ok) ==
    /\ ok \/ MayFail \/ rules[a][d] = 0 \/ a \in OnInterface
    /\ ok => rules[a][d] > 0 /\ a \notin OnInterface
    /\ rules' = IF ok THEN [rules EXCEPT ![a][d] = @ - 1] ELSE rules

UnblockFrom ==
    /\ checker = "-s"
    /\ \E ok \in BOOLEAN : Delete(cur, "-s", ok)
    /\ checker' = "-d"
    /\ UNCHANGED <<now, closed, blocked, requests, mainVars, todo, cur, due, grown, unseen>>

\* Mutant: the record of a block that failed is kept, as if the result of the
\* first command were taken.
MutUnblockTo ==
    /\ checker = "-d"
    /\ \E ok \in BOOLEAN :
          /\ Delete(cur, "-d", ok)
          /\ checker' = "next"
    /\ UNCHANGED <<now, closed, blocked, requests, mainVars, todo, cur, due, grown, unseen>>

\* Only the result of the last command counts.  _log_successful_unblock reads
\* when the address was blocked; without a record it raises.
UnblockTo ==
    /\ checker = "-d"
    /\ \E ok \in BOOLEAN :
          /\ Delete(cur, "-d", ok)
          /\ checker' = IF ~ok THEN "next" ELSE IF cur \in blocked THEN "record" ELSE "dead"
    /\ UNCHANGED <<now, closed, blocked, requests, mainVars, todo, cur, due, grown, unseen>>

DelBlockedIP ==
    /\ checker = "record"
    /\ blocked' = blocked \ {cur} /\ due' = due \cup {cur}
    /\ checker' = "next"
    /\ UNCHANGED <<now, closed, rules, requests, mainVars, todo, cur, grown, unseen>>

Tick == now < MaxTime /\ now' = now + 1 /\ UNCHANGED <<closed, rules, blocked, requests, mainVars, checkerVars, unseen>>

Check == StartRound \/ NextItem \/ UnblockFrom \/ UnblockTo \/ DelBlockedIP
Main == BlockFrom \/ BlockTo \/ UnblockRequest

Next ==
    \/ \E a \in IPs : NewBlocking(a)
    \/ Main
    \/ \E w \in 1..MaxTime : TwClosed(w)
    \/ Check
    \/ Tick

Spec == Init /\ [][Next]_bvars

-----------------------------------------------------------------------------
TypeOK ==
    /\ now \in Nat /\ closed \in Nat
    /\ rules \in [IPs -> [Directions -> Nat]]
    /\ blocked \subseteq IPs
    /\ DOMAIN requests \subseteq IPs /\ \A a \in DOMAIN requests : requests[a] \in Request
    /\ pc \in {"idle", "-s", "-d", "request"} /\ ip \in IPs \cup {None}
    /\ tw \in Nat /\ msgs \in 0..MaxMsgs
    /\ checker \in {"idle", "next", "-s", "-d", "record", "dead"}
    /\ todo \subseteq IPs /\ due \subseteq IPs /\ cur \in IPs \cup {None}
    /\ grown \in {"no", "grown", "replaced"}
    /\ unseen \in [IPs -> Nat]

\* However main(), the checker and failing commands interleave, a second rule of
\* an address in one direction costs a listing that failed when the address was
\* looked for, one each; no text found in another's line, half-finished block or
\* half-finished unblocking makes one, and a protected address has none
\* (_is_ip_already_blocked, _is_ot_protected).  So when the listings worked one
\* unblocking frees the address.
OneRulePerDirection ==
    \A a \in IPs, d \in Directions :
        rules[a][d] <= (IF a \in Protected THEN 0 ELSE 1 + unseen[a])

\* What Redis records as blocked has its rule in the chain, but for the address
\* whose rule the checker has just deleted: whoever reads blocked_ips while the
\* two threads work is not told of an address that goes free.
RecordedIsBlocked ==
    \A a \in blocked : rules[a]["-d"] > 0 \/ (checker = "record" /\ cur = a)
=============================================================================
