---------------------------- MODULE HttpAnalyzer ----------------------------
(***************************************************************************)
(* The HTTP analyzer's view of user agents: the first user agent of a      *)
(* profile, with the OS and browser an online service or Zeek gave for it, *)
(* the list of all of them, and the evidence main() sets for an HTTP flow. *)
(***************************************************************************)
EXTENDS Absent, Naturals, FiniteSets, Sequences

CONSTANTS
    Profiles,
    Agents,          \* user agents; None is the empty one
    OSOf(_),         \* OS of a user agent, as the online service tells
    Safari(_),       \* the online service calls its browser Safari
    ServerBag(_),    \* the agent names its OS itself (Zeek's server-bag)
    Mentions(_, _),  \* the agent's text has the name of the OS in it
    Vendor(_),       \* MAC vendor of a profile; None if not known
    FamiliesIn(_),   \* makers one of whose keywords is in the text of a vendor or an OS
    Hints,           \* what else a flow may have
    MaxHttpFlows     \* bound

VARIABLES
    first,  \* "first user-agent": [agent, os, safari], or None
    past,   \* past_user_agents
    count,  \* user_agents_count
    last,   \* evidence of the last flow: [kind, profile, agent]
    httpFlows

hvars == <<first, past, count, last, httpFlows>>

HttpInit ==
    /\ first = [p \in Profiles |-> None] /\ past = [p \in Profiles |-> {}]
    /\ count = [p \in Profiles |-> 0] /\ last = {} /\ httpFlows = 0

-----------------------------------------------------------------------------
(* The evidence of a flow by itself.                                       *)

Filed(kind, p) == {[kind |-> kind, profile |-> p]}
Traffic(p) == Filed("http_traffic", p)
SuspiciousAgent(p, hints) ==
    IF "suspicious_agent" \in hints THEN Filed("suspicious_user_agent", p) ELSE {}
\* filed for both ends of the flow
Executable(p, hints) ==
    IF "executable" \in hints
    THEN Filed("executable_mime_type", p) \cup Filed("executable_mime_type", "daddr") ELSE {}
PastebinDownload(p, hints) ==
    IF {"from_pastebin", "large_body", "get"} \subseteq hints
    THEN Filed("pastebin_download", p) ELSE {}

-----------------------------------------------------------------------------
(* The user agents of a profile.                                           *)

\* check_multiple_user_agents_in_a_row: against the first agent of the profile.
\* An OS that is not known ("") is in every text.
SeveralAgents(p, agent) ==
    /\ first[p] # None /\ agent # None
    /\ first[p].os # None /\ ~Mentions(agent, first[p].os)

\* get_user_agent_info: the agent joins the history; the first one is kept with
\* what the online service says, if it answers.
GetsInfo(p, agent) ==
    /\ agent # None
    /\ first[p] = None \/ (first[p].agent # agent /\ ~ServerBag(agent))
AddPast(p, agent) ==
    IF GetsInfo(p, agent) /\ agent \notin past[p]
    THEN /\ past' = [past EXCEPT ![p] = @ \cup {agent}]
         /\ count' = [count EXCEPT ![p] = @ + 1]
    ELSE UNCHANGED <<past, count>>

\* get_ua_info_online: nothing of OS and browser when the service does not answer.
OnlineInfo(agent, online) ==
    [agent |-> agent, os |-> IF online THEN OSOf(agent) ELSE None,
     safari |-> online /\ Safari(agent)]
FirstAgent(p, agent, online) ==
    IF first[p] # None \/ agent = None THEN first[p] ELSE OnlineInfo(agent, online)

\* Mutant: the server-bag agent replaces the one that is known.
MutFromServerBag(p, agent, known) ==
    IF agent # None /\ ServerBag(agent)
    THEN [agent |-> agent, os |-> OSOf(agent), safari |-> FALSE] ELSE known

\* extract_info_from_ua comes after it, when the profile has its first agent.
FromServerBag(p, agent, known) ==
    IF known = None /\ agent # None /\ ServerBag(agent)
    THEN [agent |-> agent, os |-> OSOf(agent), safari |-> FALSE] ELSE known

\* check_incompatible_user_agent: Safari on another maker's device, or an OS of
\* another maker than the first one found in the MAC vendor's text.
Makers == <<"apple", "microsoft", "google">>
Incompatible(p, ua) ==
    LET makers == {i \in DOMAIN Makers : Makers[i] \in FamiliesIn(Vendor(p))} IN
    /\ Vendor(p) # None /\ ua # None
    /\ \/ ua.safari /\ "apple" \notin FamiliesIn(Vendor(p))
       \/ \E i \in makers : /\ \A j \in makers : i <= j
                           /\ \E k \in DOMAIN Makers \ {i} : Makers[k] \in FamiliesIn(ua.os)

NewHttp(p, agent, hints, online) ==
    LET ua == FromServerBag(p, agent, FirstAgent(p, agent, online))
        multiple == IF SeveralAgents(p, agent) THEN Filed("multiple_user_agent", p) ELSE {}
        bad == IF Incompatible(p, ua) THEN Filed("incompatible_user_agent", p) ELSE {} IN
    /\ httpFlows < MaxHttpFlows /\ httpFlows' = httpFlows + 1
    /\ first' = [first EXCEPT ![p] = ua]
    /\ AddPast(p, agent)
    /\ last' = SuspiciousAgent(p, hints) \cup multiple \cup Executable(p, hints) \cup bad
               \cup PastebinDownload(p, hints) \cup Traffic(p)

HttpNext ==
    \E p \in Profiles, agent \in Agents, hints \in SUBSET Hints, online \in BOOLEAN :
        NewHttp(p, agent, hints, online)

HttpSpec == HttpInit /\ [][HttpNext]_hvars

-----------------------------------------------------------------------------
HttpTypeOK ==
    /\ first \in [Profiles -> {None} \cup [agent : Agents, os : {OSOf(a) : a \in Agents} \cup {None},
                                   safari : BOOLEAN]]
    /\ past \in [Profiles -> SUBSET Agents] /\ count \in [Profiles -> Nat] /\ httpFlows \in 0..MaxHttpFlows

\* The first user agent of a profile is never replaced (two functions store it,
\* and the later agents are judged by it), it is the oldest of the history, and
\* the history counts each agent once.
FirstAgentKept ==
    \A p \in Profiles :
        /\ first[p] # None => first'[p] = first[p]
        /\ first'[p] # None => first'[p].agent \in past'[p]
        /\ count'[p] = Cardinality(past'[p])
FirstAgentStands == [][FirstAgentKept]_hvars
=============================================================================
