------------------------------ MODULE Evidence ------------------------------
(***************************************************************************)
(* From a detection to an alert                                            *)
(* (core/database/redis_db/alert_handler.py, database_manager.py and       *)
(* sqlite_db/database.py).                                                 *)
(*                                                                         *)
(* Detection modules, each a process, call set_evidence.  The evidence     *)
(* handler, another process, hears of each evidence on the evidence_added  *)
(* channel, deletes it when it is whitelisted, and otherwise accumulates   *)
(* its threat level until the threshold of the time window is reached and  *)
(* an alert is set.  The profiler writes flows in the SQLite tables whose  *)
(* labels the alert changes.  The handler's own file is not in the         *)
(* repository: its actions come from the database calls made for it, its   *)
(* tests and docs/features.md, and are marked (external).                  *)
(*                                                                         *)
(* Everything is about one attacker profile.                               *)
(***************************************************************************)
EXTENDS Naturals, Integers, Sequences, FiniteSets, FiniteSetsExt

CONSTANTS
    Evidence,     \* ids of the evidence whose detection is enabled
    Setters,      \* detection modules
    Handler,      \* the evidence handler
    None,         \* no evidence, no row
    Windows,      \* time windows of the profile
    Uids,         \* uids of flows
    SetterOf,     \* the module that sets each evidence
    WindowOf,     \* the time window of each evidence
    UidsOf,       \* the flows that caused each evidence
    Threat,       \* threat level * confidence of each evidence, scaled
    Level,        \* threat level of each evidence, 1 (info) to Critical
    Critical,     \* the highest threat level
    Whitelist,    \* evidence the whitelist matches
    ByOthers,     \* evidence whose attacker is not the profile (direction DST)
    Threshold,    \* accumulated threat level that raises an alert
    MaxSets,      \* bound: set_evidence calls
    MaxInserts    \* bound: rows the profiler writes

ASSUME SettersAssumption ==
    /\ IsFiniteSet(Setters)
    /\ Handler \notin Setters
    /\ SetterOf \in [Evidence -> Setters]
ASSUME EvidenceAssumption ==
    /\ None \notin Evidence
    /\ IsFiniteSet(Evidence)
    /\ WindowOf \in [Evidence -> Windows]
    /\ UidsOf \in [Evidence -> SUBSET Uids]
    /\ Threat \in [Evidence -> Nat]
    /\ Level \in [Evidence -> 1..Critical]
    /\ Whitelist \subseteq Evidence
    /\ ByOthers \subseteq Evidence
ASSUME BoundsAssumption ==
    /\ Critical \in Nat \ {0}
    /\ Threshold \in Nat \ {0}
    /\ MaxSets \in Nat
    /\ MaxInserts \in Nat

Procs == Setters \cup {Handler}
Tables == {"flows", "altflows"}

VARIABLES
    stored,       \* {profile}_{tw}_evidence: ids in the hashes
    number,       \* number_of_evidence
    flowsOf,      \* flows_causing_evidence: ids with their uids recorded
    queue,        \* the handler's evidence_added subscription
    processed,    \* processed_evidence
    whitelisted,  \* whitelisted_evidence
    accum,        \* accumulated_threat_levels
    alerts,       \* "alerts" of each window: the evidence of each alert
    maxLevel,     \* max_threat_level of the profile, 0 when unset
    label,        \* label of each row of the two SQLite tables, or None
    pc,           \* where each process is
    cur,          \* the evidence each process works on
    oldMax,       \* old_max_threat_level, local to update_max_threat_level
    causing,      \* evidence_causing_the_alert, local to set_alert
    uidsLeft,     \* <<table, uid>> updates left, local to set_flow_label
    calls,        \* set_evidence calls so far
    inserts,      \* rows written so far
    killed,       \* setters killed
    late          \* history: rows inserted once an alert on their uid was set

redis == <<stored, number, flowsOf, queue, processed, whitelisted, accum,
           alerts, maxLevel>>
sqlite == <<label, late>>
locals == <<pc, cur, oldMax, causing, uidsLeft>>
bounds == <<calls, inserts, killed>>
vars == <<stored, number, flowsOf, queue, processed, whitelisted, accum,
          alerts, maxLevel, label, pc, cur, oldMax, causing, uidsLeft,
          calls, inserts, killed, late>>

SetterPcs == {"idle", "flows", "exists", "whitelist", "store", "count",
              "publish", "read_max", "write_max"}
HandlerPcs == {"idle", "mark", "decide", "delete", "uncount", "accumulate",
               "check", "set_alert", "reset", "read_max", "write_max",
               "get_uids", "label"}

ProgressOK ==
    /\ pc \in [Procs -> SetterPcs \cup HandlerPcs]
    /\ \A s \in Setters : pc[s] \in SetterPcs
    /\ pc[Handler] \in HandlerPcs
    /\ cur \in [Procs -> Evidence \cup {None}]
    /\ \A p \in Procs : (cur[p] = None) <=> (pc[p] = "idle")

TypeOK ==
    /\ stored \subseteq Evidence
    /\ number \in Int
    /\ flowsOf \subseteq Evidence
    /\ queue \in Seq(Evidence)
    /\ processed \subseteq Evidence
    /\ whitelisted \subseteq Evidence
    /\ accum \in [Windows -> Nat]
    /\ alerts \in [Windows -> Seq(SUBSET Evidence)]
    /\ maxLevel \in 0..Critical
    /\ label \in [Tables \X Uids -> {None, "benign", "malicious"}]
    /\ ProgressOK
    /\ oldMax \in [Procs -> 0..Critical]
    /\ causing \subseteq Evidence
    /\ uidsLeft \subseteq Tables \X Uids
    /\ calls \in 0..MaxSets
    /\ inserts \in 0..MaxInserts
    /\ killed \subseteq Setters
    /\ late \subseteq Tables \X Uids

Init ==
    /\ stored = {}
    /\ number = 0
    /\ flowsOf = {}
    /\ queue = <<>>
    /\ processed = {}
    /\ whitelisted = {}
    /\ accum = [w \in Windows |-> 0]
    /\ alerts = [w \in Windows |-> <<>>]
    /\ maxLevel = 0
    /\ label = [row \in Tables \X Uids |-> None]
    /\ pc = [p \in Procs |-> "idle"]
    /\ cur = [p \in Procs |-> None]
    /\ oldMax = [p \in Procs |-> 0]
    /\ causing = {}
    /\ uidsLeft = {}
    /\ calls = 0
    /\ inserts = 0
    /\ killed = {}
    /\ late = {}

Goto(p, place) == pc' = [pc EXCEPT ![p] = place]

(* Process p is done with its evidence. *)
Return(p) ==
    /\ Goto(p, "idle")
    /\ cur' = [cur EXCEPT ![p] = None]

-----------------------------------------------------------------------------
(***************************************************************************)
(* set_evidence, in a detection module.                                    *)
(***************************************************************************)
At(s, place) == s \notin killed /\ pc[s] = place

SetEvidence(e) ==
    /\ At(SetterOf[e], "idle")
    /\ calls < MaxSets
    /\ calls' = calls + 1
    /\ cur' = [cur EXCEPT ![SetterOf[e]] = e]
    /\ Goto(SetterOf[e], "flows")
    /\ UNCHANGED <<redis, sqlite, oldMax, causing, uidsLeft, inserts, killed>>

(* Mutant: the uids are not recorded before the evidence is announced.     *)
MutForgetFlows(s) ==
    /\ At(s, "flows")
    /\ Goto(s, "exists")
    /\ UNCHANGED <<redis, sqlite, cur, oldMax, causing, uidsLeft, bounds>>

SetFlowCausingEvidence(s) ==
    /\ At(s, "flows")
    /\ flowsOf' = flowsOf \cup {cur[s]}
    /\ Goto(s, "exists")
    /\ UNCHANGED <<stored, number, queue, processed, whitelisted, accum,
                   alerts, maxLevel, sqlite, cur, oldMax, causing, uidsLeft, bounds>>

(* "This is done to ignore repetition." *)
(* Mutant: a repetition is not noticed.                                    *)
MutIgnoreRepetition(s) ==
    /\ At(s, "exists")
    /\ Goto(s, "whitelist")
    /\ UNCHANGED <<redis, sqlite, cur, oldMax, causing, uidsLeft, bounds>>

EvidenceExists(s) ==
    /\ At(s, "exists")
    /\ \/ cur[s] \in stored /\ Return(s)
       \/ cur[s] \notin stored /\ Goto(s, "whitelist") /\ UNCHANGED cur
    /\ UNCHANGED <<redis, sqlite, oldMax, causing, uidsLeft, bounds>>

(* Mutant: set_evidence does not look at whitelisted_evidence.             *)
MutIgnoreWhitelisted(s) ==
    /\ At(s, "whitelist")
    /\ Goto(s, "store")
    /\ UNCHANGED <<redis, sqlite, cur, oldMax, causing, uidsLeft, bounds>>

IsWhitelistedEvidence(s) ==
    /\ At(s, "whitelist")
    /\ \/ cur[s] \in whitelisted /\ Return(s)
       \/ cur[s] \notin whitelisted /\ Goto(s, "store") /\ UNCHANGED cur
    /\ UNCHANGED <<redis, sqlite, oldMax, causing, uidsLeft, bounds>>

StoreEvidence(s) ==
    /\ At(s, "store")
    /\ stored' = stored \cup {cur[s]}
    /\ Goto(s, "count")
    /\ UNCHANGED <<number, flowsOf, queue, processed, whitelisted, accum,
                   alerts, maxLevel, sqlite, cur, oldMax, causing, uidsLeft, bounds>>

CountEvidence(s) ==
    /\ At(s, "count")
    /\ number' = number + 1
    /\ Goto(s, "publish")
    /\ UNCHANGED <<stored, flowsOf, queue, processed, whitelisted, accum,
                   alerts, maxLevel, sqlite, cur, oldMax, causing, uidsLeft, bounds>>

(* Mutant: an evidence set while another waits is not announced.           *)
MutPublishWhenEmpty(s) ==
    /\ At(s, "publish")
    /\ queue' = IF queue = <<>> THEN <<cur[s]>> ELSE queue
    /\ Goto(s, "read_max")
    /\ UNCHANGED <<stored, number, flowsOf, processed, whitelisted, accum,
                   alerts, maxLevel, sqlite, cur, oldMax, causing, uidsLeft, bounds>>

PublishEvidence(s) ==
    /\ At(s, "publish")
    /\ queue' = Append(queue, cur[s])
    /\ Goto(s, "read_max")
    /\ UNCHANGED <<stored, number, flowsOf, processed, whitelisted, accum,
                   alerts, maxLevel, sqlite, cur, oldMax, causing, uidsLeft, bounds>>

(***************************************************************************)
(* update_max_threat_level: a read and, when the new level is higher or    *)
(* the first one, a write.  The handler calls it with "critical".          *)
(***************************************************************************)
LevelOf(p) ==
    IF p = Handler THEN Critical
    ELSE IF cur[p] \in ByOthers THEN 0  \* the level of another profile
    ELSE Level[cur[p]]

ReadMaxLevel(p) ==
    /\ pc[p] = "read_max"
    /\ p \notin killed
    /\ oldMax' = [oldMax EXCEPT ![p] = maxLevel]
    /\ Goto(p, "write_max")
    /\ UNCHANGED <<redis, sqlite, cur, causing, uidsLeft, bounds>>

(* Mutant: the levels are added up.                                        *)
MutAddLevels(p) ==
    /\ pc[p] = "write_max"
    /\ p \notin killed
    /\ maxLevel' = oldMax[p] + LevelOf(p)
    /\ oldMax' = [oldMax EXCEPT ![p] = 0]
    /\ \/ p = Handler /\ Goto(p, "get_uids") /\ UNCHANGED cur
       \/ p # Handler /\ Return(p)
    /\ UNCHANGED <<stored, number, flowsOf, queue, processed, whitelisted,
                   accum, alerts, sqlite, causing, uidsLeft, bounds>>

WriteMaxLevel(p) ==
    /\ pc[p] = "write_max"
    /\ p \notin killed
    /\ maxLevel' = IF oldMax[p] < LevelOf(p) THEN LevelOf(p) ELSE maxLevel
    /\ oldMax' = [oldMax EXCEPT ![p] = 0]
    /\ \/ p = Handler /\ Goto(p, "get_uids") /\ UNCHANGED cur
       \/ p # Handler /\ Return(p)
    /\ UNCHANGED <<stored, number, flowsOf, queue, processed, whitelisted,
                   accum, alerts, sqlite, causing, uidsLeft, bounds>>

(* kill_process_tree, wherever the module is. *)
KillSetter(s) ==
    /\ s \notin killed
    /\ killed' = killed \cup {s}
    /\ UNCHANGED <<redis, sqlite, locals, calls, inserts>>

-----------------------------------------------------------------------------
(***************************************************************************)
(* The evidence handler (external), one evidence at a time.                *)
(***************************************************************************)
ReceiveEvidence ==
    /\ pc[Handler] = "idle"
    /\ queue # <<>>
    /\ queue' = Tail(queue)
    /\ cur' = [cur EXCEPT ![Handler] = Head(queue)]
    /\ Goto(Handler, "mark")
    /\ UNCHANGED <<stored, number, flowsOf, processed, whitelisted, accum,
                   alerts, maxLevel, sqlite, oldMax, causing, uidsLeft, bounds>>

MarkEvidenceAsProcessed ==
    /\ pc[Handler] = "mark"
    /\ processed' = processed \cup {cur[Handler]}
    /\ Goto(Handler, "decide")
    /\ UNCHANGED <<stored, number, flowsOf, queue, whitelisted, accum,
                   alerts, maxLevel, sqlite, cur, oldMax, causing, uidsLeft, bounds>>

InPastAlert(e) == \E i \in DOMAIN alerts[WindowOf[e]] : e \in alerts[WindowOf[e]][i]
IsFiltered(e) == InPastAlert(e) \/ e \in ByOthers
AlertedUids == UNION {UidsOf[e] : e \in {f \in processed : InPastAlert(f)}}

(* Whitelisted evidence is remembered, then deleted; filtered evidence     *)
(* leaves the accumulated threat level as it is.                           *)
Decide ==
    /\ pc[Handler] = "decide"
    /\ LET e == cur[Handler] IN
       \/ /\ e \in Whitelist
          /\ whitelisted' = whitelisted \cup {e}
          /\ Goto(Handler, "delete")
       \/ /\ e \notin Whitelist
          /\ whitelisted' = whitelisted
          /\ Goto(Handler, IF IsFiltered(e) THEN "check" ELSE "accumulate")
    /\ UNCHANGED <<stored, number, flowsOf, queue, processed, accum,
                   alerts, maxLevel, sqlite, cur, oldMax, causing, uidsLeft, bounds>>

DeleteEvidence ==
    /\ pc[Handler] = "delete"
    /\ stored' = stored \ {cur[Handler]}
    /\ Goto(Handler, "uncount")
    /\ UNCHANGED <<number, flowsOf, queue, processed, whitelisted, accum,
                   alerts, maxLevel, sqlite, cur, oldMax, causing, uidsLeft, bounds>>

UncountEvidence ==
    /\ pc[Handler] = "uncount"
    /\ number' = number - 1
    /\ Return(Handler)
    /\ UNCHANGED <<stored, flowsOf, queue, processed, whitelisted, accum,
                   alerts, maxLevel, sqlite, oldMax, causing, uidsLeft, bounds>>

Accumulate ==
    /\ pc[Handler] = "accumulate"
    /\ LET e == cur[Handler] IN accum' = [accum EXCEPT ![WindowOf[e]] = @ + Threat[e]]
    /\ Goto(Handler, "check")
    /\ UNCHANGED <<stored, number, flowsOf, queue, processed, whitelisted,
                   alerts, maxLevel, sqlite, cur, oldMax, causing, uidsLeft, bounds>>

(* Mutants: one whitelisted evidence hides those after it; every evidence  *)
(* in the database counts as processed.                                    *)
MutStopAtWhitelisted(w) ==
    {e \in stored : WindowOf[e] = w /\ whitelisted = {}}
MutEverythingProcessed(e) == e \in stored

(* get_twid_evidence, and what the handler keeps of it.                    *)
TwidEvidence(w) == {e \in stored : WindowOf[e] = w /\ e \notin whitelisted}
IsEvidenceProcessed(e) == e \in processed
AlertEvidence(w) ==
    {e \in TwidEvidence(w) : IsEvidenceProcessed(e) /\ ~IsFiltered(e)}

CheckThreshold ==
    /\ pc[Handler] = "check"
    /\ LET w == WindowOf[cur[Handler]] IN
       \/ /\ accum[w] >= Threshold
          /\ AlertEvidence(w) # {}
          /\ causing' = AlertEvidence(w)
          /\ Goto(Handler, "set_alert")
          /\ cur' = cur
       \/ /\ accum[w] < Threshold \/ AlertEvidence(w) = {}
          /\ Return(Handler)
          /\ causing' = causing
    /\ UNCHANGED <<redis, sqlite, oldMax, uidsLeft, bounds>>

(***************************************************************************)
(* set_alert: the alert and its evidence, the reset of the accumulated     *)
(* threat level, the threat level of the profile, the labels of the flows. *)
(***************************************************************************)
SetEvidenceCausingAlert ==
    /\ pc[Handler] = "set_alert"
    /\ alerts' = [alerts EXCEPT ![WindowOf[cur[Handler]]] = Append(@, causing)]
    /\ Goto(Handler, "reset")
    /\ UNCHANGED <<stored, number, flowsOf, queue, processed, whitelisted,
                   accum, maxLevel, sqlite, cur, oldMax, causing, uidsLeft, bounds>>

(* Mutant: set_alert forgets to reset the accumulated threat level.        *)
MutKeepAccumulated ==
    /\ pc[Handler] = "reset"
    /\ Goto(Handler, "read_max")
    /\ UNCHANGED <<redis, sqlite, cur, oldMax, causing, uidsLeft, bounds>>

ResetAccumulated ==
    /\ pc[Handler] = "reset"
    /\ accum' = [accum EXCEPT ![WindowOf[cur[Handler]]] = 0]
    /\ Goto(Handler, "read_max")
    /\ UNCHANGED <<stored, number, flowsOf, queue, processed, whitelisted,
                   alerts, maxLevel, sqlite, cur, oldMax, causing, uidsLeft, bounds>>

FlowsCausing(e) == IF e \in flowsOf THEN UidsOf[e] ELSE {}

GetFlowsCausingEvidence ==
    /\ pc[Handler] = "get_uids"
    /\ uidsLeft' = Tables \X UNION {FlowsCausing(e) : e \in causing}
    /\ causing' = {}
    /\ Goto(Handler, "label")
    /\ UNCHANGED <<redis, sqlite, cur, oldMax, bounds>>

(* UPDATE ... SET label WHERE uid: nothing happens when there is no row.   *)
SetFlowLabel ==
    /\ pc[Handler] = "label"
    /\ \/ /\ uidsLeft = {}
          /\ Return(Handler)
          /\ UNCHANGED <<uidsLeft, label>>
       \/ \E row \in uidsLeft :
            /\ label' = [label EXCEPT ![row] = IF @ = None THEN None ELSE "malicious"]
            /\ uidsLeft' = uidsLeft \ {row}
            /\ UNCHANGED <<pc, cur>>
    /\ UNCHANGED <<redis, late, oldMax, causing, bounds>>

-----------------------------------------------------------------------------
(* add_flow and add_altflow, in the profiler: INSERT OR REPLACE.           *)
AddRow(row) ==
    /\ inserts < MaxInserts
    /\ label' = [label EXCEPT ![row] = "benign"]
    /\ late' = IF row[2] \in AlertedUids THEN late \cup {row} ELSE late
    /\ inserts' = inserts + 1
    /\ UNCHANGED <<redis, locals, calls, killed>>

SetterStep(s) ==
    \/ SetFlowCausingEvidence(s)
    \/ EvidenceExists(s)
    \/ IsWhitelistedEvidence(s)
    \/ StoreEvidence(s)
    \/ CountEvidence(s)
    \/ PublishEvidence(s)
    \/ ReadMaxLevel(s)
    \/ WriteMaxLevel(s)

HandlerStep ==
    \/ ReceiveEvidence
    \/ MarkEvidenceAsProcessed
    \/ Decide
    \/ DeleteEvidence
    \/ UncountEvidence
    \/ Accumulate
    \/ CheckThreshold
    \/ SetEvidenceCausingAlert
    \/ ResetAccumulated
    \/ ReadMaxLevel(Handler)
    \/ WriteMaxLevel(Handler)
    \/ GetFlowsCausingEvidence
    \/ SetFlowLabel

Next ==
    \/ \E e \in Evidence : SetEvidence(e)
    \/ \E s \in Setters : SetterStep(s) \/ KillSetter(s)
    \/ HandlerStep
    \/ \E row \in Tables \X Uids : AddRow(row)

(* Processes are scheduled; nobody has to detect or to kill anything.      *)
Fairness ==
    /\ WF_vars(HandlerStep)
    /\ \A s \in Setters : WF_vars(SetterStep(s))

Spec == Init /\ [][Next]_vars /\ Fairness

-----------------------------------------------------------------------------
(***************************************************************************)
(* Properties                                                              *)
(***************************************************************************)

(* An evidence remembered as whitelisted is being deleted, or gone for     *)
(* good: set_evidence called again never puts a deleted evidence back.     *)
DeletedStaysDeleted ==
    \A e \in whitelisted \cap stored : pc[Handler] = "delete" /\ cur[Handler] = e

(* number_of_evidence is the number of evidence stored, but for the        *)
(* modules (killed ones too) between HSET and INCR and the handler between *)
(* HDEL and DECR.                                                          *)
Uncounted == {s \in Setters : pc[s] = "count"}
CounterMatches ==
    number = Cardinality(stored) - Cardinality(Uncounted)
             + (IF pc[Handler] = "uncount" THEN 1 ELSE 0)

(* The evidence of an alert reached the handler, is not whitelisted, is    *)
(* never deleted ("any evidence passed to this function can never be a     *)
(* part of a past alert") and belongs to no other alert.                   *)
AlertedEvidenceSafe ==
    \A w \in Windows : \A i \in DOMAIN alerts[w] :
      /\ alerts[w][i] # {}
      /\ alerts[w][i] \subseteq (stored \cap processed) \ whitelisted
      /\ \A j \in DOMAIN alerts[w] : i # j => alerts[w][i] \cap alerts[w][j] = {}

(* Between two evidence, the accumulated threat level of a window is what  *)
(* its evidence weighs since its last alert: nothing is counted twice,     *)
(* forgotten, or carried over an alert.                                    *)
Pending(w) ==
    {e \in processed \ Whitelist : WindowOf[e] = w /\ ~IsFiltered(e)}
AccumulatedMatchesEvidence ==
    pc[Handler] = "idle" =>
      \A w \in Windows : accum[w] = MapThenSumSet(LAMBDA e : Threat[e], Pending(w))

(* Once set_alert returned, the rows of the flows that caused an alert are *)
(* labelled malicious, but for those the profiler wrote after it: no flow  *)
(* is missed because its uid was recorded too late.                        *)
AlertedRows == {row \in Tables \X Uids : row[2] \in AlertedUids}
AlertedRowsLabelled ==
    pc[Handler] = "idle" =>
      \A row \in AlertedRows \ late : label[row] \in {None, "malicious"}

(* What the docstring of set_alert says ("labels each flow that was        *)
(* responsible for this alert as malicious") of every row, however late    *)
(* the profiler writes or replaces it.                                     *)
AlertedRowsStayLabelled ==
    pc[Handler] = "idle" => \A row \in AlertedRows : label[row] \in {None, "malicious"}

(***************************************************************************)
(* The abstract specification: what the processes do to an evidence, as    *)
(* one step each.  An evidence counts once the handler accumulated it; an  *)
(* alert happens when its evidence is recorded, and its reset with it.     *)
(***************************************************************************)
Undecided(e) == cur[Handler] = e /\ pc[Handler] \in {"decide", "accumulate"}

LifeOf(e) ==
    IF e \in whitelisted THEN "dropped"
    ELSE IF InPastAlert(e) THEN "alerted"
    ELSE IF e \in processed
         THEN IF e \in Whitelist \cup ByOthers \/ Undecided(e) THEN "heard" ELSE "counted"
    ELSE IF e \in stored THEN "stored" ELSE "unknown"

WeightOf(w) ==
    IF pc[Handler] = "reset" /\ WindowOf[cur[Handler]] = w THEN 0 ELSE accum[w]

LifeMap == [e \in Evidence |-> LifeOf(e)]
WeightMap == [w \in Windows |-> WeightOf(w)]
Life == INSTANCE EvidenceLife WITH life <- LifeMap, weight <- WeightMap

(* Whatever the interleaving of modules, handler and kills, every evidence *)
(* lives the life EvidenceLife promises: an alert takes all and only the   *)
(* evidence counted since the last alert of its window, at the threshold.  *)
ImplementsLife == Life!Spec

(* A stored evidence reaches the handler, unless its module was killed     *)
(* before it announced it.                                                 *)
EvidenceGetsProcessed ==
    \A e \in Evidence :
      (e \in stored) ~> (e \in processed \/ SetterOf[e] \in killed)

(* A window whose accumulated threat level reaches the threshold gets an   *)
(* alert, which resets it.                                                 *)
ThresholdRaisesAlert ==
    \A w \in Windows : (accum[w] >= Threshold) ~> (accum[w] = 0)
=============================================================================
