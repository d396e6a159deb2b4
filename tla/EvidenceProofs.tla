--------------------------- MODULE EvidenceProofs ---------------------------
(***************************************************************************)
(* Proofs about Evidence: type correctness, that a deleted evidence stays  *)
(* deleted, that the evidence of an alert is never deleted and belongs to  *)
(* one alert, that number_of_evidence counts the stored evidence, that     *)
(* Evidence implements EvidenceLife, and from that, that the accumulated   *)
(* threat level is the sum of what it stands for; then the labels of the   *)
(* flows behind an alert.                                                  *)
(***************************************************************************)
EXTENDS Evidence, FiniteSetTheorems, WellFoundedInduction, TLAPS

USE DEF Procs

(* Where a process goes, and what it works on, when it goes on with its    *)
(* evidence, takes a new one, or is done.                                  *)
LEMMA Works ==
  ASSUME ProgressOK, NEW p \in Procs, NEW place,
         place \in IF p = Handler THEN HandlerPcs ELSE SetterPcs,
         place # "idle", pc[p] # "idle", Goto(p, place), cur' = cur
  PROVE  ProgressOK'
  BY SettersAssumption DEF ProgressOK, Goto

LEMMA Starts ==
  ASSUME ProgressOK, NEW p \in Procs, NEW place, NEW e \in Evidence,
         place \in IF p = Handler THEN HandlerPcs ELSE SetterPcs,
         place # "idle", Goto(p, place), cur' = [cur EXCEPT ![p] = e]
  PROVE  ProgressOK'
  BY SettersAssumption, EvidenceAssumption DEF ProgressOK, Goto

LEMMA Returns ==
  ASSUME ProgressOK, NEW p \in Procs, Return(p)
  PROVE  ProgressOK'
  BY SettersAssumption, EvidenceAssumption DEF ProgressOK, Goto, Return, SetterPcs, HandlerPcs

LEMMA TypeInit == Init => TypeOK
  BY SettersAssumption, BoundsAssumption, EvidenceAssumption
     DEF Init, TypeOK, ProgressOK, SetterPcs, HandlerPcs

LEMMA TypeStep == TypeOK /\ [Next]_vars => TypeOK'
  <1> SUFFICES ASSUME TypeOK, [Next]_vars PROVE TypeOK'
    OBVIOUS
  <1> USE SettersAssumption, EvidenceAssumption, BoundsAssumption
      DEF TypeOK, At, redis, sqlite, locals, bounds
  <1>1. ASSUME NEW e \in Evidence, SetEvidence(e) PROVE TypeOK'
    <2> DEFINE s == SetterOf[e]
    <2>2. s \in Procs /\ s # Handler
      OBVIOUS
    <2>3. Goto(s, "flows") /\ cur' = [cur EXCEPT ![s] = e]
      BY <1>1 DEF SetEvidence
    <2> HIDE DEF s
    <2>1. ProgressOK'
      BY <2>2, <2>3, Starts DEF SetterPcs
    <2> QED BY <1>1, <2>1 DEF SetEvidence, ProgressOK
  <1>2. ASSUME NEW s \in Setters, SetFlowCausingEvidence(s) PROVE TypeOK'
    <2>1. ProgressOK'
      BY <1>2, Works DEF SetFlowCausingEvidence, SetterPcs, HandlerPcs
    <2> QED BY <1>2, <2>1 DEF SetFlowCausingEvidence, ProgressOK
  <1>3. ASSUME NEW s \in Setters, EvidenceExists(s) PROVE TypeOK'
    <2>1. ProgressOK'
      BY <1>3, Works, Returns DEF EvidenceExists, SetterPcs, HandlerPcs
    <2> QED BY <1>3, <2>1 DEF EvidenceExists, ProgressOK
  <1>4. ASSUME NEW s \in Setters, IsWhitelistedEvidence(s) PROVE TypeOK'
    <2>1. ProgressOK'
      BY <1>4, Works, Returns DEF IsWhitelistedEvidence, SetterPcs, HandlerPcs
    <2> QED BY <1>4, <2>1 DEF IsWhitelistedEvidence, ProgressOK
  <1>5. ASSUME NEW s \in Setters, StoreEvidence(s) PROVE TypeOK'
    <2>1. ProgressOK'
      BY <1>5, Works DEF StoreEvidence, SetterPcs, HandlerPcs
    <2> QED BY <1>5, <2>1 DEF StoreEvidence, ProgressOK
  <1>6. ASSUME NEW s \in Setters, CountEvidence(s) PROVE TypeOK'
    <2>1. ProgressOK'
      BY <1>6, Works DEF CountEvidence, SetterPcs, HandlerPcs
    <2> QED BY <1>6, <2>1 DEF CountEvidence, ProgressOK
  <1>7. ASSUME NEW s \in Setters, PublishEvidence(s) PROVE TypeOK'
    <2>1. ProgressOK'
      BY <1>7, Works DEF PublishEvidence, SetterPcs, HandlerPcs
    <2> QED BY SMTT(30), <1>7, <2>1 DEF PublishEvidence, ProgressOK
  <1>8. ASSUME NEW p \in Procs, ReadMaxLevel(p) PROVE TypeOK'
    <2>1. ProgressOK'
      BY <1>8, Works DEF ReadMaxLevel, SetterPcs, HandlerPcs
    <2> QED BY <1>8, <2>1 DEF ReadMaxLevel, ProgressOK
  <1>9. ASSUME NEW p \in Procs, WriteMaxLevel(p) PROVE TypeOK'
    <2>1. ProgressOK'
      BY <1>9, Works, Returns DEF WriteMaxLevel, SetterPcs, HandlerPcs
    <2>2. cur[p] \in Evidence
      BY <1>9 DEF WriteMaxLevel, ProgressOK
    <2>3. LevelOf(p) \in 0..Critical
      BY <2>2 DEF LevelOf
    <2>4. maxLevel' \in 0..Critical /\ oldMax' \in [Procs -> 0..Critical]
      BY <1>9, <2>3 DEF WriteMaxLevel
    <2> QED BY <1>9, <2>1, <2>4 DEF WriteMaxLevel
  <1>10. ASSUME NEW s \in Setters, KillSetter(s) PROVE TypeOK'
    <2>1. ProgressOK'
      BY <1>10 DEF KillSetter, ProgressOK
    <2> QED BY <1>10, <2>1 DEF KillSetter, ProgressOK
  <1>11. CASE ReceiveEvidence
    <2>2. Head(queue) \in Evidence /\ Tail(queue) \in Seq(Evidence)
      BY <1>11 DEF ReceiveEvidence
    <2>1. ProgressOK'
      BY <1>11, <2>2, Starts DEF ReceiveEvidence, HandlerPcs
    <2> QED BY <1>11, <2>1, <2>2 DEF ReceiveEvidence
  <1>12. CASE MarkEvidenceAsProcessed
    <2>1. ProgressOK'
      BY <1>12, Works DEF MarkEvidenceAsProcessed, SetterPcs, HandlerPcs
    <2> QED BY <1>12, <2>1 DEF MarkEvidenceAsProcessed, ProgressOK
  <1>13. CASE Decide
    <2>1. ProgressOK'
      BY <1>13, Works DEF Decide, SetterPcs, HandlerPcs
    <2> QED BY <1>13, <2>1 DEF Decide, ProgressOK
  <1>14. CASE DeleteEvidence
    <2>1. ProgressOK'
      BY <1>14, Works DEF DeleteEvidence, SetterPcs, HandlerPcs
    <2> QED BY <1>14, <2>1 DEF DeleteEvidence, ProgressOK
  <1>15. CASE UncountEvidence
    <2>1. ProgressOK'
      BY <1>15, Returns DEF UncountEvidence, SetterPcs, HandlerPcs
    <2>2. number' \in Int
      BY <1>15 DEF UncountEvidence
    <2> QED BY <1>15, <2>1, <2>2 DEF UncountEvidence
  <1>16. CASE Accumulate
    <2>1. ProgressOK'
      BY <1>16, Works DEF Accumulate, SetterPcs, HandlerPcs
    <2> QED BY SMTT(30), <1>16, <2>1 DEF Accumulate, ProgressOK
  <1>17. CASE CheckThreshold
    <2>1. ProgressOK'
      BY <1>17, Works, Returns DEF CheckThreshold, SetterPcs, HandlerPcs
    <2> QED BY <1>17, <2>1 DEF CheckThreshold, ProgressOK, AlertEvidence, TwidEvidence
  <1>18. CASE SetEvidenceCausingAlert
    <2>1. ProgressOK'
      BY <1>18, Works DEF SetEvidenceCausingAlert, SetterPcs, HandlerPcs
    <2>2. \A w \in Windows : Append(alerts[w], causing) \in Seq(SUBSET Evidence)
      OBVIOUS
    <2>3. alerts' \in [Windows -> Seq(SUBSET Evidence)]
      BY <1>18, <2>2 DEF SetEvidenceCausingAlert
    <2> QED BY <1>18, <2>1, <2>3 DEF SetEvidenceCausingAlert
  <1>19. CASE ResetAccumulated
    <2>1. ProgressOK'
      BY <1>19, Works DEF ResetAccumulated, SetterPcs, HandlerPcs
    <2> QED BY <1>19, <2>1 DEF ResetAccumulated, ProgressOK
  <1>20. CASE GetFlowsCausingEvidence
    <2>1. ProgressOK'
      BY <1>20, Works DEF GetFlowsCausingEvidence, SetterPcs, HandlerPcs
    <2> QED BY SMTT(30), <1>20, <2>1 DEF GetFlowsCausingEvidence, ProgressOK, FlowsCausing
  <1>21. CASE SetFlowLabel
    <2>1. ProgressOK'
      <3>1. CASE Return(Handler)
        BY <3>1, Returns
      <3>2. CASE UNCHANGED <<pc, cur>>
        BY <3>2 DEF ProgressOK
      <3> QED BY <1>21, <3>1, <3>2 DEF SetFlowLabel
    <2> QED BY <1>21, <2>1 DEF SetFlowLabel, ProgressOK
  <1>22. ASSUME NEW row \in Tables \X Uids, AddRow(row) PROVE TypeOK'
    <2>1. ProgressOK'
      BY <1>22 DEF AddRow, ProgressOK
    <2> QED BY <1>22, <2>1 DEF AddRow, ProgressOK
  <1>23. CASE UNCHANGED vars
    BY <1>23 DEF vars, ProgressOK
  <1> QED
    BY <1>1, <1>2, <1>3, <1>4, <1>5, <1>6, <1>7, <1>8, <1>9, <1>10, <1>11, <1>12, <1>13, <1>14, <1>15, <1>16, <1>17, <1>18, <1>19, <1>20, <1>21, <1>22, <1>23 DEF Next, SetterStep, HandlerStep

(* Every variable of the model keeps its type.                             *)
THEOREM TypeCorrect == Spec => []TypeOK
  BY TypeInit, TypeStep, PTL DEF Spec

-----------------------------------------------------------------------------
(***************************************************************************)
(* The life of an evidence: its module stores it before it announces it,   *)
(* the handler hears of it once, and what it hears of is stored until it   *)
(* is remembered as whitelisted.                                           *)
(***************************************************************************)
InQueue(e) == \E i \in 1..Len(queue) : queue[i] = e
Announced(e) == InQueue(e) \/ e = cur[Handler] \/ e \in processed

SetterInv ==
  \A s \in Setters : pc[s] # "idle" =>
    /\ SetterOf[cur[s]] = s
    /\ pc[s] \in {"whitelist", "store"} => cur[s] \notin stored
    /\ pc[s] \in {"count", "publish"} => cur[s] \in stored
    /\ pc[s] \in {"store", "count", "publish"} =>
         ~Announced(cur[s]) /\ cur[s] \notin whitelisted

QueueInv ==
  /\ \A i \in 1..Len(queue) : queue[i] \notin processed /\ queue[i] # cur[Handler]
  /\ \A i, j \in 1..Len(queue) : queue[i] = queue[j] => i = j
  /\ pc[Handler] = "mark" => cur[Handler] \notin processed
  /\ pc[Handler] \notin {"idle", "mark"} => cur[Handler] \in processed

WhitelistInv ==
  /\ whitelisted \subseteq processed \cap Whitelist
  /\ \A e \in (processed \cap Whitelist) \ whitelisted :
       pc[Handler] = "decide" /\ cur[Handler] = e
  /\ pc[Handler] = "decide" => cur[Handler] \notin whitelisted
  /\ pc[Handler] = "delete" => cur[Handler] \in whitelisted \cap stored

AnnouncedKept ==
  \A e \in Evidence : Announced(e) => e \in stored \/ e \in whitelisted

LifeInv ==
  SetterInv /\ QueueInv /\ WhitelistInv /\ AnnouncedKept /\ DeletedStaysDeleted

AlertInv ==
  /\ AlertedEvidenceSafe
  /\ \A w \in Windows : \A i \in DOMAIN alerts[w] : alerts[w][i] \cap Whitelist = {}
  /\ pc[Handler] = "set_alert" =>
       /\ causing # {}
       /\ causing \subseteq (stored \cap processed) \ (whitelisted \cup Whitelist)
       /\ LET w == WindowOf[cur[Handler]] IN
            \A i \in DOMAIN alerts[w] : causing \cap alerts[w][i] = {}

(* Being done with an evidence disturbs neither part of the invariant.     *)
LEMMA ReturnKeeps ==
  ASSUME TypeOK, SetterInv, QueueInv, NEW p \in Procs, Return(p),
         UNCHANGED <<stored, queue, processed, whitelisted>>
  PROVE  SetterInv' /\ QueueInv'
  <1> USE SettersAssumption, EvidenceAssumption DEF TypeOK, ProgressOK
  <1>1. pc' = [pc EXCEPT ![p] = "idle"] /\ cur' = [cur EXCEPT ![p] = None]
    BY DEF Return, Goto
  <1>2. ASSUME NEW i \in 1..Len(queue) PROVE queue[i] # None
    <2>1. queue \in Seq(Evidence)
      OBVIOUS
    <2> HIDE DEF TypeOK, ProgressOK
    <2>2. queue[i] \in Evidence
      BY <2>1
    <2> QED BY <2>2
  <1>3. QueueInv'
    BY <1>1, <1>2 DEF QueueInv
  <1>4. \A s \in Setters : pc'[s] # "idle" => pc'[s] = pc[s] /\ cur'[s] = cur[s] /\ cur[s] # None
    BY <1>1
  <1>5. ASSUME NEW e \in Evidence, Announced(e)' PROVE Announced(e)
    BY <1>1, <1>5 DEF Announced, InQueue
  <1>6. SetterInv'
    BY SMTT(30), <1>4, <1>5 DEF SetterInv
  <1> QED BY <1>3, <1>6

LEMMA LifeInit == Init => LifeInv
  BY SettersAssumption, EvidenceAssumption
     DEF Init, LifeInv, SetterInv, QueueInv, WhitelistInv, AnnouncedKept, Announced,
         InQueue, DeletedStaysDeleted

LEMMA LifeStep == TypeOK /\ LifeInv /\ [Next]_vars => LifeInv'
  <1> SUFFICES ASSUME TypeOK, LifeInv, [Next]_vars PROVE LifeInv'
    OBVIOUS
  <1> USE SettersAssumption, EvidenceAssumption
      DEF TypeOK, ProgressOK, LifeInv, At, Goto, Return, redis, sqlite, locals, bounds,
          Announced
  <1>1. ASSUME NEW e \in Evidence, SetEvidence(e) PROVE LifeInv'
    <2>1. SetterInv'
      BY SMTT(30), <1>1 DEF SetEvidence, SetterInv, InQueue
    <2>2. QueueInv'
      <3>1. SetterOf[e] \in Setters /\ SetterOf[e] # Handler
        OBVIOUS
      <3>2. pc'[Handler] = pc[Handler] /\ cur'[Handler] = cur[Handler]
        BY <1>1, <3>1 DEF SetEvidence
      <3> QED BY <1>1, <3>2 DEF SetEvidence, QueueInv
    <2>3. WhitelistInv'
      BY <1>1 DEF SetEvidence, WhitelistInv
    <2>4. AnnouncedKept'
      BY <1>1 DEF SetEvidence, AnnouncedKept, InQueue
    <2>5. DeletedStaysDeleted'
      BY <1>1 DEF SetEvidence, DeletedStaysDeleted
    <2> QED BY <2>1, <2>2, <2>3, <2>4, <2>5
  <1>2. ASSUME NEW s \in Setters, SetFlowCausingEvidence(s) PROVE LifeInv'
    <2>1. SetterInv'
      BY <1>2 DEF SetFlowCausingEvidence, SetterInv, InQueue
    <2>2. QueueInv'
      BY <1>2 DEF SetFlowCausingEvidence, QueueInv
    <2>3. WhitelistInv'
      BY <1>2 DEF SetFlowCausingEvidence, WhitelistInv
    <2>4. AnnouncedKept'
      BY <1>2 DEF SetFlowCausingEvidence, AnnouncedKept, InQueue
    <2>5. DeletedStaysDeleted'
      BY <1>2 DEF SetFlowCausingEvidence, DeletedStaysDeleted
    <2> QED BY <2>1, <2>2, <2>3, <2>4, <2>5
  <1>3. ASSUME NEW s \in Setters, EvidenceExists(s) PROVE LifeInv'
    <2>1. SetterInv'
      <3>1. CASE cur[s] \in stored
        BY <1>3, <3>1, ReturnKeeps DEF EvidenceExists
      <3>2. CASE cur[s] \notin stored
        <4>1. /\ pc' = [pc EXCEPT ![s] = "whitelist"]
              /\ UNCHANGED <<stored, queue, processed, whitelisted, cur>>
          BY <1>3, <3>2 DEF EvidenceExists
        <4>2. pc[s] = "exists" /\ cur[s] \in Evidence
          BY <1>3 DEF EvidenceExists
        <4> QED BY <3>2, <4>1, <4>2 DEF SetterInv, InQueue
      <3> QED BY <3>1, <3>2
    <2>2. QueueInv'
      BY <1>3 DEF EvidenceExists, QueueInv
    <2>3. WhitelistInv'
      BY <1>3 DEF EvidenceExists, WhitelistInv
    <2>4. AnnouncedKept'
      BY <1>3 DEF EvidenceExists, AnnouncedKept, InQueue
    <2>5. DeletedStaysDeleted'
      BY <1>3 DEF EvidenceExists, DeletedStaysDeleted
    <2> QED BY <2>1, <2>2, <2>3, <2>4, <2>5
  <1>4. ASSUME NEW s \in Setters, IsWhitelistedEvidence(s) PROVE LifeInv'
    <2>1. SetterInv'
      <3>1. CASE cur[s] \in whitelisted
        BY <1>4, <3>1, ReturnKeeps DEF IsWhitelistedEvidence
      <3>2. CASE cur[s] \notin whitelisted
        <4>1. /\ pc' = [pc EXCEPT ![s] = "store"]
              /\ UNCHANGED <<stored, queue, processed, whitelisted, cur>>
          BY <1>4, <3>2 DEF IsWhitelistedEvidence
        <4>2. pc[s] = "whitelist" /\ cur[s] \in Evidence
          BY <1>4 DEF IsWhitelistedEvidence
        <4>3. SetterOf[cur[s]] = s /\ cur[s] \notin stored
          BY <4>2 DEF SetterInv
        <4>4. ~Announced(cur[s])
          BY <3>2, <4>2, <4>3 DEF AnnouncedKept
        <4>5. \A e \in Evidence : Announced(e)' = Announced(e)
          BY <4>1 DEF InQueue
        <4>6. pc'[s] = "store" /\ \A r \in Setters \ {s} : pc'[r] = pc[r]
          BY <4>1
        <4>7. ASSUME NEW r \in Setters, pc'[r] # "idle", r # s
              PROVE  pc[r] # "idle" /\ cur[r] \in Evidence
          BY <4>6, <4>7
        <4> HIDE DEF TypeOK, ProgressOK, Announced
        <4> QED BY SMTT(30), <3>2, <4>1, <4>2, <4>3, <4>4, <4>5, <4>6, <4>7 DEF SetterInv
      <3> QED BY <3>1, <3>2
    <2>2. QueueInv'
      BY <1>4 DEF IsWhitelistedEvidence, QueueInv
    <2>3. WhitelistInv'
      BY <1>4 DEF IsWhitelistedEvidence, WhitelistInv
    <2>4. AnnouncedKept'
      BY <1>4 DEF IsWhitelistedEvidence, AnnouncedKept, InQueue
    <2>5. DeletedStaysDeleted'
      BY <1>4 DEF IsWhitelistedEvidence, DeletedStaysDeleted
    <2> QED BY <2>1, <2>2, <2>3, <2>4, <2>5
  <1>5. ASSUME NEW s \in Setters, StoreEvidence(s) PROVE LifeInv'
    <2>1. SetterInv'
      BY <1>5 DEF StoreEvidence, SetterInv, InQueue
    <2>2. QueueInv'
      BY <1>5 DEF StoreEvidence, QueueInv
    <2>3. WhitelistInv'
      BY <1>5 DEF StoreEvidence, WhitelistInv
    <2>4. AnnouncedKept'
      BY <1>5 DEF StoreEvidence, AnnouncedKept, InQueue
    <2>5. DeletedStaysDeleted'
      BY <1>5 DEF StoreEvidence, DeletedStaysDeleted, SetterInv
    <2> QED BY <2>1, <2>2, <2>3, <2>4, <2>5
  <1>6. ASSUME NEW s \in Setters, CountEvidence(s) PROVE LifeInv'
    <2>1. SetterInv'
      BY <1>6 DEF CountEvidence, SetterInv, InQueue
    <2>2. QueueInv'
      BY <1>6 DEF CountEvidence, QueueInv
    <2>3. WhitelistInv'
      BY <1>6 DEF CountEvidence, WhitelistInv
    <2>4. AnnouncedKept'
      BY <1>6 DEF CountEvidence, AnnouncedKept, InQueue
    <2>5. DeletedStaysDeleted'
      BY <1>6 DEF CountEvidence, DeletedStaysDeleted
    <2> QED BY <2>1, <2>2, <2>3, <2>4, <2>5
  <1>7. ASSUME NEW s \in Setters, PublishEvidence(s) PROVE LifeInv'
    <2>6. /\ Len(queue') = Len(queue) + 1
          /\ queue'[Len(queue) + 1] = cur[s]
          /\ \A i \in 1..Len(queue) : queue'[i] = queue[i]
          /\ Len(queue) \in Nat
          /\ cur[s] \in Evidence
      BY <1>7 DEF PublishEvidence
    <2>7. pc'[Handler] = pc[Handler] /\ cur'[Handler] = cur[Handler] /\ processed' = processed
      BY <1>7 DEF PublishEvidence
    <2>8. ~InQueue(cur[s]) /\ cur[s] # cur[Handler] /\ cur[s] \notin processed
      BY <1>7 DEF PublishEvidence, SetterInv
    <2>1. SetterInv'
      BY SMTT(30), <1>7 DEF PublishEvidence, SetterInv, InQueue
    <2>2. QueueInv'
      <3>1. \A i \in 1..Len(queue) : queue[i] # cur[s]
        BY <2>8 DEF InQueue
      <3> HIDE DEF TypeOK, ProgressOK
      <3>2. \A i \in 1..Len(queue') : i \in 1..Len(queue) \/ i = Len(queue) + 1
        BY <2>6
      <3> QED BY <2>6, <2>7, <2>8, <3>1, <3>2 DEF QueueInv
    <2>3. WhitelistInv'
      BY <1>7 DEF PublishEvidence, WhitelistInv
    <2>4. AnnouncedKept'
      <3>1. ASSUME NEW e \in Evidence, Announced(e)' PROVE Announced(e) \/ e = cur[s]
        <4> HIDE DEF TypeOK, ProgressOK
        <4>1. ASSUME InQueue(e)' PROVE InQueue(e) \/ e = cur[s]
          <5>1. PICK i \in 1..Len(queue') : queue'[i] = e
            BY <4>1 DEF InQueue
          <5>2. i \in 1..Len(queue) \/ i = Len(queue) + 1
            BY <2>6, <5>1
          <5> QED BY <2>6, <5>1, <5>2 DEF InQueue
        <4> QED BY <2>7, <3>1, <4>1
      <3>2. cur[s] \in stored
        BY <1>7 DEF PublishEvidence, SetterInv
      <3> QED BY <1>7, <3>1, <3>2 DEF PublishEvidence, AnnouncedKept
    <2>5. DeletedStaysDeleted'
      BY <1>7 DEF PublishEvidence, DeletedStaysDeleted
    <2> QED BY <2>1, <2>2, <2>3, <2>4, <2>5
  <1>8. ASSUME NEW p \in Procs, ReadMaxLevel(p) PROVE LifeInv'
    <2>1. SetterInv'
      BY <1>8 DEF ReadMaxLevel, SetterInv, InQueue
    <2>2. QueueInv'
      BY <1>8 DEF ReadMaxLevel, QueueInv
    <2>3. WhitelistInv'
      BY <1>8 DEF ReadMaxLevel, WhitelistInv
    <2>4. AnnouncedKept'
      BY <1>8 DEF ReadMaxLevel, AnnouncedKept, InQueue
    <2>5. DeletedStaysDeleted'
      BY <1>8 DEF ReadMaxLevel, DeletedStaysDeleted
    <2> QED BY <2>1, <2>2, <2>3, <2>4, <2>5
  <1>9. ASSUME NEW p \in Procs, WriteMaxLevel(p) PROVE LifeInv'
    <2>1. SetterInv'
      <3>1. CASE Return(p)
        BY <1>9, <3>1, ReturnKeeps DEF WriteMaxLevel
      <3>2. CASE p = Handler
        <4>1. /\ \A s \in Setters : pc'[s] = pc[s]
              /\ UNCHANGED <<stored, queue, processed, whitelisted, cur>>
          BY <1>9, <3>2 DEF WriteMaxLevel
        <4> QED BY <4>1 DEF SetterInv, InQueue
      <3> QED BY <1>9, <3>1, <3>2 DEF WriteMaxLevel
    <2>2. QueueInv'
      BY <1>9 DEF WriteMaxLevel, QueueInv
    <2>3. WhitelistInv'
      BY <1>9 DEF WriteMaxLevel, WhitelistInv
    <2>4. AnnouncedKept'
      BY <1>9 DEF WriteMaxLevel, AnnouncedKept, InQueue
    <2>5. DeletedStaysDeleted'
      BY <1>9 DEF WriteMaxLevel, DeletedStaysDeleted
    <2> QED BY <2>1, <2>2, <2>3, <2>4, <2>5
  <1>10. ASSUME NEW s \in Setters, KillSetter(s) PROVE LifeInv'
    <2>1. SetterInv'
      BY <1>10 DEF KillSetter, SetterInv, InQueue
    <2>2. QueueInv'
      BY <1>10 DEF KillSetter, QueueInv
    <2>3. WhitelistInv'
      BY <1>10 DEF KillSetter, WhitelistInv
    <2>4. AnnouncedKept'
      BY <1>10 DEF KillSetter, AnnouncedKept, InQueue
    <2>5. DeletedStaysDeleted'
      BY <1>10 DEF KillSetter, DeletedStaysDeleted
    <2> QED BY <2>1, <2>2, <2>3, <2>4, <2>5
  <1>11. CASE ReceiveEvidence
    <2>6. /\ Len(queue) \in Nat /\ Len(queue) > 0
          /\ Len(queue') = Len(queue) - 1
          /\ \A i \in 1..Len(queue') : queue'[i] = queue[i + 1]
          /\ \A i \in 1..Len(queue') : i + 1 \in 1..Len(queue)
          /\ cur'[Handler] = queue[1]
          /\ cur[Handler] = None
          /\ 1 \in 1..Len(queue)
      BY SMTT(30), <1>11 DEF ReceiveEvidence
    <2>7. pc' = [pc EXCEPT ![Handler] = "mark"] /\ UNCHANGED <<stored, processed, whitelisted>>
      BY <1>11 DEF ReceiveEvidence
    <2>8. ASSUME NEW e \in Evidence, Announced(e)' PROVE Announced(e)
      <3> HIDE DEF TypeOK, ProgressOK
      <3>1. InQueue(e)' => InQueue(e)
        BY <2>6 DEF InQueue
      <3>2. e = cur'[Handler] => InQueue(e)
        BY <2>6 DEF InQueue
      <3> QED BY <2>7, <2>8, <3>1, <3>2
    <2>9. \A s \in Setters : pc'[s] = pc[s] /\ cur'[s] = cur[s]
      BY <1>11 DEF ReceiveEvidence
    <2>1. SetterInv'
      BY <2>7, <2>8, <2>9 DEF SetterInv
    <2>2. QueueInv'
      <3>1. pc'[Handler] = "mark" /\ processed' = processed
        BY <2>7
      <3> HIDE DEF TypeOK, ProgressOK
      <3>2. ASSUME NEW i \in 1..Len(queue')
            PROVE  queue'[i] # queue[1] /\ queue'[i] \notin processed
        <4>1. queue'[i] = queue[i + 1] /\ i + 1 \in 1..Len(queue) /\ i + 1 # 1
          BY <2>6
        <4> QED BY <2>6, <4>1 DEF QueueInv
      <3>3. \A i, j \in 1..Len(queue') : queue'[i] = queue'[j] => i = j
        <4>1. ASSUME NEW i \in 1..Len(queue'), NEW j \in 1..Len(queue'), queue'[i] = queue'[j]
              PROVE  i = j
          <5>1. /\ queue[i + 1] = queue[j + 1]
                /\ i + 1 \in 1..Len(queue) /\ j + 1 \in 1..Len(queue)
            BY <2>6, <4>1
          <5>2. i + 1 = j + 1
            BY <5>1 DEF QueueInv
          <5> QED BY <5>2
        <4> QED BY <4>1
      <3>4. queue[1] \notin processed
        BY <2>6 DEF QueueInv
      <3> QED BY <2>6, <3>1, <3>2, <3>3, <3>4 DEF QueueInv
    <2>3. WhitelistInv'
      BY <1>11 DEF ReceiveEvidence, WhitelistInv
    <2>4. AnnouncedKept'
      BY <2>7, <2>8 DEF AnnouncedKept
    <2>5. DeletedStaysDeleted'
      BY <1>11 DEF ReceiveEvidence, DeletedStaysDeleted
    <2> QED BY <2>1, <2>2, <2>3, <2>4, <2>5
  <1>12. CASE MarkEvidenceAsProcessed
    <2>1. SetterInv'
      BY <1>12 DEF MarkEvidenceAsProcessed, SetterInv, InQueue
    <2>2. QueueInv'
      BY <1>12 DEF MarkEvidenceAsProcessed, QueueInv
    <2>3. WhitelistInv'
      BY <1>12 DEF MarkEvidenceAsProcessed, WhitelistInv, QueueInv
    <2>4. AnnouncedKept'
      BY <1>12 DEF MarkEvidenceAsProcessed, AnnouncedKept, InQueue
    <2>5. DeletedStaysDeleted'
      BY <1>12 DEF MarkEvidenceAsProcessed, DeletedStaysDeleted
    <2> QED BY <2>1, <2>2, <2>3, <2>4, <2>5
  <1>13. CASE Decide
    <2>1. SetterInv'
      <3>1. /\ whitelisted' \subseteq whitelisted \cup {cur[Handler]}
            /\ UNCHANGED <<stored, queue, processed, cur>>
            /\ \A s \in Setters : pc'[s] = pc[s]
        BY <1>13 DEF Decide
      <3> QED BY <3>1 DEF SetterInv, InQueue
    <2>2. QueueInv'
      BY <1>13 DEF Decide, QueueInv
    <2>3. WhitelistInv'
      <3>1. pc[Handler] = "decide" /\ cur[Handler] \in Evidence /\ cur[Handler] \notin whitelisted
        BY <1>13 DEF Decide, WhitelistInv
      <3>2. cur[Handler] \in stored /\ cur[Handler] \in processed
        BY <3>1 DEF AnnouncedKept, QueueInv
      <3>3. CASE cur[Handler] \in Whitelist
        BY <1>13, <3>1, <3>2, <3>3 DEF Decide, WhitelistInv
      <3>4. CASE cur[Handler] \notin Whitelist
        BY <1>13, <3>1, <3>2, <3>4 DEF Decide, WhitelistInv
      <3> QED BY <3>3, <3>4
    <2>4. AnnouncedKept'
      BY <1>13 DEF Decide, AnnouncedKept, InQueue
    <2>5. DeletedStaysDeleted'
      BY <1>13 DEF Decide, DeletedStaysDeleted
    <2> QED BY <2>1, <2>2, <2>3, <2>4, <2>5
  <1>14. CASE DeleteEvidence
    <2>1. SetterInv'
      BY <1>14 DEF DeleteEvidence, SetterInv, InQueue
    <2>2. QueueInv'
      BY <1>14 DEF DeleteEvidence, QueueInv
    <2>3. WhitelistInv'
      BY <1>14 DEF DeleteEvidence, WhitelistInv
    <2>4. AnnouncedKept'
      BY <1>14 DEF DeleteEvidence, AnnouncedKept, InQueue, WhitelistInv
    <2>5. DeletedStaysDeleted'
      BY <1>14 DEF DeleteEvidence, DeletedStaysDeleted
    <2> QED BY <2>1, <2>2, <2>3, <2>4, <2>5
  <1>15. CASE UncountEvidence
    <2>1. SetterInv'
      BY <1>15 DEF UncountEvidence, SetterInv, InQueue
    <2>2. QueueInv'
      BY <1>15, ReturnKeeps DEF UncountEvidence
    <2>3. WhitelistInv'
      BY <1>15 DEF UncountEvidence, WhitelistInv
    <2>4. AnnouncedKept'
      BY <1>15 DEF UncountEvidence, AnnouncedKept, InQueue
    <2>5. DeletedStaysDeleted'
      BY <1>15 DEF UncountEvidence, DeletedStaysDeleted
    <2> QED BY <2>1, <2>2, <2>3, <2>4, <2>5
  <1>16. CASE Accumulate
    <2>1. SetterInv'
      BY <1>16 DEF Accumulate, SetterInv, InQueue
    <2>2. QueueInv'
      BY <1>16 DEF Accumulate, QueueInv
    <2>3. WhitelistInv'
      BY <1>16 DEF Accumulate, WhitelistInv
    <2>4. AnnouncedKept'
      BY <1>16 DEF Accumulate, AnnouncedKept, InQueue
    <2>5. DeletedStaysDeleted'
      BY <1>16 DEF Accumulate, DeletedStaysDeleted
    <2> QED BY <2>1, <2>2, <2>3, <2>4, <2>5
  <1>17. CASE CheckThreshold
    <2>1. SetterInv'
      <3>1. CASE Return(Handler)
        BY <1>17, <3>1, ReturnKeeps DEF CheckThreshold
      <3>2. CASE Goto(Handler, "set_alert") /\ cur' = cur
        BY <1>17, <3>2 DEF CheckThreshold, SetterInv, InQueue
      <3> QED BY <1>17, <3>1, <3>2 DEF CheckThreshold
    <2>2. QueueInv'
      <3>1. CASE Return(Handler)
        BY <1>17, <3>1, ReturnKeeps DEF CheckThreshold
      <3>2. CASE Goto(Handler, "set_alert") /\ cur' = cur
        BY <1>17, <3>2 DEF CheckThreshold, QueueInv
      <3> QED BY <1>17, <3>1, <3>2 DEF CheckThreshold
    <2>3. WhitelistInv'
      BY <1>17 DEF CheckThreshold, WhitelistInv
    <2>4. AnnouncedKept'
      BY <1>17 DEF CheckThreshold, AnnouncedKept, InQueue
    <2>5. DeletedStaysDeleted'
      BY <1>17 DEF CheckThreshold, DeletedStaysDeleted
    <2> QED BY <2>1, <2>2, <2>3, <2>4, <2>5
  <1>18. CASE SetEvidenceCausingAlert
    <2>1. SetterInv'
      BY <1>18 DEF SetEvidenceCausingAlert, SetterInv, InQueue
    <2>2. QueueInv'
      BY <1>18 DEF SetEvidenceCausingAlert, QueueInv
    <2>3. WhitelistInv'
      BY <1>18 DEF SetEvidenceCausingAlert, WhitelistInv
    <2>4. AnnouncedKept'
      BY <1>18 DEF SetEvidenceCausingAlert, AnnouncedKept, InQueue
    <2>5. DeletedStaysDeleted'
      BY <1>18 DEF SetEvidenceCausingAlert, DeletedStaysDeleted
    <2> QED BY <2>1, <2>2, <2>3, <2>4, <2>5
  <1>19. CASE ResetAccumulated
    <2>1. SetterInv'
      BY <1>19 DEF ResetAccumulated, SetterInv, InQueue
    <2>2. QueueInv'
      BY <1>19 DEF ResetAccumulated, QueueInv
    <2>3. WhitelistInv'
      BY <1>19 DEF ResetAccumulated, WhitelistInv
    <2>4. AnnouncedKept'
      BY <1>19 DEF ResetAccumulated, AnnouncedKept, InQueue
    <2>5. DeletedStaysDeleted'
      BY <1>19 DEF ResetAccumulated, DeletedStaysDeleted
    <2> QED BY <2>1, <2>2, <2>3, <2>4, <2>5
  <1>20. CASE GetFlowsCausingEvidence
    <2>1. SetterInv'
      BY <1>20 DEF GetFlowsCausingEvidence, SetterInv, InQueue
    <2>2. QueueInv'
      BY <1>20 DEF GetFlowsCausingEvidence, QueueInv
    <2>3. WhitelistInv'
      BY <1>20 DEF GetFlowsCausingEvidence, WhitelistInv
    <2>4. AnnouncedKept'
      BY <1>20 DEF GetFlowsCausingEvidence, AnnouncedKept, InQueue
    <2>5. DeletedStaysDeleted'
      BY <1>20 DEF GetFlowsCausingEvidence, DeletedStaysDeleted
    <2> QED BY <2>1, <2>2, <2>3, <2>4, <2>5
  <1>21. CASE SetFlowLabel
    <2>1. SetterInv'
      <3>1. CASE Return(Handler)
        BY <1>21, <3>1, ReturnKeeps DEF SetFlowLabel
      <3>2. CASE UNCHANGED <<pc, cur>>
        BY <1>21, <3>2 DEF SetFlowLabel, SetterInv, InQueue
      <3> QED BY <1>21, <3>1, <3>2 DEF SetFlowLabel
    <2>2. QueueInv'
      <3>1. CASE Return(Handler)
        BY <1>21, <3>1, ReturnKeeps DEF SetFlowLabel
      <3>2. CASE UNCHANGED <<pc, cur>>
        BY <1>21, <3>2 DEF SetFlowLabel, QueueInv
      <3> QED BY <1>21, <3>1, <3>2 DEF SetFlowLabel
    <2>3. WhitelistInv'
      BY <1>21 DEF SetFlowLabel, WhitelistInv
    <2>4. AnnouncedKept'
      BY <1>21 DEF SetFlowLabel, AnnouncedKept, InQueue
    <2>5. DeletedStaysDeleted'
      BY <1>21 DEF SetFlowLabel, DeletedStaysDeleted
    <2> QED BY <2>1, <2>2, <2>3, <2>4, <2>5
  <1>22. ASSUME NEW row \in Tables \X Uids, AddRow(row) PROVE LifeInv'
    <2>1. SetterInv'
      BY <1>22 DEF AddRow, SetterInv, InQueue
    <2>2. QueueInv'
      BY <1>22 DEF AddRow, QueueInv
    <2>3. WhitelistInv'
      BY <1>22 DEF AddRow, WhitelistInv
    <2>4. AnnouncedKept'
      BY <1>22 DEF AddRow, AnnouncedKept, InQueue
    <2>5. DeletedStaysDeleted'
      BY <1>22 DEF AddRow, DeletedStaysDeleted
    <2> QED BY <2>1, <2>2, <2>3, <2>4, <2>5
  <1>23. CASE UNCHANGED vars
    BY <1>23 DEF vars, SetterInv, QueueInv, WhitelistInv, AnnouncedKept, InQueue,
         DeletedStaysDeleted
  <1> QED
    BY <1>1, <1>2, <1>3, <1>4, <1>5, <1>6, <1>7, <1>8, <1>9, <1>10, <1>11, <1>12, <1>13, <1>14, <1>15, <1>16, <1>17, <1>18, <1>19, <1>20, <1>21, <1>22, <1>23 DEF Next, SetterStep, HandlerStep

(* A whitelisted evidence that was deleted is never back in the database.  *)
THEOREM WhitelistedStayDeleted == Spec => []DeletedStaysDeleted
  <1>1. TypeOK /\ LifeInv /\ [Next]_vars => TypeOK' /\ LifeInv'
    BY TypeStep, LifeStep
  <1>2. Init => TypeOK /\ LifeInv
    BY TypeInit, LifeInit
  <1>3. LifeInv => DeletedStaysDeleted
    BY DEF LifeInv
  <1> QED BY <1>1, <1>2, <1>3, PTL DEF Spec

-----------------------------------------------------------------------------
(* A step that only adds evidence, to the hash or to the processed ones,   *)
(* and prepares no new alert leaves the alerts as they are.                *)
LEMMA AlertFrame ==
  ASSUME AlertInv, TypeOK, stored \subseteq stored', processed \subseteq processed',
         whitelisted' = whitelisted, alerts' = alerts,
         pc'[Handler] = "set_alert" =>
           /\ pc[Handler] = "set_alert"
           /\ causing' = causing
           /\ cur'[Handler] = cur[Handler]
  PROVE  AlertInv'
  BY DEF AlertInv, AlertedEvidenceSafe

LEMMA AlertInit == Init => AlertInv
  BY SettersAssumption DEF Init, AlertInv, AlertedEvidenceSafe

LEMMA AlertStep == TypeOK /\ LifeInv /\ AlertInv /\ [Next]_vars => AlertInv'
  <1> SUFFICES ASSUME TypeOK, LifeInv, AlertInv, [Next]_vars PROVE AlertInv'
    OBVIOUS
  <1> USE SettersAssumption, EvidenceAssumption
      DEF TypeOK, ProgressOK, At, Goto, Return, redis, sqlite, locals, bounds
  <1>1. ASSUME NEW e \in Evidence, SetEvidence(e) PROVE AlertInv'
    BY <1>1, AlertFrame DEF SetEvidence
  <1>2. ASSUME NEW s \in Setters, SetFlowCausingEvidence(s) PROVE AlertInv'
    BY <1>2, AlertFrame DEF SetFlowCausingEvidence
  <1>3. ASSUME NEW s \in Setters, EvidenceExists(s) PROVE AlertInv'
    BY <1>3, AlertFrame DEF EvidenceExists
  <1>4. ASSUME NEW s \in Setters, IsWhitelistedEvidence(s) PROVE AlertInv'
    BY <1>4, AlertFrame DEF IsWhitelistedEvidence
  <1>5. ASSUME NEW s \in Setters, StoreEvidence(s) PROVE AlertInv'
    BY <1>5, AlertFrame DEF StoreEvidence
  <1>6. ASSUME NEW s \in Setters, CountEvidence(s) PROVE AlertInv'
    BY <1>6, AlertFrame DEF CountEvidence
  <1>7. ASSUME NEW s \in Setters, PublishEvidence(s) PROVE AlertInv'
    BY <1>7, AlertFrame DEF PublishEvidence
  <1>8. ASSUME NEW p \in Procs, ReadMaxLevel(p) PROVE AlertInv'
    BY <1>8, AlertFrame DEF ReadMaxLevel
  <1>9. ASSUME NEW p \in Procs, WriteMaxLevel(p) PROVE AlertInv'
    BY <1>9, AlertFrame DEF WriteMaxLevel
  <1>10. ASSUME NEW s \in Setters, KillSetter(s) PROVE AlertInv'
    BY <1>10, AlertFrame DEF KillSetter
  <1>11. CASE ReceiveEvidence
    BY <1>11, AlertFrame DEF ReceiveEvidence
  <1>12. CASE MarkEvidenceAsProcessed
    BY <1>12, AlertFrame DEF MarkEvidenceAsProcessed
  <1>13. CASE Decide
    <2>1. /\ cur[Handler] \in Whitelist \/ whitelisted' = whitelisted
          /\ whitelisted' \subseteq whitelisted \cup {cur[Handler]}
          /\ UNCHANGED <<stored, processed, alerts>>
          /\ pc'[Handler] # "set_alert"
      BY <1>13 DEF Decide
    <2>2. ASSUME NEW w \in Windows, NEW i \in DOMAIN alerts[w]
          PROVE  alerts[w][i] \cap whitelisted' = {}
      <3> HIDE DEF TypeOK, ProgressOK
      <3>1. alerts[w][i] \cap whitelisted = {} /\ alerts[w][i] \cap Whitelist = {}
        BY DEF AlertInv, AlertedEvidenceSafe
      <3> QED BY <2>1, <3>1
    <2> HIDE DEF TypeOK, ProgressOK
    <2> QED BY <2>1, <2>2 DEF AlertInv, AlertedEvidenceSafe
  <1>14. CASE DeleteEvidence
    <2>1. /\ cur[Handler] \in whitelisted
          /\ stored' = stored \ {cur[Handler]}
          /\ UNCHANGED <<whitelisted, processed, alerts>>
          /\ pc'[Handler] # "set_alert"
      BY <1>14 DEF DeleteEvidence, LifeInv, WhitelistInv
    <2>2. ASSUME NEW w \in Windows, NEW i \in DOMAIN alerts[w]
          PROVE  alerts[w][i] \subseteq stored'
      <3> HIDE DEF TypeOK, ProgressOK
      <3>1. alerts[w][i] \subseteq stored \ whitelisted
        BY DEF AlertInv, AlertedEvidenceSafe
      <3> QED BY <2>1, <3>1
    <2> HIDE DEF TypeOK, ProgressOK
    <2> QED BY <2>1, <2>2 DEF AlertInv, AlertedEvidenceSafe
  <1>15. CASE UncountEvidence
    BY <1>15, AlertFrame DEF UncountEvidence
  <1>16. CASE Accumulate
    BY <1>16, AlertFrame DEF Accumulate
  <1>17. CASE CheckThreshold
    <2> DEFINE w == WindowOf[cur[Handler]]
    <2>1. CASE Goto(Handler, "set_alert") /\ causing' = AlertEvidence(w) /\ AlertEvidence(w) # {}
      <3>1. AlertEvidence(w) \subseteq (stored \cap processed) \ whitelisted
        BY DEF AlertEvidence, TwidEvidence, IsEvidenceProcessed
      <3>2. AlertEvidence(w) \cap Whitelist = {}
        BY <1>17, <3>1 DEF CheckThreshold, LifeInv, WhitelistInv
      <3>3. \A i \in DOMAIN alerts[w] : AlertEvidence(w) \cap alerts[w][i] = {}
        BY DEF AlertEvidence, TwidEvidence, IsFiltered, InPastAlert
      <3>4. UNCHANGED <<stored, processed, whitelisted, alerts, cur>>
        BY <1>17, <2>1 DEF CheckThreshold
      <3> QED BY <2>1, <3>1, <3>2, <3>3, <3>4 DEF AlertInv, AlertedEvidenceSafe
    <2>2. CASE Return(Handler)
      <3>1. /\ pc'[Handler] # "set_alert"
            /\ UNCHANGED <<stored, processed, whitelisted, alerts>>
        BY <1>17, <2>2 DEF CheckThreshold
      <3> QED BY <3>1, AlertFrame
    <2> QED BY <1>17, <2>1, <2>2 DEF CheckThreshold
  <1>18. CASE SetEvidenceCausingAlert
    <2> DEFINE w == WindowOf[cur[Handler]]
    <2>1. /\ pc'[Handler] # "set_alert"
          /\ UNCHANGED <<stored, processed, whitelisted>>
          /\ w \in Windows
      BY <1>18 DEF SetEvidenceCausingAlert
    <2>2. /\ \A v \in Windows : v # w => alerts'[v] = alerts[v]
          /\ alerts'[w] = Append(alerts[w], causing)
      BY <1>18, <2>1 DEF SetEvidenceCausingAlert
    <2>3. /\ Len(alerts[w]) \in Nat
          /\ DOMAIN alerts[w] = 1..Len(alerts[w])
          /\ DOMAIN alerts'[w] = 1..(Len(alerts[w]) + 1)
          /\ alerts'[w][Len(alerts[w]) + 1] = causing
          /\ \A i \in 1..Len(alerts[w]) : alerts'[w][i] = alerts[w][i]
      BY <2>1, <2>2
    <2>4. /\ causing # {}
          /\ causing \subseteq (stored \cap processed) \ (whitelisted \cup Whitelist)
          /\ \A i \in DOMAIN alerts[w] : causing \cap alerts[w][i] = {}
      BY <1>18 DEF SetEvidenceCausingAlert, AlertInv
    <2> HIDE DEF w
    <2>5. ASSUME NEW v \in Windows, NEW i \in DOMAIN alerts'[v]
          PROVE  /\ alerts'[v][i] # {}
                 /\ alerts'[v][i] \subseteq (stored \cap processed) \ whitelisted
                 /\ alerts'[v][i] \cap Whitelist = {}
      <3> HIDE DEF TypeOK, ProgressOK
      <3>1. CASE v = w /\ i = Len(alerts[w]) + 1
        BY <2>3, <2>4, <3>1
      <3>2. CASE ~(v = w /\ i = Len(alerts[w]) + 1)
        <4>1. i \in DOMAIN alerts[v] /\ alerts'[v][i] = alerts[v][i]
          <5>1. CASE v # w
            BY <2>2, <5>1
          <5>2. CASE v = w
            <6>1. i \in 1..(Len(alerts[w]) + 1) /\ i # Len(alerts[w]) + 1
              BY <2>3, <3>2, <5>2
            <6>2. i \in 1..Len(alerts[w])
              BY <2>3, <6>1
            <6> QED BY <2>3, <5>2, <6>2
          <5> QED BY <5>1, <5>2
        <4> QED BY <4>1 DEF AlertInv, AlertedEvidenceSafe
      <3> QED BY <3>1, <3>2
    <2>6. ASSUME NEW v \in Windows, NEW i \in DOMAIN alerts'[v], NEW j \in DOMAIN alerts'[v], i # j
          PROVE  alerts'[v][i] \cap alerts'[v][j] = {}
      <3> HIDE DEF TypeOK, ProgressOK
      <3>1. CASE v # w
        BY <2>2, <2>6, <3>1 DEF AlertInv, AlertedEvidenceSafe
      <3>2. CASE v = w /\ i \in DOMAIN alerts[w] /\ j \in DOMAIN alerts[w]
        BY <2>1, <2>3, <2>6, <3>2 DEF AlertInv, AlertedEvidenceSafe
      <3>3. CASE v = w /\ (i = Len(alerts[w]) + 1 \/ j = Len(alerts[w]) + 1)
        <4>1. CASE i = Len(alerts[w]) + 1
          <5>1. j \in 1..(Len(alerts[w]) + 1) /\ j # Len(alerts[w]) + 1
            BY <2>3, <2>6, <3>3, <4>1
          <5>2. j \in 1..Len(alerts[w])
            BY <2>3, <5>1
          <5> QED BY <2>3, <2>4, <3>3, <4>1, <5>2
        <4>2. CASE j = Len(alerts[w]) + 1
          <5>1. i \in 1..(Len(alerts[w]) + 1) /\ i # Len(alerts[w]) + 1
            BY <2>3, <2>6, <3>3, <4>2
          <5>2. i \in 1..Len(alerts[w])
            BY <2>3, <5>1
          <5> QED BY <2>3, <2>4, <3>3, <4>2, <5>2
        <4> QED BY <3>3, <4>1, <4>2
      <3> QED BY <2>3, <3>1, <3>2, <3>3
    <2> QED BY <2>1, <2>5, <2>6 DEF AlertInv, AlertedEvidenceSafe
  <1>19. CASE ResetAccumulated
    BY <1>19, AlertFrame DEF ResetAccumulated
  <1>20. CASE GetFlowsCausingEvidence
    BY <1>20, AlertFrame DEF GetFlowsCausingEvidence
  <1>21. CASE SetFlowLabel
    BY <1>21, AlertFrame DEF SetFlowLabel
  <1>22. ASSUME NEW row \in Tables \X Uids, AddRow(row) PROVE AlertInv'
    BY <1>22, AlertFrame DEF AddRow
  <1>23. CASE UNCHANGED vars
    BY <1>23, AlertFrame DEF vars
  <1> QED
    BY <1>1, <1>2, <1>3, <1>4, <1>5, <1>6, <1>7, <1>8, <1>9, <1>10, <1>11, <1>12, <1>13, <1>14, <1>15, <1>16, <1>17, <1>18, <1>19, <1>20, <1>21, <1>22, <1>23 DEF Next, SetterStep, HandlerStep

(* No alert is empty; the evidence of an alert reached the handler, is not *)
(* whitelisted, belongs to no other alert and is never deleted.            *)
THEOREM AlertedEvidenceIsSafe == Spec => []AlertedEvidenceSafe
  <1> DEFINE Inv == TypeOK /\ LifeInv /\ AlertInv
  <1>1. Inv /\ [Next]_vars => Inv'
    BY TypeStep, LifeStep, AlertStep
  <1>2. Init => Inv
    BY TypeInit, LifeInit, AlertInit
  <1>3. Inv => AlertedEvidenceSafe
    BY DEF AlertInv
  <1> QED BY <1>1, <1>2, <1>3, PTL DEF Spec

-----------------------------------------------------------------------------
LEMMA Finite ==
  ASSUME TypeOK
  PROVE  /\ IsFiniteSet(stored) /\ Cardinality(stored) \in Nat
         /\ IsFiniteSet(Uncounted) /\ Cardinality(Uncounted) \in Nat
  BY FS_Subset, FS_CardinalityType, SettersAssumption, EvidenceAssumption
     DEF TypeOK, Uncounted

(* A step that neither stores, counts nor deletes an evidence.             *)
LEMMA CounterFrame ==
  ASSUME CounterMatches, UNCHANGED <<stored, number>>, Uncounted' = Uncounted,
         (pc'[Handler] = "uncount") <=> (pc[Handler] = "uncount")
  PROVE  CounterMatches'
  BY DEF CounterMatches

LEMMA CounterInit == Init => CounterMatches
  <1> SUFFICES ASSUME Init PROVE CounterMatches
    OBVIOUS
  <1>1. stored = {} /\ Uncounted = {} /\ number = 0 /\ pc[Handler] # "uncount"
    BY DEF Init, Uncounted
  <1> QED BY <1>1, FS_EmptySet DEF CounterMatches

LEMMA CounterStep == TypeOK /\ LifeInv /\ CounterMatches /\ [Next]_vars => CounterMatches'
  <1> SUFFICES ASSUME TypeOK, LifeInv, CounterMatches, [Next]_vars PROVE CounterMatches'
    OBVIOUS
  <1> USE SettersAssumption, EvidenceAssumption
      DEF TypeOK, ProgressOK, At, Goto, Return, redis, sqlite, locals, bounds
  <1>1. ASSUME NEW e \in Evidence, SetEvidence(e) PROVE CounterMatches'
    BY <1>1, CounterFrame DEF SetEvidence, Uncounted
  <1>2. ASSUME NEW s \in Setters, SetFlowCausingEvidence(s) PROVE CounterMatches'
    BY <1>2, CounterFrame DEF SetFlowCausingEvidence, Uncounted
  <1>3. ASSUME NEW s \in Setters, EvidenceExists(s) PROVE CounterMatches'
    BY <1>3, CounterFrame DEF EvidenceExists, Uncounted
  <1>4. ASSUME NEW s \in Setters, IsWhitelistedEvidence(s) PROVE CounterMatches'
    BY <1>4, CounterFrame DEF IsWhitelistedEvidence, Uncounted
  <1>5. ASSUME NEW s \in Setters, StoreEvidence(s) PROVE CounterMatches'
    <2>1. /\ stored' = stored \cup {cur[s]} /\ cur[s] \notin stored
          /\ Uncounted' = Uncounted \cup {s} /\ s \notin Uncounted
          /\ number' = number /\ pc'[Handler] = pc[Handler]
      BY <1>5 DEF StoreEvidence, Uncounted, LifeInv, SetterInv
    <2>2. Cardinality(stored') = Cardinality(stored) + 1
      BY <2>1, Finite, FS_AddElement
    <2>3. Cardinality(Uncounted') = Cardinality(Uncounted) + 1
      BY <2>1, Finite, FS_AddElement
    <2> HIDE DEF TypeOK, ProgressOK
    <2> QED BY <2>1, <2>2, <2>3, Finite DEF CounterMatches
  <1>6. ASSUME NEW s \in Setters, CountEvidence(s) PROVE CounterMatches'
    <2>1. /\ stored' = stored
          /\ Uncounted' = Uncounted \ {s} /\ s \in Uncounted
          /\ number' = number + 1 /\ pc'[Handler] = pc[Handler]
      BY <1>6 DEF CountEvidence, Uncounted
    <2>2. Cardinality(Uncounted') = Cardinality(Uncounted) - 1
      BY <2>1, Finite, FS_RemoveElement
    <2>3. number \in Int
      OBVIOUS
    <2> HIDE DEF TypeOK, ProgressOK
    <2> QED BY <2>1, <2>2, <2>3, Finite DEF CounterMatches
  <1>7. ASSUME NEW s \in Setters, PublishEvidence(s) PROVE CounterMatches'
    BY <1>7, CounterFrame DEF PublishEvidence, Uncounted
  <1>8. ASSUME NEW p \in Procs, ReadMaxLevel(p) PROVE CounterMatches'
    BY <1>8, CounterFrame DEF ReadMaxLevel, Uncounted
  <1>9. ASSUME NEW p \in Procs, WriteMaxLevel(p) PROVE CounterMatches'
    BY <1>9, CounterFrame DEF WriteMaxLevel, Uncounted
  <1>10. ASSUME NEW s \in Setters, KillSetter(s) PROVE CounterMatches'
    BY <1>10, CounterFrame DEF KillSetter, Uncounted
  <1>11. CASE ReceiveEvidence
    BY <1>11, CounterFrame DEF ReceiveEvidence, Uncounted
  <1>12. CASE MarkEvidenceAsProcessed
    BY <1>12, CounterFrame DEF MarkEvidenceAsProcessed, Uncounted
  <1>13. CASE Decide
    BY <1>13, CounterFrame DEF Decide, Uncounted
  <1>14. CASE DeleteEvidence
    <2>1. /\ stored' = stored \ {cur[Handler]} /\ cur[Handler] \in stored
          /\ Uncounted' = Uncounted
          /\ number' = number
          /\ pc[Handler] = "delete" /\ pc'[Handler] = "uncount"
      BY <1>14 DEF DeleteEvidence, Uncounted, LifeInv, WhitelistInv
    <2>2. Cardinality(stored') = Cardinality(stored) - 1
      BY <2>1, Finite, FS_RemoveElement
    <2> HIDE DEF TypeOK, ProgressOK
    <2> QED BY <2>1, <2>2, Finite DEF CounterMatches
  <1>15. CASE UncountEvidence
    <2>1. /\ UNCHANGED stored
          /\ Uncounted' = Uncounted
          /\ number' = number - 1 /\ number \in Int
          /\ pc[Handler] = "uncount" /\ pc'[Handler] = "idle"
      BY <1>15 DEF UncountEvidence, Uncounted
    <2> HIDE DEF TypeOK, ProgressOK
    <2> QED BY <2>1, Finite DEF CounterMatches
  <1>16. CASE Accumulate
    BY <1>16, CounterFrame DEF Accumulate, Uncounted
  <1>17. CASE CheckThreshold
    BY <1>17, CounterFrame DEF CheckThreshold, Uncounted
  <1>18. CASE SetEvidenceCausingAlert
    BY <1>18, CounterFrame DEF SetEvidenceCausingAlert, Uncounted
  <1>19. CASE ResetAccumulated
    BY <1>19, CounterFrame DEF ResetAccumulated, Uncounted
  <1>20. CASE GetFlowsCausingEvidence
    BY <1>20, CounterFrame DEF GetFlowsCausingEvidence, Uncounted
  <1>21. CASE SetFlowLabel
    BY <1>21, CounterFrame DEF SetFlowLabel, Uncounted
  <1>22. ASSUME NEW row \in Tables \X Uids, AddRow(row) PROVE CounterMatches'
    BY <1>22, CounterFrame DEF AddRow, Uncounted
  <1>23. CASE UNCHANGED vars
    BY <1>23, CounterFrame DEF vars, Uncounted
  <1> QED
    BY <1>1, <1>2, <1>3, <1>4, <1>5, <1>6, <1>7, <1>8, <1>9, <1>10, <1>11, <1>12, <1>13, <1>14, <1>15, <1>16, <1>17, <1>18, <1>19, <1>20, <1>21, <1>22, <1>23 DEF Next, SetterStep, HandlerStep

(* number_of_evidence counts the stored evidence, up to the processes that *)
(* are (or were killed) between the two Redis commands.                    *)
THEOREM CounterIsRight == Spec => []CounterMatches
  <1> DEFINE Inv == TypeOK /\ LifeInv /\ CounterMatches
  <1>1. Inv /\ [Next]_vars => Inv'
    BY TypeStep, LifeStep, CounterStep
  <1>2. Init => Inv
    BY TypeInit, LifeInit, CounterInit
  <1>3. Inv => CounterMatches
    OBVIOUS
  <1> QED BY <1>1, <1>2, <1>3, PTL DEF Spec

-----------------------------------------------------------------------------
(***************************************************************************)
(* Evidence implements EvidenceLife: every step of a module, of the        *)
(* handler or of the profiler is one step in the life of one evidence, or  *)
(* one alert, or none.                                                     *)
(***************************************************************************)
Place == pc[Handler]
Current == cur[Handler]

\* The evidence an alert of window w has to take.
ToAlert(w) == {e \in Evidence : LifeOf(e) = "counted" /\ WindowOf[e] = w}

(* What the handler decided about its evidence holds until it acts on it.  *)
ReadyInv ==
    /\ Place = "accumulate" =>
         Current \notin Whitelist \cup ByOthers /\ ~InPastAlert(Current)
    /\ Place = "set_alert" =>
         /\ accum[WindowOf[Current]] >= Threshold
         /\ causing = ToAlert(WindowOf[Current])

LEMMA ReadyInit == Init => ReadyInv
  BY SettersAssumption DEF Init, ReadyInv, Place, Procs

-----------------------------------------------------------------------------
(* Nothing happens to any evidence in a step of another process, or while  *)
(* the handler is not deciding, accumulating or resetting.                 *)
Elsewhere ==
    \/ Place' = Place /\ Current' = Current
    \/ {Place, Place'} \cap {"decide", "accumulate", "reset"} = {}

LEMMA LifeFrame ==
  ASSUME Elsewhere, UNCHANGED <<whitelisted, alerts, processed>>,
         stored' \ (processed \cup whitelisted) = stored \ (processed \cup whitelisted)
  PROVE  LifeMap' = LifeMap
  <1>1. ASSUME NEW e \in Evidence PROVE Undecided(e)' = Undecided(e)
    BY DEF Elsewhere, Place, Current, Undecided
  <1>2. ASSUME NEW e \in Evidence PROVE InPastAlert(e)' = InPastAlert(e)
    BY DEF InPastAlert
  <1>3. ASSUME NEW e \in Evidence PROVE LifeOf(e)' = LifeOf(e)
    BY <1>1, <1>2 DEF LifeOf
  <1> QED BY <1>3 DEF LifeMap

LEMMA WeightFrame ==
  ASSUME Elsewhere \/ "reset" \notin {Place, Place'}, UNCHANGED accum
  PROVE  WeightMap' = WeightMap
  <1>1. ASSUME NEW w \in Windows PROVE WeightOf(w)' = WeightOf(w)
    BY DEF Elsewhere, Place, Current, WeightOf
  <1> QED BY <1>1 DEF WeightMap

LEMMA Stutter ==
  ASSUME Elsewhere, UNCHANGED <<whitelisted, alerts, processed, stored, accum>>
  PROVE  UNCHANGED <<LifeMap, WeightMap>>
  BY LifeFrame, WeightFrame

(* Evidence in an alert was heard of, and is not on the whitelist.         *)
LEMMA AlertedWasHeard ==
  ASSUME TypeOK, AlertInv, NEW e \in Evidence, InPastAlert(e)
  PROVE  e \in processed /\ e \notin Whitelist
  <1>1. WindowOf[e] \in Windows
    BY EvidenceAssumption
  <1>2. PICK i \in DOMAIN alerts[WindowOf[e]] : e \in alerts[WindowOf[e]][i]
    BY DEF InPastAlert
  <1> QED BY <1>1, <1>2 DEF AlertInv, AlertedEvidenceSafe

(* An evidence that changes its stage alone takes one step of its life.    *)
LEMMA OneStep ==
  ASSUME NEW e \in Evidence, NEW to,
         LifeOf(e)' = to,
         \A f \in Evidence \ {e} : LifeOf(f)' = LifeOf(f)
  PROVE  LifeMap' = [LifeMap EXCEPT ![e] = to] /\ LifeMap[e] = LifeOf(e)
  BY DEF LifeMap

LEMMA ReadyFrame ==
  ASSUME ReadyInv, UNCHANGED <<accum, alerts, causing>>,
         \A w \in Windows : ToAlert(w)' = ToAlert(w),
         Current \in Evidence \/ Current = None,
         Place = "set_alert" => Current \in Evidence,
         (Place' = Place /\ Current' = Current) \/ Place' \notin {"accumulate", "set_alert"}
  PROVE  ReadyInv'
  <1>1. CASE Place' \notin {"accumulate", "set_alert"}
    BY <1>1 DEF ReadyInv
  <1>2. CASE Place' = Place /\ Current' = Current
    <2>1. InPastAlert(Current)' = InPastAlert(Current)
      BY <1>2 DEF InPastAlert
    <2>2. Place = "set_alert" => ToAlert(WindowOf[Current])' = ToAlert(WindowOf[Current])
      <3>1. SUFFICES ASSUME Place = "set_alert"
                     PROVE  ToAlert(WindowOf[Current])' = ToAlert(WindowOf[Current])
        OBVIOUS
      <3>2. WindowOf[Current] \in Windows
        BY <3>1, EvidenceAssumption
      <3> QED BY <1>2, <3>2
    <2> QED BY <1>2, <2>1, <2>2 DEF ReadyInv
  <1> QED BY <1>1, <1>2

(* A step in which no evidence changes its stage.                          *)
LEMMA Quiet ==
  ASSUME TypeOK, ReadyInv, UNCHANGED <<whitelisted, alerts, processed, stored, accum>>,
         \/ Place' = Place /\ Current' = Current /\ causing' = causing
         \/ {Place, Place'} \cap {"decide", "accumulate", "set_alert", "reset"} = {}
  PROVE  ReadyInv' /\ UNCHANGED <<LifeMap, WeightMap>>
  <1>1. UNCHANGED <<LifeMap, WeightMap>>
    BY Stutter DEF Elsewhere
  <1>2. \A w \in Windows : ToAlert(w)' = ToAlert(w)
    <2>1. \A e \in Evidence : LifeOf(e) = LifeMap[e] /\ LifeOf(e)' = LifeMap'[e]
      BY DEF LifeMap
    <2> QED BY <1>1, <2>1 DEF ToAlert
  <1>3. Current \in Evidence \/ Current = None
    BY DEF TypeOK, ProgressOK, Current, Procs
  <1>4. Place = "set_alert" => Current \in Evidence
    BY <1>3 DEF TypeOK, ProgressOK, Current, Place, Procs
  <1>5. ReadyInv'
    <2>1. CASE Place' = Place /\ Current' = Current /\ causing' = causing
      BY <1>2, <1>3, <1>4, <2>1, ReadyFrame
    <2>2. CASE {Place, Place'} \cap {"decide", "accumulate", "set_alert", "reset"} = {}
      BY <2>2 DEF ReadyInv
    <2> QED BY <2>1, <2>2
  <1> QED BY <1>1, <1>5

Simulated == ReadyInv' /\ (Life!Next \/ UNCHANGED <<LifeMap, WeightMap>>)

-----------------------------------------------------------------------------
(* The steps that change the life of an evidence, one lemma each.          *)
LEMMA StoreStep ==
  ASSUME TypeOK, LifeInv, AlertInv, ReadyInv, NEW s \in Setters, StoreEvidence(s)
  PROVE  Simulated
  <1>0. PICK e \in Evidence : e = cur[s]
    BY SettersAssumption DEF StoreEvidence, At, TypeOK, ProgressOK, Procs
  <1>1. /\ stored' = stored \cup {e}
        /\ UNCHANGED <<whitelisted, alerts, processed, accum, causing>>
        /\ Place' = Place /\ Current' = Current
    BY <1>0, SettersAssumption DEF StoreEvidence, At, Goto, TypeOK, ProgressOK, Place, Current, Procs,
         redis, locals
  <1>2. pc[s] = "store"
    BY DEF StoreEvidence, At
  <1>3. e \notin stored /\ e \notin processed /\ e \notin whitelisted
    BY <1>0, <1>2 DEF LifeInv, SetterInv, Announced
  <1>4. ~InPastAlert(e)
    BY <1>1, <1>3, AlertedWasHeard
  <1>5. \A f \in Evidence : InPastAlert(f)' = InPastAlert(f) /\ Undecided(f)' = Undecided(f)
    BY <1>1 DEF InPastAlert, Undecided, Place, Current
  <1>6. LifeOf(e) = "unknown" /\ LifeOf(e)' = "stored"
    BY <1>1, <1>3, <1>4, <1>5 DEF LifeOf
  <1>7. \A f \in Evidence \ {e} : LifeOf(f)' = LifeOf(f)
    BY <1>1, <1>5 DEF LifeOf
  <1>8. WeightMap' = WeightMap
    BY <1>1, WeightFrame DEF Elsewhere
  <1>9. Life!Next
    BY <1>1, <1>6, <1>7, <1>8, OneStep DEF Life!Next, Life!Store, Life!Become
  <1>10. \A w \in Windows : ToAlert(w)' = ToAlert(w)
    BY <1>6, <1>7 DEF ToAlert
  <1>11. /\ Current \in Evidence \/ Current = None
         /\ Place = "set_alert" => Current \in Evidence
    BY DEF TypeOK, ProgressOK, Current, Place, Procs
  <1>12. ReadyInv'
    BY <1>1, <1>10, <1>11, ReadyFrame
  <1> QED BY <1>9, <1>12 DEF Simulated

LEMMA HearStep ==
  ASSUME TypeOK, LifeInv, AlertInv, ReadyInv, MarkEvidenceAsProcessed
  PROVE  Simulated
  <1>1. /\ Place = "mark" /\ Place' = "decide" /\ Current' = Current
        /\ processed' = processed \cup {Current}
        /\ UNCHANGED <<stored, whitelisted, alerts, accum>>
    BY SettersAssumption
       DEF MarkEvidenceAsProcessed, Goto, TypeOK, ProgressOK, Place, Current, Procs
  <1>2. PICK e \in Evidence : e = Current
    BY <1>1 DEF TypeOK, ProgressOK, Current, Place, Procs
  <1>3. e \notin processed /\ whitelisted \subseteq processed
    BY <1>1, <1>2 DEF LifeInv, QueueInv, WhitelistInv, Place, Current
  <1>4. e \in stored
    BY <1>2, <1>3 DEF LifeInv, AnnouncedKept, Announced, Current
  <1>5. ~InPastAlert(e)
    BY <1>3, AlertedWasHeard
  <1>6. \A f \in Evidence : InPastAlert(f)' = InPastAlert(f)
    BY <1>1 DEF InPastAlert
  <1>7. \A f \in Evidence : Undecided(f)' = (f = e) /\ ~Undecided(f)
    BY <1>1, <1>2 DEF Undecided, Place, Current
  <1>8. LifeOf(e) = "stored" /\ LifeOf(e)' = "heard"
    BY <1>1, <1>2, <1>3, <1>4, <1>5, <1>6, <1>7 DEF LifeOf
  <1>9. \A f \in Evidence \ {e} : LifeOf(f)' = LifeOf(f)
    BY <1>1, <1>2, <1>6, <1>7 DEF LifeOf
  <1>10. WeightMap' = WeightMap
    BY <1>1, WeightFrame
  <1>11. Life!Next
    BY <1>8, <1>9, <1>10, OneStep DEF Life!Next, Life!Hear, Life!Become
  <1>12. ReadyInv'
    BY <1>1 DEF ReadyInv
  <1> QED BY <1>11, <1>12 DEF Simulated

LEMMA DecideStep ==
  ASSUME TypeOK, LifeInv, AlertInv, ReadyInv, Decide
  PROVE  Simulated
  <1>1. /\ Place = "decide" /\ Place' \in {"delete", "check", "accumulate"}
        /\ Current' = Current
        /\ UNCHANGED <<stored, processed, alerts, accum>>
    BY SettersAssumption
       DEF Decide, Goto, TypeOK, ProgressOK, Place, Current, Procs
  <1>2. PICK e \in Evidence : e = Current
    BY <1>1 DEF TypeOK, ProgressOK, Current, Place, Procs
  <1>3. e \in processed /\ e \notin whitelisted
    BY <1>1, <1>2 DEF LifeInv, QueueInv, WhitelistInv, Place, Current
  <1>4. \A f \in Evidence : InPastAlert(f)' = InPastAlert(f)
    BY <1>1 DEF InPastAlert
  <1>5. \A f \in Evidence : Undecided(f) = (f = e)
    BY <1>1, <1>2 DEF Undecided, Place, Current
  <1>6. WeightMap' = WeightMap
    BY <1>1, WeightFrame
  <1>7. CASE e \in Whitelist
    <2>1. whitelisted' = whitelisted \cup {e} /\ Place' = "delete"
      BY <1>1, <1>2, <1>7 DEF Decide, Place, Current, Goto, TypeOK, ProgressOK, Procs
    <2>2. ~InPastAlert(e)
      BY <1>7, AlertedWasHeard
    <2>3. \A f \in Evidence : ~Undecided(f)'
      BY <2>1 DEF Undecided, Place
    <2>4. LifeOf(e) = "heard" /\ LifeOf(e)' = "dropped"
      BY <1>3, <1>5, <2>1, <2>2 DEF LifeOf
    <2>5. \A f \in Evidence \ {e} : LifeOf(f)' = LifeOf(f)
      BY <1>1, <1>4, <1>5, <2>1, <2>3 DEF LifeOf
    <2>6. Life!Next
      BY <1>6, <1>7, <2>4, <2>5, OneStep DEF Life!Next, Life!Drop, Life!Become
    <2>7. ReadyInv'
      BY <2>1 DEF ReadyInv
    <2> QED BY <2>6, <2>7 DEF Simulated
  <1>8. CASE e \notin Whitelist
    <2>1. /\ whitelisted' = whitelisted
          /\ Place' = IF IsFiltered(e) THEN "check" ELSE "accumulate"
      BY <1>1, <1>2, <1>8 DEF Decide, Place, Current, Goto, TypeOK, ProgressOK, Procs
    <2>2. \A f \in Evidence : Undecided(f)' = (f = e /\ ~IsFiltered(e))
      BY <1>1, <1>2, <2>1 DEF Undecided, Place, Current
    <2>3. \A f \in Evidence : LifeOf(f)' = LifeOf(f)
      BY <1>1, <1>4, <1>5, <2>1, <2>2 DEF LifeOf, IsFiltered
    <2>4. LifeMap' = LifeMap
      BY <2>3 DEF LifeMap
    <2>5. ReadyInv'
      <3>1. Place' = "accumulate" => e \notin Whitelist \cup ByOthers /\ ~InPastAlert(e)'
        BY <1>4, <1>8, <2>1 DEF IsFiltered
      <3>2. Current' = e
        BY <1>1, <1>2
      <3>3. InPastAlert(Current)' <=> InPastAlert(e)'
        BY <3>2 DEF InPastAlert
      <3> QED BY <1>1, <3>1, <3>2, <3>3 DEF ReadyInv
    <2> QED BY <1>6, <2>4, <2>5 DEF Simulated
  <1> QED BY <1>7, <1>8

LEMMA DeleteStep ==
  ASSUME TypeOK, LifeInv, ReadyInv, DeleteEvidence
  PROVE  Simulated
  <1>1. /\ Place = "delete" /\ Place' = "uncount"
        /\ stored' = stored \ {Current}
        /\ UNCHANGED <<processed, whitelisted, alerts, accum>>
    BY SettersAssumption
       DEF DeleteEvidence, Goto, TypeOK, ProgressOK, Place, Current, Procs
  <1>2. Current \in whitelisted
    BY <1>1 DEF LifeInv, WhitelistInv, Place, Current
  <1>3. LifeMap' = LifeMap
    BY <1>1, <1>2, LifeFrame DEF Elsewhere
  <1>4. WeightMap' = WeightMap
    BY <1>1, WeightFrame
  <1>5. ReadyInv'
    BY <1>1 DEF ReadyInv
  <1> QED BY <1>3, <1>4, <1>5 DEF Simulated

LEMMA CountStep ==
  ASSUME TypeOK, LifeInv, ReadyInv, Accumulate
  PROVE  Simulated
  <1>1. /\ Place = "accumulate" /\ Place' = "check" /\ Current' = Current
        /\ UNCHANGED <<stored, processed, whitelisted, alerts>>
    BY SettersAssumption
       DEF Accumulate, Goto, TypeOK, ProgressOK, Place, Current, Procs
  <1>2. PICK e \in Evidence : e = Current
    BY <1>1 DEF TypeOK, ProgressOK, Current, Place, Procs
  <1>3. accum' = [accum EXCEPT ![WindowOf[e]] = @ + Threat[e]]
    BY <1>2 DEF Accumulate, Current
  <1>4. e \notin Whitelist \cup ByOthers /\ ~InPastAlert(e)
    BY <1>1, <1>2 DEF ReadyInv
  <1>5. e \in processed /\ e \notin whitelisted
    BY <1>1, <1>2, <1>4 DEF LifeInv, QueueInv, WhitelistInv, Place, Current
  <1>6. \A f \in Evidence : /\ InPastAlert(f)' = InPastAlert(f)
                            /\ Undecided(f) = (f = e) /\ ~Undecided(f)'
    BY <1>1, <1>2 DEF InPastAlert, Undecided, Place, Current
  <1>7. LifeOf(e) = "heard" /\ LifeOf(e)' = "counted"
    BY <1>1, <1>4, <1>5, <1>6 DEF LifeOf
  <1>8. \A f \in Evidence \ {e} : LifeOf(f)' = LifeOf(f)
    BY <1>1, <1>6 DEF LifeOf
  <1>9. WeightMap' = [WeightMap EXCEPT ![WindowOf[e]] = @ + Threat[e]]
    <2>1. \A w \in Windows : WeightOf(w) = accum[w] /\ WeightOf(w)' = accum'[w]
      BY <1>1 DEF WeightOf, Place
    <2>2. WeightMap = accum /\ WeightMap' = accum'
      <3>1. accum = [w \in Windows |-> accum[w]] /\ accum' = [w \in Windows |-> accum'[w]]
        BY <1>3 DEF TypeOK
      <3> QED BY <2>1, <3>1 DEF WeightMap
    <2> QED BY <1>3, <2>2
  <1>10. Life!Next
    BY <1>4, <1>7, <1>8, <1>9, OneStep DEF Life!Next, Life!Count, Life!Become
  <1>11. ReadyInv'
    BY <1>1 DEF ReadyInv
  <1> QED BY <1>10, <1>11 DEF Simulated

(* The handler gathers exactly the evidence that counts.                   *)
LEMMA GatherStep ==
  ASSUME TypeOK, LifeInv, ReadyInv, CheckThreshold
  PROVE  Simulated
  <1>1. /\ Place = "check" /\ Place' \in {"set_alert", "idle"}
        /\ UNCHANGED <<stored, processed, whitelisted, alerts, accum>>
    BY SettersAssumption
       DEF CheckThreshold, Goto, Return, TypeOK, ProgressOK, Place, Procs, redis
  <1>2. UNCHANGED <<LifeMap, WeightMap>>
    BY <1>1, Stutter DEF Elsewhere
  <1>3. CASE Place' = "idle"
    BY <1>2, <1>3 DEF Simulated, ReadyInv
  <1>4. CASE Place' = "set_alert"
    <2>1. Current \in Evidence
      BY <1>1 DEF TypeOK, ProgressOK, Current, Place, Procs
    <2>2. PICK w \in Windows : w = WindowOf[Current]
      BY <2>1, EvidenceAssumption
    <2>3. Current' = Current /\ causing' = AlertEvidence(w) /\ accum[w] >= Threshold
      BY <1>4, <2>2, SettersAssumption
         DEF CheckThreshold, Return, Goto, Place, Current, TypeOK, ProgressOK, Procs
    <2>4. \A e \in Evidence : ~Undecided(e)
      BY <1>1 DEF Undecided, Place
    <2>5. \A e \in processed : e \in stored \/ e \in whitelisted
      BY DEF LifeInv, AnnouncedKept, Announced, TypeOK
    <2>6. processed \cap Whitelist = whitelisted
      BY <1>1 DEF LifeInv, WhitelistInv, Place
    <2>7. \A e \in Evidence : LifeOf(e) = "counted" <=>
            /\ e \in processed /\ e \notin whitelisted
            /\ ~InPastAlert(e) /\ e \notin ByOthers
      BY <2>4, <2>6 DEF LifeOf
    <2>8. AlertEvidence(w) = ToAlert(w)
      BY <2>5, <2>6, <2>7
         DEF AlertEvidence, TwidEvidence, IsEvidenceProcessed, IsFiltered, ToAlert, TypeOK
    <2>9. ToAlert(w)' = ToAlert(w)
      BY <1>2 DEF ToAlert, LifeMap
    <2>10. WindowOf[Current'] = w
      BY <2>2, <2>3
    <2>11. ToAlert(WindowOf[Current])' = ToAlert(w)'
      BY <2>10 DEF ToAlert
    <2>12. ReadyInv'
      BY <1>1, <1>4, <2>3, <2>8, <2>9, <2>10, <2>11 DEF ReadyInv
    <2> QED BY <1>2, <2>12 DEF Simulated
  <1> QED BY <1>1, <1>3, <1>4

LEMMA RaiseStep ==
  ASSUME TypeOK, LifeInv, AlertInv, ReadyInv, SetEvidenceCausingAlert
  PROVE  Simulated
  <1>1. /\ Place = "set_alert" /\ Place' = "reset" /\ Current' = Current
        /\ UNCHANGED <<stored, processed, whitelisted, accum>>
    BY SettersAssumption
       DEF SetEvidenceCausingAlert, Goto, TypeOK, ProgressOK, Place, Current, Procs
  <1>2. Current \in Evidence
    BY <1>1 DEF TypeOK, ProgressOK, Current, Place, Procs
  <1>3. PICK w \in Windows : w = WindowOf[Current]
    BY <1>2, EvidenceAssumption
  <1>4. PICK C \in SUBSET Evidence : C = causing
    BY DEF TypeOK
  <1>5. accum[w] >= Threshold /\ C = ToAlert(w) /\ C # {}
    BY <1>1, <1>3, <1>4 DEF ReadyInv, AlertInv, Place
  <1>6. /\ \A v \in Windows \ {w} : alerts'[v] = alerts[v]
        /\ alerts[w] \in Seq(SUBSET Evidence)
        /\ alerts'[w] = Append(alerts[w], C)
    BY <1>3, <1>4 DEF SetEvidenceCausingAlert, Current, TypeOK
  <1>7. /\ DOMAIN alerts'[w] = DOMAIN alerts[w] \cup {Len(alerts[w]) + 1}
        /\ alerts'[w][Len(alerts[w]) + 1] = C
        /\ \A i \in DOMAIN alerts[w] : alerts'[w][i] = alerts[w][i]
    BY <1>6
  <1>8. \A e \in Evidence : InPastAlert(e)' = (InPastAlert(e) \/ e \in C)
    <2>1. ASSUME NEW e \in Evidence, WindowOf[e] = w
          PROVE  InPastAlert(e)' = (InPastAlert(e) \/ e \in C)
      BY <1>7, <2>1 DEF InPastAlert
    <2>2. ASSUME NEW e \in Evidence, WindowOf[e] # w
          PROVE  InPastAlert(e)' = (InPastAlert(e) \/ e \in C)
      <3>1. WindowOf[e] \in Windows \ {w}
        BY <2>2, EvidenceAssumption
      <3>2. e \notin C
        BY <1>5, <2>2 DEF ToAlert
      <3> QED BY <1>6, <3>1, <3>2 DEF InPastAlert
    <2> QED BY <2>1, <2>2
  <1>9. \A e \in Evidence : ~Undecided(e) /\ ~Undecided(e)'
    BY <1>1 DEF Undecided, Place
  <1>10. \A e \in C : LifeOf(e) = "counted" /\ WindowOf[e] = w
    BY <1>5 DEF ToAlert
  <1>11. \A e \in C : e \notin whitelisted
    BY <1>10 DEF LifeOf
  <1>12. \A e \in Evidence : LifeOf(e)' = IF e \in C THEN "alerted" ELSE LifeOf(e)
    BY <1>1, <1>8, <1>9, <1>11 DEF LifeOf
  <1>13. C = Life!Counted(w)
    BY <1>5 DEF Life!Counted, ToAlert, LifeMap
  <1>14. LifeMap' = [e \in Evidence |-> IF e \in Life!Counted(w) THEN "alerted" ELSE LifeMap[e]]
    BY <1>12, <1>13 DEF LifeMap
  <1>15. /\ \A v \in Windows : WeightOf(v) = accum[v]
         /\ \A v \in Windows : WeightOf(v)' = IF v = w THEN 0 ELSE accum[v]
    BY <1>1, <1>3 DEF WeightOf, Place, Current
  <1>16. WeightMap[w] = accum[w] /\ WeightMap' = [WeightMap EXCEPT ![w] = 0]
    BY <1>15 DEF WeightMap
  <1>17. Life!Next
    BY <1>5, <1>13, <1>14, <1>16 DEF Life!Next, Life!Alert
  <1>18. ReadyInv'
    BY <1>1 DEF ReadyInv
  <1> QED BY <1>17, <1>18 DEF Simulated

LEMMA ResetStep ==
  ASSUME TypeOK, ReadyInv, ResetAccumulated
  PROVE  Simulated
  <1>1. /\ Place = "reset" /\ Place' = "read_max"
        /\ UNCHANGED <<stored, processed, whitelisted, alerts>>
    BY SettersAssumption DEF ResetAccumulated, Goto, TypeOK, ProgressOK, Place, Procs
  <1>2. LifeMap' = LifeMap
    <2>1. \A e \in Evidence : LifeOf(e)' = LifeOf(e)
      BY <1>1 DEF LifeOf, InPastAlert, Undecided, Place
    <2> QED BY <2>1 DEF LifeMap
  <1>3. WeightMap' = WeightMap
    <2>1. accum' = [accum EXCEPT ![WindowOf[Current]] = 0]
      BY DEF ResetAccumulated, Current
    <2>2. \A w \in Windows : WeightOf(w)' = WeightOf(w)
      BY <1>1, <2>1 DEF WeightOf, Place, Current, TypeOK
    <2> QED BY <2>2 DEF WeightMap
  <1>4. ReadyInv'
    BY <1>1 DEF ReadyInv
  <1> QED BY <1>2, <1>3, <1>4 DEF Simulated

-----------------------------------------------------------------------------
LEMMA SimulationStep ==
  ASSUME TypeOK, LifeInv, AlertInv, ReadyInv, [Next]_vars
  PROVE  Simulated
  <1> DEFINE Still == UNCHANGED <<whitelisted, alerts, processed, stored, accum>>
             Same == Place' = Place /\ Current' = Current /\ causing' = causing
             Away == {Place, Place'} \cap {"decide", "accumulate", "set_alert", "reset"} = {}
  <1>0. ASSUME Still, Same \/ Away PROVE Simulated
    BY <1>0, Quiet DEF Simulated
  <1> USE SettersAssumption
      DEF TypeOK, ProgressOK, At, Goto, Return, redis, sqlite, locals, bounds, Place, Current,
          Procs
  <1>1. ASSUME NEW e \in Evidence, SetEvidence(e) PROVE Still /\ Same
    BY <1>1 DEF SetEvidence
  <1>2. ASSUME NEW s \in Setters, SetFlowCausingEvidence(s) PROVE Still /\ Same
    BY <1>2 DEF SetFlowCausingEvidence
  <1>3. ASSUME NEW s \in Setters, EvidenceExists(s) PROVE Still /\ Same
    BY <1>3 DEF EvidenceExists
  <1>4. ASSUME NEW s \in Setters, IsWhitelistedEvidence(s) PROVE Still /\ Same
    BY <1>4 DEF IsWhitelistedEvidence
  <1>5. ASSUME NEW s \in Setters, CountEvidence(s) PROVE Still /\ Same
    BY <1>5 DEF CountEvidence
  <1>6. ASSUME NEW s \in Setters, PublishEvidence(s) PROVE Still /\ Same
    BY <1>6 DEF PublishEvidence
  <1>7. ASSUME NEW p \in Procs, ReadMaxLevel(p) PROVE Still /\ (Same \/ Away)
    BY <1>7 DEF ReadMaxLevel
  <1>8. ASSUME NEW p \in Procs, WriteMaxLevel(p) PROVE Still /\ (Same \/ Away)
    BY <1>8 DEF WriteMaxLevel
  <1>9. ASSUME NEW s \in Setters, KillSetter(s) PROVE Still /\ Same
    BY <1>9 DEF KillSetter
  <1>10. CASE ReceiveEvidence
    <2>1. Still /\ Away
      BY <1>10 DEF ReceiveEvidence
    <2> QED BY <1>0, <2>1
  <1>11. CASE UncountEvidence
    <2>1. Still /\ Away
      BY <1>11 DEF UncountEvidence
    <2> QED BY <1>0, <2>1
  <1>12. CASE GetFlowsCausingEvidence
    <2>1. Still /\ Away
      BY <1>12 DEF GetFlowsCausingEvidence
    <2> QED BY <1>0, <2>1
  <1>13. CASE SetFlowLabel
    <2>1. Still /\ Away
      BY <1>13 DEF SetFlowLabel
    <2> QED BY <1>0, <2>1
  <1>14. ASSUME NEW row \in Tables \X Uids, AddRow(row) PROVE Still /\ Same
    BY <1>14 DEF AddRow
  <1>15. CASE UNCHANGED vars
    <2>1. Still /\ Same
      BY <1>15 DEF vars
    <2> QED BY <1>0, <2>1
  <1> HIDE SettersAssumption
      DEF TypeOK, ProgressOK, At, Goto, Return, redis, sqlite, locals, bounds, Place, Current,
          Still, Same, Away
  <1>16. ASSUME NEW s \in Setters, SetterStep(s) PROVE Simulated
    BY <1>0, <1>2, <1>3, <1>4, <1>5, <1>6, <1>7, <1>8, <1>16, StoreStep DEF SetterStep
  <1>17. CASE HandlerStep
    BY <1>0, <1>7, <1>8, <1>10, <1>11, <1>12, <1>13, <1>17, HearStep, DecideStep, DeleteStep,
       CountStep, GatherStep, RaiseStep, ResetStep DEF HandlerStep
  <1> QED BY <1>0, <1>1, <1>9, <1>14, <1>15, <1>16, <1>17 DEF Next

(* Whatever the modules, the handler and the kills do, each evidence is    *)
(* stored, heard of, and dropped or counted once, and an alert takes all   *)
(* and only the evidence counted in its window since the last alert, when  *)
(* their weight reaches the threshold.                                     *)
THEOREM EvidenceImplementsLife == Spec => ImplementsLife
  <1> DEFINE Inv == TypeOK /\ LifeInv /\ AlertInv /\ ReadyInv
  <1>1. Init => Inv
    BY TypeInit, LifeInit, AlertInit, ReadyInit
  <1>2. Inv /\ [Next]_vars => Inv'
    BY TypeStep, LifeStep, AlertStep, SimulationStep DEF Simulated
  <1>3. Inv /\ [Next]_vars => [Life!Next]_<<LifeMap, WeightMap>>
    BY SimulationStep DEF Simulated
  <1>4. Init => Life!Init
    <2> SUFFICES ASSUME Init PROVE Life!Init
      OBVIOUS
    <2>1. ASSUME NEW e \in Evidence PROVE LifeOf(e) = "unknown"
      BY EvidenceAssumption DEF Init, LifeOf, InPastAlert
    <2>2. ASSUME NEW w \in Windows PROVE WeightOf(w) = 0
      BY SettersAssumption DEF Init, WeightOf, Procs
    <2> QED BY <2>1, <2>2 DEF Life!Init, LifeMap, WeightMap
  <1> HIDE DEF Inv
  <1> QED BY <1>1, <1>2, <1>3, <1>4, PTL DEF Spec, ImplementsLife, Life!Spec

-----------------------------------------------------------------------------
(***************************************************************************)
(* Induction, without operators: a set of numbers with 0 and every         *)
(* successor is Nat, because what is missing would have a least element.   *)
(***************************************************************************)
Below == {ss \in Nat \X Nat : ss[1] < ss[2]}

LEMMA BelowWellFounded == IsWellFoundedOn(Below, Nat)
  <1>1. IsWellFoundedOn(OpToRel(<, Nat), Nat)
    BY NatLessThanWellFounded
  <1>2. OpToRel(<, Nat) = Below
    BY Zenon DEF OpToRel, Below
  <1> QED BY <1>1, <1>2, Zenon

LEMMA Induction ==
  ASSUME NEW S, 0 \in S, \A n \in Nat : n \in S => n + 1 \in S
  PROVE  Nat \subseteq S
  <1> SUFFICES ASSUME Nat \ S # {} PROVE FALSE
    OBVIOUS
  <1>1. PICK n \in Nat \ S : \A m \in Nat \ S : ~(<<m, n>> \in Below)
    BY WFMin, BelowWellFounded
  <1>2. n # 0 /\ n - 1 \in Nat
    OBVIOUS
  <1>3. n - 1 \in S
    <2>1. <<n - 1, n>> \in Below
      BY <1>2 DEF Below
    <2> QED BY <1>1, <1>2, <2>1
  <1>4. (n - 1) + 1 \in S
    BY <1>2, <1>3
  <1> QED BY <1>4

(* A set of subsets with every subset whose smaller ones it has, has all.  *)
LEMMA SubsetInduction ==
  ASSUME NEW X, IsFiniteSet(X), NEW Good,
         \A s \in SUBSET X : (\A x \in s : s \ {x} \in Good) => s \in Good
  PROVE  SUBSET X \subseteq Good
  <1> DEFINE Sizes == {n \in Nat : \A s \in SUBSET X : Cardinality(s) <= n => s \in Good}
  <1>0. ASSUME NEW s \in SUBSET X
        PROVE  IsFiniteSet(s) /\ Cardinality(s) \in Nat
    BY FS_Subset, FS_CardinalityType
  <1>1. ASSUME NEW n \in Nat,
               \A s \in SUBSET X : \A x \in s : Cardinality(s) <= n => s \ {x} \in Good
        PROVE  n \in Sizes
    BY <1>1
  <1>2. 0 \in Sizes
    <2>1. ASSUME NEW s \in SUBSET X, NEW x \in s PROVE ~(Cardinality(s) <= 0)
      BY <1>0, FS_EmptySet
    <2> QED BY <1>1, <2>1
  <1>3. ASSUME NEW n \in Nat, n \in Sizes PROVE n + 1 \in Sizes
    <2>1. ASSUME NEW s \in SUBSET X, NEW x \in s, Cardinality(s) <= n + 1
          PROVE  s \ {x} \in Good
      <3>1. Cardinality(s \ {x}) = Cardinality(s) - 1
        BY <1>0, FS_RemoveElement
      <3> QED BY <1>0, <1>3, <2>1, <3>1
    <2> QED BY <1>1, <2>1
  <1> HIDE DEF Sizes
  <1>4. Nat \subseteq Sizes
    BY <1>2, <1>3, Induction
  <1>5. ASSUME NEW s \in SUBSET X PROVE s \in Good
    BY <1>0, <1>4 DEF Sizes
  <1> QED BY <1>5

(***************************************************************************)
(* Sums of threat levels.  MapThenSumSet adds them in an order it chooses; *)
(* it adds each of them once, in any order.                                *)
(***************************************************************************)
Some(s) == CHOOSE x \in s : TRUE
SumStep(g, s) == IF s = {} THEN 0 ELSE Threat[Some(s)] + g[s \ {Some(s)}]
Sums(g, X) == g = [s \in SUBSET X |-> SumStep(g, s)]
TotalThreat(S) == MapThenSumSet(LAMBDA e : Threat[e], S)

LEMMA SumsExist ==
  ASSUME NEW X, IsFiniteSet(X)
  PROVE  \E g : Sums(g, X)
  <1> DEFINE Small(k) == {s \in SUBSET X : Cardinality(s) <= k}
             Part(g, k) == g = [s \in Small(k) |-> SumStep(g, s)]
             Sizes == {k \in Nat : \E g : Part(g, k)}
  <1>0. ASSUME NEW s \in SUBSET X
        PROVE  /\ IsFiniteSet(s) /\ Cardinality(s) \in Nat
               /\ s # {} => Some(s) \in s /\ Cardinality(s \ {Some(s)}) = Cardinality(s) - 1
    <2>1. IsFiniteSet(s) /\ Cardinality(s) \in Nat
      BY FS_Subset, FS_CardinalityType
    <2>2. s # {} => Some(s) \in s
      BY DEF Some
    <2> QED BY <2>1, <2>2, FS_RemoveElement
  <1>1. 0 \in Sizes
    <2> DEFINE g == [s \in Small(0) |-> 0]
    <2>1. ASSUME NEW s \in Small(0) PROVE s = {}
      <3>1. s \in SUBSET X /\ Cardinality(s) <= 0
        OBVIOUS
      <3>2. IsFiniteSet(s) /\ Cardinality(s) \in Nat
        BY <3>1, FS_Subset, FS_CardinalityType
      <3>3. Cardinality(s) = 0
        BY <3>1, <3>2
      <3> QED BY <3>2, <3>3, FS_EmptySet
    <2>2. Part(g, 0)
      <3> HIDE DEF Small
      <3> QED BY <2>1 DEF SumStep
    <2> HIDE DEF g, Part
    <2> QED BY <2>2
  <1>2. ASSUME NEW k \in Nat, k \in Sizes PROVE k + 1 \in Sizes
    <2>1. PICK g : Part(g, k)
      BY <1>2
    <2> DEFINE h == [s \in Small(k + 1) |-> SumStep(g, s)]
    <2>2. ASSUME NEW s \in Small(k + 1), s # {} PROVE s \ {Some(s)} \in Small(k)
      BY <1>0, <2>2
    <2>3. ASSUME NEW s \in Small(k) PROVE s \in Small(k + 1)
      <3>1. s \in SUBSET X /\ Cardinality(s) \in Nat /\ Cardinality(s) <= k
        BY <1>0
      <3> QED BY <3>1
    <2> HIDE DEF Small
    <2>4. ASSUME NEW s \in Small(k) PROVE h[s] = g[s]
      BY <2>1, <2>3
    <2>5. ASSUME NEW s \in Small(k + 1) PROVE SumStep(h, s) = SumStep(g, s)
      <3>1. s # {} => h[s \ {Some(s)}] = g[s \ {Some(s)}]
        BY <2>2, <2>4
      <3> HIDE DEF h
      <3> QED BY <3>1 DEF SumStep
    <2>6. Part(h, k + 1)
      BY <2>5
    <2> HIDE DEF h, Part
    <2> QED BY <2>6
  <1> HIDE DEF Sizes
  <1>3. Cardinality(X) \in Sizes
    BY <1>0, <1>1, <1>2, Induction
  <1>4. PICK g : Part(g, Cardinality(X))
    BY <1>3 DEF Sizes
  <1>5. Small(Cardinality(X)) = SUBSET X
    BY FS_Subset, FS_CardinalityType
  <1> HIDE DEF Small
  <1> QED BY <1>4, <1>5 DEF Sums

LEMMA TotalIsASum ==
  ASSUME NEW X, IsFiniteSet(X)
  PROVE  \E g : Sums(g, X) /\ TotalThreat(X) = g[X]
  <1> DEFINE g == CHOOSE iter : iter = [s \in SUBSET X |->
                     IF s = {} THEN 0
                     ELSE LET x == CHOOSE y \in s : TRUE IN Threat[x] + iter[s \ {x}]]
  <1>1. TotalThreat(X) = g[X]
    BY DEF TotalThreat, MapThenSumSet, MapThenFoldSet
  <1>2. Sums(g, X)
    BY SumsExist DEF Sums, SumStep, Some
  <1> HIDE DEF g
  <1> QED BY <1>1, <1>2

LEMMA SumsNat ==
  ASSUME NEW X \in SUBSET Evidence, NEW g, Sums(g, X)
  PROVE  \A s \in SUBSET X : g[s] \in Nat
  <1> DEFINE Good == {s \in SUBSET X : g[s] \in Nat}
  <1>f. IsFiniteSet(X)
    BY EvidenceAssumption, FS_Subset
  <1>1. ASSUME NEW s \in SUBSET X, \A x \in s : s \ {x} \in Good PROVE s \in Good
    <2>1. g[s] = SumStep(g, s)
      BY DEF Sums
    <2>2. s # {} => Some(s) \in s /\ Threat[Some(s)] \in Nat
      BY EvidenceAssumption DEF Some
    <2>3. s # {} => g[s \ {Some(s)}] \in Nat
      BY <1>1, <2>2
    <2> QED BY <2>1, <2>2, <2>3 DEF SumStep
  <1> HIDE DEF Good
  <1>2. SUBSET X \subseteq Good
    BY <1>f, <1>1, SubsetInduction
  <1> QED BY <1>2 DEF Good

(* In every sum of threat levels any element can be taken out first.       *)
LEMMA SumsRemove ==
  ASSUME NEW X \in SUBSET Evidence, NEW g, Sums(g, X)
  PROVE  \A s \in SUBSET X : \A x \in s : g[s] = Threat[x] + g[s \ {x}]
  <1> DEFINE Good == {s \in SUBSET X : \A x \in s : g[s] = Threat[x] + g[s \ {x}]}
  <1>f. IsFiniteSet(X)
    BY EvidenceAssumption, FS_Subset
  <1>1. ASSUME NEW s \in SUBSET X, \A x \in s : s \ {x} \in Good PROVE s \in Good
    <2>1. ASSUME NEW x \in s PROVE g[s] = Threat[x] + g[s \ {x}]
      <3> DEFINE y == Some(s)
      <3>1. y \in s /\ g[s] = Threat[y] + g[s \ {y}]
        BY <2>1 DEF Sums, SumStep, Some
      <3> HIDE DEF y
      <3>2. CASE x # y
        <4>1. g[s \ {x}] = Threat[y] + g[(s \ {x}) \ {y}]
          BY <1>1, <3>1, <3>2
        <4>2. g[s \ {y}] = Threat[x] + g[(s \ {y}) \ {x}]
          BY <1>1, <3>1, <3>2
        <4>3. (s \ {y}) \ {x} = (s \ {x}) \ {y}
          OBVIOUS
        <4>4. g[(s \ {x}) \ {y}] \in Nat
          BY SumsNat
        <4>5. Threat[x] \in Nat /\ Threat[y] \in Nat
          BY <3>1, EvidenceAssumption
        <4> DEFINE rest == g[(s \ {x}) \ {y}]
        <4>6. g[s \ {x}] = Threat[y] + rest /\ g[s \ {y}] = Threat[x] + rest /\ rest \in Nat
          BY <4>1, <4>2, <4>3, <4>4
        <4> HIDE DEF rest
        <4> QED BY <3>1, <4>5, <4>6
      <3> QED BY <3>1, <3>2
    <2> QED BY <2>1
  <1> HIDE DEF Good
  <1>2. SUBSET X \subseteq Good
    BY <1>f, <1>1, SubsetInduction
  <1> QED BY <1>2 DEF Good

(* Two sums agree on the sets they are both about.                         *)
LEMMA SumsAgree ==
  ASSUME NEW X \in SUBSET Evidence, NEW Y \in SUBSET X, NEW g, NEW h, Sums(g, X), Sums(h, Y)
  PROVE  g[Y] = h[Y]
  <1> DEFINE Good == {s \in SUBSET Y : g[s] = h[s]}
  <1>f. IsFiniteSet(Y)
    BY EvidenceAssumption, FS_Subset
  <1>1. ASSUME NEW s \in SUBSET Y, \A x \in s : s \ {x} \in Good PROVE s \in Good
    <2>1. g[s] = SumStep(g, s) /\ h[s] = SumStep(h, s)
      BY DEF Sums
    <2>2. s # {} => Some(s) \in s
      BY DEF Some
    <2>3. s # {} => g[s \ {Some(s)}] = h[s \ {Some(s)}]
      BY <1>1, <2>2
    <2> QED BY <2>1, <2>3 DEF SumStep
  <1> HIDE DEF Good
  <1>2. SUBSET Y \subseteq Good
    BY <1>f, <1>1, SubsetInduction
  <1> QED BY <1>2 DEF Good

(* What MapThenSumSet computes: nothing for no evidence, and one more      *)
(* threat level for one more evidence.                                     *)
THEOREM TotalThreatAdds ==
  /\ TotalThreat({}) = 0
  /\ \A S \in SUBSET Evidence : TotalThreat(S) \in Nat
  /\ \A S \in SUBSET Evidence : \A e \in Evidence \ S :
       TotalThreat(S \cup {e}) = TotalThreat(S) + Threat[e]
  <1>1. ASSUME NEW S \in SUBSET Evidence
        PROVE  \E g : Sums(g, S) /\ TotalThreat(S) = g[S] /\ g[S] \in Nat
    <2>1. IsFiniteSet(S)
      BY EvidenceAssumption, FS_Subset
    <2>2. PICK g : Sums(g, S) /\ TotalThreat(S) = g[S]
      BY <2>1, TotalIsASum
    <2> QED BY <2>2, SumsNat
  <1>2. TotalThreat({}) = 0
    <2>1. PICK g : Sums(g, {}) /\ TotalThreat({}) = g[{}]
      BY <1>1
    <2> QED BY <2>1 DEF Sums, SumStep
  <1>3. ASSUME NEW S \in SUBSET Evidence, NEW e \in Evidence \ S
        PROVE  TotalThreat(S \cup {e}) = TotalThreat(S) + Threat[e]
    <2>1. PICK g : Sums(g, S \cup {e}) /\ TotalThreat(S \cup {e}) = g[S \cup {e}]
      BY <1>1
    <2>2. PICK h : Sums(h, S) /\ TotalThreat(S) = h[S] /\ h[S] \in Nat
      BY <1>1
    <2>3. g[S \cup {e}] = Threat[e] + g[(S \cup {e}) \ {e}]
      BY <2>1, SumsRemove
    <2>4. (S \cup {e}) \ {e} = S
      OBVIOUS
    <2>5. g[S] = h[S]
      BY <2>1, <2>2, SumsAgree
    <2>6. Threat[e] \in Nat
      BY EvidenceAssumption
    <2>7. TotalThreat(S \cup {e}) = Threat[e] + h[S]
      BY <2>1, <2>3, <2>4, <2>5
    <2> QED BY <2>2, <2>6, <2>7
  <1> QED BY <1>1, <1>2, <1>3

(***************************************************************************)
(* The accumulated threat level, by the refinement: what EvidenceLife      *)
(* weighs in a window is what the evidence counted there adds up to.       *)
(***************************************************************************)
WeightInv == \A w \in Windows : WeightMap[w] = TotalThreat(ToAlert(w))

LEMMA WeightInit == Init => WeightInv
  <1> SUFFICES ASSUME Init, NEW w \in Windows PROVE WeightMap[w] = TotalThreat(ToAlert(w))
    BY DEF WeightInv
  <1>1. ToAlert(w) = {}
    BY EvidenceAssumption DEF Init, ToAlert, LifeOf, InPastAlert
  <1>2. WeightMap[w] = 0
    BY SettersAssumption DEF Init, WeightMap, WeightOf
  <1> QED BY <1>1, <1>2, TotalThreatAdds

LEMMA WeightStep ==
  ASSUME WeightInv, Life!Next \/ UNCHANGED <<LifeMap, WeightMap>>
  PROVE  WeightInv'
  <1> SUFFICES ASSUME NEW w \in Windows PROVE WeightMap'[w] = TotalThreat(ToAlert(w)')
    BY DEF WeightInv
  <1>1. WeightMap[w] = TotalThreat(ToAlert(w))
    BY DEF WeightInv
  <1>2. /\ ToAlert(w) = {e \in Evidence : LifeMap[e] = "counted" /\ WindowOf[e] = w}
        /\ ToAlert(w)' = {e \in Evidence : LifeMap'[e] = "counted" /\ WindowOf[e] = w}
    BY DEF ToAlert, LifeMap
  <1>3. /\ LifeMap = [e \in Evidence |-> LifeMap[e]]
        /\ WeightMap = [v \in Windows |-> WeightMap[v]]
    BY DEF LifeMap, WeightMap
  <1> HIDE DEF ToAlert, LifeMap, WeightMap
  <1>4. ASSUME ToAlert(w)' = ToAlert(w), WeightMap'[w] = WeightMap[w]
        PROVE  WeightMap'[w] = TotalThreat(ToAlert(w)')
    BY <1>1, <1>4
  <1>5. CASE UNCHANGED <<LifeMap, WeightMap>>
    BY <1>2, <1>4, <1>5
  <1>6. ASSUME NEW e \in Evidence, Life!Store(e) \/ Life!Hear(e) \/ Life!Drop(e)
        PROVE  WeightMap'[w] = TotalThreat(ToAlert(w)')
    <2>1. ToAlert(w)' = ToAlert(w)
      BY <1>2, <1>3, <1>6 DEF Life!Store, Life!Hear, Life!Drop, Life!Become
    <2> QED BY <1>4, <1>6, <2>1 DEF Life!Store, Life!Hear, Life!Drop
  <1>7. ASSUME NEW e \in Evidence, Life!Count(e)
        PROVE  WeightMap'[w] = TotalThreat(ToAlert(w)')
    <2>1. /\ LifeMap[e] = "heard"
          /\ LifeMap' = [LifeMap EXCEPT ![e] = "counted"]
          /\ WeightMap' = [WeightMap EXCEPT ![WindowOf[e]] = @ + Threat[e]]
      BY <1>7 DEF Life!Count, Life!Become
    <2>2. CASE WindowOf[e] = w
      <3>1. ToAlert(w)' = ToAlert(w) \cup {e} /\ e \notin ToAlert(w)
        BY <1>2, <1>3, <2>1, <2>2
      <3>2. WeightMap'[w] = WeightMap[w] + Threat[e]
        BY <1>3, <2>1, <2>2
      <3>3. ToAlert(w) \in SUBSET Evidence
        BY <1>2
      <3> QED BY <1>1, <3>1, <3>2, <3>3, TotalThreatAdds
    <2>3. CASE WindowOf[e] # w
      <3>1. ToAlert(w)' = ToAlert(w)
        BY <1>2, <1>3, <2>1, <2>3
      <3>2. WeightMap'[w] = WeightMap[w]
        BY <1>3, <2>1, <2>3
      <3> QED BY <1>4, <3>1, <3>2
    <2> QED BY <2>2, <2>3
  <1>8. ASSUME NEW v \in Windows, Life!Alert(v)
        PROVE  WeightMap'[w] = TotalThreat(ToAlert(w)')
    <2>1. /\ LifeMap' = [e \in Evidence |->
                           IF LifeMap[e] = "counted" /\ WindowOf[e] = v THEN "alerted" ELSE LifeMap[e]]
          /\ WeightMap' = [WeightMap EXCEPT ![v] = 0]
      BY <1>8 DEF Life!Alert, Life!Counted
    <2>2. CASE v = w
      <3>1. ToAlert(w)' = {}
        BY <1>2, <2>1, <2>2
      <3>2. WeightMap'[w] = 0
        BY <1>3, <2>1, <2>2
      <3> QED BY <3>1, <3>2, TotalThreatAdds
    <2>3. CASE v # w
      <3>1. ToAlert(w)' = ToAlert(w)
        BY <1>2, <2>1, <2>3
      <3>2. WeightMap'[w] = WeightMap[w]
        BY <1>3, <2>1, <2>3
      <3> QED BY <1>4, <3>1, <3>2
    <2> QED BY <2>2, <2>3
  <1> QED BY <1>5, <1>6, <1>7, <1>8 DEF Life!Next

LEMMA AccumulatedIsWeight ==
  ASSUME TypeOK, LifeInv, WeightInv
  PROVE  AccumulatedMatchesEvidence
  <1> SUFFICES ASSUME pc[Handler] = "idle", NEW w \in Windows
               PROVE  accum[w] = MapThenSumSet(LAMBDA e : Threat[e], Pending(w))
    BY DEF AccumulatedMatchesEvidence
  <1>1. WeightMap[w] = accum[w]
    BY DEF WeightMap, WeightOf
  <1>2. Pending(w) = ToAlert(w)
    <2>1. ASSUME NEW e \in Evidence PROVE e \in Pending(w) <=> e \in ToAlert(w)
      BY DEF Pending, ToAlert, LifeOf, Undecided, IsFiltered, LifeInv, WhitelistInv
    <2>2. Pending(w) \subseteq Evidence /\ ToAlert(w) \subseteq Evidence
      BY DEF TypeOK, Pending, ToAlert
    <2> QED BY <2>1, <2>2
  <1> QED BY <1>1, <1>2 DEF WeightInv, TotalThreat

(* Whenever the handler is between two evidence, accumulated_threat_levels *)
(* of each window is the sum over the evidence it processed there since    *)
(* the last alert: set_alert's reset, the filter and the whitelist neither *)
(* drop nor double any of it.                                              *)
THEOREM AccumulatedIsTheSum == Spec => []AccumulatedMatchesEvidence
  <1> DEFINE Inv == TypeOK /\ LifeInv /\ AlertInv /\ ReadyInv /\ WeightInv
  <1>1. Init => Inv
    BY TypeInit, LifeInit, AlertInit, ReadyInit, WeightInit
  <1>2. Inv /\ [Next]_vars => Inv'
    BY TypeStep, LifeStep, AlertStep, SimulationStep, WeightStep DEF Simulated
  <1>3. Inv => AccumulatedMatchesEvidence
    BY AccumulatedIsWeight
  <1> HIDE DEF Inv
  <1> QED BY <1>1, <1>2, <1>3, PTL DEF Spec

-----------------------------------------------------------------------------
(***************************************************************************)
(* The labels.  An evidence is announced after its uids were recorded, so  *)
(* set_alert finds them; until it returns, a row whose turn has not come   *)
(* is still in its list.                                                   *)
(***************************************************************************)
RecordedPcs == {"exists", "whitelist", "store", "count", "publish"}

FlowsRecorded ==
  /\ \A s \in Setters : pc[s] \in RecordedPcs => cur[s] \in flowsOf
  /\ \A i \in 1..Len(queue) : queue[i] \in flowsOf
  /\ pc[Handler] # "idle" => cur[Handler] \in flowsOf
  /\ processed \subseteq flowsOf

AlertPcs == {"reset", "read_max", "write_max", "get_uids"}
CausingUids == UNION {UidsOf[e] : e \in causing}

\* set_alert has still to come to this row.
ToLabel(row) ==
  \/ pc[Handler] \in AlertPcs /\ row[2] \in CausingUids
  \/ pc[Handler] = "label" /\ row \in uidsLeft

RowsLabelled ==
  \A row \in AlertedRows \ late : label[row] \in {None, "malicious"} \/ ToLabel(row)

LabelInv ==
  /\ FlowsRecorded
  /\ pc[Handler] \in AlertPcs => causing \subseteq processed
  /\ RowsLabelled

LEMMA LabelInit == Init => LabelInv
  BY SettersAssumption
     DEF Init, LabelInv, FlowsRecorded, RecordedPcs, AlertPcs, RowsLabelled, AlertedRows,
         AlertedUids, InPastAlert

\* A step that records no flow, announces nothing and takes nothing.
LEMMA FlowsFrame ==
  ASSUME TypeOK, FlowsRecorded, flowsOf \subseteq flowsOf', UNCHANGED <<queue, processed>>,
         \A s \in Setters : pc'[s] \in RecordedPcs =>
            cur'[s] = cur[s] /\ (pc[s] \in RecordedPcs \/ cur[s] \in flowsOf'),
         pc'[Handler] # "idle" => pc[Handler] # "idle" /\ cur'[Handler] = cur[Handler]
  PROVE  FlowsRecorded'
  BY DEF FlowsRecorded

LEMMA FlowsStep == TypeOK /\ FlowsRecorded /\ [Next]_vars => FlowsRecorded'
  <1> SUFFICES ASSUME TypeOK, FlowsRecorded, [Next]_vars PROVE FlowsRecorded'
    OBVIOUS
  <1> DEFINE Frame ==
        /\ flowsOf \subseteq flowsOf' /\ UNCHANGED <<queue, processed>>
        /\ \A s \in Setters : pc'[s] \in RecordedPcs =>
              cur'[s] = cur[s] /\ (pc[s] \in RecordedPcs \/ cur[s] \in flowsOf')
        /\ pc'[Handler] # "idle" => pc[Handler] # "idle" /\ cur'[Handler] = cur[Handler]
  <1>0. Frame => FlowsRecorded'
    BY FlowsFrame
  <1> USE SettersAssumption
      DEF TypeOK, ProgressOK, At, Goto, Return, redis, sqlite, locals, bounds, RecordedPcs
  <1>1. ASSUME NEW e \in Evidence, SetEvidence(e) PROVE Frame
    BY <1>1 DEF SetEvidence
  <1>2. ASSUME NEW s \in Setters, SetFlowCausingEvidence(s) PROVE Frame
    BY <1>2 DEF SetFlowCausingEvidence
  <1>3. ASSUME NEW s \in Setters, EvidenceExists(s) PROVE Frame
    BY <1>3 DEF EvidenceExists
  <1>4. ASSUME NEW s \in Setters, IsWhitelistedEvidence(s) PROVE Frame
    BY <1>4 DEF IsWhitelistedEvidence
  <1>5. ASSUME NEW s \in Setters, StoreEvidence(s) PROVE Frame
    BY <1>5 DEF StoreEvidence
  <1>6. ASSUME NEW s \in Setters, CountEvidence(s) PROVE Frame
    BY <1>6 DEF CountEvidence
  <1>7. ASSUME NEW s \in Setters, PublishEvidence(s) PROVE FlowsRecorded'
    <2>1. /\ Len(queue') = Len(queue) + 1 /\ Len(queue) \in Nat
          /\ queue'[Len(queue) + 1] = cur[s]
          /\ \A i \in 1..Len(queue) : queue'[i] = queue[i]
      BY <1>7 DEF PublishEvidence
    <2>2. cur[s] \in flowsOf
      BY <1>7 DEF PublishEvidence, FlowsRecorded
    <2>3. \A i \in 1..Len(queue') : queue'[i] \in flowsOf
      <3> HIDE DEF TypeOK, ProgressOK
      <3>1. \A i \in 1..Len(queue') : i \in 1..Len(queue) \/ i = Len(queue) + 1
        BY <2>1
      <3> QED BY <2>1, <2>2, <3>1 DEF FlowsRecorded
    <2>4. /\ \A r \in Setters : pc'[r] \in RecordedPcs => pc[r] \in RecordedPcs
          /\ pc'[Handler] = pc[Handler]
          /\ UNCHANGED <<cur, processed, flowsOf>>
      BY <1>7 DEF PublishEvidence
    <2> HIDE DEF TypeOK, ProgressOK, RecordedPcs
    <2> QED BY <2>3, <2>4 DEF FlowsRecorded
  <1>8. ASSUME NEW p \in Procs, ReadMaxLevel(p) PROVE Frame
    BY <1>8 DEF ReadMaxLevel
  <1>9. ASSUME NEW p \in Procs, WriteMaxLevel(p) PROVE Frame
    BY <1>9 DEF WriteMaxLevel
  <1>10. ASSUME NEW s \in Setters, KillSetter(s) PROVE Frame
    BY <1>10 DEF KillSetter
  <1>11. CASE ReceiveEvidence
    <2>1. /\ Len(queue) \in Nat /\ Len(queue) > 0
          /\ Len(queue') = Len(queue) - 1
          /\ \A i \in 1..Len(queue') : queue'[i] = queue[i + 1]
          /\ \A i \in 1..Len(queue') : i + 1 \in 1..Len(queue)
          /\ cur'[Handler] = queue[1]
          /\ 1 \in 1..Len(queue)
      BY SMTT(30), <1>11 DEF ReceiveEvidence
    <2>2. /\ \A s \in Setters : pc'[s] = pc[s] /\ cur'[s] = cur[s]
          /\ UNCHANGED <<processed, flowsOf>>
      BY <1>11 DEF ReceiveEvidence
    <2> HIDE DEF TypeOK, ProgressOK
    <2> QED BY <2>1, <2>2 DEF FlowsRecorded
  <1>12. CASE MarkEvidenceAsProcessed
    BY <1>12 DEF MarkEvidenceAsProcessed, FlowsRecorded
  <1>13. CASE Decide
    <2>1. Frame
      BY <1>13 DEF Decide
    <2> QED BY <1>0, <2>1
  <1>14. CASE DeleteEvidence
    <2>1. Frame
      BY <1>14 DEF DeleteEvidence
    <2> QED BY <1>0, <2>1
  <1>15. CASE UncountEvidence
    <2>1. Frame
      BY <1>15 DEF UncountEvidence
    <2> QED BY <1>0, <2>1
  <1>16. CASE Accumulate
    <2>1. Frame
      BY <1>16 DEF Accumulate
    <2> QED BY <1>0, <2>1
  <1>17. CASE CheckThreshold
    <2>1. Frame
      BY <1>17 DEF CheckThreshold
    <2> QED BY <1>0, <2>1
  <1>18. CASE SetEvidenceCausingAlert
    <2>1. Frame
      BY <1>18 DEF SetEvidenceCausingAlert
    <2> QED BY <1>0, <2>1
  <1>19. CASE ResetAccumulated
    <2>1. Frame
      BY <1>19 DEF ResetAccumulated
    <2> QED BY <1>0, <2>1
  <1>20. CASE GetFlowsCausingEvidence
    <2>1. Frame
      BY <1>20 DEF GetFlowsCausingEvidence
    <2> QED BY <1>0, <2>1
  <1>21. CASE SetFlowLabel
    <2>1. Frame
      BY <1>21 DEF SetFlowLabel
    <2> QED BY <1>0, <2>1
  <1>22. ASSUME NEW row \in Tables \X Uids, AddRow(row) PROVE Frame
    BY <1>22 DEF AddRow
  <1>23. CASE UNCHANGED vars
    BY <1>23 DEF vars, FlowsRecorded
  <1> HIDE DEF Frame
  <1> QED
    BY <1>0, <1>1, <1>2, <1>3, <1>4, <1>5, <1>6, <1>7, <1>8, <1>9, <1>10, <1>11, <1>12, <1>13,
       <1>14, <1>15, <1>16, <1>17, <1>18, <1>19, <1>20, <1>21, <1>22, <1>23
       DEF Next, SetterStep, HandlerStep

\* What a step away from set_alert keeps.
LEMMA RowsFrame ==
  ASSUME TypeOK, RowsLabelled, AlertedUids' \subseteq AlertedUids, UNCHANGED <<label, late>>,
         \A row \in Tables \X Uids : ToLabel(row) => ToLabel(row)'
  PROVE  RowsLabelled'
  <1>1. ASSUME NEW row \in (AlertedRows \ late)' PROVE row \in AlertedRows \ late
    BY DEF AlertedRows
  <1> QED BY <1>1 DEF RowsLabelled, AlertedRows

\* An evidence in an alert was processed when the alert was made.
LEMMA MarkAddsNoAlerted ==
  ASSUME TypeOK, AlertInv, alerts' = alerts, NEW e \in Evidence,
         processed' \subseteq processed \cup {e}
  PROVE  AlertedUids' \subseteq AlertedUids
  <1>1. ASSUME NEW f \in Evidence, InPastAlert(f) PROVE f \in processed
    BY <1>1, AlertedWasHeard
  <1>2. \A f \in Evidence : InPastAlert(f)' = InPastAlert(f)
    BY DEF InPastAlert
  <1>3. \A f \in processed' : f \in Evidence
    BY DEF TypeOK
  <1>4. ASSUME NEW f \in processed', InPastAlert(f)' PROVE f \in processed /\ InPastAlert(f)
    BY <1>1, <1>2, <1>3, <1>4
  <1> QED BY <1>4 DEF AlertedUids

\* The rows are as they were, and set_alert has the same rows to come to.
LEMMA RowsKept ==
  ASSUME TypeOK, RowsLabelled, UNCHANGED <<label, late, processed, alerts>>,
         \/ UNCHANGED <<causing, uidsLeft>> /\ pc'[Handler] = pc[Handler]
         \/ UNCHANGED <<causing, uidsLeft>> /\ {pc[Handler], pc'[Handler]} \subseteq AlertPcs
         \/ pc[Handler] \notin AlertPcs \cup {"label"}
  PROVE  RowsLabelled'
  <1>1. \A f : InPastAlert(f)' = InPastAlert(f)
    BY DEF InPastAlert
  <1>2. AlertedUids' = AlertedUids
    BY <1>1 DEF AlertedUids
  <1>3. CausingUids' = CausingUids \/ pc[Handler] \notin AlertPcs
    BY DEF CausingUids
  <1>4. ASSUME NEW row \in Tables \X Uids, ToLabel(row) PROVE ToLabel(row)'
    BY <1>3, <1>4 DEF ToLabel, AlertPcs
  <1> QED BY <1>2, <1>4, RowsFrame

\* The new alert adds the uids of its evidence, all still to label.
LEMMA RowsOfAlert ==
  ASSUME TypeOK, RowsLabelled, SetEvidenceCausingAlert
  PROVE  RowsLabelled'
  <1> USE SettersAssumption, EvidenceAssumption DEF TypeOK, ProgressOK, Goto, Procs
  <1>1. /\ pc[Handler] = "set_alert" /\ pc'[Handler] = "reset"
        /\ alerts' = [alerts EXCEPT ![WindowOf[cur[Handler]]] = Append(@, causing)]
        /\ UNCHANGED <<label, late, processed, causing>>
    BY DEF SetEvidenceCausingAlert, sqlite
  <1>2. CausingUids' = CausingUids
    BY <1>1 DEF CausingUids
  <1>3. ASSUME NEW f \in Evidence, InPastAlert(f)' PROVE InPastAlert(f) \/ f \in causing
    <2> DEFINE w == WindowOf[f]
    <2>1. w \in Windows /\ alerts[w] \in Seq(SUBSET Evidence) /\ causing \in SUBSET Evidence
      OBVIOUS
    <2>2. PICK i \in DOMAIN alerts'[w] : f \in alerts'[w][i]
      BY <1>3 DEF InPastAlert
    <2>3. alerts'[w] = alerts[w] \/ alerts'[w] = Append(alerts[w], causing)
      BY <1>1
    <2>4. CASE alerts'[w] = alerts[w]
      BY <2>2, <2>4 DEF InPastAlert
    <2>5. CASE alerts'[w] = Append(alerts[w], causing)
      <3> HIDE DEF TypeOK, w
      <3>1. i \in 1..Len(alerts[w]) \/ (i = Len(alerts[w]) + 1 /\ alerts'[w][i] = causing)
        BY <2>1, <2>2, <2>5
      <3>2. CASE i \in 1..Len(alerts[w])
        <4>1. alerts'[w][i] = alerts[w][i] /\ i \in DOMAIN alerts[w]
          BY <2>1, <2>5, <3>2
        <4> QED BY <2>2, <4>1 DEF InPastAlert, w
      <3> QED BY <2>2, <3>1, <3>2
    <2> QED BY <2>3, <2>4, <2>5
  <1>4. AlertedUids' \subseteq AlertedUids \cup CausingUids
    BY <1>1, <1>3 DEF AlertedUids, CausingUids
  <1>5. ASSUME NEW row \in (AlertedRows \ late)'
        PROVE  label'[row] \in {None, "malicious"} \/ ToLabel(row)'
    <2>1. row \in Tables \X Uids /\ row[2] \in AlertedUids' /\ row \notin late
      BY <1>1, <1>5 DEF AlertedRows
    <2>2. CASE row[2] \in CausingUids
      BY <1>1, <1>2, <2>2 DEF ToLabel, AlertPcs
    <2>3. CASE row[2] \in AlertedUids
      <3>1. ~ToLabel(row)
        BY <1>1 DEF ToLabel, AlertPcs
      <3> QED BY <1>1, <2>1, <2>3, <3>1 DEF RowsLabelled, AlertedRows
    <2> QED BY <1>4, <2>1, <2>2, <2>3
  <1> QED BY <1>5 DEF RowsLabelled

\* The uids of every processed evidence are found.
LEMMA RowsOfUids ==
  ASSUME TypeOK, RowsLabelled, FlowsRecorded, causing \subseteq processed,
         GetFlowsCausingEvidence
  PROVE  RowsLabelled'
  <1>1. /\ pc[Handler] = "get_uids" /\ pc'[Handler] = "label"
        /\ uidsLeft' = Tables \X UNION {FlowsCausing(e) : e \in causing}
        /\ UNCHANGED <<label, late, processed, alerts>>
    BY SettersAssumption
       DEF GetFlowsCausingEvidence, redis, sqlite, Goto, TypeOK, ProgressOK, Procs
  <1>2. \A e \in causing : FlowsCausing(e) = UidsOf[e]
    BY DEF FlowsRecorded, FlowsCausing
  <1>3. uidsLeft' = Tables \X CausingUids
    BY <1>1, <1>2 DEF CausingUids
  <1>4. \A f : InPastAlert(f)' = InPastAlert(f)
    BY <1>1 DEF InPastAlert
  <1>5. AlertedUids' \subseteq AlertedUids
    BY <1>1, <1>4 DEF AlertedUids
  <1>6. ASSUME NEW row \in Tables \X Uids, ToLabel(row) PROVE ToLabel(row)'
    BY <1>1, <1>3, <1>6 DEF ToLabel
  <1> QED BY <1>1, <1>5, <1>6, RowsFrame

LEMMA RowsOfUpdate ==
  ASSUME TypeOK, RowsLabelled, SetFlowLabel
  PROVE  RowsLabelled'
  <1>1. pc[Handler] = "label" /\ UNCHANGED <<late, processed, alerts>>
    BY DEF SetFlowLabel, redis
  <1>2. \A f : InPastAlert(f)' = InPastAlert(f)
    BY <1>1 DEF InPastAlert
  <1>3. AlertedUids' = AlertedUids
    BY <1>1, <1>2 DEF AlertedUids
  <1>4. CASE uidsLeft = {} /\ UNCHANGED label
    <2>1. \A row : ~ToLabel(row)
      BY <1>1, <1>4 DEF ToLabel, AlertPcs
    <2> QED BY <1>1, <1>3, <1>4, <2>1, RowsFrame
  <1>5. ASSUME NEW row \in uidsLeft, UNCHANGED pc, uidsLeft' = uidsLeft \ {row},
               label' = [label EXCEPT ![row] = IF @ = None THEN None ELSE "malicious"]
        PROVE  RowsLabelled'
    <2>1. ASSUME NEW r \in (AlertedRows \ late)'
          PROVE  label'[r] \in {None, "malicious"} \/ ToLabel(r)'
      <3>1. r \in AlertedRows \ late /\ r \in Tables \X Uids
        BY <1>1, <1>3, <2>1 DEF AlertedRows
      <3>2. CASE r = row
        BY <1>5, <3>1, <3>2 DEF TypeOK
      <3>3. CASE r # row
        <4>1. label'[r] = label[r]
          BY <1>5, <3>1, <3>3 DEF TypeOK
        <4>2. ToLabel(r) => ToLabel(r)'
          BY <1>1, <1>5, <3>3 DEF ToLabel, AlertPcs
        <4> QED BY <3>1, <4>1, <4>2 DEF RowsLabelled
      <3> QED BY <3>2, <3>3
    <2> QED BY <2>1 DEF RowsLabelled
  <1> QED BY <1>4, <1>5 DEF SetFlowLabel

\* A row of an alerted flow written now is one of the late ones.
LEMMA RowsOfProfiler ==
  ASSUME TypeOK, RowsLabelled, NEW row \in Tables \X Uids, AddRow(row)
  PROVE  RowsLabelled'
  <1>1. /\ UNCHANGED <<pc, processed, alerts, causing, uidsLeft>>
        /\ label' = [label EXCEPT ![row] = "benign"]
        /\ late' = IF row[2] \in AlertedUids THEN late \cup {row} ELSE late
    BY DEF AddRow, redis, locals
  <1>2. \A f : InPastAlert(f)' = InPastAlert(f)
    BY <1>1 DEF InPastAlert
  <1>3. AlertedUids' = AlertedUids /\ CausingUids' = CausingUids
    BY <1>1, <1>2 DEF AlertedUids, CausingUids
  <1>4. ASSUME NEW r \in (AlertedRows \ late)'
        PROVE  label'[r] \in {None, "malicious"} \/ ToLabel(r)'
    <2>1. r \in AlertedRows /\ r \notin late' /\ r \in Tables \X Uids
      BY <1>3, <1>4 DEF AlertedRows
    <2>2. r # row /\ r \notin late
      BY <1>1, <2>1 DEF AlertedRows
    <2>3. label'[r] = label[r]
      BY <1>1, <2>1, <2>2 DEF TypeOK
    <2>4. ToLabel(r)' = ToLabel(r)
      BY <1>1, <1>3 DEF ToLabel
    <2> QED BY <2>1, <2>2, <2>3, <2>4 DEF RowsLabelled
  <1> QED BY <1>4 DEF RowsLabelled

LEMMA CausingStep ==
  ASSUME TypeOK, AlertInv, pc[Handler] \in AlertPcs => causing \subseteq processed, [Next]_vars,
         pc'[Handler] \in AlertPcs
  PROVE  causing' \subseteq processed'
  <1> USE SettersAssumption
      DEF TypeOK, ProgressOK, At, Goto, Return, redis, sqlite, locals, bounds, AlertPcs
  <1> DEFINE Frame == causing' = causing /\ pc[Handler] \in AlertPcs /\ processed \subseteq processed'
  <1>0. Frame => causing' \subseteq processed'
    OBVIOUS
  <1>1. ASSUME NEW e \in Evidence, SetEvidence(e) PROVE Frame
    BY <1>1, EvidenceAssumption DEF SetEvidence
  <1>2. ASSUME NEW s \in Setters, SetterStep(s) PROVE Frame
    BY <1>2 DEF SetterStep, SetFlowCausingEvidence, EvidenceExists, IsWhitelistedEvidence,
                StoreEvidence, CountEvidence, PublishEvidence, ReadMaxLevel, WriteMaxLevel
  <1>3. ASSUME NEW s \in Setters, KillSetter(s) PROVE Frame
    BY <1>3 DEF KillSetter
  <1>4. CASE SetEvidenceCausingAlert
    BY <1>4 DEF SetEvidenceCausingAlert, AlertInv
  <1>5. CASE ResetAccumulated \/ ReadMaxLevel(Handler) \/ WriteMaxLevel(Handler)
    BY <1>5 DEF ResetAccumulated, ReadMaxLevel, WriteMaxLevel
  <1>6. ~ReceiveEvidence /\ ~MarkEvidenceAsProcessed /\ ~DeleteEvidence /\ ~UncountEvidence
    BY DEF ReceiveEvidence, MarkEvidenceAsProcessed, DeleteEvidence, UncountEvidence, Procs
  <1>7. ~Decide /\ ~Accumulate /\ ~CheckThreshold /\ ~GetFlowsCausingEvidence
    BY DEF Decide, Accumulate, CheckThreshold, GetFlowsCausingEvidence, Procs
  <1>8. CASE SetFlowLabel
    BY <1>8 DEF SetFlowLabel, Procs
  <1>9. ASSUME NEW row \in Tables \X Uids, AddRow(row) PROVE Frame
    BY <1>9 DEF AddRow
  <1>10. CASE UNCHANGED vars
    BY <1>10 DEF vars
  <1> HIDE DEF Frame
  <1> QED
    BY <1>0, <1>1, <1>2, <1>3, <1>4, <1>5, <1>6, <1>7, <1>8, <1>9, <1>10 DEF Next, HandlerStep

LEMMA RowsStep ==
  ASSUME TypeOK, AlertInv, LabelInv, [Next]_vars
  PROVE  RowsLabelled'
  <1> USE SettersAssumption
      DEF TypeOK, ProgressOK, At, Goto, Return, redis, sqlite, locals, bounds, AlertPcs
  <1> DEFINE Kept ==
        /\ UNCHANGED <<label, late, processed, alerts>>
        /\ \/ UNCHANGED <<causing, uidsLeft>> /\ pc'[Handler] = pc[Handler]
           \/ UNCHANGED <<causing, uidsLeft>> /\ {pc[Handler], pc'[Handler]} \subseteq AlertPcs
           \/ pc[Handler] \notin AlertPcs \cup {"label"}
  <1>0. Kept => RowsLabelled'
    BY RowsKept DEF LabelInv
  <1>1. ASSUME NEW e \in Evidence, SetEvidence(e) PROVE Kept
    BY <1>1, EvidenceAssumption DEF SetEvidence
  <1>2. ASSUME NEW s \in Setters, SetterStep(s) PROVE Kept
    BY <1>2 DEF SetterStep, SetFlowCausingEvidence, EvidenceExists, IsWhitelistedEvidence,
                StoreEvidence, CountEvidence, PublishEvidence, ReadMaxLevel, WriteMaxLevel
  <1>3. ASSUME NEW s \in Setters, KillSetter(s) PROVE Kept
    BY <1>3 DEF KillSetter
  <1>4. (ReceiveEvidence \/ Decide \/ DeleteEvidence \/ UncountEvidence) => Kept
    BY DEF ReceiveEvidence, Decide, DeleteEvidence, UncountEvidence
  <1>5. (Accumulate \/ CheckThreshold) => Kept
    BY DEF Accumulate, CheckThreshold
  <1>6. (ResetAccumulated \/ ReadMaxLevel(Handler) \/ WriteMaxLevel(Handler)) => Kept
    BY DEF ResetAccumulated, ReadMaxLevel, WriteMaxLevel
  <1>7. CASE MarkEvidenceAsProcessed
    <2>1. /\ pc[Handler] = "mark" /\ cur[Handler] \in Evidence
          /\ processed' = processed \cup {cur[Handler]}
          /\ UNCHANGED <<label, late, alerts>>
      BY <1>7 DEF MarkEvidenceAsProcessed, Procs
    <2>2. AlertedUids' \subseteq AlertedUids
      <3> HIDE DEF TypeOK, ProgressOK
      <3> QED BY <2>1, MarkAddsNoAlerted
    <2>3. \A row : ~ToLabel(row)
      BY <2>1 DEF ToLabel
    <2> HIDE DEF TypeOK, ProgressOK
    <2> QED BY <2>1, <2>2, <2>3, RowsFrame DEF LabelInv
  <1>8. CASE SetEvidenceCausingAlert
    BY <1>8, RowsOfAlert DEF LabelInv
  <1>9. CASE GetFlowsCausingEvidence
    <2>1. pc[Handler] \in AlertPcs
      BY <1>9 DEF GetFlowsCausingEvidence
    <2> QED BY <1>9, <2>1, RowsOfUids DEF LabelInv
  <1>10. CASE SetFlowLabel
    BY <1>10, RowsOfUpdate DEF LabelInv
  <1>11. ASSUME NEW row \in Tables \X Uids, AddRow(row) PROVE RowsLabelled'
    BY <1>11, RowsOfProfiler DEF LabelInv
  <1>12. UNCHANGED vars => Kept
    BY DEF vars
  <1> HIDE DEF Kept
  <1> QED
    BY <1>0, <1>1, <1>2, <1>3, <1>4, <1>5, <1>6, <1>7, <1>8, <1>9, <1>10, <1>11, <1>12
       DEF Next, HandlerStep

(* Once set_alert returned, every row of the flows that caused an alert is *)
(* labelled malicious, or was written after the alert: for any numbers of  *)
(* modules, evidence and flows, however their calls and the profiler's     *)
(* inserts interleave with the labelling.                                  *)
THEOREM AlertsLabelTheirFlows == Spec => []AlertedRowsLabelled
  <1> DEFINE Inv == TypeOK /\ LifeInv /\ AlertInv /\ LabelInv
  <1>1. Init => Inv
    BY TypeInit, LifeInit, AlertInit, LabelInit
  <1>2. Inv /\ [Next]_vars => Inv'
    BY TypeStep, LifeStep, AlertStep, FlowsStep, CausingStep, RowsStep DEF LabelInv
  <1>3. Inv => AlertedRowsLabelled
    BY DEF LabelInv, RowsLabelled, AlertedRowsLabelled, ToLabel, AlertPcs
  <1> HIDE DEF Inv
  <1> QED BY <1>1, <1>2, <1>3, PTL DEF Spec
=============================================================================
