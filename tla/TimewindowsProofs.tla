-------------------------- MODULE TimewindowsProofs --------------------------
(***************************************************************************)
(* Proofs about Timewindows: type correctness, that no window is lost      *)
(* between ModifiedTW and ClosedTW, that shutdown leaves open only what    *)
(* was modified after it listed the windows, that every closing is         *)
(* announced, and that the internal time never goes back.                  *)
(***************************************************************************)
EXTENDS Timewindows, FiniteSetTheorems, TLAPS

(* A flow falls in the half-open interval of the window get_timewindow     *)
(* gives it, also when it is older than the first flow.                    *)
THEOREM FlowInItsWindow ==
  ASSUME NEW t \in Int
  PROVE  /\ TwNumber(t) \in Int
         /\ TwStart(TwNumber(t)) <= t
         /\ t < TwStart(TwNumber(t)) + Width
  BY TimeAssumption, SMT DEF TwNumber, TwStart

LEMMA TypeInit == Init => TypeOK
  <1> SUFFICES ASSUME Init PROVE TypeOK
    OBVIOUS
  <1> USE DEF Init
  <1>1. now \in 1..MaxTime /\ sit \in 0..MaxTime /\ lastMod \in 0..MaxTime
        /\ mods \in 0..MaxMods /\ shutAt \in 0..MaxTime
    BY TimeAssumption
  <1>5. inputDone \in BOOLEAN
    OBVIOUS
  <1>2. /\ startOf \in [TWs -> Int \cup {None}]
        /\ modified \in [TWs -> 0..MaxTime]
        /\ closed \subseteq TWs
        /\ published \in [TWs -> Nat]
        /\ touched \subseteq TWs
        /\ removed \in [TWs -> Nat]
        /\ lost \in [TWs -> Nat]
    BY TimeAssumption
  <1>3. /\ limit \in [Procs -> Int]
        /\ todo \in [Procs -> SUBSET TWs]
        /\ cur \in [Procs -> TWs \cup {None}]
    OBVIOUS
  <1>4. /\ pc \in [Procs -> WriterPcs \cup LoopPcs \cup ShutPcs]
        /\ \A w \in Writers : pc[w] \in WriterPcs
        /\ pc[Main] \in LoopPcs \cup ShutPcs
    BY ProcessesAssumption DEF Procs, WriterPcs, LoopPcs, ShutPcs
  <1> QED BY <1>1, <1>2, <1>3, <1>4, <1>5 DEF TypeOK


LEMMA WindowOfFlow ==
  ASSUME NEW profile \in Profiles, NEW t \in FlowTimes
  PROVE  /\ <<profile, TwNumber(t)>> \in TWs
         /\ TwStart(TwNumber(t)) \in Int
  <1>1. TwNumber(t) \in TwNumbers /\ TwNumber(t) \in Int
    BY TimeAssumption DEF TwNumbers, TwNumber
  <1> QED BY <1>1, TimeAssumption DEF TWs, TwStart

(* Counting up one entry of a table of counters, or none.                  *)
LEMMA CountUp ==
  ASSUME NEW S, NEW f \in [S -> Nat], NEW x
  PROVE  [f EXCEPT ![x] = @ + 1] \in [S -> Nat]
  <1>1. \A y \in S : [f EXCEPT ![x] = @ + 1][y] \in Nat
    OBVIOUS
  <1> QED BY <1>1

LEMMA TypeStep == TypeOK /\ [Next]_vars => TypeOK'
  <1> SUFFICES ASSUME TypeOK, [Next]_vars PROVE TypeOK'
    OBVIOUS
  <1> USE ProcessesAssumption, TimeAssumption
      DEF TypeOK, Procs, WriterPcs, LoopPcs, ShutPcs, Goto, redis, locals, history
  <1>1. CASE Tick
    BY <1>1 DEF Tick
  <1>2. ASSUME NEW w \in Writers, NEW profile \in Profiles, NEW flowtime \in FlowTimes,
               MarkModified(w, profile, flowtime)
        PROVE  TypeOK'
    <2> DEFINE tw == <<profile, TwNumber(flowtime)>>
    <2>1. tw \in TWs /\ TwStart(tw[2]) \in Int
      BY WindowOfFlow
    <2> HIDE DEF tw
    <2>2. /\ startOf' = [startOf EXCEPT ![tw] = TwStart(tw[2])]
          /\ modified' = [modified EXCEPT ![tw] = now]
          /\ touched' = touched \cup {tw}
          /\ mods < MaxMods
          /\ mods' = mods + 1
          /\ pc' = [pc EXCEPT ![w] = "read_sit"]
          /\ UNCHANGED <<now, sit, closed, published, limit, todo, cur, lastMod,
                         inputDone, removed, lost, shutAt>>
      BY <1>2 DEF MarkModified, tw
    <2> QED BY <2>1, <2>2
  <1>3. ASSUME NEW p \in Procs, CheckStep(p)
        PROVE  TypeOK'
    <2>1. CASE ReadInternalTime(p)
      BY <2>1 DEF ReadInternalTime
    <2>2. CASE ListWindowsToClose(p)
      BY <2>2 DEF ListWindowsToClose
    <2>3. CASE AddToClosed(p)
      BY <2>3 DEF AddToClosed
    <2>4. CASE RemoveFromModified(p)
      <3>1. removed' \in [TWs -> Nat]
        BY <2>4, CountUp DEF RemoveFromModified
      <3>3. modified' \in [TWs -> 0..MaxTime]
        <4>1. 0 \in 0..MaxTime /\ modified' = [modified EXCEPT ![cur[p]] = 0]
          BY <2>4 DEF RemoveFromModified
        <4> QED BY <4>1
      <3>2. /\ pc' \in [Procs -> WriterPcs \cup LoopPcs \cup ShutPcs]
            /\ \A w \in Writers : pc'[w] \in WriterPcs
            /\ pc'[Main] \in LoopPcs \cup ShutPcs
        BY <2>4 DEF RemoveFromModified
      <3> QED BY <2>4, <3>1, <3>2, <3>3 DEF RemoveFromModified
    <2>5. CASE PublishClosed(p)
      <3>1. published' \in [TWs -> Nat]
        BY <2>5, CountUp DEF PublishClosed
      <3>2. /\ pc' \in [Procs -> WriterPcs \cup LoopPcs \cup ShutPcs]
            /\ \A w \in Writers : pc'[w] \in WriterPcs
            /\ pc'[Main] \in LoopPcs \cup ShutPcs
            /\ cur' \in [Procs -> TWs \cup {None}]
        BY <2>5 DEF PublishClosed
      <3> QED BY <2>5, <3>1, <3>2 DEF PublishClosed
    <2>6. CASE EndCheck(p)
      BY <2>6 DEF EndCheck, AfterCheck
    <2> QED BY <1>3, <2>1, <2>2, <2>3, <2>4, <2>5, <2>6 DEF CheckStep
  <1>4. ASSUME NEW w \in Writers, StopWriter(w)
        PROVE  TypeOK'
    <2>1. lost' \in [TWs -> Nat]
      BY <1>4, CountUp DEF StopWriter, Abandon
    <2>2. /\ limit' \in [Procs -> Int]
          /\ todo' \in [Procs -> SUBSET TWs]
          /\ cur' \in [Procs -> TWs \cup {None}]
      BY <1>4 DEF StopWriter, LeaveCheck
    <2>3. /\ pc' \in [Procs -> WriterPcs \cup LoopPcs \cup ShutPcs]
          /\ \A v \in Writers : pc'[v] \in WriterPcs
          /\ pc'[Main] \in LoopPcs \cup ShutPcs
      BY <1>4 DEF StopWriter
    <2> QED BY <1>4, <2>1, <2>2, <2>3 DEF StopWriter
  <1>5. CASE LoopIteration
    BY <1>5 DEF LoopIteration
  <1>6. CASE ReadLastModification
    BY <1>6 DEF ReadLastModification, ModifiedSince
  <1>7. CASE SetInternalTime
    BY <1>7 DEF SetInternalTime
  <1>8. CASE Shutdown
    BY <1>8 DEF Shutdown
  <1>9. CASE InputDone
    BY <1>9 DEF InputDone
  <1>10. CASE Interrupt
    <2>1. lost' \in [TWs -> Nat]
      BY <1>10, CountUp DEF Interrupt, Abandon
    <2>2. /\ limit' \in [Procs -> Int]
          /\ todo' \in [Procs -> SUBSET TWs]
          /\ cur' \in [Procs -> TWs \cup {None}]
      BY <1>10 DEF Interrupt, LeaveCheck
    <2>3. /\ pc' \in [Procs -> WriterPcs \cup LoopPcs \cup ShutPcs]
          /\ \A v \in Writers : pc'[v] \in WriterPcs
          /\ pc'[Main] \in LoopPcs \cup ShutPcs
      BY <1>10 DEF Interrupt
    <2>4. inputDone' \in BOOLEAN
      BY <1>10, Zenon DEF Interrupt
    <2> QED BY <1>10, <2>1, <2>2, <2>3, <2>4 DEF Interrupt
  <1>11. CASE InterruptShutdown
    <2>1. lost' \in [TWs -> Nat]
      BY <1>11, CountUp DEF InterruptShutdown, Abandon
    <2>2. /\ limit' \in [Procs -> Int]
          /\ todo' \in [Procs -> SUBSET TWs]
          /\ cur' \in [Procs -> TWs \cup {None}]
      BY <1>11 DEF InterruptShutdown, LeaveCheck
    <2>3. /\ pc' \in [Procs -> WriterPcs \cup LoopPcs \cup ShutPcs]
          /\ \A v \in Writers : pc'[v] \in WriterPcs
          /\ pc'[Main] \in LoopPcs \cup ShutPcs
      BY <1>11 DEF InterruptShutdown
    <2> QED BY <1>11, <2>1, <2>2, <2>3 DEF InterruptShutdown
  <1>12. CASE UNCHANGED vars
    BY <1>12 DEF vars
  <1> QED
    BY <1>1, <1>2, <1>3, <1>4, <1>5, <1>6, <1>7, <1>8, <1>9, <1>10, <1>11, <1>12
       DEF Next, MainStep

(* Every reachable state is well typed.                                    *)
THEOREM TypeCorrect == Spec => []TypeOK
  BY TypeInit, TypeStep, PTL DEF Spec

-----------------------------------------------------------------------------
(***************************************************************************)
(* No window is lost.  The step between SADD and ZREM is what makes it     *)
(* true: a window about to be removed is already in ClosedTW.              *)
(***************************************************************************)
ClosedBeforeRemoval ==
    \A p \in Procs : pc[p] \in {"zrem", "shut_zrem"} => cur[p] \in closed

LostInv == NeverLost /\ ClosedBeforeRemoval

LEMMA LostInit == Init => LostInv
  BY ProcessesAssumption DEF Init, LostInv, NeverLost, ClosedBeforeRemoval, Procs

LEMMA LostStep == TypeOK /\ LostInv /\ [Next]_vars => LostInv'
  <1> SUFFICES ASSUME TypeOK, LostInv, [Next]_vars PROVE LostInv'
    OBVIOUS
  <1> USE ProcessesAssumption, TimeAssumption
      DEF TypeOK, LostInv, NeverLost, ClosedBeforeRemoval, Present, Procs, Goto, redis,
          locals, history
  <1>1. CASE Tick
    BY <1>1 DEF Tick
  <1>2. ASSUME NEW w \in Writers, NEW profile \in Profiles, NEW flowtime \in FlowTimes,
               MarkModified(w, profile, flowtime)
        PROVE  LostInv'
    <2>1. <<profile, TwNumber(flowtime)>> \in TWs
      BY WindowOfFlow
    <2> QED BY SMTT(30), <1>2, <2>1 DEF MarkModified
  <1>3. ASSUME NEW p \in Procs, CheckStep(p)
        PROVE  LostInv'
    <2>1. CASE ReadInternalTime(p)
      BY <2>1 DEF ReadInternalTime
    <2>2. CASE ListWindowsToClose(p)
      BY <2>2 DEF ListWindowsToClose
    <2>3. CASE AddToClosed(p)
      BY <2>3 DEF AddToClosed
    <2>4. CASE RemoveFromModified(p)
      BY <2>4 DEF RemoveFromModified
    <2>5. CASE PublishClosed(p)
      BY <2>5 DEF PublishClosed
    <2>6. CASE EndCheck(p)
      BY <2>6 DEF EndCheck, AfterCheck
    <2> QED BY <1>3, <2>1, <2>2, <2>3, <2>4, <2>5, <2>6 DEF CheckStep
  <1>4. ASSUME NEW w \in Writers, StopWriter(w)
        PROVE  LostInv'
    BY <1>4 DEF StopWriter, LeaveCheck
  <1>5. CASE LoopIteration
    BY <1>5 DEF LoopIteration
  <1>6. CASE ReadLastModification
    BY <1>6 DEF ReadLastModification
  <1>7. CASE SetInternalTime
    BY <1>7 DEF SetInternalTime
  <1>8. CASE Shutdown
    BY <1>8 DEF Shutdown
  <1>9. CASE InputDone
    BY <1>9 DEF InputDone
  <1>10. CASE Interrupt
    BY <1>10 DEF Interrupt, LeaveCheck
  <1>11. CASE InterruptShutdown
    BY <1>11 DEF InterruptShutdown, LeaveCheck
  <1>12. CASE UNCHANGED vars
    BY <1>12 DEF vars
  <1> QED
    BY <1>1, <1>2, <1>3, <1>4, <1>5, <1>6, <1>7, <1>8, <1>9, <1>10, <1>11, <1>12
       DEF Next, MainStep

(* Every window ever modified stays open or closed, for any number of      *)
(* processes, profiles and windows.                                        *)
THEOREM WindowsNeverLost == Spec => []NeverLost
  <1>1. LostInv => NeverLost
    BY DEF LostInv
  <1> QED BY TypeCorrect, LostInit, LostStep, <1>1, PTL DEF Spec

-----------------------------------------------------------------------------
(***************************************************************************)
(* Shutdown.  While the main process closes what it listed, a window       *)
(* older than the listing is still in its list or is being removed.        *)
(***************************************************************************)
ShutdownProgress ==
    pc[Main] \in ShutPcs \ {"shut_range", "aborted"} =>
      \A tw \in TWs : Present(tw) =>
        \/ modified[tw] >= shutAt
        \/ pc[Main] # "done" /\ tw \in todo[Main]
        \/ pc[Main] = "shut_zrem" /\ cur[Main] = tw

ShutInv == ShutdownProgress /\ shutAt <= now

LEMMA ShutInit == Init => ShutInv
  BY ProcessesAssumption DEF Init, ShutInv, ShutdownProgress, ShutPcs, Procs

LEMMA ShutStep == TypeOK /\ ShutInv /\ [Next]_vars => ShutInv'
  <1> SUFFICES ASSUME TypeOK, ShutInv, [Next]_vars PROVE ShutInv'
    OBVIOUS
  <1> USE ProcessesAssumption, TimeAssumption
      DEF TypeOK, ShutInv, ShutdownProgress, Present, Procs, ShutPcs, WriterPcs,
          LoopPcs, Goto, redis, locals, history
  <1>1. CASE Tick
    BY <1>1 DEF Tick
  <1>2. ASSUME NEW w \in Writers, NEW profile \in Profiles, NEW flowtime \in FlowTimes,
               MarkModified(w, profile, flowtime)
        PROVE  ShutInv'
    <2>1. <<profile, TwNumber(flowtime)>> \in TWs
      BY WindowOfFlow
    <2> QED BY <1>2, <2>1 DEF MarkModified
  <1>3. ASSUME NEW p \in Procs, CheckStep(p)
        PROVE  ShutInv'
    <2>1. CASE ReadInternalTime(p)
      BY <2>1 DEF ReadInternalTime
    <2>2. CASE ListWindowsToClose(p)
      BY <2>2 DEF ListWindowsToClose
    <2>3. CASE AddToClosed(p)
      BY <2>3 DEF AddToClosed
    <2>4. CASE RemoveFromModified(p)
      BY <2>4 DEF RemoveFromModified
    <2>5. CASE PublishClosed(p)
      BY <2>5 DEF PublishClosed
    <2>6. CASE EndCheck(p)
      BY <2>6 DEF EndCheck, AfterCheck
    <2> QED BY <1>3, <2>1, <2>2, <2>3, <2>4, <2>5, <2>6 DEF CheckStep
  <1>4. ASSUME NEW w \in Writers, StopWriter(w)
        PROVE  ShutInv'
    BY <1>4 DEF StopWriter, LeaveCheck
  <1>5. CASE LoopIteration
    BY <1>5 DEF LoopIteration
  <1>6. CASE ReadLastModification
    BY <1>6 DEF ReadLastModification
  <1>7. CASE SetInternalTime
    BY <1>7 DEF SetInternalTime
  <1>8. CASE Shutdown
    BY <1>8 DEF Shutdown
  <1>9. CASE InputDone
    BY <1>9 DEF InputDone
  <1>10. CASE Interrupt
    BY <1>10 DEF Interrupt, LeaveCheck
  <1>11. CASE InterruptShutdown
    BY <1>11 DEF InterruptShutdown, LeaveCheck
  <1>12. CASE UNCHANGED vars
    BY <1>12 DEF vars
  <1> QED
    BY <1>1, <1>2, <1>3, <1>4, <1>5, <1>6, <1>7, <1>8, <1>9, <1>10, <1>11, <1>12
       DEF Next, MainStep

(* After shutdown's close_all, only windows modified since it listed them  *)
(* are open.                                                               *)
THEOREM ShutdownClosesWhatItListed == Spec => []ShutdownClosesAll
  <1>1. ShutInv => ShutdownClosesAll
    BY DEF ShutInv, ShutdownProgress, ShutdownClosesAll, ShutPcs, Present
  <1> QED BY TypeCorrect, ShutInit, ShutStep, <1>1, PTL DEF Spec

-----------------------------------------------------------------------------
(***************************************************************************)
(* Closings are announced.  A process that took a window out of ModifiedTW *)
(* is in flight until it publishes or is stopped, and the count of those   *)
(* in flight changes by that one process.                                  *)
(***************************************************************************)
ClosingPcs == {"zrem", "shut_zrem", "publish", "shut_publish"}
ClosesAWindow == \A p \in Procs : pc[p] \in ClosingPcs => cur[p] \in TWs

AnnounceInv == ClosesAWindow /\ ClosingsAnnounced

(* The processes between ZREM and PUBLISH are finitely many.               *)
LEMMA InFlightFinite ==
  ASSUME NEW tw
  PROVE  IsFiniteSet(InFlight(tw)) /\ Cardinality(InFlight(tw)) \in Nat
  <1>1. IsFiniteSet(Procs)
    BY ProcessesAssumption, FS_AddElement DEF Procs
  <1>2. InFlight(tw) \subseteq Procs
    BY DEF InFlight
  <1> QED BY <1>1, <1>2, FS_Subset, FS_CardinalityType

LEMMA AnnounceInit == TypeOK /\ Init => AnnounceInv
  <1> SUFFICES ASSUME TypeOK, Init PROVE AnnounceInv
    OBVIOUS
  <1>1. ClosesAWindow
    BY DEF Init, ClosesAWindow, ClosingPcs
  <1>2. ClosingsAnnounced
    BY InFlightFinite DEF Init, ClosingsAnnounced
  <1> QED BY <1>1, <1>2 DEF AnnounceInv

(* A step that moves no counter and nobody into or out of flight keeps the *)
(* announcements.                                                          *)
LEMMA AnnounceStays ==
  ASSUME ClosingsAnnounced, UNCHANGED <<published, removed, lost>>,
         \A tw \in TWs : InFlight(tw)' = InFlight(tw)
  PROVE  ClosingsAnnounced'
  BY DEF ClosingsAnnounced

(* Whoever is about to publish and leaves the check for that reason is     *)
(* counted in lost; nobody else in flight moves.                           *)
LEMMA AnnounceAbandon ==
  ASSUME TypeOK, AnnounceInv, NEW p \in Procs, NEW label,
         label \notin ClosingPcs,
         Abandon(p), LeaveCheck(p), Goto(p, label),
         UNCHANGED <<published, removed>>
  PROVE  AnnounceInv'
  <1> USE DEF TypeOK, AnnounceInv, ClosesAWindow, ClosingPcs, Goto, LeaveCheck
  <1>1. ClosesAWindow'
    OBVIOUS
  <1>2. ASSUME NEW tw \in TWs
        PROVE  (removed[tw] <= published[tw] + Cardinality(InFlight(tw)) + lost[tw])'
    <2>1. removed[tw] <= published[tw] + Cardinality(InFlight(tw)) + lost[tw]
      BY DEF ClosingsAnnounced
    <2>2. CASE pc[p] \in {"publish", "shut_publish"} /\ cur[p] = tw
      <3>1. p \in InFlight(tw) /\ InFlight(tw)' = InFlight(tw) \ {p}
        BY <2>2 DEF InFlight
      <3>2. Cardinality(InFlight(tw)') = Cardinality(InFlight(tw)) - 1
        BY <3>1, InFlightFinite, FS_RemoveElement
      <3>3. lost'[tw] = lost[tw] + 1
        BY <2>2 DEF Abandon
      <3> QED BY <2>1, <3>2, <3>3, InFlightFinite
    <2>3. CASE ~(pc[p] \in {"publish", "shut_publish"} /\ cur[p] = tw)
      <3>1. InFlight(tw)' = InFlight(tw)
        BY <2>3 DEF InFlight
      <3>2. lost'[tw] = lost[tw]
        BY <2>3 DEF Abandon
      <3> QED BY <2>1, <3>1, <3>2
    <2> QED BY <2>2, <2>3
  <1> QED BY <1>1, <1>2 DEF ClosingsAnnounced

LEMMA AnnounceRemove ==
  ASSUME TypeOK, AnnounceInv, NEW p \in Procs, RemoveFromModified(p)
  PROVE  AnnounceInv'
  <1> USE DEF TypeOK, AnnounceInv, ClosesAWindow, ClosingPcs, Goto
  <1>1. ClosesAWindow'
    BY DEF RemoveFromModified
  <1>2. ASSUME NEW tw \in TWs
        PROVE  (removed[tw] <= published[tw] + Cardinality(InFlight(tw)) + lost[tw])'
    <2>1. removed[tw] <= published[tw] + Cardinality(InFlight(tw)) + lost[tw]
      BY DEF ClosingsAnnounced
    <2>2. published' = published /\ lost' = lost
      BY DEF RemoveFromModified
    <2>3. CASE cur[p] = tw
      <3>1. p \notin InFlight(tw) /\ InFlight(tw)' = InFlight(tw) \cup {p}
        BY <2>3 DEF InFlight, RemoveFromModified
      <3>2. Cardinality(InFlight(tw)') = Cardinality(InFlight(tw)) + 1
        BY <3>1, InFlightFinite, FS_AddElement
      <3>3. removed'[tw] <= removed[tw] + 1 /\ removed'[tw] \in Nat
        BY <2>3 DEF RemoveFromModified
      <3> QED BY <2>1, <2>2, <3>2, <3>3, InFlightFinite
    <2>4. CASE cur[p] # tw
      <3>1. InFlight(tw)' = InFlight(tw)
        BY <2>4 DEF InFlight, RemoveFromModified
      <3>2. removed'[tw] = removed[tw]
        BY <2>4 DEF RemoveFromModified
      <3> QED BY <2>1, <2>2, <3>1, <3>2
    <2> QED BY <2>3, <2>4
  <1> QED BY <1>1, <1>2 DEF ClosingsAnnounced

LEMMA AnnouncePublish ==
  ASSUME TypeOK, AnnounceInv, NEW p \in Procs, PublishClosed(p)
  PROVE  AnnounceInv'
  <1> USE DEF TypeOK, AnnounceInv, ClosesAWindow, ClosingPcs, Goto
  <1>1. ClosesAWindow'
    BY DEF PublishClosed
  <1>2. ASSUME NEW tw \in TWs
        PROVE  (removed[tw] <= published[tw] + Cardinality(InFlight(tw)) + lost[tw])'
    <2>1. removed[tw] <= published[tw] + Cardinality(InFlight(tw)) + lost[tw]
      BY DEF ClosingsAnnounced
    <2>2. removed' = removed /\ lost' = lost
      BY DEF PublishClosed, history
    <2>3. CASE cur[p] = tw
      <3>1. p \in InFlight(tw) /\ InFlight(tw)' = InFlight(tw) \ {p}
        BY <2>3, NoneAssumption DEF InFlight, PublishClosed
      <3>2. Cardinality(InFlight(tw)') = Cardinality(InFlight(tw)) - 1
        BY <3>1, InFlightFinite, FS_RemoveElement
      <3>3. published'[tw] = published[tw] + 1
        BY <2>3 DEF PublishClosed
      <3> QED BY <2>1, <2>2, <3>2, <3>3, InFlightFinite
    <2>4. CASE cur[p] # tw
      <3>1. InFlight(tw)' = InFlight(tw)
        BY <2>4, NoneAssumption DEF InFlight, PublishClosed
      <3>2. published'[tw] = published[tw]
        BY <2>4 DEF PublishClosed
      <3> QED BY <2>1, <2>2, <3>1, <3>2
    <2> QED BY <2>3, <2>4
  <1> QED BY <1>1, <1>2 DEF ClosingsAnnounced

LEMMA AnnounceStep == TypeOK /\ AnnounceInv /\ [Next]_vars => AnnounceInv'
  <1> SUFFICES ASSUME TypeOK, AnnounceInv, [Next]_vars PROVE AnnounceInv'
    OBVIOUS
  <1> DEFINE Quiet == UNCHANGED <<published, removed, lost>>
                      /\ \A tw \in TWs : InFlight(tw)' = InFlight(tw)
  <1>0. ASSUME ClosesAWindow', Quiet PROVE AnnounceInv'
    BY <1>0, AnnounceStays DEF AnnounceInv
  <1> USE ProcessesAssumption
      DEF TypeOK, AnnounceInv, ClosesAWindow, ClosingPcs, InFlight, Procs, Goto, redis,
          locals, history
  <1>1. CASE Tick
    BY <1>0, <1>1 DEF Tick
  <1>2. ASSUME NEW w \in Writers, NEW profile \in Profiles, NEW flowtime \in FlowTimes,
               MarkModified(w, profile, flowtime)
        PROVE  AnnounceInv'
    <2>1. ClosesAWindow'
      BY <1>2 DEF MarkModified
    <2>2. Quiet
      BY <1>2 DEF MarkModified
    <2> QED BY <1>0, <2>1, <2>2
  <1>3. ASSUME NEW p \in Procs, CheckStep(p)
        PROVE  AnnounceInv'
    <2>1. CASE ReadInternalTime(p)
      BY <1>0, <2>1 DEF ReadInternalTime
    <2>2. CASE ListWindowsToClose(p)
      BY <1>0, <2>2 DEF ListWindowsToClose
    <2>3. CASE AddToClosed(p)
      BY <1>0, <2>3 DEF AddToClosed
    <2>4. CASE RemoveFromModified(p)
      BY <2>4, AnnounceRemove
    <2>5. CASE PublishClosed(p)
      BY <2>5, AnnouncePublish
    <2>6. CASE EndCheck(p)
      BY <1>0, <2>6 DEF EndCheck, AfterCheck
    <2> QED BY <1>3, <2>1, <2>2, <2>3, <2>4, <2>5, <2>6 DEF CheckStep
  <1>4. ASSUME NEW w \in Writers, StopWriter(w)
        PROVE  AnnounceInv'
    BY <1>4, AnnounceAbandon DEF StopWriter
  <1>5. CASE LoopIteration
    BY <1>0, <1>5 DEF LoopIteration
  <1>6. CASE ReadLastModification
    BY <1>0, <1>6 DEF ReadLastModification
  <1>7. CASE SetInternalTime
    BY <1>0, <1>7 DEF SetInternalTime
  <1>8. CASE Shutdown
    BY <1>0, <1>8 DEF Shutdown
  <1>9. CASE InputDone
    BY <1>0, <1>9 DEF InputDone
  <1>10. CASE Interrupt
    BY <1>10, AnnounceAbandon DEF Interrupt
  <1>11. CASE InterruptShutdown
    BY <1>11, AnnounceAbandon DEF InterruptShutdown
  <1>12. CASE UNCHANGED vars
    BY <1>0, <1>12 DEF vars
  <1> QED
    BY <1>1, <1>2, <1>3, <1>4, <1>5, <1>6, <1>7, <1>8, <1>9, <1>10, <1>11, <1>12
       DEF Next, MainStep

(* Every time mark_profile_tw_as_closed takes a window out of ModifiedTW   *)
(* its tw_closed message follows, but for the processes still between the  *)
(* two calls and those that were stopped there.                            *)
THEOREM EveryClosingAnnounced == Spec => []ClosingsAnnounced
  <1>1. AnnounceInv => ClosingsAnnounced
    BY DEF AnnounceInv
  <1>2. Init => AnnounceInv
    BY TypeInit, AnnounceInit
  <1> QED BY TypeCorrect, AnnounceStep, <1>1, <1>2, PTL DEF Spec

-----------------------------------------------------------------------------
(***************************************************************************)
(* The internal time: what the main loop is about to store is 0 or newer.  *)
(***************************************************************************)
NewerLast == pc[Main] = "set_sit" => lastMod = 0 \/ lastMod > sit

LEMMA NewerInit == Init => NewerLast
  BY ProcessesAssumption DEF Init, NewerLast, Procs

LEMMA NewerStep == TypeOK /\ NewerLast /\ [Next]_vars => NewerLast' /\ sit' >= sit
  <1> SUFFICES ASSUME TypeOK, NewerLast, [Next]_vars PROVE NewerLast' /\ sit' >= sit
    OBVIOUS
  <1> USE ProcessesAssumption, TimeAssumption
      DEF TypeOK, NewerLast, Procs, Goto, redis, locals, history
  <1>1. CASE ReadLastModification
    BY <1>1 DEF ReadLastModification, ModifiedSince
  <1>2. CASE SetInternalTime
    BY <1>2 DEF SetInternalTime
  <1>3. CASE Interrupt \/ InterruptShutdown
    BY <1>3 DEF Interrupt, InterruptShutdown, LeaveCheck, ShutPcs
  <1>4. ASSUME NEW p \in Procs, CheckStep(p)
        PROVE  NewerLast' /\ sit' >= sit
    BY <1>4 DEF CheckStep, ReadInternalTime, ListWindowsToClose, AddToClosed,
                RemoveFromModified, PublishClosed, EndCheck, AfterCheck
  <1>5. ASSUME NEW w \in Writers, StopWriter(w)
        PROVE  NewerLast' /\ sit' >= sit
    BY <1>5 DEF StopWriter, LeaveCheck
  <1>6. ASSUME NEW w \in Writers, NEW profile \in Profiles, NEW flowtime \in FlowTimes,
               MarkModified(w, profile, flowtime)
        PROVE  NewerLast' /\ sit' >= sit
    BY <1>6 DEF MarkModified
  <1>7. CASE Tick \/ LoopIteration \/ Shutdown \/ InputDone
    BY <1>7 DEF Tick, LoopIteration, Shutdown, InputDone
  <1>8. CASE UNCHANGED vars
    BY <1>8 DEF vars
  <1> QED
    BY <1>1, <1>2, <1>3, <1>4, <1>5, <1>6, <1>7, <1>8 DEF Next, MainStep

(* The internal time never goes back.                                      *)
THEOREM InternalTimeNeverGoesBack == Spec => InternalTimeAdvances
  <1>1. TypeOK /\ NewerLast /\ [Next]_vars => [sit' >= sit]_sit
    BY NewerStep
  <1> QED BY TypeCorrect, NewerInit, NewerStep, <1>1, PTL DEF Spec, InternalTimeAdvances

-----------------------------------------------------------------------------
(***************************************************************************)
(* Timewindows implements WindowLife.  What is listed was modified once;   *)
(* only a process in the middle of closing has a list, and the window in   *)
(* its hands is no longer on it.                                           *)
(***************************************************************************)
DecisionInv ==
    /\ \A tw \in TWs : Present(tw) => tw \in touched
    /\ \A p \in Procs :
          /\ todo[p] \subseteq touched
          /\ pc[p] \notin {"close", "shut_close"} \cup ClosingPcs => todo[p] = {}
          /\ pc[p] \in ClosingPcs => cur[p] \in TWs \ todo[p]

LEMMA DecisionInit == Init => DecisionInv
  BY ProcessesAssumption DEF Init, DecisionInv, ClosingPcs, Present, Procs

(* Steps that leave windows, lists and what is being closed alone.         *)
LEMMA DecisionKept ==
    ASSUME DecisionInv, UNCHANGED <<modified, touched, todo, cur>>,
           \A p \in Procs : \/ pc'[p] = pc[p]
                            \/ pc'[p] \notin ClosingPcs /\ todo[p] = {}
                            \/ pc'[p] \in {"close", "shut_close"}
    PROVE  DecisionInv'
  BY DEF DecisionInv, Present, ClosingPcs

LEMMA DecisionStep == TypeOK /\ DecisionInv /\ [Next]_vars => DecisionInv'
  <1> SUFFICES ASSUME TypeOK, DecisionInv, [Next]_vars PROVE DecisionInv'
    OBVIOUS
  <1> USE ProcessesAssumption DEF Procs
  <1>1. ASSUME NEW w \in Writers, NEW profile \in Profiles, NEW flowtime \in FlowTimes,
               MarkModified(w, profile, flowtime)
        PROVE  DecisionInv'
    <2> DEFINE tw == <<profile, TwNumber(flowtime)>>
    <2>1. tw \in TWs
      BY WindowOfFlow
    <2> HIDE DEF tw
    <2>2. /\ modified' = [modified EXCEPT ![tw] = now] /\ touched' = touched \cup {tw}
          /\ UNCHANGED <<todo, cur>>
          /\ pc[w] = "idle" /\ pc' = [pc EXCEPT ![w] = "read_sit"]
      BY <1>1 DEF MarkModified, Goto, tw
    <2> QED BY <2>1, <2>2 DEF TypeOK, DecisionInv, Present, ClosingPcs
  <1>2. ASSUME NEW p \in Procs, CheckStep(p)
        PROVE  DecisionInv'
    <2>1. CASE ReadInternalTime(p)
      BY <2>1, DecisionKept DEF ReadInternalTime, Goto, redis, history, TypeOK, DecisionInv, ClosingPcs
    <2>2. CASE ListWindowsToClose(p)
      BY <2>2 DEF ListWindowsToClose, Goto, redis, TypeOK, DecisionInv, Present, ClosingPcs
    <2>3. CASE AddToClosed(p)
      BY <2>3 DEF AddToClosed, Goto, history, TypeOK, DecisionInv, Present, ClosingPcs
    <2>4. CASE RemoveFromModified(p)
      BY <2>4 DEF RemoveFromModified, Goto, TypeOK, DecisionInv, Present, ClosingPcs
    <2>5. CASE PublishClosed(p)
      BY <2>5 DEF PublishClosed, Goto, history, TypeOK, DecisionInv, Present, ClosingPcs
    <2>6. CASE EndCheck(p)
      BY <2>6, DecisionKept DEF EndCheck, AfterCheck, Goto, redis, history, TypeOK, ClosingPcs
    <2> QED BY <1>2, <2>1, <2>2, <2>3, <2>4, <2>5, <2>6 DEF CheckStep
  <1>3. ASSUME NEW w \in Writers, StopWriter(w)
        PROVE  DecisionInv'
    BY <1>3 DEF StopWriter, LeaveCheck, Goto, redis, TypeOK, DecisionInv, Present, ClosingPcs
  <1>4. CASE LoopIteration \/ ReadLastModification \/ SetInternalTime \/ Shutdown
    <2>1. /\ UNCHANGED <<modified, touched, todo, cur>>
          /\ pc[Main] \in {"loop", "stats", "set_sit"}
          /\ pc' = [pc EXCEPT ![Main] = pc'[Main]] /\ pc'[Main] \notin ClosingPcs
      BY <1>4 DEF LoopIteration, ReadLastModification, SetInternalTime, Shutdown, Goto, redis, history, TypeOK, ClosingPcs
    <2> QED BY <2>1, DecisionKept DEF TypeOK, DecisionInv, ClosingPcs
  <1>5. CASE Interrupt \/ InterruptShutdown
    BY <1>5 DEF Interrupt, InterruptShutdown, LeaveCheck, Goto, redis, TypeOK, DecisionInv, Present, ClosingPcs
  <1>6. CASE Tick \/ InputDone \/ UNCHANGED vars
    BY <1>6, DecisionKept DEF Tick, InputDone, vars, redis, locals, history
  <1> QED
    BY <1>1, <1>2, <1>3, <1>4, <1>5, <1>6 DEF Next, MainStep

(* Steps that open, close, list and announce nothing stutter.              *)
LEMMA SameLife ==
    ASSUME UNCHANGED <<modified, closed, published, todo, cur>>,
           \A p \in Procs : pc'[p] = pc[p] \/ {pc[p], pc'[p]} \cap ClosingPcs = {}
    PROVE  UNCHANGED Life!lifeVars
  BY DEF Life!lifeVars, LifeMap, LifeOf, Present, DecidedMap, DecidedOn, OwedMap, InFlight, ClosingPcs

LEMMA OpenIsModify ==
    ASSUME TypeOK, NEW w \in Writers, NEW profile \in Profiles, NEW flowtime \in FlowTimes,
           MarkModified(w, profile, flowtime)
    PROVE  \E tw \in TWs : Life!Modify(tw)
  <1> DEFINE tw == <<profile, TwNumber(flowtime)>>
  <1>1. tw \in TWs
    BY WindowOfFlow
  <1> HIDE DEF tw
  <1>2. /\ modified' = [modified EXCEPT ![tw] = now] /\ now > 0
        /\ UNCHANGED <<closed, published, todo, cur>>
        /\ pc[w] = "idle" /\ pc' = [pc EXCEPT ![w] = "read_sit"]
    BY TimeAssumption DEF MarkModified, Goto, TypeOK, tw
  <1>3. LifeMap' = [LifeMap EXCEPT ![tw] = "open"]
    BY <1>1, <1>2 DEF TypeOK, LifeMap, LifeOf, Present
  <1>4. UNCHANGED <<DecidedMap, OwedMap>>
    BY <1>2 DEF TypeOK, DecidedMap, DecidedOn, OwedMap, InFlight
  <1> QED BY <1>1, <1>2, <1>3, <1>4 DEF Life!Modify

LEMMA ListIsDecide ==
    ASSUME TypeOK, DecisionInv, NEW p \in Procs, ListWindowsToClose(p)
    PROVE  \E ws \in SUBSET TWs : Life!Decide(p, ws)
  <1>1. /\ UNCHANGED <<modified, closed, published, cur>>
        /\ pc[p] \in {"range", "shut_range"} /\ pc'[p] \in {"close", "shut_close"} /\ todo[p] = {}
        /\ todo'[p] \subseteq {tw \in TWs : Present(tw)}
        /\ \A q \in Procs \ {p} : todo'[q] = todo[q] /\ pc'[q] = pc[q]
    BY DEF ListWindowsToClose, Goto, redis, TypeOK, DecisionInv, ClosingPcs
  <1>2. \A tw \in TWs : p \notin DecidedOn(tw) \cup InFlight(tw)
    BY <1>1 DEF DecidedOn, InFlight
  <1>3. \A tw \in todo'[p] : LifeMap[tw] = "open"
    BY <1>1 DEF LifeMap, LifeOf
  <1>4. ASSUME NEW tw \in TWs
        PROVE  DecidedOn(tw)' = IF tw \in todo'[p] THEN DecidedOn(tw) \cup {p} ELSE DecidedOn(tw)
    BY <1>1, <1>2 DEF DecidedOn
  <1>5. UNCHANGED <<LifeMap, OwedMap>>
    BY <1>1 DEF LifeMap, LifeOf, Present, OwedMap, InFlight
  <1>6. Life!Decide(p, todo'[p])
    BY <1>1, <1>2, <1>3, <1>4, <1>5 DEF Life!Decide, DecidedMap, OwedMap
  <1> QED BY <1>1, <1>6

(* SADD changes nothing about a window: it is still open, or another       *)
(* process has closed it, and then it is in ClosedTW already.              *)
LEMMA AddIsNothing ==
    ASSUME TypeOK, LostInv, DecisionInv, NEW p \in Procs, AddToClosed(p)
    PROVE  UNCHANGED Life!lifeVars
  <1> PICK tw \in todo[p] : /\ closed' = closed \cup {tw} /\ cur' = [cur EXCEPT ![p] = tw]
                            /\ todo' = [todo EXCEPT ![p] = @ \ {tw}]
    BY DEF AddToClosed
  <1>1. Present(tw) \/ tw \in closed
    BY DEF LostInv, NeverLost, DecisionInv
  <1>2. /\ UNCHANGED <<modified, published>>
        /\ pc[p] \in {"close", "shut_close"} /\ pc'[p] \in {"zrem", "shut_zrem"}
        /\ cur'[p] = tw /\ todo'[p] = todo[p] \ {tw}
        /\ \A q \in Procs \ {p} : todo'[q] = todo[q] /\ pc'[q] = pc[q] /\ cur'[q] = cur[q]
    BY DEF AddToClosed, Goto, TypeOK
  <1>3. LifeMap' = LifeMap
    BY <1>1, <1>2 DEF LifeMap, LifeOf, Present
  <1>4. DecidedMap' = DecidedMap
    <2>1. ASSUME NEW t \in TWs PROVE DecidedOn(t)' = DecidedOn(t)
      BY <1>2 DEF DecidedOn
    <2> QED BY <2>1 DEF DecidedMap
  <1>5. OwedMap' = OwedMap
    <2>1. ASSUME NEW t \in TWs PROVE InFlight(t)' = InFlight(t)
      BY <1>2 DEF InFlight
    <2> QED BY <2>1 DEF OwedMap
  <1> QED BY <1>2, <1>3, <1>4, <1>5 DEF Life!lifeVars

LEMMA RemoveIsClose ==
    ASSUME TypeOK, LostInv, DecisionInv, NEW p \in Procs, RemoveFromModified(p)
    PROVE  \E tw \in TWs : Life!Close(p, tw)
  <1>1. /\ pc[p] \in {"zrem", "shut_zrem"} /\ pc'[p] \in {"publish", "shut_publish"}
        /\ cur[p] \in TWs \ todo[p] /\ cur[p] \in closed
        /\ modified' = [modified EXCEPT ![cur[p]] = 0]
        /\ UNCHANGED <<closed, published, todo, cur>>
        /\ \A q \in Procs \ {p} : pc'[q] = pc[q]
    BY DEF RemoveFromModified, Goto, TypeOK, LostInv, ClosedBeforeRemoval, DecisionInv, ClosingPcs
  <1> PICK tw \in TWs : tw = cur[p]
    BY <1>1
  <1>2. p \in DecidedMap[tw]
    BY <1>1 DEF DecidedMap, DecidedOn
  <1>3. LifeMap' = [LifeMap EXCEPT ![tw] = "closed"]
    <2>1. modified'[tw] = 0 /\ \A t \in TWs \ {tw} : modified'[t] = modified[t]
      BY <1>1 DEF TypeOK
    <2>2. LifeOf(tw)' = "closed"
      BY <1>1, <2>1 DEF LifeOf, Present
    <2>3. ASSUME NEW t \in TWs \ {tw} PROVE LifeOf(t)' = LifeOf(t)
      BY <1>1, <2>1 DEF LifeOf, Present
    <2> QED BY <2>2, <2>3 DEF LifeMap
  <1>4. DecidedMap' = [DecidedMap EXCEPT ![tw] = @ \ {p}]
    <2>1. DecidedOn(tw)' = DecidedOn(tw) \ {p}
      BY <1>1 DEF DecidedOn
    <2>2. ASSUME NEW t \in TWs \ {tw} PROVE DecidedOn(t)' = DecidedOn(t)
      BY <1>1 DEF DecidedOn
    <2> QED BY <2>1, <2>2 DEF DecidedMap
  <1>5. OwedMap' = [OwedMap EXCEPT ![tw] = @ \cup {p}]
    <2>1. InFlight(tw)' = InFlight(tw) \cup {p}
      BY <1>1 DEF InFlight
    <2>2. ASSUME NEW t \in TWs \ {tw} PROVE InFlight(t)' = InFlight(t)
      BY <1>1 DEF InFlight
    <2> QED BY <2>1, <2>2 DEF OwedMap
  <1>6. Life!Close(p, tw)
    BY <1>1, <1>2, <1>3, <1>4, <1>5 DEF Life!Close
  <1> QED BY <1>6

LEMMA PublishIsAnnounce ==
    ASSUME TypeOK, DecisionInv, NEW p \in Procs, PublishClosed(p)
    PROVE  \E tw \in TWs : Life!Announce(p, tw)
  <1>1. /\ pc[p] \in {"publish", "shut_publish"} /\ pc'[p] \in {"close", "shut_close"}
        /\ cur[p] \in TWs
        /\ published' = [published EXCEPT ![cur[p]] = @ + 1]
        /\ UNCHANGED <<modified, closed, todo>>
        /\ \A q \in Procs \ {p} : pc'[q] = pc[q] /\ cur'[q] = cur[q]
    BY DEF PublishClosed, Goto, TypeOK, DecisionInv, ClosingPcs
  <1> PICK tw \in TWs : tw = cur[p]
    BY <1>1
  <1>2. p \in OwedMap[tw]
    BY <1>1 DEF OwedMap, InFlight
  <1>3. LifeMap' = LifeMap
    BY <1>1 DEF LifeMap, LifeOf, Present
  <1>4. DecidedMap' = DecidedMap
    <2>1. ASSUME NEW t \in TWs PROVE DecidedOn(t)' = DecidedOn(t)
      BY <1>1 DEF DecidedOn
    <2> QED BY <2>1 DEF DecidedMap
  <1>5. OwedMap' = [OwedMap EXCEPT ![tw] = @ \ {p}]
    <2>1. InFlight(tw)' = InFlight(tw) \ {p}
      BY <1>1 DEF InFlight
    <2>2. ASSUME NEW t \in TWs \ {tw} PROVE InFlight(t)' = InFlight(t)
      BY <1>1 DEF InFlight
    <2> QED BY <2>1, <2>2 DEF OwedMap
  <1>6. Life!Announce(p, tw)
    BY <1>1, <1>2, <1>3, <1>4, <1>5 DEF Life!Announce
  <1> QED BY <1>6

(* An interrupt or a kill drops the list and the window in hand.           *)
LEMMA StopIsGiveUp ==
    ASSUME TypeOK, NEW p \in Procs, LeaveCheck(p), UNCHANGED <<modified, closed, published>>,
           pc'[p] \notin ClosingPcs, \A q \in Procs \ {p} : pc'[q] = pc[q]
    PROVE  Life!GiveUp(p)
  <1>1. /\ todo'[p] = {}
        /\ \A q \in Procs \ {p} : todo'[q] = todo[q] /\ cur'[q] = cur[q]
    BY DEF LeaveCheck, TypeOK
  <1>2. ASSUME NEW t \in TWs
        PROVE  DecidedOn(t)' = DecidedOn(t) \ {p} /\ InFlight(t)' = InFlight(t) \ {p}
    BY <1>1 DEF DecidedOn, InFlight, ClosingPcs
  <1>3. LifeMap' = LifeMap
    BY DEF LifeMap, LifeOf, Present
  <1> QED BY <1>2, <1>3 DEF Life!GiveUp, DecidedMap, OwedMap

LEMMA LifeInit == Init => Life!Init
  <1> SUFFICES ASSUME Init PROVE Life!Init
    OBVIOUS
  <1>1. \A tw \in TWs : LifeOf(tw) = "unseen" /\ DecidedOn(tw) = {} /\ InFlight(tw) = {}
    BY ProcessesAssumption DEF Init, LifeOf, Present, DecidedOn, InFlight, Procs
  <1> QED BY <1>1 DEF Init, Life!Init, LifeMap, DecidedMap, OwedMap

LEMMA LifeStep ==
    TypeOK /\ LostInv /\ DecisionInv /\ [Next]_vars => [Life!Next]_(Life!lifeVars)
  <1> SUFFICES ASSUME TypeOK, LostInv, DecisionInv, [Next]_vars
               PROVE  Life!Next \/ UNCHANGED Life!lifeVars
    OBVIOUS
  <1>1. ASSUME NEW w \in Writers, NEW profile \in Profiles, NEW flowtime \in FlowTimes,
               MarkModified(w, profile, flowtime)
        PROVE  Life!Next
    BY <1>1, OpenIsModify DEF Life!Next
  <1>2. ASSUME NEW p \in Procs, CheckStep(p)
        PROVE  Life!Next \/ UNCHANGED Life!lifeVars
    <2>1. CASE ReadInternalTime(p) \/ EndCheck(p)
      <3>1. UNCHANGED <<modified, closed, published, todo, cur>>
        BY <2>1 DEF ReadInternalTime, EndCheck, redis
      <3>2. \A q \in Procs : pc'[q] = pc[q] \/ {pc[q], pc'[q]} \cap ClosingPcs = {}
        BY <2>1 DEF ReadInternalTime, EndCheck, AfterCheck, Goto, TypeOK, ClosingPcs
      <3> QED BY <3>1, <3>2, SameLife
    <2> QED BY <1>2, <2>1, ListIsDecide, AddIsNothing, RemoveIsClose, PublishIsAnnounce DEF CheckStep, Life!Next
  <1>3. ASSUME NEW w \in Writers, StopWriter(w)
        PROVE  Life!Next
    <2>1. /\ LeaveCheck(w) /\ UNCHANGED <<modified, closed, published>> /\ w \in Procs
          /\ pc'[w] \notin ClosingPcs /\ \A q \in Procs \ {w} : pc'[q] = pc[q]
      BY <1>3 DEF StopWriter, Goto, redis, TypeOK, ClosingPcs, Procs
    <2> QED BY <2>1, StopIsGiveUp DEF Life!Next
  <1>4. CASE Interrupt \/ InterruptShutdown
    <2>1. /\ LeaveCheck(Main) /\ UNCHANGED <<modified, closed, published>> /\ Main \in Procs
          /\ pc'[Main] \notin ClosingPcs /\ \A q \in Procs \ {Main} : pc'[q] = pc[q]
      BY <1>4 DEF Interrupt, InterruptShutdown, Goto, redis, TypeOK, ClosingPcs, Procs
    <2> QED BY <2>1, StopIsGiveUp DEF Life!Next
  <1>5. CASE LoopIteration \/ ReadLastModification \/ SetInternalTime \/ Shutdown
    <2>1. UNCHANGED <<modified, closed, published, todo, cur>>
      BY <1>5 DEF LoopIteration, ReadLastModification, SetInternalTime, Shutdown, redis
    <2>2. \A q \in Procs : pc'[q] = pc[q] \/ {pc[q], pc'[q]} \cap ClosingPcs = {}
      BY <1>5 DEF LoopIteration, ReadLastModification, SetInternalTime, Shutdown, Goto, TypeOK, ClosingPcs
    <2> QED BY <2>1, <2>2, SameLife
  <1>6. CASE Tick \/ InputDone \/ UNCHANGED vars
    BY <1>6, SameLife DEF Tick, InputDone, vars, redis, locals
  <1> QED
    BY <1>1, <1>2, <1>3, <1>4, <1>5, <1>6 DEF Next, MainStep, Procs

(* Every step of the processes on a window is one step of its life, or     *)
(* none, for any number of processes, profiles and windows: it is closed   *)
(* by who decided on it while it was open, and announced once for each     *)
(* closing that is not interrupted.                                        *)
THEOREM TimewindowsImplementLife == Spec => ImplementsLife
  <1>1. Init => TypeOK /\ LostInv /\ DecisionInv /\ Life!Init
    BY TypeInit, LostInit, DecisionInit, LifeInit
  <1>2. TypeOK /\ LostInv /\ DecisionInv /\ [Next]_vars => TypeOK' /\ LostInv' /\ DecisionInv' /\ [Life!Next]_(Life!lifeVars)
    BY TypeStep, LostStep, DecisionStep, LifeStep
  <1> QED BY <1>1, <1>2, PTL DEF Spec, ImplementsLife, Life!Spec
=============================================================================
