--------------------------- MODULE ShutdownProofs ---------------------------
(***************************************************************************)
(* Proofs about Shutdown, for every set of children, every timeout and     *)
(* every number of Ctrl-C.  They rest on one observation: a child that     *)
(* stopped never runs again, so what a join() established stays true.      *)
(***************************************************************************)
EXTENDS Shutdown, TLAPS

(***************************************************************************)
(* What a step of a child can do to the variables the proofs are about.    *)
(***************************************************************************)
StateSteps == \A q \in Procs : state'[q] = state[q] \/ (Running(q) /\ state'[q] = "stopped")

\* The input, the profiler and the detection modules are not killed last.
LEMMA Lists == KillFirst \cup KillLast = Procs /\ KillFirst \cap KillLast = {}
BY ProcsAssumption DEF KillFirst, KillLast, Procs, Core

\* A child stops, or changes nobody's state, and leaves the main process alone.
LEMMA ChildFrame ==
  ASSUME TypeOK, NEW p \in Procs, ChildStep(p)
  PROVE  StateSteps /\ UNCHANGED <<events, main, interrupts>>
<1> USE DEF StateSteps, Running, TypeOK
<1>1. CASE EnterMain(p)
  BY <1>1 DEF EnterMain
<1>2. CASE StopOnEvent(p)
  BY <1>2 DEF StopOnEvent, Stop
<1>3. CASE StopOnInterrupt(p)
  BY <1>3 DEF StopOnInterrupt, Stop
<1>4. CASE StopOnError(p)
  BY <1>4 DEF StopOnError, Stop
<1>5. CASE Idle(p)
  BY <1>5 DEF Idle, Leave
<1>6. CASE p \in Modules /\ HandleFlow(p)
  BY <1>6 DEF HandleFlow, Leave
<1>7. CASE p = Handler /\ HandleEvidence
  BY <1>7 DEF HandleEvidence, Leave
<1>8. CASE p \in Consumers /\ Consume(p)
  BY <1>8 DEF Consume, Leave
<1>9. CASE p = Input /\ ReadLine
  BY <1>9 DEF ReadLine, Leave
<1>10. CASE p = Input /\ FinishInput
  BY <1>10 DEF FinishInput
<1>11. CASE p = Input /\ EndInput
  BY <1>11 DEF EndInput, Stop, InMain
<1>12. CASE p = Profiler /\ ProfileLine
  BY <1>12 DEF ProfileLine, Leave
<1>13. CASE p = Profiler /\ EndProfiler
  BY <1>13 DEF EndProfiler, Stop, InMain
<1>14. CASE p = Profiler /\ ProfilerIdle
  BY <1>14 DEF ProfilerIdle, Leave
<1>15. QED
  BY <1>1, <1>2, <1>3, <1>4, <1>5, <1>6, <1>7, <1>8, <1>9, <1>10, <1>11, <1>12, <1>13,
     <1>14 DEF ChildStep

(***************************************************************************)
(* Type correctness.                                                       *)
(***************************************************************************)
ChildTypeOK ==
    /\ state \in [Procs -> {"running", "stopped", "killed"}]
    /\ inMain \subseteq Procs
    /\ sigint \subseteq Procs
    /\ lines \in 0..MaxLines
    /\ queue \in [lines: Nat, stop: BOOLEAN]
    /\ sem \in [{"input", "profiler"} -> Nat]
    /\ inbox \in [Procs -> Nat]

LEMMA StopTyped ==
  ASSUME TypeOK, NEW p \in Procs, Stop(p)
  PROVE  /\ state' \in [Procs -> {"running", "stopped", "killed"}]
         /\ inMain' \subseteq Procs
         /\ sigint' \subseteq Procs
         /\ sem' \in [{"input", "profiler"} -> Nat]
BY DEF TypeOK, Stop

LEMMA DeliverTyped ==
  ASSUME NEW box \in [Procs -> Nat], NEW ps
  PROVE  Deliver(box, ps) \in [Procs -> Nat]
BY DEF Deliver

LEMMA TakeTyped ==
  ASSUME TypeOK, NEW p \in Procs, inbox[p] > 0
  PROVE  Take(p) \in [Procs -> Nat]
BY DEF TypeOK, Take

LEMMA ChildTypes ==
  ASSUME TypeOK, NEW p \in Procs, ChildStep(p)
  PROVE  ChildTypeOK'
<1> USE DEF ChildTypeOK
<1>p. Handler \in Procs /\ Input \in Procs /\ Profiler \in Procs /\ Modules \subseteq Procs
      /\ Consumers \subseteq Procs
  BY DEF Procs, Core
<1>1. CASE EnterMain(p)
  BY <1>1 DEF EnterMain, TypeOK
<1>2. CASE StopOnEvent(p)
  BY <1>2, StopTyped DEF StopOnEvent, TypeOK
<1>3. CASE StopOnInterrupt(p)
  BY <1>3, StopTyped DEF StopOnInterrupt, TypeOK
<1>4. CASE StopOnError(p)
  BY <1>4, StopTyped DEF StopOnError, TypeOK
<1>5. CASE Idle(p)
  BY <1>5 DEF Idle, Leave, TypeOK
<1>6. CASE p \in Modules /\ HandleFlow(p)
  <2>1. Take(p) \in [Procs -> Nat]
    BY <1>6, TakeTyped DEF HandleFlow
  <2>2. inbox' \in [Procs -> Nat]
    BY <1>6, <2>1, DeliverTyped DEF HandleFlow
  <2>3. QED
    BY <1>6, <2>2 DEF HandleFlow, Leave, TypeOK
<1>7. CASE p = Handler /\ HandleEvidence
  <2>1. Take(Handler) \in [Procs -> Nat]
    BY <1>7, <1>p, TakeTyped DEF HandleEvidence
  <2>2. inbox' \in [Procs -> Nat]
    BY <1>7, <2>1, DeliverTyped DEF HandleEvidence
  <2>3. QED
    BY <1>7, <2>2 DEF HandleEvidence, Leave, TypeOK
<1>8. CASE p \in Consumers /\ Consume(p)
  BY <1>8, TakeTyped DEF Consume, Leave, TypeOK
<1>9. CASE p = Input /\ ReadLine
  BY <1>9, BoundsAssumption DEF ReadLine, Leave, TypeOK
<1>10. CASE p = Input /\ FinishInput
  <2>1. queue' \in [lines: Nat, stop: BOOLEAN]
    BY <1>10 DEF FinishInput, TypeOK
  <2>2. sem' \in [{"input", "profiler"} -> Nat]
    BY <1>10 DEF FinishInput, TypeOK
  <2>3. QED
    BY <1>10, <2>1, <2>2 DEF FinishInput, TypeOK
<1>11. CASE p = Input /\ EndInput
  BY <1>11, StopTyped DEF EndInput, TypeOK
<1>12. CASE p = Profiler /\ ProfileLine
  <2>1. inbox' \in [Procs -> Nat]
    BY <1>12, DeliverTyped DEF ProfileLine, TypeOK
  <2>2. queue' \in [lines: Nat, stop: BOOLEAN]
    BY <1>12 DEF ProfileLine, TypeOK
  <2>3. QED
    BY <1>12, <2>1, <2>2 DEF ProfileLine, Leave, TypeOK
<1>13. CASE p = Profiler /\ EndProfiler
  BY <1>13, StopTyped DEF EndProfiler, TypeOK
<1>14. CASE p = Profiler /\ ProfilerIdle
  BY <1>14 DEF ProfilerIdle, Leave, TypeOK
<1>15. QED
  BY <1>1, <1>2, <1>3, <1>4, <1>5, <1>6, <1>7, <1>8, <1>9, <1>10, <1>11, <1>12, <1>13,
     <1>14 DEF ChildStep

LEMMA TypeInit == Init => TypeOK
<1> SUFFICES ASSUME Init PROVE TypeOK
  OBVIOUS
<1>1. lines \in 0..MaxLines /\ elapsed \in 0..Timeout /\ interrupts \in 0..MaxInterrupts
  BY BoundsAssumption DEF Init
<1>2. queue \in [lines: Nat, stop: BOOLEAN]
  BY DEF Init
<1>3. QED
  BY <1>1, <1>2 DEF Init, TypeOK, Pcs, LoopPcs

LEMMA TypeStep == TypeOK /\ [Next]_vars => TypeOK'
<1> SUFFICES ASSUME TypeOK, [Next]_vars PROVE TypeOK'
  OBVIOUS
<1> USE DEF Pcs, LoopPcs, WaitPcs, EndPcs, children, events, main
<1>l. KillFirst \subseteq Procs /\ KillLast \subseteq Procs
  BY Lists
<1>1. CASE \E p \in Procs : ChildStep(p)
  BY <1>1, ChildTypes, ChildFrame DEF ChildTypeOK, TypeOK
<1>2. CASE SendStop
  BY <1>2 DEF SendStop, TypeOK
<1>3. CASE MainStep
  <2>1. CASE PollControl
    BY <2>1 DEF PollControl, TypeOK
  <2>2. CASE PollInput
    BY <2>2 DEF PollInput, CanAcquire, AfterAcquire, TypeOK
  <2>3. CASE PollProfiler
    BY <2>3 DEF PollProfiler, AfterAcquire, TypeOK
  <2>4. CASE StartShutdown
    BY <2>4, <1>l DEF StartShutdown, TypeOK
  <2>5. CASE While
    BY <2>5 DEF While, TypeOK
  <2>6. CASE JoinedFirst
    BY <2>6 DEF JoinedFirst, TypeOK
  <2>7. CASE JoinedLast
    BY <2>7 DEF JoinedLast, TypeOK
  <2>8. CASE CheckTime
    BY <2>8 DEF CheckTime, GracefulSoFar, ToKill, TypeOK
  <2>9. CASE AllKilled
    BY <2>9 DEF AllKilled, TypeOK
  <2>10. CASE Finish
    BY <2>10 DEF Finish, TypeOK
  <2>11. ASSUME NEW p \in Procs, Join(p) PROVE TypeOK'
    BY <2>11, BoundsAssumption DEF Join, CountTimeout, TypeOK
  <2>12. ASSUME NEW p \in Procs, KillChild(p) PROVE TypeOK'
    BY <2>12 DEF KillChild, TypeOK
  <2>13. QED
    BY <1>3, <2>1, <2>2, <2>3, <2>4, <2>5, <2>6, <2>7, <2>8, <2>9, <2>10, <2>11, <2>12
       DEF MainStep
<1>4. CASE Interrupt
  BY <1>4, BoundsAssumption DEF Interrupt, TypeOK
<1>5. CASE UNCHANGED vars
  BY <1>5 DEF vars, TypeOK
<1>6. QED
  BY <1>1, <1>2, <1>3, <1>4, <1>5 DEF Next

\* Every variable keeps its type, whatever the children do and whenever the
\* user interrupts (managers/process_manager.py, imodule.py).
THEOREM TypeCorrect == Spec => []TypeOK
BY TypeInit, TypeStep, PTL DEF Spec

(***************************************************************************)
(* The inductive invariants.  While the main process waits, the children   *)
(* it took off a list are dead; a join() that is over added to that.       *)
(***************************************************************************)
FirstInv ==
    /\ handlerTermination => \A p \in KillFirst : ~Running(p)
    /\ mpc \in WaitPcs => \A p \in KillFirst \ toFirst : ~Running(p)
    /\ mpc = "first" => \A p \in toFirst \ (todo \cup alive) : ~Running(p)

LastInv ==
    /\ mpc = "last" => toFirst = {}
    /\ mpc \in WaitPcs => \A p \in KillLast \ toLast : ~Running(p)
    /\ mpc = "last" => \A p \in toLast \ (todo \cup alive) : ~Running(p)
    /\ mpc = "check" /\ graceful /\ elapsed < Timeout => \A p \in Procs : ~Running(p)

KillPcs == {"kill", "finish"} \cup EndPcs

KillInv ==
    /\ \A p \in reported : ~Running(p)
    /\ mpc = "kill" => \A p \in Procs \ todo : ~Running(p)
    /\ mpc \in {"finish", "ended"} => \A p \in Procs : ~Running(p)
    /\ mpc \notin KillPcs => \A p \in Procs : state[p] # "killed"
    /\ mpc \in {"kill", "finish", "ended"} /\ graceful =>
           \A p \in Procs : state[p] = "stopped"

WaitInv == FirstInv /\ LastInv /\ KillInv

LEMMA WaitInit == Init => WaitInv
BY DEF Init, WaitInv, FirstInv, LastInv, KillInv, LoopPcs, WaitPcs, KillPcs, EndPcs

\* Steps that leave the main process and the events alone.
LEMMA ChildKeeps ==
  ASSUME TypeOK, WaitInv, StateSteps, UNCHANGED <<handlerTermination, main>>
  PROVE  WaitInv'
<1>1. \A p \in Procs : ~Running(p) => ~Running(p)'
  BY DEF StateSteps, Running
<1>2. KillFirst \subseteq Procs /\ KillLast \subseteq Procs
  BY Lists
<1>m. UNCHANGED <<handlerTermination, mpc, toFirst, toLast, todo, alive, reported, elapsed,
                  graceful>>
  BY DEF main
<1>d. \A S \in SUBSET Procs : (\A p \in S : ~Running(p)) => \A p \in S : ~Running(p)'
  BY <1>1
<1>t. toFirst \subseteq Procs /\ toLast \subseteq Procs
  BY DEF TypeOK
<1>3. FirstInv'
  <2>1. handlerTermination => \A p \in KillFirst : ~Running(p)'
    BY <1>d, <1>2 DEF WaitInv, FirstInv
  <2>2. mpc \in WaitPcs => \A p \in KillFirst \ toFirst : ~Running(p)'
    BY <1>1, <1>2 DEF WaitInv, FirstInv
  <2>3. mpc = "first" => \A p \in toFirst \ (todo \cup alive) : ~Running(p)'
    BY <1>1, <1>t DEF WaitInv, FirstInv
  <2>4. QED
    BY <1>m, <2>1, <2>2, <2>3 DEF FirstInv
<1>4. LastInv'
  <2>1. mpc = "last" => toFirst = {}
    BY DEF WaitInv, LastInv
  <2>2. mpc \in WaitPcs => \A p \in KillLast \ toLast : ~Running(p)'
    BY <1>1, <1>2 DEF WaitInv, LastInv
  <2>3. mpc = "last" => \A p \in toLast \ (todo \cup alive) : ~Running(p)'
    BY <1>1, <1>t DEF WaitInv, LastInv
  <2>4. mpc = "check" /\ graceful /\ elapsed < Timeout => \A p \in Procs : ~Running(p)'
    BY <1>1 DEF WaitInv, LastInv
  <2>5. QED
    BY <1>m, <2>1, <2>2, <2>3, <2>4 DEF LastInv
<1>5. KillInv'
  <2>1. \A p \in reported : p \in Procs
    BY DEF TypeOK
  <2>2. \A p \in Procs : state[p] # "killed" => state'[p] # "killed"
    BY DEF StateSteps
  <2>3. \A p \in Procs : state[p] = "stopped" => state'[p] = "stopped"
    BY DEF StateSteps
  <2>4. QED
    BY <1>1, <2>1, <2>2, <2>3 DEF WaitInv, KillInv, main
<1>6. QED
  BY <1>3, <1>4, <1>5 DEF WaitInv

LEMMA WaitStep == TypeOK /\ WaitInv /\ [Next]_vars => WaitInv'
<1> SUFFICES ASSUME TypeOK, WaitInv, [Next]_vars PROVE WaitInv'
  OBVIOUS
<1> DEFINE Same == state' = state
<1> USE DEF LoopPcs, WaitPcs, EndPcs, KillPcs
<1>s. Same => StateSteps
  BY DEF StateSteps
<1>1. CASE \E p \in Procs : ChildStep(p)
  BY <1>1, ChildFrame, ChildKeeps DEF events
<1>2. CASE SendStop
  BY <1>2, <1>s, ChildKeeps DEF SendStop, children, events
<1>3. CASE MainStep
  <2> USE DEF WaitInv, FirstInv, LastInv, KillInv, Running, children, events
  <2>1. CASE PollControl
    BY <2>1 DEF PollControl
  <2>2. CASE PollInput
    BY <2>2 DEF PollInput
  <2>3. CASE PollProfiler
    BY <2>3 DEF PollProfiler
  <2>4. CASE StartShutdown
    BY <2>4 DEF StartShutdown
  <2>5. CASE While
    BY <2>5, BoundsAssumption DEF While, TimedOut, TypeOK
  <2>6. CASE JoinedFirst
    BY <2>6 DEF JoinedFirst, FirstListDone
  <2>7. CASE JoinedLast
    BY <2>7, Lists DEF JoinedLast
  <2>8. CASE CheckTime
    <3>1. graceful' => graceful /\ elapsed < Timeout
      <4>1. ~TimedOut => elapsed < Timeout
        BY BoundsAssumption DEF TimedOut, TypeOK
      <4>2. graceful' => graceful /\ ~TimedOut
        BY <2>8 DEF CheckTime, GracefulSoFar
      <4>3. QED
        BY <4>1, <4>2
    <3>2. graceful' => \A p \in Procs : state[p] = "stopped"
      BY <2>8, <3>1 DEF CheckTime, TypeOK
    <3>3. QED
      BY <2>8, <3>2 DEF CheckTime, ToKill
  <2>9. CASE AllKilled
    BY <2>9 DEF AllKilled
  <2>10. CASE Finish
    BY <2>10 DEF Finish
  <2>11. ASSUME NEW p \in Procs, Join(p) PROVE WaitInv'
    BY <2>11 DEF Join, TypeOK
  <2>12. ASSUME NEW p \in Procs, KillChild(p) PROVE WaitInv'
    BY <2>12 DEF KillChild, TypeOK
  <2>13. QED
    BY <1>3, <2>1, <2>2, <2>3, <2>4, <2>5, <2>6, <2>7, <2>8, <2>9, <2>10, <2>11, <2>12
       DEF MainStep
<1>4. CASE Interrupt
  BY <1>4 DEF Interrupt, WaitInv, FirstInv, LastInv, KillInv, Running, events
<1>5. CASE UNCHANGED vars
  BY <1>5, <1>s, ChildKeeps DEF vars, main
<1>6. QED
  BY <1>1, <1>2, <1>3, <1>4, <1>5 DEF Next

LEMMA Waits == Spec => [](TypeOK /\ WaitInv)
<1>1. Init => TypeOK /\ WaitInv
  BY TypeInit, WaitInit
<1>2. TypeOK /\ WaitInv /\ [Next]_vars => (TypeOK /\ WaitInv)'
  BY TypeStep, WaitStep
<1>3. QED
  BY <1>1, <1>2, PTL DEF Spec

\* The evidence handler is told to stop only when nothing that could still
\* add evidence runs (process_manager.py:678).
THEOREM HandlerIsToldLast == Spec => []HandlerStopsLast
<1>1. WaitInv => HandlerStopsLast
  BY DEF WaitInv, FirstInv, HandlerStopsLast
<1>2. QED
  BY <1>1, Waits, PTL

\* close_all_dbs (process_manager.py:856) runs when every child is dead,
\* whether it stopped, was killed after the timeout or after Ctrl-C.
THEOREM DatabasesCloseLast == Spec => []DatabasesOutliveChildren
<1>1. WaitInv => DatabasesOutliveChildren
  BY DEF WaitInv, KillInv, DatabasesOutliveChildren
<1>2. QED
  BY <1>1, Waits, PTL

\* "shutdown gracefully" is printed only when no child was killed
\* (process_manager.py:858).
THEOREM GracefulIsTrue == Spec => []GracefulKillsNobody
<1>1. WaitInv => GracefulKillsNobody
  BY DEF WaitInv, KillInv, GracefulKillsNobody
<1>2. QED
  BY <1>1, Waits, PTL

(***************************************************************************)
(* The end of the input.  Nobody asked SmartShield to stop, and the        *)
(* profiler's main() does not fail: then each semaphore, once released,    *)
(* tells that there is nothing left to read, or to profile.                *)
(***************************************************************************)
NothingLeft == lines = 0 /\ queue.lines = 0 /\ queue.stop

SemaphoresTell ==
    /\ queue.stop => lines = 0
    /\ sem["input"] > 0 => queue.stop
    /\ ~termination /\ sem["profiler"] > 0 => NothingLeft

DrainInv ==
    /\ termination => mpc \notin LoopPcs \cup {"closing"}
    /\ interrupts = 0 =>
         /\ sigint = {}
         /\ SemaphoresTell
         /\ mpc = "poll_profiler" /\ gotInput => queue.stop
         /\ mpc \notin LoopPcs /\ stopMsg # "taken" => NothingLeft

LEMMA DrainInit == Init => DrainInv
BY DEF Init, DrainInv, SemaphoresTell, NothingLeft, LoopPcs

\* What the children add to the queue and to the semaphores.  The profiler's
\* shutdown_gracefully releases is_profiler_done: with no error, no Ctrl-C and
\* no event, it got there because its queue was empty and closed.
LEMMA ChildDrains ==
  ASSUME Profiler \notin MayFail, TypeOK, DrainInv, interrupts = 0,
         NEW p \in Procs, ChildStep(p)
  PROVE  /\ sigint' = {}
         /\ SemaphoresTell'
         /\ queue.stop => queue'.stop
         /\ NothingLeft => NothingLeft'
<1> USE ProcsAssumption DEF TypeOK, DrainInv, SemaphoresTell, NothingLeft, events, main
<1>1. CASE EnterMain(p) \/ Idle(p)
  BY <1>1 DEF EnterMain, Idle, Leave
<1>2. CASE StopOnEvent(p)
  BY <1>2 DEF StopOnEvent, Stop, EventOf
<1>3. CASE StopOnInterrupt(p)
  BY <1>3 DEF StopOnInterrupt
<1>4. CASE StopOnError(p)
  BY <1>4 DEF StopOnError, Stop
<1>5. CASE p \in Modules /\ HandleFlow(p)
  BY <1>5 DEF HandleFlow, Leave
<1>6. CASE p = Handler /\ HandleEvidence
  BY <1>6 DEF HandleEvidence, Leave
<1>7. CASE p \in Consumers /\ Consume(p)
  BY <1>7 DEF Consume, Leave
<1>8. CASE p = Input /\ ReadLine
  <2>1. /\ lines > 0 /\ ~queue.stop /\ queue'.stop = queue.stop
        /\ UNCHANGED <<sem, sigint, termination>>
    BY <1>8 DEF ReadLine, Leave
  <2> QED BY <2>1
<1>9. CASE p = Input /\ FinishInput
  <2>1. /\ lines = 0 /\ ~queue.stop /\ queue'.stop /\ queue'.lines = queue.lines
        /\ sem'["profiler"] = sem["profiler"]
        /\ UNCHANGED <<sigint, termination, lines>>
    BY <1>9 DEF FinishInput
  <2> QED BY <2>1
<1>10. CASE p = Input /\ EndInput
  BY <1>10 DEF EndInput, Stop
<1>11. CASE p = Profiler /\ ProfileLine
  <2>1. /\ queue.lines > 0 /\ queue'.stop = queue.stop
        /\ UNCHANGED <<sem, sigint, termination, lines>>
    BY <1>11 DEF ProfileLine, Leave
  <2> QED BY <2>1
<1>12. CASE p = Profiler /\ EndProfiler
  BY <1>12 DEF EndProfiler, Stop
<1>13. CASE p = Profiler /\ ProfilerIdle
  BY <1>13 DEF ProfilerIdle, Leave
<1> QED
  BY <1>1, <1>2, <1>3, <1>4, <1>5, <1>6, <1>7, <1>8, <1>9, <1>10, <1>11, <1>12, <1>13
     DEF ChildStep

LEMMA DrainStep ==
  ASSUME Profiler \notin MayFail, TypeOK, DrainInv, [Next]_vars
  PROVE  DrainInv'
<1> USE DEF LoopPcs, WaitPcs, EndPcs
<1>1. ASSUME NEW p \in Procs, ChildStep(p) PROVE DrainInv'
  <2>1. UNCHANGED <<events, main, interrupts>>
    BY <1>1, ChildFrame
  <2>2. CASE interrupts # 0
    BY <2>1, <2>2 DEF DrainInv, events, main
  <2>3. CASE interrupts = 0
    <3>1. /\ sigint' = {}
          /\ SemaphoresTell'
          /\ queue.stop => queue'.stop
          /\ NothingLeft => NothingLeft'
      BY <1>1, <2>3, ChildDrains
    <3> QED BY <2>1, <2>3, <3>1 DEF DrainInv, events, main
  <2> QED BY <2>2, <2>3
<1>2. CASE SendStop
  BY <1>2 DEF SendStop, children, main, DrainInv, SemaphoresTell, NothingLeft
<1>3. CASE MainStep
  <2> USE DEF DrainInv, SemaphoresTell, NothingLeft, children, events
  <2>1. CASE PollControl
    BY <2>1 DEF PollControl
  <2>2. CASE PollInput
    BY <2>2 DEF PollInput, CanAcquire, AfterAcquire
  <2>3. CASE PollProfiler
    BY <2>3 DEF PollProfiler, IsDoneReceiving, CanAcquire, AfterAcquire
  <2>4. CASE StartShutdown
    BY <2>4 DEF StartShutdown
  <2>5. CASE While
    BY <2>5 DEF While
  <2>6. CASE JoinedFirst
    BY <2>6 DEF JoinedFirst
  <2>7. CASE JoinedLast
    BY <2>7 DEF JoinedLast
  <2>8. CASE CheckTime
    BY <2>8 DEF CheckTime
  <2>9. CASE AllKilled
    BY <2>9 DEF AllKilled
  <2>10. CASE Finish
    BY <2>10 DEF Finish
  <2>11. ASSUME NEW p \in Procs, Join(p) PROVE DrainInv'
    BY <2>11 DEF Join
  <2>12. ASSUME NEW p \in Procs, KillChild(p) PROVE DrainInv'
    BY <2>12 DEF KillChild
  <2>13. QED
    BY <1>3, <2>1, <2>2, <2>3, <2>4, <2>5, <2>6, <2>7, <2>8, <2>9, <2>10, <2>11, <2>12
       DEF MainStep
<1>4. CASE Interrupt
  <2>1. interrupts' > 0 /\ UNCHANGED termination
    BY <1>4 DEF Interrupt, TypeOK, events
  <2>2. termination => mpc' \notin LoopPcs \cup {"closing"}
    BY <1>4 DEF Interrupt, DrainInv
  <2> QED BY <2>1, <2>2 DEF DrainInv
<1>5. CASE UNCHANGED vars
  BY <1>5 DEF vars, DrainInv, SemaphoresTell, NothingLeft
<1>6. QED
  BY <1>1, <1>2, <1>3, <1>4, <1>5 DEF Next

\* stop_smartshield (process_manager.py) ends the loop, unless somebody asked
\* for it, only after the last line was read and profiled, whatever order the
\* two semaphores are released in between its two polls.  A profiler whose
\* main() fails releases its semaphore too: it has to be excluded.
THEOREM StopsWhenProfiled ==
  ASSUME Profiler \notin MayFail
  PROVE  Spec => []StopsAfterLastLine
<1>1. TypeOK /\ DrainInv /\ [Next]_vars => DrainInv'
  BY DrainStep
<1>2. DrainInv => StopsAfterLastLine
  BY DEF DrainInv, StopsAfterLastLine, NothingLeft
<1>3. QED
  BY TypeCorrect, DrainInit, <1>1, <1>2, PTL DEF Spec
=============================================================================
