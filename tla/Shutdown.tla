------------------------------ MODULE Shutdown ------------------------------
(***************************************************************************)
(* How SmartShield stops (managers/process_manager.py, the loop of         *)
(* smartshield/main.py, common/abstracts/imodule.py), in interactive mode. *)
(*                                                                         *)
(* The main process polls two semaphores until the input and the profiler  *)
(* are done, sets the termination event, joins its children 3 s at a time, *)
(* tells the evidence handler to stop once the others are dead, and kills  *)
(* whatever outlives the timeout or a second Ctrl-C.  Every child checks   *)
(* its event, then runs main() once, so an event set in between finds it   *)
(* handling one more message.                                              *)
(***************************************************************************)
EXTENDS Naturals, FiniteSets

CONSTANTS
    Modules,        \* detection modules, fed by the profiler
    Consumers,      \* modules fed by the evidence handler and killed last
    Input, Profiler, Handler,
    NonStop,        \* should_run_non_stop()
    MayFail,        \* processes whose main() may return an error
    MayHang,        \* processes that may never come back from main()
    Timeout,        \* wait_for_modules_to_finish, in joins of 3 s
    MaxLines,       \* bound: lines the input has to read
    MaxInterrupts   \* bound: Ctrl-C in one run

Core == {Input, Profiler, Handler}
Procs == Modules \cup Consumers \cup Core

ASSUME ProcsAssumption ==
    /\ IsFiniteSet(Procs)
    /\ Modules \cap (Consumers \cup Core) = {}
    /\ Consumers \cap Core = {}
    /\ Input # Profiler /\ Input # Handler /\ Profiler # Handler
    /\ MayFail \subseteq Procs /\ MayHang \subseteq Procs
ASSUME BoundsAssumption ==
    /\ Timeout \in Nat /\ MaxLines \in Nat /\ MaxInterrupts \in Nat
    /\ NonStop \in BOOLEAN

\* get_hitlist_in_order
KillLast == Consumers \cup {Handler}
KillFirst == Procs \ KillLast

VARIABLES
    state,      \* each child: running, stopped on its own, or killed
    inMain,     \* children that passed the check of their event
    sigint,     \* children a Ctrl-C was delivered to
    lines,      \* lines the input has still to read
    queue,      \* profiler_queue: lines in it, and whether "stop" follows them
    sem,        \* is_input_done and is_profiler_done
    inbox,      \* messages waiting in each child's Redis channels
    termination, handlerTermination,    \* the two events
    stopMsg,    \* "stop_smartshield" on the control channel
    mpc,        \* where the main process is
    gotInput,   \* input_done_processing, local to is_done_receiving_new_flows
    toFirst, toLast,    \* to_kill_first and to_kill_last
    todo,       \* processes the current loop has still to join
    alive,      \* alive_processes, local to wait_for_processes_to_finish
    reported,   \* stopped_modules
    elapsed,    \* joins that timed out since shutdown_gracefully began
    graceful,   \* graceful_shutdown
    interrupts  \* number of Ctrl-C so far

children == <<state, inMain, sigint, lines, queue, sem, inbox>>
events == <<termination, handlerTermination, stopMsg>>
main == <<mpc, gotInput, toFirst, toLast, todo, alive, reported, elapsed, graceful>>
vars == <<state, inMain, sigint, lines, queue, sem, inbox, termination,
          handlerTermination, stopMsg, mpc, gotInput, toFirst, toLast, todo,
          alive, reported, elapsed, graceful, interrupts>>

LoopPcs == {"loop", "poll_input", "poll_profiler"}
WaitPcs == {"while", "first", "last"}
EndPcs == {"ended", "aborted"}
Pcs == LoopPcs \cup {"closing"} \cup WaitPcs \cup {"check", "kill", "finish"} \cup EndPcs

TypeOK ==
    /\ state \in [Procs -> {"running", "stopped", "killed"}]
    /\ inMain \subseteq Procs
    /\ sigint \subseteq Procs
    /\ lines \in 0..MaxLines
    /\ queue \in [lines: Nat, stop: BOOLEAN]
    /\ sem \in [{"input", "profiler"} -> Nat]
    /\ inbox \in [Procs -> Nat]
    /\ termination \in BOOLEAN /\ handlerTermination \in BOOLEAN
    /\ stopMsg \in {"none", "sent", "taken"}
    /\ mpc \in Pcs
    /\ gotInput \in BOOLEAN
    /\ toFirst \subseteq Procs /\ toLast \subseteq Procs
    /\ todo \subseteq Procs /\ alive \subseteq Procs /\ reported \subseteq Procs
    /\ elapsed \in 0..Timeout
    /\ graceful \in BOOLEAN
    /\ interrupts \in 0..MaxInterrupts

Init ==
    /\ state = [p \in Procs |-> "running"]
    /\ inMain = {} /\ sigint = {}
    /\ lines = MaxLines
    /\ queue = [lines |-> 0, stop |-> FALSE]
    /\ sem = [s \in {"input", "profiler"} |-> 0]
    /\ inbox = [p \in Procs |-> 0]
    /\ termination = FALSE /\ handlerTermination = FALSE
    /\ stopMsg = "none"
    /\ mpc = "loop"
    /\ gotInput = FALSE
    /\ toFirst = {} /\ toLast = {}
    /\ todo = {} /\ alive = {} /\ reported = {}
    /\ elapsed = 0
    /\ graceful = TRUE
    /\ interrupts = 0

Running(p) == state[p] = "running"
EventOf(p) == IF p = Handler THEN handlerTermination ELSE termination

-----------------------------------------------------------------------------
(***************************************************************************)
(* A child: IModule.run.  The profiler's shutdown_gracefully releases its  *)
(* semaphore, however it came to stop.                                     *)
(***************************************************************************)
EnterMain(p) ==
    /\ Running(p) /\ p \notin inMain
    /\ ~EventOf(p)
    /\ inMain' = inMain \cup {p}
    /\ UNCHANGED <<state, sigint, lines, queue, sem, inbox, events, main, interrupts>>

Stop(p) ==
    /\ state' = [state EXCEPT ![p] = "stopped"]
    /\ inMain' = inMain \ {p}
    /\ sigint' = sigint \ {p}
    /\ sem' = [sem EXCEPT !["profiler"] = IF p = Profiler THEN @ + 1 ELSE @]

StopOnEvent(p) ==
    /\ Running(p) /\ p \notin inMain
    /\ EventOf(p)
    /\ Stop(p)
    /\ UNCHANGED <<lines, queue, inbox, events, main, interrupts>>

StopOnInterrupt(p) ==
    /\ Running(p) /\ p \in sigint
    /\ Stop(p)
    /\ UNCHANGED <<lines, queue, inbox, events, main, interrupts>>

StopOnError(p) ==
    /\ Running(p) /\ p \in inMain /\ p \in MayFail
    /\ Stop(p)
    /\ UNCHANGED <<lines, queue, inbox, events, main, interrupts>>

InMain(p) == Running(p) /\ p \in inMain

Leave(p) ==
    /\ inMain' = inMain \ {p}
    /\ UNCHANGED <<state, sigint, sem, events, main, interrupts>>

\* A Redis message reaches the subscribers that are alive.
Deliver(box, ps) == [p \in Procs |-> IF p \in ps /\ Running(p) THEN box[p] + 1 ELSE box[p]]
Take(p) == [inbox EXCEPT ![p] = @ - 1]

\* get_msg found nothing.
Idle(p) ==
    /\ InMain(p) /\ p \in Modules \cup KillLast
    /\ inbox[p] = 0
    /\ Leave(p)
    /\ UNCHANGED <<lines, queue, inbox>>

\* A detection module analyses a flow and may raise evidence.
HandleFlow(m) ==
    /\ InMain(m) /\ inbox[m] > 0
    /\ \E evidence \in {{}, {Handler}} : inbox' = Deliver(Take(m), evidence)
    /\ Leave(m)
    /\ UNCHANGED <<lines, queue>>

\* The evidence handler takes an evidence and may export it.
HandleEvidence ==
    /\ InMain(Handler) /\ inbox[Handler] > 0
    /\ \E exported \in {{}, Consumers} : inbox' = Deliver(Take(Handler), exported)
    /\ Leave(Handler)
    /\ UNCHANGED <<lines, queue>>

\* A blocking or exporting module takes what the handler published.
Consume(c) ==
    /\ InMain(c) /\ inbox[c] > 0
    /\ inbox' = Take(c)
    /\ Leave(c)
    /\ UNCHANGED <<lines, queue>>

-----------------------------------------------------------------------------
(***************************************************************************)
(* The input and the profiler.                                             *)
(***************************************************************************)
ReadLine ==
    /\ InMain(Input) /\ lines > 0
    /\ lines' = lines - 1
    /\ queue' = [queue EXCEPT !.lines = @ + 1]
    /\ Leave(Input)
    /\ UNCHANGED inbox

\* The last line is read: "stop" goes into the queue and the semaphore is
\* released; the process waits for is_profiler_done_event before it ends.
FinishInput ==
    /\ InMain(Input) /\ lines = 0 /\ ~queue.stop
    /\ queue' = [queue EXCEPT !.stop = TRUE]
    /\ sem' = [sem EXCEPT !["input"] = @ + 1]
    /\ UNCHANGED <<state, inMain, sigint, lines, inbox, events, main, interrupts>>

EndInput ==
    /\ InMain(Input) /\ queue.stop
    /\ ~Running(Profiler)
    /\ Stop(Input)
    /\ UNCHANGED <<lines, queue, inbox, events, main, interrupts>>

ProfileLine ==
    /\ InMain(Profiler) /\ queue.lines > 0
    /\ queue' = [queue EXCEPT !.lines = @ - 1]
    /\ inbox' = Deliver(inbox, Modules)
    /\ Leave(Profiler)
    /\ UNCHANGED lines

EndProfiler ==
    /\ InMain(Profiler) /\ queue.lines = 0 /\ queue.stop
    /\ Stop(Profiler)
    /\ UNCHANGED <<lines, queue, inbox, events, main, interrupts>>

ProfilerIdle ==
    /\ InMain(Profiler) /\ queue.lines = 0 /\ ~queue.stop
    /\ Leave(Profiler)
    /\ UNCHANGED <<lines, queue, inbox>>

ChildStep(p) ==
    \/ EnterMain(p) \/ StopOnEvent(p) \/ StopOnInterrupt(p) \/ StopOnError(p) \/ Idle(p)
    \/ p \in Modules /\ HandleFlow(p)
    \/ p = Handler /\ HandleEvidence
    \/ p \in Consumers /\ Consume(p)
    \/ p = Input /\ (ReadLine \/ FinishInput \/ EndInput)
    \/ p = Profiler /\ (ProfileLine \/ EndProfiler \/ ProfilerIdle)

-----------------------------------------------------------------------------
(***************************************************************************)
(* The main process: its loop polls stop_smartshield().                    *)
(***************************************************************************)
\* can_acquire_semaphore: acquire without blocking, then release.
CanAcquire(s) == sem[s] > 0
MutNoRelease(s) == [sem EXCEPT ![s] = IF @ > 0 THEN @ - 1 ELSE @]
AfterAcquire(s) == sem

SendStop ==
    /\ stopMsg = "none"
    /\ stopMsg' = "sent"
    /\ UNCHANGED <<children, termination, handlerTermination, main, interrupts>>

PollControl ==
    /\ mpc = "loop" /\ ~NonStop
    /\ IF stopMsg = "sent"
         THEN stopMsg' = "taken" /\ mpc' = "closing"
         ELSE stopMsg' = stopMsg /\ mpc' = "poll_input"
    /\ UNCHANGED <<children, termination, handlerTermination, gotInput, toFirst, toLast,
                   todo, alive, reported, elapsed, graceful, interrupts>>

PollInput ==
    /\ mpc = "poll_input"
    /\ gotInput' = CanAcquire("input")
    /\ sem' = AfterAcquire("input")
    /\ mpc' = "poll_profiler"
    /\ UNCHANGED <<state, inMain, sigint, lines, queue, inbox, events, toFirst, toLast,
                   todo, alive, reported, elapsed, graceful, interrupts>>

MutEitherIsDone == gotInput \/ CanAcquire("profiler")
IsDoneReceiving == gotInput /\ CanAcquire("profiler")

PollProfiler ==
    /\ mpc = "poll_profiler"
    /\ sem' = AfterAcquire("profiler")
    /\ mpc' = IF IsDoneReceiving THEN "closing" ELSE "loop"
    /\ UNCHANGED <<state, inMain, sigint, lines, queue, inbox, events, gotInput, toFirst,
                   toLast, todo, alive, reported, elapsed, graceful, interrupts>>

-----------------------------------------------------------------------------
(***************************************************************************)
(* shutdown_gracefully: close the time windows, order the children, set    *)
(* the termination event, then wait in rounds.                             *)
(***************************************************************************)
StartShutdown ==
    /\ mpc = "closing"
    /\ toFirst' = KillFirst /\ toLast' = KillLast
    /\ termination' = TRUE
    /\ mpc' = "while"
    /\ UNCHANGED <<children, handlerTermination, stopMsg, gotInput, todo, alive, reported,
                   elapsed, graceful, interrupts>>

MutTimedOut == FALSE
TimedOut == elapsed >= Timeout

\* The head of the while loop; a pass of shutdown_interactive begins.
While ==
    /\ mpc = "while"
    /\ IF TimedOut
         THEN mpc' = "check" /\ UNCHANGED todo
         ELSE mpc' = "first" /\ todo' = toFirst
    /\ alive' = {}
    /\ UNCHANGED <<children, events, gotInput, toFirst, toLast, reported, elapsed,
                   graceful, interrupts>>

MutCountOn == elapsed + 1
CountTimeout == IF elapsed < Timeout THEN elapsed + 1 ELSE elapsed

\* One turn of wait_for_processes_to_finish: join(3), is_alive().
Join(p) ==
    /\ mpc \in {"first", "last"}
    /\ p \in todo
    /\ todo' = todo \ {p}
    /\ IF Running(p)
         THEN /\ alive' = alive \cup {p}
              /\ elapsed' = CountTimeout
              /\ UNCHANGED reported
         ELSE /\ reported' = reported \cup {p}
              /\ UNCHANGED <<alive, elapsed>>
    /\ UNCHANGED <<children, events, mpc, gotInput, toFirst, toLast, graceful, interrupts>>

MutHandlerToldAnyway == TRUE
FirstListDone == alive = {}

JoinedFirst ==
    /\ mpc = "first" /\ todo = {}
    /\ alive' = {}
    /\ IF FirstListDone
         THEN /\ handlerTermination' = TRUE
              /\ toFirst' = {} /\ todo' = toLast
              /\ mpc' = "last"
         ELSE /\ toFirst' = alive
              /\ mpc' = "while"
              /\ UNCHANGED <<handlerTermination, todo>>
    /\ UNCHANGED <<children, termination, stopMsg, gotInput, toLast, reported, elapsed,
                   graceful, interrupts>>

JoinedLast ==
    /\ mpc = "last" /\ todo = {}
    /\ toLast' = alive
    /\ alive' = {}
    /\ mpc' = IF alive = {} THEN "check" ELSE "while"
    /\ UNCHANGED <<children, events, gotInput, toFirst, todo, reported, elapsed, graceful,
                   interrupts>>

MutStaysGraceful == graceful
GracefulSoFar == graceful /\ ~TimedOut

MutKillFirstListOnly == toFirst
ToKill == Procs \ reported

CheckTime ==
    /\ mpc = "check"
    /\ graceful' = GracefulSoFar
    /\ todo' = ToKill
    /\ mpc' = "kill"
    /\ UNCHANGED <<children, events, gotInput, toFirst, toLast, alive, reported, elapsed,
                   interrupts>>

\* One turn of kill_all_children.
KillChild(p) ==
    /\ mpc = "kill"
    /\ p \in todo
    /\ state' = [state EXCEPT ![p] = IF @ = "running" THEN "killed" ELSE @]
    /\ todo' = todo \ {p}
    /\ reported' = reported \cup {p}
    /\ UNCHANGED <<inMain, sigint, lines, queue, sem, inbox, events, mpc, gotInput, toFirst,
                   toLast, alive, elapsed, graceful, interrupts>>

AllKilled ==
    /\ mpc = "kill" /\ todo = {}
    /\ mpc' = "finish"
    /\ UNCHANGED <<children, events, gotInput, toFirst, toLast, todo, alive, reported,
                   elapsed, graceful, interrupts>>

\* Save the database, export the flows, close_all_dbs.
Finish ==
    /\ mpc = "finish"
    /\ mpc' = "ended"
    /\ UNCHANGED <<children, events, gotInput, toFirst, toLast, todo, alive, reported,
                   elapsed, graceful, interrupts>>

(***************************************************************************)
(* Ctrl-C reaches the whole process group.  In its loop the main process   *)
(* goes on to shut down; while it waits it stops waiting; anywhere else in *)
(* shutdown_gracefully it returns False at once.                           *)
(***************************************************************************)
Interrupt ==
    /\ interrupts < MaxInterrupts
    /\ mpc \notin EndPcs
    /\ interrupts' = interrupts + 1
    /\ sigint' = {p \in Procs : Running(p)}
    /\ mpc' = CASE mpc \in LoopPcs -> "closing"
                [] mpc \in WaitPcs -> "check"
                [] OTHER -> "aborted"
    /\ graceful' = (graceful /\ mpc \notin WaitPcs)
    /\ UNCHANGED <<state, inMain, lines, queue, sem, inbox, events, gotInput, toFirst,
                   toLast, todo, alive, reported, elapsed>>

MainStep ==
    \/ PollControl \/ PollInput \/ PollProfiler
    \/ StartShutdown \/ While \/ JoinedFirst \/ JoinedLast
    \/ CheckTime \/ AllKilled \/ Finish
    \/ \E p \in Procs : Join(p) \/ KillChild(p)

Next ==
    \/ \E p \in Procs : ChildStep(p)
    \/ SendStop
    \/ MainStep
    \/ Interrupt

\* The operating system schedules the main process and every child; the
\* ones in MayHang may be stuck in main() for ever.
Fairness ==
    /\ WF_vars(MainStep)
    /\ \A p \in Procs \ MayHang : WF_vars(ChildStep(p))

Spec == Init /\ [][Next]_vars /\ Fairness

-----------------------------------------------------------------------------
(***************************************************************************)
(* Safety.                                                                 *)
(***************************************************************************)
\* The evidence handler stops last: once its event is set
\* (process_manager.py:678) no detection module, input or profiler runs that
\* could still add evidence nobody would handle.
HandlerStopsLast == handlerTermination => \A p \in KillFirst : ~Running(p)

\* The databases are closed (process_manager.py:856) only when no child is
\* left to use them.
DatabasesOutliveChildren == mpc \in {"finish", "ended"} => \A p \in Procs : ~Running(p)

\* A shutdown reported as graceful killed nobody, whichever of the timeout,
\* the last join and Ctrl-C came first.
GracefulKillsNobody == mpc = "ended" /\ graceful => \A p \in Procs : state[p] = "stopped"

\* Unless somebody asked for it, SmartShield stops only after the profiler
\* took the last line: both semaphores count, whatever order they are
\* released in between the two polls.
StopsAfterLastLine ==
    mpc \notin LoopPcs /\ stopMsg # "taken" /\ interrupts = 0
        => lines = 0 /\ queue.lines = 0

(***************************************************************************)
(* Liveness.                                                               *)
(***************************************************************************)
\* Polling never uses a semaphore up: once the input and the profiler are
\* done the main process leaves its loop, however often it polled before.
StopsWhenDone == queue.stop /\ ~Running(Profiler) ~> mpc \notin LoopPcs

\* Shutdown ends although a module hangs in main().
ShutdownEnds == mpc = "closing" ~> mpc \in EndPcs

(***************************************************************************)
(* Contradicted: docs/create_new_module.md:548 and the comment at          *)
(* process_manager.py:526 say that a module goes on until its channels are *)
(* empty, so that no IoC is missed.  IModule.run stops as soon as the      *)
(* event is set, and the modules killed last share that event.             *)
(***************************************************************************)
StoppedModulesDrained ==
    \A p \in Modules \cup Consumers : state[p] = "stopped" => inbox[p] = 0
=============================================================================
