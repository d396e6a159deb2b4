---------------------------- MODULE Timewindows ----------------------------
(***************************************************************************)
(* The life of a time window in SmartShield's Redis database               *)
(* (smartshield_files/core/database/redis_db/profile_handler.py).          *)
(*                                                                         *)
(* Every flow belongs to one time window of one profile.  Several          *)
(* processes (the profiler, the timeline module) mark time windows as      *)
(* modified and, after each mark, close those nobody touched for one       *)
(* width; the main process does the same in its 5 s loop, advances the     *)
(* internal time and closes everything at shutdown.  None of this is one   *)
(* Redis transaction: each access below is an action of its own, and the   *)
(* processes interleave between them.                                      *)
(***************************************************************************)
EXTENDS Integers, FiniteSets

CONSTANTS
    Profiles,   \* profile ids
    Writers,    \* processes that mark time windows as modified
    Main,       \* the main process
    None,       \* no time window
    Width,      \* time window width, in the unit of the clock
    FirstFlow,  \* time of the first flow ("file_start")
    FlowTimes,  \* times of the flows that can arrive
    MaxTime,    \* bound: the wall clock stops there
    MaxMods     \* bound: modifications in one run

ASSUME ProcessesAssumption == Main \notin Writers /\ IsFiniteSet(Writers)
ASSUME TimeAssumption ==
    /\ Width \in Nat \ {0}
    /\ FirstFlow \in Int
    /\ FlowTimes \subseteq Int
    /\ MaxTime \in Nat \ {0}
    /\ MaxMods \in Nat

(***************************************************************************)
(* Which window a flow belongs to.                                         *)
(***************************************************************************)
TwNumber(flowtime) == ((flowtime - FirstFlow) \div Width) + 1
TwStart(n) == FirstFlow + Width * (n - 1)

TwNumbers == {TwNumber(t) : t \in FlowTimes}
TWs == Profiles \X TwNumbers

ASSUME NoneAssumption == None \notin TWs

Procs == Writers \cup {Main}

VARIABLES
    now,        \* wall clock, time.time()
    sit,        \* SmartShield's internal time; 0 until the first update
    startOf,    \* tws<profile>: start time of each registered window, or None
    modified,   \* ModifiedTW: time of the last modification, 0 when absent
    closed,     \* ClosedTW
    published,  \* tw_closed messages published, per window
    pc,         \* where each process is
    limit,      \* modification_time, local to check_tw_to_close
    todo,       \* profiles_tws_to_close, local to check_tw_to_close
    cur,        \* the window being closed, local to mark_profile_tw_as_closed
    lastMod,    \* last_modified_tw_time, local to the main loop
    inputDone,  \* the input and the profiler are done, or a stop was asked
    mods,       \* number of modifications so far
    touched,    \* history: windows that were ever modified
    removed,    \* history: times each window was taken out of ModifiedTW
    lost,       \* history: closings whose process stopped before publishing
    shutAt      \* history: time at which shutdown listed the open windows

redis == <<sit, startOf, modified, closed, published>>
locals == <<pc, limit, todo, cur, lastMod>>
history == <<touched, removed, lost, shutAt>>
vars == <<now, sit, startOf, modified, closed, published, pc, limit, todo, cur,
          lastMod, inputDone, mods, touched, removed, lost, shutAt>>

WriterPcs == {"idle", "read_sit", "range", "close", "zrem", "publish", "dead"}
LoopPcs == {"loop", "read_sit", "range", "close", "zrem", "publish", "stats", "set_sit"}
ShutPcs == {"shut_range", "shut_close", "shut_zrem", "shut_publish", "done", "aborted"}

TypeOK ==
    /\ now \in 1..MaxTime
    /\ sit \in 0..MaxTime
    /\ startOf \in [TWs -> Int \cup {None}]
    /\ modified \in [TWs -> 0..MaxTime]
    /\ closed \subseteq TWs
    /\ published \in [TWs -> Nat]
    /\ pc \in [Procs -> WriterPcs \cup LoopPcs \cup ShutPcs]
    /\ \A w \in Writers : pc[w] \in WriterPcs
    /\ pc[Main] \in LoopPcs \cup ShutPcs
    /\ limit \in [Procs -> Int]
    /\ todo \in [Procs -> SUBSET TWs]
    /\ cur \in [Procs -> TWs \cup {None}]
    /\ lastMod \in 0..MaxTime
    /\ inputDone \in BOOLEAN
    /\ mods \in 0..MaxMods
    /\ touched \subseteq TWs
    /\ removed \in [TWs -> Nat]
    /\ lost \in [TWs -> Nat]
    /\ shutAt \in 0..MaxTime

Init ==
    /\ now = 1
    /\ sit = 0
    /\ startOf = [tw \in TWs |-> None]
    /\ modified = [tw \in TWs |-> 0]
    /\ closed = {}
    /\ published = [tw \in TWs |-> 0]
    /\ pc = [p \in Procs |-> IF p = Main THEN "loop" ELSE "idle"]
    /\ limit = [p \in Procs |-> 0]
    /\ todo = [p \in Procs |-> {}]
    /\ cur = [p \in Procs |-> None]
    /\ lastMod = 0
    /\ inputDone = FALSE
    /\ mods = 0
    /\ touched = {}
    /\ removed = [tw \in TWs |-> 0]
    /\ lost = [tw \in TWs |-> 0]
    /\ shutAt = 0

Goto(p, label) == pc' = [pc EXCEPT ![p] = label]

Tick ==
    /\ now < MaxTime
    /\ now' = now + 1
    /\ UNCHANGED <<redis, locals, inputDone, mods, history>>

-----------------------------------------------------------------------------
(***************************************************************************)
(* A writer handles a flow: get_timewindow registers the window, then      *)
(* mark_profile_tw_as_modified stores the wall clock, whatever the flow's  *)
(* own time is, and goes on to check_tw_to_close.                          *)
(***************************************************************************)
MarkModified(w, profile, flowtime) ==
    LET tw == <<profile, TwNumber(flowtime)>> IN
    /\ pc[w] = "idle"
    /\ mods < MaxMods
    /\ startOf' = [startOf EXCEPT ![tw] = TwStart(tw[2])]
    /\ modified' = [modified EXCEPT ![tw] = now]
    /\ touched' = touched \cup {tw}
    /\ mods' = mods + 1
    /\ Goto(w, "read_sit")
    /\ UNCHANGED <<now, sit, closed, published, limit, todo, cur, lastMod,
                   inputDone, removed, lost, shutAt>>

(***************************************************************************)
(* check_tw_to_close: read the internal time, list the windows not         *)
(* modified since one width before it, close them one by one.              *)
(***************************************************************************)
ReadInternalTime(p) ==
    /\ pc[p] = "read_sit"
    /\ limit' = [limit EXCEPT ![p] = sit - Width]
    /\ Goto(p, "range")
    /\ UNCHANGED <<now, redis, todo, cur, lastMod, inputDone, mods, history>>

Present(tw) == modified[tw] > 0

(* Mutant: the listing at shutdown forgets close_all.                      *)
MutListIdleOnly(p) ==
    /\ pc[p] \in {"range", "shut_range"}
    /\ todo' = [todo EXCEPT ![p] =
                  {tw \in TWs : Present(tw) /\ modified[tw] <= sit - Width}]
    /\ shutAt' = IF pc[p] = "shut_range" THEN now ELSE shutAt
    /\ Goto(p, IF pc[p] = "shut_range" THEN "shut_close" ELSE "close")
    /\ limit' = [limit EXCEPT ![p] = 0]
    /\ UNCHANGED <<now, redis, cur, lastMod, inputDone, mods,
                   touched, removed, lost>>

ListWindowsToClose(p) ==
    /\ pc[p] \in {"range", "shut_range"}
    /\ IF pc[p] = "shut_range"
       THEN /\ todo' = [todo EXCEPT ![p] = {tw \in TWs : Present(tw)}]
            /\ shutAt' = now
            /\ Goto(p, "shut_close")
       ELSE /\ todo' = [todo EXCEPT ![p] =
                          {tw \in TWs : Present(tw) /\ modified[tw] <= limit[p]}]
            /\ shutAt' = shutAt
            /\ Goto(p, "close")
    /\ limit' = [limit EXCEPT ![p] = 0]
    /\ UNCHANGED <<now, redis, cur, lastMod, inputDone, mods,
                   touched, removed, lost>>

(* Mutant: ZREM comes first and SADD never (or only after a kill).         *)
MutRemoveWithoutAdding(p) ==
    /\ pc[p] \in {"close", "shut_close"}
    /\ \E tw \in todo[p] :
         /\ cur' = [cur EXCEPT ![p] = tw]
         /\ todo' = [todo EXCEPT ![p] = @ \ {tw}]
    /\ Goto(p, IF pc[p] = "close" THEN "zrem" ELSE "shut_zrem")
    /\ UNCHANGED <<now, redis, limit, lastMod, inputDone, mods, history>>

(* mark_profile_tw_as_closed: SADD ClosedTW, ZREM ModifiedTW, PUBLISH.     *)
AddToClosed(p) ==
    /\ pc[p] \in {"close", "shut_close"}
    /\ \E tw \in todo[p] :
         /\ closed' = closed \cup {tw}
         /\ cur' = [cur EXCEPT ![p] = tw]
         /\ todo' = [todo EXCEPT ![p] = @ \ {tw}]
    /\ Goto(p, IF pc[p] = "close" THEN "zrem" ELSE "shut_zrem")
    /\ UNCHANGED <<now, sit, startOf, modified, published, limit, lastMod,
                   inputDone, mods, history>>

(* Mutant: a window modified since the internal time is left open, but its  *)
(* closing is announced all the same.                                       *)
MutLeaveReopened(p) ==
    /\ pc[p] \in {"zrem", "shut_zrem"}
    /\ modified' = IF modified[cur[p]] > sit THEN modified ELSE [modified EXCEPT ![cur[p]] = 0]
    /\ removed' = IF Present(cur[p]) THEN [removed EXCEPT ![cur[p]] = @ + 1] ELSE removed
    /\ Goto(p, IF pc[p] = "zrem" THEN "publish" ELSE "shut_publish")
    /\ UNCHANGED <<now, sit, startOf, closed, published, limit, todo, cur,
                   lastMod, inputDone, mods, touched, lost, shutAt>>

RemoveFromModified(p) ==
    /\ pc[p] \in {"zrem", "shut_zrem"}
    /\ modified' = [modified EXCEPT ![cur[p]] = 0]
    /\ removed' = IF Present(cur[p]) THEN [removed EXCEPT ![cur[p]] = @ + 1] ELSE removed
    /\ Goto(p, IF pc[p] = "zrem" THEN "publish" ELSE "shut_publish")
    /\ UNCHANGED <<now, sit, startOf, closed, published, limit, todo, cur,
                   lastMod, inputDone, mods, touched, lost, shutAt>>

(* Mutant: a window that was announced once is not announced again.        *)
MutPublishOnce(p) ==
    /\ pc[p] \in {"publish", "shut_publish"}
    /\ published' = [published EXCEPT ![cur[p]] = 1]
    /\ cur' = [cur EXCEPT ![p] = None]
    /\ Goto(p, IF pc[p] = "publish" THEN "close" ELSE "shut_close")
    /\ UNCHANGED <<now, sit, startOf, modified, closed, limit, todo, lastMod,
                   inputDone, mods, history>>

PublishClosed(p) ==
    /\ pc[p] \in {"publish", "shut_publish"}
    /\ published' = [published EXCEPT ![cur[p]] = @ + 1]
    /\ cur' = [cur EXCEPT ![p] = None]
    /\ Goto(p, IF pc[p] = "publish" THEN "close" ELSE "shut_close")
    /\ UNCHANGED <<now, sit, startOf, modified, closed, limit, todo, lastMod,
                   inputDone, mods, history>>

AfterCheck(p) ==
    CASE pc[p] = "shut_close" -> "done"
      [] pc[p] = "close" /\ p = Main -> "stats"
      [] OTHER -> "idle"

EndCheck(p) ==
    /\ pc[p] \in {"close", "shut_close"}
    /\ todo[p] = {}
    /\ Goto(p, AfterCheck(p))
    /\ UNCHANGED <<now, redis, limit, todo, cur, lastMod, inputDone, mods, history>>

-----------------------------------------------------------------------------
(***************************************************************************)
(* The main loop: check_tw_to_close, then                                  *)
(* update_smartshield_stats_in_the_db, until stop_smartshield holds.       *)
(***************************************************************************)
LoopIteration ==
    /\ pc[Main] = "loop"
    /\ ~inputDone
    /\ Goto(Main, "read_sit")
    /\ UNCHANGED <<now, redis, limit, todo, cur, lastMod, inputDone, mods, history>>

(* get_modified_profiles_since(internal time + 1): the newest score, or 0. *)
ModifiedSince(t) == {tw \in TWs : Present(tw) /\ modified[tw] >= t}

ReadLastModification ==
    /\ pc[Main] = "stats"
    /\ \/ ModifiedSince(sit + 1) = {} /\ lastMod' = 0
       \/ \E last \in ModifiedSince(sit + 1) :
            /\ \A tw \in ModifiedSince(sit + 1) : modified[tw] <= modified[last]
            /\ lastMod' = modified[last]
    /\ Goto(Main, "set_sit")
    /\ UNCHANGED <<now, redis, limit, todo, cur, inputDone, mods, history>>

(* Mutant: no window modified resets the time.                             *)
MutStoreZero ==
    /\ pc[Main] = "set_sit"
    /\ sit' = lastMod
    /\ lastMod' = 0
    /\ Goto(Main, "loop")
    /\ UNCHANGED <<now, startOf, modified, closed, published, limit, todo, cur,
                   inputDone, mods, history>>

SetInternalTime ==
    /\ pc[Main] = "set_sit"
    /\ sit' = IF lastMod # 0 THEN lastMod ELSE sit
    /\ lastMod' = 0
    /\ Goto(Main, "loop")
    /\ UNCHANGED <<now, startOf, modified, closed, published, limit, todo, cur,
                   inputDone, mods, history>>

(* The input is exhausted and every flow was profiled, or a stop message.  *)
InputDone ==
    /\ ~inputDone
    /\ inputDone' = TRUE
    /\ UNCHANGED <<now, redis, locals, mods, history>>

(* Mutant: shutdown does not close the open windows.                       *)
MutShutdownLeavesOpen ==
    /\ pc[Main] = "loop"
    /\ inputDone
    /\ Goto(Main, "done")
    /\ UNCHANGED <<now, redis, limit, todo, cur, lastMod, inputDone, mods, history>>

(* shutdown_gracefully starts with check_tw_to_close(close_all=True).      *)
Shutdown ==
    /\ pc[Main] = "loop"
    /\ inputDone
    /\ Goto(Main, "shut_range")
    /\ UNCHANGED <<now, redis, limit, todo, cur, lastMod, inputDone, mods, history>>

Abandon(p) ==
    lost' = IF pc[p] \in {"publish", "shut_publish"} THEN [lost EXCEPT ![cur[p]] = @ + 1] ELSE lost

LeaveCheck(p) ==
    /\ limit' = [limit EXCEPT ![p] = 0]
    /\ todo' = [todo EXCEPT ![p] = {}]
    /\ cur' = [cur EXCEPT ![p] = None]

(* A KeyboardInterrupt anywhere in the loop abandons what it was doing and *)
(* goes straight to shutdown_gracefully.                                   *)
Interrupt ==
    /\ pc[Main] \in LoopPcs
    /\ Abandon(Main)
    /\ LeaveCheck(Main)
    /\ lastMod' = 0
    /\ Goto(Main, "shut_range")
    /\ inputDone' = TRUE
    /\ UNCHANGED <<now, redis, mods, touched, removed, shutAt>>

(* One inside shutdown_gracefully, before the termination event is set, is  *)
(* caught there: the method returns, and what it listed stays open.        *)
InterruptShutdown ==
    /\ pc[Main] \in ShutPcs \ {"done", "aborted"}
    /\ Abandon(Main)
    /\ LeaveCheck(Main)
    /\ Goto(Main, "aborted")
    /\ UNCHANGED <<now, redis, lastMod, inputDone, mods, touched, removed, shutAt>>

(* After the termination event, or when the main process has left, a       *)
(* writer stops, or is killed where it is.                                 *)
StopWriter(w) ==
    /\ pc[Main] \in {"done", "aborted"}
    /\ pc[w] # "dead"
    /\ Abandon(w)
    /\ LeaveCheck(w)
    /\ Goto(w, "dead")
    /\ UNCHANGED <<now, redis, lastMod, inputDone, mods, touched, removed, shutAt>>

CheckStep(p) ==
    \/ ReadInternalTime(p)
    \/ ListWindowsToClose(p)
    \/ AddToClosed(p)
    \/ RemoveFromModified(p)
    \/ PublishClosed(p)
    \/ EndCheck(p)

MainStep ==
    \/ CheckStep(Main)
    \/ LoopIteration
    \/ ReadLastModification
    \/ SetInternalTime
    \/ Shutdown

Next ==
    \/ Tick
    \/ \E w \in Writers, profile \in Profiles, flowtime \in FlowTimes :
         MarkModified(w, profile, flowtime)
    \/ \E w \in Writers : CheckStep(w) \/ StopWriter(w)
    \/ MainStep
    \/ InputDone
    \/ Interrupt
    \/ InterruptShutdown

(***************************************************************************)
(* The operating system schedules every process, and the input is finite.  *)
(***************************************************************************)
Fairness ==
    /\ WF_vars(MainStep)
    /\ WF_vars(InputDone)
    /\ \A w \in Writers : WF_vars(CheckStep(w))

Spec == Init /\ [][Next]_vars /\ Fairness

-----------------------------------------------------------------------------
(***************************************************************************)
(* Properties                                                              *)
(***************************************************************************)

(* A window with data is never in neither set: it is open (ModifiedTW) or  *)
(* closed (ClosedTW) whatever the processes closing it do, and wherever    *)
(* one of them is interrupted or killed.                                   *)
NeverLost == \A tw \in touched : Present(tw) \/ tw \in closed

(* Once shutdown has closed everything, the only windows still open are    *)
(* those modified after it listed them.                                    *)
ShutdownClosesAll ==
    pc[Main] = "done" => \A tw \in TWs : Present(tw) => modified[tw] >= shutAt

(* Every removal from ModifiedTW is announced on tw_closed, unless the     *)
(* process that made it was interrupted or killed between ZREM and PUBLISH. *)
InFlight(tw) == {p \in Procs : pc[p] \in {"publish", "shut_publish"} /\ cur[p] = tw}
ClosingsAnnounced ==
    \A tw \in TWs : removed[tw] <= published[tw] + Cardinality(InFlight(tw)) + lost[tw]

(* The internal time never goes back, although closings by other processes *)
(* keep removing the entries it is computed from.                          *)
InternalTimeAdvances == [][sit' >= sit]_sit

(* Whatever is open before shutdown starts is closed in the end, also a    *)
(* window that was closed before and modified again, whoever closes it;    *)
(* unless the user interrupts the shutdown that would.                     *)
OpenWindowsClose ==
    \A tw \in TWs :
      (Present(tw) /\ pc[Main] \in LoopPcs)
        ~> (~Present(tw) /\ tw \in closed) \/ pc[Main] = "aborted"

-----------------------------------------------------------------------------
(***************************************************************************)
(* The abstract specification.  A window in ModifiedTW is open, in         *)
(* ClosedTW or not; a process decided on a window when it listed it, and   *)
(* closes it when it takes it out of ModifiedTW.                           *)
(***************************************************************************)
LifeOf(tw) == IF Present(tw) THEN "open" ELSE IF tw \in closed THEN "closed" ELSE "unseen"
DecidedOn(tw) == {p \in Procs : tw \in todo[p] \/ (pc[p] \in {"zrem", "shut_zrem"} /\ cur[p] = tw)}

LifeMap == [tw \in TWs |-> LifeOf(tw)]
DecidedMap == [tw \in TWs |-> DecidedOn(tw)]
OwedMap == [tw \in TWs |-> InFlight(tw)]
Life == INSTANCE WindowLife WITH
            Windows <- TWs, Closers <- Procs, life <- LifeMap, decided <- DecidedMap, owed <- OwedMap, told <- published

(* However the Redis calls of the processes interleave, and wherever one   *)
(* is interrupted or killed, every window lives the life WindowLife        *)
(* promises: closed by one step of a process that decided on it when it    *)
(* was open, announced once for each closing, opened by nothing but a      *)
(* modification.                                                           *)
ImplementsLife == Life!Spec
=============================================================================
