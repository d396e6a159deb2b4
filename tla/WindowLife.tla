----------------------------- MODULE WindowLife -----------------------------
(***************************************************************************)
(* What SmartShield promises of every time window, without Redis calls:    *)
(* it opens when it is first modified, and again whenever it is modified;  *)
(* it is closed only by a process that decided so when it was open, and    *)
(* whoever closed it says so once, unless that process is interrupted.     *)
(* Several may decide on one window, and each of them says so.             *)
(***************************************************************************)
EXTENDS Naturals

CONSTANTS
    Windows,
    Closers  \* processes that close windows

VARIABLES
    life,     \* each window: unseen, open, closed
    decided,  \* of each window: who decided to close it and has not yet
    owed,     \* of each window: who closed it and has not said so yet
    told      \* how many times each window was announced as closed

lifeVars == <<life, decided, owed, told>>

Init ==
    /\ life = [w \in Windows |-> "unseen"]
    /\ decided = [w \in Windows |-> {}] /\ owed = decided
    /\ told = [w \in Windows |-> 0]

Modify(w) == life' = [life EXCEPT ![w] = "open"] /\ UNCHANGED <<decided, owed, told>>

\* One decision at a time: what the last one was about is closed and announced.
Decide(c, ws) ==
    /\ \A w \in Windows : c \notin decided[w] \cup owed[w]
    /\ \A w \in ws : life[w] = "open"
    /\ decided' = [w \in Windows |-> IF w \in ws THEN decided[w] \cup {c} ELSE decided[w]]
    /\ UNCHANGED <<life, owed, told>>

Close(c, w) ==
    /\ c \in decided[w]
    /\ life' = [life EXCEPT ![w] = "closed"]
    /\ decided' = [decided EXCEPT ![w] = @ \ {c}] /\ owed' = [owed EXCEPT ![w] = @ \cup {c}]
    /\ UNCHANGED told

Announce(c, w) ==
    /\ c \in owed[w]
    /\ owed' = [owed EXCEPT ![w] = @ \ {c}] /\ told' = [told EXCEPT ![w] = @ + 1]
    /\ UNCHANGED <<life, decided>>

\* A process is interrupted or killed.
GiveUp(c) ==
    /\ decided' = [w \in Windows |-> decided[w] \ {c}] /\ owed' = [w \in Windows |-> owed[w] \ {c}]
    /\ UNCHANGED <<life, told>>

Next ==
    \/ \E w \in Windows : Modify(w) \/ \E c \in Closers : Close(c, w) \/ Announce(c, w)
    \/ \E c \in Closers : GiveUp(c) \/ \E ws \in SUBSET Windows : Decide(c, ws)

Spec == Init /\ [][Next]_lifeVars
=============================================================================
