--------------------------- MODULE EvidenceLife ---------------------------
(***************************************************************************)
(* What SmartShield promises of every evidence, without processes or       *)
(* databases: it is stored once, heard of once, then dropped as            *)
(* whitelisted, kept as somebody else's, or counted.  An alert takes all   *)
(* the evidence of its window counted since the last one, and only when    *)
(* what was counted reaches the threshold.                                 *)
(***************************************************************************)
EXTENDS Naturals

CONSTANTS
    Evidence, Windows,
    WindowOf,   \* the time window of each evidence
    Threat,     \* what each evidence counts
    Whitelist,  \* evidence to drop
    ByOthers,   \* evidence about another profile
    Threshold

VARIABLES
    life,   \* each evidence: unknown, stored, heard, dropped, counted, alerted
    weight  \* what was counted in each window since its last alert

Init ==
    /\ life = [e \in Evidence |-> "unknown"]
    /\ weight = [w \in Windows |-> 0]

Become(e, from, to) ==
    /\ life[e] = from
    /\ life' = [life EXCEPT ![e] = to]

Store(e) == Become(e, "unknown", "stored") /\ UNCHANGED weight

Hear(e) == Become(e, "stored", "heard") /\ UNCHANGED weight

Drop(e) ==
    /\ e \in Whitelist
    /\ Become(e, "heard", "dropped")
    /\ UNCHANGED weight

Count(e) ==
    /\ e \notin Whitelist \cup ByOthers
    /\ Become(e, "heard", "counted")
    /\ weight' = [weight EXCEPT ![WindowOf[e]] = @ + Threat[e]]

Counted(w) == {e \in Evidence : life[e] = "counted" /\ WindowOf[e] = w}

Alert(w) ==
    /\ weight[w] >= Threshold
    /\ Counted(w) # {}
    /\ life' = [e \in Evidence |-> IF e \in Counted(w) THEN "alerted" ELSE life[e]]
    /\ weight' = [weight EXCEPT ![w] = 0]

Next ==
    \/ \E e \in Evidence : Store(e) \/ Hear(e) \/ Drop(e) \/ Count(e)
    \/ \E w \in Windows : Alert(w)

Spec == Init /\ [][Next]_<<life, weight>>
=============================================================================
