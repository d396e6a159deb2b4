---------------------------- MODULE BlockingProofs ----------------------------
(***************************************************************************)
(* Proofs about Blocking: type correctness, that a second rule of an       *)
(* address in one direction takes a failed listing, and that Redis records *)
(* nothing as blocked that has no rule.  They hold for any addresses, for  *)
(* any listing in which the text of an address occurs in its own lines,    *)
(* and whichever commands fail.                                            *)
(***************************************************************************)
EXTENDS Blocking, TLAPS

(* Where main() and the checker are, they work on an address. *)
Working ==
    /\ pc \in {"-s", "-d", "request"} => ip \in IPs
    /\ checker \in {"-s", "-d", "record"} => cur \in IPs

LEMMA TypeInit == Init => TypeOK /\ Working
  BY BlockingAssumption DEF Init, TypeOK, Working, Directions, Request

LEMMA TypeStep == TypeOK /\ Working /\ [Next]_bvars => (TypeOK /\ Working)'
  <1> SUFFICES ASSUME TypeOK, Working, [Next]_bvars PROVE (TypeOK /\ Working)'
    OBVIOUS
  <1> USE BlockingAssumption DEF TypeOK, Working, mainVars, checkerVars, Request, Directions
  <1>1. ASSUME NEW a \in IPs, NewBlocking(a) PROVE (TypeOK /\ Working)'
    BY <1>1 DEF NewBlocking
  <1>2. CASE BlockFrom
    BY <1>2 DEF BlockFrom, Insert
  <1>3. CASE BlockTo
    BY <1>3 DEF BlockTo, Insert
  <1>4. CASE UnblockRequest
    <2>1. PICK k \in Nat : AddReq(k)
      <3>1. (IF ip \in DOMAIN requests THEN requests[ip].left + 1 ELSE 1) \in Nat
        OBVIOUS
      <3> QED BY <1>4, <3>1 DEF UnblockRequest
    <2>2. ip \in IPs
      BY <1>4 DEF UnblockRequest
    <2>3. DOMAIN requests' \subseteq IPs /\ \A a \in DOMAIN requests' : requests'[a] \in Request
      BY <2>1, <2>2 DEF AddReq
    <2> QED BY <1>4, <2>3 DEF UnblockRequest
  <1>5. ASSUME NEW w \in 1..MaxTime, TwClosed(w) PROVE (TypeOK /\ Working)'
    <2>1. DOMAIN requests' \subseteq IPs /\ \A a \in DOMAIN requests' : requests'[a] \in Request
      <3>1. DOMAIN requests' = {b \in DOMAIN requests : requests[b].left > 0}
        BY <1>5 DEF TwClosed
      <3>2. ASSUME NEW a \in DOMAIN requests' PROVE requests'[a] \in Request
        <4>1. a \in DOMAIN requests /\ requests[a] \in Request /\ requests[a].left > 0
          BY <3>1, <3>2
        <4>2. requests'[a] = [requests[a] EXCEPT !.left = @ - 1]
          BY <1>5, <3>2 DEF TwClosed
        <4>3. requests[a].left - 1 \in Nat
          BY <4>1
        <4> QED BY <4>1, <4>2, <4>3
      <3> QED BY <3>1, <3>2
    <2> QED BY <1>5, <2>1, SMTT(15) DEF TwClosed
  <1>6. CASE StartRound
    BY <1>6 DEF StartRound
  <1>7. CASE NextItem
    <2>1. DOMAIN requests' \subseteq IPs /\ \A a \in DOMAIN requests' : requests'[a] \in Request
      BY <1>7 DEF NextItem
    <2>2. todo' \subseteq IPs /\ due' \subseteq IPs /\ cur' \in IPs \cup {None}
      BY <1>7 DEF NextItem
    <2>3. /\ checker' \in {"dead", "next", "idle", "-s"}
          /\ checker' = "-s" => cur' \in IPs
      BY <1>7 DEF NextItem
    <2> QED BY <1>7, <2>1, <2>2, <2>3 DEF NextItem
  <1>8. CASE UnblockFrom
    BY <1>8 DEF UnblockFrom, Delete
  <1>9. CASE UnblockTo
    BY <1>9 DEF UnblockTo, Delete
  <1>10. CASE DelBlockedIP
    BY <1>10 DEF DelBlockedIP
  <1>11. CASE Tick
    BY <1>11 DEF Tick
  <1>12. CASE UNCHANGED bvars
    BY <1>12 DEF bvars
  <1> QED BY <1>1, <1>2, <1>3, <1>4, <1>5, <1>6, <1>7, <1>8, <1>9, <1>10, <1>11, <1>12
          DEF Next, Main, Check

(***************************************************************************)
(* Type correctness: every variable keeps its type.                        *)
(***************************************************************************)
THEOREM TypeCorrect == Spec => []TypeOK
  <1>1. Spec => [](TypeOK /\ Working)
    BY TypeInit, TypeStep, PTL DEF Spec
  <1> QED BY <1>1, PTL

(* There is room for the rule main() is about to insert: the address was   *)
(* not in the listing when the message came, or the listing failed and is  *)
(* counted, and nobody else inserts.                                       *)
AboutToInsert ==
    /\ pc \in {"-s", "-d"} => ip \notin Protected /\ rules[ip]["-d"] <= unseen[ip]
    /\ pc = "-s" => rules[ip]["-s"] <= unseen[ip]

Rules == OneRulePerDirection /\ AboutToInsert

LEMMA RulesInit == Init => Rules
  BY BlockingAssumption DEF Init, Rules, OneRulePerDirection, AboutToInsert, Directions

(* Deleting rules, or leaving them, spoils nothing. *)
LEMMA FewerRules ==
  ASSUME TypeOK, TypeOK', Working, Rules, UNCHANGED <<pc, ip, unseen>>,
         \A a \in IPs, d \in Directions : rules'[a][d] <= rules[a][d]
  PROVE  Rules'
  BY BlockingAssumption DEF TypeOK, Working, Rules, OneRulePerDirection, AboutToInsert, Directions

LEMMA DeleteFewer ==
  ASSUME TypeOK, NEW a \in IPs, NEW d \in Directions, NEW ok \in BOOLEAN, Delete(a, d, ok)
  PROVE  \A b \in IPs, e \in Directions : rules'[b][e] <= rules[b][e]
  BY DEF TypeOK, Delete

LEMMA RulesStep == TypeOK /\ TypeOK' /\ Working /\ Rules /\ [Next]_bvars => Rules'
  <1> SUFFICES ASSUME TypeOK, TypeOK', Working, Rules, [Next]_bvars PROVE Rules'
    OBVIOUS
  <1> USE DEF mainVars, checkerVars
  <1>1. ASSUME NEW a \in IPs, NewBlocking(a) PROVE Rules'
    <2>1. CASE pc' = "request"
      <3>1. unseen' = unseen
        BY <1>1, <2>1 DEF NewBlocking, Listed
      <3> QED BY <1>1, <2>1, <3>1 DEF NewBlocking, Rules, OneRulePerDirection, AboutToInsert
    <2>2. CASE pc' = "-s"
      <3>1. a \notin Protected
        BY <1>1, <2>2 DEF NewBlocking, IsOtProtected
      <3>2. PICK ok \in BOOLEAN :
              /\ ~Listed(a, ok)
              /\ unseen' = IF ok THEN unseen ELSE [unseen EXCEPT ![a] = @ + 1]
        BY <1>1, <2>2, <3>1 DEF NewBlocking, IsOtProtected
      <3>3. \A d \in Directions : rules[a][d] <= unseen'[a]
        <4>1. CASE ok
          BY <3>2, <4>1, BlockingAssumption DEF Listed, TypeOK, Directions
        <4>2. CASE ~ok
          BY <3>1, <3>2, <4>2 DEF TypeOK, Rules, OneRulePerDirection, Directions
        <4> QED BY <4>1, <4>2
      <3>4. \A b \in IPs : unseen[b] <= unseen'[b]
        BY <3>2 DEF TypeOK
      <3> QED BY <1>1, <2>2, <3>1, <3>3, <3>4
              DEF NewBlocking, TypeOK, Rules, OneRulePerDirection, AboutToInsert, Directions
    <2> QED BY <1>1, <2>1, <2>2 DEF NewBlocking
  <1>2. CASE BlockFrom
    BY <1>2, BlockingAssumption DEF BlockFrom, Insert, TypeOK, Working, Rules, OneRulePerDirection, AboutToInsert, Directions
  <1>3. CASE BlockTo
    BY <1>3, BlockingAssumption DEF BlockTo, Insert, TypeOK, Working, Rules, OneRulePerDirection, AboutToInsert, Directions
  <1>4. CASE UnblockRequest
    BY <1>4 DEF UnblockRequest, Rules, OneRulePerDirection, AboutToInsert
  <1>5. ASSUME NEW w \in 1..MaxTime, TwClosed(w) PROVE Rules'
    BY <1>5 DEF TwClosed, Rules, OneRulePerDirection, AboutToInsert
  <1>6. CASE StartRound \/ NextItem \/ DelBlockedIP \/ Tick
    BY <1>6 DEF StartRound, NextItem, DelBlockedIP, Tick, Rules, OneRulePerDirection, AboutToInsert
  <1>7. CASE UnblockFrom
    <2>1. cur \in IPs /\ "-s" \in Directions
      BY <1>7 DEF UnblockFrom, Working, Directions
    <2> QED BY <1>7, <2>1, DeleteFewer, FewerRules DEF UnblockFrom
  <1>8. CASE UnblockTo
    <2>1. cur \in IPs /\ "-d" \in Directions
      BY <1>8 DEF UnblockTo, Working, Directions
    <2> QED BY <1>8, <2>1, DeleteFewer, FewerRules DEF UnblockTo
  <1>9. CASE UNCHANGED bvars
    BY <1>9 DEF bvars, Rules, OneRulePerDirection, AboutToInsert
  <1> QED BY <1>1, <1>2, <1>3, <1>4, <1>5, <1>6, <1>7, <1>8, <1>9 DEF Next, Main, Check

(***************************************************************************)
(* However main(), the checker and failing commands interleave, an address *)
(* has one rule more in a direction, at most, than listings failed when it *)
(* was looked for, and a protected one has none: while the listings work,  *)
(* one unblocking frees it.                                                *)
(***************************************************************************)
THEOREM NoSecondRule == Spec => []OneRulePerDirection
  <1>1. Init => TypeOK /\ Working /\ Rules
    BY TypeInit, RulesInit
  <1>2. TypeOK /\ Working /\ Rules /\ [Next]_bvars => (TypeOK /\ Working /\ Rules)'
    BY TypeStep, RulesStep
  <1>3. Rules => OneRulePerDirection
    BY DEF Rules
  <1> QED BY <1>1, <1>2, <1>3, PTL DEF Spec

LEMMA RecordInit == Init => RecordedIsBlocked
  BY DEF Init, RecordedIsBlocked

LEMMA RecordStep == TypeOK /\ Working /\ RecordedIsBlocked /\ [Next]_bvars => RecordedIsBlocked'
  <1> SUFFICES ASSUME TypeOK, Working, RecordedIsBlocked, [Next]_bvars PROVE RecordedIsBlocked'
    OBVIOUS
  <1> USE DEF mainVars, checkerVars, RecordedIsBlocked
  <1>1. CASE BlockFrom \/ BlockTo
    BY <1>1 DEF BlockFrom, BlockTo, Insert, TypeOK, Working, Directions
  <1>2. CASE NextItem \/ StartRound
    BY <1>2 DEF NextItem, StartRound
  <1>3. CASE UnblockFrom
    BY <1>3 DEF UnblockFrom, Delete, TypeOK, Working, Directions
  <1>4. CASE UnblockTo
    <2>1. PICK ok \in BOOLEAN : Delete(cur, "-d", ok)
      BY <1>4 DEF UnblockTo
    <2>2. \A a \in blocked : a # cur => rules'[a]["-d"] > 0
      BY <1>4, <2>1 DEF UnblockTo, Delete, TypeOK, Working, Directions
    <2>3. cur \in blocked => rules'[cur]["-d"] > 0 \/ checker' = "record"
      BY <1>4 DEF UnblockTo, Delete, TypeOK, Working, Directions
    <2> QED BY <1>4, <2>2, <2>3 DEF UnblockTo
  <1>5. CASE DelBlockedIP
    BY <1>5 DEF DelBlockedIP
  <1>6. CASE UnblockRequest \/ Tick \/ (\E w \in 1..MaxTime : TwClosed(w))
             \/ (\E a \in IPs : NewBlocking(a)) \/ UNCHANGED bvars
    BY <1>6 DEF UnblockRequest, Tick, TwClosed, NewBlocking, bvars
  <1> QED BY <1>1, <1>2, <1>3, <1>4, <1>5, <1>6 DEF Next, Main, Check

(***************************************************************************)
(* What Redis records as blocked has its rule in the chain, but for the    *)
(* address whose rule the checker has just deleted.                        *)
(***************************************************************************)
THEOREM RecordIsTrue == Spec => []RecordedIsBlocked
  <1>1. Init => TypeOK /\ Working /\ RecordedIsBlocked
    BY TypeInit, RecordInit
  <1>2. TypeOK /\ Working /\ RecordedIsBlocked /\ [Next]_bvars => (TypeOK /\ Working /\ RecordedIsBlocked)'
    BY TypeStep, RecordStep
  <1> QED BY <1>1, <1>2, PTL DEF Spec
=============================================================================
