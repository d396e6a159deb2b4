--------------------------- MODULE FlowAlertsProofs ---------------------------
(***************************************************************************)
(* Proofs about the modules that judge flows, for any keys, flows,         *)
(* thresholds and spans: the counters of FlowCounters, the DNS servers of  *)
(* FlowEvidence, the user agents of HttpAnalyzer, the second looks of      *)
(* DelayedChecks and the floods of OtDetection.                            *)
(***************************************************************************)
EXTENDS FlowCounters, FlowEvidence, HttpAnalyzer, DelayedChecks, OtDetection,
        FiniteSetTheorems, SequenceTheorems, TLAPS

-----------------------------------------------------------------------------
(* FlowCounters.                                                           *)

Flow == [key : CountKeys, name : QueryNames, time : 0..MaxClock]

LEMMA CountTypeInit == CountInit => CountTypeOK
  BY CountAssumption DEF CountInit, CountTypeOK

\* One analysis: the flows and the uids it works with.
LEMMA Counting ==
  ASSUME CountTypeOK, NEW k \in CountKeys, NEW n \in QueryNames, NEW t \in 0..MaxClock,
         Analyze(k, n, t)
  PROVE  /\ Len(counted) \in Nat /\ Len(counted') = Len(counted) + 1
         /\ counted' \in Seq(Flow)
         /\ \A u \in 1..Len(counted) : counted'[u] = counted[u] /\ counted[u] \in Flow
         /\ counted'[Len(counted) + 1] = [key |-> k, name |-> n, time |-> t]
         /\ kind' = kind
         /\ counted' = Append(counted, [key |-> k, name |-> n, time |-> t])
  <1> DEFINE new == [key |-> k, name |-> n, time |-> t]
  <1>1. counted \in Seq(Flow) /\ new \in Flow
    BY DEF CountTypeOK, Flow
  <1>2. counted' = Append(counted, new) /\ kind' = kind
    BY DEF Analyze
  <1> HIDE DEF new
  <1>3. /\ Len(counted) \in Nat /\ Len(counted') = Len(counted) + 1
        /\ counted' \in Seq(Flow)
        /\ \A u \in 1..Len(counted) : counted'[u] = counted[u] /\ counted[u] \in Flow
        /\ counted'[Len(counted) + 1] = new
    BY <1>1, <1>2
  <1> QED BY <1>1, <1>2, <1>3, CountAssumption DEF new

-----------------------------------------------------------------------------
\* The uids kept for a key are flows of that key that no evidence is about.
KeptInv ==
    \A k \in DOMAIN table :
        /\ table[k] \in Seq(Nat)
        /\ \A u \in ToSet(table[k]) : counted[u].key = k /\ u \notin Reported

Uids(k) == Append(Kept(k), Len(counted) + 1)

\* The two outcomes of an analysis, as far as the uids go.
OtherKeysKept(k) ==
    /\ DOMAIN table' \subseteq DOMAIN table \cup {k}
    /\ \A j \in DOMAIN table' \ {k} : table'[j] = table[j]
KeepsSome(k) ==
    /\ countEvidence' = countEvidence /\ OtherKeysKept(k)
    /\ k \in DOMAIN table' => table'[k] \in Seq(Nat) /\ ToSet(table'[k]) \subseteq ToSet(Uids(k))
ReportsAll(k) ==
    /\ countEvidence' = countEvidence \cup {ToSet(Uids(k))} /\ OtherKeysKept(k)
    /\ k \in DOMAIN table' => table'[k] = <<>>

\* What is kept for a key, with the flow that comes.
LEMMA UidsOfKey ==
    ASSUME CountTypeOK, KeptInv, NEW k \in CountKeys
    PROVE  /\ Kept(k) \in Seq(Nat) /\ Uids(k) \in Seq(Nat) /\ Uids(k) # <<>>
           /\ Len(counted) \in Nat /\ Len(Uids(k)) = Len(Kept(k)) + 1
           /\ Last(Uids(k)) = Len(counted) + 1
           /\ ToSet(Uids(k)) = ToSet(Kept(k)) \cup {Len(counted) + 1}
           /\ \A u \in ToSet(Kept(k)) :
                 u \in 1..Len(counted) /\ counted[u].key = k /\ u \notin Reported
  <1>1. Len(counted) \in Nat
    BY DEF CountTypeOK
  <1>2. Kept(k) \in Seq(Nat)
    BY DEF Kept, KeptInv
  <1>3. \A u \in ToSet(Kept(k)) : u \in 1..Len(counted) /\ counted[u].key = k /\ u \notin Reported
    BY DEF Kept, KeptInv, CountTypeOK, ToSet
  <1> DEFINE s == Kept(k)  x == Len(counted) + 1
  <1>4. x \in Nat
    BY <1>1
  <1> HIDE DEF s, x
  <1>5. s \in Seq(Nat)
    BY <1>2 DEF s
  <1>6. /\ Append(s, x) \in Seq(Nat) /\ Append(s, x) # <<>> /\ Len(Append(s, x)) = Len(s) + 1
        /\ Last(Append(s, x)) = x
    BY <1>4, <1>5 DEF Last
  <1>7. ToSet(Append(s, x)) = ToSet(s) \cup {x}
    <2> DEFINE a == Append(s, x)
    <2>1. /\ Len(s) \in Nat /\ DOMAIN s = 1..Len(s) /\ DOMAIN a = 1..(Len(s) + 1)
          /\ \A i \in 1..Len(s) : a[i] = s[i]
          /\ a[Len(s) + 1] = x
      BY <1>4, <1>5
    <2> HIDE DEF a
    <2>2. ASSUME NEW u \in ToSet(a) PROVE u \in ToSet(s) \cup {x}
      BY <2>1 DEF ToSet
    <2>3. ASSUME NEW u \in ToSet(s) \cup {x} PROVE u \in ToSet(a)
      BY <2>1 DEF ToSet
    <2> QED BY <2>2, <2>3 DEF a
  <1> QED BY <1>1, <1>2, <1>3, <1>6, <1>7 DEF s, x, Uids

\* One analyzer sees the flow.
Flows(k, n, t) == Append(counted, [key |-> k, name |-> n, time |-> t])
LEMMA OneAnalyzer ==
    ASSUME CountTypeOK, NEW k \in CountKeys, NEW n \in QueryNames, NEW t \in 0..MaxClock,
           Analyze(k, n, t)
    PROVE  \/ kind = "telnet" /\ Telnet(k, Uids(k))
           \/ kind = "reconnection" /\ Reconnection(k, Uids(k))
           \/ kind = "dga" /\ Dga(k, Uids(k))
           \/ kind = "arpa" /\ Arpa(Flows(k, n, t), k, Uids(k))
           \/ kind = "smtp" /\ Smtp(Flows(k, n, t), k, Uids(k))
           \/ kind = "ssh" /\ Ssh(k, Uids(k))
           \/ kind = "empty" /\ Empty(k, Uids(k))
  <1>1. Len(Flows(k, n, t)) = Len(counted) + 1
    BY Counting DEF Flows
  <1> DEFINE uids == Append(Kept(k), Len(Flows(k, n, t)))
  <1>2. uids = Uids(k)
    BY <1>1 DEF Uids
  <1>3. \/ kind = "telnet" /\ Telnet(k, uids)
        \/ kind = "reconnection" /\ Reconnection(k, uids)
        \/ kind = "dga" /\ Dga(k, uids)
        \/ kind = "arpa" /\ Arpa(Flows(k, n, t), k, uids)
        \/ kind = "smtp" /\ Smtp(Flows(k, n, t), k, uids)
        \/ kind = "ssh" /\ Ssh(k, uids)
        \/ kind = "empty" /\ Empty(k, uids)
    BY DEF Analyze, Flows
  <1> HIDE DEF uids
  <1> QED BY <1>2, <1>3

\* Whatever the kind, an analysis keeps some of the uids of its key or reports
\* all of them and forgets them.
LEMMA KeepsOrReports ==
    ASSUME CountTypeOK, KeptInv, NEW k \in CountKeys, NEW n \in QueryNames, NEW t \in 0..MaxClock,
           Analyze(k, n, t)
    PROVE  (KeepsSome(k) \/ ReportsAll(k)) /\ crashed' \subseteq crashed \cup {Len(counted) + 1}
  <1> DEFINE fs == Flows(k, n, t)
             goal == (KeepsSome(k) \/ ReportsAll(k)) /\ crashed' \subseteq crashed \cup {Len(counted) + 1}
  <1>1. /\ Uids(k) \in Seq(Nat) /\ Uids(k) # <<>> /\ Last(Uids(k)) = Len(counted) + 1
    BY UidsOfKey
  <1>2. \/ Telnet(k, Uids(k)) \/ Reconnection(k, Uids(k)) \/ Dga(k, Uids(k)) \/ Arpa(fs, k, Uids(k))
        \/ Smtp(fs, k, Uids(k)) \/ Ssh(k, Uids(k)) \/ Empty(k, Uids(k))
    BY OneAnalyzer
  <1> HIDE DEF fs
  <1>3. /\ Tail(Uids(k)) \in Seq(Nat)
        /\ ToSet(Tail(Uids(k))) \subseteq ToSet(Uids(k))
    BY <1>1 DEF ToSet
  <1>4. ASSUME NEW uids \in Seq(Nat), ToSet(uids) \subseteq ToSet(Uids(k)), KeepUids(k, uids)
        PROVE  goal
    BY <1>4 DEF KeepUids, Store, KeepsSome, OtherKeysKept
  <1>5. ASSUME ReportUids(Uids(k), Store(k, <<>>)) \/ ReportUids(Uids(k), WithoutKey(k))
        PROVE  goal
    BY <1>5 DEF ReportUids, Store, WithoutKey, ReportsAll, OtherKeysKept
  <1>6. ASSUME Ssh(k, Uids(k))
        PROVE  goal
    <2>1. KeepsSome(k)
      BY <1>1, <1>6 DEF Ssh, Store, KeepsSome, OtherKeysKept
    <2>2. crashed' \subseteq crashed \cup {Len(counted) + 1}
      BY <1>1, <1>6 DEF Ssh
    <2> QED BY <2>1, <2>2
  <1> HIDE DEF goal
  <1>7. goal
    BY <1>1, <1>2, <1>3, <1>4, <1>5, <1>6 DEF Telnet, Reconnection, Dga, Arpa, Smtp, Empty
  <1> QED BY <1>7 DEF goal

LEMMA CountTypeStep == CountTypeOK /\ KeptInv /\ [CountNext]_cvars => CountTypeOK'
  <1> SUFFICES ASSUME CountTypeOK, KeptInv, [CountNext]_cvars
               PROVE  CountTypeOK'
    OBVIOUS
  <1>1. CASE UNCHANGED cvars
    BY <1>1 DEF cvars, CountTypeOK
  <1>2. ASSUME NEW k \in CountKeys, NEW n \in QueryNames, NEW t \in 0..MaxClock, Analyze(k, n, t)
        PROVE  CountTypeOK'
    <2>1. /\ Len(counted) \in Nat /\ Len(counted') = Len(counted) + 1 /\ counted' \in Seq(Flow)
          /\ kind' = kind
      BY <1>2, Counting
    <2>2. ToSet(Uids(k)) \subseteq 1..Len(counted')
      BY <2>1, UidsOfKey
    <2>3. (KeepsSome(k) \/ ReportsAll(k)) /\ crashed' \subseteq crashed \cup {Len(counted) + 1}
      BY <1>2, KeepsOrReports
    <2>4. crashed' \subseteq 1..Len(counted')
      BY <2>1, <2>3 DEF CountTypeOK
    <2>5. /\ DOMAIN table' \subseteq CountKeys
          /\ \A j \in DOMAIN table' : ToSet(table'[j]) \subseteq 1..Len(counted')
      <3>1. ToSet(<<>>) = {}
        BY DEF ToSet
      <3>2. ASSUME NEW j \in DOMAIN table', j # k
            PROVE  ToSet(table'[j]) \subseteq 1..Len(counted')
        BY <2>1, <2>3, <3>2 DEF KeepsSome, ReportsAll, OtherKeysKept, CountTypeOK
      <3>3. k \in DOMAIN table' => ToSet(table'[k]) \subseteq 1..Len(counted')
        BY <2>2, <2>3, <3>1 DEF KeepsSome, ReportsAll
      <3>4. DOMAIN table' \subseteq CountKeys
        BY <2>3 DEF KeepsSome, ReportsAll, OtherKeysKept, CountTypeOK
      <3> QED BY <3>2, <3>3, <3>4
    <2>6. \A e \in countEvidence' : e \subseteq 1..Len(counted')
      BY <2>1, <2>2, <2>3 DEF KeepsSome, ReportsAll, CountTypeOK
    <2> QED BY <2>1, <2>4, <2>5, <2>6 DEF CountTypeOK, Flow
  <1> QED BY <1>1, <1>2 DEF CountNext

LEMMA OneEvidenceStep ==
    CountTypeOK /\ KeptInv /\ EachFlowInOneEvidence /\ [CountNext]_cvars
        => KeptInv' /\ EachFlowInOneEvidence'
  <1> SUFFICES ASSUME CountTypeOK, KeptInv, EachFlowInOneEvidence, [CountNext]_cvars
               PROVE  KeptInv' /\ EachFlowInOneEvidence'
    OBVIOUS
  <1>1. CASE UNCHANGED cvars
    BY <1>1 DEF cvars, KeptInv, EachFlowInOneEvidence, Reported
  <1>2. ASSUME NEW k \in CountKeys, NEW n \in QueryNames, NEW t \in 0..MaxClock, Analyze(k, n, t)
        PROVE  KeptInv' /\ EachFlowInOneEvidence'
    <2> DEFINE x == Len(counted) + 1
    <2>1. /\ Len(counted) \in Nat
          /\ \A u \in 1..Len(counted) : counted'[u].key = counted[u].key
          /\ counted'[x].key = k
      <3>1. /\ Len(counted) \in Nat
            /\ \A u \in 1..Len(counted) : counted'[u] = counted[u]
            /\ counted'[x] = [key |-> k, name |-> n, time |-> t]
        BY <1>2, Counting
      <3> QED BY <3>1
    <2>2. Reported \subseteq 1..Len(counted)
      BY DEF Reported, CountTypeOK
    <2>3. \A u \in ToSet(Uids(k)) : counted'[u].key = k /\ u \notin Reported
      <3>1. x \notin Reported /\ counted'[x].key = k
        BY <2>1, <2>2
      <3>2. /\ ToSet(Uids(k)) = ToSet(Kept(k)) \cup {x}
            /\ \A u \in ToSet(Kept(k)) : u \in 1..Len(counted) /\ counted[u].key = k /\ u \notin Reported
        BY UidsOfKey
      <3>3. \A u \in ToSet(Kept(k)) : counted'[u].key = k /\ u \notin Reported
        BY <2>1, <3>2
      <3> HIDE DEF x
      <3> QED BY <3>1, <3>2, <3>3
    <2>4. KeepsSome(k) \/ ReportsAll(k)
      BY <1>2, KeepsOrReports
    <2>5. ASSUME NEW j \in DOMAIN table', j # k
          PROVE  /\ table'[j] \in Seq(Nat) /\ ToSet(table'[j]) \subseteq 1..Len(counted)
                 /\ \A u \in ToSet(table'[j]) : counted[u].key = j /\ counted'[u].key = j /\ u \notin Reported
      <3>1. j \in DOMAIN table /\ table'[j] = table[j]
        BY <2>4, <2>5 DEF KeepsSome, ReportsAll, OtherKeysKept
      <3> QED BY <2>1, <3>1 DEF KeptInv, CountTypeOK
    <2>6. ASSUME NEW e \in countEvidence
          PROVE  /\ e \subseteq 1..Len(counted)
                 /\ \A u, v \in e : counted'[u].key = counted'[v].key
      BY <2>1 DEF CountTypeOK, EachFlowInOneEvidence
    <2>7. CASE KeepsSome(k)
      <3>1. Reported' = Reported /\ countEvidence' = countEvidence
        BY <2>7 DEF KeepsSome, Reported
      <3>2. k \in DOMAIN table' =>
               /\ table'[k] \in Seq(Nat)
               /\ \A u \in ToSet(table'[k]) : counted'[u].key = k /\ u \notin Reported'
        BY <2>3, <2>7, <3>1 DEF KeepsSome
      <3>3. KeptInv'
        BY <2>5, <3>1, <3>2 DEF KeptInv
      <3>4. EachFlowInOneEvidence'
        BY <2>6, <3>1 DEF EachFlowInOneEvidence
      <3> QED BY <3>3, <3>4
    <2>8. CASE ReportsAll(k)
      <3>1. Reported' = Reported \cup ToSet(Uids(k))
        BY <2>8 DEF ReportsAll, Reported
      <3>2. k \in DOMAIN table' =>
               /\ table'[k] \in Seq(Nat)
               /\ \A u \in ToSet(table'[k]) : counted'[u].key = k /\ u \notin Reported'
        BY <2>8 DEF ReportsAll, ToSet
      <3>3. ASSUME NEW j \in DOMAIN table', j # k, NEW u \in ToSet(table'[j])
            PROVE  u \notin Reported'
        <4>1. counted'[u].key = j /\ u \notin Reported
          BY <2>5, <3>3
        <4>2. u \notin ToSet(Uids(k))
          BY <2>3, <3>3, <4>1
        <4> QED BY <3>1, <4>1, <4>2
      <3>4. KeptInv'
        BY <2>5, <3>2, <3>3 DEF KeptInv
      <3>5. \A e \in countEvidence : e \cap ToSet(Uids(k)) = {}
        BY <2>3 DEF Reported
      <3>6. EachFlowInOneEvidence'
        <4>1. \A e, f \in countEvidence' : e # f => e \cap f = {}
          BY <2>8, <3>5 DEF ReportsAll, EachFlowInOneEvidence
        <4>2. \A e \in countEvidence' : \A u, v \in e : counted'[u].key = counted'[v].key
          BY <2>3, <2>6, <2>8 DEF ReportsAll
        <4> QED BY <4>1, <4>2 DEF EachFlowInOneEvidence
      <3> QED BY <3>4, <3>6
    <2> QED BY <2>4, <2>7, <2>8
  <1> QED BY <1>1, <1>2 DEF CountNext

\* A flow of Flow Alerts' counters counts for one evidence of its kind at most,
\* and every evidence is about flows of one key, for any keys and thresholds.
THEOREM OneEvidencePerFlow == CountSpec => []EachFlowInOneEvidence
  <1> DEFINE Inv == CountTypeOK /\ KeptInv /\ EachFlowInOneEvidence
  <1>1. CountInit => Inv
    <2> SUFFICES ASSUME CountInit PROVE KeptInv /\ EachFlowInOneEvidence
      BY CountTypeInit
    <2> QED BY DEF CountInit, KeptInv, EachFlowInOneEvidence
  <1>2. Inv /\ [CountNext]_cvars => Inv'
    BY CountTypeStep, OneEvidenceStep
  <1> QED BY <1>1, <1>2, PTL DEF CountSpec

-----------------------------------------------------------------------------
(* No threshold passed in silence.                                         *)


LEMMA ToSetSize ==
    ASSUME NEW s \in Seq(Nat)
    PROVE  IsFiniteSet(ToSet(s)) /\ Cardinality(ToSet(s)) \in Nat /\ Cardinality(ToSet(s)) <= Len(s)
  <1> DEFINE n == Len(s)  at == [i \in 1..n |-> s[i]]
  <1>1. n \in Nat /\ DOMAIN s = 1..n
    OBVIOUS
  <1> HIDE DEF n
  <1>2. IsFiniteSet(1..n) /\ Cardinality(1..n) = n
    BY <1>1, FS_Interval
  <1>3. at \in Surjection(1..n, ToSet(s))
    BY <1>1 DEF Surjection, ToSet
  <1>4. IsFiniteSet(ToSet(s)) /\ Cardinality(ToSet(s)) <= Cardinality(1..n)
    BY <1>2, <1>3, FS_Surjection
  <1> QED BY <1>1, <1>2, <1>4, FS_CardinalityType DEF n

\* What the flow that comes changes of a key's flows and of those unreported.
LEMMA UnreportedNext ==
    ASSUME CountTypeOK, KeptInv, NEW k \in CountKeys, NEW n \in QueryNames, NEW t \in 0..MaxClock,
           Analyze(k, n, t)
    PROVE  /\ \A j \in CountKeys \ {k} : FlowsOf(j)' = FlowsOf(j) /\ Unreported(j)' = Unreported(j)
           /\ FlowsOf(k)' = FlowsOf(k) \cup {Len(counted) + 1}
           /\ countEvidence' = countEvidence => Unreported(k)' = Unreported(k) \cup {Len(counted) + 1}
           /\ Unreported(k)' \subseteq Unreported(k) \cup {Len(counted) + 1}
           /\ ReportsAll(k) => Unreported(k)' = Unreported(k) \ ToSet(Uids(k))
  <1> DEFINE x == Len(counted) + 1
  <1>1. /\ Len(counted) \in Nat /\ Len(counted') = x
        /\ \A u \in 1..Len(counted) : counted'[u] = counted[u]
        /\ counted'[x] = [key |-> k, name |-> n, time |-> t]
    BY Counting
  <1>2. counted'[x].key = k /\ x \notin 1..Len(counted) /\ 1..x = 1..Len(counted) \cup {x}
    BY <1>1
  <1>3. /\ KeepsSome(k) => Reported' = Reported
        /\ ReportsAll(k) => Reported' = Reported \cup ToSet(Uids(k))
        /\ countEvidence' = countEvidence => Reported' = Reported
    BY DEF KeepsSome, ReportsAll, Reported
  <1>4. /\ x \in ToSet(Uids(k))
        /\ \A u \in ToSet(Uids(k)) : u = x \/ (u \in 1..Len(counted) /\ counted[u].key = k)
    BY UidsOfKey
  <1>5. Reported \subseteq 1..Len(counted)
    BY DEF Reported, CountTypeOK
  <1> HIDE DEF x
  <1>6. \A j \in CountKeys \ {k} : FlowsOf(j)' = FlowsOf(j)
    BY <1>1, <1>2 DEF FlowsOf
  <1>7. FlowsOf(k)' = FlowsOf(k) \cup {x}
    BY <1>1, <1>2 DEF FlowsOf
  <1>8. KeepsSome(k) \/ ReportsAll(k)
    BY KeepsOrReports
  <1>9. ASSUME NEW j \in CountKeys \ {k}
        PROVE  Unreported(j)' = Unreported(j)
    <2>1. \A u \in FlowsOf(j) : u \notin ToSet(Uids(k))
      BY <1>2, <1>4 DEF FlowsOf
    <2> QED BY <1>3, <1>6, <1>8, <2>1 DEF Unreported
  <1>10. x \notin Reported /\ x \notin FlowsOf(k)
    BY <1>2, <1>5 DEF FlowsOf
  <1>11. countEvidence' = countEvidence => Unreported(k)' = Unreported(k) \cup {x}
    BY <1>3, <1>7, <1>10 DEF Unreported
  <1>12. ReportsAll(k) => Unreported(k)' = Unreported(k) \ ToSet(Uids(k))
    BY <1>3, <1>4, <1>7, <1>10 DEF Unreported
  <1>13. Unreported(k)' \subseteq Unreported(k) \cup {x}
    BY <1>3, <1>7, <1>8 DEF Unreported
  <1> QED BY <1>6, <1>7, <1>9, <1>11, <1>12, <1>13 DEF x

\* The flow that comes changes neither the times nor the names of those before it.
LEMMA SameTimes ==
    ASSUME CountTypeOK, NEW k \in CountKeys, NEW n \in QueryNames, NEW t \in 0..MaxClock,
           Analyze(k, n, t),
           NEW u \in 1..Len(counted), NEW v \in 1..Len(counted)
    PROVE  TimeApart(counted', u, v) = TimeApart(counted, u, v) /\ counted'[u].name = counted[u].name
  <1>1. counted'[u] = counted[u] /\ counted'[v] = counted[v]
    BY Counting
  <1> QED BY <1>1 DEF TimeApart

\* The kinds that keep every flow until they report all of them: nothing else
\* is left unreported, and it is short of the threshold.
KeepAllKinds == {"telnet", "reconnection", "dga", "empty"}
AllKept ==
    kind \in KeepAllKinds =>
        \A k \in CountKeys :
            /\ Unreported(k) \subseteq ToSet(Kept(k))
            /\ kind # "dga" => Len(Kept(k)) < CountThreshold[kind]
            /\ kind = "dga" => \A m \in 2..Len(Kept(k)) : m >= CountThreshold["dga"] => m % Step # 0

\* One analysis of such a kind.
LEMMA KeepsAllOrReports ==
    ASSUME CountTypeOK, KeptInv, AllKept, kind \in KeepAllKinds,
           NEW k \in CountKeys, NEW n \in QueryNames, NEW t \in 0..MaxClock, Analyze(k, n, t)
    PROVE  /\ \A j \in CountKeys \ {k} : Kept(j)' = Kept(j)
           /\ \/ /\ Kept(k)' = Uids(k)
                 /\ kind # "dga" => Len(Uids(k)) < CountThreshold[kind]
                 /\ kind = "dga" => \/ Len(Uids(k)) < CountThreshold["dga"] \/ Len(Uids(k)) % Step # 0
                                    \/ Len(Uids(k)) = 1
              \/ Kept(k)' = <<>> /\ ReportsAll(k)
  <1> DEFINE uids == Uids(k)
             others == \A j \in CountKeys \ {k} : Kept(j)' = Kept(j)
             small == /\ kind # "dga" => Len(uids) < CountThreshold[kind]
                      /\ kind = "dga" => Len(uids) < CountThreshold["dga"] \/ Len(uids) % Step # 0 \/ Len(uids) = 1
  <1>1. Len(uids) \in Nat /\ Len(uids) = Len(Kept(k)) + 1
    BY UidsOfKey
  <1>2. \/ kind = "telnet" /\ Telnet(k, uids)
        \/ kind = "reconnection" /\ Reconnection(k, uids)
        \/ kind = "dga" /\ Dga(k, uids)
        \/ kind = "empty" /\ Empty(k, uids)
    BY OneAnalyzer DEF KeepAllKinds
  <1>3. CountThreshold[kind] \in Nat \ {0}
    BY CountAssumption DEF KeepAllKinds, Counters
  <1>4. k \notin DOMAIN table => Len(uids) = 1
    BY <1>1 DEF Kept
  <1>5. Len(uids) # CountThreshold["empty"] /\ kind = "empty" => Len(uids) < CountThreshold["empty"]
    BY <1>1, <1>3 DEF AllKept, KeepAllKinds
  <1>6. (KeepUids(k, uids) /\ small) \/ ReportUids(uids, Store(k, <<>>))
    BY <1>2, <1>4, <1>5 DEF Telnet, Reconnection, Dga, Empty
  <1>7. KeepUids(k, uids) => others /\ Kept(k)' = uids
    BY DEF KeepUids, Store, Kept
  <1>8. ReportUids(uids, Store(k, <<>>)) => others /\ Kept(k)' = <<>> /\ ReportsAll(k)
    BY DEF ReportUids, Store, Kept, ReportsAll, OtherKeysKept
  <1> QED BY <1>6, <1>7, <1>8

LEMMA AllKeptStep == CountTypeOK /\ KeptInv /\ AllKept /\ [CountNext]_cvars => AllKept'
  <1> SUFFICES ASSUME CountTypeOK, KeptInv, AllKept, [CountNext]_cvars
               PROVE  AllKept'
    OBVIOUS
  <1>1. CASE UNCHANGED cvars
    BY <1>1 DEF cvars, AllKept, Unreported, FlowsOf, Reported, Kept
  <1>2. ASSUME NEW k \in CountKeys, NEW n \in QueryNames, NEW t \in 0..MaxClock, Analyze(k, n, t)
        PROVE  AllKept'
    <2> SUFFICES ASSUME kind \in KeepAllKinds,
                        NEW j \in CountKeys
                 PROVE  /\ Unreported(j)' \subseteq ToSet(Kept(j)')
                        /\ kind # "dga" => Len(Kept(j)') < CountThreshold[kind]
                        /\ kind = "dga" => \A m \in 2..Len(Kept(j)') : m >= CountThreshold["dga"] => m % Step # 0
      <3>1. kind' = kind
        BY <1>2, Counting
      <3> QED BY <3>1 DEF AllKept
    <2> DEFINE uids == Uids(k)
    <2>1. /\ Len(Kept(k)) \in Nat /\ Len(uids) = Len(Kept(k)) + 1
          /\ ToSet(uids) = ToSet(Kept(k)) \cup {Len(counted) + 1}
      BY UidsOfKey
    <2>2. CountThreshold[kind] \in Nat \ {0} /\ Step \in Nat \ {0}
      BY CountAssumption DEF KeepAllKinds, Counters
    <2>3. Len(<<>>) = 0 /\ ToSet(<<>>) = {}
      BY DEF ToSet
    <2>4. CASE j # k
      <3>1. Kept(j)' = Kept(j)
        BY <1>2, <2>4, KeepsAllOrReports
      <3>2. Unreported(j)' = Unreported(j)
        BY <1>2, <2>4, UnreportedNext
      <3> QED BY <3>1, <3>2 DEF AllKept
    <2>5. CASE j = k /\ Kept(k)' = <<>> /\ ReportsAll(k)
      <3>1. Unreported(k)' = {}
        <4>1. Unreported(k)' = Unreported(k) \ ToSet(uids)
          BY <1>2, <2>5, UnreportedNext
        <4>2. Unreported(k) \subseteq ToSet(Kept(k))
          BY DEF AllKept
        <4> QED BY <2>1, <4>1, <4>2
      <3>2. \A m \in 2..0 : FALSE
        OBVIOUS
      <3> QED BY <2>2, <2>3, <2>5, <3>1, <3>2
    <2>6. CASE /\ j = k /\ Kept(k)' = uids
               /\ kind # "dga" => Len(uids) < CountThreshold[kind]
               /\ kind = "dga" => Len(uids) < CountThreshold["dga"] \/ Len(uids) % Step # 0 \/ Len(uids) = 1
      <3>1. Unreported(k)' \subseteq ToSet(uids)
        <4>1. Unreported(k)' \subseteq Unreported(k) \cup {Len(counted) + 1}
          BY <1>2, UnreportedNext
        <4>2. Unreported(k) \subseteq ToSet(Kept(k))
          BY DEF AllKept
        <4> QED BY <2>1, <4>1, <4>2
      <3>2. ASSUME kind = "dga", NEW m \in 2..Len(uids), m >= CountThreshold["dga"]
            PROVE  m % Step # 0
        <4>1. CASE m \in 2..Len(Kept(k))
          BY <3>2, <4>1 DEF AllKept
        <4>2. CASE m = Len(uids)
          BY <2>1, <2>2, <2>6, <3>2, <4>2
        <4> QED BY <2>1, <4>1, <4>2
      <3> QED BY <2>6, <3>1, <3>2
    <2> QED BY <1>2, <2>4, <2>5, <2>6, KeepsAllOrReports
  <1> QED BY <1>1, <1>2 DEF CountNext

LEMMA FewUnreported ==
    ASSUME CountTypeOK, KeptInv, AllKept, kind \in KeepAllKinds, NEW k \in CountKeys
    PROVE  /\ kind # "dga" => FewLeft(k)
           /\ kind = "dga" => NoMultipleLeft(k)
  <1> DEFINE n == Len(Kept(k))  c == Cardinality(Unreported(k))
  <1>1. Kept(k) \in Seq(Nat) /\ n \in Nat
    BY UidsOfKey
  <1>2. CountThreshold[kind] \in Nat \ {0} /\ CountThreshold["dga"] \in Nat /\ CountThreshold["dga"] >= 2
    BY CountAssumption DEF KeepAllKinds, Counters
  <1>3. c \in Nat /\ c <= n
    <2>1. Unreported(k) \subseteq ToSet(Kept(k))
      BY DEF AllKept
    <2>2. IsFiniteSet(ToSet(Kept(k))) /\ Cardinality(ToSet(Kept(k))) \in Nat /\ Cardinality(ToSet(Kept(k))) <= n
      BY <1>1, ToSetSize
    <2>3. IsFiniteSet(Unreported(k)) /\ c <= Cardinality(ToSet(Kept(k)))
      BY <2>1, <2>2, FS_Subset
    <2>4. c \in Nat
      BY <2>3, FS_CardinalityType
    <2> HIDE DEF n, c
    <2> QED BY <1>1, <2>2, <2>3, <2>4
  <1>4. /\ kind # "dga" => n < CountThreshold[kind]
        /\ kind = "dga" => \A m \in 2..n : m >= CountThreshold["dga"] => m % Step # 0
    BY DEF AllKept
  <1>5. kind # "dga" => FewLeft(k)
    BY <1>1, <1>2, <1>3, <1>4 DEF FewLeft
  <1>6. ASSUME kind = "dga", NEW m \in CountThreshold["dga"]..c
        PROVE  m % Step # 0
    <2>1. m \in 2..n /\ m >= CountThreshold["dga"]
      BY <1>1, <1>2, <1>3
    <2> QED BY <1>4, <1>6, <2>1
  <1> QED BY <1>5, <1>6 DEF NoMultipleLeft

-----------------------------------------------------------------------------
\* ARPA: every query left is kept, the first of them in front.
ArpaInv ==
    kind = "arpa" =>
        \A k \in CountKeys :
            /\ Unreported(k) \subseteq ToSet(Kept(k))
            /\ \A u \in ToSet(Kept(k)) : Kept(k)[1] <= u
            /\ ScansTooSlow(k)

LEMMA ArpaOutcome ==
    ASSUME CountTypeOK, KeptInv, kind = "arpa",
           NEW k \in CountKeys, NEW n \in QueryNames, NEW t \in 0..MaxClock, Analyze(k, n, t)
    PROVE  /\ \A j \in CountKeys \ {k} : Kept(j)' = Kept(j)
           /\ \/ /\ Kept(k)' = Uids(k) /\ countEvidence' = countEvidence
                 /\ \/ Uids(k) = <<Len(counted) + 1>>
                    \/ Cardinality(NamesOf(counted', ToSet(Uids(k)))) < CountThreshold["arpa"]
                    \/ TimeApart(counted', Uids(k)[1], Len(counted) + 1) > Span["arpa"]
              \/ Kept(k)' = <<>> /\ ReportsAll(k)
  <1> DEFINE uids == Uids(k)  fs == Flows(k, n, t)  x == Len(counted) + 1
             others == \A j \in CountKeys \ {k} : Kept(j)' = Kept(j)
  <1>1. Arpa(fs, k, uids) /\ counted' = fs
    BY OneAnalyzer, Counting DEF Flows
  <1>2. Last(uids) = x /\ (k \notin DOMAIN table => uids = <<x>>)
    <2>1. Last(uids) = x
      BY UidsOfKey
    <2>2. k \notin DOMAIN table => Kept(k) = <<>>
      BY DEF Kept
    <2>3. uids = Append(Kept(k), x)
      BY DEF Uids
    <2> HIDE DEF uids, x
    <2>4. k \notin DOMAIN table => uids = Append(<<>>, x)
      BY <2>2, <2>3
    <2>5. Append(<<>>, x) = <<x>>
      OBVIOUS
    <2> QED BY <2>1, <2>4, <2>5
  <1>3. KeepUids(k, uids) => others /\ Kept(k)' = uids /\ countEvidence' = countEvidence
    BY DEF KeepUids, Store, Kept
  <1>4. ReportUids(uids, WithoutKey(k)) => others /\ Kept(k)' = <<>> /\ ReportsAll(k)
    BY DEF ReportUids, WithoutKey, Kept, ReportsAll, OtherKeysKept
  <1>5. \/ /\ KeepUids(k, uids)
           /\ \/ k \notin DOMAIN table
              \/ Cardinality(NamesOf(counted', ToSet(uids))) < CountThreshold["arpa"]
              \/ TimeApart(counted', uids[1], x) > Span["arpa"]
        \/ ReportUids(uids, WithoutKey(k))
    BY <1>1, <1>2 DEF Arpa
  <1> HIDE DEF uids, fs, x, others
  <1>6. others /\ \/ /\ Kept(k)' = uids /\ countEvidence' = countEvidence
                     /\ \/ uids = <<x>>
                        \/ Cardinality(NamesOf(counted', ToSet(uids))) < CountThreshold["arpa"]
                        \/ TimeApart(counted', uids[1], x) > Span["arpa"]
                  \/ Kept(k)' = <<>> /\ ReportsAll(k)
    BY <1>2, <1>3, <1>4, <1>5
  <1> QED BY <1>6 DEF uids, fs, x, others

LEMMA ArpaStep == CountTypeOK /\ KeptInv /\ ArpaInv /\ [CountNext]_cvars => ArpaInv'
  <1> SUFFICES ASSUME CountTypeOK, KeptInv, ArpaInv, [CountNext]_cvars
               PROVE  ArpaInv'
    OBVIOUS
  <1>1. CASE UNCHANGED cvars
    <2>1. counted' = counted /\ kind' = kind
      BY <1>1 DEF cvars
    <2>2. \A k : Kept(k)' = Kept(k) /\ Unreported(k)' = Unreported(k)
      BY <1>1 DEF cvars, Kept, Unreported, FlowsOf, Reported
    <2>3. \A k : ScansTooSlow(k)' <=> ScansTooSlow(k)
      BY <2>1, <2>2 DEF ScansTooSlow
    <2> QED BY <2>1, <2>2, <2>3 DEF ArpaInv
  <1>2. ASSUME NEW k \in CountKeys, NEW n \in QueryNames, NEW t \in 0..MaxClock, Analyze(k, n, t)
        PROVE  ArpaInv'
    <2> DEFINE x == Len(counted) + 1  uids == Uids(k)
    <2> SUFFICES ASSUME kind = "arpa", NEW j \in CountKeys
                 PROVE  /\ Unreported(j)' \subseteq ToSet(Kept(j)')
                        /\ \A u \in ToSet(Kept(j)') : Kept(j)'[1] <= u
                        /\ ScansTooSlow(j)'
      <3>1. kind' = kind
        BY <1>2, Counting
      <3> QED BY <3>1 DEF ArpaInv
    <2>1. /\ Unreported(j) \subseteq ToSet(Kept(j)) /\ ScansTooSlow(j)
          /\ \A u \in ToSet(Kept(j)) : Kept(j)[1] <= u
      BY DEF ArpaInv
    <2>2. \A i \in CountKeys : \A u \in Unreported(i) : u \in 1..Len(counted) /\ counted[u].key = i
      BY DEF Unreported, FlowsOf
    <2>3. Len(counted) \in Nat /\ x \in Nat /\ \A u \in 1..Len(counted) : u < x /\ u \in Nat
      BY <1>2, Counting
    <2>4. ToSet(<<>>) = {}
      BY DEF ToSet
    \* A query that was there before: the same names and the same first one.
    <2>5. ASSUME NEW f \in Unreported(j), NEW u \in Unreported(j),
                 \A v \in Unreported(j)' : v <= u => v \in Unreported(j),
                 Unreported(j) \subseteq Unreported(j)',
                 \A v \in {w \in Unreported(j)' : w <= u} : f <= v
          PROVE  \/ Cardinality(NamesOf(counted', {v \in Unreported(j)' : v <= u})) < CountThreshold["arpa"]
                 \/ TimeApart(counted', f, u) > Span["arpa"]
      <3> DEFINE sofar == {v \in Unreported(j) : v <= u}
      <3>1. {v \in Unreported(j)' : v <= u} = sofar
        BY <2>5
      <3>2. \A v \in sofar : f <= v
        BY <2>5, <3>1
      <3>3. Cardinality(NamesOf(counted, sofar)) < CountThreshold["arpa"] \/ TimeApart(counted, f, u) > Span["arpa"]
        BY <2>1, <3>2 DEF ScansTooSlow
      <3>4. \A v \in sofar : counted'[v].name = counted[v].name
        BY <1>2, <2>2, SameTimes
      <3> HIDE DEF sofar
      <3>5. NamesOf(counted', {v \in Unreported(j)' : v <= u}) = {counted'[v].name : v \in {w \in Unreported(j)' : w <= u}}
        BY DEF NamesOf
      <3>6. {counted'[v].name : v \in {w \in Unreported(j)' : w <= u}} = NamesOf(counted, sofar)
        BY <3>1, <3>4 DEF NamesOf
      <3>7. TimeApart(counted', f, u) = TimeApart(counted, f, u)
        BY <1>2, <2>2, SameTimes
      <3> QED BY <3>3, <3>5, <3>6, <3>7
    <2>6. CASE j # k
      <3>1. Kept(j)' = Kept(j) /\ Unreported(j)' = Unreported(j)
        BY <1>2, <2>6, ArpaOutcome, UnreportedNext
      <3>2. ScansTooSlow(j)'
        BY <2>5, <3>1 DEF ScansTooSlow
      <3> QED BY <2>1, <3>1, <3>2
    <2>7. CASE j = k /\ Kept(k)' = <<>> /\ ReportsAll(k)
      <3>1. Unreported(k)' = {}
        <4>1. Unreported(k)' = Unreported(k) \ ToSet(uids)
          BY <1>2, <2>7, UnreportedNext
        <4>2. ToSet(Kept(k)) \subseteq ToSet(uids)
          BY UidsOfKey
        <4> QED BY <2>1, <2>7, <4>1, <4>2
      <3> QED BY <2>4, <2>7, <3>1 DEF ScansTooSlow
    <2>8. CASE /\ j = k /\ Kept(k)' = uids /\ countEvidence' = countEvidence
               /\ \/ uids = <<x>>
                  \/ Cardinality(NamesOf(counted', ToSet(uids))) < CountThreshold["arpa"]
                  \/ TimeApart(counted', uids[1], x) > Span["arpa"]
      <3>1. Unreported(k)' = Unreported(k) \cup {x}
        BY <1>2, <2>8, UnreportedNext
      <3>2. /\ Kept(k) \in Seq(Nat) /\ uids = Append(Kept(k), x) /\ ToSet(uids) = ToSet(Kept(k)) \cup {x}
            /\ \A u \in ToSet(Kept(k)) : u \in 1..Len(counted) /\ counted[u].key = k /\ u \notin Reported
        BY UidsOfKey DEF Uids
      <3>3. /\ Kept(k) = <<>> => uids[1] = x
            /\ Kept(k) # <<>> => uids[1] = Kept(k)[1] /\ Kept(k)[1] \in ToSet(Kept(k))
        BY <2>3, <3>2 DEF ToSet
      <3> HIDE DEF x, uids
      <3>4. \A u \in ToSet(uids) : uids[1] <= u
        <4>1. CASE Kept(k) = <<>>
          BY <2>3, <2>4, <3>2, <3>3, <4>1
        <4>2. CASE Kept(k) # <<>>
          <5>1. uids[1] \in 1..Len(counted)
            BY <3>2, <3>3, <4>2
          <5> QED BY <2>1, <2>3, <2>8, <3>2, <3>3, <4>2, <5>1
        <4> QED BY <4>1, <4>2
      <3>5. Unreported(k)' \subseteq ToSet(uids)
        BY <2>1, <2>8, <3>1, <3>2
      <3>6. ASSUME NEW f \in Unreported(k)', NEW u \in Unreported(k)',
                   \A v \in {w \in Unreported(k)' : w <= u} : f <= v
            PROVE  \/ Cardinality(NamesOf(counted', {v \in Unreported(k)' : v <= u})) < CountThreshold["arpa"]
                   \/ TimeApart(counted', f, u) > Span["arpa"]
        <4>1. CASE u # x
          <5>1. u \in Unreported(k)
            BY <3>1, <4>1
          <5>2. \A v \in Unreported(k)' : v <= u => v \in Unreported(k)
            BY <2>2, <2>3, <3>1, <5>1
          <5>3. u <= u
            BY <2>2, <2>3, <5>1
          <5>4. f <= u
            BY <3>6, <5>1, <5>3
          <5>5. f \in Unreported(k)
            BY <3>6, <5>2, <5>4
          <5> QED BY <2>5, <2>8, <3>1, <3>6, <5>1, <5>2, <5>5
        <4>2. CASE u = x
          <5>1. \A v \in Unreported(k)' : v <= x /\ v \in Nat
            BY <2>2, <2>3, <3>1
          <5>2. f = uids[1]
            <6>1. uids[1] \in Unreported(k)'
              <7>1. CASE Kept(k) = <<>>
                BY <3>1, <3>3, <7>1
              <7>2. CASE Kept(k) # <<>>
                <8>1. Kept(k)[1] \in 1..Len(counted) /\ counted[Kept(k)[1]].key = k /\ Kept(k)[1] \notin Reported
                  BY <3>2, <3>3, <7>2
                <8> QED BY <3>1, <3>3, <7>2, <8>1 DEF Unreported, FlowsOf
              <7> QED BY <7>1, <7>2
            <6>2. f <= uids[1]
              BY <3>6, <4>2, <5>1, <6>1
            <6>3. uids[1] <= f
              BY <3>4, <3>5
            <6> QED BY <5>1, <6>1, <6>2, <6>3
          <5> DEFINE names == {counted'[v].name : v \in Unreported(k)'}
          <5>3. {v \in Unreported(k)' : v <= u} = Unreported(k)'
            BY <4>2, <5>1
          <5>4. NamesOf(counted', {v \in Unreported(k)' : v <= u}) = names
            BY <5>3 DEF NamesOf
          <5>5. IsFiniteSet(ToSet(uids)) /\ uids \in Seq(Nat)
            <6>1. uids \in Seq(Nat)
              BY <2>3, <3>2
            <6> QED BY <6>1, ToSetSize
          <5> DEFINE all == {counted'[v].name : v \in ToSet(uids)}
          <5>6. IsFiniteSet(all) /\ Cardinality(all) \in Nat
            <6> DEFINE name == [v \in ToSet(uids) |-> counted'[v].name]
            <6>0. name \in Surjection(ToSet(uids), all)
              BY DEF Surjection
            <6>1. IsFiniteSet(all)
              <7> HIDE DEF name, all
              <7> QED BY <5>5, <6>0, FS_Surjection
            <6> QED BY <6>1, FS_CardinalityType
          <5>7. IsFiniteSet(names) /\ Cardinality(names) \in Nat /\ Cardinality(names) <= Cardinality(all)
            <6>1. names \subseteq all
              BY <3>5
            <6> HIDE DEF names, all
            <6>2. IsFiniteSet(names) /\ Cardinality(names) <= Cardinality(all)
              BY <5>6, <6>1, FS_Subset
            <6> QED BY <6>2, FS_CardinalityType
          <5>8. NamesOf(counted', ToSet(uids)) = all
            BY DEF NamesOf
          <5>9. uids = <<x>> => Cardinality(all) = 1
            <6>1. uids = <<x>> => ToSet(uids) = {x}
              BY DEF ToSet
            <6>2. uids = <<x>> => all = {counted'[x].name}
              BY <6>1
            <6> HIDE DEF all
            <6> QED BY <6>2, FS_Singleton
          <5>10. CountThreshold["arpa"] \in Nat /\ CountThreshold["arpa"] >= 2
            BY CountAssumption DEF Counters
          <5> HIDE DEF names, all
          <5> QED BY <2>8, <4>2, <5>2, <5>4, <5>6, <5>7, <5>8, <5>9, <5>10
        <4> QED BY <4>1, <4>2
      <3>7. ScansTooSlow(k)'
        BY <3>6 DEF ScansTooSlow
      <3> QED BY <2>8, <3>4, <3>5, <3>7
    <2> QED BY <1>2, <2>6, <2>7, <2>8, ArpaOutcome
  <1> QED BY <1>1, <1>2 DEF CountNext

-----------------------------------------------------------------------------
\* SMTP: the last logins of a key are kept, in their order, as far as they are
\* not reported.
LastLeft(k, u) == u \in Unreported(k) /\ \A x \in FlowsOf(k) : x <= u
LastTwoLeft(k, u, v) ==
    /\ u \in Unreported(k) /\ LastLeft(k, v)
    /\ u < v /\ \A x \in FlowsOf(k) : u <= x => x \in {u, v}
SmtpInv ==
    kind = "smtp" =>
        \A k \in CountKeys :
            /\ Len(Kept(k)) <= 2
            /\ \A u \in Unreported(k) : LastLeft(k, u) => Kept(k) # <<>> /\ Last(Kept(k)) = u
            /\ \A u, v \in Unreported(k) : LastTwoLeft(k, u, v) => Kept(k) = <<u, v>>
            /\ LoginsTooSlow(k)

LEMMA SmtpOutcome ==
    ASSUME CountTypeOK, KeptInv, SmtpInv, kind = "smtp",
           NEW k \in CountKeys, NEW n \in QueryNames, NEW t \in 0..MaxClock, Analyze(k, n, t)
    PROVE  /\ \A j \in CountKeys \ {k} : Kept(j)' = Kept(j)
           /\ \/ Kept(k)' = Uids(k) /\ Len(Uids(k)) <= 2 /\ countEvidence' = countEvidence
              \/ /\ Kept(k)' = Tail(Uids(k)) /\ Len(Uids(k)) = 3 /\ countEvidence' = countEvidence
                 /\ TimeApart(counted', Uids(k)[1], Len(counted) + 1) > Span["smtp"]
              \/ Kept(k)' = <<>> /\ ReportsAll(k)
  <1> DEFINE uids == Uids(k)  fs == Flows(k, n, t)  x == Len(counted) + 1
             others == \A j \in CountKeys \ {k} : Kept(j)' = Kept(j)
  <1>1. /\ Len(uids) \in Nat /\ Len(uids) = Len(Kept(k)) + 1 /\ Len(Kept(k)) <= 2
        /\ Last(uids) = x
    BY UidsOfKey DEF SmtpInv
  <1>2. Smtp(fs, k, uids) /\ counted' = fs
    BY OneAnalyzer, Counting DEF Flows
  <1>3. CountThreshold["smtp"] = 3
    BY CountAssumption
  <1>4. \/ KeepUids(k, uids) /\ Len(uids) # 3
        \/ KeepUids(k, Tail(uids)) /\ Len(uids) = 3 /\ TimeApart(counted', uids[1], x) > Span["smtp"]
        \/ ReportUids(uids, Store(k, <<>>))
    BY <1>1, <1>2, <1>3 DEF Smtp
  <1>5. ASSUME NEW kept, KeepUids(k, kept)
        PROVE  others /\ Kept(k)' = kept /\ countEvidence' = countEvidence
    BY <1>5 DEF KeepUids, Store, Kept
  <1>6. ReportUids(uids, Store(k, <<>>)) => others /\ Kept(k)' = <<>> /\ ReportsAll(k)
    BY DEF ReportUids, Store, Kept, ReportsAll, OtherKeysKept
  <1>7. Len(uids) # 3 => Len(uids) <= 2
    BY <1>1
  <1> HIDE DEF uids, fs, x, others
  <1>8. others /\ \/ Kept(k)' = uids /\ Len(uids) <= 2 /\ countEvidence' = countEvidence
                  \/ /\ Kept(k)' = Tail(uids) /\ Len(uids) = 3 /\ countEvidence' = countEvidence
                     /\ TimeApart(counted', uids[1], x) > Span["smtp"]
                  \/ Kept(k)' = <<>> /\ ReportsAll(k)
    BY <1>4, <1>5, <1>6, <1>7
  <1> QED BY <1>8 DEF uids, fs, x, others

LEMMA TailOfThree ==
    ASSUME NEW s \in Seq(Nat), Len(s) = 3
    PROVE  /\ Tail(s) \in Seq(Nat) /\ Len(Tail(s)) = 2 /\ DOMAIN Tail(s) = 1..2
           /\ Tail(s)[1] = s[2] /\ Tail(s)[2] = s[3]
  <1>1. s # <<>>
    <2>1. Len(<<>>) = 0
      OBVIOUS
    <2>2. Len(s) # 0
      OBVIOUS
    <2> QED BY <2>1, <2>2, Zenon
  <1>2. Tail(s) \in Seq(Nat) /\ Len(Tail(s)) = Len(s) - 1 /\ \A i \in 1..Len(Tail(s)) : Tail(s)[i] = s[i + 1]
    BY <1>1, HeadTailProperties
  <1>3. Len(Tail(s)) = 2
    BY <1>2
  <1> DEFINE r == Tail(s)
  <1> HIDE DEF r
  <1>4. r \in Seq(Nat) /\ Len(r) = 2 /\ \A i \in 1..2 : r[i] = s[i + 1]
    BY <1>2, <1>3 DEF r
  <1>5. DOMAIN r = 1..2 /\ r[1] = s[1 + 1] /\ r[2] = s[2 + 1]
    BY <1>4
  <1> QED BY <1>4, <1>5 DEF r

\* No uid is kept of a key, or some are.
LEMMA NoneKept ==
    ASSUME CountTypeOK, KeptInv, NEW k \in CountKeys
    PROVE  Kept(k) = <<>> <=> Len(Kept(k)) = 0
  <1>1. Kept(k) \in Seq(Nat)
    BY UidsOfKey
  <1> QED BY <1>1, EmptySeq

LEMMA SmtpStep == CountTypeOK /\ KeptInv /\ SmtpInv /\ [CountNext]_cvars => SmtpInv'
  <1> SUFFICES ASSUME CountTypeOK, KeptInv, SmtpInv, [CountNext]_cvars
               PROVE  SmtpInv'
    OBVIOUS
  <1>1. CASE UNCHANGED cvars
    <2>1. counted' = counted /\ kind' = kind
      BY <1>1 DEF cvars
    <2>2. \A k : Kept(k)' = Kept(k) /\ Unreported(k)' = Unreported(k) /\ FlowsOf(k)' = FlowsOf(k)
      BY <1>1 DEF cvars, Kept, Unreported, FlowsOf, Reported
    <2>3. \A k : LoginsTooSlow(k)' <=> LoginsTooSlow(k)
      BY <2>1, <2>2 DEF LoginsTooSlow
    <2>4. /\ \A k, u : LastLeft(k, u)' <=> LastLeft(k, u)
          /\ \A k, u, v : LastTwoLeft(k, u, v)' <=> LastTwoLeft(k, u, v)
      BY <2>2 DEF LastLeft, LastTwoLeft
    <2> QED BY <2>1, <2>2, <2>3, <2>4 DEF SmtpInv
  <1>2. ASSUME NEW k \in CountKeys, NEW n \in QueryNames, NEW t \in 0..MaxClock, Analyze(k, n, t)
        PROVE  SmtpInv'
    <2> DEFINE x == Len(counted) + 1  uids == Uids(k)
    <2> SUFFICES ASSUME kind = "smtp", NEW j \in CountKeys
                 PROVE  /\ Len(Kept(j)') <= 2
                        /\ \A u \in Unreported(j)' : LastLeft(j, u)' => Kept(j)' # <<>> /\ Last(Kept(j)') = u
                        /\ \A u, v \in Unreported(j)' : LastTwoLeft(j, u, v)' => Kept(j)' = <<u, v>>
                        /\ LoginsTooSlow(j)'
      <3>1. kind' = kind
        BY <1>2, Counting
      <3> QED BY <3>1 DEF SmtpInv
    <2>1. /\ Len(Kept(j)) <= 2
          /\ \A u \in Unreported(j) : LastLeft(j, u) => Kept(j) # <<>> /\ Last(Kept(j)) = u
          /\ \A u, v \in Unreported(j) : LastTwoLeft(j, u, v) => Kept(j) = <<u, v>>
          /\ LoginsTooSlow(j)
      BY DEF SmtpInv
    <2>2. /\ Len(counted) \in Nat /\ x \in Nat
          /\ \A u \in 1..Len(counted) : u < x /\ u \in Nat /\ u # x
      BY <1>2, Counting
    <2>3. FlowsOf(j) \subseteq 1..Len(counted) /\ Unreported(j) \subseteq FlowsOf(j)
      BY DEF FlowsOf, Unreported
    <2>4. CASE j # k
      <3>1. Kept(j)' = Kept(j) /\ Unreported(j)' = Unreported(j) /\ FlowsOf(j)' = FlowsOf(j)
        BY <1>2, <2>4, SmtpOutcome, UnreportedNext
      <3>2. /\ \A u : LastLeft(j, u)' <=> LastLeft(j, u)
            /\ \A u, v : LastTwoLeft(j, u, v)' <=> LastTwoLeft(j, u, v)
        BY <3>1 DEF LastLeft, LastTwoLeft
      <3>3. \A u, w \in FlowsOf(j) : TimeApart(counted', u, w) = TimeApart(counted, u, w)
        BY <1>2, <2>3, SameTimes
      <3>4. LoginsTooSlow(j)'
        BY <2>1, <2>3, <3>1, <3>3 DEF LoginsTooSlow
      <3> QED BY <2>1, <3>1, <3>2, <3>4
    <2>5. CASE j = k
      <3>1. /\ Kept(k) \in Seq(Nat) /\ Len(Kept(k)) \in Nat /\ uids \in Seq(Nat) /\ Len(uids) = Len(Kept(k)) + 1
            /\ uids = Append(Kept(k), x) /\ uids # <<>> /\ Last(uids) = x /\ x \in ToSet(uids)
        <4>1. uids = Uids(k) /\ x = Len(counted) + 1 /\ Uids(k) = Append(Kept(k), x)
          BY DEF Uids
        <4>2. /\ Kept(k) \in Seq(Nat) /\ Uids(k) \in Seq(Nat) /\ Uids(k) # <<>>
              /\ Len(Uids(k)) = Len(Kept(k)) + 1 /\ Last(Uids(k)) = x /\ x \in ToSet(Uids(k))
          BY <4>1, UidsOfKey
        <4> HIDE DEF uids, x
        <4> QED BY <4>1, <4>2
      <3>2. FlowsOf(k)' = FlowsOf(k) \cup {x} /\ Unreported(k)' \subseteq Unreported(k) \cup {x}
        BY <1>2, UnreportedNext
      <3>3. ReportsAll(k) => x \notin Unreported(k)'
        BY <1>2, <3>1, UnreportedNext
      <3> DEFINE keeps == Kept(k)' = uids /\ Len(uids) <= 2
                 drops == Kept(k)' = Tail(uids) /\ Len(uids) = 3 /\ TimeApart(counted', uids[1], x) > Span["smtp"]
                 reports == Kept(k)' = <<>> /\ ReportsAll(k)
      <3>4. keeps \/ drops \/ reports
        BY <1>2, <2>5, SmtpOutcome
      <3> HIDE DEF uids, x
      \* The last two logins before this one, or the last one.
      <3>5. ASSUME NEW u \in Unreported(k)', LastLeft(k, u)'
            PROVE  u = x
        <4>1. x <= u
          BY <3>2, <3>5 DEF LastLeft
        <4> QED BY <2>2, <2>3, <2>5, <3>2, <4>1
      <3>6. ASSUME NEW u \in Unreported(k)', NEW v, v = x, LastTwoLeft(k, u, v)'
            PROVE  Kept(k) # <<>> /\ Last(Kept(k)) = u
        <4>1. u < x /\ \A y \in FlowsOf(k) : u <= y => y \in {u, x}
          BY <3>2, <3>6 DEF LastTwoLeft
        <4>2. u \in Unreported(k)
          BY <2>2, <3>2, <4>1
        <4>3. \A y \in FlowsOf(k) : y <= u
          BY <2>2, <2>3, <2>5, <4>1, <4>2
        <4> QED BY <2>1, <2>5, <4>2, <4>3 DEF LastLeft
      <3>7. Len(Kept(k)') <= 2 /\ (x \in Unreported(k)' => Kept(k)' # <<>> /\ Last(Kept(k)') = x)
        <4>1. CASE keeps
          BY <3>1, <4>1
        <4>2. CASE drops
          <5>1. Len(Tail(uids)) = 2 /\ Tail(uids)[2] = uids[3]
            BY <3>1, <4>2, TailOfThree
          <5>2. uids[3] = x
            BY <3>1, <4>2 DEF Last
          <5>3. Len(<<>>) = 0
            OBVIOUS
          <5>4. Kept(k)' = Tail(uids)
            BY <4>2
          <5> DEFINE r == Tail(uids)
          <5> HIDE DEF r
          <5>5. Len(r) = 2 /\ r[2] = x
            BY <5>1, <5>2 DEF r
          <5>6. r # <<>> /\ Last(r) = x
            BY <5>3, <5>5 DEF Last
          <5> QED BY <5>4, <5>5, <5>6 DEF r
        <4>3. CASE reports
          <5>1. Len(<<>>) = 0
            OBVIOUS
          <5> QED BY <3>3, <4>3, <5>1
        <4> HIDE DEF keeps, drops, reports
        <4> QED BY <3>4, <4>1, <4>2, <4>3
      <3>8. ASSUME NEW u \in Unreported(k)', NEW v \in Unreported(k)', LastTwoLeft(k, u, v)'
            PROVE  Kept(k)' = <<u, v>>
        <4>1. v = x
          BY <3>5, <3>8 DEF LastTwoLeft
        <4>2. Kept(k) # <<>> /\ Last(Kept(k)) = u
          BY <3>6, <3>8, <4>1
        <4>3. CASE keeps
          <5>1. Len(Kept(k)) = 1
            <6>1. Len(Kept(k)) # 0
              BY <4>2, NoneKept
            <6>2. Len(uids) <= 2
              BY <4>3
            <6>3. Len(Kept(k)) \in Nat /\ Len(uids) = Len(Kept(k)) + 1
              BY <3>1
            <6> DEFINE a == Len(Kept(k))  b == Len(uids)
            <6> HIDE DEF keeps, drops, reports, a, b
            <6>4. a # 0 /\ b <= 2 /\ a \in Nat /\ b = a + 1
              BY <6>1, <6>2, <6>3, Zenon DEF a, b
            <6>5. a = 1
              BY <6>4
            <6> QED BY <6>5 DEF a
          <5>2. Kept(k)[1] = u
            BY <4>2, <5>1 DEF Last
          <5>3. uids \in Seq(Nat) /\ Len(uids) = 2 /\ uids[1] = u /\ uids[2] = x
            BY <2>2, <3>1, <5>1, <5>2
          <5> DEFINE r == uids
          <5> HIDE DEF r, keeps, drops, reports
          <5>4. r \in Seq(Nat) /\ Len(r) = 2 /\ r[1] = u /\ r[2] = x
            BY <5>3 DEF r
          <5>5. r = <<u, x>>
            BY <5>4
          <5> QED BY <4>1, <4>3, <5>5 DEF r, keeps
        <4>4. CASE drops
          <5>1. Len(Kept(k)) = 2 /\ Kept(k)[2] = u
            <6>1. Len(uids) = 3
              BY <4>4
            <6>2. Len(Kept(k)) \in Nat /\ Len(uids) = Len(Kept(k)) + 1
              BY <3>1
            <6>3. Len(Kept(k)) = 2
              <7> DEFINE a == Len(Kept(k))  b == Len(uids)
              <7> HIDE DEF keeps, drops, reports, a, b
              <7>1. b = 3 /\ a \in Nat /\ b = a + 1
                BY <6>1, <6>2, Zenon DEF a, b
              <7>2. a = 2
                BY <7>1
              <7> QED BY <7>2 DEF a
            <6> QED BY <4>2, <6>3 DEF Last
          <5>2. uids[2] = u /\ uids[3] = x /\ x \in Nat /\ u \in Nat
            BY <2>2, <3>1, <5>1
          <5>3. /\ Len(Tail(uids)) = 2 /\ DOMAIN Tail(uids) = 1..2
                /\ Tail(uids)[1] = u /\ Tail(uids)[2] = x /\ Tail(uids) \in Seq(Nat)
            <6>1. Len(uids) = 3
              BY <4>4
            <6> QED BY <3>1, <5>2, <6>1, TailOfThree
          <5> DEFINE r == Tail(uids)
          <5> HIDE DEF r
          <5>4. r \in Seq(Nat) /\ Len(r) = 2 /\ r[1] = u /\ r[2] = x
            BY <5>3 DEF r
          <5>5. r = <<u, x>>
            BY <5>4
          <5> QED BY <4>1, <4>4, <5>5 DEF r
        <4>5. CASE reports
          BY <3>3, <3>8, <4>1, <4>5
        <4> HIDE DEF keeps, drops, reports
        <4> QED BY <3>4, <4>3, <4>4, <4>5
      <3>9. ASSUME NEW u \in Unreported(k)', NEW v \in Unreported(k)', NEW w \in Unreported(k)',
                   u < v, v < w, {y \in FlowsOf(k)' : u <= y /\ y <= w} = {u, v, w}
            PROVE  TimeApart(counted', u, w) > Span["smtp"]
        <4>1. \A y \in Unreported(k)' : y \in Nat /\ y <= x /\ (y # x => y < x /\ y \in Unreported(k) /\ y \in 1..Len(counted))
          BY <2>2, <2>3, <2>5, <3>2
        <4>2. CASE w # x
          <5>1. u \in Unreported(k) /\ v \in Unreported(k) /\ w \in Unreported(k) /\ w < x
            BY <3>9, <4>1, <4>2
          <5>2. {y \in FlowsOf(k) : u <= y /\ y <= w} = {u, v, w}
            BY <3>2, <3>9, <4>1, <5>1, <2>2
          <5>3. TimeApart(counted, u, w) > Span["smtp"]
            BY <2>1, <2>5, <3>9, <5>1, <5>2 DEF LoginsTooSlow
          <5>4. TimeApart(counted', u, w) = TimeApart(counted, u, w)
            BY <1>2, <2>3, <2>5, <5>1, SameTimes
          <5> QED BY <5>3, <5>4
        <4>3. CASE w = x
          <5>1. u \in Unreported(k) /\ v \in Unreported(k) /\ v < x /\ u < x /\ u \in Nat /\ v \in Nat
            BY <3>9, <4>1, <4>3
          <5>2. \A y \in FlowsOf(k) : y < x /\ y \in Nat
            BY <2>2, <2>3, <2>5
          <5>3. \A y \in FlowsOf(k) : u <= y => y \in {u, v}
            <6> SUFFICES ASSUME NEW y \in FlowsOf(k), u <= y PROVE y \in {u, v}
              OBVIOUS
            <6>1. y < x /\ y \in FlowsOf(k)' /\ y <= w
              BY <2>2, <3>2, <4>3, <5>2
            <6>2. y \in {u, v, w}
              BY <3>9, <6>1
            <6> QED BY <2>2, <4>3, <6>1, <6>2
          <5>4. \A y \in FlowsOf(k) : y <= v
            BY <3>9, <5>1, <5>2, <5>3
          <5>5. LastTwoLeft(k, u, v)
            BY <3>9, <5>1, <5>3, <5>4 DEF LastTwoLeft, LastLeft
          <5>6. Kept(k) = <<u, v>>
            BY <2>1, <2>5, <5>1, <5>5
          <5>7. Len(Kept(k)) = 2 /\ uids[1] = u
            BY <2>2, <3>1, <5>1, <5>6
          <5>8. drops
            BY <3>1, <3>3, <3>4, <3>9, <4>3, <5>7
          <5> QED BY <4>3, <5>7, <5>8
        <4> QED BY <4>2, <4>3
      <3>10. LoginsTooSlow(k)'
        BY <3>9 DEF LoginsTooSlow
      <3> QED BY <2>5, <3>5, <3>7, <3>8, <3>10 DEF LastLeft
    <2> QED BY <2>4, <2>5
  <1> QED BY <1>1, <1>2 DEF CountNext

-----------------------------------------------------------------------------
\* SSH: as many uids are kept as logins of the key came last in a row.
SshInv ==
    kind = "ssh" =>
        \A k \in CountKeys :
            /\ \A m \in 1..Len(counted) :
                  m..Len(counted) \subseteq FlowsOf(k) => Len(counted) - m < Len(Kept(k))
            /\ GuessesRaise(k)

LEMMA SshStep == CountTypeOK /\ KeptInv /\ SshInv /\ [CountNext]_cvars => SshInv'
  <1> SUFFICES ASSUME CountTypeOK, KeptInv, SshInv, [CountNext]_cvars
               PROVE  SshInv'
    OBVIOUS
  <1>1. CASE UNCHANGED cvars
    BY <1>1 DEF cvars, SshInv, GuessesRaise, FlowsOf, Kept
  <1>2. ASSUME NEW k \in CountKeys, NEW n \in QueryNames, NEW t \in 0..MaxClock, Analyze(k, n, t)
        PROVE  SshInv'
    <2> DEFINE x == Len(counted) + 1  uids == Uids(k)  N == CountThreshold["ssh"]
    <2>1. kind' = kind /\ Len(counted') = x /\ Len(counted) \in Nat /\ x \in Nat /\ N \in Nat \ {0}
      <3>1. kind' = kind /\ Len(counted') = x /\ Len(counted) \in Nat
        BY <1>2, Counting
      <3>2. N \in Nat \ {0}
        BY CountAssumption DEF Counters
      <3> QED BY <3>1, <3>2
    <2> SUFFICES ASSUME kind = "ssh", NEW j \in CountKeys
                 PROVE  /\ \A m \in 1..x : m..x \subseteq FlowsOf(j)' => x - m < Len(Kept(j)')
                        /\ GuessesRaise(j)'
      BY <2>1 DEF SshInv
    <2>2. Ssh(k, uids)
      BY <1>2, OneAnalyzer
    <2>3. /\ Kept(k)' = uids
          /\ crashed' = IF Len(uids) >= N THEN crashed \cup {x} ELSE crashed
          /\ Len(uids) = Len(Kept(k)) + 1 /\ Len(Kept(k)) \in Nat
      <3>1. Last(uids) = x /\ Len(uids) = Len(Kept(k)) + 1 /\ Len(Kept(k)) \in Nat
        BY UidsOfKey
      <3>2. Kept(k)' = uids
        BY <2>2 DEF Ssh, Store, Kept
      <3> QED BY <2>2, <3>1, <3>2 DEF Ssh
    <2>4. /\ FlowsOf(k)' = FlowsOf(k) \cup {x} /\ FlowsOf(j) \subseteq 1..Len(counted)
          /\ j # k => FlowsOf(j)' = FlowsOf(j)
      BY <1>2, UnreportedNext DEF FlowsOf
    <2>5. /\ \A m \in 1..Len(counted) : m..Len(counted) \subseteq FlowsOf(j) => Len(counted) - m < Len(Kept(j))
          /\ GuessesRaise(j)
      BY DEF SshInv
    <2> HIDE DEF uids, x, N
    <2>6. x = Len(counted) + 1 /\ x \notin 1..Len(counted)
      BY <2>1 DEF x
    <2>7. ASSUME NEW m \in 1..x, m..x \subseteq FlowsOf(j)'
          PROVE  j = k /\ x - m < Len(uids)
      <3>1. x \in m..x
        BY <2>1
      <3>2. j = k
        BY <2>4, <2>6, <2>7, <3>1
      <3>3. CASE m = x
        BY <2>1, <2>3, <3>2, <3>3
      <3>4. CASE m # x
        <4>1. m \in 1..Len(counted)
          BY <2>1, <2>6, <3>4
        <4>2. m..Len(counted) \subseteq FlowsOf(k)
          BY <2>1, <2>4, <2>6, <2>7, <3>2
        <4>3. Len(counted) - m < Len(Kept(k))
          BY <2>5, <3>2, <4>1, <4>2
        <4> QED BY <2>1, <2>3, <2>6, <3>2, <4>1, <4>3
      <3> QED BY <3>3, <3>4
    <2>8. ASSUME NEW u \in FlowsOf(j)',
                 \A v \in 1..x : v <= u /\ u < v + N => v \in FlowsOf(j)'
          PROVE  u < N \/ u \in crashed'
      <3>1. CASE u # x
        <4>1. u \in FlowsOf(j) /\ u \in 1..Len(counted)
          BY <2>4, <3>1
        <4>2. \A v \in 1..Len(counted) : v <= u /\ u < v + N => v \in FlowsOf(j)
          BY <2>1, <2>4, <2>6, <2>8
        <4>3. u < N \/ u \in crashed
          BY <2>5, <4>1, <4>2 DEF GuessesRaise, N
        <4> QED BY <2>3, <4>3
      <3>2. CASE u = x /\ x >= N
        <4> DEFINE m == x - N + 1
        <4>1. m \in 1..x
          BY <2>1, <3>2
        <4>2. \A v \in m..x : v \in 1..x /\ v <= u /\ u < v + N
          BY <2>1, <3>2
        <4>3. m..x \subseteq FlowsOf(j)'
          BY <2>8, <4>2
        <4>4. j = k /\ x - m < Len(uids)
          BY <2>7, <4>1, <4>3
        <4>5. Len(uids) >= N
          BY <2>1, <2>3, <4>4
        <4> QED BY <2>3, <3>2, <4>5
      <3>3. CASE u = x /\ x < N
        BY <3>3
      <3> QED BY <2>1, <3>1, <3>2, <3>3
    <2>9. GuessesRaise(j)'
      BY <2>1, <2>8 DEF GuessesRaise, N
    <2>10. ASSUME NEW m \in 1..x, m..x \subseteq FlowsOf(j)'
           PROVE  x - m < Len(Kept(j)')
      <3>1. j = k /\ x - m < Len(uids)
        BY <2>7, <2>10
      <3> QED BY <2>3, <3>1
    <2> QED BY <2>9, <2>10
  <1> QED BY <1>1, <1>2 DEF CountNext

\* Whatever the order and the times of the flows of all keys, no counter of Flow
\* Alerts lets its threshold pass: what is left unreported of a key is short of
\* it, ARPA scans and bad SMTP logins that are left were too slow, and failed SSH
\* logins in a row end in the call that raises; for any keys, names, thresholds,
\* spans and bounds.
THEOREM NoThresholdPassedInSilence == CountSpec => []ThresholdReported
  <1> DEFINE Inv == /\ CountTypeOK /\ KeptInv /\ EachFlowInOneEvidence
                    /\ AllKept /\ ArpaInv /\ SmtpInv /\ SshInv
  <1>1. CountInit => Inv
    <2> SUFFICES ASSUME CountInit
                 PROVE  KeptInv /\ EachFlowInOneEvidence /\ AllKept /\ ArpaInv /\ SmtpInv /\ SshInv
      BY CountTypeInit
    <2>1. KeptInv /\ EachFlowInOneEvidence
      BY DEF CountInit, KeptInv, EachFlowInOneEvidence
    <2>2. \A k : Kept(k) = <<>> /\ Unreported(k) = {} /\ FlowsOf(k) = {}
      BY DEF CountInit, Kept, Unreported, FlowsOf
    <2>3. AllKept
      BY <2>2, CountAssumption, SMTT(15) DEF AllKept, KeepAllKinds, Counters
    <2>4. ArpaInv
      <3>1. ToSet(<<>>) = {}
        BY DEF ToSet
      <3> QED BY <2>2, <3>1 DEF ArpaInv, ScansTooSlow
    <2>5. SmtpInv
      <3>1. Len(<<>>) = 0
        OBVIOUS
      <3> QED BY <2>2, <3>1 DEF SmtpInv, LoginsTooSlow
    <2>6. SshInv
      <3>1. Len(counted) = 0 /\ 1..0 = {}
        BY DEF CountInit
      <3> QED BY <2>2, <3>1 DEF SshInv, GuessesRaise
    <2> QED BY <2>1, <2>3, <2>4, <2>5, <2>6
  <1>2. Inv /\ [CountNext]_cvars => Inv'
    BY CountTypeStep, OneEvidenceStep, AllKeptStep, ArpaStep, SmtpStep, SshStep
  <1>3. Inv => ThresholdReported
    BY FewUnreported DEF ThresholdReported, KeepAllKinds, ArpaInv, SmtpInv, SshInv
  <1> QED BY <1>1, <1>2, <1>3, PTL DEF CountSpec

-----------------------------------------------------------------------------
(* FlowEvidence.                                                           *)

\* Each flow let pass is a counted reply, and the count reaches the number of
\* answers for the detected server only.
PassInv ==
    /\ replies \in [FlowIPs -> Nat] /\ letPass \in [FlowIPs -> Nat] /\ dnsIP \in FlowIPs \cup {None}
    /\ toAnalyze # {} => flow.daddr \in FlowIPs
    /\ \A ip \in FlowIPs :
          /\ letPass[ip] <= replies[ip]
          /\ replies[ip] < DnsReplies \/ (ip = dnsIP /\ replies[ip] = DnsReplies)

LEMMA PassStep == PassInv /\ [FlowNext]_fvars => PassInv'
  <1> SUFFICES ASSUME PassInv, [FlowNext]_fvars
               PROVE  PassInv'
    OBVIOUS
  <1>1. CASE UNCHANGED fvars
    BY <1>1 DEF fvars, PassInv
  <1>2. ASSUME NEW s \in FlowIPs, NEW d \in FlowIPs, NEW ts \in TraitSets, NewFlow(s, d, ts)
        PROVE  PassInv'
    BY <1>2 DEF NewFlow, PassInv
  <1>3. CASE AnalyzeDns
    <2>1. /\ flow' = flow /\ flow.daddr \in FlowIPs
          /\ replies' = IF CountsReply THEN [replies EXCEPT ![flow.daddr] = @ + 1] ELSE replies
          /\ dnsIP' = IF replies'[flow.daddr] >= DnsReplies /\ dnsIP = None THEN flow.daddr ELSE dnsIP
          /\ letPass' = IF Passes THEN [letPass EXCEPT ![flow.daddr] = @ + 1] ELSE letPass
      BY <1>3 DEF AnalyzeDns, PassInv
    <2>2. Passes => CountsReply
      BY DEF Passes, CountsReply, JudgesServer, DnsLocalnet
    <2>3. CountsReply => dnsIP = None
      BY DEF CountsReply, PossibleMisconfiguration
    <2>4. replies' \in [FlowIPs -> Nat] /\ letPass' \in [FlowIPs -> Nat]
      BY <2>1 DEF PassInv
    <2>5. \A ip \in FlowIPs : letPass'[ip] <= replies'[ip]
      BY <2>1, <2>2 DEF PassInv
    <2>6. ASSUME NEW ip \in FlowIPs
          PROVE  replies'[ip] < DnsReplies \/ (ip = dnsIP' /\ replies'[ip] = DnsReplies)
      <3>1. CASE ~CountsReply
        <4>1. replies' = replies
          BY <2>1, <3>1
        <4>2. dnsIP' = dnsIP
          <5>1. replies[flow.daddr] < DnsReplies \/ flow.daddr = dnsIP
            BY <2>1 DEF PassInv
          <5> QED BY <2>1, <4>1, <5>1, FlowAssumption DEF PassInv
        <4> QED BY <4>1, <4>2 DEF PassInv
      <3>2. CASE CountsReply
        <4>1. dnsIP = None /\ \A i \in FlowIPs : replies[i] \in Nat /\ replies[i] < DnsReplies
          BY <2>3, <3>2, FlowAssumption DEF PassInv
        <4>2. replies' = [replies EXCEPT ![flow.daddr] = replies[flow.daddr] + 1] /\ replies \in [FlowIPs -> Nat]
          BY <2>1, <3>2 DEF PassInv
        <4>3. CASE ip = flow.daddr
          <5>1. replies'[ip] = replies[ip] + 1 /\ (replies'[ip] >= DnsReplies => dnsIP' = ip)
            BY <2>1, <4>1, <4>2, <4>3
          <5> QED BY <4>1, <5>1, FlowAssumption
        <4>4. CASE ip # flow.daddr
          BY <4>1, <4>2, <4>4
        <4> QED BY <4>3, <4>4
      <3> QED BY <3>1, <3>2
    <2> QED BY <1>3, <2>1, <2>4, <2>5, <2>6 DEF PassInv, AnalyzeDns
  <1>4. CASE AnalyzeConn \/ AnalyzeSsl \/ AnalyzeOther \/ FlowTwClosed
    BY <1>4 DEF AnalyzeConn, AnalyzeSsl, AnalyzeOther, FlowTwClosed, PassInv
  <1> QED BY <1>1, <1>2, <1>3, <1>4 DEF FlowNext

\* However the DNS flows to private servers outside the local network
\* alternate, one of them is let pass as often as it takes to detect it, the
\* others less often, and none ever after, for any addresses, traits, gateway
\* and number of answers.
THEOREM FewDnsAnswersPass == FlowSpec => []FewAnswersPass
  <1>1. FlowInit => PassInv
    BY FlowAssumption DEF FlowInit, PassInv
  <1>2. PassInv => FewAnswersPass
    BY FlowAssumption DEF PassInv, FewAnswersPass
  <1> QED BY <1>1, <1>2, PassStep, PTL DEF FlowSpec

-----------------------------------------------------------------------------
(* HttpAnalyzer.                                                           *)

\* The first user agent of a profile is in its history, and the count is that
\* of the history.
HistoryInv ==
    \A p \in Profiles :
        /\ first[p] # None => first[p].agent \in past[p]
        /\ IsFiniteSet(past[p]) /\ count[p] = Cardinality(past[p])

HttpDomains ==
    DOMAIN first = Profiles /\ past \in [Profiles -> SUBSET Agents] /\ count \in [Profiles -> Nat]

HttpInv == HttpDomains /\ HistoryInv

\* What one HTTP flow of p does to its first agent and its history.
LEMMA HttpFlow ==
    ASSUME HttpInv, NEW p \in Profiles, NEW agent \in Agents, NEW hints, NEW online \in BOOLEAN,
           NewHttp(p, agent, hints, online)
    PROVE  /\ HttpInv'
           /\ FirstAgentKept
  <1> DEFINE ua == FromServerBag(p, agent, FirstAgent(p, agent, online))
             new == GetsInfo(p, agent) /\ agent \notin past[p]
  <1>1. first' = [first EXCEPT ![p] = ua]
    BY DEF NewHttp
  <1>2. /\ first[p] # None => ua = first[p]
        /\ first[p] = None /\ agent = None => ua = None
        /\ first[p] = None /\ agent # None => ua.agent = agent /\ GetsInfo(p, agent)
    BY DEF FromServerBag, FirstAgent, OnlineInfo, GetsInfo
  <1>3. /\ new => /\ past' = [past EXCEPT ![p] = @ \cup {agent}]
                  /\ count' = [count EXCEPT ![p] = @ + 1]
        /\ ~new => past' = past /\ count' = count
    BY DEF NewHttp, AddPast
  <1> HIDE DEF ua
  <1>4. /\ first'[p] = ua /\ \A q \in Profiles \ {p} : first'[q] = first[q] /\ past'[q] = past[q] /\ count'[q] = count[q]
        /\ DOMAIN first' = Profiles
    BY <1>1, <1>3 DEF HttpInv, HttpDomains
  <1>5. /\ new => past'[p] = past[p] \cup {agent} /\ count'[p] = count[p] + 1
        /\ ~new => past'[p] = past[p] /\ count'[p] = count[p]
    BY <1>3 DEF HttpInv, HttpDomains
  <1>6. past' \in [Profiles -> SUBSET Agents] /\ count' \in [Profiles -> Nat]
    BY <1>3 DEF HttpInv, HttpDomains
  <1>7. IsFiniteSet(past'[p]) /\ count'[p] = Cardinality(past'[p])
    <2>1. IsFiniteSet(past[p]) /\ count[p] = Cardinality(past[p])
      BY DEF HttpInv, HistoryInv
    <2>2. new => IsFiniteSet(past[p] \cup {agent}) /\ Cardinality(past[p] \cup {agent}) = Cardinality(past[p]) + 1
      BY <2>1, FS_AddElement
    <2> QED BY <1>5, <2>1, <2>2
  <1>8. first'[p] # None => first'[p].agent \in past'[p]
    <2>1. CASE first[p] # None
      <3>1. first[p].agent \in past[p]
        BY <2>1 DEF HttpInv, HistoryInv
      <3> QED BY <1>2, <1>4, <1>5, <2>1, <3>1
    <2>2. CASE first[p] = None
      BY <1>2, <1>4, <1>5, <2>2
    <2> QED BY <2>1, <2>2
  <1>9. HistoryInv'
    BY <1>4, <1>7, <1>8 DEF HttpInv, HistoryInv
  <1>10. \A q \in Profiles : first[q] # None => first'[q] = first[q]
    BY <1>2, <1>4
  <1> QED BY <1>4, <1>6, <1>9, <1>10 DEF HttpInv, HttpDomains, HistoryInv, FirstAgentKept

\* The first user agent of a profile is never replaced, it is in the history of
\* its agents, and the history counts each agent once: with any agents, online
\* answers and server bags, however the flows interleave.
THEOREM FirstAgentNeverReplaced == HttpSpec => FirstAgentStands
  <1>1. HttpInit => HttpInv
    BY FS_EmptySet DEF HttpInit, HttpInv, HttpDomains, HistoryInv
  <1>2. HttpInv /\ [HttpNext]_hvars => HttpInv' /\ [FirstAgentKept]_hvars
    <2>1. CASE UNCHANGED hvars
      BY <2>1 DEF hvars, HttpInv, HttpDomains, HistoryInv
    <2>2. HttpInv /\ HttpNext => HttpInv' /\ FirstAgentKept
      BY HttpFlow DEF HttpNext
    <2> QED BY <2>1, <2>2
  <1> QED BY <1>1, <1>2, PTL DEF HttpSpec, FirstAgentStands

-----------------------------------------------------------------------------
(* DelayedChecks.                                                          *)

\* A task that looks for recognised flows found none within the window before
\* its flow: those that are there now were recorded while it slept.
DelayedTasks == [kind : TaskKinds, ip : CheckedIPs, ts : Nat]
LookedBack ==
    /\ flowTime \in Nat /\ tasks \subseteq DelayedTasks
    /\ recognised \in [Protos -> [CheckedIPs -> SUBSET Nat]]
    /\ \A t \in tasks : t.kind \in Protos =>
          \A u \in recognised[t.kind][t.ip] :
              u < t.ts => u + Window < t.ts \/ <<u, t>> \in outOfOrder

\* Waking up leaves it true, and so does a new task of another kind.
LEMMA LookedBackKept ==
    ASSUME LookedBack, UNCHANGED <<flowTime, recognised, outOfOrder>>,
           \A t \in tasks' : t \in tasks \/ (t \in DelayedTasks /\ t.kind \notin Protos)
    PROVE  LookedBack'
  BY DEF LookedBack

\* An evidence is about the flow it was set for.
LEMMA ReportOf ==
    ASSUME NEW c, NEW ip, NEW ts, ReportDelayed(c, ip, ts)
    PROVE  \A r \in lastReport' : r.kind = c /\ r.ip = ip /\ r.ts = ts
  <1> DEFINE S == {c}  I == {ip}  T == {ts}
  <1>1. lastReport' = [kind : S, ip : I, ts : T, of : Ends(c)]
    BY DEF ReportDelayed
  <1> HIDE DEF S, I, T
  <1>2. \A r \in lastReport' : r.kind \in S /\ r.ip \in I /\ r.ts \in T
    BY <1>1
  <1> QED BY <1>2 DEF S, I, T

LEMMA DelayedStep ==
    LookedBack /\ [DelayedNext]_dvars => LookedBack' /\ (lastReport' # lastReport => OnlyUnrecognised)
  <1> SUFFICES ASSUME LookedBack, [DelayedNext]_dvars
               PROVE  LookedBack' /\ (lastReport' # lastReport => OnlyUnrecognised)
    OBVIOUS
  <1> DEFINE quiet == lastReport' = lastReport
             same == UNCHANGED <<flowTime, recognised, outOfOrder>>
  <1>1. CASE UNCHANGED dvars \/ Run \/ AskToEnd \/ StopFlowAlerts \/ LastFlow \/ CheckDnsPending
    <2>1. same /\ quiet /\ tasks' \subseteq tasks
      BY <1>1 DEF dvars, Run, AskToEnd, StopFlowAlerts, LastFlow, CheckDnsPending, read
    <2> QED BY <2>1, LookedBackKept
  <1>2. CASE NextFlow
    <2>1. flowTime' \in Nat /\ UNCHANGED <<tasks, recognised, outOfOrder, lastReport>>
      BY <1>2, WindowAssumption DEF NextFlow
    <2> QED BY <2>1 DEF LookedBack
  <1>3. ASSUME NEW ip \in CheckedIPs,
               ReadConn(ip) \/ DnsWithoutConn(ip)
        PROVE  LookedBack' /\ quiet
    <2>1. same /\ quiet /\ tasks' = tasks
      BY <1>3 DEF ReadConn, DnsWithoutConn, read
    <2> HIDE DEF quiet
    <2> QED BY <2>1, LookedBackKept
  <1>4. ASSUME NEW ip \in CheckedIPs, NEW c \in NeedsConn, WaitForConn(c, ip)
        PROVE  LookedBack' /\ OnlyUnrecognised
    <2>1. same
      BY <1>4 DEF WaitForConn, read
    <2>2. c \notin Protos
      BY DEF NeedsConn, Protos
    <2>3. tasks' = tasks \/ tasks' = tasks \cup {[kind |-> c, ip |-> ip, ts |-> flowTime]}
      BY <1>4 DEF WaitForConn, Sleep
    <2>4. \A r \in lastReport' \ lastReport : r.kind = c
      BY <1>4, ReportOf DEF WaitForConn, Judge
    <2>5. [kind |-> c, ip |-> ip, ts |-> flowTime] \in DelayedTasks
      BY DEF LookedBack, DelayedTasks, TaskKinds
    <2> QED BY <2>1, <2>2, <2>3, <2>4, <2>5, LookedBackKept DEF OnlyUnrecognised
  <1>5. ASSUME NEW ip \in CheckedIPs, NEW p \in Protos, LookBack(p, ip)
        PROVE  LookedBack' /\ quiet
    <2> DEFINE new == [kind |-> p, ip |-> ip, ts |-> flowTime]
    <2>1. same /\ quiet /\ tasks' = tasks \cup {new} /\ Past(p, ip, flowTime) = {}
      BY <1>5 DEF LookBack, Sleep, read
    <2>2. \A u \in recognised[p][ip] : u \in Nat
      BY DEF LookedBack
    <2>3. flowTime \in Nat
      BY DEF LookedBack
    <2>4. ASSUME NEW u \in recognised[p][ip], u < flowTime
          PROVE  u + Window < flowTime
      BY <2>1, <2>2, <2>3, <2>4, WindowAssumption DEF Past, Matching
    <2>5. new \in DelayedTasks /\ new.kind = p /\ new.ip = ip /\ new.ts = flowTime
      BY <2>3 DEF DelayedTasks, TaskKinds
    <2> HIDE DEF new
    <2> QED BY <2>1, <2>3, <2>4, <2>5 DEF LookedBack
  <1>6. ASSUME NEW ip \in CheckedIPs, NEW p \in Protos, KeepTrack(p, ip)
        PROVE  LookedBack' /\ quiet
    <2>1. /\ UNCHANGED <<flowTime, tasks, lastReport>>
          /\ recognised' = [recognised EXCEPT ![p][ip] = @ \cup {flowTime}]
          /\ outOfOrder' = outOfOrder \cup ({flowTime} \X Overtaken(p, ip, flowTime))
      BY <1>6 DEF KeepTrack, read
    <2>2. /\ recognised' \in [Protos -> [CheckedIPs -> SUBSET Nat]]
          /\ \A q \in Protos, i \in CheckedIPs : \A u \in recognised'[q][i] :
                u \in recognised[q][i] \/ (q = p /\ i = ip /\ u = flowTime)
      BY <2>1 DEF LookedBack
    <2>3. ASSUME NEW t \in tasks, t.kind \in Protos, NEW u \in recognised'[t.kind][t.ip], u < t.ts
          PROVE  u + Window < t.ts \/ <<u, t>> \in outOfOrder'
      <3>1. t.ip \in CheckedIPs
        BY DEF LookedBack, DelayedTasks
      <3>2. CASE u \in recognised[t.kind][t.ip]
        BY <2>1, <2>3, <3>2 DEF LookedBack
      <3>3. CASE t.kind = p /\ t.ip = ip /\ u = flowTime
        <4>1. t \in Overtaken(p, ip, flowTime)
          BY <2>3, <3>3 DEF Overtaken
        <4> QED BY <2>1, <3>3, <4>1
      <3> QED BY <2>2, <2>3, <3>1, <3>2, <3>3
    <2> QED BY <2>1, <2>2, <2>3 DEF LookedBack
  <1>7. ASSUME NEW p \in Protos, Cleanup(p)
        PROVE  LookedBack' /\ quiet
    <2>1. /\ UNCHANGED <<flowTime, tasks, lastReport, outOfOrder>>
          /\ recognised' = [recognised EXCEPT ![p] = [ip \in CheckedIPs |-> @[ip] \ Garbage(@[ip])]]
      BY <1>7 DEF Cleanup, read
    <2>2. /\ recognised' \in [Protos -> [CheckedIPs -> SUBSET Nat]]
          /\ \A q \in Protos, i \in CheckedIPs : recognised'[q][i] \subseteq recognised[q][i]
      BY <2>1 DEF LookedBack
    <2> QED BY <2>1, <2>2 DEF LookedBack, DelayedTasks
  <1>8. ASSUME NEW t \in tasks, Resume(t)
        PROVE  LookedBack' /\ OnlyUnrecognised
    <2>1. same /\ tasks' \subseteq tasks
      BY <1>8 DEF Resume, read
    <2>2. CASE ResumeWithConn(t)
      <3>1. t.kind \notin Protos
        BY <2>2 DEF ResumeWithConn, NeedsConn, Protos
      <3>2. \A r \in lastReport' \ lastReport : r.kind = t.kind
        BY <2>2, ReportOf DEF ResumeWithConn, Judge
      <3> QED BY <2>1, <3>1, <3>2, LookedBackKept DEF OnlyUnrecognised
    <2>3. CASE LookAhead(t)
      <3>1. \A r \in lastReport' \ lastReport : /\ r.kind = t.kind /\ r.ip = t.ip /\ r.ts = t.ts
                                               /\ Future(t.kind, t.ip, t.ts) = {}
        BY <2>3, ReportOf DEF LookAhead
      <3>2. t.kind \in Protos
        BY <2>3 DEF LookAhead
      <3>3. ASSUME NEW u \in recognised[t.kind][t.ip], Future(t.kind, t.ip, t.ts) = {}
            PROVE  \/ u + Window < t.ts \/ u > t.ts + Window
                   \/ u < t.ts /\ <<u, [kind |-> t.kind, ip |-> t.ip, ts |-> t.ts]>> \in outOfOrder
        <4>1. t \in DelayedTasks
          BY DEF LookedBack
        <4>2. t.ts \in Nat /\ t.ip \in CheckedIPs /\ t = [kind |-> t.kind, ip |-> t.ip, ts |-> t.ts]
          BY <4>1 DEF DelayedTasks
        <4>3. u \in Nat /\ (u < t.ts => u + Window < t.ts \/ <<u, t>> \in outOfOrder)
          BY <3>2, <4>2 DEF LookedBack
        <4>4. ~(t.ts <= u /\ u <= t.ts + Window)
          BY <3>3 DEF Future, Matching
        <4>5. u < t.ts \/ u > t.ts + Window
          BY <4>2, <4>3, <4>4, WindowAssumption
        <4> QED BY <4>2, <4>3, <4>5
      <3> QED BY <2>1, <3>1, <3>3, LookedBackKept DEF OnlyUnrecognised
    <2> QED BY <1>8, <2>2, <2>3 DEF Resume
  <1> HIDE DEF quiet, same
  <1>9. ASSUME NEW ip \in CheckedIPs,
               \/ CheckSuccessfulSsh(ip) \/ CheckPastebinDownload(ip) \/ CheckWeirdHttpMethod(ip)
               \/ CheckNonSslPort443(ip) \/ CheckNonHttpPort80(ip)
               \/ KeepTrackOfSsl(ip) \/ KeepTrackOfHttp(ip)
        PROVE  LookedBack' /\ (OnlyUnrecognised \/ quiet)
    BY <1>4, <1>5, <1>6, <1>9
       DEF CheckSuccessfulSsh, CheckPastebinDownload, CheckWeirdHttpMethod, CheckNonSslPort443,
           CheckNonHttpPort80, KeepTrackOfSsl, KeepTrackOfHttp, NeedsConn, Protos
  <1>10. RemoveOldSslEntries \/ RemoveOldHttpEntries => LookedBack' /\ quiet
    BY <1>7 DEF RemoveOldSslEntries, RemoveOldHttpEntries, Protos
  <1>11. LookedBack' /\ (OnlyUnrecognised \/ quiet)
    <2>1. NextFlow => quiet
      BY DEF NextFlow, quiet
    <2>2. UNCHANGED dvars \/ Run \/ AskToEnd \/ StopFlowAlerts \/ LastFlow \/ CheckDnsPending => quiet
      BY DEF dvars, Run, AskToEnd, StopFlowAlerts, LastFlow, CheckDnsPending, quiet
    <2> QED BY <1>1, <1>2, <1>3, <1>8, <1>9, <1>10, <2>1, <2>2 DEF DelayedNext
  <1> QED BY <1>11 DEF quiet

\* No flow is reported as not SSL (or not HTTP) while a recognised flow of its
\* addresses at most the window before or after it is known, but one that began
\* before it and was read while it slept: for any window, any order of start times
\* and any interleaving of reading, sleeping tasks and clean-ups.
THEOREM RecognisedNeverReported == DelayedSpec => RecognisedNotReported
  <1>1. DelayedInit => LookedBack
    BY DEF DelayedInit, LookedBack
  <1>2. LookedBack /\ [DelayedNext]_dvars => LookedBack' /\ [OnlyUnrecognised]_dvars
    <2>1. lastReport' = lastReport => OnlyUnrecognised
      BY DEF OnlyUnrecognised
    <2> QED BY <2>1, DelayedStep
  <1> QED BY <1>1, <1>2, PTL DEF DelayedSpec, RecognisedNotReported
-----------------------------------------------------------------------------
(* OtDetection.                                                            *)

OtEntries == [m : UNION MessageSets, at : Nat, tw : Nat]
Sightings == [n : Nat, at : Nat]

OtTypes ==
    /\ otTime \in Nat /\ group \in MessageSets /\ otMsgs \in Seq(OtEntries)
    /\ \A k \in 1..Len(otMsgs) : otMsgs[k].at <= otTime
    /\ times \in [Tables -> [OtHosts -> SUBSET Sightings]]
    /\ \A t \in Tables, a \in OtHosts : IsFiniteSet(times[t][a])

\* Whatever message is within the span is in its table.
SeenInSpan ==
    \A k \in 1..Len(otMsgs) : \A t \in CountedIn(otMsgs[k].m) :
        otTime - otMsgs[k].at <= FloodSpan[t] =>
            [n |-> k, at |-> otMsgs[k].at] \in times[t][HostOf(t, otMsgs[k].m)]

Witness(reported, t, tw, host) ==
    \E e \in reported : e.type = FloodType(t) /\ e.tw = tw /\ host = IF t = "plc" THEN e.on ELSE e.by

\* A key that keeps a flood from being reported stands for its evidence.
KeysHaveEvidence ==
    \A x \in otAlerted : x.rule \in Tables => \E host : x.hosts = <<host>> /\ Witness(otEvidence, x.rule, x.tw, host)

OtInv == OtTypes /\ SeenInSpan /\ KeysHaveEvidence /\ FloodsReported

LEMMA TableNames ==
    /\ \A t \in Tables : t \notin {"volume", "modbus_unauth", "s7_unauth", "ptp_spoof", "mb_write", "mb_illegal",
                                   "s7_stop", "s7_write", "dnp3_func", "watchdog", "valve", "motor"}
    /\ "plc" \in Tables
  BY DEF Tables, Transport

LEMMA CountedTables ==
    ASSUME NEW m \in UNION MessageSets, NEW t \in CountedIn(m)
    PROVE  t \in Tables /\ HostOf(t, m) \in OtHosts /\ FloodThreshold[t] \in Nat /\ FloodSpan[t] \in Nat
  <1>1. t \in Tables
    BY DEF CountedIn, Tables
  <1> QED BY <1>1, OtAssumption DEF HostOf

\* The alerts under a table's name are its flood's.
LEMMA AlertsOfTable ==
    ASSUME NEW m \in UNION MessageSets, NEW a \in Alerts(m), a.rule \in Tables
    PROVE  a.rule \in CountedIn(m) /\ a.hosts = <<HostOf(a.rule, m)>> /\ a.type = FloodType(a.rule)
  <1>1. m.channel \in Channels
    BY OtAssumption
  <1>2. \A rule, hosts, type, level : \A x \in Alert(rule, hosts, type, level) : x.rule = rule
    BY DEF Alert
  <1>3. \A condition, alerts : When(condition, alerts) \subseteq alerts
    BY DEF When
  <1>4. a \in Floods(m)
    <2>1. CASE m.channel = "new_flow"
      <3>1. a \in VolumeFloods(m) => a.rule = "volume"
        <4>1. a \in VolumeFloods(m) =>
                \E p : a \in Alert("volume", <<m.saddr, m.daddr, p>>, FloodType(p), "high")
          BY DEF VolumeFloods
        <4> QED BY <1>2, <4>1
      <3>2. a \in Strangers(m) => a.rule \in {"modbus_unauth", "s7_unauth"}
        BY <1>2, <1>3, ZenonT(40) DEF Strangers
      <3>3. a \in PtpSpoofing(m) => a.rule = "ptp_spoof"
        BY <1>2, <1>3 DEF PtpSpoofing
      <3>4. a \in VolumeFloods(m) \cup Floods(m) \cup Strangers(m) \cup PtpSpoofing(m)
        BY <2>1 DEF Alerts, AlertsOfFlow
      <3> QED BY <3>1, <3>2, <3>3, <3>4, TableNames
    <2>2. CASE m.channel = "new_modbus"
      <3>1. a \in AlertsOfModbus(m)
        BY <2>2 DEF Alerts
      <3>2. a.rule \in {"mb_write", "mb_illegal"}
        BY <1>2, <1>3, <3>1 DEF AlertsOfModbus
      <3> QED BY <3>2, TableNames
    <2>3. CASE m.channel = "new_s7comm"
      <3>1. a \in AlertsOfS7(m)
        BY <2>3 DEF Alerts
      <3>2. a.rule \in {"s7_stop", "s7_write"}
        BY <1>2, <1>3, <3>1 DEF AlertsOfS7
      <3> QED BY <3>2, TableNames
    <2>4. CASE m.channel = "new_dnp3"
      <3>1. a \in AlertsOfDnp3(m)
        BY <2>4 DEF Alerts
      <3>2. a.rule = "dnp3_func"
        BY <1>2, <1>3, <3>1, ZenonT(40) DEF AlertsOfDnp3
      <3> QED BY <3>2, TableNames
    <2>5. CASE m.channel = "new_notice"
      <3>1. a \in AlertsOfNotice(m)
        BY <2>5 DEF Alerts
      <3>2. a \in Floods(m) \/ \E n \in {"watchdog", "valve", "motor"} : a.rule = n
        BY <1>2, <3>1 DEF AlertsOfNotice
      <3> QED BY <3>2, TableNames
    <2> QED BY <1>1, <2>1, <2>2, <2>3, <2>4, <2>5 DEF Channels
  <1> QED BY <1>4 DEF Floods, Alert

\* A flood of the message is among its alerts.
LEMMA FloodAlert ==
    ASSUME NEW m \in UNION MessageSets, NEW t \in CountedIn(m),
           Cardinality(SeenWith(m)[t][HostOf(t, m)]) >= FloodThreshold[t]
    PROVE  \E a \in Alerts(m) : a.rule = t /\ a.hosts = <<HostOf(t, m)>> /\ a.type = FloodType(t)
  <1> DEFINE a == [rule |-> t, hosts |-> <<HostOf(t, m)>>, type |-> FloodType(t), level |-> FloodLevel(t)]
  <1>1. a \in Floods(m)
    BY DEF Floods, Alert
  <1>2. m.channel = "new_flow" \/ m.channel = "new_notice"
    BY DEF CountedIn
  <1>3. Floods(m) \subseteq Alerts(m)
    <2>1. CASE m.channel = "new_flow"
      BY <2>1 DEF Alerts, AlertsOfFlow
    <2>2. CASE m.channel = "new_notice"
      BY <2>2 DEF Alerts, AlertsOfNotice
    <2> QED BY <1>2, <2>1, <2>2
  <1> QED BY <1>1, <1>3

\* One message: what the history and the tables are after it.
LEMMA OneMessage ==
    ASSUME OtTypes, NEW m \in group, NEW tw \in 1..MaxOtWindow, HandleOt(m, tw)
    PROVE  /\ Len(otMsgs) \in Nat /\ Len(otMsgs') = Len(otMsgs) + 1
           /\ otMsgs' \in Seq(OtEntries) /\ m \in UNION MessageSets
           /\ \A k \in 1..Len(otMsgs) : otMsgs'[k] = otMsgs[k] /\ otMsgs[k] \in OtEntries
           /\ otMsgs'[Len(otMsgs) + 1] = [m |-> m, at |-> otTime, tw |-> tw]
  <1> DEFINE new == [m |-> m, at |-> otTime, tw |-> tw]
  <1>1. m \in UNION MessageSets /\ tw \in Nat
    BY OtAssumption DEF OtTypes
  <1>2. new \in OtEntries /\ otMsgs \in Seq(OtEntries)
    BY <1>1 DEF OtTypes, OtEntries
  <1>3. otMsgs' = Append(otMsgs, new)
    BY DEF HandleOt
  <1> HIDE DEF new
  <1>4. /\ Len(otMsgs) \in Nat /\ Len(otMsgs') = Len(otMsgs) + 1
        /\ otMsgs' \in Seq(OtEntries)
        /\ \A k \in 1..Len(otMsgs) : otMsgs'[k] = otMsgs[k] /\ otMsgs[k] \in OtEntries
        /\ otMsgs'[Len(otMsgs) + 1] = new
    BY <1>2, <1>3
  <1> QED BY <1>1, <1>4 DEF new

\* What a message adds to its tables, and what stays in them.
LEMMA SeenAfter ==
    ASSUME OtTypes, SeenInSpan, NEW m \in group, NEW tw \in 1..MaxOtWindow, HandleOt(m, tw)
    PROVE  OtTypes' /\ SeenInSpan'
  <1> DEFINE N == Len(otMsgs) + 1
  <1>1. /\ Len(otMsgs) \in Nat /\ Len(otMsgs') = N
        /\ otMsgs' \in Seq(OtEntries) /\ m \in UNION MessageSets
        /\ \A k \in 1..Len(otMsgs) : otMsgs'[k] = otMsgs[k] /\ otMsgs[k] \in OtEntries
        /\ otMsgs'[N] = [m |-> m, at |-> otTime, tw |-> tw]
    BY OneMessage
  <1>2. times' = SeenWith(m) /\ otTime' = otTime /\ group' = group /\ otTime \in Nat
    BY DEF HandleOt, OtTypes
  <1>3. [n |-> N, at |-> otTime] \in Sightings
    BY <1>1, <1>2 DEF Sightings
  <1>4. ASSUME NEW t \in Tables, NEW a \in OtHosts
        PROVE  times'[t][a] \in SUBSET Sightings /\ IsFiniteSet(times'[t][a])
    <2>1. times[t][a] \subseteq Sightings /\ IsFiniteSet(times[t][a])
      BY DEF OtTypes
    <2>2. IsFiniteSet(times[t][a] \cup {[n |-> N, at |-> otTime]})
      BY <2>1, FS_AddElement
    <2>3. times'[t][a] \subseteq times[t][a] \cup {[n |-> N, at |-> otTime]}
      BY <1>2 DEF SeenWith
    <2> QED BY <1>3, <2>1, <2>2, <2>3, FS_Subset
  <1>5. times' \in [Tables -> [OtHosts -> SUBSET Sightings]]
    BY <1>2, <1>4 DEF SeenWith
  <1>6. \A k \in 1..N : otMsgs'[k].at <= otTime
    BY <1>1, <1>2 DEF OtTypes
  <1>7. OtTypes'
    BY <1>1, <1>2, <1>4, <1>5, <1>6 DEF OtTypes
  <1>8. ASSUME NEW k \in 1..N, NEW t \in CountedIn(otMsgs'[k].m),
               otTime - otMsgs'[k].at <= FloodSpan[t]
        PROVE  [n |-> k, at |-> otMsgs'[k].at] \in times'[t][HostOf(t, otMsgs'[k].m)]
    <2> DEFINE x == [n |-> k, at |-> otMsgs'[k].at]  h == HostOf(t, otMsgs'[k].m)
    <2>1. otMsgs'[k].m \in UNION MessageSets /\ otMsgs'[k].at \in Nat
      BY <1>1, SMTT(20) DEF OtEntries
    <2>2. t \in Tables /\ h \in OtHosts
      BY <2>1, CountedTables
    <2>3. x \in times[t][h] \/ (x = [n |-> N, at |-> otTime] /\ t \in CountedIn(m) /\ h = HostOf(t, m))
      <3>1. CASE k = N
        BY <1>1, <3>1
      <3>2. CASE k \in 1..Len(otMsgs)
        <4>1. otMsgs'[k] = otMsgs[k]
          BY <1>1, <3>2
        <4> QED BY <1>8, <3>2, <4>1 DEF SeenInSpan
      <3> QED BY <1>1, <3>1, <3>2
    <2>4. x.at = otMsgs'[k].at
      OBVIOUS
    <2> HIDE DEF x, h
    <2> QED BY <1>2, <1>8, <2>2, <2>3, <2>4 DEF SeenWith, x, h
  <1> QED BY <1>1, <1>2, <1>7, <1>8 DEF SeenInSpan

\* The table has no fewer entries than the messages that make a flood.
LEMMA LikeAreSeen ==
    ASSUME OtTypes', SeenInSpan', NEW n \in 1..Len(otMsgs'), otMsgs'[n].at = otTime',
           NEW t \in CountedIn(otMsgs'[n].m)
    PROVE  LET h == HostOf(t, otMsgs'[n].m)
           IN  /\ Cardinality(Like(n, t)') <= Cardinality(times'[t][h])
               /\ Cardinality(Like(n, t)') \in Nat /\ Cardinality(times'[t][h]) \in Nat
  <1> DEFINE h == HostOf(t, otMsgs'[n].m)
             L == Like(n, t)'
             T == times'[t][h]
             place == [k \in L |-> [n |-> k, at |-> otMsgs'[k].at]]
  <1>1. n \in Nat /\ otMsgs'[n] \in OtEntries
    BY DEF OtTypes
  <1>2. t \in Tables /\ h \in OtHosts
    BY <1>1, CountedTables DEF OtEntries
  <1>3. IsFiniteSet(T)
    BY <1>2 DEF OtTypes
  <1>4. \A k \in L : /\ k \in 1..Len(otMsgs') /\ t \in CountedIn(otMsgs'[k].m)
                     /\ otTime' - otMsgs'[k].at <= FloodSpan[t] /\ HostOf(t, otMsgs'[k].m) = h
    BY <1>1 DEF Like
  <1>5. \A k \in L : place[k] \in T
    BY <1>4 DEF SeenInSpan
  <1>6. \A j, k \in L : place[j] = place[k] => j = k
    <2> SUFFICES ASSUME NEW j \in L, NEW k \in L, place[j] = place[k] PROVE j = k
      OBVIOUS
    <2>1. place[j].n = j /\ place[k].n = k
      OBVIOUS
    <2> QED BY <2>1
  <1>7. place \in [L -> T]
    BY <1>5
  <1> HIDE DEF L, T, place
  <1>8. place \in Injection(L, T)
    BY <1>6, <1>7 DEF Injection, IsInjective
  <1>9. IsFiniteSet(L) /\ Cardinality(L) <= Cardinality(T)
    BY <1>3, <1>8, FS_Injection
  <1> QED BY <1>3, <1>9, FS_CardinalityType DEF L, T

LEMMA OtStep == OtInv /\ [OtNext]_otvars => OtInv'
  <1> SUFFICES ASSUME OtInv, [OtNext]_otvars PROVE OtInv'
    OBVIOUS
  <1>1. Len(otMsgs) \in Nat
    BY DEF OtInv, OtTypes
  <1>2. ASSUME NEW m \in group, NEW tw \in 1..MaxOtWindow, HandleOt(m, tw)
        PROVE  OtInv'
    <2>0. PICK N \in Nat : N = Len(otMsgs) + 1
      BY <1>1
    <2> DEFINE new == {a \in Alerts(m) : AlertKey(a, tw) \notin otAlerted}
    <2>1. /\ Len(otMsgs') = N
          /\ otMsgs' \in Seq(OtEntries) /\ m \in UNION MessageSets
          /\ \A k \in 1..Len(otMsgs) : otMsgs'[k] = otMsgs[k] /\ otMsgs[k] \in OtEntries
          /\ otMsgs'[N] = [m |-> m, at |-> otTime, tw |-> tw]
      BY <1>2, <2>0, OneMessage DEF OtInv
    <2>2. OtTypes' /\ SeenInSpan'
      BY <1>2, SeenAfter DEF OtInv
    <2>3. /\ otEvidence' = otEvidence \cup
               {[type |-> a.type, level |-> a.level, by |-> m.saddr, on |-> m.daddr, tw |-> tw] : a \in new}
          /\ otAlerted' = otAlerted \cup {AlertKey(a, tw) : a \in new}
          /\ times' = SeenWith(m) /\ otTime' = otTime
      BY <1>2 DEF HandleOt, SetOtEvidence
    <2>4. \A t \in Tables : \A w, h : Witness(otEvidence, t, w, h) => Witness(otEvidence', t, w, h)
      BY <2>3 DEF Witness
    <2>5. ASSUME NEW a \in new, a.rule \in Tables
          PROVE  a.hosts = <<HostOf(a.rule, m)>> /\ Witness(otEvidence', a.rule, tw, HostOf(a.rule, m))
      <3>1. a.hosts = <<HostOf(a.rule, m)>> /\ a.type = FloodType(a.rule)
        BY <2>1, <2>5, AlertsOfTable
      <3> DEFINE e == [type |-> a.type, level |-> a.level, by |-> m.saddr, on |-> m.daddr, tw |-> tw]
      <3>2. e \in otEvidence'
        BY <2>3
      <3>3. e.type = FloodType(a.rule) /\ e.tw = tw /\ e.by = m.saddr /\ e.on = m.daddr
        BY <3>1
      <3> HIDE DEF e
      <3> QED BY <3>1, <3>2, <3>3 DEF Witness, HostOf
    <2>6. KeysHaveEvidence'
      <3> SUFFICES ASSUME NEW x \in otAlerted', x.rule \in Tables
                   PROVE  \E host : x.hosts = <<host>> /\ Witness(otEvidence', x.rule, x.tw, host)
        BY DEF KeysHaveEvidence, Tables
      <3>1. CASE x \in otAlerted
        BY <2>4, <3>1 DEF OtInv, KeysHaveEvidence
      <3>2. ASSUME NEW a \in new, x = AlertKey(a, tw)
            PROVE  \E host : x.hosts = <<host>> /\ Witness(otEvidence', x.rule, x.tw, host)
        <4>1. x.rule = a.rule /\ x.hosts = a.hosts /\ x.tw = tw
          BY <3>2 DEF AlertKey
        <4> QED BY <2>5, <4>1
      <3> QED BY <2>3, <3>1, <3>2
    <2>7. ASSUME NEW t \in CountedIn(m), Cardinality(Like(N, t)') >= FloodThreshold[t]
          PROVE  Witness(otEvidence', t, tw, HostOf(t, m))
      <3> DEFINE h == HostOf(t, m)
      <3>1. t \in Tables /\ FloodThreshold[t] \in Nat
        BY <2>1, CountedTables
      <3>2. N \in 1..Len(otMsgs') /\ otMsgs'[N].at = otTime' /\ otMsgs'[N].m = m
        BY <2>0, <2>1, <2>3
      <3>3. /\ Cardinality(Like(N, t)') <= Cardinality(times'[t][h])
            /\ Cardinality(Like(N, t)') \in Nat /\ Cardinality(times'[t][h]) \in Nat
        <4>1. t \in CountedIn(otMsgs'[N].m) /\ h = HostOf(t, otMsgs'[N].m)
          BY <2>7, <3>2
        <4> HIDE DEF h
        <4> QED BY <2>2, <3>2, <4>1, LikeAreSeen
      <3>4. Cardinality(SeenWith(m)[t][h]) >= FloodThreshold[t]
        BY <2>3, <2>7, <3>1, <3>3
      <3>5. PICK a \in Alerts(m) : a.rule = t /\ a.hosts = <<h>> /\ a.type = FloodType(t)
        BY <2>1, <3>4, FloodAlert
      <3>6. CASE a \in new
        BY <2>5, <3>1, <3>5, <3>6
      <3>7. CASE AlertKey(a, tw) \in otAlerted
        <4>1. AlertKey(a, tw).rule = t /\ AlertKey(a, tw).hosts = <<h>> /\ AlertKey(a, tw).tw = tw
          BY <3>5 DEF AlertKey
        <4>2. PICK host : AlertKey(a, tw).hosts = <<host>> /\ Witness(otEvidence, t, tw, host)
          BY <3>1, <3>7, <4>1 DEF OtInv, KeysHaveEvidence
        <4>3. host = h
          BY <4>1, <4>2
        <4> QED BY <2>4, <3>1, <4>2, <4>3
      <3> QED BY <3>6, <3>7
    <2>8. ASSUME NEW n \in 1..Len(otMsgs'), NEW t \in CountedIn(otMsgs'[n].m),
                 Cardinality(Like(n, t)') >= FloodThreshold[t]
          PROVE  Witness(otEvidence', t, otMsgs'[n].tw, HostOf(t, otMsgs'[n].m))
      <3>1. CASE n = N
        BY <2>1, <2>7, <2>8, <3>1
      <3>2. CASE n \in 1..Len(otMsgs)
        <4>1. \A k \in 1..n : otMsgs'[k] = otMsgs[k]
          BY <1>1, <2>0, <2>1, <3>2
        <4>2. otMsgs'[n] = otMsgs[n] /\ otMsgs[n].m \in UNION MessageSets
          BY <2>1, <3>2 DEF OtEntries
        <4>3. Like(n, t)' = Like(n, t)
          BY <4>1, <4>2 DEF Like
        <4>4. Witness(otEvidence, t, otMsgs[n].tw, HostOf(t, otMsgs[n].m))
          BY <2>8, <3>2, <4>2, <4>3 DEF OtInv, FloodsReported, Witness
        <4>5. t \in Tables
          BY <2>8, <4>2, CountedTables
        <4> QED BY <2>4, <4>2, <4>4, <4>5
      <3> QED BY <1>1, <2>0, <2>1, <3>1, <3>2
    <2>9. FloodsReported'
      BY <2>8 DEF FloodsReported, Witness
    <2> QED BY <2>2, <2>6, <2>9 DEF OtInv
  <1>3. CASE CleanUp
    BY <1>3 DEF CleanUp, OtInv, OtTypes, SeenInSpan, KeysHaveEvidence, FloodsReported, Like
  <1>4. CASE OtTick
    <2>1. /\ otTime' = otTime + 1 /\ otTime \in Nat
          /\ UNCHANGED <<group, times, otAlerted, otEvidence, otMsgs>>
      BY <1>4 DEF OtTick, OtInv, OtTypes
    <2>2. \A k \in 1..Len(otMsgs) : otMsgs[k] \in OtEntries
      BY DEF OtInv, OtTypes
    <2>3. \A k \in 1..Len(otMsgs) : otMsgs[k].m \in UNION MessageSets /\ otMsgs[k].at \in Nat
      BY <2>2 DEF OtEntries
    <2>4. OtTypes'
      <3>1. \A k \in 1..Len(otMsgs) : otMsgs[k].at <= otTime
        BY DEF OtInv, OtTypes
      <3>2. \A k \in 1..Len(otMsgs) : otMsgs[k].at <= otTime + 1
        BY <2>1, <2>3, <3>1
      <3> QED BY <2>1, <3>2 DEF OtInv, OtTypes
    <2>5. ASSUME NEW k \in 1..Len(otMsgs), NEW t \in CountedIn(otMsgs[k].m),
                 otTime' - otMsgs[k].at <= FloodSpan[t]
          PROVE  [n |-> k, at |-> otMsgs[k].at] \in times[t][HostOf(t, otMsgs[k].m)]
      <3>1. FloodSpan[t] \in Nat
        BY <2>3, CountedTables
      <3>2. otTime - otMsgs[k].at <= FloodSpan[t]
        BY <2>1, <2>3, <2>5, <3>1
      <3> QED BY <3>2 DEF OtInv, SeenInSpan
    <2>6. SeenInSpan'
      BY <2>1, <2>5 DEF SeenInSpan
    <2> QED BY <2>1, <2>4, <2>6 DEF OtInv, KeysHaveEvidence, Witness, FloodsReported, Like
  <1>5. CASE UNCHANGED otvars
    <2>1. UNCHANGED <<group, otTime, times, otAlerted, otEvidence, otMsgs>>
      BY <1>5 DEF otvars
    <2>2. OtTypes'
      BY <2>1 DEF OtInv, OtTypes
    <2>3. SeenInSpan'
      BY <2>1 DEF OtInv, SeenInSpan
    <2> QED BY <2>1, <2>2, <2>3 DEF OtInv, KeysHaveEvidence, Witness, FloodsReported, Like
  <1> QED BY <1>2, <1>3, <1>4, <1>5 DEF OtNext

(* OT Detection passes over no flood: for any messages, thresholds, spans,   *)
(* masters and protected devices, in whatever windows and at whatever times  *)
(* the messages come, and however often the keys are emptied meanwhile.      *)
THEOREM NoFloodPassedOver == OtSpec => []FloodsReported
  <1>1. OtInit => OtInv
    BY FS_EmptySet DEF OtInit, OtInv, OtTypes, SeenInSpan, KeysHaveEvidence, FloodsReported
  <1>2. OtInv => FloodsReported
    BY DEF OtInv
  <1> QED BY <1>1, <1>2, OtStep, PTL DEF OtSpec

=============================================================================
