---------------------------- MODULE OtDetection ----------------------------
(***************************************************************************)
(* OT Detection: attacks on industrial devices.  Flows to the ports of     *)
(* industrial protocols are counted by source within a span of wall-clock  *)
(* time, PLC mode switches by PLC; single commands that Zeek's OT parsers  *)
(* publish are judged by who sends them.  An alert is raised once for each *)
(* key, which names the rule, the hosts and the time window of the message *)
(* (not the wall clock's); the set of keys is emptied now and then.        *)
(* A message is its two hosts and the traits the rules ask about.          *)
(***************************************************************************)
EXTENDS Naturals, Sequences, FiniteSets

CONSTANTS
    OtHosts,
    MessageSets,     \* sets of messages: [channel, saddr, daddr, is]
    OtProtected,     \* config/ot_protected_devices.conf, entry by entry
    ModbusMasters,   \* config/modbus_authorized_masters.conf
    S7Masters,       \* config/s7_authorized_masters.conf
    FloodThreshold, FloodSpan, \* of each counted table
    MaxOtWindow, MaxOtTime, MaxOtMsgs \* bounds

VARIABLES
    group,       \* the messages of this behaviour
    otTime,      \* wall clock
    times,       \* _modbus_conns, ..., _plc_mode_switches: when each host was seen; entries of
                 \* one time are told apart by their message's number
    otAlerted,   \* keys of the alerts raised
    otEvidence,
    otMarked,    \* ot_protected_ips in Redis
    otMsgs       \* history: the messages handled

otvars == <<group, otTime, times, otAlerted, otEvidence, otMarked, otMsgs>>

OtPorts == {"modbus", "s7", "dnp3", "opcua", "profinet", "cip", "ntp", "ptp"}
\* The transports over which flows to a port are counted.
Transport == [modbus |-> {"tcp"}, s7 |-> {"tcp"}, dnp3 |-> {"tcp", "udp"},
              profinet |-> {"tcp", "udp", "icmp"}, cip |-> {"tcp"}, ntp |-> {"udp"}]
Tables == DOMAIN Transport \cup {"plc"}

\* Messages come on the channels main() reads; thresholds and spans are numbers.
Channels == {"new_flow", "new_modbus", "new_s7comm", "new_dnp3", "new_notice"}
ASSUME OtAssumption ==
    /\ \A ms \in MessageSets : \A m \in ms : m.channel \in Channels /\ {m.saddr, m.daddr} \subseteq OtHosts
    /\ \A t \in Tables : FloodThreshold[t] \in Nat /\ FloodSpan[t] \in Nat
    /\ MaxOtWindow \in Nat

\* _ot_port_evidence: the type of a flood is its protocol's, counted or not.
FloodType(p) == IF p = "opcua" THEN "anomaly" ELSE p
FloodLevel(t) == CASE t = "profinet" -> "medium" [] t = "plc" -> "critical" [] OTHER -> "high"

\* _read_configuration: without S7 masters the Modbus masters are taken.
S7Allowed == IF S7Masters = {} THEN ModbusMasters ELSE S7Masters

OtInit ==
    /\ group \in MessageSets /\ otTime = 0
    /\ times = [t \in Tables |-> [a \in OtHosts |-> {}]]
    /\ otAlerted = {} /\ otEvidence = {} /\ otMarked = {} /\ otMsgs = <<>>

-----------------------------------------------------------------------------
CountedIn(m) ==
    CASE m.channel = "new_flow" -> {t \in DOMAIN Transport \cap m.is : Transport[t] \cap m.is # {}}
      [] m.channel = "new_notice" -> {"plc"} \cap m.is
      [] OTHER -> {}
HostOf(t, m) == IF t = "plc" THEN m.daddr ELSE m.saddr

\* A message's time is added to its table and what is too old dropped.
SeenWith(m) ==
    [t \in Tables |-> [a \in OtHosts |->
        IF t \in CountedIn(m) /\ a = HostOf(t, m)
        THEN {seen \in times[t][a] \cup {[n |-> Len(otMsgs) + 1, at |-> otTime]} : otTime - seen.at <= FloodSpan[t]}
        ELSE times[t][a]]]

Alert(rule, hosts, type, level) == {[rule |-> rule, hosts |-> hosts, type |-> type, level |-> level]}
When(condition, alerts) == IF condition THEN alerts ELSE {}

\* Many packets at a high rate in one connection.
VolumeFloods(m) ==
    UNION {Alert("volume", <<m.saddr, m.daddr, p>>, FloodType(p), "high") :
              p \in When(m.channel = "new_flow" /\ "heavy" \in m.is, OtPorts \cap m.is)}

Floods(m) ==
    UNION {Alert(t, <<HostOf(t, m)>>, FloodType(t), FloodLevel(t)) :
              t \in {u \in CountedIn(m) : Cardinality(SeenWith(m)[u][HostOf(u, m)]) >= FloodThreshold[u]}}

Foreign(m, masters) == masters # {} /\ m.saddr \notin masters
Strangers(m) ==
    LET Access(t, masters) == t \in CountedIn(m) /\ Foreign(m, masters) /\ m.daddr \in OtProtected
    IN  When(Access("modbus", ModbusMasters), Alert("modbus_unauth", <<m.saddr, m.daddr>>, "modbus access", "high"))
        \cup When(Access("s7", S7Allowed), Alert("s7_unauth", <<m.saddr, m.daddr>>, "s7 read", "high"))

PtpSpoofing(m) ==
    When({"ptp", "udp"} \subseteq m.is /\ OtProtected # {} /\ m.saddr \notin OtProtected,
         Alert("ptp_spoof", <<m.saddr>>, FloodType("ptp"), "high"))

AlertsOfFlow(m) == VolumeFloods(m) \cup Floods(m) \cup Strangers(m) \cup PtpSpoofing(m)

AlertsOfModbus(m) ==
    When("write" \in m.is /\ Foreign(m, ModbusMasters),
         Alert("mb_write", <<m.saddr, m.daddr>>, "modbus write", "critical"))
    \cup When("illegal" \in m.is, Alert("mb_illegal", <<m.saddr, m.daddr>>, "modbus illegal", "medium"))

AlertsOfS7(m) ==
    When("control" \in m.is, Alert("s7_stop", <<m.saddr, m.daddr>>, "plc stop", "critical"))
    \cup When("write" \in m.is /\ Foreign(m, S7Allowed),
              Alert("s7_write", <<m.saddr, m.daddr>>, "s7 write", "critical"))

AlertsOfDnp3(m) ==
    When("reserved" \in m.is, Alert("dnp3_func", <<m.saddr, m.daddr, "reserved">>, "dnp3 function", "high"))

AlertsOfNotice(m) ==
    Floods(m) \cup UNION {Alert(n, <<m.daddr>>, n, "critical") : n \in {"watchdog", "valve", "motor"} \cap m.is}

Alerts(m) ==
    CASE m.channel = "new_flow" -> AlertsOfFlow(m) [] m.channel = "new_modbus" -> AlertsOfModbus(m)
      [] m.channel = "new_s7comm" -> AlertsOfS7(m) [] m.channel = "new_dnp3" -> AlertsOfDnp3(m)
      [] m.channel = "new_notice" -> AlertsOfNotice(m)

\* Mutant: the key does not name the time window.
MutAlertKey(a, tw) == [rule |-> a.rule, hosts |-> a.hosts, tw |-> 0]

AlertKey(a, tw) == [rule |-> a.rule, hosts |-> a.hosts, tw |-> tw]

\* _set_evidence, for the profile of the source; a protected source is marked.
SetOtEvidence(m, tw, alerts) ==
    /\ otEvidence' = otEvidence \cup
         {[type |-> a.type, level |-> a.level, by |-> m.saddr, on |-> m.daddr, tw |-> tw] : a \in alerts}
    /\ otMarked' = IF alerts # {} THEN otMarked \cup ({m.saddr} \cap OtProtected) ELSE otMarked

\* main() on a message of any of its channels.
HandleOt(m, tw) ==
    LET new == {a \in Alerts(m) : AlertKey(a, tw) \notin otAlerted} IN
    /\ Len(otMsgs) < MaxOtMsgs
    /\ otMsgs' = Append(otMsgs, [m |-> m, at |-> otTime, tw |-> tw])
    /\ times' = SeenWith(m)
    /\ otAlerted' = otAlerted \cup {AlertKey(a, tw) : a \in new}
    /\ SetOtEvidence(m, tw, new)
    /\ UNCHANGED <<group, otTime>>

\* Every 10000 passes of main(), most of them without a message.
CleanUp ==
    /\ otAlerted # {} /\ otAlerted' = {}
    /\ UNCHANGED <<group, otTime, times, otEvidence, otMarked, otMsgs>>

OtTick == otTime < MaxOtTime /\ otTime' = otTime + 1 /\ UNCHANGED <<group, times, otAlerted, otEvidence, otMarked, otMsgs>>

OtNext ==
    \/ \E m \in group, tw \in 1..MaxOtWindow : HandleOt(m, tw)
    \/ CleanUp
    \/ OtTick

OtSpec == OtInit /\ [][OtNext]_otvars

-----------------------------------------------------------------------------
OtTypeOK ==
    /\ otTime \in 0..MaxOtTime
    /\ DOMAIN times = Tables
    /\ \A t \in Tables, a \in OtHosts : Cardinality(times[t][a]) <= MaxOtMsgs
    /\ \A k \in otAlerted : k.tw \in 0..MaxOtWindow
    /\ \A e \in otEvidence : {e.by, e.on} \subseteq OtHosts /\ e.tw \in 1..MaxOtWindow
    /\ otMarked \subseteq OtProtected /\ Len(otMsgs) <= MaxOtMsgs

\* The messages like the n-th in table t, up to it and within the span.
Like(n, t) ==
    {k \in 1..n : /\ t \in CountedIn(otMsgs[k].m) /\ otMsgs[n].at - otMsgs[k].at <= FloodSpan[t]
                  /\ HostOf(t, otMsgs[k].m) = HostOf(t, otMsgs[n].m)}

\* A flood is never passed over in silence: each window one of whose messages is
\* the threshold's, or a later, within the span has the evidence, however the
\* windows of the messages alternate and whenever the keys are emptied.
FloodsReported ==
    \A n \in 1..Len(otMsgs) : \A t \in CountedIn(otMsgs[n].m) :
        Cardinality(Like(n, t)) >= FloodThreshold[t] =>
            \E e \in otEvidence :
                /\ e.type = FloodType(t) /\ e.tw = otMsgs[n].tw
                /\ HostOf(t, otMsgs[n].m) = IF t = "plc" THEN e.on ELSE e.by
=============================================================================
