-------------------------- MODULE LocalNetworkProofs --------------------------
(***************************************************************************)
(* Proofs about what is said in the local network.  LocalNetwork: the      *)
(* table of addresses of each MAC and what the profiles say of their MAC,  *)
(* vendor and other addresses never part, whichever address of a MAC a new *)
(* one is compared with and wherever the profiler is among its Redis       *)
(* calls.  ArpScans: a scan is reported with requests of its own.          *)
(***************************************************************************)
EXTENDS LocalNetwork, ArpScans, FiniteSetTheorems, SequenceTheorems, TLAPS

(* The types of what add_mac_addr_to_profile and the vendors' lookup write. *)
Types ==
    /\ ipsOf \in [Macs -> SUBSET Addresses] /\ macOf \in [Addresses -> Macs \cup {None}]
    /\ others \in [Addresses -> [v4 : V4 \cup {None}, v6 : SUBSET V6]]
    /\ vendorOf \in [Addresses -> Macs \cup {None}]
    /\ adding \in [at : {"idle", "own", "peer", "list", "mac", "peerMac"}, ip : Addresses \cup {None},
                   mac : Macs \cup {None}, found : Addresses \cup {None}]

(* What add_mac_addr_to_profile knows between its calls: the address it found *)
(* is in the list of the MAC, and the new one is before its MAC is stored.    *)
AddingOK ==
    adding.at # "idle" =>
        /\ adding.ip \in Addresses /\ adding.mac \in Macs
        /\ adding.at \in {"own", "peer", "peerMac"} => adding.found # None
        /\ adding.found # None => /\ adding.found \in ipsOf[adding.mac] /\ adding.found # adding.ip
                                  /\ ~({adding.ip, adding.found} \subseteq V4)
        /\ adding.at \in {"mac", "peerMac"} => adding.ip \in ipsOf[adding.mac]

(* The property, one conjunct at a time. *)
MacsListed == \A ip \in Addresses : macOf[ip] # None => ip \in ipsOf[macOf[ip]]
VendorsListed == \A ip \in Addresses : vendorOf[ip] # None => ip \in ipsOf[vendorOf[ip]]
ShareMac(a, b) == \E mac \in Macs : {a, b} \subseteq ipsOf[mac]
OthersShareMac == \A ip \in Addresses : \A other \in OthersOf(ip) : BeingLinked(ip, other) \/ ShareMac(ip, other)

LEMMA AgreeParts == MacTablesAgree <=> MacsListed /\ VendorsListed /\ OthersShareMac
  BY DEF MacTablesAgree, MacsListed, VendorsListed, OthersShareMac, ShareMac

MacsInv == Types /\ AddingOK /\ MacsListed /\ VendorsListed /\ OthersShareMac

LEMMA InitOK == NetworkInit => MacsInv
  <1> SUFFICES ASSUME NetworkInit PROVE MacsInv
    OBVIOUS
  <1>1. Types
    BY DEF NetworkInit, Types, Idle
  <1>2. AddingOK /\ MacsListed /\ VendorsListed /\ OthersShareMac
    BY DEF NetworkInit, AddingOK, Idle, MacsListed, VendorsListed, OthersShareMac, OthersOf
  <1> QED BY <1>1, <1>2 DEF MacsInv

(* An address is linked only with the other one. *)
LEMMA LinkAddsOnly ==
  ASSUME Types, NEW ip \in Addresses, NEW other \in Addresses, others' = Link(ip, other),
         ~({ip, other} \subseteq V4)
  PROVE  /\ others' \in [Addresses -> [v4 : V4 \cup {None}, v6 : SUBSET V6]]
         /\ \A a \in Addresses : \A b \in OthersOf(a)' : b \in OthersOf(a) \/ (a = ip /\ b = other)
  <1>0. others \in [Addresses -> [v4 : V4 \cup {None}, v6 : SUBSET V6]]
    BY DEF Types
  <1> DEFINE mine == others[ip]
  <1>1. mine \in [v4 : V4 \cup {None}, v6 : SUBSET V6]
    BY <1>0
  <1>2. PICK new \in [v4 : V4 \cup {None}, v6 : SUBSET V6] :
           /\ others' = [others EXCEPT ![ip] = new]
           /\ new.v6 \subseteq mine.v6 \cup {other} /\ new.v4 \in {mine.v4, other}
    <2>1. CASE {ip, other} \subseteq V6
      <3> DEFINE new == [mine EXCEPT !.v6 = mine.v6 \cup {other}]
      <3>1. others' = [others EXCEPT ![ip] = new]
        BY <1>0, <2>1 DEF Link, AddToTheListOfIPv6
      <3>2. new \in [v4 : V4 \cup {None}, v6 : SUBSET V6] /\ new.v6 = mine.v6 \cup {other} /\ new.v4 = mine.v4
        BY <1>1, <2>1
      <3> QED BY <3>1, <3>2
    <2>2. CASE ~({ip, other} \subseteq V6) /\ ip \in V4
      <3> DEFINE new == [mine EXCEPT !.v6 = {other}]
      <3>1. others' = [others EXCEPT ![ip] = new]
        BY <1>0, <2>2 DEF Link
      <3>2. new \in [v4 : V4 \cup {None}, v6 : SUBSET V6] /\ new.v6 = {other} /\ new.v4 = mine.v4
        BY <1>1, <2>2 DEF Addresses
      <3> QED BY <3>1, <3>2
    <2>3. CASE ~({ip, other} \subseteq V6) /\ ip \notin V4
      <3> DEFINE new == [mine EXCEPT !.v4 = other]
      <3>1. others' = [others EXCEPT ![ip] = new]
        BY <1>0, <2>3 DEF Link
      <3>2. new \in [v4 : V4 \cup {None}, v6 : SUBSET V6] /\ new.v6 = mine.v6 /\ new.v4 = other
        BY <1>1, <2>3 DEF Addresses
      <3> QED BY <3>1, <3>2
    <2> QED BY <2>1, <2>2, <2>3
  <1>3. others' \in [Addresses -> [v4 : V4 \cup {None}, v6 : SUBSET V6]]
    BY <1>0, <1>2
  <1>4. ASSUME NEW a \in Addresses, NEW b \in OthersOf(a)'
        PROVE  b \in OthersOf(a) \/ (a = ip /\ b = other)
    <2>1. CASE a # ip
      <3>1. others'[a] = others[a]
        BY <1>0, <1>2, <2>1
      <3> QED BY <1>4, <3>1 DEF OthersOf
    <2>2. CASE a = ip
      <3>1. others'[a] = new
        BY <1>0, <1>2, <2>2
      <3> QED BY <1>2, <1>4, <2>2, <3>1 DEF OthersOf
    <2> QED BY <2>1, <2>2
  <1> QED BY <1>3, <1>4

(* The next call: the record of what is being stored stays as it is.       *)
LEMMA NextCall ==
  ASSUME Types, NEW at, NEW next \in {"peer", "list", "mac", "peerMac", "idle"}, Calls(at, next)
  PROVE  /\ adding.at = at /\ UNCHANGED vendorOf
         /\ adding' \in [at : {"idle", "own", "peer", "list", "mac", "peerMac"}, ip : Addresses \cup {None},
                         mac : Macs \cup {None}, found : Addresses \cup {None}]
         /\ adding'.at = next
         /\ next # "idle" => adding'.ip = adding.ip /\ adding'.mac = adding.mac /\ adding'.found = adding.found
  <1>1. adding.at = at /\ UNCHANGED vendorOf
    BY DEF Calls, vendorVars
  <1>2. CASE next = "idle"
    <2>1. adding' = Idle
      BY <1>2 DEF Calls
    <2> QED BY <1>1, <1>2, <2>1 DEF Idle
  <1>3. CASE next # "idle"
    <2>1. adding' = [adding EXCEPT !.at = next]
      BY <1>3 DEF Calls
    <2> QED BY <1>1, <2>1 DEF Types
  <1> QED BY <1>2, <1>3

(* The first call is chosen before anything is stored.                     *)
LEMMA AddStep ==
  ASSUME MacsInv, NEW ip \in Addresses, NEW mac \in Macs, AddMac(ip, mac)
  PROVE  MacsInv'
  <1>1. UNCHANGED <<ipsOf, macOf, others, vendorOf>> /\ adding = Idle
    BY DEF AddMac, tables, vendorVars
  <1>2. \/ adding' = Idle
        \/ adding' = Storing("list", ip, mac, None)
        \/ \E found \in ipsOf[mac] : /\ found # ip /\ ~({ip, found} \subseteq V4)
                                     /\ adding' = Storing("own", ip, mac, found)
    BY DEF AddMac
  <1>3. ipsOf[mac] \subseteq Addresses
    BY DEF MacsInv, Types
  <1>4. Types' /\ AddingOK'
    <2>1. CASE adding' = Idle
      BY <1>1, <2>1 DEF MacsInv, Types, AddingOK, Idle
    <2>2. CASE adding' = Storing("list", ip, mac, None)
      BY <1>1, <2>2 DEF MacsInv, Types, AddingOK, Storing
    <2>3. ASSUME NEW found \in ipsOf[mac], found # ip, ~({ip, found} \subseteq V4),
                 adding' = Storing("own", ip, mac, found)
          PROVE  Types' /\ AddingOK'
      BY <1>1, <1>3, <2>3, NetworkAssumption DEF MacsInv, Types, AddingOK, Storing, Addresses
    <2> QED BY <1>2, <2>1, <2>2, <2>3
  <1>5. MacsListed' /\ VendorsListed'
    BY <1>1 DEF MacsInv, MacsListed, VendorsListed
  <1>6. OthersShareMac'
    <2>1. ~\E a, b : BeingLinked(a, b)
      BY <1>1 DEF BeingLinked, Idle
    <2>2. \A a \in Addresses : \A b \in OthersOf(a) : ShareMac(a, b)
      BY <2>1 DEF MacsInv, OthersShareMac
    <2>3. /\ \A a : OthersOf(a)' = OthersOf(a)
          /\ \A a, b : ShareMac(a, b)' = ShareMac(a, b)
      BY <1>1 DEF OthersOf, ShareMac
    <2> QED BY <2>2, <2>3 DEF OthersShareMac
  <1> QED BY <1>4, <1>5, <1>6 DEF MacsInv

(* The links come first, and the pair is being linked from the first of them. *)
LEMMA LinkStep ==
  ASSUME MacsInv, StoreOwnLink \/ StorePeerLink
  PROVE  MacsInv'
  <1>1. PICK a \in {adding.ip, adding.found}, b \in {adding.ip, adding.found},
             at \in {"own", "peer"}, next \in {"peer", "list"} :
           others' = Link(a, b) /\ {a, b} = {adding.ip, adding.found} /\ Calls(at, next)
    BY DEF StoreOwnLink, StorePeerLink
  <1>2. /\ UNCHANGED <<ipsOf, macOf, vendorOf>> /\ adding.at \in {"own", "peer"} /\ adding'.at \in {"peer", "list"}
        /\ adding'.ip = adding.ip /\ adding'.mac = adding.mac /\ adding'.found = adding.found
        /\ adding' \in [at : {"idle", "own", "peer", "list", "mac", "peerMac"}, ip : Addresses \cup {None},
                        mac : Macs \cup {None}, found : Addresses \cup {None}]
    BY <1>1, NextCall DEF MacsInv, StoreOwnLink, StorePeerLink
  <1>3. /\ adding.ip \in Addresses /\ adding.mac \in Macs /\ adding.found # None /\ adding.found # adding.ip
        /\ adding.found \in ipsOf[adding.mac] /\ ~({adding.ip, adding.found} \subseteq V4)
    BY <1>2 DEF MacsInv, AddingOK
  <1>4. a \in Addresses /\ b \in Addresses /\ ~({a, b} \subseteq V4)
    BY <1>1, <1>3 DEF MacsInv, Types
  <1>5. /\ others' \in [Addresses -> [v4 : V4 \cup {None}, v6 : SUBSET V6]]
        /\ \A i \in Addresses : \A o \in OthersOf(i)' : o \in OthersOf(i) \/ (i = a /\ o = b)
    BY <1>1, <1>4, LinkAddsOnly DEF MacsInv
  <1>6. Types' /\ AddingOK'
    BY <1>2, <1>3, <1>5 DEF MacsInv, Types, AddingOK
  <1>7. MacsListed' /\ VendorsListed'
    BY <1>2 DEF MacsInv, MacsListed, VendorsListed
  <1>8. OthersShareMac'
    <2>1. \A i, o : ShareMac(i, o)' = ShareMac(i, o)
      BY <1>2 DEF ShareMac
    <2>2. \A i, o : BeingLinked(i, o) => BeingLinked(i, o)'
      BY <1>2 DEF BeingLinked
    <2>3. BeingLinked(a, b)'
      BY <1>1, <1>2 DEF BeingLinked
    <2> QED BY <1>5, <2>1, <2>2, <2>3 DEF MacsInv, OthersShareMac
  <1> QED BY <1>6, <1>7, <1>8 DEF MacsInv

(* With the list of the MAC stored, the two have it in common.             *)
LEMMA ListStep ==
  ASSUME MacsInv, StoreList
  PROVE  MacsInv'
  <1>1. /\ UNCHANGED <<macOf, others, vendorOf>> /\ adding.at = "list" /\ adding'.at = "mac"
        /\ adding'.ip = adding.ip /\ adding'.mac = adding.mac /\ adding'.found = adding.found
        /\ adding' \in [at : {"idle", "own", "peer", "list", "mac", "peerMac"}, ip : Addresses \cup {None},
                        mac : Macs \cup {None}, found : Addresses \cup {None}]
        /\ ipsOf' = [ipsOf EXCEPT ![adding.mac] = @ \cup {adding.ip}]
    BY NextCall DEF MacsInv, StoreList
  <1>2. /\ adding.ip \in Addresses /\ adding.mac \in Macs
        /\ adding.found # None => /\ adding.found \in ipsOf[adding.mac] /\ adding.found # adding.ip
                                  /\ ~({adding.ip, adding.found} \subseteq V4)
    BY <1>1 DEF MacsInv, AddingOK
  <1>3. /\ ipsOf' \in [Macs -> SUBSET Addresses]
        /\ \A mac \in Macs : ipsOf[mac] \subseteq ipsOf'[mac]
        /\ adding.ip \in ipsOf'[adding.mac]
    BY <1>1, <1>2 DEF MacsInv, Types
  <1>4. Types'
    BY <1>1, <1>3 DEF MacsInv, Types
  <1>5. AddingOK'
    BY <1>1, <1>2, <1>3 DEF AddingOK
  <1>6. MacsListed' /\ VendorsListed'
    BY <1>1, <1>3 DEF MacsInv, Types, MacsListed, VendorsListed
  <1>7. OthersShareMac'
    <2> SUFFICES ASSUME NEW i \in Addresses, NEW o \in OthersOf(i)'
                 PROVE  ShareMac(i, o)'
      BY DEF OthersShareMac
    <2>1. o \in OthersOf(i)
      BY <1>1 DEF OthersOf
    <2>2. CASE ShareMac(i, o)
      BY <1>3, <2>2 DEF ShareMac
    <2>3. CASE BeingLinked(i, o)
      <3>1. o \in Addresses
        BY <2>1 DEF MacsInv, Types, OthersOf, Addresses
      <3>2. adding.found # None
        BY <2>3, <3>1, NetworkAssumption DEF BeingLinked, Addresses
      <3>3. {i, o} \subseteq ipsOf'[adding.mac]
        BY <1>2, <1>3, <2>3, <3>2 DEF BeingLinked
      <3> QED BY <1>2, <3>3 DEF ShareMac
    <2> QED BY <2>1, <2>2, <2>3 DEF MacsInv, OthersShareMac
  <1> QED BY <1>4, <1>5, <1>6, <1>7 DEF MacsInv

(* The MAC of a profile is stored last, when the list has the profile.     *)
LEMMA MacStep ==
  ASSUME MacsInv, StoreMac \/ StorePeerMac
  PROVE  MacsInv'
  <1>1. PICK at \in {"mac", "peerMac"}, next \in {"idle", "peerMac"} :
           Calls(at, next) /\ (next = "peerMac" => at = "mac" /\ adding.found # None)
    BY DEF StoreMac, StorePeerMac
  <1>2. /\ UNCHANGED <<ipsOf, others, vendorOf>> /\ adding.at = at /\ adding'.at = next
        /\ next # "idle" => adding'.ip = adding.ip /\ adding'.mac = adding.mac /\ adding'.found = adding.found
        /\ adding' \in [at : {"idle", "own", "peer", "list", "mac", "peerMac"}, ip : Addresses \cup {None},
                        mac : Macs \cup {None}, found : Addresses \cup {None}]
    BY <1>1, NextCall DEF MacsInv, StoreMac, StorePeerMac
  <1>3. /\ adding.ip \in Addresses /\ adding.mac \in Macs /\ adding.ip \in ipsOf[adding.mac]
        /\ at = "peerMac" => adding.found # None
        /\ adding.found # None => /\ adding.found \in ipsOf[adding.mac] /\ adding.found # adding.ip
                                  /\ ~({adding.ip, adding.found} \subseteq V4)
    BY <1>2 DEF MacsInv, AddingOK
  <1>4. PICK a \in ipsOf[adding.mac] : macOf' = [macOf EXCEPT ![a] = adding.mac]
    <2>1. CASE StoreMac
      BY <1>3, <2>1 DEF StoreMac
    <2>2. CASE StorePeerMac
      <3>1. adding.at = "peerMac"
        BY <2>2 DEF StorePeerMac, Calls
      <3> QED BY <1>2, <1>3, <2>2, <3>1 DEF StorePeerMac
    <2> QED BY <2>1, <2>2
  <1>5. Types'
    BY <1>2, <1>3, <1>4 DEF MacsInv, Types
  <1>6. AddingOK'
    BY <1>1, <1>2, <1>3 DEF AddingOK
  <1>7. MacsListed'
    BY <1>2, <1>4 DEF MacsInv, Types, MacsListed
  <1>8. VendorsListed'
    BY <1>2 DEF MacsInv, VendorsListed
  <1>9. OthersShareMac'
    <2>1. ~\E i, o : BeingLinked(i, o)
      BY <1>2 DEF BeingLinked
    <2>2. /\ \A i : OthersOf(i)' = OthersOf(i)
          /\ \A i, o : ShareMac(i, o)' = ShareMac(i, o)
      BY <1>2 DEF OthersOf, ShareMac
    <2> QED BY <2>1, <2>2 DEF MacsInv, OthersShareMac
  <1> QED BY <1>5, <1>6, <1>7, <1>8, <1>9 DEF MacsInv

(* Who is linked with whom does not change with other tables. *)
LEMMA SharesKept ==
  ASSUME OthersShareMac, UNCHANGED <<ipsOf, others, adding>>
  PROVE  OthersShareMac'
  <1>1. /\ \A i : OthersOf(i)' = OthersOf(i)
        /\ \A i, o : ShareMac(i, o)' = ShareMac(i, o)
        /\ \A i, o : BeingLinked(i, o)' = BeingLinked(i, o)
    BY DEF OthersOf, ShareMac, BeingLinked
  <1> QED BY <1>1 DEF OthersShareMac

(* A vendor is stored for the MAC the profile has. *)
LEMMA VendorStep ==
  ASSUME MacsInv, UNCHANGED <<tables, adding>>, NEW known, StoreVendors(known)
  PROVE  MacsInv'
  <1>1. \A ip \in Addresses : vendorOf'[ip] = vendorOf[ip] \/ vendorOf'[ip] = macOf[ip]
    BY DEF StoreVendors
  <1>2. UNCHANGED <<ipsOf, macOf, others, adding>>
    BY DEF tables
  <1>3. vendorOf' \in [Addresses -> Macs \cup {None}]
    BY <1>1 DEF StoreVendors, MacsInv, Types
  <1>4. Types' /\ AddingOK' /\ MacsListed' /\ OthersShareMac'
    BY <1>2, <1>3, SharesKept DEF MacsInv, Types, AddingOK, MacsListed
  <1>5. VendorsListed'
    <2> SUFFICES ASSUME NEW ip \in Addresses, vendorOf'[ip] # None PROVE ip \in ipsOf'[vendorOf'[ip]]
      BY DEF VendorsListed
    <2>1. CASE vendorOf'[ip] = vendorOf[ip]
      BY <1>2, <2>1 DEF MacsInv, VendorsListed
    <2>2. CASE vendorOf'[ip] = macOf[ip]
      BY <1>2, <2>2 DEF MacsInv, MacsListed
    <2> QED BY <1>1, <2>1, <2>2
  <1> QED BY <1>4, <1>5 DEF MacsInv

LEMMA Step == MacsInv /\ [NetworkNext]_lnvars => MacsInv'
  <1> SUFFICES ASSUME MacsInv, [NetworkNext]_lnvars PROVE MacsInv'
    OBVIOUS
  <1>1. ASSUME UNCHANGED <<tables, vendorOf, adding>> PROVE MacsInv'
    <2>1. UNCHANGED <<ipsOf, macOf, others, vendorOf, adding>>
      BY <1>1 DEF tables
    <2> QED BY <2>1, SharesKept DEF MacsInv, Types, AddingOK, MacsListed, VendorsListed
  <1>2. ASSUME NEW ip \in Addresses, NEW mac \in Macs, AddMac(ip, mac) PROVE MacsInv'
    BY <1>2, AddStep
  <1>3. CASE StoreOwnLink \/ StorePeerLink \/ StoreList \/ StoreMac \/ StorePeerMac
    BY <1>3, LinkStep, ListStep, MacStep
  <1>4. CASE KillProfiler
    BY <1>1, <1>4 DEF KillProfiler, vendorVars
  <1>5. ASSUME NEW ip \in Addresses, NEW mac \in Macs, GetVendor(ip, mac) PROVE MacsInv'
    BY <1>5, VendorStep DEF GetVendor
  <1>6. CASE CheckPending
    BY <1>6, VendorStep DEF CheckPending
  <1>7. CASE OpenMacDb
    BY <1>1, <1>7 DEF OpenMacDb
  <1>8. ASSUME NEW ip \in V4, FoundGatewayIP(ip) \/ FoundGatewayMac(ip) PROVE MacsInv'
    BY <1>1, <1>8 DEF FoundGatewayIP, FoundGatewayMac, SetDefaultGateway, vendorVars
  <1>9. ASSUME NEW ip, NEW to, RequestOut(ip, to) PROVE MacsInv'
    BY <1>1, <1>9 DEF RequestOut, vendorVars
  <1>10. ASSUME NEW ip, NEW mac, NEW gratuitous, NEW broadcast, Reply(ip, mac, gratuitous, broadcast)
        PROVE  MacsInv'
    BY <1>1, <1>10 DEF Reply, vendorVars
  <1>11. CASE UNCHANGED lnvars
    BY <1>1, <1>11 DEF lnvars, vendorVars
  <1> QED BY <1>2, <1>3, <1>4, <1>5, <1>6, <1>7, <1>8, <1>9, <1>10, <1>11 DEF NetworkNext

(***************************************************************************)
(* The MAC a profile has, and the one its vendor was looked up for, list   *)
(* its address, and what it says are the other addresses of its host had a *)
(* MAC in common with it, but for the two profiles being linked: however   *)
(* addresses move between MACs, between any two Redis calls and wherever   *)
(* the profiler is killed.                                                 *)
(***************************************************************************)
THEOREM TablesNeverPart == NetworkSpec => []MacTablesAgree
  <1>1. MacsInv => MacTablesAgree
    BY AgreeParts DEF MacsInv
  <1> QED BY <1>1, InitOK, Step, PTL DEF NetworkSpec

-----------------------------------------------------------------------------
(* ArpScans.                                                               *)

Entry == [to : Addrs, ts : Nat, uids : SUBSET Nat]

(* Requests rs grouped for the key k: one entry for each address asked for,  *)
(* with at least one request, and only requests of the key for the address.  *)
Grouped(rs, k, es) ==
    /\ es \in Seq(Entry)
    /\ \A n \in 1..Len(es) :
          /\ es[n].uids # {}
          /\ \A u \in es[n].uids : u \in 1..Len(rs) /\ rs[u] = [key |-> k, to |-> es[n].to]
    /\ \A m, n \in 1..Len(es) : es[m].to = es[n].to => m = n

(* What ScanHasItsRequests says of a scan, and that its requests exist. *)
Asked(rs, uids) == {rs[u].to : u \in uids}
HasRequests(rs, e) ==
    /\ e \in [key : ScanKeys, uids : SUBSET Nat]
    /\ \A u \in e.uids : u \in 1..Len(rs) /\ rs[u].key = e.key
    /\ Cardinality(Asked(rs, e.uids)) >= ScanThreshold

ScansInv ==
    /\ scanTime \in Nat /\ arpRequests \in Seq([key : ScanKeys, to : Addrs])
    /\ DOMAIN cachedRequests \subseteq ScanKeys
    /\ \A k \in DOMAIN cachedRequests : Grouped(arpRequests, k, cachedRequests[k])
    /\ queue \in Seq([key : ScanKeys, uids : SUBSET Nat])
    /\ \A n \in 1..Len(queue) : HasRequests(arpRequests, queue[n])
    /\ timer \in {"merge", "report"} => HasRequests(arpRequests, held)
    /\ \A e \in reportedScans : e.key \notin TrustedKeys /\ HasRequests(arpRequests, e)

(* Requests that come later change nothing of it. *)
LEMMA GroupedGrows ==
    ASSUME NEW rs \in Seq([key : ScanKeys, to : Addrs]), NEW r \in [key : ScanKeys, to : Addrs],
           NEW k, NEW es, Grouped(rs, k, es)
    PROVE  Grouped(Append(rs, r), k, es)
  <1>1. Len(Append(rs, r)) = Len(rs) + 1 /\ \A u \in 1..Len(rs) : Append(rs, r)[u] = rs[u] /\ u \in 1..(Len(rs) + 1)
    OBVIOUS
  <1> QED BY <1>1 DEF Grouped

LEMMA HasRequestsGrows ==
    ASSUME NEW rs \in Seq([key : ScanKeys, to : Addrs]), NEW r \in [key : ScanKeys, to : Addrs],
           NEW e, HasRequests(rs, e)
    PROVE  HasRequests(Append(rs, r), e)
  <1>1. Len(Append(rs, r)) = Len(rs) + 1 /\ \A u \in 1..Len(rs) : Append(rs, r)[u] = rs[u] /\ u \in 1..(Len(rs) + 1)
    OBVIOUS
  <1>2. Asked(Append(rs, r), e.uids) = Asked(rs, e.uids)
    BY <1>1 DEF HasRequests, Asked
  <1> QED BY <1>1, <1>2 DEF HasRequests

(* A group of enough addresses is a scan. *)
LEMMA GroupIsScan ==
    ASSUME NEW rs \in Seq([key : ScanKeys, to : Addrs]), NEW k \in ScanKeys, NEW es,
           Grouped(rs, k, es), Len(es) >= ScanThreshold
    PROVE  HasRequests(rs, [key |-> k, uids |-> Uids(es)])
  <1> DEFINE n == Len(es)  to == [i \in 1..n |-> es[i].to]  tos == {es[i].to : i \in 1..n}
  <1>1. n \in Nat /\ \A i \in 1..n : es[i] \in Entry
    BY DEF Grouped
  <1>2. Cardinality(tos) = n
    <2>1. IsFiniteSet(1..n) /\ Cardinality(1..n) = n
      <3> HIDE DEF n
      <3> QED BY <1>1, FS_Interval
    <2>2. to \in Surjection(1..n, tos)
      BY DEF Surjection
    <2>3. to \in Injection(1..n, tos)
      BY DEF Injection, IsInjective, Grouped
    <2> QED BY <2>1, <2>2, <2>3, FS_Surjection
  <1>3. \A u \in Uids(es) : \E i \in 1..n : u \in es[i].uids
    BY DEF Uids
  <1>4. \A i \in 1..n : \E u \in Uids(es) : u \in es[i].uids
    BY DEF Uids, Grouped
  <1>5. Asked(rs, Uids(es)) = tos
    <2>1. ASSUME NEW u \in Uids(es) PROVE rs[u].to \in tos
      <3>1. PICK i \in 1..n : u \in es[i].uids
        BY <1>3
      <3>2. rs[u] = [key |-> k, to |-> es[i].to]
        BY <3>1 DEF Grouped
      <3> QED BY <3>2
    <2>2. ASSUME NEW i \in 1..n PROVE \E u \in Uids(es) : rs[u].to = es[i].to
      <3>1. PICK u \in Uids(es) : u \in es[i].uids
        BY <1>4
      <3>2. rs[u] = [key |-> k, to |-> es[i].to]
        BY <3>1 DEF Grouped
      <3> QED BY <3>2
    <2> QED BY <2>1, <2>2 DEF Asked
  <1>6. \A u \in Uids(es) : u \in Nat /\ u \in 1..Len(rs) /\ rs[u].key = k
    <2> TAKE u \in Uids(es)
    <2>1. PICK i \in 1..n : u \in es[i].uids
      BY <1>3
    <2>2. u \in 1..Len(rs) /\ rs[u] = [key |-> k, to |-> es[i].to]
      BY <2>1 DEF Grouped
    <2> QED BY <2>2
  <1> QED BY <1>2, <1>5, <1>6 DEF HasRequests

(* Two scans of one key make one. *)
LEMMA MergedIsScan ==
    ASSUME NEW rs \in Seq([key : ScanKeys, to : Addrs]), NEW a, NEW b,
           HasRequests(rs, a), HasRequests(rs, b), a.key = b.key
    PROVE  HasRequests(rs, [a EXCEPT !.uids = @ \cup b.uids])
  <1> DEFINE c == [a EXCEPT !.uids = @ \cup b.uids]
  <1>1. c \in [key : ScanKeys, uids : SUBSET Nat] /\ c.key = a.key /\ c.uids = a.uids \cup b.uids
    BY DEF HasRequests
  <1>2. \A u \in c.uids : u \in 1..Len(rs) /\ rs[u].key = c.key
    BY <1>1 DEF HasRequests
  <1>3. IsFiniteSet(Asked(rs, c.uids))
    <2>1. IsFiniteSet(1..Len(rs))
      BY FS_Interval
    <2>2. IsFiniteSet(c.uids)
      <3>1. c.uids \in SUBSET (1..Len(rs))
        BY <1>2
      <3> HIDE DEF c
      <3> QED BY <2>1, <3>1, FS_Subset
    <2> DEFINE at == [u \in c.uids |-> rs[u].to]
    <2>3. at \in Surjection(c.uids, Asked(rs, c.uids))
      BY DEF Surjection, Asked
    <2> QED BY <2>2, <2>3, FS_Surjection
  <1> HIDE DEF c
  <1>4. Asked(rs, a.uids) \in SUBSET Asked(rs, c.uids)
    BY <1>1 DEF Asked
  <1>5. /\ Cardinality(Asked(rs, a.uids)) \in Nat /\ Cardinality(Asked(rs, c.uids)) \in Nat
        /\ Cardinality(Asked(rs, a.uids)) <= Cardinality(Asked(rs, c.uids))
    BY <1>3, <1>4, FS_Subset, FS_CardinalityType
  <1>6. Cardinality(Asked(rs, c.uids)) >= ScanThreshold
    BY <1>5, ScanAssumption DEF HasRequests
  <1> QED BY <1>1, <1>2, <1>6 DEF HasRequests, c

(* One request: its group, and all the others. *)
LEMMA RequestGrouped ==
    ASSUME ScansInv, NEW k \in ScanKeys, NEW d \in Addrs
    PROVE  Grouped(Append(arpRequests, [key |-> k, to |-> d]), k, WithRequest(k, d))
  <1> DEFINE r == [key |-> k, to |-> d]  rs == Append(arpRequests, r)  uid == Len(arpRequests) + 1
             old == IF k \in DOMAIN cachedRequests THEN cachedRequests[k] ELSE <<>>
             new == [to |-> d, ts |-> scanTime, uids |-> {uid}]
             again(n) == [to |-> d, ts |-> scanTime, uids |-> old[n].uids \cup {uid}]
             es == WithRequest(k, d)
  <1>1. /\ r \in [key : ScanKeys, to : Addrs] /\ r.key = k /\ r.to = d
        /\ arpRequests \in Seq([key : ScanKeys, to : Addrs]) /\ scanTime \in Nat
    BY DEF ScansInv
  <1>2. rs[uid] = r /\ uid \in 1..Len(rs) /\ uid \in Nat
    BY <1>1
  <1>3. Grouped(rs, k, old)
    <2>1. Grouped(arpRequests, k, old)
      <3>1. Grouped(arpRequests, k, <<>>)
        BY DEF Grouped
      <3>2. k \in DOMAIN cachedRequests => Grouped(arpRequests, k, cachedRequests[k])
        BY DEF ScansInv
      <3> QED BY <3>1, <3>2
    <2> HIDE DEF old, r
    <2> QED BY <1>1, <2>1, GroupedGrows
  <1>4. es = IF \A n \in DOMAIN old : old[n].to # d THEN Append(old, new)
             ELSE [n \in DOMAIN old |-> IF old[n].to # d THEN old[n] ELSE again(n)]
    BY DEF WithRequest
  <1>5. new \in Entry /\ new.uids = {uid} /\ new.to = d
    BY <1>1, <1>2 DEF Entry
  <1>6. ASSUME NEW n \in 1..Len(old), old[n].to = d
        PROVE  again(n) \in Entry /\ again(n).uids = old[n].uids \cup {uid} /\ again(n).to = d
    <2>1. old \in Seq(Entry)
      BY <1>3 DEF Grouped
    <2>2. old[n] \in Entry
      <3> HIDE DEF old
      <3> QED BY <1>6, <2>1
    <2> HIDE DEF old, uid
    <2> QED BY <1>1, <1>2, <2>2 DEF Entry
  <1> HIDE DEF old, rs, uid, new, again, es
  <1>7. old \in Seq(Entry) /\ Len(old) \in Nat /\ DOMAIN old = 1..Len(old)
    BY <1>3 DEF Grouped
  <1>8. rs[uid] = [key |-> k, to |-> d]
    BY <1>2 DEF r
  <1>9. CASE \A n \in DOMAIN old : old[n].to # d
    <2>1. /\ es = Append(old, new) /\ es \in Seq(Entry) /\ Len(es) = Len(old) + 1
          /\ \A n \in 1..Len(old) : es[n] = old[n]
          /\ es[Len(old) + 1] = new
      <3>1. es = Append(old, new)
        BY <1>4, <1>9
      <3> QED BY <1>5, <1>7, <3>1
    <2>2. ASSUME NEW n \in 1..Len(es)
          PROVE  es[n].uids # {} /\ \A u \in es[n].uids : u \in 1..Len(rs) /\ rs[u] = [key |-> k, to |-> es[n].to]
      <3>1. CASE n \in 1..Len(old)
        BY <1>3, <2>1, <3>1 DEF Grouped
      <3>2. CASE n = Len(old) + 1
        BY <1>2, <1>5, <1>8, <2>1, <3>2
      <3> QED BY <1>7, <2>1, <3>1, <3>2
    <2>3. ASSUME NEW m \in 1..Len(es), NEW n \in 1..Len(es), es[m].to = es[n].to
          PROVE  m = n
      <3>1. \A i \in 1..Len(old) : es[i].to # d
        BY <1>7, <1>9, <2>1
      <3>2. es[Len(old) + 1].to = d
        BY <1>5, <2>1
      <3>3. CASE m \in 1..Len(old) /\ n \in 1..Len(old)
        BY <1>3, <2>1, <2>3, <3>3 DEF Grouped
      <3>4. CASE m = Len(old) + 1 \/ n = Len(old) + 1
        BY <1>7, <2>1, <2>3, <3>1, <3>2, <3>4
      <3> QED BY <1>7, <2>1, <3>3, <3>4
    <2> QED BY <2>1, <2>2, <2>3 DEF Grouped, es, rs, r
  <1>10. CASE ~(\A n \in DOMAIN old : old[n].to # d)
    <2>1. es = [n \in 1..Len(old) |-> IF old[n].to # d THEN old[n] ELSE again(n)]
      BY <1>4, <1>7, <1>10
    <2>2. ASSUME NEW n \in 1..Len(old)
          PROVE  /\ old[n] \in Entry /\ es[n] \in Entry /\ es[n].to = old[n].to
                 /\ es[n].uids = old[n].uids \/ (old[n].to = d /\ es[n].uids = old[n].uids \cup {uid})
      <3>1. old[n] \in Entry
        BY <1>7
      <3>2. CASE old[n].to # d
        BY <2>1, <3>1, <3>2
      <3>3. CASE old[n].to = d
        BY <1>6, <2>1, <3>1, <3>3
      <3> QED BY <3>1, <3>2, <3>3
    <2>3. es \in Seq(Entry) /\ Len(es) = Len(old)
      <3>1. es \in [1..Len(old) -> Entry]
        BY <2>1, <2>2
      <3> QED BY <1>7, <3>1
    <2>4. ASSUME NEW n \in 1..Len(es)
          PROVE  es[n].uids # {} /\ \A u \in es[n].uids : u \in 1..Len(rs) /\ rs[u] = [key |-> k, to |-> es[n].to]
      <3>1. n \in 1..Len(old)
        BY <2>3
      <3>2. old[n].uids # {} /\ \A u \in old[n].uids : u \in 1..Len(rs) /\ rs[u] = [key |-> k, to |-> old[n].to]
        BY <1>3, <3>1 DEF Grouped
      <3> QED BY <1>2, <1>8, <2>2, <3>1, <3>2
    <2>5. ASSUME NEW m \in 1..Len(es), NEW n \in 1..Len(es), es[m].to = es[n].to
          PROVE  m = n
      <3>1. m \in 1..Len(old) /\ n \in 1..Len(old)
        BY <2>3
      <3>2. old[m].to = old[n].to
        BY <2>2, <2>5, <3>1
      <3> QED BY <1>3, <3>1, <3>2 DEF Grouped
    <2> QED BY <2>3, <2>4, <2>5 DEF Grouped, es, rs, r
  <1> QED BY <1>9, <1>10 DEF es, rs, r

LEMMA ScansStep == ScansInv /\ [ScanNext]_asvars => ScansInv'
  <1> SUFFICES ASSUME ScansInv, [ScanNext]_asvars
               PROVE  ScansInv'
    OBVIOUS
  <1> DEFINE ScanRec == [key : ScanKeys, uids : SUBSET Nat]  Requests == [key : ScanKeys, to : Addrs]
  <1>1. CASE UNCHANGED asvars
    BY <1>1 DEF asvars, ScansInv
  <1>2. ASSUME NEW k \in ScanKeys, NEW d \in Addrs, ArpRequest(k, d)
        PROVE  ScansInv'
    <2> DEFINE r == [key |-> k, to |-> d]  rs == Append(arpRequests, r)  es == WithRequest(k, d)
               scan == IsScan(k, es)  e == [key |-> k, uids |-> Uids(es)]
    <2>1. /\ arpRequests' = rs /\ scanTime' = scanTime /\ timer' = timer /\ held' = held
          /\ \/ scan /\ SetEvidenceArpScan(k, Uids(es)) /\ queue' = queue
             \/ scan /\ KeepRequests(k, es) /\ queue' = Append(queue, e)
             \/ KeepRequests(k, es) /\ queue' = queue
      BY <1>2 DEF ArpRequest
    <2>2. arpRequests \in Seq(Requests) /\ r \in Requests /\ rs \in Seq(Requests)
      BY DEF ScansInv
    <2>3. Grouped(rs, k, es)
      BY RequestGrouped
    <2>4. scan => HasRequests(rs, e)
      BY <2>2, <2>3, GroupIsScan DEF IsScan
    <2> HIDE DEF r, es, e
    <2>5. /\ \A j \in DOMAIN cachedRequests : Grouped(rs, j, cachedRequests[j])
          /\ \A x : HasRequests(arpRequests, x) => HasRequests(rs, x)
      BY <2>2, GroupedGrows, HasRequestsGrows DEF ScansInv
    <2> HIDE DEF rs, scan
    <2>6. KeepRequests(k, es) =>
            /\ DOMAIN cachedRequests' \subseteq ScanKeys /\ reportedScans' = reportedScans
            /\ \A j \in DOMAIN cachedRequests' : Grouped(rs, j, cachedRequests'[j])
      BY <2>3, <2>5 DEF KeepRequests, ScansInv
    <2>7. scan /\ SetEvidenceArpScan(k, Uids(es)) =>
            /\ DOMAIN cachedRequests' \subseteq ScanKeys
            /\ \A j \in DOMAIN cachedRequests' : Grouped(rs, j, cachedRequests'[j])
            /\ \A x \in reportedScans' : x \in reportedScans \/ (k \notin TrustedKeys /\ x = e)
      BY <2>5 DEF SetEvidenceArpScan, WithoutKeys, ScanEvidence, ScansInv, e
    <2>8. queue \in Seq(ScanRec) /\ \A n \in 1..Len(queue) : HasRequests(rs, queue[n])
      BY <2>5 DEF ScansInv
    <2>9. scan /\ queue' = Append(queue, e) =>
            queue' \in Seq(ScanRec) /\ \A n \in 1..Len(queue') : HasRequests(rs, queue'[n])
      <3>1. scan => e \in ScanRec
        BY <2>4 DEF HasRequests
      <3> QED BY <2>4, <2>8, <3>1
    <2>10. queue' \in Seq(ScanRec) /\ \A n \in 1..Len(queue') : HasRequests(rs, queue'[n])
      BY <2>1, <2>8, <2>9
    <2>11. \A x \in reportedScans' : x.key \notin TrustedKeys /\ HasRequests(rs, x)
      <3>1. \A x \in reportedScans : x.key \notin TrustedKeys /\ HasRequests(rs, x)
        BY <2>5 DEF ScansInv
      <3>2. e.key = k
        BY DEF e
      <3> QED BY <2>1, <2>4, <2>6, <2>7, <3>1, <3>2
    <2>12. timer' \in {"merge", "report"} => HasRequests(rs, held')
      BY <2>1, <2>5 DEF ScansInv
    <2>13. DOMAIN cachedRequests' \subseteq ScanKeys /\ \A j \in DOMAIN cachedRequests' : Grouped(rs, j, cachedRequests'[j])
      BY <2>1, <2>6, <2>7
    <2>14. scanTime' \in Nat
      BY <2>1 DEF ScansInv
    <2> QED BY <2>1, <2>2, <2>10, <2>11, <2>12, <2>13, <2>14 DEF ScansInv
  <1>3. ASSUME NEW k \in ScanKeys, ScansTwClosed(k)
        PROVE  ScansInv'
    BY <1>3 DEF ScansTwClosed, WithoutKeys, ScansInv
  <1>4. CASE Take
    <2>1. queue \in Seq(ScanRec) /\ queue # <<>>
      BY <1>4 DEF Take, ScansInv
    <2> DEFINE q == queue
    <2>2. /\ Tail(q) \in Seq(ScanRec) /\ Len(Tail(q)) = Len(q) - 1 /\ Len(q) \in Nat \ {0}
          /\ \A n \in 1..Len(Tail(q)) : Tail(q)[n] = q[n + 1]
          /\ Head(q) = q[1]
      BY <2>1, HeadTailProperties
    <2>3. /\ UNCHANGED <<scanTime, arpRequests, cachedRequests, reportedScans>>
          /\ held' = Head(q) /\ queue' = Tail(q)
      BY <1>4 DEF Take
    <2>4. \A n \in 1..Len(queue') : HasRequests(arpRequests, queue'[n])
      BY <2>2, <2>3 DEF ScansInv
    <2>5. HasRequests(arpRequests, held')
      BY <2>2, <2>3 DEF ScansInv
    <2> QED BY <2>2, <2>3, <2>4, <2>5 DEF ScansInv
  <1>5. CASE Merge
    <2>1. /\ UNCHANGED <<scanTime, arpRequests, cachedRequests, reportedScans>>
          /\ timer = "merge" /\ HasRequests(arpRequests, held)
      BY <1>5 DEF Merge, ScansInv
    <2>2. CASE queue = <<>> /\ UNCHANGED <<queue, held>>
      BY <2>1, <2>2 DEF ScansInv
    <2>3. CASE /\ queue # <<>>
               /\ \/ /\ Head(queue).key = held.key
                     /\ held' = [held EXCEPT !.uids = @ \cup Head(queue).uids]
                     /\ queue' = Tail(queue)
                  \/ held' = held /\ queue' = Append(Tail(queue), Head(queue))
      <3> DEFINE q == queue
      <3>1. /\ q \in Seq(ScanRec) /\ Tail(q) \in Seq(ScanRec) /\ Len(Tail(q)) = Len(q) - 1 /\ Len(q) \in Nat \ {0}
            /\ \A n \in 1..Len(Tail(q)) : Tail(q)[n] = q[n + 1]
            /\ Head(q) = q[1] /\ Head(q) \in ScanRec
        <4>1. queue \in Seq(ScanRec) /\ queue # <<>>
          BY <2>3 DEF ScansInv
        <4> HIDE DEF ScanRec
        <4> QED BY <4>1, HeadTailProperties
      <3>2. HasRequests(arpRequests, Head(q)) /\ \A n \in 1..Len(Tail(q)) : HasRequests(arpRequests, Tail(q)[n])
        BY <3>1 DEF ScansInv
      <3>3. HasRequests(arpRequests, held')
        <4>1. arpRequests \in Seq([key : ScanKeys, to : Addrs])
          BY DEF ScansInv
        <4>2. CASE Head(q).key = held.key /\ held' = [held EXCEPT !.uids = @ \cup Head(q).uids]
          BY <2>1, <3>2, <4>1, <4>2, MergedIsScan
        <4>3. CASE held' = held
          BY <2>1, <4>3
        <4> QED BY <2>3, <4>2, <4>3
      <3> DEFINE back == Append(Tail(q), Head(q))
      <3>4. back \in Seq(ScanRec) /\ \A n \in 1..Len(back) : HasRequests(arpRequests, back[n])
        <4> DEFINE t == Tail(q)  h == Head(q)
        <4>1. t \in Seq(ScanRec) /\ h \in ScanRec /\ back = Append(t, h)
          BY <3>1
        <4> HIDE DEF t, h, back
        <4>2. HasRequests(arpRequests, h) /\ \A n \in 1..Len(t) : HasRequests(arpRequests, t[n])
          BY <3>2 DEF t, h
        <4> QED BY <4>1, <4>2
      <3>5. queue' \in Seq(ScanRec) /\ \A n \in 1..Len(queue') : HasRequests(arpRequests, queue'[n])
        BY <2>3, <3>1, <3>2, <3>4
      <3> QED BY <2>1, <3>3, <3>5 DEF ScansInv
    <2> QED BY <1>5, <2>2, <2>3 DEF Merge
  <1>6. CASE ReportScan
    <2> DEFINE e == [key |-> held.key, uids |-> held.uids]
    <2>1. /\ UNCHANGED <<scanTime, arpRequests, queue>> /\ timer' = "get"
          /\ cachedRequests' = WithoutKeys({held.key})
          /\ \A x \in reportedScans' : x \in reportedScans \/ (held.key \notin TrustedKeys /\ x = e)
      BY <1>6 DEF ReportScan, SetEvidenceArpScan, ScanEvidence
    <2>2. HasRequests(arpRequests, e) /\ e.key = held.key
      <3>1. HasRequests(arpRequests, held)
        BY <1>6 DEF ReportScan, ScansInv
      <3>2. e = held
        BY <3>1 DEF HasRequests
      <3> QED BY <3>1, <3>2
    <2> HIDE DEF e
    <2> QED BY <2>1, <2>2 DEF ScansInv, WithoutKeys
  <1>7. CASE ScanTick
    BY <1>7 DEF ScanTick, ScansInv
  <1> QED BY <1>1, <1>2, <1>3, <1>4, <1>5, <1>6, <1>7 DEF ScanNext, Timer

(* However main() and the timer thread share the requests and the queue, an  *)
(* ARP scan is reported with requests of its own profile, for as many        *)
(* addresses as a scan needs and never of a trusted peer: for any threshold, *)
(* slack, keys and addresses, and wherever keys are dropped by their text.   *)
THEOREM ScansHaveTheirRequests == ScanSpec => []ScanHasItsRequests
  <1>1. ScanInit => ScansInv
    <2> SUFFICES ASSUME ScanInit PROVE ScansInv
      OBVIOUS
    <2>1. timer \notin {"merge", "report"}
      BY DEF ScanInit
    <2> QED BY <2>1 DEF ScanInit, ScansInv
  <1>2. ScansInv => ScanHasItsRequests
    BY DEF ScansInv, HasRequests, Asked, ScanHasItsRequests
  <1> QED BY <1>1, <1>2, ScansStep, PTL DEF ScanSpec

=============================================================================
