-------------------------- MODULE ThreatIntelProofs --------------------------
(***************************************************************************)
(* Proofs about ThreatIntel: the local list of addresses and domains is    *)
(* exact when it counts as loaded, wherever a run was killed, whatever     *)
(* the feeds bring and whatever is looked up.  The bounds play no part but *)
(* that MaxVersion is a number and None is none.  About P2PTrust: opinions *)
(* have their reporters.  About ThreatFeeds: a feed that counts as up to   *)
(* date is loaded, as long as updates do not overlap.                      *)
(***************************************************************************)
EXTENDS ThreatIntel, P2PTrust, ThreatFeeds, TLAPS

Pcs == {"next", "read", "delete domains", "parse", "add domains", "hash", "on", "write back", "off"}

Hashes == Versions \cup {None}

Types ==
    /\ file \in [ListNames -> Versions] /\ hash \in [ListNames -> Hashes]
    /\ local \subseteq Iocs
    /\ ti \in Pcs /\ reading \in 1..5

(* The stored hash is that of a version the list had. *)
HashIsOld == hash[OwnLines] # None => hash[OwnLines] <= file[OwnLines]

(* What is certain of the local entries at each step of reading the list. *)
Reading ==
    reading = 1 /\ ti \notin {"next", "on", "write back", "off"} =>
        /\ ~IsLoaded
        /\ ti \in {"read", "delete domains"} => hash[OwnLines] # None
        /\ ti = "delete domains" => local \cap IocIPs = {}
        /\ ti = "parse" /\ hash[OwnLines] # None => local = {}
        /\ ti \in {"add domains", "hash"} /\ hash[OwnLines] # None => local \subseteq Parsed
        /\ ti = "add domains" => (Parsed \cap IocIPs) \ FeedIocs \subseteq local
        /\ ti = "hash" => Parsed \ FeedIocs \subseteq local

Complete == IsLoaded => Parsed \ FeedIocs \subseteq local

(* What main() found, and is about to write back: no local entry unless the *)
(* list is its source, and then one still, or one a feed took over.         *)
Found ==
    ti = "write back" =>
        /\ looked.source \in {"local", "feed"}
        /\ looked.source = "feed" => looked.ip \notin local
        /\ looked.source = "local" => looked.ip \in local \cup FeedIocs
        /\ looked.ip \in IocIPs

IInv == Types /\ HashIsOld /\ Reading /\ Complete /\ Found

LEMMA TheLists ==
  /\ Len(Lists) = 4
  /\ ListNames = {OwnLines, "own_malicious_JA3", "own_malicious_JARM", "known_fp_md5_hashes"}
  /\ \A k \in 1..4 : Lists[k] \in ListNames /\ (Lists[k] = OwnLines <=> k = 1)
  /\ HashLists = ListNames \ {OwnLines}
  <1>1. /\ Len(Lists) = 4 /\ Lists[1] = OwnLines /\ Lists[2] = "own_malicious_JA3"
        /\ Lists[3] = "own_malicious_JARM" /\ Lists[4] = "known_fp_md5_hashes"
    BY DEF Lists, OwnLines
  <1>2. \A k \in 1..4 : k = 1 \/ k = 2 \/ k = 3 \/ k = 4
    OBVIOUS
  <1> QED BY <1>1, <1>2 DEF ListNames, OwnLines, HashLists

LEMMA ReadsAList ==
  ASSUME reading \in 1..5, NEW at, Reads(at)
  PROVE  /\ reading \in 1..4 /\ Name \in ListNames /\ (Name = OwnLines <=> reading = 1) /\ ti = at
         /\ UNCHANGED <<looked, stopAsked, starts, lookups>>
  <1>1. reading <= 4
    <2>1. reading <= Len(Lists)
      BY DEF Reads
    <2> QED BY <2>1, TheLists, Zenon
  <1>2. reading \in 1..4
    BY <1>1
  <1>3. Name \in ListNames /\ (Name = OwnLines <=> reading = 1)
    BY <1>2, TheLists, Zenon DEF Name
  <1> QED BY <1>2, <1>3 DEF Reads, resultVars

LEMMA VersionFacts ==
  ASSUME None \notin Nat, MaxVersion \in Nat
  PROVE  /\ \A v \in Versions : v \in Nat /\ v # None /\ v \in Hashes
         /\ \A v \in Versions : v < MaxVersion => v + 1 \in Versions
         /\ \A h \in Hashes : h # None => h \in Nat
         /\ None \in Hashes /\ 0 \in Versions
  <1>1. \A v \in Versions : v \in Nat /\ (v < MaxVersion => v + 1 \in Versions)
    BY DEF Versions
  <1>2. 0 \in Versions
    BY DEF Versions
  <1> QED BY <1>1, <1>2, Zenon DEF Hashes

LEMMA InitOK ==
  ASSUME None \notin Nat, MaxVersion \in Nat
  PROVE  IntelInit => IInv
  BY TheLists, VersionFacts DEF IntelInit, IInv, Types, HashIsOld, Reading, Complete, Found, Pcs, IsLoaded

(* Where the list, its hash and its version stay, so does what it holds. *)
LEMMA SameList ==
  ASSUME UNCHANGED file
  PROVE  Parsed' = Parsed
  BY DEF Parsed, AfterFirst

(* The steps that add nothing to the list: those that rest with no reading *)
(* in progress, and those after which reading and main() go on as before.  *)
LEMMA Rests ==
  ASSUME IInv, UNCHANGED <<file, hash>>, local' \subseteq local, local \ local' \subseteq FeedIocs,
         ti' \in {"next", "on", "off"}, reading' \in 1..5
  PROVE  IInv'
  <1>1. Parsed' = Parsed /\ IsLoaded' = IsLoaded
    BY SameList DEF IsLoaded
  <1>2. Types' /\ HashIsOld'
    BY DEF IInv, Types, Pcs, HashIsOld
  <1>3. Complete'
    BY <1>1 DEF IInv, Complete
  <1>4. Found' /\ Reading'
    BY DEF Found, Reading
  <1> QED BY <1>2, <1>3, <1>4 DEF IInv

LEMMA GoesOn ==
  ASSUME IInv, UNCHANGED <<file, hash, ti, reading, looked>>,
         local' \subseteq local, local \ local' \subseteq FeedIocs
  PROVE  IInv'
  <1>1. Parsed' = Parsed /\ IsLoaded' = IsLoaded
    BY SameList DEF IsLoaded
  <1>2. Types' /\ HashIsOld'
    BY DEF IInv, Types, HashIsOld
  <1>3. Complete'
    BY <1>1 DEF IInv, Complete
  <1>4. Found'
    BY DEF IInv, Found
  <1>5. Reading'
    BY <1>1 DEF IInv, Reading
  <1> QED BY <1>2, <1>3, <1>4, <1>5 DEF IInv

LEMMA ReadStep ==
  ASSUME None \notin Nat, MaxVersion \in Nat, IInv, Read
  PROVE  IInv'
  <1>0. reading \in 1..5 /\ Types
    BY DEF IInv, Types
  <1>h. OwnLines \notin HashLists
    BY TheLists
  <1>1. CASE ShouldUpdate
    <2>1. /\ reading \in 1..4 /\ (Name = OwnLines <=> reading = 1) /\ Name \in ListNames /\ ti = "next"
          /\ UNCHANGED <<cacheVars, looked>>
      BY <1>0, <1>1, ReadsAList DEF ShouldUpdate
    <2>2. CASE hash[Name] = file[Name]
      BY <1>1, <2>1, <2>2, Rests DEF ShouldUpdate, cacheVars
    <2>3. CASE hash[Name] # file[Name]
      <3>1. /\ reading' = reading /\ ti' \in {"parse", "read"}
            /\ ti' = "parse" <=> hash[Name] = None
        BY <1>1, <2>3 DEF ShouldUpdate
      <3>2. Parsed' = Parsed /\ IsLoaded' = IsLoaded
        BY <2>1, SameList DEF cacheVars, IsLoaded
      <3>3. Types' /\ HashIsOld' /\ Complete' /\ Found'
        BY <2>1, <3>1, <3>2 DEF cacheVars, IInv, Types, Pcs, HashIsOld, Complete, Found
      <3>4. Reading'
        BY <2>1, <2>3, <3>1, <3>2 DEF cacheVars, Reading, IsLoaded
      <3> QED BY <3>3, <3>4 DEF IInv
    <2> QED BY <2>2, <2>3
  <1>2. CASE DeleteOldIps
    <2>1. /\ (Name = OwnLines <=> reading = 1) /\ ti = "read" /\ ti' = "delete domains"
          /\ UNCHANGED <<file, hash, reading, looked>> /\ local' \subseteq local
      BY <1>0, <1>2, ReadsAList DEF DeleteOldIps
    <2>2. Parsed' = Parsed /\ IsLoaded' = IsLoaded
      BY <2>1, SameList DEF IsLoaded
    <2>3. reading = 1 => local' \cap IocIPs = {}
      BY <1>2, <1>h, <2>1 DEF DeleteOldIps
    <2>4. reading # 1 => local' = local
      <3>1. ASSUME reading # 1 PROVE Name \in HashLists
        BY <1>0, <1>2, <3>1, ReadsAList, TheLists DEF DeleteOldIps
      <3> QED BY <1>2, <3>1 DEF DeleteOldIps
    <2>5. Complete'
      BY <2>1, <2>2, <2>4 DEF IInv, Complete, Reading
    <2>6. Reading'
      BY <2>1, <2>2, <2>3 DEF IInv, Reading
    <2> QED BY <2>1, <2>5, <2>6 DEF IInv, Types, Pcs, HashIsOld, Found
  <1>3. CASE DeleteOldDomains
    <2>1. /\ (Name = OwnLines <=> reading = 1) /\ ti = "delete domains" /\ ti' = "parse"
          /\ UNCHANGED <<file, hash, reading, looked>> /\ local' \subseteq local
      BY <1>0, <1>3, ReadsAList DEF DeleteOldDomains
    <2>2. Parsed' = Parsed /\ IsLoaded' = IsLoaded
      BY <2>1, SameList DEF IsLoaded
    <2>3. reading = 1 => local' = {}
      BY <1>3, <1>h, <2>1 DEF DeleteOldDomains, IInv, Reading, Types, Iocs
    <2>4. reading # 1 => local' = local
      <3>1. ASSUME reading # 1 PROVE Name \in HashLists
        BY <1>0, <1>3, <3>1, ReadsAList, TheLists DEF DeleteOldDomains
      <3> QED BY <1>3, <3>1 DEF DeleteOldDomains
    <2>5. Complete'
      BY <2>1, <2>2, <2>4 DEF IInv, Complete, Reading
    <2>6. Reading'
      BY <2>1, <2>2, <2>3 DEF IInv, Reading
    <2> QED BY <2>1, <2>5, <2>6 DEF IInv, Types, Pcs, HashIsOld, Found
  <1>4. CASE AddIps
    <2>1. /\ reading = 1 /\ ti = "parse"
          /\ UNCHANGED <<file, hash, reading, looked>>
      <3>1. Name \in ListNames /\ (Name = OwnLines <=> reading = 1)
        BY <1>0, <1>4, ReadsAList DEF AddIps
      <3>2. Name = OwnLines
        BY <1>4, <3>1, TheLists DEF AddIps
      <3> QED BY <1>0, <1>4, <3>1, <3>2, ReadsAList DEF AddIps
    <2>2. Parsed' = Parsed /\ IsLoaded' = IsLoaded
      BY <2>1, SameList DEF IsLoaded
    <2>3. CASE ti' = "off"
      <3>1. local' = local
        BY <1>4, <2>3 DEF AddIps
      <3> QED BY <1>0, <2>1, <2>3, <3>1, Rests
    <2>4. CASE ti' # "off"
      <3>1. ti' = "add domains" /\ local' = local \cup (Parsed \cap IocIPs)
        BY <1>4, <2>4 DEF AddIps, Add
      <3>2. Reading'
        BY <2>1, <2>2, <3>1 DEF IInv, Reading
      <3>3. Complete'
        BY <2>1, <2>2, <3>1 DEF IInv, Complete, Reading
      <3>4. local' \subseteq Iocs
        BY <1>0, <3>1 DEF Types, Iocs
      <3> QED BY <2>1, <3>1, <3>2, <3>3, <3>4 DEF IInv, Types, Pcs, HashIsOld, Found
    <2> QED BY <2>3, <2>4
  <1>5. CASE AddDomains
    <2>1. /\ (Name = OwnLines <=> reading = 1) /\ ti = "add domains" /\ ti' = "hash"
          /\ UNCHANGED <<file, hash, reading, looked>>
          /\ local' = local \cup (Parsed \cap Domains)
      BY <1>0, <1>5, ReadsAList DEF AddDomains, Add
    <2>2. Parsed' = Parsed /\ IsLoaded' = IsLoaded
      BY <2>1, SameList DEF IsLoaded
    <2>3. Parsed \subseteq IocIPs \cup Domains
      BY DEF Parsed, Iocs
    <2>4. Reading'
      BY <2>1, <2>2, <2>3 DEF IInv, Reading
    <2>5. Complete'
      BY <2>1, <2>2 DEF IInv, Complete
    <2>6. local' \subseteq Iocs
      BY <1>0, <2>1 DEF Types, Iocs
    <2> QED BY <2>1, <2>4, <2>5, <2>6 DEF IInv, Types, Pcs, HashIsOld, Found
  <1>6. CASE AddHashes
    <2>1. /\ reading # 1 /\ ti' \in {"off", "hash"}
          /\ UNCHANGED <<file, hash, reading, looked, local>>
      <3>1. Name = OwnLines <=> reading = 1
        BY <1>0, <1>6, ReadsAList DEF AddHashes
      <3>2. Name \in HashLists /\ UNCHANGED looked
        BY <1>0, <1>6, ReadsAList DEF AddHashes
      <3> QED BY <1>6, <1>h, <3>1, <3>2 DEF AddHashes
    <2>2. Parsed' = Parsed /\ IsLoaded' = IsLoaded
      BY <2>1, SameList DEF IsLoaded
    <2> QED BY <2>1, <2>2 DEF IInv, Types, Pcs, HashIsOld, Complete, Found, Reading
  <1>7. CASE StoreHash
    <2>1. /\ reading \in 1..4 /\ (Name = OwnLines <=> reading = 1) /\ Name \in ListNames /\ ti = "hash"
          /\ UNCHANGED <<file, local>> /\ ti' = "next" /\ reading' = reading + 1
          /\ hash' = [hash EXCEPT ![Name] = file[Name]]
      BY <1>0, <1>7, ReadsAList DEF StoreHash
    <2>2. Parsed' = Parsed
      BY <2>1, SameList
    <2>3. OwnLines \in ListNames /\ file[OwnLines] \in Nat
      BY <1>0, TheLists, VersionFacts DEF Types
    <2>4. Types'
      BY <1>0, <2>1, VersionFacts DEF Types, Pcs
    <2>5. HashIsOld'
      BY <1>0, <2>1, <2>3 DEF Types, IInv, HashIsOld
    <2>6. Found' /\ Reading'
      BY <2>1 DEF Found, Reading
    <2>7. Complete'
      <3>1. CASE reading = 1
        BY <2>1, <2>2, <3>1 DEF IInv, Reading, Complete
      <3>2. CASE reading # 1
        <4>1. hash'[OwnLines] = hash[OwnLines]
          BY <1>0, <2>1, <2>3, <3>2 DEF Types
        <4> QED BY <2>1, <2>2, <4>1 DEF IInv, Complete, IsLoaded
      <3> QED BY <3>1, <3>2
    <2> QED BY <2>4, <2>5, <2>6, <2>7 DEF IInv
  <1>8. CASE Loaded
    BY <1>0, <1>8, Rests DEF Loaded, cacheVars
  <1> QED BY <1>1, <1>2, <1>3, <1>4, <1>5, <1>6, <1>7, <1>8 DEF Read

LEMMA SourceFacts ==
  ASSUME NEW a, Source(a) # None
  PROVE  /\ Source(a) \in {"local", "feed"}
         /\ Source(a) = "local" => a \in local
         /\ Source(a) = "feed" => a \notin local
  <1>1. CASE a \in local
    BY <1>1 DEF Source
  <1>2. CASE a \notin local
    BY <1>2 DEF Source
  <1> QED BY <1>1, <1>2

LEMMA LookupStep ==
  ASSUME None \notin Nat, MaxVersion \in Nat, IInv, Lookup
  PROVE  IInv'
  <1>0. reading \in 1..5
    BY DEF IInv, Types
  <1>1. ASSUME NEW a \in IocIPs, NEW met, NEW q, LookupIP(a, met, q) PROVE IInv'
    <2>1. UNCHANGED <<file, hash, local, reading>>
      BY <1>1 DEF LookupIP, Receive, cacheVars
    <2>2. ti' \in {"on", "off"} \/ (ti' = "write back" /\ IsMaliciousIp(a, met) /\ Source(a) # None)
      BY <1>1 DEF LookupIP, Receive, Nothing, MatchSubdomain, IsMaliciousIp
    <2>3. CASE ti' \in {"on", "off"}
      BY <1>0, <2>1, <2>3, Rests
    <2>4. CASE ti' # "on" /\ ti' # "off"
      <3>1. looked' = [ip |-> a, met |-> met, source |-> Source(a)]
        BY <2>2, <2>4 DEF IsMaliciousIp
      <3>2. /\ Source(a) \in {"local", "feed"}
            /\ Source(a) = "local" => a \in local
            /\ Source(a) = "feed" => a \notin local
        BY <2>2, <2>4, SourceFacts
      <3>3. Found'
        BY <2>1, <3>1, <3>2 DEF Found
      <3>4. Parsed' = Parsed
        BY <2>1, SameList
      <3> QED BY <2>1, <2>2, <2>4, <3>3, <3>4
              DEF IInv, Types, Pcs, HashIsOld, Reading, Complete, IsLoaded
    <2> QED BY <2>3, <2>4
  <1>2. CASE WriteBack
    <2>1. UNCHANGED <<file, hash, reading>> /\ ti' = "on"
      BY <1>2 DEF WriteBack
    <2>2. Parsed' = Parsed
      BY <2>1, SameList
    <2>3. local \subseteq local' /\ local' \subseteq Iocs
      BY <1>2 DEF WriteBack, IInv, Found, Types, Iocs
    <2> QED BY <2>1, <2>2, <2>3 DEF IInv, Types, Pcs, HashIsOld, Reading, Complete, Found, IsLoaded
  <1>3. ASSUME NEW d, LookupDomain(d) \/ LookupCname(d) PROVE IInv'
    <2>1. UNCHANGED <<file, hash, local, reading>> /\ ti' \in {"on", "off"}
      BY <1>3 DEF LookupDomain, LookupCname, Receive, cacheVars, Nothing, MatchSubdomain
    <2> QED BY <1>0, <2>1, Rests
  <1>4. ASSUME NEW answer, LookupUrl(answer) PROVE IInv'
    <2>1. UNCHANGED <<file, hash, local, reading>> /\ ti' \in {"on", "off"}
      BY <1>4 DEF LookupUrl, Receive, cacheVars, Nothing
    <2> QED BY <1>0, <2>1, Rests
  <1>5. CASE LookupHash
    BY <1>0, <1>5, Rests DEF LookupHash, Receive, cacheVars, Nothing
  <1> QED BY <1>1, <1>2, <1>3, <1>4, <1>5 DEF Lookup

LEMMA EditStep ==
  ASSUME None \notin Nat, MaxVersion \in Nat, IInv, NEW n \in ListNames, Edit(n), Editable \subseteq ListNames
  PROVE  IInv'
  <1>0. Types
    BY DEF IInv
  <1>1. /\ file' = [file EXCEPT ![n] = @ + 1] /\ file[n] < MaxVersion
        /\ UNCHANGED <<hash, local, ti, reading, looked>> /\ ti \in {"on", "write back", "off"}
    BY DEF Edit, readVars, resultVars
  <1>2. Types'
    BY <1>0, <1>1, VersionFacts DEF Types
  <1>3. OwnLines \in ListNames /\ file[OwnLines] \in Nat /\ file'[OwnLines] \in Nat /\ file[OwnLines] <= file'[OwnLines]
    <2>1. OwnLines \in ListNames /\ file[OwnLines] \in Nat
      BY <1>0, TheLists, VersionFacts DEF Types
    <2>2. file'[OwnLines] = file[OwnLines] \/ file'[OwnLines] = file[OwnLines] + 1
      BY <1>0, <1>1, <2>1 DEF Types
    <2> QED BY <2>1, <2>2
  <1>4. hash[OwnLines] # None => hash[OwnLines] \in Nat
    BY <1>0, <1>3, VersionFacts DEF Types
  <1>a. hash'[OwnLines] = hash[OwnLines]
    BY <1>1
  <1>h. hash[OwnLines] # None => hash[OwnLines] <= file[OwnLines]
    BY DEF IInv, HashIsOld
  <1>5. HashIsOld'
    BY <1>a, <1>3, <1>4, <1>h DEF HashIsOld
  <1>6. Complete'
    <2>1. CASE n = OwnLines
      <3>1. ~IsLoaded'
        <4>1. file'[OwnLines] = file[OwnLines] + 1
          BY <1>0, <1>1, <1>3, <2>1 DEF Types
        <4>2. hash'[OwnLines] # None => hash'[OwnLines] < file'[OwnLines]
          BY <1>a, <1>3, <1>4, <1>h, <4>1
        <4>3. file'[OwnLines] # None
          BY <1>3
        <4> QED BY <1>a, <1>3, <1>4, <4>2, <4>3 DEF IsLoaded
      <3> QED BY <3>1 DEF Complete
    <2>2. CASE n # OwnLines
      <3>1. file'[OwnLines] = file[OwnLines]
        BY <1>0, <1>1, <1>3, <2>2 DEF Types
      <3>2. Parsed' = Parsed /\ IsLoaded' = IsLoaded
        BY <1>1, <3>1 DEF Parsed, AfterFirst, IsLoaded, OwnLines
      <3> QED BY <1>1, <3>2 DEF IInv, Complete
    <2> QED BY <2>1, <2>2
  <1>7. Found' /\ Reading'
    BY <1>1 DEF IInv, Found, Reading
  <1> QED BY <1>2, <1>5, <1>6, <1>7 DEF IInv

LEMMA OtherStep ==
  ASSUME IInv,
         \/ AskToStop \/ Stop \/ Kill \/ Restart \/ UNCHANGED tivars
         \/ \E i \in FeedIocs : FeedAdds(i) \/ FeedDrops(i)
  PROVE  IInv'
  <1>0. reading \in 1..5
    BY DEF IInv, Types
  <1>1. CASE AskToStop \/ UNCHANGED tivars
    BY <1>1, GoesOn DEF AskToStop, tivars, cacheVars, readVars, resultVars
  <1>2. CASE Stop \/ Kill \/ Restart
    BY <1>0, <1>2, Rests DEF Stop, Kill, Restart, cacheVars
  <1>3. ASSUME NEW i \in FeedIocs, FeedAdds(i) PROVE IInv'
    BY <1>3, GoesOn DEF FeedAdds, readVars, resultVars
  <1>4. ASSUME NEW i \in FeedIocs, FeedDrops(i) PROVE IInv'
    BY <1>4, GoesOn DEF FeedDrops, readVars, resultVars
  <1> QED BY <1>1, <1>2, <1>3, <1>4

LEMMA Step ==
  ASSUME None \notin Nat, MaxVersion \in Nat, Editable \subseteq ListNames
  PROVE  IInv /\ [IntelNext]_tivars => IInv'
  BY ReadStep, LookupStep, EditStep, OtherStep DEF IntelNext

LEMMA ExactStep ==
  ASSUME None \notin Nat, MaxVersion \in Nat, Editable \subseteq ListNames, IInv, IInv', [IntelNext]_tivars, IsLoaded'
  PROVE  /\ (Parsed \ FeedIocs)' \subseteq local'
         /\ IsLoaded => local' \subseteq local \cup Parsed \cup FeedIocs
         /\ ~IsLoaded /\ hash[OwnLines] # None => local' \subseteq Parsed'
  <1>0. Types /\ reading \in 1..5
    BY DEF IInv, Types
  <1>1. (Parsed \ FeedIocs)' \subseteq local'
    BY DEF IInv, Complete
  <1>2. ASSUME IsLoaded PROVE local' \subseteq local \cup Parsed \cup FeedIocs
    <2>1. CASE Read
      <3>1. CASE AddIps \/ AddDomains
        <4>1. local' \subseteq local \cup Parsed
          BY <3>1 DEF AddIps, AddDomains, Add
        <4> QED BY <4>1
      <3>2. CASE ~(AddIps \/ AddDomains)
        BY <2>1, <3>2 DEF Read, ShouldUpdate, DeleteOldIps, DeleteOldDomains, AddHashes, StoreHash, Loaded, cacheVars
      <3> QED BY <3>1, <3>2
    <2>2. CASE WriteBack
      BY <2>2 DEF WriteBack, IInv, Found
    <2>3. CASE Lookup /\ ~WriteBack
      BY <2>3 DEF Lookup, LookupIP, LookupDomain, LookupCname, LookupUrl, LookupHash, Receive, cacheVars
    <2>4. CASE ~Read /\ ~Lookup
      BY <2>4 DEF IntelNext, AskToStop, Stop, Kill, Restart, Edit, FeedAdds, FeedDrops, tivars, cacheVars
    <2> QED BY <2>1, <2>2, <2>3, <2>4
  <1>3. ASSUME ~IsLoaded, hash[OwnLines] # None PROVE local' \subseteq Parsed'
    <2>1. StoreHash /\ reading = 1
      <3>1. CASE StoreHash
        <4>1. (Name = OwnLines <=> reading = 1) /\ hash' = [hash EXCEPT ![Name] = file[Name]] /\ UNCHANGED file
          BY <1>0, <3>1, ReadsAList DEF StoreHash
        <4>2. OwnLines \in ListNames
          BY TheLists
        <4> QED BY <1>0, <1>3, <3>1, <4>1, <4>2 DEF Types, IsLoaded
      <3>2. CASE Read /\ ~StoreHash
        BY <1>3, <3>2 DEF Read, ShouldUpdate, DeleteOldIps, DeleteOldDomains, AddIps, AddDomains, AddHashes, Loaded, cacheVars, IsLoaded
      <3>3. CASE Lookup
        BY <1>3, <3>3 DEF Lookup, LookupIP, WriteBack, LookupDomain, LookupCname, LookupUrl, LookupHash, Receive, cacheVars, IsLoaded
      <3>4. ASSUME NEW n \in ListNames, Edit(n) PROVE FALSE
        <4>1. file' = [file EXCEPT ![n] = @ + 1] /\ hash' = hash
          BY <3>4 DEF Edit
        <4>2. OwnLines \in ListNames /\ file[OwnLines] \in Nat /\ hash[OwnLines] \in Nat
          BY <1>0, <1>3, TheLists, VersionFacts DEF Types
        <4>3. file'[OwnLines] = file[OwnLines] \/ file'[OwnLines] = file[OwnLines] + 1
          BY <1>0, <4>1, <4>2 DEF Types
        <4> QED BY <1>3, <4>1, <4>2, <4>3 DEF IInv, HashIsOld, IsLoaded
      <3>5. CASE AskToStop \/ Stop \/ Kill \/ Restart \/ UNCHANGED tivars \/ \E i \in FeedIocs : FeedAdds(i) \/ FeedDrops(i)
        BY <1>3, <3>5 DEF AskToStop, Stop, Kill, Restart, FeedAdds, FeedDrops, tivars, cacheVars, IsLoaded
      <3> QED BY <3>1, <3>2, <3>3, <3>4, <3>5 DEF IntelNext
    <2>2. Parsed' = Parsed /\ local' = local
      BY <2>1, SameList DEF StoreHash
    <2>3. ti = "hash"
      BY <2>1 DEF StoreHash, Reads
    <2> QED BY <1>3, <2>1, <2>2, <2>3 DEF IInv, Reading
  <1> QED BY <1>1, <1>2, <1>3

(***************************************************************************)
(* The local list is exact whenever it counts as loaded: complete in every *)
(* case, with nothing left of an older list that was stored, and nothing   *)
(* added to it by lookups while it counts as loaded.                       *)
(***************************************************************************)
THEOREM LoadedListExact ==
  ASSUME None \notin Nat, MaxVersion \in Nat, Editable \subseteq ListNames
  PROVE  IntelSpec => LoadedListIsExact
  <1>1. IntelInit => IInv
    BY InitOK
  <1>2. IInv /\ [IntelNext]_tivars => IInv'
    BY Step
  <1>3. IInv /\ IInv' /\ [IntelNext]_tivars =>
          [IsLoaded' =>
             /\ (Parsed \ FeedIocs)' \subseteq local'
             /\ IsLoaded => local' \subseteq local \cup Parsed \cup FeedIocs
             /\ ~IsLoaded /\ hash[OwnLines] # None => local' \subseteq Parsed']_tivars
    BY ExactStep
  <1> QED BY <1>1, <1>2, <1>3, PTL DEF IntelSpec, LoadedListIsExact
-----------------------------------------------------------------------------
(* P2PTrust: what the peers of the network may make SmartShield believe.    *)

Reports == [by : Peers, of : PeerIPs, score : Scores, sure : BOOLEAN, ts : Nat]
Opinions == [score : Scores, ts : Nat]

PeerTypes ==
    /\ peerTime \in Nat /\ reports \in Seq(Reports)
    /\ reputation \subseteq PeerIPs
    /\ cached \in [PeerIPs -> Opinions \cup {None}]
    /\ waiting \in PeerIPs \cup {None}

(* Report n is one a reliable peer sent from the address i, and i is known. *)
SentFrom(n, i) ==
    /\ reports[n].by \in reliability
    /\ \E a \in addresses : a.peer = reports[n].by /\ a.ts # None /\ a.ts <= reports[n].ts /\ a.ip = i
    /\ i \in reputation

PeerInv == PeerTypes /\ OpinionsHaveReporters

(* Tables that only grow keep every opinion and every trust value justified. *)
LEMMA GrowingTables ==
    ASSUME PeerInv, PeerTypes', UNCHANGED <<cached, peerTrust>>,
           Len(reports) <= Len(reports'), \A n \in 1..Len(reports) : reports'[n] = reports[n],
           reliability \subseteq reliability', addresses \subseteq addresses', reputation \subseteq reputation'
    PROVE  OpinionsHaveReporters'
  <1>1. \A ip \in PeerIPs : About(ip) \subseteq About(ip)'
    BY DEF About, PeerInv, PeerTypes
  <1>2. \A n \in 1..Len(reports) : n \in 1..Len(reports')
    BY DEF PeerInv, PeerTypes
  <1>3. ASSUME NEW ip \in PeerIPs, cached'[ip] # None
        PROVE  \E n \in About(ip)' : /\ reports'[n].by \in reliability'
                                     /\ \E a \in addresses' : /\ a.peer = reports'[n].by /\ a.ts # None
                                                              /\ a.ts <= reports'[n].ts
                                                              /\ a.ip \in reputation' \ {ip}
    <2>1. PICK n \in About(ip) : /\ reports[n].by \in reliability
                                 /\ \E a \in addresses : /\ a.peer = reports[n].by /\ a.ts # None
                                                         /\ a.ts <= reports[n].ts
                                                         /\ a.ip \in reputation \ {ip}
      BY <1>3 DEF PeerInv, OpinionsHaveReporters
    <2>2. n \in About(ip)' /\ reports'[n] = reports[n]
      BY <1>1 DEF About
    <2> QED BY <2>1, <2>2
  <1>4. \A ip \in peerTrust' : \E a \in addresses' : a.ip = ip /\ a.peer \in reliability'
    BY DEF PeerInv, OpinionsHaveReporters
  <1> QED BY <1>3, <1>4 DEF OpinionsHaveReporters

(* A report that counts was sent from the address chosen for it. *)
LEMMA CountedReport ==
    ASSUME PeerInv, NEW ip \in PeerIPs, NEW at \in [About(ip) -> PeerIPs \cup {None}],
           \A n \in About(ip) : IF ReporterIps(reports[n]) = {} THEN at[n] = None ELSE at[n] \in ReporterIps(reports[n]),
           ~Raises(ip, at), NEW n \in Counted(ip, at)
    PROVE  n \in About(ip) /\ SentFrom(n, at[n]) /\ at[n] # ip
  <1>1. /\ n \in About(ip) /\ at[n] # ip /\ at[n] \in reputation
        /\ reports[n].by \in reliability
    BY DEF Counted, Others, Raises
  <1>2. at[n] # None
    BY <1>1, PeerAssumption DEF PeerInv, PeerTypes
  <1>3. at[n] \in ReporterIps(reports[n])
    BY <1>1, <1>2
  <1>4. \E a \in addresses : a.peer = reports[n].by /\ a.ts # None /\ a.ts <= reports[n].ts /\ a.ip = at[n]
    BY <1>3 DEF ReporterIps
  <1> QED BY <1>1, <1>4 DEF SentFrom

(* The only step that adds an opinion: the answer to the waiting request. *)
LEMMA OpinionStep == PeerInv /\ GetOpinion => PeerInv'
  <1> SUFFICES ASSUME PeerInv, GetOpinion PROVE PeerInv'
    OBVIOUS
  <1>1. /\ waiting \in PeerIPs /\ waiting' = None
        /\ UNCHANGED <<peerTime, reports, reliability, addresses, reputation>>
    BY DEF GetOpinion, PeerInv, PeerTypes
  <1>2. PICK at \in [About(waiting) -> PeerIPs \cup {None}], trust \in BOOLEAN :
           /\ \A n \in About(waiting) :
                 IF ReporterIps(reports[n]) = {} THEN at[n] = None ELSE at[n] \in ReporterIps(reports[n])
           /\ LET counted == Counted(waiting, at)
              IN  IF Raises(waiting, at) \/ counted = {}
                  THEN UNCHANGED <<cached, peerTrust, peerEvidence>>
                  ELSE \E score \in Combined(counted) :
                       /\ cached' = [cached EXCEPT ![waiting] = [score |-> score, ts |-> peerTime]]
                       /\ peerTrust' = peerTrust \cup {at[n] : n \in counted}
                       /\ peerEvidence' = IF trust /\ \E n \in counted : reports[n].sure
                                      THEN peerEvidence \cup MaliciousForPeers(waiting, score) ELSE peerEvidence
    BY DEF GetOpinion
  <1> DEFINE counted == Counted(waiting, at)
  <1>3. CASE UNCHANGED <<cached, peerTrust>>
    <2>1. PeerTypes'
      BY <1>1, <1>3 DEF PeerInv, PeerTypes
    <2>2. Len(reports) <= Len(reports')
      BY <1>1 DEF PeerInv, PeerTypes
    <2> QED BY <1>1, <1>3, <2>1, <2>2, GrowingTables DEF PeerInv
  <1>4. ASSUME ~Raises(waiting, at), counted # {}, NEW score \in Combined(counted),
               cached' = [cached EXCEPT ![waiting] = [score |-> score, ts |-> peerTime]],
               peerTrust' = peerTrust \cup {at[n] : n \in counted}
        PROVE  PeerInv'
    <2>1. \A n \in counted : n \in About(waiting) /\ SentFrom(n, at[n]) /\ at[n] # waiting
      BY <1>1, <1>2, <1>4, CountedReport
    <2>2. score \in Scores
      <3>1. \A n \in counted : reports[n] \in Reports
        BY <2>1 DEF About, PeerInv, PeerTypes
      <3>2. \A n \in counted : reports[n].score \in Scores
        BY <3>1 DEF Reports
      <3> HIDE DEF counted
      <3> QED BY <1>4, <3>2 DEF Combined
    <2> HIDE DEF counted
    <2>3. PeerTypes'
      <3>1. cached' \in [PeerIPs -> Opinions \cup {None}]
        BY <1>1, <1>4, <2>2 DEF PeerInv, PeerTypes, Opinions
      <3> QED BY <1>1, <3>1 DEF PeerInv, PeerTypes
    <2>4. \A ip \in PeerIPs : About(ip)' = About(ip)
      BY <1>1 DEF About
    <2>5. ASSUME NEW ip \in PeerIPs, cached'[ip] # None
          PROVE  \E n \in About(ip) : /\ reports[n].by \in reliability
                                      /\ \E a \in addresses : /\ a.peer = reports[n].by /\ a.ts # None
                                                              /\ a.ts <= reports[n].ts
                                                              /\ a.ip \in reputation \ {ip}
      <3>1. CASE ip = waiting
        <4>1. PICK n \in counted : TRUE
          BY <1>4
        <4>2. n \in About(ip) /\ SentFrom(n, at[n]) /\ at[n] # ip
          BY <2>1, <3>1
        <4> QED BY <4>2 DEF SentFrom
      <3>2. CASE ip # waiting
        <4>1. cached[ip] # None
          BY <1>4, <2>5, <3>2 DEF PeerInv, PeerTypes
        <4> QED BY <4>1 DEF PeerInv, OpinionsHaveReporters
      <3> QED BY <3>1, <3>2
    <2>6. ASSUME NEW ip \in peerTrust'
          PROVE  \E a \in addresses : a.ip = ip /\ a.peer \in reliability
      <3>1. CASE ip \in peerTrust
        BY <3>1 DEF PeerInv, OpinionsHaveReporters
      <3>2. CASE \E n \in counted : ip = at[n]
        BY <2>1, <3>2 DEF SentFrom
      <3> QED BY <1>4, <2>6, <3>1, <3>2
    <2>7. OpinionsHaveReporters'
      BY <1>1, <2>4, <2>5, <2>6 DEF OpinionsHaveReporters
    <2> QED BY <2>3, <2>7 DEF PeerInv
  <1>5. \/ UNCHANGED <<cached, peerTrust>>
        \/ /\ ~Raises(waiting, at) /\ counted # {}
           /\ \E score \in Combined(counted) :
                /\ cached' = [cached EXCEPT ![waiting] = [score |-> score, ts |-> peerTime]]
                /\ peerTrust' = peerTrust \cup {at[n] : n \in counted}
    BY <1>2
  <1> HIDE DEF counted
  <1> QED BY <1>3, <1>4, <1>5

(* The others add rows to one table or none. *)
LEMMA PeerStep == PeerInv /\ [PeerNext]_ptvars => PeerInv'
  <1> SUFFICES ASSUME PeerInv, [PeerNext]_ptvars PROVE PeerInv'
    OBVIOUS
  <1> DEFINE Grown == /\ PeerTypes' /\ UNCHANGED <<cached, peerTrust>>
                      /\ Len(reports) <= Len(reports') /\ \A n \in 1..Len(reports) : reports'[n] = reports[n]
                      /\ reliability \subseteq reliability' /\ addresses \subseteq addresses'
                      /\ reputation \subseteq reputation'
  <1>1. Len(reports) \in Nat
    BY DEF PeerInv, PeerTypes
  <1>2. ASSUME UNCHANGED <<peerTime, cached, peerTrust, reports, reputation>>,
               reliability \subseteq reliability', addresses \subseteq addresses',
               waiting' \in PeerIPs \cup {None}
        PROVE  Grown
    BY <1>1, <1>2 DEF PeerInv, PeerTypes
  <1>3. ASSUME NEW p \in Peers, NEW ip \in PeerIPs \cup {None}, NEW ts \in Stamps \cup {None}, NEW b \in BOOLEAN,
               PeerUpdate(p, ip, ts, b)
        PROVE  Grown
    BY <1>2, <1>3 DEF PeerUpdate, PeerInv, PeerTypes
  <1>4. ASSUME NEW p \in Peers, NEW ip \in PeerIPs, NEW ts \in Stamps, NEW score \in Scores, NEW sure \in BOOLEAN,
               PeerReport(p, ip, ts, score, sure)
        PROVE  Grown
    <2> DEFINE r == [by |-> p, of |-> ip, score |-> score, sure |-> sure, ts |-> ts]
    <2>1. ts \in Nat
      BY DEF Stamps, PeerInv, PeerTypes
    <2>2. r \in Reports
      BY <2>1 DEF Reports
    <2>3. reports' = Append(reports, r)
      BY <1>4 DEF PeerReport
    <2> HIDE DEF r
    <2>4. /\ reports' \in Seq(Reports) /\ Len(reports) <= Len(reports')
          /\ \A n \in 1..Len(reports) : reports'[n] = reports[n]
      BY <1>1, <2>2, <2>3 DEF PeerInv, PeerTypes
    <2> QED BY <1>4, <2>4 DEF PeerReport, PeerInv, PeerTypes
  <1>5. ASSUME NEW p \in Peers, NEW ip \in PeerIPs, PeerRequest(p, ip)
        PROVE  Grown
    BY <1>2, <1>5 DEF PeerRequest, PeerInv, PeerTypes
  <1>6. ASSUME NEW type, NEW ip \in PeerIPs, Share(type, ip)
        PROVE  Grown
    BY <1>2, <1>6 DEF Share, PeerInv, PeerTypes
  <1>7. ASSUME NEW ip \in PeerIPs, DataRequest(ip)
        PROVE  Grown
    BY <1>2, <1>7 DEF DataRequest, PeerInv, PeerTypes
  <1>8. ASSUME NEW ip \in PeerIPs, SetReputation(ip)
        PROVE  Grown
    BY <1>1, <1>8 DEF SetReputation, PeerInv, PeerTypes
  <1>9. ASSUME NEW ip \in PeerIPs, Blame(ip)
        PROVE  Grown
    BY <1>2, <1>9 DEF Blame, PeerInv, PeerTypes
  <1>10. ASSUME PeerTick
         PROVE  Grown
    BY <1>1, <1>10 DEF PeerTick, PeerInv, PeerTypes
  <1>11. ASSUME UNCHANGED ptvars
         PROVE  Grown
    BY <1>2, <1>11 DEF ptvars, PeerInv, PeerTypes
  <1>12. ASSUME Grown
         PROVE  PeerInv'
    BY <1>12, GrowingTables DEF PeerInv
  <1>13. Grown \/ GetOpinion
    <2> HIDE DEF Grown
    <2> QED BY <1>3, <1>4, <1>5, <1>6, <1>7, <1>8, <1>9, <1>10, <1>11 DEF PeerNext
  <1> HIDE DEF Grown
  <1> QED BY <1>12, <1>13, OpinionStep

(* Nobody is judged by itself, whatever peers report, rename and reset: an   *)
(* opinion, and a trust value, come from a reliable peer at an address of    *)
(* which SmartShield knows something itself; for any peers, addresses,       *)
(* scores and age of the cache, and with a report of every time.             *)
THEOREM OpinionsOfReporters == PeerSpec => []OpinionsHaveReporters
  <1>1. PeerInit => PeerInv
    BY DEF PeerInit, PeerInv, PeerTypes, OpinionsHaveReporters
  <1>2. PeerInv => OpinionsHaveReporters
    BY DEF PeerInv
  <1> QED BY <1>1, <1>2, PeerStep, PTL DEF PeerSpec

-----------------------------------------------------------------------------
(* ThreatFeeds: what the update manager takes for up to date is loaded.     *)

(* A thread that is at a feed has one, and collects lines of text only.     *)
AtAFeed == {"delete", "parse", "lines", "store", "mark"}
HasAFeed(u) ==
    /\ stage[u] \in {"entries"} \cup AtAFeed => feedAt[u] \in Feeds
    /\ stage[u] \in {"lines", "store"} => ~OfHashes(feedAt[u])
FeedTypes == FeedTypeOK /\ \A u \in Threads : HasAFeed(u)

LEMMA KeptAreIocs ==
    ASSUME NEW f \in Feeds, NEW v \in FeedVersions, ~GivesUp(f, v)
    PROVE  KeptOf(f, v) \subseteq Indicators
  BY FeedAssumption

LEMMA FeedTypesInit == FeedInit => FeedTypes
  <1> SUFFICES ASSUME FeedInit PROVE FeedTypes
    OBVIOUS
  <1>a. 0 \in FeedVersions /\ 1 \in 1..MaxPeriods /\ 0 \in 0..MaxPeriods /\ 0 \in 0..MaxRestarts
    BY FeedAssumption DEF FeedVersions
  <1>b. Fresh => /\ responses \in [Feeds -> FeedVersions] /\ DOMAIN dict = {}
                 /\ stage \in [Threads -> {"off", "start"}]
                 /\ left \in [Threads -> SUBSET Feeds] /\ work \in [Threads -> SUBSET Feeds]
                 /\ feedAt \in [Threads -> Feeds \cup {None}] /\ ver \in [Threads -> FeedVersions]
    BY <1>a DEF Fresh
  <1>1. FeedTypeOK
    BY <1>a, <1>b DEF FeedInit, FeedTypeOK
  <1>2. \A u \in Threads : HasAFeed(u)
    BY DEF FeedInit, Fresh, HasAFeed, AtAFeed
  <1> QED BY <1>1, <1>2 DEF FeedTypes

(* A thread goes on, the others stay where they are. *)
LEMMA OneGoesOn ==
    ASSUME FeedTypes, NEW u \in Threads, NEW p, Goto(u, p), feedAt' = feedAt,
           p \in {"entries"} \cup AtAFeed => feedAt[u] \in Feeds,
           p \in {"lines", "store"} => ~OfHashes(feedAt[u])
    PROVE  \A w \in Threads : HasAFeed(w)'
  BY DEF FeedTypes, FeedTypeOK, HasAFeed, Goto, AtAFeed, OfHashes

LEMMA FeedTypesStep == FeedTypes /\ [FeedNext]_tfvars => FeedTypes'
  <1> SUFFICES ASSUME FeedTypes, [FeedNext]_tfvars PROVE FeedTypes'
    OBVIOUS
  <1> USE FeedAssumption DEF FeedTypes
  <1>0. 0 \in FeedVersions
    BY DEF FeedVersions
  <1>1. CASE UNCHANGED tfvars
    BY <1>1 DEF tfvars, db, process, FeedTypeOK, HasAFeed, OfHashes
  <1>2. CASE \E u \in Threads : Update(u)
    <2> PICK u \in Threads : Update(u)
      BY <1>2
    <2>1. CASE Start(u)
      <3>1. FeedTypeOK'
        BY <2>1 DEF Start, Goto, FeedTypeOK, db
      <3>2. \A w \in Threads : HasAFeed(w)'
        BY <2>1 DEF Start, Goto, FeedTypeOK, HasAFeed, AtAFeed, OfHashes
      <3> QED BY <3>1, <3>2
    <2>2. CASE UpdateMacDb(u)
      <3>1. FeedTypeOK'
        BY <2>2 DEF UpdateMacDb, MarkUntagged, Goto, FeedTypeOK, Untagged
      <3>2. \A w \in Threads : HasAFeed(w)'
        BY <2>2, OneGoesOn DEF UpdateMacDb, AtAFeed
      <3> QED BY <3>1, <3>2
    <2>17. CASE CheckWhitelist(u)
      <3>1. FeedTypeOK'
        BY <2>17 DEF CheckWhitelist, Goto, FeedTypeOK, db
      <3>2. \A w \in Threads : HasAFeed(w)'
        BY <2>17, OneGoesOn DEF CheckWhitelist, AtAFeed
      <3> QED BY <3>1, <3>2
    <2>3. CASE DropWhitelist(u)
      <3>1. FeedTypeOK'
        BY <2>3 DEF DropWhitelist, Goto, FeedTypeOK
      <3>2. \A w \in Threads : HasAFeed(w)'
        BY <2>3, OneGoesOn DEF DropWhitelist, AtAFeed
      <3> QED BY <3>1, <3>2
    <2>4. CASE Refill(u)
      <3>1. FeedTypeOK'
        BY <2>4 DEF Refill, MarkUntagged, Goto, FeedTypeOK, Untagged
      <3>2. \A w \in Threads : HasAFeed(w)'
        BY <2>4, OneGoesOn DEF Refill, AtAFeed
      <3> QED BY <3>1, <3>2
    <2>5. CASE DropUnused(u)
      <3>1. FeedTypeOK'
        <4>1. CASE Known \subseteq config
          <5>1. /\ stage' = [stage EXCEPT ![u] = "check"] /\ left' = [left EXCEPT ![u] = config]
                /\ UNCHANGED <<server, config, period, info, feedAt, ioc, whitelist, updated,
                               responses, dict, work, ver, disk, restarts, clashed>>
            BY <2>5, <4>1 DEF DropUnused, Goto
          <5>2. left' \in [Threads -> SUBSET Feeds]
            BY <5>1 DEF FeedTypeOK
          <5> QED BY <5>1, <5>2 DEF FeedTypeOK
        <4>2. CASE ~(Known \subseteq config)
          <5>1. PICK f \in Known \ config :
                  /\ info' = [info EXCEPT ![f] = None] /\ feedAt' = [feedAt EXCEPT ![u] = f]
                  /\ Goto(u, "entries") /\ UNCHANGED left
            BY <2>5, <4>2 DEF DropUnused
          <5>2. f \in Feeds
            BY DEF Known
          <5>3. /\ info' \in [Feeds -> [tag : 0..NoTag, time : 1..MaxPeriods] \cup {None}]
                /\ feedAt' \in [Threads -> Feeds \cup {None}]
            BY <5>1, <5>2 DEF FeedTypeOK
          <5> QED BY <2>5, <5>1, <5>3 DEF DropUnused, Goto, FeedTypeOK
        <4> QED BY <4>1, <4>2
      <3>2. \A w \in Threads : HasAFeed(w)'
        BY <2>5 DEF DropUnused, Goto, FeedTypeOK, Known, HasAFeed, AtAFeed, OfHashes
      <3> QED BY <3>1, <3>2
    <2>6. CASE DropEntries(u)
      <3>1. FeedTypeOK'
        BY <2>6 DEF DropEntries, DeleteEntries, Goto, FeedTypeOK
      <3>2. \A w \in Threads : HasAFeed(w)'
        BY <2>6 DEF DropEntries, Goto, FeedTypeOK, HasAFeed, AtAFeed, OfHashes
      <3> QED BY <3>1, <3>2
    <2>7. CASE \E f \in Feeds : CheckFeed(u, f)
      <3> PICK f \in Feeds : CheckFeed(u, f)
        BY <2>7
      <3>1. NoTag \in 0..NoTag /\ FeedVersions \subseteq 0..NoTag
        BY DEF NoTag, FeedVersions
      <3>2. /\ info' \in [Feeds -> [tag : 0..NoTag, time : 1..MaxPeriods] \cup {None}]
            /\ responses' \in [Feeds -> FeedVersions]
            /\ left' \in [Threads -> SUBSET Feeds] /\ work' \in [Threads -> SUBSET Feeds]
        BY <3>1 DEF CheckFeed, Mark, FeedTypeOK
      <3>3. FeedTypeOK'
        BY <3>2 DEF CheckFeed, FeedTypeOK
      <3>4. \A w \in Threads : HasAFeed(w)'
        BY DEF CheckFeed, HasAFeed, OfHashes
      <3> QED BY <3>3, <3>4
    <2>8. CASE CheckRiskIQ(u)
      <3>1. FeedTypeOK'
        BY <2>8 DEF CheckRiskIQ, MarkUntagged, Goto, FeedTypeOK, Untagged
      <3>2. \A w \in Threads : HasAFeed(w)'
        BY <2>8, OneGoesOn DEF CheckRiskIQ, AtAFeed
      <3> QED BY <3>1, <3>2
    <2>9. CASE WriteFile(u)
      <3>1. FeedTypeOK'
        BY <2>9 DEF WriteFile, Goto, FeedTypeOK, db
      <3>2. \A w \in Threads : HasAFeed(w)'
        BY <2>9 DEF WriteFile, Goto, FeedTypeOK, HasAFeed, AtAFeed, OfHashes
      <3> QED BY <3>1, <3>2
    <2>10. CASE DeletePrevious(u)
      <3>1. FeedTypeOK'
        BY <2>10 DEF DeletePrevious, DeleteEntries, Goto, FeedTypeOK
      <3>2. \A w \in Threads : HasAFeed(w)'
        BY <2>10, OneGoesOn DEF DeletePrevious, AtAFeed, HasAFeed
      <3> QED BY <3>1, <3>2
    <2>11. CASE StartParsing(u)
      <3>1. FeedTypeOK'
        <4>1. DOMAIN dict' \subseteq Indicators /\ \A i \in DOMAIN dict' : dict'[i] \subseteq Feeds
          BY <2>11 DEF StartParsing, FeedTypeOK
        <4>2. feedAt' \in [Threads -> Feeds \cup {None}] /\ ver' \in [Threads -> FeedVersions]
          <5>1. \/ feedAt' = [feedAt EXCEPT ![u] = None] /\ ver' = [ver EXCEPT ![u] = 0]
                \/ UNCHANGED <<feedAt, ver>>
            BY <2>11 DEF StartParsing, EndTask
          <5>2. CASE feedAt' = [feedAt EXCEPT ![u] = None] /\ ver' = [ver EXCEPT ![u] = 0]
            BY <5>2, <1>0 DEF FeedTypeOK
          <5>3. CASE UNCHANGED <<feedAt, ver>>
            BY <5>3 DEF FeedTypeOK
          <5> QED BY <5>1, <5>2, <5>3
        <4>4. clashed' \subseteq Feeds \cup {"tranco_whitelist"}
          <5>1. \A w \in Threads : Parsing(w) => feedAt[w] \in Feeds
            BY DEF Parsing, HasAFeed, AtAFeed
          <5>2. feedAt[u] \in Feeds
            BY <2>11 DEF StartParsing, HasAFeed, AtAFeed
          <5> QED BY <2>11, <5>1, <5>2 DEF StartParsing, FeedTypeOK
        <4>3. stage' = [stage EXCEPT ![u] = "next"] \/ stage' = [stage EXCEPT ![u] = "lines"]
          BY <2>11 DEF StartParsing, Goto
        <4> QED BY <2>11, <4>1, <4>2, <4>3, <4>4 DEF StartParsing, FeedTypeOK, db
      <3>2. \A w \in Threads : HasAFeed(w)'
        BY <2>11 DEF StartParsing, EndTask, Goto, FeedTypeOK, HasAFeed, AtAFeed, OfHashes
      <3> QED BY <3>1, <3>2
    <2>12. CASE ParseLines(u)
      <3> DEFINE v == IF disk[feedAt[u]] = None THEN ver[u] ELSE disk[feedAt[u]]
      <3>1. feedAt[u] \in Feeds /\ ~OfHashes(feedAt[u])
        BY <2>12 DEF ParseLines, HasAFeed, AtAFeed
      <3>2. v \in FeedVersions
        BY <3>1 DEF FeedTypeOK
      <3>3. KeptOf(feedAt[u], v) \subseteq Indicators
        BY <3>1, <3>2, KeptAreIocs DEF GivesUp
      <3>4. dict' = [i \in DOMAIN dict \cup KeptOf(feedAt[u], v) |->
                       IF i \in KeptOf(feedAt[u], v) THEN WithSource(i, feedAt[u]) ELSE dict[i]]
        BY <2>12 DEF ParseLines
      <3>5. DOMAIN dict' \subseteq Indicators /\ \A i \in DOMAIN dict' : dict'[i] \subseteq Feeds
        <4> HIDE DEF v
        <4> QED BY <3>1, <3>3, <3>4 DEF FeedTypeOK, WithSource
      <3>6. FeedTypeOK'
        BY <2>12, <3>5 DEF ParseLines, Goto, FeedTypeOK, db
      <3>7. \A w \in Threads : HasAFeed(w)'
        BY <2>12, OneGoesOn, <3>1 DEF ParseLines
      <3> QED BY <3>6, <3>7
    <2>13. CASE StoreFeed(u)
      <3>1. FeedTypeOK'
        BY <2>13 DEF StoreFeed, Goto, FeedTypeOK
      <3>2. \A w \in Threads : HasAFeed(w)'
        BY <2>13, OneGoesOn DEF StoreFeed, AtAFeed, HasAFeed
      <3> QED BY <3>1, <3>2
    <2>14. CASE ParseOther(u)
      <3>1. FeedTypeOK'
        BY <2>14 DEF ParseOther, Goto, FeedTypeOK, HasAFeed, AtAFeed
      <3>2. \A w \in Threads : HasAFeed(w)'
        BY <2>14, OneGoesOn DEF ParseOther, AtAFeed, HasAFeed
      <3> QED BY <3>1, <3>2
    <2>15. CASE MarkUpdated(u)
      <3>1. ver[u] \in 0..NoTag
        BY DEF FeedTypeOK, FeedVersions, NoTag
      <3>2. FeedTypeOK'
        BY <2>15, <3>1, <1>0 DEF MarkUpdated, EndTask, Mark, Goto, FeedTypeOK
      <3>3. \A w \in Threads : HasAFeed(w)'
        BY <2>15 DEF MarkUpdated, EndTask, Goto, FeedTypeOK, HasAFeed, AtAFeed, OfHashes
      <3> QED BY <3>2, <3>3
    <2>16. CASE Finish(u)
      <3>1. FeedTypeOK'
        BY <2>16 DEF Finish, FeedTypeOK, db
      <3>2. \A w \in Threads : HasAFeed(w)'
        BY <2>16 DEF Finish, FeedTypeOK, HasAFeed, AtAFeed, OfHashes
      <3> QED BY <3>1, <3>2
    <2> QED BY <2>1, <2>2, <2>3, <2>4, <2>5, <2>6, <2>7, <2>8, <2>9, <2>10, <2>11, <2>12, <2>13,
               <2>14, <2>15, <2>16, <2>17 DEF Update
  <1>3. CASE \E t \in Timers : Fire(t)
    <2> PICK t \in Timers : Fire(t)
      BY <1>3
    <2>1. t \in Threads
      BY DEF Threads
    <2>2. FeedTypeOK'
      BY <2>1 DEF Fire, Goto, FeedTypeOK, db
    <2>3. \A w \in Threads : HasAFeed(w)'
      BY <2>1, OneGoesOn DEF Fire, AtAFeed
    <2> QED BY <2>2, <2>3
  <1>4. CASE FeedTick
    BY <1>4 DEF FeedTick, db, process, FeedTypeOK, HasAFeed, OfHashes
  <1>5. CASE \E f \in Feeds : Publish(f)
    BY <1>5 DEF Publish, db, process, FeedTypeOK, HasAFeed, OfHashes, FeedVersions
  <1>6. CASE \E c \in Configs : StartAgain(c)
    BY <1>6 DEF StartAgain, db, FeedTypeOK, HasAFeed, AtAFeed, FeedVersions
  <1> QED BY <1>1, <1>2, <1>3, <1>4, <1>5, <1>6 DEF FeedNext

(* What no two threads have had in hand at once since it was last found     *)
(* changed.                                                                 *)
Clean == Feeds \ clashed

(* A feed whose e-tag is older than what the server has, or forgotten, will *)
(* be downloaded when it is next due.                                       *)
Outdated(f) == info[f] = None \/ info[f].tag < server[f] \/ info[f].tag = NoTag
NothingNewer ==
    \A f \in Feeds : /\ info[f] # None => info[f].tag <= server[f] \/ info[f].tag = NoTag
                     /\ responses[f] <= server[f]

(* The sources of an indicator are lists that keep it. *)
Sourced ==
    /\ \A i \in Indicators : \A h \in ioc[i] :
          \/ h = RiskSource /\ i \in RiskDomains
          \/ h \in Feeds /\ Keeps(h, i)
    /\ \A i \in DOMAIN dict : dict[i] # {} /\ \A h \in dict[i] : Keeps(h, i)

(* Where a thread is in its update. *)
AtEntries(u) == stage[u] = "entries" => feedAt[u] \in Feeds \ config /\ info[feedAt[u]] = None
AtNothing(u) == stage[u] \notin {"entries"} \cup AtAFeed => feedAt[u] = None
ToUpdate(u) ==
    /\ left[u] \subseteq config /\ work[u] \subseteq config
    /\ stage[u] \notin {"check", "next"} \cup AtAFeed => work[u] = {}
    /\ stage[u] \in AtAFeed => feedAt[u] \in config \ work[u] /\ ver[u] <= server[feedAt[u]]
FeedThread(u) == AtEntries(u) /\ AtNothing(u) /\ ToUpdate(u)

(* A clean feed is in one thread's hands at most, is outdated until it is    *)
(* marked, and by then the cache has it.                                     *)
InHand(u, f) == HasInHand(u, f) => Outdated(f) /\ \A w \in Threads \ {u} : ~HasInHand(w, f)
AtFeed(u) ==
    stage[u] \in AtAFeed /\ feedAt[u] \in Clean =>
        /\ disk[feedAt[u]] = ver[u]
        /\ stage[u] \in {"parse", "lines", "store"} /\ ~OfHashes(feedAt[u]) => \A i \in Indicators : feedAt[u] \notin ioc[i]
        /\ stage[u] = "lines" => DOMAIN dict = {}
        /\ stage[u] = "store" => DOMAIN dict = KeptOf(feedAt[u], ver[u]) /\ \A i \in DOMAIN dict : dict[i] = {feedAt[u]}
        /\ stage[u] = "mark" /\ Alone(feedAt[u]) => HasVersion(feedAt[u], ver[u])

(* Whoever parses a clean feed has the dictionaries to itself, and they hold *)
(* no other clean feed.                                                      *)
OwnDict(u) ==
    Parsing(u) => /\ \A w \in Threads \ {u} : Parsing(w) => feedAt[u] \in clashed
                  /\ \A i \in DOMAIN dict : dict[i] \cap Clean \subseteq {feedAt[u]}

Dated == updated["tranco_whitelist"]
WhitelistDated ==
    /\ Dated <= period
    /\ "tranco_whitelist" \notin clashed =>
          /\ Dated = period => whitelist
          /\ \A u \in Threads : AtWhitelist(u) => Dated < period /\ \A w \in Threads \ {u} : ~AtWhitelist(w)

FeedInv ==
    /\ NothingNewer /\ Sourced /\ WhitelistDated
    /\ \A u \in Threads : FeedThread(u) /\ AtFeed(u) /\ OwnDict(u) /\ \A f \in Clean : InHand(u, f)
    /\ UpToDateMeansLoaded

LEMMA AloneStays == \A f : Alone(f)' <=> Alone(f)
  BY DEF Alone, Keeps, GivesUp, OfHashes

(* Of a feed that shares nothing, an indicator has no other source.         *)
LEMMA AloneIsOnly ==
    ASSUME Sourced, NEW f \in Feeds, Alone(f), NEW i \in Indicators, f \in ioc[i]
    PROVE  ioc[i] = {f}
  <1>1. Keeps(f, i)
    BY FeedAssumption DEF Sourced
  <1>2. ASSUME NEW h \in ioc[i], h # f PROVE FALSE
    BY <1>1, <1>2 DEF Sourced, Alone
  <1> QED BY <1>2

(* What a feed that is not of hashes keeps can be deleted by its name.      *)
LEMMA KeptCanBeDeleted ==
    ASSUME NEW f \in Feeds, ~OfHashes(f), NEW i, Keeps(f, i)
    PROVE  Kind(i) \in {"ip", "private_ip", "domain"}
  <1>1. PICK v \in FeedVersions : i \in KeptOf(f, v)
    BY DEF Keeps
  <1>2. Format(f) \in {"text", "json_ips", "json_domains"}
    BY FeedAssumption DEF OfHashes
  <1>3. CASE Format(f) = "text"
    BY <1>1, <1>3 DEF KeptOf, TextIocs
  <1>4. CASE Format(f) \in {"json_ips", "json_domains"}
    BY <1>1, <1>4 DEF KeptOf, JsonIocs
  <1> QED BY <1>2, <1>3, <1>4

LEMMA DeletedHasNone ==
    ASSUME Sourced, NEW f \in Feeds, ~OfHashes(f), DeleteEntries(f), NEW i \in Indicators
    PROVE  f \notin ioc'[i]
  <1>1. f \in ioc[i] => Keeps(f, i)
    BY FeedAssumption DEF Sourced
  <1>2. f \in ioc[i] => Kind(i) \in {"ip", "private_ip", "domain"} /\ NameIn(f, f)
    BY <1>1, KeptCanBeDeleted, FeedAssumption
  <1> QED BY <1>2 DEF DeleteEntries

LEMMA DeletedSparesAlone ==
    ASSUME Sourced, NEW f \in Feeds, Alone(f), NEW g \in Feeds \ {f}, DeleteEntries(g), NEW i \in Indicators
    PROVE  f \in ioc'[i] <=> f \in ioc[i]
  <1>1. ~NameIn(g, f)
    BY DEF Alone
  <1>2. f \in ioc[i] => ~\E h \in ioc[i] \cap Feeds : NameIn(g, h)
    BY <1>1, AloneIsOnly
  <1> QED BY <1>2 DEF DeleteEntries

LEMMA DeletedIsSourced ==
    ASSUME Sourced, NEW f, DeleteEntries(f), UNCHANGED dict
    PROVE  Sourced' /\ \A i \in Indicators : ioc'[i] \subseteq ioc[i]
  <1>1. \A i \in Indicators : ioc'[i] \subseteq ioc[i]
    BY DEF DeleteEntries
  <1> QED BY <1>1 DEF Sourced, Keeps

LEMMA FeedInvInit == FeedInit => FeedInv
  <1> SUFFICES ASSUME FeedInit PROVE FeedInv
    OBVIOUS
  <1>1. NothingNewer /\ Sourced
    BY DEF FeedInit, Fresh, NothingNewer, Sourced
  <1>2. WhitelistDated
    BY DEF FeedInit, Fresh, WhitelistDated, Dated, AtWhitelist, Untagged
  <1>3. ASSUME NEW u \in Threads
        PROVE  FeedThread(u) /\ AtFeed(u) /\ OwnDict(u) /\ \A f \in Clean : InHand(u, f)
    <2>1. stage[u] \in {"off", "start"} /\ left[u] = {} /\ work[u] = {} /\ feedAt[u] = None
      BY DEF FeedInit, Fresh
    <2>2. \A f \in Clean : InHand(u, f)
      BY <2>1, FeedAssumption DEF InHand, HasInHand, Clean
    <2> QED BY <2>1, <2>2 DEF FeedThread, AtEntries, AtNothing, ToUpdate, AtFeed, AtAFeed, OwnDict, Parsing
  <1>4. UpToDateMeansLoaded
    BY DEF FeedInit, UpToDateMeansLoaded, Untagged
  <1> QED BY <1>1, <1>2, <1>3, <1>4 DEF FeedInv

(* The cache has of a feed what it had. *)
LEMMA KeepsVersion ==
    ASSUME NEW f \in Feeds, NEW v, HasVersion(f, v), \A i \in Indicators : f \in ioc'[i] <=> f \in ioc[i]
    PROVE  HasVersion(f, v)'
  BY DEF HasVersion

-----------------------------------------------------------------------------
(* What a thread's step does: the others stay where they are; of what is    *)
(* clean it touches only what it has in hand; and it lets go of that        *)
(* outdated, or loaded.                                                      *)
OthersStay(u) ==
    /\ UNCHANGED <<server, config>>
    /\ \A w \in Threads \ {u} : /\ stage'[w] = stage[w] /\ feedAt'[w] = feedAt[w]
                                /\ work'[w] = work[w] /\ ver'[w] = ver[w] /\ left'[w] = left[w]
Sparing(u) ==
    /\ \A f \in Feeds \ config : info'[f] = info[f] \/ info'[f] = None
    /\ \A f \in Clean \cap Clean' : ~HasInHand(u, f) =>
          /\ info'[f] = info[f] \/ info'[f] = None \/ info'[f].tag = NoTag
          /\ disk'[f] = disk[f]
          /\ \A i \in Indicators : f \in ioc'[i] => f \in ioc[i]
          /\ Alone(f) /\ (f \in config \/ info'[f] # None) => \A i \in Indicators : f \in ioc[i] => f \in ioc'[i]
Handling(u) ==
    \A f \in Clean' :
       /\ f \in Clean \/ (Outdated(f)' /\ \A w \in Threads \ {u} : ~HasInHand(w, f))
       /\ HasInHand(u, f)' => Outdated(f)' /\ (HasInHand(u, f) \/ \A w \in Threads \ {u} : ~HasInHand(w, f))
       /\ HasInHand(u, f) /\ f \in Clean => Outdated(f)' \/ (Alone(f) => HasVersion(f, server[f])')

(* What a clean feed in another thread's hands depends on stays as it is.   *)
LEMMA OthersKeep ==
    ASSUME FeedTypes, FeedInv, NEW u \in Threads, OthersStay(u), Sparing(u), Handling(u), NEW w \in Threads \ {u},
           dict' = dict \/ (Parsing(w) => feedAt[w] \notin Clean')
    PROVE  FeedThread(w)' /\ AtFeed(w)' /\ \A f \in Clean' : InHand(w, f)'
  <1> USE FeedAssumption
  <1>1. /\ FeedThread(w) /\ AtFeed(w) /\ \A f \in Clean : InHand(w, f) /\ InHand(u, f)
        /\ stage'[w] = stage[w] /\ feedAt'[w] = feedAt[w] /\ work'[w] = work[w] /\ ver'[w] = ver[w]
        /\ left'[w] = left[w] /\ UNCHANGED <<server, config>>
    BY DEF FeedInv, OthersStay
  <1>2. \A f \in Clean' : HasInHand(w, f) => f \in Clean /\ f \in Feeds /\ ~HasInHand(u, f) /\ ~HasInHand(u, f)' /\ Outdated(f)
    BY <1>1 DEF Handling, InHand, Clean
  <1>3. FeedThread(w)'
    BY <1>1 DEF FeedThread, AtEntries, AtNothing, ToUpdate, Sparing
  <1>4. ASSUME NEW f \in Clean', HasInHand(w, f)
        PROVE  Outdated(f)' /\ \A x \in Threads \ {w} : ~HasInHand(x, f)'
    <2>1. Outdated(f)'
      BY <1>1, <1>2, <1>4 DEF Sparing, Outdated
    <2>2. \A x \in Threads \ {w} : ~HasInHand(x, f)
      BY <1>1, <1>2, <1>4 DEF InHand
    <2>3. \A x \in Threads \ {u} : HasInHand(x, f)' <=> HasInHand(x, f)
      BY DEF OthersStay, HasInHand
    <2> QED BY <1>2, <1>4, <2>1, <2>2, <2>3
  <1>5. \A f \in Clean' : InHand(w, f)'
    <2>1. \A f : HasInHand(w, f)' <=> HasInHand(w, f)
      BY <1>1 DEF HasInHand
    <2> QED BY <1>4, <2>1 DEF InHand
  <1>6. ASSUME stage[w] \in AtAFeed, feedAt[w] \in Clean'
        PROVE  AtFeed(w)'
    <2> PICK f : f = feedAt[w]
      OBVIOUS
    <2>1. HasInHand(w, f) /\ f \in config
      BY <1>1, <1>6 DEF HasInHand, AtAFeed, FeedThread, ToUpdate
    <2>2. /\ f \in Clean \cap Clean' /\ ~HasInHand(u, f) /\ disk'[f] = disk[f] /\ f \in Feeds
          /\ \A i \in Indicators : f \in ioc'[i] => f \in ioc[i]
          /\ Alone(f) => \A i \in Indicators : f \in ioc[i] <=> f \in ioc'[i]
      BY <1>2, <1>6, <2>1 DEF Sparing
    <2>3. Parsing(w) => dict' = dict
      BY <1>6
    <2>4. stage[w] = "mark" /\ Alone(f) => HasVersion(f, ver[w])'
      BY <1>1, <1>6, <2>2, KeepsVersion DEF AtFeed
    <2>5. Alone(f)' <=> Alone(f)
      BY AloneStays
    <2>6. feedAt'[w] = f /\ ver'[w] = ver[w] /\ stage'[w] = stage[w] /\ server' = server /\ f \in Clean
      BY <1>1, <2>2
    <2> QED BY <1>1, <1>6, <2>2, <2>3, <2>4, <2>5, <2>6 DEF AtFeed, AtAFeed, Parsing, OfHashes, HasVersion
  <1>7. AtFeed(w)'
    BY <1>1, <1>6 DEF AtFeed
  <1> QED BY <1>3, <1>5, <1>7

(* A step of a thread, taken apart. *)
LEMMA ThreadsStep ==
    ASSUME FeedTypes, FeedInv, NEW u \in Threads, OthersStay(u), Sparing(u), Handling(u),
           FeedThread(u)', AtFeed(u)', \A w \in Threads : OwnDict(w)',
           dict' = dict \/ \A w \in Threads \ {u} : Parsing(w) => feedAt[w] \notin Clean',
           NothingNewer', Sourced', WhitelistDated'
    PROVE  FeedInv'
  <1> USE FeedAssumption
  <1>1. \A f \in Clean' : InHand(u, f)'
    <2> SUFFICES ASSUME NEW f \in Clean', HasInHand(u, f)' PROVE Outdated(f)' /\ \A w \in Threads \ {u} : ~HasInHand(w, f)'
      BY DEF InHand
    <2>1. Outdated(f)' /\ \A w \in Threads \ {u} : ~HasInHand(w, f)
      BY DEF Handling, FeedInv, InHand
    <2>2. \A w \in Threads \ {u} : HasInHand(w, f)' <=> HasInHand(w, f)
      BY DEF OthersStay, HasInHand
    <2> QED BY <2>1, <2>2
  <1>2. \A w \in Threads : FeedThread(w)' /\ AtFeed(w)' /\ \A f \in Clean' : InHand(w, f)'
    BY <1>1, OthersKeep
  <1>3. ASSUME NEW f \in Clean', Alone(f), info'[f] # None, info'[f].tag = server[f]
        PROVE  HasVersion(f, server[f])'
    <2>0. f \in Feeds /\ server[f] # NoTag /\ server[f] \in Nat /\ server' = server
      BY <1>3 DEF Clean, FeedTypes, FeedTypeOK, NoTag, FeedVersions, OthersStay
    <2>1. ~Outdated(f)'
      BY <1>3, <2>0 DEF Outdated
    <2>2. f \in Clean
      BY <2>1 DEF Handling
    <2>3. CASE HasInHand(u, f)
      BY <1>3, <2>1, <2>2, <2>3 DEF Handling
    <2>4. CASE ~HasInHand(u, f)
      <3>1. info'[f] = info[f] /\ \A i \in Indicators : f \in ioc[i] <=> f \in ioc'[i]
        BY <1>3, <2>0, <2>2, <2>4 DEF Sparing
      <3>2. HasVersion(f, server[f])
        BY <1>3, <2>2, <3>1 DEF FeedInv, UpToDateMeansLoaded, Clean
      <3> QED BY <2>0, <3>1, <3>2, KeepsVersion
    <2> QED BY <2>3, <2>4
  <1>4. UpToDateMeansLoaded'
    <2>1. server' = server
      BY DEF OthersStay
    <2>2. \A f \in Feeds \ clashed' : f \in Clean'
      BY DEF Clean
    <2>3. ASSUME NEW f \in Feeds \ clashed', info'[f] # None, info'[f].tag = server'[f], Alone(f)'
          PROVE  HasVersion(f, server[f])'
      BY <1>3, <2>1, <2>2, <2>3, AloneStays
    <2> QED BY <2>3 DEF UpToDateMeansLoaded, WhitelistDated, Dated
  <1> QED BY <1>2, <1>4 DEF FeedInv

LEMMA DictsStay ==
    ASSUME FeedTypes, FeedInv, dict' = dict, Clean' \subseteq Clean \/ \A w \in Threads : ~Parsing(w),
           \A w \in Threads : Parsing(w)' => Parsing(w) /\ feedAt'[w] = feedAt[w]
    PROVE  \A w \in Threads : OwnDict(w)'
  <1> SUFFICES ASSUME NEW w \in Threads, Parsing(w)' PROVE OwnDict(w)'
    BY DEF OwnDict
  <1>1. /\ OwnDict(w) /\ Parsing(w) /\ feedAt'[w] = feedAt[w] /\ Clean' \subseteq Clean
        /\ feedAt[w] \in Feeds
    BY DEF FeedInv, FeedTypes, HasAFeed, Parsing, AtAFeed
  <1>2. ASSUME NEW x \in Threads \ {w}, Parsing(x)' PROVE feedAt[w] \in clashed'
    <2>1. feedAt[w] \in clashed
      BY <1>1, <1>2 DEF OwnDict
    <2> QED BY <1>1, <2>1 DEF Clean
  <1> QED BY <1>1, <1>2 DEF OwnDict

(* Steps that touch no feed: the MAC database, the whitelist, timers. *)
LEMMA NoFeedTouched ==
    ASSUME FeedTypes, FeedInv, UNCHANGED <<server, config, ioc, info, responses, disk, dict, feedAt, work, ver>>,
           Clean' = Clean, WhitelistDated', \A w \in Threads : left'[w] \subseteq config,
           \A w \in Threads : \/ stage'[w] = stage[w]
                              \/ {stage[w], stage'[w]} \cap ({"entries"} \cup AtAFeed) = {} /\ work[w] = {}
    PROVE  FeedInv'
  <1> USE FeedAssumption
  <1>1. NothingNewer' /\ Sourced'
    BY DEF FeedInv, NothingNewer, Sourced, Keeps, GivesUp, OfHashes
  <1>2. ASSUME NEW w \in Threads
        PROVE  /\ FeedThread(w)' /\ AtFeed(w)'
               /\ Parsing(w)' => Parsing(w)
               /\ \A f \in Clean : HasInHand(w, f)' <=> HasInHand(w, f)
    <2>1. FeedThread(w) /\ AtFeed(w)
      BY DEF FeedInv
    <2>2. CASE stage'[w] = stage[w]
      <3>1. FeedThread(w)'
        BY <2>1, <2>2 DEF FeedThread, AtEntries, AtNothing, ToUpdate
      <3>2. AtFeed(w)'
        <4> PICK f : f = feedAt[w]
          OBVIOUS
        <4>1. Alone(f)' <=> Alone(f)
          BY AloneStays
        <4> QED BY <2>1, <2>2, <4>1 DEF AtFeed, HasVersion, OfHashes
      <3> QED BY <2>2, <3>1, <3>2 DEF Parsing, HasInHand
    <2>3. CASE {stage[w], stage'[w]} \cap ({"entries"} \cup AtAFeed) = {} /\ work[w] = {}
      <3>1. feedAt[w] = None
        BY <2>1, <2>3 DEF FeedThread, AtNothing
      <3> QED BY <2>1, <2>3, <3>1 DEF FeedThread, AtEntries, AtNothing, ToUpdate, AtFeed, AtAFeed, Parsing, HasInHand, Clean
    <2> QED BY <2>2, <2>3
  <1>3. \A w \in Threads : OwnDict(w)'
    BY <1>2, DictsStay
  <1>4. \A w \in Threads : \A f \in Clean' : InHand(w, f)'
    BY <1>2 DEF FeedInv, InHand, Outdated
  <1>5. UpToDateMeansLoaded'
    <2>1. ASSUME NEW f \in Clean, Alone(f), info[f] # None, info[f].tag = server[f]
          PROVE  HasVersion(f, server[f])'
      BY <2>1, KeepsVersion DEF FeedInv, UpToDateMeansLoaded, Clean
    <2> QED BY <2>1, AloneStays DEF UpToDateMeansLoaded, WhitelistDated, Dated, Clean
  <1> QED BY <1>1, <1>2, <1>3, <1>4, <1>5 DEF FeedInv

LEMMA DropUnusedStep ==
    ASSUME FeedTypes, FeedInv, NEW u \in Threads, DropUnused(u)
    PROVE  FeedInv'
  <1> USE FeedAssumption
  <1>1. /\ stage[u] = "unused" /\ FeedThread(u) /\ feedAt[u] = None /\ work[u] = {}
        /\ UNCHANGED <<server, config, ioc, responses, dict, work, ver, disk, period, updated, whitelist, clashed>>
    BY DEF DropUnused, FeedInv, FeedThread, AtNothing, ToUpdate, AtAFeed
  <1>2. CASE Known \subseteq config
    <2>1. UNCHANGED <<info, feedAt>> /\ Goto(u, "check") /\ left' = [left EXCEPT ![u] = config]
      BY <1>1, <1>2 DEF DropUnused
    <2>2. \A w \in Threads : left'[w] \subseteq config /\ (stage'[w] = stage[w] \/ (w = u /\ stage'[w] = "check"))
      BY <2>1 DEF Goto, FeedTypes, FeedTypeOK, FeedInv, FeedThread, ToUpdate
    <2>3. WhitelistDated'
      BY <1>1, <2>2 DEF FeedInv, WhitelistDated, Dated, AtWhitelist
    <2> QED BY <1>1, <2>1, <2>2, <2>3, NoFeedTouched DEF AtAFeed, Clean
  <1>3. CASE ~(Known \subseteq config)
    <2>1. PICK f \in Known \ config :
            /\ info' = [info EXCEPT ![f] = None] /\ feedAt' = [feedAt EXCEPT ![u] = f] /\ Goto(u, "entries")
            /\ UNCHANGED left
      BY <1>3 DEF DropUnused
    <2>2. f \in Feeds \ config /\ info'[f] = None /\ \A g \in Feeds \ {f} : info'[g] = info[g]
      BY <2>1 DEF Known, FeedTypes, FeedTypeOK
    <2>3. stage'[u] = "entries" /\ feedAt'[u] = f /\ OthersStay(u)
      BY <1>1, <2>1 DEF Goto, FeedTypes, FeedTypeOK, OthersStay
    <2>4. NothingNewer' /\ Sourced'
      BY <1>1, <2>2 DEF FeedInv, NothingNewer, Sourced, Keeps, GivesUp, OfHashes
    <2>5. WhitelistDated'
      BY <1>1, <2>3 DEF FeedInv, WhitelistDated, Dated, AtWhitelist, OthersStay
    <2>6. FeedThread(u)' /\ AtFeed(u)'
      BY <1>1, <2>1, <2>2, <2>3 DEF FeedThread, AtEntries, AtNothing, ToUpdate, AtFeed, AtAFeed
    <2>7. Sparing(u)
      BY <1>1, <2>2 DEF Sparing, Clean
    <2>8. Handling(u)
      BY <1>1, <2>3 DEF Handling, Clean, HasInHand
    <2>9. \A w \in Threads : OwnDict(w)'
      BY <1>1, <2>3, DictsStay DEF OthersStay, Parsing, Clean
    <2> QED BY <1>1, <2>3, <2>4, <2>5, <2>6, <2>7, <2>8, <2>9, ThreadsStep
  <1> QED BY <1>2, <1>3

LEMMA DropEntriesStep ==
    ASSUME FeedTypes, FeedInv, NEW u \in Threads, DropEntries(u)
    PROVE  FeedInv'
  <1> USE FeedAssumption
  <1>1. /\ stage[u] = "entries" /\ FeedThread(u) /\ work[u] = {}
        /\ UNCHANGED <<server, config, info, responses, dict, left, work, ver, disk, period, updated, whitelist, clashed>>
    BY DEF DropEntries, FeedInv, FeedThread, ToUpdate, AtAFeed
  <1> PICK f \in Feeds \ config : f = feedAt[u] /\ info[f] = None /\ DeleteEntries(f)
    BY <1>1 DEF FeedThread, AtEntries, DropEntries
  <1>2. stage'[u] = "unused" /\ feedAt'[u] = None /\ OthersStay(u)
    BY <1>1 DEF DropEntries, Goto, FeedTypes, FeedTypeOK, OthersStay
  <1>3. NothingNewer'
    BY <1>1 DEF FeedInv, NothingNewer
  <1>4. Sourced' /\ \A i \in Indicators : ioc'[i] \subseteq ioc[i]
    BY <1>1, DeletedIsSourced DEF FeedInv
  <1>5. WhitelistDated'
    BY <1>1, <1>2 DEF FeedInv, WhitelistDated, Dated, AtWhitelist, OthersStay
  <1>6. FeedThread(u)' /\ AtFeed(u)'
    BY <1>1, <1>2 DEF FeedThread, AtEntries, AtNothing, ToUpdate, AtFeed, AtAFeed
  <1>7. Sparing(u)
    <2>1. ASSUME NEW g \in Feeds \ {f}, Alone(g) PROVE \A i \in Indicators : g \in ioc'[i] <=> g \in ioc[i]
      BY <2>1, DeletedSparesAlone DEF FeedInv
    <2> QED BY <1>1, <1>4, <2>1 DEF Sparing, Clean
  <1>8. Handling(u)
    BY <1>1, <1>2 DEF Handling, Clean, HasInHand
  <1>9. \A w \in Threads : OwnDict(w)'
    BY <1>1, <1>2, DictsStay DEF OthersStay, Parsing, Clean
  <1> QED BY <1>1, <1>2, <1>3, <1>4, <1>5, <1>6, <1>7, <1>8, <1>9, ThreadsStep

LEMMA CheckFeedStep ==
    ASSUME FeedTypes, FeedInv, NEW u \in Threads, NEW f \in Feeds, CheckFeed(u, f)
    PROVE  FeedInv'
  <1> USE FeedAssumption
  <1>1. /\ stage[u] = "check" /\ FeedThread(u) /\ feedAt[u] = None /\ f \in config
        /\ UNCHANGED <<server, config, ioc, stage, feedAt, dict, ver, disk, period, updated, whitelist>>
        /\ left'[u] = left[u] \ {f}
        /\ \A w \in Threads \ {u} : left'[w] = left[w]
    BY DEF CheckFeed, FeedInv, FeedThread, AtNothing, ToUpdate, AtAFeed, FeedTypes, FeedTypeOK
  <1>2. /\ \A g \in Feeds : info'[g] = info[g] \/ (g = f /\ info'[g].tag = NoTag /\ ~Changed(f))
        /\ \A g \in Feeds : responses'[g] = responses[g] \/ responses'[g] = server[g]
        /\ \A w \in Threads \ {u} : work'[w] = work[w]
        /\ \/ work'[u] = work[u] /\ clashed' = clashed
           \/ /\ work'[u] = work[u] \cup {f} /\ Changed(f) /\ info' = info
              /\ clashed' = IF \E w \in Threads \ {u} : HasInHand(w, f) THEN clashed \cup {f}
                            ELSE IF \E w \in Threads : Parsing(w) THEN clashed ELSE clashed \ {f}
    BY DEF CheckFeed, Mark, FeedTypes, FeedTypeOK
  <1>3. NothingNewer'
    <2>1. \A g \in Feeds : responses'[g] <= server'[g]
      BY <1>1, <1>2 DEF FeedInv, NothingNewer, FeedTypes, FeedTypeOK, FeedVersions
    <2> QED BY <1>1, <1>2, <2>1 DEF FeedInv, NothingNewer
  <1>4. Sourced'
    BY <1>1 DEF FeedInv, Sourced, Keeps, GivesUp, OfHashes
  <1>5. Feeds \cap {"tranco_whitelist"} = {}
    BY DEF Untagged
  <1>6. WhitelistDated'
    <2>1. "tranco_whitelist" \in clashed' <=> "tranco_whitelist" \in clashed
      BY <1>2, <1>5
    <2> QED BY <1>1, <2>1 DEF FeedInv, WhitelistDated, Dated, AtWhitelist
  <1>7. OthersStay(u)
    BY <1>1, <1>2 DEF OthersStay
  <1>8. Changed(f) => Outdated(f)
    <2>1. info[f] # None => info[f].tag \in Nat
      BY DEF FeedTypes, FeedTypeOK, NoTag
    <2>2. server[f] \in Nat
      BY DEF FeedTypes, FeedTypeOK, FeedVersions
    <2>3. info[f] # None => info[f].tag <= server[f] \/ info[f].tag = NoTag
      BY DEF FeedInv, NothingNewer
    <2> QED BY <2>1, <2>2, <2>3 DEF Changed, Outdated
  <1>9. \A g \in Feeds : Outdated(g) => Outdated(g)'
    BY <1>1, <1>2 DEF Outdated
  <1>10. FeedThread(u)' /\ AtFeed(u)'
    BY <1>1, <1>2 DEF FeedThread, AtEntries, AtNothing, ToUpdate, AtFeed, AtAFeed
  <1>11. Sparing(u)
    BY <1>1, <1>2 DEF Sparing, Clean
  <1>12. Handling(u)
    <2> SUFFICES ASSUME NEW g \in Clean'
                 PROVE  /\ g \in Clean \/ (Outdated(g)' /\ \A w \in Threads \ {u} : ~HasInHand(w, g))
                        /\ HasInHand(u, g)' => /\ Outdated(g)'
                                               /\ HasInHand(u, g) \/ \A w \in Threads \ {u} : ~HasInHand(w, g)
                        /\ HasInHand(u, g) /\ g \in Clean => Outdated(g)' \/ (Alone(g) => HasVersion(g, server[g])')
      BY DEF Handling
    <2>1. g \in Feeds /\ (g \in Clean => InHand(u, g))
      BY DEF Clean, FeedInv
    <2>2. HasInHand(u, g)' <=> g \in work'[u] \/ (feedAt[u] = g /\ stage[u] # "entries")
      BY <1>1 DEF HasInHand
    <2>3. CASE g # f \/ (work'[u] = work[u] /\ clashed' = clashed)
      <3>1. HasInHand(u, g)' <=> HasInHand(u, g)
        BY <1>2, <2>2, <2>3 DEF HasInHand
      <3>2. g \in Clean
        BY <1>2, <2>1, <2>3 DEF Clean
      <3> QED BY <1>9, <2>1, <3>1, <3>2 DEF InHand
    <2>4. CASE g = f /\ ~(work'[u] = work[u] /\ clashed' = clashed)
      <3>1. Outdated(f)' /\ \A w \in Threads \ {u} : ~HasInHand(w, f)
        BY <1>2, <1>8, <1>9, <2>4 DEF Clean
      <3> QED BY <2>4, <3>1
    <2> QED BY <2>3, <2>4
  <1>13. \A w \in Threads : OwnDict(w)'
    <2>1. Clean' \subseteq Clean \/ \A w \in Threads : ~Parsing(w)
      BY <1>2 DEF Clean
    <2> QED BY <1>1, <2>1, DictsStay DEF Parsing
  <1> QED BY <1>1, <1>3, <1>4, <1>6, <1>7, <1>10, <1>11, <1>12, <1>13, ThreadsStep

LEMMA CheckRiskIQStep ==
    ASSUME FeedTypes, FeedInv, NEW u \in Threads, CheckRiskIQ(u)
    PROVE  FeedInv'
  <1> USE FeedAssumption
  <1>1. /\ stage[u] = "check" /\ FeedThread(u) /\ feedAt[u] = None
        /\ UNCHANGED <<server, config, info, responses, feedAt, left, work, dict, ver, disk, period, whitelist, clashed>>
        /\ updated'["tranco_whitelist"] = updated["tranco_whitelist"]
    BY DEF CheckRiskIQ, MarkUntagged, FeedInv, FeedThread, AtNothing, AtAFeed, FeedTypes, FeedTypeOK, Untagged
  <1>2. \A i \in Indicators : ioc'[i] = ioc[i] \/ (i \in RiskDomains /\ ioc'[i] = {RiskSource})
    BY DEF CheckRiskIQ
  <1>3. stage'[u] = "next" /\ OthersStay(u)
    BY <1>1 DEF CheckRiskIQ, Goto, FeedTypes, FeedTypeOK, OthersStay
  <1>4. NothingNewer' /\ Sourced'
    BY <1>1, <1>2 DEF FeedInv, NothingNewer, Sourced, Keeps, GivesUp, OfHashes
  <1>5. WhitelistDated'
    BY <1>1, <1>3 DEF FeedInv, WhitelistDated, Dated, AtWhitelist, OthersStay
  <1>6. FeedThread(u)' /\ AtFeed(u)'
    BY <1>1, <1>3 DEF FeedThread, AtEntries, AtNothing, ToUpdate, AtFeed, AtAFeed
  <1>7. \A f : HasInHand(u, f)' <=> HasInHand(u, f)
    BY <1>1, <1>3 DEF HasInHand
  <1>8. Sparing(u)
    <2>1. ASSUME NEW f \in Feeds, NEW i \in Indicators PROVE f \in ioc'[i] => f \in ioc[i]
      BY <1>2
    <2>2. ASSUME NEW f \in Feeds, Alone(f), NEW i \in Indicators PROVE f \in ioc[i] => f \in ioc'[i]
      <3>1. CASE i \in RiskDomains /\ ioc'[i] = {RiskSource}
        BY <2>2, <3>1 DEF Alone, FeedInv, Sourced
      <3> QED BY <1>2, <3>1
    <2> QED BY <1>1, <2>1, <2>2 DEF Sparing, Clean
  <1>9. Handling(u)
    BY <1>1, <1>7 DEF Handling, Clean, FeedInv, InHand, Outdated
  <1>10. \A w \in Threads : OwnDict(w)'
    BY <1>1, <1>3, DictsStay DEF OthersStay, Parsing, Clean
  <1> QED BY <1>1, <1>3, <1>4, <1>5, <1>6, <1>8, <1>9, <1>10, ThreadsStep

LEMMA WriteFileStep ==
    ASSUME FeedTypes, FeedInv, NEW u \in Threads, WriteFile(u)
    PROVE  FeedInv'
  <1> USE FeedAssumption
  <1>1. /\ stage[u] = "next" /\ FeedThread(u) /\ feedAt[u] = None
        /\ UNCHANGED <<server, config, ioc, info, responses, dict, left, period, updated, whitelist, clashed>>
    BY DEF WriteFile, db, FeedInv, FeedThread, AtNothing, AtAFeed
  <1>2. PICK f \in work[u] : /\ feedAt' = [feedAt EXCEPT ![u] = f] /\ ver' = [ver EXCEPT ![u] = responses[f]]
                             /\ work' = [work EXCEPT ![u] = @ \ {f}]
                             /\ disk' = [disk EXCEPT ![f] = responses[f]]
    BY DEF WriteFile
  <1>3. f \in config /\ f \in Feeds
    BY <1>1 DEF FeedThread, ToUpdate, FeedTypes, FeedTypeOK
  <1>4. /\ stage'[u] = "delete" /\ feedAt'[u] = f /\ ver'[u] = responses[f] /\ disk'[f] = responses[f]
        /\ work'[u] = work[u] \ {f} /\ OthersStay(u)
    BY <1>1, <1>2, <1>3 DEF WriteFile, Goto, FeedTypes, FeedTypeOK, OthersStay
  <1>5. NothingNewer' /\ Sourced'
    BY <1>1 DEF FeedInv, NothingNewer, Sourced, Keeps, GivesUp, OfHashes
  <1>6. WhitelistDated'
    BY <1>1, <1>4 DEF FeedInv, WhitelistDated, Dated, AtWhitelist, OthersStay
  <1>7. FeedThread(u)' /\ AtFeed(u)'
    <2>1. responses[f] <= server'[f]
      BY <1>1, <1>3 DEF FeedInv, NothingNewer
    <2> QED BY <1>1, <1>3, <1>4, <2>1 DEF FeedThread, AtEntries, AtNothing, ToUpdate, AtFeed, AtAFeed
  <1>8. \A g : HasInHand(u, g)' => HasInHand(u, g)
    BY <1>1, <1>2, <1>4 DEF HasInHand
  <1>9. Sparing(u)
    <2>1. \A g \in Feeds : ~HasInHand(u, g) => disk'[g] = disk[g]
      BY <1>2 DEF HasInHand, FeedTypes, FeedTypeOK
    <2> QED BY <1>1, <2>1 DEF Sparing, Clean
  <1>10. Handling(u)
    BY <1>1, <1>8 DEF Handling, Clean, FeedInv, InHand, Outdated
  <1>11. \A w \in Threads : OwnDict(w)'
    BY <1>1, <1>4, DictsStay DEF OthersStay, Parsing, Clean
  <1> QED BY <1>1, <1>4, <1>5, <1>6, <1>7, <1>9, <1>10, <1>11, ThreadsStep

LEMMA DeletePreviousStep ==
    ASSUME FeedTypes, FeedInv, NEW u \in Threads, DeletePrevious(u)
    PROVE  FeedInv'
  <1> USE FeedAssumption
  <1>1. /\ stage[u] = "delete" /\ FeedThread(u) /\ AtFeed(u)
        /\ UNCHANGED <<server, config, info, responses, feedAt, dict, left, work, ver, disk, period, updated, whitelist, clashed>>
    BY DEF DeletePrevious, FeedInv
  <1> PICK f \in Feeds : f = feedAt[u] /\ DeleteEntries(f)
    BY <1>1 DEF FeedTypes, HasAFeed, AtAFeed, DeletePrevious
  <1>2. stage'[u] = "parse" /\ OthersStay(u)
    BY <1>1 DEF DeletePrevious, Goto, FeedTypes, FeedTypeOK, OthersStay
  <1>3. NothingNewer'
    BY <1>1 DEF FeedInv, NothingNewer
  <1>4. Sourced' /\ \A i \in Indicators : ioc'[i] \subseteq ioc[i]
    BY <1>1, DeletedIsSourced DEF FeedInv
  <1>5. WhitelistDated'
    BY <1>1, <1>2 DEF FeedInv, WhitelistDated, Dated, AtWhitelist, OthersStay
  <1>6. ~OfHashes(f) => \A i \in Indicators : f \notin ioc'[i]
    BY DeletedHasNone DEF FeedInv
  <1>7. FeedThread(u)' /\ AtFeed(u)'
    BY <1>1, <1>2, <1>6 DEF FeedThread, AtEntries, AtNothing, ToUpdate, AtFeed, AtAFeed, OfHashes, Clean
  <1>8. \A g : HasInHand(u, g)' <=> HasInHand(u, g)
    BY <1>1, <1>2 DEF HasInHand
  <1>9. Sparing(u)
    <2>1. ASSUME NEW g \in Feeds \ {f}, Alone(g) PROVE \A i \in Indicators : g \in ioc'[i] <=> g \in ioc[i]
      BY <2>1, DeletedSparesAlone DEF FeedInv
    <2>2. HasInHand(u, f)
      BY <1>1 DEF HasInHand
    <2> QED BY <1>1, <1>4, <2>1, <2>2 DEF Sparing, Clean
  <1>10. Handling(u)
    BY <1>1, <1>8 DEF Handling, Clean, FeedInv, InHand, Outdated
  <1>11. \A w \in Threads : OwnDict(w)'
    BY <1>1, <1>2, DictsStay DEF OthersStay, Parsing, Clean
  <1> QED BY <1>1, <1>2, <1>3, <1>4, <1>5, <1>7, <1>9, <1>10, <1>11, ThreadsStep

LEMMA StartParsingStep ==
    ASSUME FeedTypes, FeedInv, NEW u \in Threads, StartParsing(u)
    PROVE  FeedInv'
  <1> USE FeedAssumption
  <1>1. /\ stage[u] = "parse" /\ FeedThread(u) /\ AtFeed(u)
        /\ UNCHANGED <<server, config, info, ioc, responses, left, work, disk, period, updated, whitelist>>
    BY DEF StartParsing, db, FeedInv
  <1> PICK f \in Feeds : f = feedAt[u]
    BY <1>1 DEF FeedTypes, HasAFeed, AtAFeed
  <1>2. NothingNewer'
    BY <1>1 DEF FeedInv, NothingNewer
  <1>3. HasInHand(u, f) /\ (f \in Clean => Outdated(f))
    BY <1>1 DEF HasInHand, FeedInv, InHand
  <1>4. CASE Goto(u, "next") /\ EndTask(u) /\ UNCHANGED <<dict, clashed>>
    <2>1. stage'[u] = "next" /\ feedAt'[u] = None /\ OthersStay(u)
      BY <1>1, <1>4 DEF Goto, EndTask, FeedTypes, FeedTypeOK, OthersStay
    <2>2. Sourced'
      BY <1>1, <1>4 DEF FeedInv, Sourced, Keeps, GivesUp, OfHashes
    <2>3. WhitelistDated'
      BY <1>1, <1>4, <2>1 DEF FeedInv, WhitelistDated, Dated, AtWhitelist, OthersStay
    <2>4. FeedThread(u)' /\ AtFeed(u)'
      BY <1>1, <2>1 DEF FeedThread, AtEntries, AtNothing, ToUpdate, AtFeed, AtAFeed
    <2>5. Sparing(u)
      BY <1>1 DEF Sparing, Clean
    <2>6. \A g \in Feeds : HasInHand(u, g)' => HasInHand(u, g)
      BY <1>1, <2>1 DEF HasInHand
    <2>7. Handling(u)
      BY <1>1, <1>4, <2>6 DEF Handling, Clean, FeedInv, InHand, Outdated
    <2>8. \A w \in Threads : OwnDict(w)'
      BY <1>1, <1>4, <2>1, DictsStay DEF OthersStay, Parsing, Clean
    <2> QED BY <1>2, <1>4, <2>1, <2>2, <2>3, <2>4, <2>5, <2>7, <2>8, ThreadsStep
  <1>5. CASE /\ Format(f) = "text" /\ dict' = [i \in {} |-> {}] /\ Goto(u, "lines") /\ UNCHANGED <<feedAt, ver>>
             /\ LET others == {w \in Threads \ {u} : Parsing(w)} IN
                clashed' = IF others = {} THEN clashed ELSE clashed \cup {feedAt[w] : w \in others \cup {u}}
    <2>1. stage'[u] = "lines" /\ feedAt'[u] = f /\ ver' = ver /\ OthersStay(u)
      BY <1>1, <1>5 DEF Goto, FeedTypes, FeedTypeOK, OthersStay
    <2>2. Sourced'
      BY <1>1, <1>5 DEF FeedInv, Sourced, Keeps, GivesUp, OfHashes
    <2>3. /\ Clean' \subseteq Clean
          /\ \A w \in Threads \ {u} : Parsing(w) => feedAt[w] \in clashed' /\ f \in clashed'
      BY <1>5 DEF Clean
    <2>4. "tranco_whitelist" \in clashed' <=> "tranco_whitelist" \in clashed
      <3>1. "tranco_whitelist" \notin Feeds
        BY DEF Untagged
      <3>2. \A w \in Threads : Parsing(w) => feedAt[w] \in Feeds
        BY DEF FeedTypes, HasAFeed, Parsing, AtAFeed
      <3> QED BY <1>5, <3>1, <3>2
    <2>5. WhitelistDated'
      BY <1>1, <2>1, <2>4 DEF FeedInv, WhitelistDated, Dated, AtWhitelist, OthersStay
    <2>6. ~OfHashes(f)
      BY <1>5 DEF OfHashes
    <2>7. FeedThread(u)'
      BY <1>1, <2>1 DEF FeedThread, AtEntries, AtNothing, ToUpdate, AtAFeed
    <2>8. AtFeed(u)'
      BY <1>1, <1>5, <2>1, <2>3 DEF AtFeed, AtAFeed, OfHashes
    <2>9. Sparing(u)
      BY <1>1 DEF Sparing, Clean
    <2>10. \A g \in Feeds : HasInHand(u, g)' <=> HasInHand(u, g)
      BY <1>1, <2>1 DEF HasInHand
    <2>11. Handling(u)
      BY <1>1, <2>3, <2>10 DEF Handling, Clean, FeedInv, InHand, Outdated
    <2>12. \A w \in Threads : OwnDict(w)'
      <3>1. ASSUME NEW w \in Threads, NEW x \in Threads \ {w}, Parsing(w)', Parsing(x)'
            PROVE  feedAt'[w] \in clashed'
        BY <2>1, <2>3, <3>1 DEF Parsing, OthersStay
      <3> QED BY <1>5, <3>1 DEF OwnDict
    <2>13. \A w \in Threads \ {u} : Parsing(w) => feedAt[w] \notin Clean'
      BY <2>3 DEF Clean
    <2> QED BY <1>2, <2>1, <2>2, <2>5, <2>7, <2>8, <2>9, <2>11, <2>12, <2>13, ThreadsStep
  <1> QED BY <1>4, <1>5 DEF StartParsing

LEMMA ParseLinesStep ==
    ASSUME FeedTypes, FeedInv, NEW u \in Threads, ParseLines(u)
    PROVE  FeedInv'
  <1> USE FeedAssumption
  <1>1. /\ stage[u] = "lines" /\ FeedThread(u) /\ AtFeed(u) /\ Parsing(u) /\ \A w \in Threads : OwnDict(w)
        /\ UNCHANGED <<server, config, info, ioc, responses, feedAt, left, work, ver, disk, period, updated, whitelist, clashed>>
    BY DEF ParseLines, db, FeedInv, Parsing
  <1> PICK f \in Feeds : f = feedAt[u] /\ ~OfHashes(f)
    BY <1>1 DEF FeedTypes, HasAFeed, AtAFeed
  <1> PICK v \in FeedVersions :
         /\ v = (IF disk[f] = None THEN ver[u] ELSE disk[f])
         /\ dict' = [i \in DOMAIN dict \cup KeptOf(f, v) |-> IF i \in KeptOf(f, v) THEN WithSource(i, f) ELSE dict[i]]
    BY DEF ParseLines, FeedTypes, FeedTypeOK
  <1>2. stage'[u] = "store" /\ OthersStay(u)
    BY <1>1 DEF ParseLines, Goto, FeedTypes, FeedTypeOK, OthersStay
  <1>3. \A i \in KeptOf(f, v) : Keeps(f, i)
    BY DEF Keeps, GivesUp
  <1>4. \A i \in DOMAIN dict' : \/ i \in DOMAIN dict /\ dict'[i] = dict[i]
                                \/ i \in DOMAIN dict /\ Keeps(f, i) /\ dict'[i] = dict[i] \cup {f}
                                \/ Keeps(f, i) /\ dict'[i] = {f}
    BY <1>3 DEF WithSource
  <1>5. NothingNewer'
    BY <1>1 DEF FeedInv, NothingNewer
  <1>6. Sourced'
    <2>1. ASSUME NEW i \in DOMAIN dict' PROVE dict'[i] # {} /\ \A h \in dict'[i] : Keeps(h, i)
      <3>1. i \in DOMAIN dict => dict[i] # {} /\ \A h \in dict[i] : Keeps(h, i)
        BY DEF FeedInv, Sourced
      <3>2. CASE dict'[i] = {f} /\ Keeps(f, i)
        BY <3>2
      <3>3. CASE i \in DOMAIN dict /\ dict'[i] = dict[i]
        BY <3>1, <3>3
      <3>4. CASE i \in DOMAIN dict /\ Keeps(f, i) /\ dict'[i] = dict[i] \cup {f}
        BY <3>1, <3>4
      <3> QED BY <1>4, <3>2, <3>3, <3>4
    <2>2. \A h, i : Keeps(h, i)' <=> Keeps(h, i)
      BY DEF Keeps, GivesUp, OfHashes
    <2> QED BY <1>1, <2>1, <2>2 DEF FeedInv, Sourced
  <1>7. WhitelistDated'
    BY <1>1, <1>2 DEF FeedInv, WhitelistDated, Dated, AtWhitelist, OthersStay
  <1>8. f \in Clean => DOMAIN dict' = KeptOf(f, ver[u]) /\ \A i \in DOMAIN dict' : dict'[i] = {f}
    <2> SUFFICES ASSUME f \in Clean PROVE DOMAIN dict' = KeptOf(f, ver[u]) /\ \A i \in DOMAIN dict' : dict'[i] = {f}
      OBVIOUS
    <2>1. v = ver[u] /\ DOMAIN dict = {}
      BY <1>1 DEF AtFeed, AtAFeed
    <2>2. \A i \in KeptOf(f, v) : WithSource(i, f) = {f}
      BY <2>1 DEF WithSource
    <2> QED BY <2>1, <2>2
  <1>9. FeedThread(u)'
    BY <1>1, <1>2 DEF FeedThread, AtEntries, AtNothing, ToUpdate, AtAFeed
  <1>10. AtFeed(u)'
    BY <1>1, <1>2, <1>8 DEF AtFeed, AtAFeed, OfHashes, Clean
  <1>11. Sparing(u)
    BY <1>1 DEF Sparing, Clean
  <1>12. \A g \in Feeds : HasInHand(u, g)' <=> HasInHand(u, g)
    BY <1>1, <1>2 DEF HasInHand
  <1>13. Handling(u)
    BY <1>1, <1>12 DEF Handling, Clean, FeedInv, InHand, Outdated
  <1>14. \A w \in Threads \ {u} : Parsing(w) => feedAt[w] \in clashed /\ f \in clashed
    BY <1>1 DEF OwnDict
  <1>15. \A w \in Threads : OwnDict(w)'
    <2> SUFFICES ASSUME NEW w \in Threads, Parsing(w)' PROVE OwnDict(w)'
      BY DEF OwnDict
    <2>1. Parsing(w) /\ \A x \in Threads : Parsing(x)' => Parsing(x)
      BY <1>1, <1>2 DEF Parsing, OthersStay
    <2>2. \A x \in Threads \ {w} : Parsing(x)' => feedAt'[w] \in clashed'
      BY <1>1, <2>1 DEF OwnDict
    <2>3. f = feedAt[w] \/ f \notin Clean
      BY <1>14, <2>1 DEF Clean
    <2>4. \A i \in DOMAIN dict : dict[i] \cap Clean \subseteq {feedAt[w]}
      BY <1>1, <2>1 DEF OwnDict
    <2>5. ASSUME NEW i \in DOMAIN dict' PROVE dict'[i] \cap Clean \subseteq {feedAt[w]}
      <3>1. CASE dict'[i] = {f}
        BY <2>3, <3>1
      <3>2. CASE i \in DOMAIN dict /\ dict'[i] = dict[i]
        BY <2>4, <3>2
      <3>3. CASE i \in DOMAIN dict /\ dict'[i] = dict[i] \cup {f}
        BY <2>3, <2>4, <3>3
      <3> QED BY <1>4, <3>1, <3>2, <3>3
    <2> QED BY <1>1, <2>2, <2>5 DEF OwnDict, Clean
  <1>16. \A w \in Threads \ {u} : Parsing(w) => feedAt[w] \notin Clean'
    BY <1>1, <1>14 DEF Clean
  <1> QED BY <1>2, <1>5, <1>6, <1>7, <1>9, <1>10, <1>11, <1>13, <1>15, <1>16, ThreadsStep

(* StoreFeed and ParseOther, what they have in common: a dictionary whose    *)
(* only clean source is the feed replaces what was stored.                   *)
LEMMA StoredStep ==
    ASSUME FeedTypes, FeedInv, NEW u \in Threads, stage[u] \in {"store", "parse"}, Goto(u, "mark"),
           NEW f \in Feeds, f = feedAt[u], NEW D, DOMAIN D \subseteq Indicators,
           \A i \in DOMAIN D : D[i] # {} /\ D[i] \cap Clean \subseteq {f} /\ \A h \in D[i] : h \in Feeds /\ Keeps(h, i),
           f \in Clean => DOMAIN D = KeptOf(f, ver[u]) /\ \A i \in DOMAIN D : D[i] = {f},
           \A i \in Indicators : ioc'[i] = IF i \in DOMAIN D THEN D[i] ELSE ioc[i],
           UNCHANGED <<server, config, info, responses, feedAt, left, work, ver, disk, dict, period, updated, whitelist, clashed>>
    PROVE  FeedInv'
  <1> USE FeedAssumption
  <1>1. FeedThread(u) /\ AtFeed(u)
    BY DEF FeedInv
  <1>2. stage'[u] = "mark" /\ OthersStay(u)
    BY DEF Goto, FeedTypes, FeedTypeOK, OthersStay
  <1>3. NothingNewer'
    BY DEF FeedInv, NothingNewer
  <1>4. Sourced'
    <2>1. ASSUME NEW i \in Indicators, NEW h \in ioc'[i]
          PROVE  (h = RiskSource /\ i \in RiskDomains) \/ (h \in Feeds /\ Keeps(h, i))
      BY <2>1 DEF FeedInv, Sourced
    <2>2. \A h, i : Keeps(h, i)' <=> Keeps(h, i)
      BY DEF Keeps, GivesUp, OfHashes
    <2> QED BY <2>1, <2>2 DEF FeedInv, Sourced
  <1>5. WhitelistDated'
    BY <1>2 DEF FeedInv, WhitelistDated, Dated, AtWhitelist, OthersStay
  <1>6. FeedThread(u)'
    BY <1>1, <1>2 DEF FeedThread, AtEntries, AtNothing, ToUpdate, AtAFeed
  <1>7. f \in Clean => HasVersion(f, ver[u])'
    <2> SUFFICES ASSUME f \in Clean PROVE HasVersion(f, ver[u])'
      OBVIOUS
    <2>1. ~OfHashes(f) => \A i \in Indicators : f \notin ioc[i]
      BY <1>1 DEF AtFeed, AtAFeed
    <2>2. KeptOf(f, ver[u]) \subseteq {i \in Indicators : f \in ioc'[i]}
      OBVIOUS
    <2>3. ~OfHashes(f) => {i \in Indicators : f \in ioc'[i]} \subseteq KeptOf(f, ver[u])
      BY <2>1
    <2> QED BY <2>2, <2>3 DEF HasVersion, OfHashes
  <1>8. AtFeed(u)'
    BY <1>1, <1>2, <1>7 DEF AtFeed, AtAFeed, Clean, HasVersion, OfHashes
  <1>9. HasInHand(u, f) /\ \A g \in Feeds : HasInHand(u, g)' <=> HasInHand(u, g)
    BY <1>2 DEF HasInHand
  <1>10. Sparing(u)
    <2>1. ASSUME NEW g \in Clean, g # f, NEW i \in Indicators PROVE g \in ioc'[i] => g \in ioc[i]
      BY <2>1
    <2>2. ASSUME NEW g \in Clean, g # f, Alone(g), NEW i \in Indicators, g \in ioc[i] PROVE g \in ioc'[i]
      <3>1. g \in Feeds /\ Keeps(g, i)
        BY <2>2 DEF Clean, FeedInv, Sourced
      <3>2. ASSUME i \in DOMAIN D PROVE FALSE
        <4>1. PICK h \in D[i] : h \in Feeds /\ Keeps(h, i)
          BY <3>2
        <4>2. h # g
          BY <2>2, <3>2, <4>1
        <4> QED BY <2>2, <3>1, <4>1, <4>2 DEF Alone
      <3> QED BY <2>2, <3>2
    <2> QED BY <1>9, <2>1, <2>2 DEF Sparing, Clean
  <1>11. Handling(u)
    BY <1>9 DEF Handling, Clean, FeedInv, InHand, Outdated
  <1>12. \A w \in Threads : OwnDict(w)'
    BY <1>2, DictsStay DEF OthersStay, Parsing, Clean
  <1> QED BY <1>2, <1>3, <1>4, <1>5, <1>6, <1>8, <1>10, <1>11, <1>12, ThreadsStep

LEMMA StoreStep ==
    ASSUME FeedTypes, FeedInv, NEW u \in Threads, StoreFeed(u)
    PROVE  FeedInv'
  <1>1. /\ stage[u] = "store" /\ AtFeed(u) /\ OwnDict(u)
        /\ UNCHANGED <<server, config, info, responses, feedAt, left, work, ver, disk, dict, period, updated, whitelist, clashed>>
    BY DEF StoreFeed, FeedInv
  <1> PICK f \in Feeds : f = feedAt[u]
    BY <1>1 DEF FeedTypes, HasAFeed, AtAFeed
  <1>2. DOMAIN dict \subseteq Indicators /\ \A i \in DOMAIN dict : dict[i] \subseteq Feeds
    BY DEF FeedTypes, FeedTypeOK
  <1>3. \A i \in DOMAIN dict : dict[i] # {} /\ dict[i] \cap Clean \subseteq {f} /\ \A h \in dict[i] : h \in Feeds /\ Keeps(h, i)
    BY <1>1, <1>2 DEF FeedInv, Sourced, OwnDict, Parsing
  <1>4. f \in Clean => DOMAIN dict = KeptOf(f, ver[u]) /\ \A i \in DOMAIN dict : dict[i] = {f}
    BY <1>1 DEF AtFeed, AtAFeed
  <1>5. \A i \in Indicators : ioc'[i] = IF i \in DOMAIN dict THEN dict[i] ELSE ioc[i]
    BY DEF StoreFeed
  <1> QED BY <1>1, <1>2, <1>3, <1>4, <1>5, StoredStep DEF StoreFeed

LEMMA ParseOtherStep ==
    ASSUME FeedTypes, FeedInv, NEW u \in Threads, ParseOther(u)
    PROVE  FeedInv'
  <1> USE FeedAssumption
  <1>1. /\ stage[u] = "parse" /\ AtFeed(u)
        /\ UNCHANGED <<server, config, info, responses, feedAt, left, work, ver, disk, dict, period, updated, whitelist, clashed>>
    BY DEF ParseOther, FeedInv
  <1> PICK f \in Feeds : f = feedAt[u]
    BY <1>1 DEF FeedTypes, HasAFeed, AtAFeed
  <1> PICK v \in FeedVersions : v = disk[f] /\ KeptOf(f, v) # None
    BY DEF ParseOther, FeedTypes, FeedTypeOK
  <1>2. KeptOf(f, v) \subseteq Indicators /\ \A i \in KeptOf(f, v) : Keeps(f, i)
    BY KeptAreIocs DEF Keeps, GivesUp
  <1>3. f \in Clean => v = ver[u]
    BY <1>1 DEF AtFeed, AtAFeed
  <1> DEFINE D == [i \in KeptOf(f, v) |-> {f}]
  <1>4. \A i \in Indicators : ioc'[i] = IF i \in DOMAIN D THEN D[i] ELSE ioc[i]
    BY DEF ParseOther
  <1>5. /\ DOMAIN D = KeptOf(f, v)
        /\ \A i \in DOMAIN D : D[i] = {f}
    OBVIOUS
  <1> HIDE DEF D
  <1>6. \A i \in DOMAIN D : D[i] # {} /\ D[i] \cap Clean \subseteq {f} /\ \A h \in D[i] : h \in Feeds /\ Keeps(h, i)
    BY <1>2, <1>5
  <1>7. DOMAIN D \subseteq Indicators /\ (f \in Clean => DOMAIN D = KeptOf(f, ver[u]) /\ \A i \in DOMAIN D : D[i] = {f})
    BY <1>2, <1>3, <1>5
  <1>8. Goto(u, "mark")
    BY DEF ParseOther
  <1> QED BY <1>1, <1>4, <1>6, <1>7, <1>8, StoredStep

LEMMA MarkUpdatedStep ==
    ASSUME FeedTypes, FeedInv, NEW u \in Threads, MarkUpdated(u)
    PROVE  FeedInv'
  <1> USE FeedAssumption
  <1>1. /\ stage[u] = "mark" /\ FeedThread(u) /\ AtFeed(u)
        /\ UNCHANGED <<server, config, ioc, responses, left, work, dict, period, updated, whitelist, clashed>>
    BY DEF MarkUpdated, FeedInv
  <1> PICK f \in Feeds : f = feedAt[u] /\ f \in config \ work[u] /\ ver[u] <= server[f]
    BY <1>1 DEF FeedTypes, HasAFeed, AtAFeed, FeedThread, ToUpdate
  <1>2. info'[f].tag = ver[u] /\ \A g \in Feeds \ {f} : info'[g] = info[g] /\ disk'[g] = disk[g]
    BY DEF MarkUpdated, Mark, FeedTypes, FeedTypeOK
  <1>3. stage'[u] = "next" /\ feedAt'[u] = None /\ OthersStay(u)
    BY <1>1 DEF MarkUpdated, EndTask, Goto, FeedTypes, FeedTypeOK, OthersStay
  <1>4. NothingNewer' /\ Sourced'
    BY <1>1, <1>2 DEF FeedInv, NothingNewer, Sourced, Keeps, GivesUp, OfHashes
  <1>5. WhitelistDated'
    BY <1>1, <1>3 DEF FeedInv, WhitelistDated, Dated, AtWhitelist, OthersStay
  <1>6. FeedThread(u)' /\ AtFeed(u)'
    BY <1>1, <1>3 DEF FeedThread, AtEntries, AtNothing, ToUpdate, AtFeed, AtAFeed
  <1>7. HasInHand(u, f) /\ \A g \in Feeds : HasInHand(u, g)' <=> HasInHand(u, g) /\ g # f
    BY <1>1, <1>3 DEF HasInHand
  <1>8. Sparing(u)
    BY <1>1, <1>2, <1>7 DEF Sparing, Clean
  <1>9. Handling(u)
    <2>1. ASSUME f \in Clean, Alone(f), ~Outdated(f)' PROVE HasVersion(f, server[f])'
      <3>1. HasVersion(f, ver[u])
        BY <1>1, <2>1 DEF AtFeed, AtAFeed
      <3>2. ver[u] = server[f]
        <4>1. ver[u] \in Nat /\ server[f] \in Nat
          BY DEF FeedTypes, FeedTypeOK, FeedVersions
        <4>2. ~(ver[u] < server[f])
          BY <1>2, <1>3, <2>1 DEF Outdated, OthersStay
        <4> QED BY <4>1, <4>2
      <3> QED BY <1>1, <3>1, <3>2, KeepsVersion
    <2>2. \A g \in Feeds \ {f} : Outdated(g) => Outdated(g)'
      BY <1>1, <1>2 DEF Outdated
    <2> QED BY <1>1, <1>7, <2>1, <2>2 DEF Handling, Clean, FeedInv, InHand
  <1>10. \A w \in Threads : OwnDict(w)'
    BY <1>1, <1>3, DictsStay DEF OthersStay, Parsing, Clean
  <1> QED BY <1>1, <1>3, <1>4, <1>5, <1>6, <1>8, <1>9, <1>10, ThreadsStep

(* Steps of a thread that is not at the feeds, and of its timer.            *)
LEMMA OutsideStep ==
    ASSUME FeedTypes, FeedInv, NEW u \in Threads,
           Start(u) \/ UpdateMacDb(u) \/ CheckWhitelist(u) \/ DropWhitelist(u) \/ Refill(u) \/ Finish(u) \/ Fire(u)
    PROVE  FeedInv'
  <1> USE FeedAssumption
  <1>1. /\ UNCHANGED <<server, config, ioc, info, responses, disk, dict, feedAt, left, work, ver, period>>
        /\ stage[u] \in {"start", "mac", "lists", "drop", "refill", "next", "waiting"}
    BY DEF Start, UpdateMacDb, CheckWhitelist, DropWhitelist, Refill, Finish, Fire, db
  <1>2. \A w \in Threads : FeedThread(w)
    BY DEF FeedInv
  <1>3. work[u] = {}
    BY <1>1, <1>2 DEF FeedThread, ToUpdate, Start, UpdateMacDb, CheckWhitelist, DropWhitelist, Refill, Finish, Fire, AtAFeed
  <1>4. stage'[u] \in {"mac", "dead", "lists", "drop", "refill", "unused", "waiting"}
    BY DEF Start, UpdateMacDb, CheckWhitelist, DropWhitelist, Refill, Finish, Fire, Goto, FeedTypes, FeedTypeOK
  <1>5. \A w \in Threads \ {u} : stage'[w] = stage[w] \/ (stage[w] = "off" /\ stage'[w] = "waiting")
    BY DEF Start, UpdateMacDb, CheckWhitelist, DropWhitelist, Refill, Finish, Fire, Goto, FeedTypes, FeedTypeOK
  <1>6. ASSUME NEW w \in Threads, stage'[w] # stage[w]
        PROVE  {stage[w], stage'[w]} \cap ({"entries"} \cup AtAFeed) = {} /\ work[w] = {}
    <2>1. CASE w = u
      BY <1>1, <1>3, <1>4, <2>1 DEF AtAFeed
    <2>2. CASE w # u
      BY <1>2, <1>5, <1>6, <2>2 DEF FeedThread, ToUpdate, AtAFeed
    <2> QED BY <2>1, <2>2
  <1>7. Clean' = Clean
    BY DEF Start, UpdateMacDb, CheckWhitelist, DropWhitelist, Refill, Finish, Fire, Clean, Untagged
  <1>8. \A w \in Threads \ {u} : AtWhitelist(w)' <=> AtWhitelist(w)
    BY <1>5 DEF AtWhitelist
  <1>9. Dated \in Nat /\ period \in Nat /\ Dated <= period
    BY DEF FeedTypes, FeedTypeOK, FeedInv, WhitelistDated, Dated, Untagged
  <1>10. WhitelistDated'
    <2>1. CASE CheckWhitelist(u)
      <3>1. /\ UNCHANGED <<updated, whitelist, period>>
            /\ \/ /\ Dated < period
                  /\ clashed' = IF \E w \in Threads \ {u} : AtWhitelist(w)
                                THEN clashed \cup {"tranco_whitelist"} ELSE clashed \ {"tranco_whitelist"}
               \/ clashed' = clashed /\ ~AtWhitelist(u)'
        BY <2>1 DEF CheckWhitelist, Goto, Stale, Dated, db, AtWhitelist, FeedTypes, FeedTypeOK
      <3> QED BY <1>8, <1>9, <3>1 DEF FeedInv, WhitelistDated, Dated
    <2>2. CASE DropWhitelist(u)
      <3>1. UNCHANGED <<updated, period, clashed>> /\ AtWhitelist(u) /\ AtWhitelist(u)'
        BY <2>2 DEF DropWhitelist, Goto, AtWhitelist, FeedTypes, FeedTypeOK
      <3> QED BY <1>8, <1>9, <3>1 DEF FeedInv, WhitelistDated, Dated
    <2>3. CASE Refill(u)
      <3>1. Dated' = period /\ period' = period /\ clashed' = clashed /\ whitelist' /\ AtWhitelist(u) /\ ~AtWhitelist(u)'
        BY <2>3 DEF Refill, MarkUntagged, Goto, Dated, AtWhitelist, FeedTypes, FeedTypeOK, Untagged
      <3> QED BY <1>8, <1>9, <3>1 DEF FeedInv, WhitelistDated
    <2>4. CASE Start(u) \/ UpdateMacDb(u) \/ Finish(u) \/ Fire(u)
      <3>1. Dated' = Dated /\ UNCHANGED <<period, clashed, whitelist>> /\ ~AtWhitelist(u)'
        BY <2>4, <1>4 DEF Start, UpdateMacDb, Finish, Fire, MarkUntagged, Goto, Dated, AtWhitelist, db,
              FeedTypes, FeedTypeOK, Untagged
      <3> QED BY <1>8, <1>9, <3>1 DEF FeedInv, WhitelistDated
    <2> QED BY <2>1, <2>2, <2>3, <2>4
  <1>11. \A w \in Threads : left'[w] \subseteq config
    BY <1>1, <1>2 DEF FeedThread, ToUpdate
  <1> QED BY <1>1, <1>6, <1>7, <1>10, <1>11, NoFeedTouched

(* What is outdated stays so, and new versions make more feeds outdated.    *)
LEMMA PublishStep ==
    ASSUME FeedTypes, FeedInv, NEW f \in Feeds, Publish(f)
    PROVE  FeedInv'
  <1> USE FeedAssumption
  <1>1. /\ server'[f] = server[f] + 1 /\ server[f] + 1 < NoTag
        /\ \A g \in Feeds : server[g] \in Nat /\ server[g] <= server'[g] /\ (g # f => server'[g] = server[g])
        /\ \A g \in Feeds : info[g] # None => info[g].tag \in Nat
        /\ \A g \in Feeds : responses[g] \in Nat
        /\ \A u \in Threads : ver[u] \in Nat
        /\ UNCHANGED <<config, period, ioc, info, whitelist, updated, responses, dict, stage, left, work, feedAt, ver, disk, clashed>>
    BY DEF Publish, FeedTypes, FeedTypeOK, FeedVersions, NoTag, db, process
  <1>2. NothingNewer' /\ Sourced' /\ WhitelistDated'
    <2>1. \A g \in Feeds : server'[g] \in Nat
      BY <1>1
    <2>2. NothingNewer'
      BY <1>1, <2>1 DEF FeedInv, NothingNewer
    <2> QED BY <1>1, <2>2 DEF FeedInv, Sourced, WhitelistDated, Dated, AtWhitelist, Keeps, GivesUp, OfHashes
  <1>3. ASSUME NEW g \in Feeds, Outdated(g) PROVE Outdated(g)'
    BY <1>1, <1>3 DEF Outdated
  <1>4. ASSUME NEW u \in Threads PROVE FeedThread(u)'
    <2>1. FeedThread(u) /\ (stage[u] \in AtAFeed => feedAt[u] \in Feeds)
      BY DEF FeedInv, FeedTypes, HasAFeed
    <2>2. ASSUME stage[u] \in AtAFeed PROVE ver[u] <= server'[feedAt[u]]
      <3>1. ver[u] <= server[feedAt[u]] /\ feedAt[u] \in Feeds
        BY <2>1, <2>2 DEF FeedThread, ToUpdate
      <3>2. server[feedAt[u]] <= server'[feedAt[u]] /\ server'[feedAt[u]] \in Nat /\ server[feedAt[u]] \in Nat
        BY <1>1, <3>1
      <3> QED BY <1>1, <3>1, <3>2
    <2> QED BY <1>1, <2>1, <2>2 DEF FeedThread, AtEntries, AtNothing, ToUpdate
  <1>5. ASSUME NEW u \in Threads PROVE AtFeed(u)' /\ OwnDict(u)' /\ \A g \in Clean' : InHand(u, g)'
    <2>1. AtFeed(u)'
      <3> PICK h : h = feedAt[u]
        OBVIOUS
      <3>1. Alone(h)' <=> Alone(h)
        BY AloneStays
      <3>2. AtFeed(u)
        BY DEF FeedInv
      <3> QED BY <1>1, <3>1, <3>2 DEF AtFeed, Clean, OfHashes, HasVersion
    <2>2. OwnDict(u)'
      BY <1>1 DEF FeedInv, OwnDict, Parsing, Clean
    <2>3. \A g \in Clean' : InHand(u, g)'
      BY <1>1, <1>3 DEF FeedInv, InHand, HasInHand, Clean
    <2> QED BY <2>1, <2>2, <2>3
  <1>6. UpToDateMeansLoaded'
    <2>1. ASSUME NEW g \in Clean, NEW v, v = server'[g], Alone(g), info[g] # None, info[g].tag = v
          PROVE  HasVersion(g, v)'
      <3>1. g \in Feeds /\ g # f
        BY <1>1, <2>1 DEF FeedInv, NothingNewer, Clean
      <3>2. HasVersion(g, v)
        BY <1>1, <2>1, <3>1 DEF FeedInv, UpToDateMeansLoaded, Clean
      <3> QED BY <1>1, <3>1, <3>2, KeepsVersion
    <2>2. ASSUME NEW g \in Clean, Alone(g)', info'[g] # None, info'[g].tag = server'[g]
          PROVE  HasVersion(g, server[g])'
      <3> PICK v : v = server'[g]
        OBVIOUS
      <3>1. HasVersion(g, v)'
        BY <1>1, <2>1, <2>2, AloneStays
      <3> QED BY <3>1 DEF HasVersion
    <2> QED BY <1>1, <1>2, <2>2 DEF UpToDateMeansLoaded, WhitelistDated, Dated, Clean
  <1> QED BY <1>2, <1>4, <1>5, <1>6 DEF FeedInv

(* A kill leaves what the thread was at outdated, so it counts for nothing. *)
LEMMA StartAgainStep ==
    ASSUME FeedTypes, FeedInv, NEW c \in Configs, StartAgain(c)
    PROVE  FeedInv'
  <1> USE FeedAssumption
  <1>1. /\ UNCHANGED <<server, period, ioc, info, whitelist, updated, disk, clashed>>
        /\ DOMAIN dict' = {} /\ \A f \in Feeds : responses'[f] = 0 /\ server[f] \in Nat
        /\ \A u \in Threads : stage'[u] \in {"start", "off"} /\ left'[u] = {} /\ work'[u] = {} /\ feedAt'[u] = None
    BY DEF StartAgain, db, FeedTypes, FeedTypeOK, FeedVersions
  <1>2. NothingNewer' /\ Sourced' /\ WhitelistDated'
    BY <1>1 DEF FeedInv, NothingNewer, Sourced, WhitelistDated, Dated, AtWhitelist, Keeps, GivesUp, OfHashes
  <1>3. ASSUME NEW u \in Threads
        PROVE  FeedThread(u)' /\ AtFeed(u)' /\ OwnDict(u)' /\ \A f \in Clean' : InHand(u, f)'
    <2>1. \A f \in Clean' : InHand(u, f)'
      BY <1>1 DEF InHand, HasInHand, Clean
    <2> QED BY <1>1, <2>1 DEF FeedThread, AtEntries, AtNothing, ToUpdate, AtFeed, AtAFeed, OwnDict, Parsing
  <1>4. UpToDateMeansLoaded'
    <2>1. ASSUME NEW f \in Clean, Alone(f), info[f] # None, info[f].tag = server[f]
          PROVE  HasVersion(f, server[f])'
      BY <1>1, <2>1, KeepsVersion DEF FeedInv, UpToDateMeansLoaded, Clean
    <2> QED BY <1>1, <1>2, <2>1, AloneStays DEF UpToDateMeansLoaded, WhitelistDated, Dated, Clean
  <1> QED BY <1>2, <1>3, <1>4 DEF FeedInv

LEMMA FeedInvStep == FeedTypes /\ FeedInv /\ [FeedNext]_tfvars => FeedInv'
  <1> SUFFICES ASSUME FeedTypes, FeedInv, [FeedNext]_tfvars PROVE FeedInv'
    OBVIOUS
  <1>1. CASE \E u \in Threads : Update(u)
    <2> PICK u \in Threads : Update(u)
      BY <1>1
    <2> QED BY OutsideStep, DropUnusedStep, DropEntriesStep, CheckFeedStep, CheckRiskIQStep, WriteFileStep,
               DeletePreviousStep, StartParsingStep, ParseLinesStep, StoreStep, ParseOtherStep, MarkUpdatedStep
            DEF Update
  <1>2. CASE \E t \in Timers : Fire(t)
    BY <1>2, OutsideStep DEF Threads
  <1>3. CASE FeedTick \/ UNCHANGED tfvars
    <2>1. \A w \in Threads : left[w] \subseteq config
      BY DEF FeedInv, FeedThread, ToUpdate
    <2>2. WhitelistDated'
      BY <1>3 DEF FeedTick, tfvars, db, process, FeedInv, WhitelistDated, Dated, AtWhitelist, FeedTypes, FeedTypeOK, Untagged
    <2> QED BY <1>3, <2>1, <2>2, NoFeedTouched DEF FeedTick, tfvars, db, process, Clean
  <1>4. CASE \E f \in Feeds : Publish(f)
    BY <1>4, PublishStep
  <1>5. CASE \E c \in Configs : StartAgain(c)
    BY <1>5, StartAgainStep
  <1> QED BY <1>1, <1>2, <1>3, <1>4, <1>5 DEF FeedNext

(* Whatever the feeds list, fail at and are configured to, the update       *)
(* manager's records, the cache and the threads keep their shape, and a     *)
(* thread at a feed has one.                                                *)
THEOREM FeedTypeCorrect == FeedSpec => []FeedTypeOK
  <1>1. FeedTypes => FeedTypeOK
    BY DEF FeedTypes
  <1> QED BY <1>1, FeedTypesInit, FeedTypesStep, PTL DEF FeedSpec

(* A feed that update_manager.py takes for up to date has in the cache what  *)
(* its parser keeps of the version it is marked with, wherever an update     *)
(* failed or a run was killed, and whatever the threads of any number of     *)
(* timers do at the same time: unless two of them had the feed, or the       *)
(* dictionaries it is parsed into, in hand at once.                          *)
THEOREM UpToDateIsLoaded == FeedSpec => []UpToDateMeansLoaded
  <1>1. FeedInv => UpToDateMeansLoaded
    BY DEF FeedInv
  <1> QED BY <1>1, FeedTypesInit, FeedTypesStep, FeedInvInit, FeedInvStep, PTL DEF FeedSpec
=============================================================================
