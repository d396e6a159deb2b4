---------------------------- MODULE ThreatFeeds ----------------------------
(***************************************************************************)
(* The update manager and the lists of indicators it keeps in the Redis    *)
(* cache.  pre_main() updates everything once; afterwards InfiniteTimers   *)
(* run the same update in threads of their own.  An update looks at every  *)
(* feed first (has its period passed, has its e-tag changed) and then      *)
(* writes, deletes, parses, stores and marks the changed ones, one by one. *)
(* The cache outlives a run: SmartShield may be killed at any point and is *)
(* started again, perhaps with other feeds in its configuration.           *)
(*                                                                         *)
(* Three timers are started, all with this update: their threads overlap,  *)
(* and share the responses, the dictionaries and the files on disk.        *)
(*                                                                         *)
(* As the files are, FitsBase is FALSE: the process that loads the feeds   *)
(* before the start never calls init(), so that update() has no            *)
(* update_period; in the module init() asks IModule for bloom_filters,     *)
(* which it calls bloom_filters_man; and log() hands its print() a keyword *)
(* that it does not take.                                                  *)
(***************************************************************************)
EXTENDS Absent, Naturals, FiniteSets, Sequences

CONSTANTS
    Feeds,           \* remote feeds: url, ja3 and ssl feeds
    Timers,          \* InfiniteTimers that are started
    Format(_),       \* of a feed: "text", "json_ips", "json_domains", "ja3", "ssl"
    Lines(_, _),     \* Lines(f, v): the lines of version v of a feed, comments left out
    Kind(_),         \* of a line: "ip", "private_ip", "domain", "old_domain", "ja3", "sha1",
                     \* or what no parser keeps
    Indicators,      \* addresses, domains and hashes
    NameIn(_, _),    \* NameIn(f, g): the file name of f occurs in that of g
    Configs,         \* bound: the sets of feeds a restart may be configured with
    RiskSource, RiskDomains, \* the RiskIQ source, the domains it reports
    FitsBase,        \* IModule has what init(), update() and log() ask of it
    Unreliable,      \* what cannot always be downloaded or parsed: feeds, or the lists without e-tag
    MaxFeedVersion, MaxPeriods, MaxRestarts \* bounds

VARIABLES
    server,    \* the version each feed's server has
    config,    \* the feeds of this run's configuration
    period,       \* update periods that passed
    ioc,       \* IoC_ips, IoC_domains, IoC_JA3, IoC_SSL: the sources of each indicator
    info,      \* TI_files_info: e-tag and time of each known feed
    whitelist, \* tranco whitelist stored
    updated,   \* TI_files_info of what has no e-tag: when it was updated, 0 for never
    responses, \* self.responses: the version downloaded
    disk,      \* files of the feeds on disk
    dict,      \* self.malicious_ips_dict and _domains_dict
    stage, left, work, feedAt, ver, \* each updating thread: where it is, feeds to check, to update
    restarts,
    clashed    \* history: feeds, or the whitelist, that two threads updated at once

db == <<ioc, info, whitelist, updated>>
process == <<responses, dict, stage, left, work, feedAt, ver>>
tfvars == <<server, config, period, db, process, disk, restarts, clashed>>

Threads == Timers \cup {"pre_main"}
FeedVersions == 0..MaxFeedVersion
NoTag == MaxFeedVersion + 1     \* feed info without an e-tag
Known == {f \in Feeds : info[f] # None}
Untagged == {"tranco_whitelist", "mac_db", "riskiq_domains"}

\* did_update_period_pass
Stale(t) == t < period
\* download_file: five tries, then the old version stays.
Fails(x) == x \in Unreliable

Fresh ==
    /\ responses = [f \in Feeds |-> 0] /\ dict = [i \in {} |-> {}]
    /\ stage = [u \in Threads |-> IF u = "pre_main" THEN "start" ELSE "off"]
    /\ left = [u \in Threads |-> {}] /\ work = left
    /\ feedAt = [u \in Threads |-> None] /\ ver = [u \in Threads |-> 0]

FeedInit ==
    /\ server = [f \in Feeds |-> 0] /\ config = Feeds /\ period = 1
    /\ ioc = [i \in Indicators |-> {}] /\ info = [f \in Feeds |-> None]
    /\ whitelist = FALSE /\ updated = [n \in Untagged |-> 0]
    /\ disk = [f \in Feeds |-> None] /\ restarts = 0 /\ clashed = {}
    /\ Fresh

Goto(u, p) == stage' = [stage EXCEPT ![u] = p]

-----------------------------------------------------------------------------
(* ioc_handler.py: a feed's entries, what is known of it *)

\* delete_feed_entries: entries whose source contains the file name of the
\* feed, among IPs and domains only.
DeleteEntries(f) ==
    ioc' = [i \in Indicators |-> IF Kind(i) \in {"ip", "private_ip", "domain"} /\ \E g \in ioc[i] \cap Feeds : NameIn(f, g)
                           THEN {} ELSE ioc[i]]

\* Mutant: what is stored is when the next update is due.
MutMark(f, tag) == info' = [info EXCEPT ![f] = [tag |-> tag, time |-> period + 1]]

\* mark_feed_as_updated replaces what was stored about the feed: called
\* without an e-tag, it forgets the one there was.
Mark(f, tag) == info' = [info EXCEPT ![f] = [tag |-> tag, time |-> period]]
MarkUntagged(n) == updated' = [updated EXCEPT ![n] = period]

-----------------------------------------------------------------------------
(* What a parser keeps of a file; None when it gives the file up. *)

\* is_ignored_line, detect_ioc_type, is_ignored_ip: the first field of a line is
\* taken (get_data_column finds a type for whatever there is in it) and kept if
\* it is a domain or an address that is not private.  URLs and ranges are neither.
IsIgnoredLine(l) == Kind(l) \in {"url", "header"}
IsIgnoredIp(l) == Kind(l) = "private_ip"
DataColumn(lines) == {lines[k] : k \in DOMAIN lines}
TextIocs(lines) ==
    {l \in DataColumn(lines) : ~IsIgnoredLine(l) /\ ~IsIgnoredIp(l) /\ Kind(l) \in {"ip", "domain"}}

\* parse_json_ti_feed: every address, and the domains of the last week.
JsonIocs(f, lines) ==
    {l \in DataColumn(lines) :
       Kind(l) \in IF Format(f) = "json_ips" THEN {"ip", "private_ip"} ELSE {"domain"}}

\* parse_ja3_feed and parse_ssl_feed: the line that tells the column of the
\* hashes must have one, and is not read again.
KeptHashes(lines, kind) == {lines[k] : k \in {j \in 2 .. Len(lines) : Kind(lines[j]) = kind}}
Ja3Iocs(lines) == IF Kind(lines[1]) # "ja3" THEN None ELSE KeptHashes(lines, "ja3")
SslIocs(lines) == IF Kind(lines[1]) # "sha1" THEN None ELSE KeptHashes(lines, "sha1")

KeptOf(f, v) ==
    CASE Format(f) = "text" -> TextIocs(Lines(f, v))
      [] Format(f) \in {"json_ips", "json_domains"} -> JsonIocs(f, Lines(f, v))
      [] Format(f) = "ja3" -> Ja3Iocs(Lines(f, v))
      [] Format(f) = "ssl" -> SslIocs(Lines(f, v))

\* Feeds of hashes, whose entries nothing deletes.
OfHashes(f) == Format(f) \in {"ja3", "ssl"}
GivesUp(f, v) == OfHashes(f) /\ KeptOf(f, v) = None
Keeps(f, i) == \E v \in FeedVersions : ~GivesUp(f, v) /\ i \in KeptOf(f, v)

\* Feeds are not missing, nor RiskIQ, and have a format and a file name; whatever
\* a parser keeps is an indicator.
ASSUME FeedAssumption ==
    /\ MaxFeedVersion \in Nat /\ MaxPeriods \in Nat \ {0} /\ MaxRestarts \in Nat /\ Configs \subseteq SUBSET Feeds
    /\ Feeds \cap Untagged = {}
    /\ None \notin Feeds /\ None \notin FeedVersions /\ RiskSource \notin Feeds /\ "pre_main" \notin Timers
    /\ RiskDomains \subseteq Indicators /\ Unreliable \subseteq Feeds \cup Untagged
    /\ \A f \in Feeds :
          /\ Format(f) \in {"text", "json_ips", "json_domains", "ja3", "ssl"} /\ NameIn(f, f)
          /\ \A v \in FeedVersions : GivesUp(f, v) \/ KeptOf(f, v) \subseteq Indicators

-----------------------------------------------------------------------------
(* update(): the MAC database, the whitelist, the feeds no longer used *)

\* init(), and the first lines of update(): whoever raises there is gone.
Start(u) ==
    /\ stage[u] = "start" /\ Goto(u, IF FitsBase THEN "mac" ELSE "dead")
    /\ UNCHANGED <<server, config, period, db, responses, dict, left, work, feedAt, ver, disk, restarts, clashed>>

\* should_update_mac_db: the file, which nothing deletes, has never been
\* downloaded, or its period has passed.
ShouldUpdateMacDb == Stale(updated["mac_db"])
UpdateMacDb(u) ==
    /\ stage[u] = "mac" /\ Goto(u, "lists")
    /\ \/ ShouldUpdateMacDb /\ MarkUntagged("mac_db")
       \/ (ShouldUpdateMacDb => Fails("mac_db")) /\ UNCHANGED updated
    /\ UNCHANGED <<server, config, period, ioc, info, whitelist, responses, dict, left, work, feedAt, ver, disk, restarts, clashed>>

\* should_update_online_whitelist: the time it was updated is read here, and
\* another thread may come between this and the update.
AtWhitelist(u) == stage[u] \in {"drop", "refill"}
CheckWhitelist(u) ==
    /\ stage[u] = "lists"
    /\ LET due == Stale(updated["tranco_whitelist"]) IN
       \/ /\ due /\ Goto(u, "drop")
          /\ clashed' = IF \E w \in Threads \ {u} : AtWhitelist(w)
                        THEN clashed \cup {"tranco_whitelist"} ELSE clashed \ {"tranco_whitelist"}
       \/ (due => Fails("tranco_whitelist")) /\ Goto(u, "unused") /\ UNCHANGED clashed
    /\ UNCHANGED <<server, config, period, db, responses, dict, left, work, feedAt, ver, disk, restarts>>

\* update_online_whitelist: drop, then store and mark.
DropWhitelist(u) ==
    /\ stage[u] = "drop"
    /\ whitelist' = FALSE /\ Goto(u, "refill")
    /\ UNCHANGED <<server, config, period, ioc, info, updated, responses, dict, left, work, feedAt, ver, disk, restarts, clashed>>

Refill(u) ==
    /\ stage[u] = "refill"
    /\ whitelist' = TRUE /\ MarkUntagged("tranco_whitelist") /\ Goto(u, "unused")
    /\ UNCHANGED <<server, config, period, ioc, info, responses, dict, left, work, feedAt, ver, disk, restarts, clashed>>

\* delete_unused_cached_remote_feeds: first the feed, then its entries.
DropUnused(u) ==
    /\ stage[u] = "unused"
    /\ IF Known \subseteq config
       THEN Goto(u, "check") /\ left' = [left EXCEPT ![u] = config] /\ UNCHANGED <<info, feedAt>>
       ELSE \E f \in Known \ config :
              info' = [info EXCEPT ![f] = None] /\ feedAt' = [feedAt EXCEPT ![u] = f]
              /\ Goto(u, "entries") /\ UNCHANGED left
    /\ UNCHANGED <<server, config, period, ioc, whitelist, updated, responses, dict, work, ver, disk, restarts, clashed>>

DropEntries(u) ==
    /\ stage[u] = "entries"
    /\ DeleteEntries(feedAt[u]) /\ feedAt' = [feedAt EXCEPT ![u] = None] /\ Goto(u, "unused")
    /\ UNCHANGED <<server, config, period, info, whitelist, updated, responses, dict, left, work, ver, disk, restarts, clashed>>

-----------------------------------------------------------------------------
(* should_update: is the feed due, can it be downloaded, has it changed *)

FeedDue(f) == info[f] # None => Stale(info[f].time)
Changed(f) == info[f] # None => info[f].tag # server[f]

\* A thread has found the feed changed and is not yet done with it; it fills the
\* dictionaries that all share, or has still to store them.
HasInHand(u, f) == f \in work[u] \/ (feedAt[u] = f /\ stage[u] # "entries")
Parsing(u) == stage[u] \in {"lines", "store"}

CheckFeed(u, f) ==
    /\ stage[u] = "check" /\ f \in left[u]
    /\ left' = [left EXCEPT ![u] = @ \ {f}]
    /\ \/ \* the period has not passed, or nothing can be downloaded
          /\ FeedDue(f) => Fails(f)
          /\ UNCHANGED <<info, responses, work, clashed>>
       \/ \* downloaded, with the e-tag that is stored
          /\ FeedDue(f) /\ ~Changed(f)
          /\ Mark(f, NoTag)
          /\ UNCHANGED <<responses, work, clashed>>
       \/ \* downloaded, with another e-tag
          /\ FeedDue(f) /\ Changed(f)
          /\ responses' = [responses EXCEPT ![f] = server[f]]
          /\ work' = [work EXCEPT ![u] = @ \cup {f}]
          /\ clashed' = IF \E w \in Threads \ {u} : HasInHand(w, f) THEN clashed \cup {f}
                        ELSE IF \E w \in Threads : Parsing(w) THEN clashed ELSE clashed \ {f}
          /\ UNCHANGED info
    /\ UNCHANGED <<server, config, period, ioc, whitelist, updated, dict, stage, feedAt, ver, disk, restarts>>

\* update_riskiq_feed: the domains are added, none is ever deleted.
CheckRiskIQ(u) ==
    /\ stage[u] = "check" /\ left[u] = {}
    /\ LET due == RiskDomains # {} /\ Stale(updated["riskiq_domains"]) IN
       \/ /\ due /\ MarkUntagged("riskiq_domains")
          /\ ioc' = [i \in Indicators |-> IF i \in RiskDomains THEN {RiskSource} ELSE ioc[i]]
       \/ (due => Fails("riskiq_domains")) /\ UNCHANGED <<ioc, updated>>
    /\ Goto(u, "next")
    /\ UNCHANGED <<server, config, period, info, whitelist, responses, dict, left, work, feedAt, ver, disk, restarts, clashed>>

-----------------------------------------------------------------------------
(* update_ti_file, one task after the other *)

EndTask(u) == feedAt' = [feedAt EXCEPT ![u] = None] /\ ver' = [ver EXCEPT ![u] = 0]

WriteFile(u) ==
    /\ stage[u] = "next"
    /\ \E f \in work[u] :
          /\ feedAt' = [feedAt EXCEPT ![u] = f] /\ ver' = [ver EXCEPT ![u] = responses[f]]
          /\ work' = [work EXCEPT ![u] = @ \ {f}]
          /\ disk' = [disk EXCEPT ![f] = responses[f]]
    /\ Goto(u, "delete")
    /\ UNCHANGED <<server, config, period, db, responses, dict, left, restarts, clashed>>

DeletePrevious(u) ==
    /\ stage[u] = "delete"
    /\ DeleteEntries(feedAt[u]) /\ Goto(u, "parse")
    /\ UNCHANGED <<server, config, period, info, whitelist, updated, responses, dict, left, work, feedAt, ver, disk, restarts, clashed>>

\* The file is gone, or has no column of the kind its parser looks for, or is not
\* as it should be.
CannotParse(u) ==
    disk[feedAt[u]] = None \/ GivesUp(feedAt[u], disk[feedAt[u]]) \/ Fails(feedAt[u])

\* Mutant: a feed that cannot be parsed is marked as updated all the same.
MutStartParsing(u) ==
    /\ stage[u] = "parse"
    /\ \/ /\ CannotParse(u)
          /\ Goto(u, "mark") /\ UNCHANGED dict
       \/ /\ disk[feedAt[u]] # None /\ Format(feedAt[u]) = "text"
          /\ dict' = [i \in {} |-> {}] /\ Goto(u, "lines")
    /\ UNCHANGED <<server, config, period, db, responses, left, work, feedAt, ver, disk, restarts, clashed>>

\* parse_ti_feed: a file that is gone or cannot be parsed ends the update of the
\* feed; otherwise new dictionaries are started, also for a thread that is still
\* filling the old ones.
StartParsing(u) ==
    /\ stage[u] = "parse"
    /\ \/ /\ CannotParse(u)
          /\ Goto(u, "next") /\ EndTask(u) /\ UNCHANGED <<dict, clashed>>
       \/ /\ disk[feedAt[u]] # None /\ Format(feedAt[u]) = "text"
          /\ dict' = [i \in {} |-> {}] /\ Goto(u, "lines") /\ UNCHANGED <<feedAt, ver>>
          /\ LET others == {w \in Threads \ {u} : Parsing(w)} IN
             clashed' = IF others = {} THEN clashed ELSE clashed \cup {feedAt[w] : w \in others \cup {u}}
    /\ UNCHANGED <<server, config, period, db, responses, left, work, disk, restarts>>

\* extract_ip_info, extract_domain_info: the feed joins the sources of what the
\* dictionary has.
WithSource(i, f) == (IF i \in DOMAIN dict THEN dict[i] ELSE {}) \cup {f}
ParseLines(u) ==
    /\ stage[u] = "lines"
    /\ LET onDisk == disk[feedAt[u]]
           new == KeptOf(feedAt[u], IF onDisk = None THEN ver[u] ELSE onDisk) IN
       dict' = [i \in DOMAIN dict \cup new |->
                  IF i \in new THEN WithSource(i, feedAt[u]) ELSE dict[i]]
    /\ Goto(u, "store")
    /\ UNCHANGED <<server, config, period, db, responses, left, work, feedAt, ver, disk, restarts, clashed>>

\* add_ips_to_ioc, add_domains_to_ioc, ...: what was stored before is overwritten.
StoreFeed(u) ==
    /\ stage[u] = "store"
    /\ ioc' = [i \in Indicators |-> IF i \in DOMAIN dict THEN dict[i] ELSE ioc[i]]
    /\ Goto(u, "mark")
    /\ UNCHANGED <<server, config, period, info, whitelist, updated, responses, dict, left, work, feedAt, ver, disk, restarts, clashed>>

\* The other formats have a dictionary of their own, stored at once.
ParseOther(u) ==
    /\ stage[u] = "parse" /\ disk[feedAt[u]] # None /\ Format(feedAt[u]) # "text"
    /\ LET new == KeptOf(feedAt[u], disk[feedAt[u]]) IN
       /\ new # None
       /\ ioc' = [i \in Indicators |-> IF i \in new THEN {feedAt[u]} ELSE ioc[i]]
    /\ Goto(u, "mark")
    /\ UNCHANGED <<server, config, period, info, whitelist, updated, responses, dict, left, work, feedAt, ver, disk, restarts, clashed>>

MarkUpdated(u) ==
    /\ stage[u] = "mark"
    /\ Mark(feedAt[u], ver[u])
    /\ disk' = [disk EXCEPT ![feedAt[u]] = None]
    /\ Goto(u, "next") /\ EndTask(u)
    /\ UNCHANGED <<server, config, period, ioc, whitelist, updated, responses, dict, left, work, restarts, clashed>>

\* An update ends; the first one starts the timers.
Finish(u) ==
    /\ stage[u] = "next" /\ work[u] = {}
    /\ stage' = [t \in Threads |-> IF t = u \/ (u = "pre_main" /\ stage[t] = "off") THEN "waiting" ELSE stage[t]]
    /\ UNCHANGED <<server, config, period, db, responses, dict, left, work, feedAt, ver, disk, restarts, clashed>>

\* InfiniteTimer: a timer fires each period, and calls an update() that has not
\* raised before.
Fire(t) ==
    /\ t \in Timers /\ stage[t] = "waiting" /\ Goto(t, "mac")
    /\ UNCHANGED <<server, config, period, db, responses, dict, left, work, feedAt, ver, disk, restarts, clashed>>

-----------------------------------------------------------------------------
FeedTick == period < MaxPeriods /\ period' = period + 1 /\ UNCHANGED <<server, config, db, process, disk, restarts, clashed>>

\* A server lists something else, under another e-tag.
Publish(f) ==
    /\ server[f] < MaxFeedVersion /\ Lines(f, server[f]) # Lines(f, server[f] + 1)
    /\ server' = [server EXCEPT ![f] = @ + 1]
    /\ UNCHANGED <<config, period, db, process, disk, restarts, clashed>>

\* SmartShield ends, at any point, and is started again with these feeds.  Those
\* commented out are looked up by file name, while the cache has them by URL:
\* they are only found unused later.
StartAgain(c) ==
    /\ restarts < MaxRestarts /\ restarts' = restarts + 1
    /\ config' = c
    /\ responses' = [f \in Feeds |-> 0] /\ dict' = [i \in {} |-> {}]
    /\ stage' = [u \in Threads |-> IF u = "pre_main" THEN "start" ELSE "off"]
    /\ left' = [u \in Threads |-> {}] /\ work' = left'
    /\ feedAt' = [u \in Threads |-> None] /\ ver' = [u \in Threads |-> 0]
    /\ UNCHANGED <<server, period, db, disk, clashed>>

Update(u) ==
    \/ Start(u) \/ UpdateMacDb(u) \/ CheckWhitelist(u) \/ DropWhitelist(u) \/ Refill(u) \/ DropUnused(u) \/ DropEntries(u)
    \/ \E f \in Feeds : CheckFeed(u, f)
    \/ CheckRiskIQ(u) \/ WriteFile(u) \/ DeletePrevious(u) \/ StartParsing(u)
    \/ ParseLines(u) \/ StoreFeed(u) \/ ParseOther(u) \/ MarkUpdated(u) \/ Finish(u)

FeedNext ==
    \/ \E u \in Threads : Update(u)
    \/ \E t \in Timers : Fire(t)
    \/ FeedTick
    \/ \E f \in Feeds : Publish(f)
    \/ \E c \in Configs : StartAgain(c)

FeedSpec == FeedInit /\ [][FeedNext]_tfvars
        /\ \A u \in Threads : WF_tfvars(Update(u)) /\ WF_tfvars(u \in Timers /\ Fire(u))

-----------------------------------------------------------------------------
FeedTypeOK ==
    /\ server \in [Feeds -> FeedVersions] /\ config \subseteq Feeds /\ period \in 1..MaxPeriods
    /\ ioc \in [Indicators -> SUBSET (Feeds \cup {RiskSource})]
    /\ info \in [Feeds -> [tag : 0..NoTag, time : 1..MaxPeriods] \cup {None}]
    /\ whitelist \in BOOLEAN /\ updated \in [Untagged -> 0..MaxPeriods]
    /\ responses \in [Feeds -> FeedVersions] /\ disk \in [Feeds -> FeedVersions \cup {None}]
    /\ DOMAIN dict \subseteq Indicators /\ \A i \in DOMAIN dict : dict[i] \subseteq Feeds
    /\ stage \in [Threads -> {"off", "start", "mac", "lists", "drop", "refill", "unused", "entries", "check", "next",
                           "delete", "parse", "lines", "store", "mark", "waiting", "dead"}]
    /\ left \in [Threads -> SUBSET Feeds] /\ work \in [Threads -> SUBSET Feeds]
    /\ feedAt \in [Threads -> Feeds \cup {None}] /\ ver \in [Threads -> FeedVersions]
    /\ restarts \in 0..MaxRestarts /\ clashed \subseteq Feeds \cup {"tranco_whitelist"}

\* Neither another feed nor RiskIQ has an indicator of this one, and no other
\* feed's file name occurs in its own.
Alone(f) ==
    /\ \A g \in Feeds \ {f} : ~NameIn(g, f) /\ \A i \in Indicators : ~(Keeps(f, i) /\ Keeps(g, i))
    /\ \A i \in RiskDomains : ~Keeps(f, i)

\* The cache has what the parser keeps of this version and, but for hashes,
\* nothing else from the feed.
HasVersion(f, v) ==
    LET loaded == {i \in Indicators : f \in ioc[i]} IN
    /\ KeptOf(f, v) \subseteq loaded
    /\ ~OfHashes(f) => loaded = KeptOf(f, v)

\* A feed that counts as up to date, and shares no indicator, is in the cache, and the
\* whitelist that counts as fresh is stored: an update that failed or that a kill
\* cut short at any of its steps is done again, not taken for done; and what the
\* timers' threads do to other feeds meanwhile costs it nothing.  It is promised of
\* all but what two threads had in hand at once, until one finds it changed again
\* with nobody else at it.
UpToDateMeansLoaded ==
    /\ \A f \in Feeds \ clashed :
          info[f] # None /\ info[f].tag = server[f] /\ Alone(f) => HasVersion(f, server[f])
    /\ "tranco_whitelist" \notin clashed => (updated["tranco_whitelist"] = period => whitelist)

\* The feeds are in the database some time after the start (update_ti_files).
FeedsGetLoaded == <>(\A f \in config : info[f] # None)
=============================================================================
