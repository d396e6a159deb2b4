---------------------------- MODULE MCThreatFeeds ----------------------------
(***************************************************************************)
(* Two feeds: one of addresses and a domain, one of hashes, whose first    *)
(* line is lost, and which cannot always be had.  The timers run the same  *)
(* update: they are symmetric.  A restart may find one feed in its         *)
(* configuration: the other one's entries are deleted.                     *)
(***************************************************************************)
EXTENDS ThreatFeeds, TLC
CONSTANTS f, g, t1, t2, t3
IocKind(i) == CASE i \in {"f0", "f1"} -> "ip" [] i \in {"fd", "rd"} -> "domain" [] i \in {"h", "h1"} -> "ja3" [] OTHER -> "range"
FeedFormat(x) == IF x = g THEN "ja3" ELSE "text"
Listing(x, v) ==
    IF x = g THEN <<"h1", "h", "gr">> ELSE IF v = 0 THEN <<"f0", "fd", "gr">> ELSE <<"f1", "fd">>
SameName(x, y) == x = y
OneFeed == {{f}}
AnyTimer == Permutations(Timers)
=============================================================================
