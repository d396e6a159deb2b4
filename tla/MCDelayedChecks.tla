--------------------------- MODULE MCDelayedChecks ---------------------------
(* One address, whose flows are large, and the checks two by two. *)
EXTENDS DelayedChecks
IsLarge(ip) == ip = "a"
Never(ip) == FALSE
NoIPs(ip) == {}
CheckGroups == {{"ssl"}, {"http"}, {"pastebin", "weird"}, {"ssh", "dns"}}
=============================================================================
