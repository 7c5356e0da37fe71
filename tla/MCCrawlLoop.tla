---------------------------- MODULE MCCrawlLoop ----------------------------
(***************************************************************************)
(* The site the crawl loop is checked on.  The seed s links to a and d; a  *)
(* links to b and back to s; d redirects to c, another spelling of b.  So  *)
(* the chain of d and the links of a race for one key, on a host that the  *)
(* other one is waiting for.  c is only ever reached by a redirect.        *)
(***************************************************************************)
EXTENDS CrawlLoop

CONSTANTS s, a, b, c, d

SiteUrls == {s, a, b, c, d}
SiteKeys == {"s", "a", "b", "d"}
SiteHosts == {"near", "far"}
SiteKeyOf == [u \in SiteUrls |-> CASE u = s -> "s" [] u = a -> "a" [] u = d -> "d" [] OTHER -> "b"]
SiteHostOf == [u \in SiteUrls |-> IF u \in {s, a} THEN "near" ELSE "far"]
SiteLinks == [u \in SiteUrls |-> CASE u = s -> {a, d} [] u = a -> {b, s} [] OTHER -> {}]
(* Three links from the seed, so that more can be asked for than may run. *)
FanLinks == [u \in SiteUrls |-> IF u = s THEN {a, b, d} ELSE IF u = a THEN {s} ELSE {}]
SiteRedirects == [u \in SiteUrls |-> CASE u = d -> {c} [] u = b -> {c} [] OTHER -> {}]
=============================================================================
