----------------------------- MODULE CrawlLoop -----------------------------
(***************************************************************************)
(* One crawl (engine/crawl_loop.rs, page_result.rs, link_discovery.rs,     *)
(* chain_claim.rs): a loop that keeps a window of frontier entries, spawns *)
(* at most MaxConcurrent tasks, parks hops that wait for their host's turn *)
(* and folds results back in, discovering new URLs; and the tasks it       *)
(* spawned, which claim redirect targets on the same frontier meanwhile.   *)
(*                                                                         *)
(* An entry is its URL.  The frontier is a set: which entries a pop takes  *)
(* is the backend's choice.  The rate limiter, the network, the strategy,  *)
(* the budget and the filters are choices of the environment.  The crawl   *)
(* runs on its own, without the shared schedule of a batch.                *)
(***************************************************************************)
EXTENDS Naturals, FiniteSets

CONSTANTS Urls, Keys, Hosts,
          KeyOf,          \* [Urls -> Keys], normalize_url_for_dedup
          HostOf,         \* [Urls -> Hosts]
          Links,          \* [Urls -> SUBSET Urls], the links of the page at a URL
          Redirects,      \* [Urls -> SUBSET Urls], where a URL may redirect
          Seed,           \* the resolved seed
          MaxConcurrent, MaxPages,
          Streaming,      \* the pages go to a channel whose receiver may be dropped
          HostAware,      \* the frontier can pop around blocked hosts
          ShortPops,      \* a pop may return fewer entries than it could
          CallsMayFail,   \* the frontier and the content filter may return errors
          MayPanic,       \* a fetch task may panic
          HungUrls,       \* entries whose fetch may never come to an end
          NoUrl           \* absence of a URL

ASSUME UrlAssumption ==
    /\ Seed \in Urls /\ HungUrls \subseteq Urls /\ NoUrl \notin Urls /\ IsFiniteSet(Urls)
ASSUME GraphAssumption ==
    /\ KeyOf \in [Urls -> Keys] /\ HostOf \in [Urls -> Hosts]
    /\ Links \in [Urls -> SUBSET Urls] /\ Redirects \in [Urls -> SUBSET Urls]
ASSUME LimitAssumption == MaxConcurrent \in Nat \ {0} /\ MaxPages \in Nat \ {0}
ASSUME SwitchAssumption ==
    /\ Streaming \in BOOLEAN /\ HostAware \in BOOLEAN /\ ShortPops \in BOOLEAN
    /\ CallsMayFail \in BOOLEAN /\ MayPanic \in BOOLEAN

VARIABLES
    \* the frontier
    frontier,   \* entries queued
    seen,       \* keys claimed or marked
    discovered, \* URLs pushed so far, the seed included
    \* the loop
    pc,         \* where the loop is
    window,     \* entries popped and not selected
    inFlight,   \* entries selected whose fetch has not reported back
    mayHave,    \* frontier_may_have_entries
    hostAware,  \* host_selection_supported
    drainConfirmed,
    cancelled,
    preloaded,  \* the seed's response is still unused
    ending,     \* why the loop, or its last spawn pass, stopped
    page,       \* the page being folded in
    links,      \* its links still to be claimed
    candidates, \* its links claimed and not yet pushed
    \* the hops
    hop,        \* [Urls -> hop phase of the entry]
    cursor,     \* [Urls -> the URL its redirect chain is at]
    visited,    \* [Urls -> the URLs its redirect chain has been at]
    chain,      \* [Urls -> the keys its chain holds]
    \* what became of the entries
    fate,
    gone        \* the stream's receiver was dropped

front == <<frontier, seen, discovered>>
flags == <<mayHave, hostAware, drainConfirmed>>
pending == <<page, links, candidates>>
hops == <<hop, cursor, visited, chain>>
vars == <<front, pc, window, inFlight, flags, cancelled, preloaded, ending, pending, hops, fate, gone>>

Running == {"prepare", "fetch", "landed", "extract"}
Finished == {"ready", "refused", "continue", "waiting", "fetched", "failed", "panicked"}
Phases == {"none", "turn", "backlog"} \cup Running \cup Finished
Fates == {"none", "page", "filtered", "failed", "crashed", "undelivered", "abandoned", "lost"}
Endings == {"none", "full", "legacy", "empty", "ceiling", "strategy", "blocked", "budget",
            "receiver", "error"}

-----------------------------------------------------------------------------
InPhase(S) == {u \in Urls : hop[u] \in S}
JoinSet == InPhase(Running \cup Finished)
HostTurns == InPhase({"turn"})
PrepareBacklog == InPhase({"backlog"})
BlockedHosts == {HostOf[cursor[u]] : u \in HostTurns}
Fated(f) == {u \in Urls : fate[u] = f}
PagesProcessed == Cardinality(Fated("page"))
Smaller(a, b) == IF a < b THEN a ELSE b
HasRoom == Cardinality(JoinSet) < MaxConcurrent

SetHop(u, phase) == hop' = [hop EXCEPT ![u] = phase]
SetFate(u, f) == fate' = [fate EXCEPT ![u] = f]

(* seed_frontier, and the loop's fresh state *)
Init ==
    /\ frontier = {Seed} /\ seen = {KeyOf[Seed]} /\ discovered = {Seed}
    /\ pc = "head" /\ window = {} /\ inFlight = {}
    /\ mayHave = TRUE /\ hostAware = TRUE /\ drainConfirmed = FALSE
    /\ cancelled = FALSE /\ preloaded = TRUE /\ ending = "none"
    /\ page = NoUrl /\ links = {} /\ candidates = {}
    /\ hop = [u \in Urls |-> "none"]
    /\ cursor = [u \in Urls |-> u]
    /\ visited = [u \in Urls |-> {u}]
    /\ chain = [u \in Urls |-> {}]
    /\ fate = [u \in Urls |-> "none"]
    /\ gone = FALSE

-----------------------------------------------------------------------------
(* The receiver of the stream is dropped, at any time. *)
DropReceiver ==
    /\ Streaming /\ ~gone
    /\ gone' = TRUE
    /\ UNCHANGED <<front, pc, window, inFlight, flags, cancelled, preloaded, ending, pending, hops, fate>>

(* while !cancelled && !receiver_gone *)
LoopHead ==
    /\ pc = "head"
    /\ \/ ~cancelled /\ ~gone /\ pc' = "spawn" /\ ending' = "none"
       \/ cancelled /\ pc' = "exit" /\ UNCHANGED ending
       \/ ~cancelled /\ gone /\ pc' = "exit" /\ ending' = "receiver"
    /\ UNCHANGED <<front, window, inFlight, flags, cancelled, preloaded, pending, hops, fate, gone>>

(* Any `?` in the loop: leave it with the error. *)
Raise == pc' = "exit" /\ ending' = "error"

-----------------------------------------------------------------------------
(* spawn_pending_fetches *)

EndPass(why) == pc' = "select" /\ ending' = why

SpawnFull ==
    /\ pc = "spawn" /\ ~HasRoom
    /\ EndPass("full")
    /\ UNCHANGED <<front, window, inFlight, flags, cancelled, preloaded, pending, hops, fate, gone>>

(* A chain that went on to another URL is prepared before anything new. *)
SpawnBacklog == \E u \in PrepareBacklog :
    /\ pc = "spawn" /\ HasRoom
    /\ SetHop(u, "prepare")
    /\ UNCHANGED <<front, pc, window, inFlight, flags, cancelled, preloaded, ending, pending,
                   cursor, visited, chain, fate, gone>>

(* start_granted_hop: the limiter let the hop through, or refused it with  *)
(* an error, which a task of its own reports.                              *)
Grant(u) == u \in HostTurns /\ (SetHop(u, "fetch") \/ SetHop(u, "failed"))

SpawnGranted == \E u \in Urls :
    /\ pc = "spawn" /\ HasRoom /\ PrepareBacklog = {}
    /\ Grant(u)
    /\ UNCHANGED <<front, pc, window, inFlight, flags, cancelled, preloaded, ending, pending,
                   cursor, visited, chain, fate, gone>>

(* A frontier that cannot pop around hosts bounds the admitted states. *)
SpawnLegacyBound ==
    /\ pc = "spawn" /\ HasRoom /\ PrepareBacklog = {}
    /\ ~hostAware /\ Cardinality(inFlight) >= MaxConcurrent
    /\ EndPass("legacy")
    /\ UNCHANGED <<front, window, inFlight, flags, cancelled, preloaded, pending, hops, fate, gone>>

(* Wrong: the legacy bound does not hold admission back. *)
MayAdmitUnbounded == pc = "spawn" /\ HasRoom /\ PrepareBacklog = {}

MayAdmit ==
    /\ pc = "spawn" /\ HasRoom /\ PrepareBacklog = {}
    /\ hostAware \/ Cardinality(inFlight) < MaxConcurrent

Eligible ==
    IF HostAware THEN {u \in frontier : HostOf[u] \notin BlockedHosts} ELSE frontier

(* refill_window: a short batch clears the latch. *)
Refill ==
    /\ MayAdmit /\ mayHave /\ Cardinality(window) < MaxConcurrent
    /\ \E popped \in SUBSET Eligible :
        LET wanted == MaxConcurrent - Cardinality(window) IN
        /\ Cardinality(popped) <= wanted
        /\ ShortPops \/ Cardinality(popped) = Smaller(wanted, Cardinality(Eligible))
        /\ frontier' = frontier \ popped
        /\ window' = window \cup popped
        /\ mayHave' = (Cardinality(popped) = wanted)
    /\ hostAware' = HostAware
    /\ pc' = "admit"
    /\ UNCHANGED <<seen, discovered, inFlight, drainConfirmed, cancelled, preloaded, ending, pending,
                   hops, fate, gone>>

RefillNotNeeded ==
    /\ MayAdmit /\ ~(mayHave /\ Cardinality(window) < MaxConcurrent)
    /\ pc' = "admit"
    /\ UNCHANGED <<front, window, inFlight, flags, cancelled, preloaded, ending, pending, hops, fate, gone>>

RefillFails ==
    /\ CallsMayFail /\ MayAdmit /\ mayHave /\ Cardinality(window) < MaxConcurrent
    /\ Raise
    /\ UNCHANGED <<front, window, inFlight, flags, cancelled, preloaded, pending, hops, fate, gone>>

(* Wrong: the fetches under way are not counted. *)
AtCeilingDelivered == PagesProcessed >= MaxPages

(* pages_processed + in_flight.len() >= max_pages *)
AtCeiling == PagesProcessed + Cardinality(inFlight) >= MaxPages

(* take_selected looks at the whole window; take_unblocked, for a frontier *)
(* that is not host-aware, only at entries whose host has no turn pending. *)
Selectable ==
    IF hostAware THEN window ELSE {u \in window : HostOf[u] \notin BlockedHosts}

(* The pass ends without a new fetch; an exhausted budget leaves the entry *)
(* it had selected where it was.                                           *)
AdmitNothing ==
    /\ pc = "admit"
    /\ \/ window = {} /\ EndPass("empty")
       \/ window # {} /\ AtCeiling /\ EndPass("ceiling")
       \/ window # {} /\ ~AtCeiling /\ EndPass("strategy")
       \/ window # {} /\ ~AtCeiling /\ Selectable = {} /\ EndPass("blocked")
       \/ Selectable # {} /\ ~AtCeiling /\ EndPass("budget")
    /\ UNCHANGED <<front, window, inFlight, flags, cancelled, preloaded, pending, hops, fate, gone>>

(* should_fetch_url refuses the entry: dropped, not deferred. *)
AdmitRejects == \E u \in Selectable :
    /\ pc = "admit" /\ ~AtCeiling
    /\ window' = window \ {u}
    /\ SetFate(u, "filtered")
    /\ pc' = "spawn"
    /\ UNCHANGED <<front, inFlight, flags, cancelled, preloaded, ending, pending, hops, gone>>

(* The seed's response is already there and is only extracted; any other   *)
(* entry starts its chain by being prepared.                               *)
Admit == \E u \in Selectable :
    /\ pc = "admit" /\ ~AtCeiling
    /\ window' = window \ {u}
    /\ inFlight' = inFlight \cup {u}
    /\ IF preloaded /\ u = Seed THEN SetHop(u, "extract") ELSE SetHop(u, "prepare")
    /\ preloaded' = (preloaded /\ u # Seed)
    /\ chain' = [chain EXCEPT ![u] = {KeyOf[u]}]
    /\ pc' = "spawn"
    /\ UNCHANGED <<front, flags, cancelled, ending, pending, cursor, visited, fate, gone>>

-----------------------------------------------------------------------------
(* The tasks *)

(* Wrong: the chain takes the key without asking whether it was new. *)
ClaimsHopUnasked(u, v, admitted) ==
    /\ admitted = TRUE
    /\ seen' = seen \cup {KeyOf[v]}
    /\ chain' = [chain EXCEPT ![u] = @ \cup {KeyOf[v]}]

(* ChainClaim::admits for a redirect hop to v: a key the chain holds is    *)
(* its own, any other must be claimed on the frontier.                     *)
ClaimsHop(u, v, admitted) ==
    IF KeyOf[v] \in chain[u]
    THEN admitted = TRUE /\ UNCHANGED <<seen, chain>>
    ELSE /\ admitted = (KeyOf[v] \notin seen)
         /\ seen' = seen \cup {KeyOf[v]}
         /\ chain' = IF admitted THEN [chain EXCEPT ![u] = @ \cup {KeyOf[v]}] ELSE chain

(* RedirectPolicy::admits for a hop to v, once robots.txt and the filters  *)
(* let it pass: the claim, then the crawl delay it publishes.  A claim     *)
(* that fails may have marked the key.                                     *)
AdmitsHop(u, v, granted) ==
    \/ ClaimsHop(u, v, TRUE) /\ (SetHop(u, granted) \/ SetHop(u, "failed"))
    \/ ClaimsHop(u, v, FALSE) /\ SetHop(u, "refused")
    \/ /\ CallsMayFail /\ KeyOf[v] \notin chain[u]
       /\ seen' = seen \cup {KeyOf[v]} /\ UNCHANGED chain
       /\ SetHop(u, "failed")

TaskStep ==
    UNCHANGED <<frontier, discovered, pc, window, inFlight, flags, cancelled, preloaded, ending,
                pending, fate, gone>>

(* RedirectCursor::prepare: the policy refuses the URL, or the engine fails *)
(* to ask it, or the URL passes, claimed first if the chain came to it by   *)
(* a redirect.                                                              *)
Prepare(u) ==
    /\ hop[u] = "prepare"
    /\ \/ SetHop(u, "refused") /\ UNCHANGED <<seen, chain>>
       \/ SetHop(u, "failed") /\ UNCHANGED <<seen, chain>>
       \/ cursor[u] = u /\ SetHop(u, "ready") /\ UNCHANGED <<seen, chain>>
       \/ cursor[u] # u /\ AdmitsHop(u, cursor[u], "ready")
    /\ UNCHANGED <<cursor, visited>>
    /\ TaskStep

(* RedirectChain::advance_to, for a URL the chain has not been at *)
Advance(u, v) ==
    /\ v \in Redirects[cursor[u]] \ visited[u]
    /\ cursor' = [cursor EXCEPT ![u] = v]
    /\ visited' = [visited EXCEPT ![u] = @ \cup {v}]

(* RedirectCursor::step with an answer: it is the page, or an error, or a  *)
(* redirect the chain goes on to.                                          *)
Answered(u) ==
    \/ SetHop(u, "fetched") /\ UNCHANGED <<seen, chain, cursor, visited>>
    \/ SetHop(u, "failed") /\ UNCHANGED <<seen, chain, cursor, visited>>
    \/ \E v \in Urls : Advance(u, v) /\ SetHop(u, "continue") /\ UNCHANGED <<seen, chain>>

(* perform_hop: the request is answered, or needs another turn of some     *)
(* host, or a browser followed a redirect itself: the policy refuses the   *)
(* address it landed on, or that is claimed after the fact.                *)
Fetch(u) ==
    /\ hop[u] = "fetch"
    /\ \/ Answered(u)
       \/ SetHop(u, "waiting") /\ UNCHANGED <<seen, chain, cursor, visited>>
       \/ \E v \in Urls : Advance(u, v) /\ SetHop(u, "refused") /\ UNCHANGED <<seen, chain>>
       \/ \E v \in Urls : Advance(u, v) /\ AdmitsHop(u, v, "landed")
    /\ TaskStep

Landed(u) == hop[u] = "landed" /\ Answered(u) /\ TaskStep

Extract(u) ==
    /\ hop[u] = "extract"
    /\ SetHop(u, "fetched") \/ SetHop(u, "failed")
    /\ UNCHANGED <<seen, chain, cursor, visited>>
    /\ TaskStep

Panic(u) ==
    /\ MayPanic /\ hop[u] \in Running
    /\ SetHop(u, "panicked")
    /\ UNCHANGED <<seen, chain, cursor, visited>>
    /\ TaskStep

Task(u) == Prepare(u) \/ Fetch(u) \/ Landed(u) \/ Extract(u)

-----------------------------------------------------------------------------
(* drive_crawl_loop: with nothing running, the crawl is over unless the    *)
(* frontier, asked once since the last fetch, says it still holds work.    *)
Idle == JoinSet = {} /\ HostTurns = {} /\ PrepareBacklog = {}

(* Wrong: the frontier is asked every time, whatever its last answer. *)
AskFrontierForever ==
    /\ pc = "select" /\ Idle /\ window = {} /\ ~drainConfirmed /\ frontier # {}
    /\ mayHave' = TRUE
    /\ pc' = "head"
    /\ UNCHANGED <<front, window, inFlight, hostAware, drainConfirmed, cancelled, preloaded, ending,
                   pending, hops, fate, gone>>

AskFrontierAgain ==
    /\ pc = "select" /\ Idle /\ window = {} /\ ~drainConfirmed /\ frontier # {}
    /\ drainConfirmed' = TRUE /\ mayHave' = TRUE
    /\ pc' = "head"
    /\ UNCHANGED <<front, window, inFlight, hostAware, cancelled, preloaded, ending, pending, hops,
                   fate, gone>>

AskFrontierFails ==
    /\ CallsMayFail /\ pc = "select" /\ Idle /\ window = {} /\ ~drainConfirmed
    /\ Raise
    /\ UNCHANGED <<front, window, inFlight, flags, cancelled, preloaded, pending, hops, fate, gone>>

Drained ==
    /\ pc = "select" /\ Idle
    /\ window # {} \/ drainConfirmed \/ frontier = {}
    /\ pc' = "exit"
    /\ UNCHANGED <<front, window, inFlight, flags, cancelled, preloaded, ending, pending, hops, fate, gone>>

(* Wrong: the receiver is only looked at between fetches. *)
SelectReceiverClosedIdle ==
    /\ pc = "select" /\ Idle /\ gone
    /\ pc' = "exit" /\ ending' = "receiver"
    /\ UNCHANGED <<front, window, inFlight, flags, cancelled, preloaded, pending, hops, fate, gone>>

(* receiver_closed is polled first. *)
SelectReceiverClosed ==
    /\ pc = "select" /\ ~Idle /\ gone
    /\ pc' = "exit" /\ ending' = "receiver"
    /\ UNCHANGED <<front, window, inFlight, flags, cancelled, preloaded, pending, hops, fate, gone>>

SelectTurn == \E u \in Urls :
    /\ pc = "select" /\ ~gone /\ HasRoom
    /\ Grant(u)
    /\ pc' = "tail"
    /\ UNCHANGED <<front, window, inFlight, flags, cancelled, preloaded, ending, pending, cursor,
                   visited, chain, fate, gone>>

(* absorb_hop_result, for a hop that goes on: to its host's turn queue, or *)
(* to the backlog with its next URL.                                       *)
AbsorbHop == \E u \in Urls :
    /\ pc = "select" /\ ~gone
    /\ \/ hop[u] \in {"ready", "waiting"} /\ SetHop(u, "turn")
       \/ hop[u] = "continue" /\ SetHop(u, "backlog")
    /\ pc' = "tail"
    /\ UNCHANGED <<front, window, inFlight, flags, cancelled, preloaded, ending, pending, cursor,
                   visited, chain, fate, gone>>

(* Wrong: a failed entry is reported and not retired. *)
AbsorbEndUnretired == \E u \in Urls :
    /\ pc = "select" /\ ~gone
    /\ SetHop(u, "none")
    /\ \/ hop[u] = "refused" /\ SetFate(u, "filtered") /\ inFlight' = inFlight \ {u}
       \/ hop[u] = "failed" /\ SetFate(u, "failed") /\ UNCHANGED inFlight
    /\ pc' = "tail"
    /\ UNCHANGED <<front, window, flags, cancelled, preloaded, ending, pending, cursor, visited, chain, gone>>

(* absorb_fetch_result: refused and failed entries leave in_flight; a      *)
(* panicked task is counted, but names no entry to retire.                 *)
AbsorbEnd == \E u \in Urls :
    /\ pc = "select" /\ ~gone
    /\ SetHop(u, "none")
    /\ \/ hop[u] = "refused" /\ SetFate(u, "filtered") /\ inFlight' = inFlight \ {u}
       \/ hop[u] = "failed" /\ SetFate(u, "failed") /\ inFlight' = inFlight \ {u}
       \/ hop[u] = "panicked" /\ SetFate(u, "crashed") /\ UNCHANGED inFlight
    /\ pc' = "tail"
    /\ UNCHANGED <<front, window, flags, cancelled, preloaded, ending, pending, cursor, visited, chain, gone>>

(* process_fetch_result: a 5xx or a page that cannot be converted fails;   *)
(* otherwise its links are discovered first: those in scope, up to the cap *)
(* per page, and none if the page's depth, kind or nofollow says so.       *)
AbsorbFailedPage == \E u \in InPhase({"fetched"}) :
    /\ pc = "select" /\ ~gone
    /\ SetHop(u, "none") /\ SetFate(u, "failed") /\ inFlight' = inFlight \ {u}
    /\ pc' = "tail"
    /\ UNCHANGED <<front, window, flags, cancelled, preloaded, ending, pending, cursor, visited, chain, gone>>

AbsorbPage == \E u \in InPhase({"fetched"}) :
    /\ pc = "select" /\ ~gone
    /\ SetHop(u, "none") /\ inFlight' = inFlight \ {u}
    /\ page' = u /\ links' \in SUBSET Links[cursor[u]] /\ candidates' = {}
    /\ pc' = "claim"
    /\ UNCHANGED <<front, window, flags, cancelled, preloaded, ending, cursor, visited, chain, fate, gone>>

(* collect_link_candidates, one link at a time: the claim comes before the *)
(* link is validated.                                                      *)
ClaimLink == \E l \in links :
    /\ pc = "claim"
    /\ links' = links \ {l}
    /\ candidates' = IF KeyOf[l] \in seen THEN candidates ELSE candidates \cup {l}
    /\ seen' = seen \cup {KeyOf[l]}
    /\ UNCHANGED <<frontier, discovered, pc, window, inFlight, flags, cancelled, preloaded, ending,
                   page, hops, fate, gone>>

(* Wrong: the candidates are carried over to the next page. *)
EnqueueLinksCarried ==
    /\ pc = "claim" /\ links = {}
    /\ \E valid \in SUBSET candidates :
        frontier' = frontier \cup valid /\ discovered' = discovered \cup valid
    /\ pc' = "deliver"
    /\ UNCHANGED <<seen, window, inFlight, flags, cancelled, preloaded, ending, pending, hops, fate, gone>>

(* validate_link_candidates refuses some; enqueue_validated_links pushes   *)
(* the others.                                                             *)
EnqueueLinks ==
    /\ pc = "claim" /\ links = {}
    /\ \E valid \in SUBSET candidates :
        frontier' = frontier \cup valid /\ discovered' = discovered \cup valid
    /\ candidates' = {}
    /\ pc' = "deliver"
    /\ UNCHANGED <<seen, window, inFlight, flags, cancelled, preloaded, ending, page, links, hops,
                   fate, gone>>

(* A claim fails, and may have marked its key, or a push fails, after some *)
(* others: the page and the claimed links not pushed go with it.           *)
DiscoveryFails ==
    /\ CallsMayFail /\ pc = "claim"
    /\ \E pushed \in SUBSET candidates :
        /\ links = {} \/ pushed = {}
        /\ frontier' = frontier \cup pushed /\ discovered' = discovered \cup pushed
    /\ \/ seen' = seen
       \/ \E l \in links : seen' = seen \cup {KeyOf[l]}
    /\ SetFate(page, "abandoned") /\ page' = NoUrl /\ links' = {} /\ candidates' = {}
    /\ Raise
    /\ UNCHANGED <<window, inFlight, flags, cancelled, preloaded, hops, gone>>

(* content_filter drops the page or fails, or deliver_page records it:     *)
(* cancelled when it was the last one allowed, or when the receiver is     *)
(* gone and the page goes uncounted.                                       *)
FilterPage ==
    /\ pc = "deliver"
    /\ SetFate(page, "filtered") /\ page' = NoUrl
    /\ pc' = "tail"
    /\ UNCHANGED <<front, window, inFlight, flags, cancelled, preloaded, ending, links, candidates,
                   hops, gone>>

FilterFails ==
    /\ CallsMayFail /\ pc = "deliver"
    /\ SetFate(page, "abandoned") /\ page' = NoUrl
    /\ Raise
    /\ UNCHANGED <<front, window, inFlight, flags, cancelled, preloaded, links, candidates, hops, gone>>

DeliverPage ==
    /\ pc = "deliver"
    /\ \/ gone /\ SetFate(page, "undelivered") /\ cancelled' = TRUE /\ ending' = "receiver"
       \/ /\ ~gone /\ SetFate(page, "page")
          /\ IF PagesProcessed + 1 >= MaxPages
             THEN cancelled' = TRUE /\ ending' = "ceiling"
             ELSE UNCHANGED <<cancelled, ending>>
    /\ page' = NoUrl
    /\ pc' = "tail"
    /\ UNCHANGED <<front, window, inFlight, flags, preloaded, links, candidates, hops, gone>>

(* Wrong: a fetch that completes does not re-arm the latches. *)
LoopTailUnarmed ==
    /\ pc = "tail"
    /\ \/ pc' = "head" /\ UNCHANGED ending
       \/ pc' = "exit" /\ ending' = "strategy"
    /\ UNCHANGED <<front, window, inFlight, flags, cancelled, preloaded, pending, hops, fate, gone>>

(* The end of one turn of the loop: re-arm the latches, ask the strategy.  *)
LoopTail ==
    /\ pc = "tail"
    /\ mayHave' = TRUE /\ drainConfirmed' = FALSE
    /\ \/ pc' = "head" /\ UNCHANGED ending
       \/ pc' = "exit" /\ ending' = "strategy"
    /\ UNCHANGED <<front, window, inFlight, hostAware, cancelled, preloaded, pending, hops, fate, gone>>

-----------------------------------------------------------------------------
(* Wrong: what was in flight is dropped with the tasks. *)
AbortHopsDropped ==
    /\ pc = "exit"
    /\ hop' = [u \in Urls |-> "none"]
    /\ inFlight' = {}
    /\ pc' = "spill"
    /\ UNCHANGED <<front, window, flags, cancelled, preloaded, ending, pending, cursor, visited, chain,
                   fate, gone>>

(* run_crawl_loop after drive_crawl_loop: the drive is dropped, and with   *)
(* it every running and parked hop; what was in flight joins the window.   *)
AbortHops ==
    /\ pc = "exit"
    /\ hop' = [u \in Urls |-> "none"]
    /\ window' = window \cup inFlight /\ inFlight' = {}
    /\ pc' = "spill"
    /\ UNCHANGED <<front, flags, cancelled, preloaded, ending, pending, cursor, visited, chain, fate, gone>>

(* spill_window, one push at a time *)
Spill == \E u \in window :
    /\ pc = "spill"
    /\ window' = window \ {u}
    /\ frontier' = frontier \cup {u}
    /\ UNCHANGED <<seen, discovered, pc, inFlight, flags, cancelled, preloaded, ending, pending, hops,
                   fate, gone>>

(* The first push that fails ends it, and the rest of the window is gone.  *)
SpillFails ==
    /\ CallsMayFail /\ pc = "spill" /\ window # {}
    /\ fate' = [u \in Urls |-> IF u \in window /\ fate[u] = "none" THEN "lost" ELSE fate[u]]
    /\ window' = {} /\ pc' = "done" /\ ending' = "error"
    /\ UNCHANGED <<front, inFlight, flags, cancelled, preloaded, pending, hops, gone>>

(* finish_crawl, or the error returned *)
Finish ==
    /\ pc = "spill" /\ window = {}
    /\ pc' = "done"
    /\ UNCHANGED <<front, window, inFlight, flags, cancelled, preloaded, ending, pending, hops, fate, gone>>

Loop == \/ LoopHead \/ SpawnFull \/ SpawnBacklog \/ SpawnGranted \/ SpawnLegacyBound
        \/ Refill \/ RefillNotNeeded \/ RefillFails \/ AdmitNothing \/ AdmitRejects \/ Admit
        \/ AskFrontierAgain \/ AskFrontierFails \/ Drained \/ SelectReceiverClosed \/ SelectTurn
        \/ AbsorbHop \/ AbsorbEnd \/ AbsorbFailedPage \/ AbsorbPage \/ ClaimLink \/ EnqueueLinks
        \/ DiscoveryFails \/ FilterPage \/ FilterFails \/ DeliverPage \/ LoopTail \/ AbortHops \/ Spill \/ SpillFails \/ Finish

Next == Loop \/ DropReceiver \/ \E u \in Urls : Task(u) \/ Panic(u)
Spec == Init /\ [][Next]_vars

-----------------------------------------------------------------------------
(* Fairness: the runtime polls the loop, and every task.  A request is     *)
(* answered or fails in the end, save for the hung ones (it may ask for    *)
(* further turns, but its retries are bounded); a limiter asked by the     *)
(* loop lets somebody through.                                             *)
Settles(u) == Task(u) /\ hop'[u] # "waiting"
FairLoop == WF_vars(Loop)
FairTasks == \A u \in Urls \ HungUrls : WF_vars(Task(u)) /\ SF_vars(Settles(u))

FairSpec == Spec /\ FairLoop /\ FairTasks

-----------------------------------------------------------------------------
(* Properties *)

TypeOK ==
    /\ frontier \in SUBSET Urls /\ seen \in SUBSET Keys /\ discovered \in SUBSET Urls
    /\ pc \in {"head", "spawn", "admit", "select", "claim", "deliver", "tail", "exit", "spill", "done"}
    /\ window \in SUBSET Urls /\ inFlight \in SUBSET Urls
    /\ mayHave \in BOOLEAN /\ hostAware \in BOOLEAN /\ drainConfirmed \in BOOLEAN
    /\ cancelled \in BOOLEAN /\ preloaded \in BOOLEAN /\ gone \in BOOLEAN
    /\ ending \in Endings
    /\ page \in Urls \cup {NoUrl} /\ links \in SUBSET Urls /\ candidates \in SUBSET Urls
    /\ hop \in [Urls -> Phases] /\ cursor \in [Urls -> Urls]
    /\ visited \in [Urls -> SUBSET Urls] /\ chain \in [Urls -> SUBSET Keys]
    /\ fate \in [Urls -> Fates]
    /\ page # NoUrl <=> pc \in {"claim", "deliver"}
    /\ links \cup candidates # {} => pc = "claim"

Looping == pc \notin {"exit", "spill", "done"}

(* "A page reachable both directly and via a redirect must be reported     *)
(* once" (chain_claim.rs): no two delivered pages came from addresses with *)
(* one key, however tasks and the loop interleave their claims.            *)
PageReportedOnce ==
    \A u, v \in Fated("page") : KeyOf[cursor[u]] = KeyOf[cursor[v]] => u = v

(* max_pages is never overshot by the fetches still under way: pages       *)
(* delivered, the one being folded in and those in flight fit together.    *)
WithinMaxPages ==
    PagesProcessed + Cardinality(inFlight) + Cardinality({page} \ {NoUrl}) <= MaxPages

(* At most MaxConcurrent tasks, redirect hops and resumed turns included;  *)
(* and a frontier that cannot pop around blocked hosts never has more      *)
(* entries admitted than that, parked ones included.                       *)
WithinMaxConcurrent ==
    /\ Cardinality(JoinSet) <= MaxConcurrent
    /\ Looping => Cardinality(window) <= MaxConcurrent
    /\ ~HostAware => Cardinality(inFlight) <= MaxConcurrent

(* "so only genuinely running URLs remain" (retire_in_flight): every entry *)
(* in flight has a task, a turn to wait for or a place in the backlog.     *)
InFlightIsRunning == Looping => \A u \in inFlight : hop[u] # "none"

(* The crawl ends by itself only for a reason: never because all room is   *)
(* taken or every host blocked while nothing runs, at the page ceiling     *)
(* only with all pages delivered, and for want of work only with the       *)
(* frontier empty, unless the frontier itself held entries back.           *)
EndsForAReason ==
    pc = "done" =>
        /\ ending \notin {"none", "full", "legacy", "blocked"}
        /\ ending = "ceiling" => PagesProcessed = MaxPages
        /\ ending = "empty" /\ ~ShortPops => frontier = {}

(* "a strategy that has had enough ... end[s] the spawn pass without       *)
(* ending the crawl: fetches already in flight still finish"               *)
(* (spawn_pending_fetches).                                                *)
StrategyStopLetsFetchesFinish == pc = "exit" /\ ending = "strategy" => inFlight = {}

(* Every crawl ends, unless a request is never answered. *)
Terminates == <>(pc = "done" \/ \E u \in HungUrls : hop[u] \in Running)

(* A dropped receiver ends the crawl even if no request is ever answered.  *)
DroppedStreamEnds == gone ~> pc = "done"

(* What happens to an entry: see CrawlWork. *)
Work == INSTANCE CrawlWork WITH
    waiting <- frontier \cup window,
    taken <- inFlight \cup ({page} \ {NoUrl}),
    settled <- {u \in Urls : fate[u] # "none"}
RefinesCrawlWork == Work!Spec
=============================================================================
