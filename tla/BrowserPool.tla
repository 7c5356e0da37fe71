----------------------------- MODULE BrowserPool -----------------------------
(***************************************************************************)
(* BrowserPool and PooledPage (browser_pool.rs): one Chrome at a time, its *)
(* pages handed out under a semaphore, a Chrome that dies replaced by the  *)
(* next fetch or retired by its supervisor, and a shutdown that waits for  *)
(* neither a launch nor a page.  With it BrowserSessionPool, which parks   *)
(* pages with their permits (browser_session_pool.rs), and the fetch that  *)
(* uses the two (browser.rs).                                              *)
(*                                                                         *)
(* A step ends at an await, and each hold of a lock is one step.  A caller *)
(* is a fetch that wants a page, or a call of warm.  A step that began     *)
(* before the pool was shut down may end after it.                         *)
(***************************************************************************)
EXTENDS Naturals, FiniteSets, FiniteSetsExt

CONSTANTS Callers,
          MaxPages,    \* config.max_pages
          Keys,        \* keys of sessions
          MaxSessions, \* max_sessions of the session pool
          MaxLaunches  \* bound: the launches after it fail

ASSUME PoolAssumption ==
    /\ MaxPages \in Nat /\ MaxSessions \in Nat /\ MaxLaunches \in Nat
    /\ IsFiniteSet(Callers) /\ IsFiniteSet(Keys)

VARIABLES
    pc,          \* [Callers -> where the caller is]
    try,         \* [Callers -> which try this is, 0 for warm]
    gen,         \* [Callers -> the generation it launches, opens or has a page of]
    permits,     \* what page_semaphore has left
    launcher,    \* who holds launching, a set with at most one member
    current,     \* the generation in state, 0 for none
    healthy,     \* the health signal
    browser,     \* [generations -> the browser, "none" before it is launched]
    supervised,  \* generations with a supervisor task
    retiring,    \* generations that somebody closes
    closes,      \* how many closes that a Drop spawned are in flight
    parked,      \* sessions: [the keys that have a parked page -> its generation]
    shutdown,    \* how far shutdown is
    taken        \* the generation shutdown took, 0 for none

callers == <<pc, try, gen, permits, launcher>>
browsers == <<current, healthy, browser, supervised, retiring>>
pages == <<closes, parked>>
stopping == <<shutdown, taken>>
vars == <<callers, browsers, pages, stopping>>

Generations == 1 .. MaxLaunches
Up == {g \in Generations : browser[g] = "up"}
IsAlive == current # 0 /\ browser[current] = "up"
IsShutDown == shutdown # "no"
IsHealthy == healthy /\ ~IsShutDown
(* The state lock, which a call keeps from its look at the flag until it   *)
(* has installed its browser.  Every other hold of it is one step.         *)
StateFree == \A c \in Callers : pc[c] # "installing"

Init ==
    /\ pc = [c \in Callers |-> "idle"] /\ try = [c \in Callers |-> 0]
    /\ gen = [c \in Callers |-> 0]
    /\ permits = MaxPages /\ launcher = {}
    /\ current = 0 /\ healthy = FALSE
    /\ browser = [g \in Generations |-> "none"]
    /\ supervised = {} /\ retiring = {}
    /\ closes = 0
    /\ parked = [k \in {} |-> 0]
    /\ shutdown = "no" /\ taken = 0

-----------------------------------------------------------------------------
(* The ways out of a call *)

Goto(c, p) == pc' = [pc EXCEPT ![c] = p]
Holds(c) == try[c] > 0 /\ pc[c] # "waiting"
(* The call is over: what it holds goes back. *)
Leave(c) ==
    /\ Goto(c, "idle")
    /\ try' = [try EXCEPT ![c] = 0] /\ gen' = [gen EXCEPT ![c] = 0]
    /\ permits' = permits + (IF Holds(c) THEN 1 ELSE 0)

(* Wrong: a try that fails keeps the launch lock. *)
KeepLock(c) == launcher
Unlock(c) == launcher \ {c}

(* A try fails: a page is tried once more. *)
Fail(c) ==
    /\ launcher' = Unlock(c)
    /\ IF try[c] = 1
       THEN /\ Goto(c, "trying") /\ try' = [try EXCEPT ![c] = 2]
            /\ gen' = [gen EXCEPT ![c] = 0] /\ UNCHANGED permits
       ELSE Leave(c)

(* running_browser returns generation g. *)
Found(c, g) ==
    /\ launcher' = launcher \ {c}
    /\ IF try[c] = 0 THEN Leave(c)
       ELSE Goto(c, "opening") /\ gen' = [gen EXCEPT ![c] = g] /\ UNCHANGED <<try, permits>>

-----------------------------------------------------------------------------
(* acquire_page_through and warm *)

Acquire(c) ==
    /\ pc[c] = "idle" /\ ~IsShutDown
    /\ Goto(c, "waiting") /\ try' = [try EXCEPT ![c] = 1]
    /\ UNCHANGED <<gen, permits, launcher, browsers, pages, stopping>>
Warm(c) ==
    /\ pc[c] = "idle" /\ ~IsShutDown
    /\ Goto(c, "trying")
    /\ UNCHANGED <<try, gen, permits, launcher, browsers, pages, stopping>>

SemaphoreClosed == shutdown \in {"closed", "closing", "done"}
TakePermit(c) ==
    /\ pc[c] = "waiting"
    /\ \/ /\ SemaphoreClosed /\ Leave(c)
       \/ /\ ~SemaphoreClosed /\ permits > 0
          /\ Goto(c, "trying") /\ permits' = permits - 1 /\ UNCHANGED <<try, gen>>
    /\ UNCHANGED <<launcher, browsers, pages, stopping>>

(* running_browser: the browser that runs, or the queue for a launch *)
Find(c) ==
    /\ pc[c] = "trying" /\ StateFree
    /\ IF IsAlive THEN Found(c, current)
       ELSE Goto(c, "queued") /\ UNCHANGED <<try, gen, permits, launcher>>
    /\ UNCHANGED <<browsers, pages, stopping>>

(* The lock is there; the browser of a launch meanwhile will do. *)
LockLaunch(c) ==
    /\ pc[c] = "queued" /\ launcher = {}
    /\ IF IsAlive THEN Found(c, current) /\ UNCHANGED healthy
       ELSE /\ launcher' = {c} /\ healthy' = FALSE
            /\ Goto(c, "replacing") /\ UNCHANGED <<try, gen, permits>>
    /\ UNCHANGED <<current, browser, supervised, retiring, pages, stopping>>

(* The browser that ended goes to a task that retires it. *)
TakeEnded(c) ==
    /\ pc[c] = "replacing"
    /\ Goto(c, "launching")
    /\ current' = 0 /\ retiring' = retiring \cup ({current} \ {0})
    /\ UNCHANGED <<try, gen, permits, launcher, healthy, browser, supervised, pages, stopping>>

(* launch_browser: each of its waits is bounded. *)
Launch(c) ==
    /\ pc[c] = "launching"
    /\ \/ /\ Fail(c) /\ UNCHANGED browser
       \/ \E g \in Generations :
            /\ browser[g] = "none" /\ \A h \in 1 .. g - 1 : browser[h] # "none"
            /\ browser' = [browser EXCEPT ![g] = "up"]
            /\ Goto(c, "launched") /\ gen' = [gen EXCEPT ![c] = g]
            /\ UNCHANGED <<try, permits, launcher>>
    /\ UNCHANGED <<current, healthy, supervised, retiring, pages, stopping>>

(* Wrong: what is launched is installed without a look at the flag. *)
NeverRefused == FALSE
Refused == IsShutDown
(* Under the state lock: the browser is dropped, or will be installed. *)
LookAtFlag(c) ==
    /\ pc[c] = "launched"
    /\ IF Refused
       THEN Fail(c) /\ browser' = [browser EXCEPT ![gen[c]] = "dead"]
       ELSE Goto(c, "installing") /\ UNCHANGED <<try, gen, permits, launcher, browser>>
    /\ UNCHANGED <<current, healthy, supervised, retiring, pages, stopping>>

(* The shutdown may have set its flag, and turned the signal off, since. *)
Install(c) ==
    LET g == gen[c] IN
    /\ pc[c] = "installing"
    /\ Found(c, g) /\ current' = g /\ healthy' = TRUE
    /\ supervised' = supervised \cup {g}
    /\ UNCHANGED <<browser, retiring, pages, stopping>>

(* The page opens and is watched, or it fails or runs out of time. *)
Open(c) ==
    /\ pc[c] = "opening"
    /\ \/ browser[gen[c]] = "up" /\ Goto(c, "open") /\ UNCHANGED <<try, gen, permits, launcher>>
       \/ Fail(c)
    /\ UNCHANGED <<browsers, pages, stopping>>

(* The call is dropped: by its caller, or since the pool is shut down.  A  *)
(* launch takes its browser with it.                                       *)
GiveUp(c) ==
    /\ pc[c] \in {"waiting", "trying", "queued", "replacing", "launching", "launched", "opening", "reused"}
    /\ Leave(c) /\ launcher' = launcher \ {c}
    /\ browser' = IF pc[c] = "launched" THEN [browser EXCEPT ![gen[c]] = "dead"] ELSE browser
    /\ UNCHANGED <<current, healthy, supervised, retiring, pages, stopping>>

-----------------------------------------------------------------------------
(* PooledPage *)

(* close *)
Close(c) ==
    /\ pc[c] = "open" /\ Leave(c)
    /\ UNCHANGED <<launcher, browsers, pages, stopping>>

(* Wrong: the permit goes back when the page is dropped. *)
PermitsAtOnce == permits + 1
PermitsAfter == permits
(* Drop: a spawned close takes the permit along.  A fetch that is dropped  *)
(* with the parts of its page gives the permit back and leaves the close   *)
(* to the request check.                                                   *)
DropPage(c) ==
    /\ pc[c] = "open"
    /\ \/ /\ closes' = closes + 1 /\ permits' = PermitsAfter
          /\ Goto(c, "idle") /\ try' = [try EXCEPT ![c] = 0] /\ gen' = [gen EXCEPT ![c] = 0]
       \/ Leave(c) /\ UNCHANGED closes
    /\ UNCHANGED <<launcher, browsers, parked, stopping>>

CloseEnds ==
    /\ closes > 0
    /\ closes' = closes - 1 /\ permits' = permits + 1
    /\ UNCHANGED <<pc, try, gen, launcher, browsers, parked, stopping>>

-----------------------------------------------------------------------------
(* BrowserSessionPool, and how a fetch uses it *)

(* Sessions are dropped: their permits go back, their closes are spawned. *)
Dropped(S) == permits + Cardinality(S)
(* evict_expired on a lookup that finds nothing else, and shutdown *)
Expire ==
    /\ \E S \in (SUBSET DOMAIN parked) \ {{}} :
         parked' = [k \in DOMAIN parked \ S |-> parked[k]] /\ permits' = Dropped(S)
    /\ UNCHANGED <<pc, try, gen, launcher, browsers, closes, stopping>>

(* acquire_pooled_page finds a session: the page of a browser whose handler*)
(* ended is dropped for a new one.                                         *)
Reuse(c, k) ==
    LET g == parked[k] IN
    /\ pc[c] = "idle" /\ k \in DOMAIN parked
    /\ parked' = [l \in DOMAIN parked \ {k} |-> parked[l]]
    /\ \/ /\ Goto(c, "reused") /\ try' = [try EXCEPT ![c] = 2] /\ gen' = [gen EXCEPT ![c] = g]
          /\ UNCHANGED permits
       \/ /\ browser[g] # "up" /\ permits' = Dropped({k}) /\ UNCHANGED gen
          /\ IF IsShutDown THEN UNCHANGED <<pc, try>>
             ELSE Goto(c, "waiting") /\ try' = [try EXCEPT ![c] = 1]
    /\ UNCHANGED <<launcher, browsers, closes, stopping>>

(* watch_pooled_page: the page comes under the check of the pool's browser.*)
Watch(c) ==
    /\ pc[c] = "reused"
    /\ \/ /\ current # 0 /\ browser[gen[c]] = "up"
          /\ Goto(c, "open") /\ UNCHANGED <<try, gen, permits>>
       \/ Leave(c)
    /\ UNCHANGED <<launcher, browsers, pages, stopping>>

(* release_pooled_page parks the page, with its permit.  The old session   *)
(* of the key is dropped, and so are expired ones and one too many.        *)
Park(c, k) ==
    /\ pc[c] = "open"
    /\ \E S \in SUBSET (DOMAIN parked \ {k}) :
         /\ Cardinality(S) + 1 <= Max({MaxSessions, 1})
         /\ parked' = [l \in S \cup {k} |-> IF l = k THEN gen[c] ELSE parked[l]]
         /\ permits' = Dropped(DOMAIN parked \ S)
    /\ Goto(c, "idle") /\ try' = [try EXCEPT ![c] = 0] /\ gen' = [gen EXCEPT ![c] = 0]
    /\ UNCHANGED <<launcher, browsers, closes, stopping>>

-----------------------------------------------------------------------------
(* The browsers *)

(* The handler of a browser ends, or its request check fails. *)
Die(g) ==
    /\ browser[g] = "up"
    /\ browser' = [browser EXCEPT ![g] = "dead"]
    /\ UNCHANGED <<callers, current, healthy, supervised, retiring, pages, stopping>>

(* Wrong: the signal goes off before the generations are compared. *)
UnhealthyAnyway(g) == FALSE
(* mark_unhealthy_if_current *)
HealthAfter(g) == IF current = g THEN FALSE ELSE healthy
(* supervise_current *)
Supervise(g) ==
    /\ g \in supervised /\ browser[g] # "up" /\ StateFree
    /\ supervised' = supervised \ {g}
    /\ healthy' = HealthAfter(g)
    /\ IF current = g THEN current' = 0 /\ retiring' = retiring \cup {g}
       ELSE UNCHANGED <<current, retiring>>
    /\ UNCHANGED <<callers, browser, pages, stopping>>

(* fail_closed, or the close of a shutdown, ends: every wait of them is    *)
(* bounded.                                                                *)
Retire(g) ==
    /\ g \in retiring
    /\ retiring' = retiring \ {g} /\ browser' = [browser EXCEPT ![g] = "dead"]
    /\ UNCHANGED <<callers, current, healthy, supervised, pages, stopping>>

(* shutdown: the flag, the signal and the semaphore, the state, the end *)
ShutDown ==
    \/ /\ shutdown = "no" /\ shutdown' = "flagged"
       /\ UNCHANGED <<callers, browsers, pages, taken>>
    \/ /\ shutdown = "flagged" /\ shutdown' = "closed" /\ healthy' = FALSE
       /\ UNCHANGED <<callers, current, browser, supervised, retiring, pages, taken>>
    \/ /\ shutdown = "closed" /\ StateFree /\ shutdown' = "closing"
       /\ taken' = current /\ current' = 0 /\ retiring' = retiring \cup ({current} \ {0})
       /\ UNCHANGED <<callers, healthy, browser, supervised, pages>>
    \/ /\ shutdown = "closing" /\ taken \notin retiring /\ shutdown' = "done"
       /\ UNCHANGED <<callers, browsers, pages, taken>>

Step(c) ==
    TakePermit(c) \/ Find(c) \/ TakeEnded(c) \/ Launch(c) \/ LookAtFlag(c) \/ Install(c) \/ Open(c) \/ Watch(c)
Next ==
    \/ \E c \in Callers :
         Acquire(c) \/ Warm(c) \/ Step(c) \/ LockLaunch(c) \/ GiveUp(c) \/ Close(c) \/ DropPage(c)
    \/ \E c \in Callers, k \in Keys : Reuse(c, k) \/ Park(c, k)
    \/ Expire
    \/ \E g \in Generations : Die(g) \/ Supervise(g) \/ Retire(g)
    \/ CloseEnds \/ ShutDown

Spec == Init /\ [][Next]_vars
(* A task that can go on does, and each wait on Chrome is bounded.  The    *)
(* launch lock is fair.  Nobody need close a page, shut the pool down or   *)
(* retire what has died.                                                   *)
FairSpec ==
    /\ Spec
    /\ \A c \in Callers :
         WF_vars(Step(c)) /\ SF_vars(LockLaunch(c)) /\ WF_vars(IsShutDown /\ GiveUp(c))
    /\ WF_vars(IsShutDown /\ ShutDown)

-----------------------------------------------------------------------------
Types ==
    /\ pc \in [Callers -> {"idle", "waiting", "trying", "queued", "replacing", "launching",
                           "launched", "installing", "opening", "open", "reused"}]
    /\ try \in [Callers -> 0 .. 2] /\ gen \in [Callers -> 0 .. MaxLaunches]
    /\ permits \in Nat /\ closes \in Nat
    /\ launcher \subseteq Callers /\ current \in 0 .. MaxLaunches /\ healthy \in BOOLEAN
    /\ browser \in [Generations -> {"none", "up", "dead"}]
    /\ supervised \subseteq Generations /\ retiring \subseteq Generations
    /\ DOMAIN parked \subseteq Keys /\ \A k \in DOMAIN parked : parked[k] \in Generations
    /\ shutdown \in {"no", "flagged", "closed", "closing", "done"} /\ taken \in 0 .. MaxLaunches
Holders == {c \in Callers : Holds(c)}
(* Types, and that every permit is with the semaphore, a call, a parked    *)
(* session or a spawned close: these pages are MaxPages at most.           *)
TypeOK ==
    Types /\ permits + Cardinality(Holders) + Cardinality(DOMAIN parked) + closes = MaxPages

(* A Chrome that runs is the pool's, or is on its way in with the launch   *)
(* that will drop it, or is being closed; the pool closes none that still  *)
(* works unless it is shut down, and a shutdown that is over leaves none.  *)
NoneLeftBehind ==
    /\ \A g \in Up : \/ g \in retiring \cup {current}
                     \/ \E c \in Callers : pc[c] \in {"launched", "installing"} /\ gen[c] = g
    /\ \A g \in Up \cap retiring : IsShutDown
    /\ shutdown \in {"closing", "done"} => current = 0

(* While the pool is not shut down, is_healthy is true whenever a browser  *)
(* that works is installed, and false when there is none: the supervisor   *)
(* of a replaced browser does not turn it off.                             *)
HealthTells ==
    /\ IsAlive /\ ~IsShutDown => IsHealthy
    /\ IsHealthy => current # 0

(* A call with a permit ends, with a page or an error, whatever Chrome     *)
(* does and whoever is dropped in a launch; after a shutdown one that      *)
(* still waits for a permit ends too.                                      *)
AcquireEnds ==
    \A c \in Callers :
        (pc[c] \notin {"idle", "waiting", "open"} \/ (pc[c] = "waiting" /\ IsShutDown))
            ~> pc[c] \in {"idle", "open"}
=============================================================================
