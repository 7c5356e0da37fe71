------------------------- MODULE BrowserPool_proofs -------------------------
(***************************************************************************)
(* For any callers, permits, sessions and number of launches: no browser   *)
(* is left behind or closed while it works, and the health signal tells.   *)
(***************************************************************************)
EXTENDS BrowserPool, FiniteSetTheorems, TLAPS

Launching == {"replacing", "launching", "launched", "installing"}
WithBrowser == {"launched", "installing"}
WithPage == {"opening", "open", "reused"}

(* Who launches holds the launch lock, and nobody else does. *)
OneLaunch ==
    /\ \A c \in Callers : pc[c] \in Launching <=> c \in launcher
    /\ \A c, d \in launcher : c = d

(* While somebody launches, nothing that works is installed, and nothing   *)
(* at all once the browser that ended was taken.                           *)
NothingRuns ==
    \A c \in Callers :
        /\ pc[c] \in Launching => ~IsAlive /\ ~IsHealthy
        /\ pc[c] \in {"launching", "launched", "installing"} => current = 0

(* A browser on its way in is its launch's alone. *)
OnItsWay ==
    \A c \in Callers : pc[c] \in WithBrowser =>
        gen[c] \in Generations \ retiring /\ browser[gen[c]] # "none"

(* A shutdown does not take the state while a browser is being installed.  *)
StateKept == \A c \in Callers : pc[c] = "installing" => shutdown \notin {"closing", "done"}

(* A page is some browser's. *)
OfABrowser == \A c \in Callers : pc[c] \in WithPage => gen[c] \in Generations

(* What is installed or retired was launched. *)
WasLaunched == \A g \in retiring \cup ({current} \ {0}) : browser[g] # "none"

IInv ==
    Types /\ OneLaunch /\ NothingRuns /\ OnItsWay /\ StateKept /\ OfABrowser /\ WasLaunched /\ NoneLeftBehind /\ HealthTells

USE PoolAssumption DEF Generations, Launching, WithBrowser, WithPage

(* Initially nothing is launched. *)
LEMMA Initially == Init => IInv
<1> SUFFICES ASSUME Init PROVE IInv
    OBVIOUS
<1> USE DEF Init
<1>1. Types
    <2>1. DOMAIN parked = {}
        OBVIOUS
    <2>2. pc \in [Callers -> {"idle", "waiting", "trying", "queued", "replacing", "launching",
                           "launched", "installing", "opening", "open", "reused"}]
        OBVIOUS
    <2>3. try \in [Callers -> 0 .. 2] /\ gen \in [Callers -> 0 .. MaxLaunches]
        OBVIOUS
    <2>4. permits \in Nat /\ closes \in Nat
        OBVIOUS
    <2>5. browser \in [Generations -> {"none", "up", "dead"}]
        OBVIOUS
    <2>6. launcher \subseteq Callers /\ current \in 0 .. MaxLaunches
        OBVIOUS
    <2>8. healthy \in BOOLEAN
        BY Zenon
    <2>7. shutdown \in {"no", "flagged", "closed", "closing", "done"} /\ taken \in 0 .. MaxLaunches
        OBVIOUS
    <2> HIDE DEF Init
    <2> QED BY <2>1, <2>2, <2>3, <2>4, <2>5, <2>6, <2>7, <2>8 DEF Types, Init
<1>2. OneLaunch /\ NothingRuns /\ OnItsWay /\ StateKept /\ OfABrowser /\ WasLaunched
    BY DEF OneLaunch, NothingRuns, OnItsWay, StateKept, OfABrowser, WasLaunched
<1>3. NoneLeftBehind /\ HealthTells
    BY DEF NoneLeftBehind, HealthTells, IsAlive, IsHealthy, Up
<1> QED BY <1>1, <1>2, <1>3 DEF IInv

-----------------------------------------------------------------------------
(* What a way out of a call does to the calls. *)
LEMMA Ways ==
    ASSUME Types, NEW c \in Callers, Leave(c) \/ Fail(c) \/ \E g \in Generations : Found(c, g)
    PROVE  /\ pc' \in [Callers -> {"idle", "waiting", "trying", "queued", "replacing", "launching",
                                   "launched", "installing", "opening", "open", "reused"}]
           /\ try' \in [Callers -> 0 .. 2] /\ gen' \in [Callers -> 0 .. MaxLaunches]
           /\ permits' \in Nat
           /\ pc'[c] \in {"idle", "trying", "opening"}
           /\ pc'[c] = "opening" => gen'[c] \in Generations
           /\ \A d \in Callers \ {c} : pc'[d] = pc[d] /\ gen'[d] = gen[d]
<1>1. CASE Leave(c)
    BY <1>1 DEF Leave, Goto, Types
<1>2. CASE Fail(c)
    <2>1. CASE try[c] = 1
        <3>1. pc' = [pc EXCEPT ![c] = "trying"] /\ try' = [try EXCEPT ![c] = 2]
              /\ gen' = [gen EXCEPT ![c] = 0] /\ permits' = permits
            BY <1>2, <2>1 DEF Fail, Goto
        <3> QED BY <3>1 DEF Types
    <2>2. CASE try[c] # 1
        BY <1>1, <1>2, <2>2 DEF Fail
    <2> QED BY <2>1, <2>2
<1>3. CASE \E g \in Generations : Found(c, g)
    <2>1. CASE try[c] = 0
        BY <1>1, <1>3, <2>1 DEF Found
    <2>2. CASE try[c] # 0
        <3>1. PICK g \in Generations : Found(c, g)
            BY <1>3
        <3>2. pc' = [pc EXCEPT ![c] = "opening"] /\ gen' = [gen EXCEPT ![c] = g] /\ UNCHANGED <<try, permits>>
            BY <2>2, <3>1 DEF Found, Goto
        <3> QED BY <3>2 DEF Types
    <2> QED BY <2>1, <2>2
<1> QED BY <1>1, <1>2, <1>3

(* A call that does not launch, or that is through with it, leaves the     *)
(* browsers as they are, except that it drops the one it has launched.     *)
LEMMA Leaves ==
    ASSUME IInv, Types', NEW c \in Callers,
           pc[c] # "installing",
           pc'[c] \notin Launching, pc'[c] \in WithPage => gen'[c] \in Generations,
           launcher' = launcher \ {c},
           \A d \in Callers \ {c} : pc'[d] = pc[d] /\ gen'[d] = gen[d],
           IF pc[c] = "launched" THEN browser' = [browser EXCEPT ![gen[c]] = "dead"]
                                 ELSE UNCHANGED browser,
           UNCHANGED <<current, healthy, retiring, shutdown>>
    PROVE  IInv'
<1> USE DEF IInv, IsAlive, IsHealthy, IsShutDown
<1>1. \A g \in Generations : \/ browser'[g] = browser[g]
                             \/ pc[c] = "launched" /\ g = gen[c] /\ browser'[g] = "dead"
    BY DEF Types, OnItsWay
<1>2. OneLaunch'
    BY DEF OneLaunch, Types
<1>3. \A d \in Callers \ {c} : pc[d] \in Launching => pc[c] \notin Launching
    BY DEF OneLaunch
<1>4. current = current' /\ (current # 0 => current \in Generations)
    BY DEF Types
<1>5. NothingRuns'
    BY <1>1, <1>4 DEF NothingRuns
<1>6. OnItsWay'
    BY <1>1, <1>3 DEF OnItsWay
<1>7. StateKept' /\ OfABrowser' /\ WasLaunched'
    BY <1>1, <1>4 DEF StateKept, OfABrowser, WasLaunched, Types
<1>8. NoneLeftBehind'
    <2>1. ASSUME NEW g \in Up' PROVE g \in Up /\ ~(pc[c] = "launched" /\ gen[c] = g)
        BY <1>1, <2>1 DEF Up, Types
    <2>2. ASSUME NEW g \in Up', g \notin retiring' \cup {current'}
          PROVE  \E d \in Callers : pc'[d] \in WithBrowser /\ gen'[d] = g
        <3>1. PICK d \in Callers : pc[d] \in WithBrowser /\ gen[d] = g
            BY <2>1, <2>2 DEF NoneLeftBehind
        <3> QED BY <2>1, <2>2, <3>1
    <2> QED BY <2>1, <2>2 DEF NoneLeftBehind
<1>9. HealthTells'
    BY <1>1, <1>4 DEF HealthTells
<1> QED BY <1>2, <1>5, <1>6, <1>7, <1>8, <1>9

(* A call without the launch lock changes no browser.                      *)
LEMMA Aside ==
    ASSUME IInv, Types', NEW c \in Callers, pc[c] \notin Launching,
           pc'[c] \notin Launching, pc'[c] \in WithPage => gen'[c] \in Generations,
           UNCHANGED launcher,
           \A d \in Callers \ {c} : pc'[d] = pc[d] /\ gen'[d] = gen[d],
           UNCHANGED <<browsers, stopping>>
    PROVE  IInv'
<1>1. launcher' = launcher \ {c}
    BY DEF IInv, OneLaunch
<1> QED BY <1>1, Leaves DEF browsers, stopping

(* Permits, closes and sessions concern no browser.                        *)
LEMMA SameBrowsers ==
    ASSUME IInv, Types', UNCHANGED <<pc, gen, launcher, browsers, shutdown>>
    PROVE  IInv'
BY DEF IInv, browsers, IsAlive, IsHealthy, IsShutDown, OneLaunch, NothingRuns, OnItsWay, StateKept, OfABrowser, WasLaunched,
       NoneLeftBehind, Up, HealthTells

-----------------------------------------------------------------------------
LEMMA AcquireStep == ASSUME IInv, NEW c \in Callers, Acquire(c) PROVE IInv'
<1>1. Types /\ OneLaunch /\ pc[c] = "idle"
    BY DEF IInv, Acquire
<1>2. Types'
    BY <1>1 DEF Acquire, Goto, browsers, pages, stopping, Types
<1> QED BY <1>1, <1>2, Aside DEF Acquire, Goto, Types

LEMMA WarmStep == ASSUME IInv, NEW c \in Callers, Warm(c) PROVE IInv'
<1>1. Types /\ OneLaunch /\ pc[c] = "idle"
    BY DEF IInv, Warm
<1>2. Types'
    BY <1>1 DEF Warm, Goto, browsers, pages, stopping, Types
<1> QED BY <1>1, <1>2, Aside DEF Warm, Goto, Types

LEMMA TakePermitStep == ASSUME IInv, NEW c \in Callers, TakePermit(c) PROVE IInv'
<1>1. Types /\ OneLaunch /\ pc[c] = "waiting"
    BY DEF IInv, TakePermit
<1>2. UNCHANGED <<launcher, browsers, pages, stopping>>
    BY DEF TakePermit
<1>3. CASE Leave(c)
    <2>1. Types'
        BY <1>1, <1>2, <1>3, Ways DEF browsers, pages, stopping, Types
    <2> QED BY <1>1, <1>2, <1>3, <2>1, Ways, Aside
<1>4. CASE permits > 0 /\ Goto(c, "trying") /\ permits' = permits - 1 /\ UNCHANGED <<try, gen>>
    <2>1. Types'
        BY <1>1, <1>2, <1>4 DEF Goto, browsers, pages, stopping, Types
    <2> QED BY <1>1, <1>2, <1>4, <2>1, Aside DEF Goto, Types
<1> QED BY <1>3, <1>4 DEF TakePermit

LEMMA FindStep == ASSUME IInv, NEW c \in Callers, Find(c) PROVE IInv'
<1>1. Types /\ OneLaunch /\ pc[c] = "trying" /\ (IsAlive => current \in Generations)
    BY DEF IInv, Find, IsAlive, Types
<1>2. UNCHANGED <<browsers, pages, stopping>>
    BY DEF Find
<1>3. CASE IsAlive /\ Found(c, current)
    <2>1. launcher' = launcher \ {c}
        BY <1>3 DEF Found
    <2>2. Types'
        BY <1>1, <1>2, <1>3, <2>1, Ways DEF browsers, pages, stopping, Types
    <2> QED BY <1>1, <1>2, <1>3, <2>1, <2>2, Ways, Leaves DEF browsers, stopping
<1>4. CASE Goto(c, "queued") /\ UNCHANGED <<try, gen, permits, launcher>>
    <2>1. Types'
        BY <1>1, <1>2, <1>4 DEF Goto, browsers, pages, stopping, Types
    <2> QED BY <1>1, <1>2, <1>4, <2>1, Aside DEF Goto, Types
<1> QED BY <1>3, <1>4 DEF Find

(* The launch lock goes to a caller that finds nothing running: then the   *)
(* health signal is off until it is done.                                  *)
LEMMA LockLaunchStep == ASSUME IInv, NEW c \in Callers, LockLaunch(c) PROVE IInv'
<1>1. Types /\ OneLaunch /\ pc[c] = "queued" /\ launcher = {} /\ (IsAlive => current \in Generations)
    BY DEF IInv, LockLaunch, IsAlive, Types
<1>2. UNCHANGED <<current, browser, supervised, retiring, pages, stopping>>
    BY DEF LockLaunch
<1>3. CASE IsAlive /\ Found(c, current) /\ UNCHANGED healthy
    <2>1. launcher' = launcher \ {c}
        BY <1>3 DEF Found
    <2>2. Types'
        BY <1>1, <1>2, <1>3, <2>1, Ways DEF pages, stopping, Types
    <2> QED BY <1>1, <1>2, <1>3, <2>1, <2>2, Ways, Leaves DEF stopping
<1>4. CASE ~IsAlive /\ launcher' = {c} /\ healthy' = FALSE /\ Goto(c, "replacing")
           /\ UNCHANGED <<try, gen, permits>>
    <2>1. pc' = [pc EXCEPT ![c] = "replacing"] /\ ~healthy'
        BY <1>4 DEF Goto
    <2>2. Types'
        BY <1>1, <1>2, <1>4, <2>1 DEF pages, stopping, Types
    <2>3. \A d \in Callers : pc[d] \notin Launching
        BY <1>1 DEF OneLaunch
    <2>4. OneLaunch'
        BY <1>1, <1>4, <2>1, <2>3 DEF OneLaunch, Types
    <2>5. NothingRuns'
        BY <1>1, <1>2, <1>4, <2>1, <2>3 DEF NothingRuns, IsAlive, IsHealthy, Types
    <2>6. OnItsWay' /\ StateKept' /\ OfABrowser' /\ WasLaunched'
        BY <1>1, <1>2, <1>4, <2>1, <2>3 DEF IInv, OnItsWay, StateKept, OfABrowser, WasLaunched, Types
    <2>7. NoneLeftBehind'
        BY <1>1, <1>2, <1>4, <2>1, <2>3 DEF IInv, NoneLeftBehind, Up, IsShutDown, stopping, Types
    <2>8. HealthTells'
        BY <1>2, <1>4, <2>1 DEF HealthTells, IsAlive, IsHealthy
    <2> QED BY <2>2, <2>4, <2>5, <2>6, <2>7, <2>8 DEF IInv
<1> QED BY <1>3, <1>4 DEF LockLaunch

(* What the launch takes out of the pool has ended.                        *)
LEMMA TakeEndedStep == ASSUME IInv, NEW c \in Callers, TakeEnded(c) PROVE IInv'
<1> USE DEF IInv, IsAlive, IsHealthy, IsShutDown
<1>1. /\ pc[c] = "replacing" /\ pc' = [pc EXCEPT ![c] = "launching"]
      /\ current' = 0 /\ retiring' = retiring \cup ({current} \ {0})
      /\ UNCHANGED <<try, gen, permits, launcher, healthy, browser, supervised, closes, parked, shutdown, taken>>
    BY DEF TakeEnded, Goto, pages, stopping
<1>2. ~(healthy /\ shutdown = "no") /\ (current # 0 => browser[current] # "up")
    BY <1>1 DEF NothingRuns
<1>3. current # 0 => current \in Generations
    BY DEF Types
<1>4. Types'
    BY <1>1, <1>3 DEF Types
<1>5. OneLaunch'
    BY <1>1 DEF OneLaunch, Types
<1>6. NothingRuns'
    BY <1>1, <1>2 DEF NothingRuns, Types
<1>7. \A d \in Callers : pc[d] \notin WithBrowser
    BY <1>1 DEF OneLaunch
<1>8. OnItsWay' /\ StateKept' /\ OfABrowser' /\ WasLaunched'
    BY <1>1, <1>7 DEF OnItsWay, StateKept, OfABrowser, WasLaunched, Types
<1>9. NoneLeftBehind'
    BY <1>1, <1>2, <1>7 DEF NoneLeftBehind, Up
<1>10. HealthTells'
    BY <1>1, <1>2 DEF HealthTells
<1> QED BY <1>4, <1>5, <1>6, <1>8, <1>9, <1>10

(* A new browser is nobody's but its launch's.                             *)
LEMMA LaunchStep == ASSUME IInv, NEW c \in Callers, Launch(c) PROVE IInv'
<1>1. Types /\ OneLaunch /\ pc[c] = "launching" /\ c \in launcher
    BY DEF IInv, Launch, OneLaunch
<1>2. UNCHANGED <<current, healthy, supervised, retiring, pages, stopping>>
    BY DEF Launch
<1>3. CASE Fail(c) /\ UNCHANGED browser
    <2>1. launcher' = launcher \ {c}
        BY <1>3 DEF Fail, Unlock
    <2>2. Types'
        BY <1>1, <1>2, <1>3, <2>1, Ways DEF pages, stopping, Types
    <2> QED BY <1>1, <1>2, <1>3, <2>1, <2>2, Ways, Leaves DEF stopping
<1>4. ASSUME NEW g \in Generations, browser[g] = "none", browser' = [browser EXCEPT ![g] = "up"],
             Goto(c, "launched"), gen' = [gen EXCEPT ![c] = g], UNCHANGED <<try, permits, launcher>>
      PROVE  IInv'
    <2> USE DEF IInv, IsAlive, IsHealthy, IsShutDown
    <2>1. pc' = [pc EXCEPT ![c] = "launched"]
        BY <1>4 DEF Goto
    <2>2. Types'
        BY <1>1, <1>2, <1>4, <2>1 DEF pages, stopping, Types
    <2>3. OneLaunch'
        BY <1>1, <1>4, <2>1 DEF OneLaunch, Types
    <2>4. current = 0 /\ ~(healthy /\ shutdown = "no") /\ current' = 0 /\ UNCHANGED <<healthy, retiring, shutdown>>
        BY <1>1, <1>2 DEF NothingRuns, stopping
    <2>5. NothingRuns' /\ HealthTells'
        BY <2>1, <2>4, <1>1, <1>4 DEF NothingRuns, HealthTells, Types
    <2>6. g \notin retiring
        BY <1>4 DEF WasLaunched
    <2>7. OnItsWay'
        BY <1>1, <1>4, <2>1, <2>4, <2>6 DEF OnItsWay, OneLaunch, Types
    <2>8. StateKept' /\ OfABrowser' /\ WasLaunched'
        BY <1>1, <1>4, <2>1, <2>4 DEF StateKept, OfABrowser, WasLaunched, Types
    <2>9. \A d \in Callers \ {c} : pc'[d] = pc[d] /\ gen'[d] = gen[d]
        BY <1>1, <1>4, <2>1 DEF Types
    <2>10. pc'[c] = "launched" /\ gen'[c] = g
        BY <1>1, <1>4, <2>1 DEF Types
    <2>11. \A h \in Up' : h = g \/ h \in Up
        BY <1>1, <1>4 DEF Up, Types
    <2>12. NoneLeftBehind'
        BY <1>1, <2>4, <2>6, <2>9, <2>10, <2>11 DEF NoneLeftBehind
    <2> QED BY <2>2, <2>3, <2>5, <2>7, <2>8, <2>12
<1> QED BY <1>3, <1>4 DEF Launch

(* Dropped when the flag is set under the state lock; otherwise the lock   *)
(* stays until the browser is in.                                          *)
LEMMA LookAtFlagStep == ASSUME IInv, NEW c \in Callers, LookAtFlag(c) PROVE IInv'
<1> DEFINE g == gen[c]
<1>1. Types /\ OneLaunch /\ pc[c] = "launched" /\ c \in launcher
    BY DEF IInv, LookAtFlag, OneLaunch
<1>2. UNCHANGED <<current, healthy, supervised, retiring, pages, stopping>> /\ g \in Generations
    BY <1>1 DEF IInv, LookAtFlag, OnItsWay
<1>3. CASE Fail(c) /\ browser' = [browser EXCEPT ![g] = "dead"]
    <2>1. launcher' = launcher \ {c}
        BY <1>3 DEF Fail, Unlock
    <2>2. Types'
        BY <1>1, <1>2, <1>3, <2>1, Ways DEF pages, stopping, Types
    <2> QED BY <1>1, <1>2, <1>3, <2>1, <2>2, Ways, Leaves DEF stopping
<1>4. CASE ~IsShutDown /\ Goto(c, "installing") /\ UNCHANGED <<try, gen, permits, launcher, browser>>
    <2> USE DEF IInv, IsAlive, IsHealthy, IsShutDown
    <2>1. pc' = [pc EXCEPT ![c] = "installing"]
          /\ UNCHANGED <<try, gen, permits, launcher, current, healthy, browser, supervised, retiring,
                         closes, parked, shutdown, taken>>
        BY <1>2, <1>4 DEF Goto, pages, stopping
    <2>2. Types'
        BY <1>1, <2>1 DEF Types
    <2>3. pc'[c] = "installing" /\ \A d \in Callers \ {c} : pc'[d] = pc[d]
        BY <1>1, <2>1 DEF Types
    <2>4. OneLaunch' /\ NothingRuns' /\ OnItsWay' /\ OfABrowser' /\ WasLaunched'
        BY <1>1, <2>1, <2>3 DEF OneLaunch, NothingRuns, OnItsWay, OfABrowser, WasLaunched
    <2>5. StateKept'
        BY <1>4, <2>1, <2>3 DEF StateKept
    <2>6. NoneLeftBehind' /\ HealthTells'
        BY <1>1, <2>1, <2>3 DEF NoneLeftBehind, Up, HealthTells
    <2> QED BY <2>2, <2>4, <2>5, <2>6
<1> QED BY <1>3, <1>4 DEF LookAtFlag, Refused

(* Meanwhile a shutdown may have begun, and has yet to take the state.     *)
LEMMA InstallStep == ASSUME IInv, NEW c \in Callers, Install(c) PROVE IInv'
<1> DEFINE g == gen[c]
<1> USE DEF IInv, IsAlive, IsHealthy, IsShutDown
<1>1. Types /\ OneLaunch /\ pc[c] = "installing" /\ c \in launcher
    BY DEF Install, OneLaunch
<1>2. /\ UNCHANGED <<browser, retiring, closes, parked, shutdown, taken>>
      /\ g \in Generations \ retiring /\ browser[g] # "none" /\ shutdown \notin {"closing", "done"}
    BY <1>1 DEF Install, OnItsWay, StateKept, pages, stopping
<1>3. Found(c, g) /\ current' = g /\ healthy' = TRUE /\ supervised' = supervised \cup {g}
    BY DEF Install
<1>4. launcher' = launcher \ {c} /\ healthy'
    BY <1>3 DEF Found
<1>5. /\ pc'[c] \notin Launching /\ (pc'[c] \in WithPage => gen'[c] \in Generations)
      /\ \A d \in Callers \ {c} : pc'[d] = pc[d] /\ gen'[d] = gen[d]
    BY <1>1, <1>2, <1>3, Ways
<1>6. Types'
    <2>1. /\ pc' \in [Callers -> {"idle", "waiting", "trying", "queued", "replacing", "launching",
                                   "launched", "installing", "opening", "open", "reused"}]
          /\ try' \in [Callers -> 0 .. 2] /\ gen' \in [Callers -> 0 .. MaxLaunches]
          /\ permits' \in Nat
        BY <1>1, <1>2, <1>3, Ways
    <2>2. current' \in 0 .. MaxLaunches /\ supervised' \subseteq Generations
        BY <1>1, <1>2, <1>3 DEF Types
    <2>3. healthy' \in BOOLEAN
        BY <1>3, Zenon
    <2> QED BY <1>1, <1>2, <1>4, <2>1, <2>2, <2>3 DEF Types
<1>7. \A d \in Callers : pc'[d] \notin Launching
    BY <1>1, <1>5 DEF OneLaunch
<1>8. OneLaunch' /\ NothingRuns' /\ OnItsWay' /\ StateKept'
    BY <1>1, <1>4, <1>7 DEF OneLaunch, NothingRuns, OnItsWay, StateKept
<1>9. OfABrowser' /\ WasLaunched'
    BY <1>2, <1>3, <1>5 DEF OfABrowser, WasLaunched
<1>10. current = 0 /\ \A d \in Callers \ {c} : pc[d] \notin WithBrowser
    BY <1>1 DEF NothingRuns, OneLaunch
<1>11. NoneLeftBehind'
    BY <1>2, <1>3, <1>10 DEF NoneLeftBehind, Up
<1>12. HealthTells'
    BY <1>2, <1>3, <1>4 DEF HealthTells
<1> QED BY <1>6, <1>8, <1>9, <1>11, <1>12

LEMMA OpenStep == ASSUME IInv, NEW c \in Callers, Open(c) PROVE IInv'
<1>1. Types /\ OneLaunch /\ pc[c] = "opening"
    BY DEF IInv, Open
<1>2. UNCHANGED <<browsers, pages, stopping>>
    BY DEF Open
<1>3. CASE Fail(c)
    <2>1. launcher' = launcher \ {c}
        BY <1>1, <1>3 DEF Fail, Unlock, OneLaunch
    <2>2. Types'
        BY <1>1, <1>2, <1>3, <2>1, Ways DEF browsers, pages, stopping, Types
    <2> QED BY <1>1, <1>2, <1>3, <2>1, <2>2, Ways, Leaves DEF browsers, stopping
<1>4. CASE Goto(c, "open") /\ UNCHANGED <<try, gen, permits, launcher>>
    <2>1. Types'
        BY <1>1, <1>2, <1>4 DEF Goto, browsers, pages, stopping, Types
    <2>2. gen[c] \in Generations
        BY <1>1 DEF IInv, OfABrowser
    <2> QED BY <1>1, <1>2, <1>4, <2>1, <2>2, Aside DEF Goto, Types
<1> QED BY <1>3, <1>4 DEF Open

(* A call dropped in a launch drops its browser.                           *)
LEMMA GiveUpStep == ASSUME IInv, NEW c \in Callers, GiveUp(c) PROVE IInv'
<1>1. Types /\ Leave(c) /\ launcher' = launcher \ {c} /\ pc[c] # "installing"
      /\ UNCHANGED <<current, healthy, supervised, retiring, pages, stopping>>
    BY DEF IInv, GiveUp
<1>2. browser' = IF pc[c] = "launched" THEN [browser EXCEPT ![gen[c]] = "dead"] ELSE browser
    BY DEF GiveUp
<1>3. browser' \in [Generations -> {"none", "up", "dead"}]
    BY <1>1, <1>2 DEF Types
<1>4. Types'
    BY <1>1, <1>3, Ways DEF pages, stopping, Types
<1>5. pc'[c] = "idle"
    BY <1>1 DEF Leave, Goto, Types
<1> QED BY <1>1, <1>2, <1>4, <1>5, Ways, Leaves DEF stopping

LEMMA CloseStep == ASSUME IInv, NEW c \in Callers, Close(c) PROVE IInv'
<1>1. Types /\ Leave(c) /\ pc[c] = "open" /\ UNCHANGED <<launcher, browsers, pages, stopping>>
    BY DEF IInv, Close
<1>2. Types'
    BY <1>1, Ways DEF browsers, pages, stopping, Types
<1> QED BY <1>1, <1>2, Ways, Aside

LEMMA DropPageStep == ASSUME IInv, NEW c \in Callers, DropPage(c) PROVE IInv'
<1>1. Types /\ pc[c] = "open" /\ UNCHANGED <<launcher, browsers, parked, stopping>>
    BY DEF IInv, DropPage
<1>2. CASE Leave(c) /\ UNCHANGED closes
    <2>1. Types'
        BY <1>1, <1>2, Ways DEF browsers, stopping, Types
    <2> QED BY <1>1, <1>2, <2>1, Ways, Aside
<1>3. CASE /\ closes' = closes + 1 /\ permits' = permits
           /\ Goto(c, "idle") /\ try' = [try EXCEPT ![c] = 0] /\ gen' = [gen EXCEPT ![c] = 0]
    <2>1. Types'
        BY <1>1, <1>3 DEF Goto, browsers, stopping, Types
    <2> QED BY <1>1, <1>3, <2>1, Aside DEF Goto, Types
<1> QED BY <1>2, <1>3 DEF DropPage, PermitsAfter

LEMMA CloseEndsStep == ASSUME IInv, CloseEnds PROVE IInv'
<1>1. Types'
    BY DEF IInv, CloseEnds, browsers, stopping, Types
<1> QED BY <1>1, SameBrowsers DEF CloseEnds, stopping

(* Dropping sessions gives a number of permits back.                       *)
LEMMA DroppedPermits ==
    ASSUME Types, NEW S \in SUBSET DOMAIN parked
    PROVE  IsFiniteSet(S) /\ Cardinality(S) \in Nat /\ Dropped(S) \in Nat
<1>1. IsFiniteSet(S)
    BY FS_Subset, PoolAssumption DEF Types
<1>2. Cardinality(S) \in Nat
    BY <1>1, FS_CardinalityType
<1> QED BY <1>1, <1>2 DEF Dropped, Types

LEMMA ExpireStep == ASSUME IInv, Expire PROVE IInv'
<1>1. PICK S \in SUBSET DOMAIN parked :
          parked' = [k \in DOMAIN parked \ S |-> parked[k]] /\ permits' = Dropped(S)
    BY DEF Expire
<1>2. permits' \in Nat
    BY <1>1, DroppedPermits DEF IInv
<1>3. DOMAIN parked' \subseteq Keys /\ \A k \in DOMAIN parked' : parked'[k] \in Generations
    BY <1>1 DEF IInv, Types
<1>4. Types'
    BY <1>2, <1>3 DEF IInv, Expire, browsers, stopping, Types
<1> QED BY <1>4, SameBrowsers DEF Expire, stopping

LEMMA ReuseStep == ASSUME IInv, NEW c \in Callers, NEW k \in Keys, Reuse(c, k) PROVE IInv'
<1> DEFINE g == parked[k]
<1>1. Types /\ pc[c] = "idle" /\ k \in DOMAIN parked /\ g \in Generations
      /\ parked' = [l \in DOMAIN parked \ {k} |-> parked[l]]
      /\ UNCHANGED <<launcher, browsers, closes, stopping>>
    BY DEF IInv, Reuse, Types
<1>2. DOMAIN parked' \subseteq Keys /\ \A l \in DOMAIN parked' : parked'[l] \in Generations
    BY <1>1 DEF Types
<1>3. CASE Goto(c, "reused") /\ try' = [try EXCEPT ![c] = 2] /\ gen' = [gen EXCEPT ![c] = g]
           /\ UNCHANGED permits
    <2>1. Types'
        BY <1>1, <1>2, <1>3 DEF Goto, browsers, stopping, Types
    <2> QED BY <1>1, <1>3, <2>1, Aside DEF Goto, Types
<1>4. CASE permits' = Dropped({k}) /\ UNCHANGED <<pc, try, gen>>
    <2>1. permits' \in Nat
        BY <1>1, <1>4, DroppedPermits
    <2>2. Types'
        BY <1>1, <1>2, <1>4, <2>1 DEF browsers, stopping, Types
    <2> QED BY <1>1, <1>4, <2>2, Aside
<1>5. CASE permits' = Dropped({k}) /\ Goto(c, "waiting") /\ try' = [try EXCEPT ![c] = 1] /\ UNCHANGED gen
    <2>1. permits' \in Nat
        BY <1>1, <1>5, DroppedPermits
    <2>2. Types'
        BY <1>1, <1>2, <1>5, <2>1 DEF Goto, browsers, stopping, Types
    <2> QED BY <1>1, <1>5, <2>2, Aside DEF Goto, Types
<1> QED BY <1>3, <1>4, <1>5 DEF Reuse

LEMMA WatchStep == ASSUME IInv, NEW c \in Callers, Watch(c) PROVE IInv'
<1>1. Types /\ pc[c] = "reused" /\ UNCHANGED <<launcher, browsers, pages, stopping>>
    BY DEF IInv, Watch
<1>2. CASE Leave(c)
    <2>1. Types'
        BY <1>1, <1>2, Ways DEF browsers, pages, stopping, Types
    <2> QED BY <1>1, <1>2, <2>1, Ways, Aside
<1>3. CASE Goto(c, "open") /\ UNCHANGED <<try, gen, permits>>
    <2>1. Types'
        BY <1>1, <1>3 DEF Goto, browsers, pages, stopping, Types
    <2>2. gen[c] \in Generations
        BY <1>1 DEF IInv, OfABrowser
    <2> QED BY <1>1, <1>3, <2>1, <2>2, Aside DEF Goto, Types
<1> QED BY <1>2, <1>3 DEF Watch

LEMMA ParkStep == ASSUME IInv, NEW c \in Callers, NEW k \in Keys, Park(c, k) PROVE IInv'
<1>1. Types /\ pc[c] = "open" /\ Goto(c, "idle")
      /\ try' = [try EXCEPT ![c] = 0] /\ gen' = [gen EXCEPT ![c] = 0]
      /\ UNCHANGED <<launcher, browsers, closes, stopping>>
    BY DEF IInv, Park
<1>2. PICK S \in SUBSET (DOMAIN parked \ {k}) :
          /\ parked' = [l \in S \cup {k} |-> IF l = k THEN gen[c] ELSE parked[l]]
          /\ permits' = Dropped(DOMAIN parked \ S)
    BY DEF Park
<1>3. gen[c] \in Generations
    BY <1>1 DEF IInv, OfABrowser
<1>4. permits' \in Nat
    BY <1>1, <1>2, DroppedPermits
<1>5. DOMAIN parked' \subseteq Keys /\ \A l \in DOMAIN parked' : parked'[l] \in Generations
    BY <1>1, <1>2, <1>3 DEF Types
<1>6. Types'
    BY <1>1, <1>4, <1>5 DEF Goto, browsers, stopping, Types
<1> QED BY <1>1, <1>6, Aside DEF Goto, Types

-----------------------------------------------------------------------------
(* The browsers themselves *)

LEMMA DieStep == ASSUME IInv, NEW g \in Generations, Die(g) PROVE IInv'
<1> USE DEF IInv, IsAlive, IsHealthy, IsShutDown
<1>1. /\ browser' = [browser EXCEPT ![g] = "dead"]
      /\ UNCHANGED <<pc, try, gen, permits, launcher, current, healthy, supervised, retiring, closes,
                     parked, shutdown, taken>>
    BY DEF Die, callers, pages, stopping
<1>2. Types'
    BY <1>1 DEF Types
<1>3. \A h \in Generations : browser'[h] = browser[h] \/ browser'[h] = "dead"
    BY <1>1 DEF Types
<1>4. current # 0 => current \in Generations
    BY DEF Types
<1>5. OneLaunch' /\ NothingRuns' /\ OnItsWay' /\ StateKept' /\ OfABrowser' /\ WasLaunched'
    BY <1>1, <1>3, <1>4 DEF OneLaunch, NothingRuns, OnItsWay, StateKept, OfABrowser, WasLaunched, Types
<1>6. NoneLeftBehind' /\ HealthTells'
    BY <1>1, <1>3, <1>4 DEF NoneLeftBehind, Up, HealthTells
<1> QED BY <1>2, <1>5, <1>6

(* The supervisor of a replaced browser touches neither signal nor state.  *)
LEMMA SuperviseStep == ASSUME IInv, NEW g \in Generations, Supervise(g) PROVE IInv'
<1> USE DEF IInv, IsAlive, IsHealthy, IsShutDown
<1>1. /\ browser[g] # "up" /\ supervised' = supervised \ {g}
      /\ UNCHANGED <<pc, try, gen, permits, launcher, browser, closes, parked, shutdown, taken>>
    BY DEF Supervise, callers, pages, stopping
<1>2. \/ current = g /\ current' = 0 /\ ~healthy' /\ retiring' = retiring \cup {g}
      \/ current # g /\ UNCHANGED <<current, healthy, retiring>>
    BY DEF Supervise, HealthAfter
<1>3. healthy' \in BOOLEAN
    <2>1. CASE current = g
        BY <2>1, Zenon DEF Supervise, HealthAfter
    <2>2. CASE current # g
        BY <2>2, Zenon DEF Supervise, HealthAfter, Types
    <2> QED BY <2>1, <2>2
<1>4. Types'
    <2>1. current' \in 0 .. MaxLaunches /\ retiring' \subseteq Generations
        <3>1. current' = 0 \/ current' = current
            BY <1>2
        <3>2. retiring' \subseteq retiring \cup {g}
            BY <1>2
        <3> QED BY <3>1, <3>2 DEF Types
    <2>2. supervised' \subseteq Generations
        BY <1>1 DEF Types
    <2> HIDE DEF IsAlive, IsHealthy, IsShutDown
    <2> QED BY <1>1, <1>3, <2>1, <2>2 DEF Types
<1>5. OneLaunch' /\ NothingRuns'
    BY <1>1, <1>2 DEF OneLaunch, NothingRuns
<1>6. OnItsWay' /\ StateKept' /\ OfABrowser' /\ WasLaunched'
    BY <1>1, <1>2 DEF OnItsWay, StateKept, OfABrowser, WasLaunched, NothingRuns
<1>7. NoneLeftBehind'
    BY <1>1, <1>2 DEF NoneLeftBehind, Up
<1>8. HealthTells'
    BY <1>1, <1>2 DEF HealthTells
<1> QED BY <1>4, <1>5, <1>6, <1>7, <1>8

LEMMA RetireStep == ASSUME IInv, NEW g \in Generations, Retire(g) PROVE IInv'
<1> USE DEF IInv, IsAlive, IsHealthy, IsShutDown
<1>1. /\ retiring' = retiring \ {g} /\ browser' = [browser EXCEPT ![g] = "dead"]
      /\ UNCHANGED <<pc, try, gen, permits, launcher, current, healthy, supervised, closes, parked,
                     shutdown, taken>>
    BY DEF Retire, callers, pages, stopping
<1>2. Types'
    BY <1>1 DEF Types
<1>3. \A h \in Generations : (browser'[h] = browser[h] /\ h # g) \/ browser'[h] = "dead"
    BY <1>1 DEF Types
<1>4. current # 0 => current \in Generations
    BY DEF Types
<1>5. OneLaunch' /\ NothingRuns' /\ OnItsWay' /\ StateKept' /\ OfABrowser' /\ WasLaunched'
    BY <1>1, <1>3, <1>4 DEF OneLaunch, NothingRuns, OnItsWay, StateKept, OfABrowser, WasLaunched, Types
<1>6. NoneLeftBehind' /\ HealthTells'
    BY <1>1, <1>3, <1>4 DEF NoneLeftBehind, Up, HealthTells
<1> QED BY <1>2, <1>5, <1>6

(* The flag comes first, so whatever the shutdown takes may still work.    *)
LEMMA ShutDownStep == ASSUME IInv, ShutDown PROVE IInv'
<1> USE DEF IInv, IsAlive, IsHealthy, IsShutDown
<1>1. UNCHANGED <<pc, try, gen, permits, launcher, browser, supervised, closes, parked>>
    BY DEF ShutDown, callers, browsers, pages
<1>2. CASE \/ shutdown = "no" /\ shutdown' = "flagged" /\ UNCHANGED <<current, healthy, retiring, taken>>
           \/ shutdown = "flagged" /\ shutdown' = "closed" /\ healthy' = FALSE
              /\ UNCHANGED <<current, retiring, taken>>
           \/ shutdown = "closing" /\ shutdown' = "done" /\ UNCHANGED <<current, healthy, retiring, taken>>
    <2>1. healthy' \in BOOLEAN
        <3>1. UNCHANGED healthy \/ healthy' = FALSE
            BY <1>2
        <3> QED BY <3>1, Zenon DEF Types
    <2>2. Types'
        BY <1>1, <1>2, <2>1 DEF Types
    <2>3. shutdown' # "no" /\ UNCHANGED <<current, retiring>>
        BY <1>2
    <2>4. OneLaunch' /\ NothingRuns' /\ OnItsWay' /\ OfABrowser' /\ WasLaunched'
        BY <1>1, <2>3 DEF OneLaunch, NothingRuns, OnItsWay, OfABrowser, WasLaunched
    <2>5. StateKept'
        BY <1>1, <1>2 DEF StateKept
    <2>6. NoneLeftBehind' /\ HealthTells'
        BY <1>1, <1>2, <2>3 DEF NoneLeftBehind, Up, HealthTells
    <2> QED BY <2>2, <2>4, <2>5, <2>6
<1>3. CASE /\ StateFree /\ shutdown' = "closing" /\ taken' = current /\ current' = 0
           /\ retiring' = retiring \cup ({current} \ {0}) /\ UNCHANGED healthy
    <2>1. current # 0 => current \in Generations
        BY DEF Types
    <2>2. Types'
        BY <1>1, <1>3, <2>1 DEF Types
    <2>3. OneLaunch' /\ NothingRuns'
        BY <1>1, <1>3 DEF OneLaunch, NothingRuns
    <2>4. OnItsWay' /\ StateKept' /\ OfABrowser' /\ WasLaunched'
        BY <1>1, <1>3 DEF OnItsWay, StateKept, StateFree, OfABrowser, WasLaunched, NothingRuns
    <2>5. NoneLeftBehind' /\ HealthTells'
        BY <1>1, <1>3 DEF NoneLeftBehind, Up, HealthTells
    <2> QED BY <2>2, <2>3, <2>4, <2>5
<1> QED BY <1>2, <1>3 DEF ShutDown, browsers

LEMMA Preserved == IInv /\ [Next]_vars => IInv'
<1> SUFFICES ASSUME IInv, [Next]_vars PROVE IInv'
    OBVIOUS
<1>1. ASSUME NEW c \in Callers,
             Acquire(c) \/ Warm(c) \/ Step(c) \/ LockLaunch(c) \/ GiveUp(c) \/ Close(c) \/ DropPage(c)
      PROVE  IInv'
    BY <1>1, AcquireStep, WarmStep, TakePermitStep, FindStep, TakeEndedStep, LaunchStep, LookAtFlagStep,
       InstallStep, OpenStep, WatchStep, LockLaunchStep, GiveUpStep, CloseStep, DropPageStep DEF Step
<1>2. ASSUME NEW c \in Callers, NEW k \in Keys, Reuse(c, k) \/ Park(c, k) PROVE IInv'
    BY <1>2, ReuseStep, ParkStep
<1>3. CASE Expire \/ CloseEnds \/ ShutDown
    BY <1>3, ExpireStep, CloseEndsStep, ShutDownStep
<1>4. ASSUME NEW g \in Generations, Die(g) \/ Supervise(g) \/ Retire(g) PROVE IInv'
    BY <1>4, DieStep, SuperviseStep, RetireStep DEF Generations
<1>5. CASE UNCHANGED vars
    <2>1. Types'
        BY <1>5 DEF vars, callers, browsers, pages, stopping, IInv, Types
    <2> QED BY <1>5, <2>1, SameBrowsers DEF vars, callers, stopping
<1> QED BY <1>1, <1>2, <1>3, <1>4, <1>5 DEF Next

-----------------------------------------------------------------------------
(* The conjunction is inductive.                                           *)
THEOREM Invariance == Spec => []IInv
BY Initially, Preserved, PTL DEF Spec

(* However many fetches, warms and Chromes: every Chrome that runs has     *)
(* somebody who will close it (shutdown_impl, launch_and_install,          *)
(* fail_closed).                                                           *)
THEOREM NoneLeft == Spec => []NoneLeftBehind
<1>1. IInv => NoneLeftBehind
    BY DEF IInv
<1> QED BY <1>1, Invariance, PTL

(* is_healthy tells whether a browser is installed that works, and a late  *)
(* supervisor does not spoil it (mark_unhealthy_if_current).               *)
THEOREM HealthRight == Spec => []HealthTells
<1>1. IInv => HealthTells
    BY DEF IInv
<1> QED BY <1>1, Invariance, PTL

-----------------------------------------------------------------------------
(* The permits *)

(* Who asks for a page counts its tries, and nobody else does. *)
Tries ==
    \A c \in Callers :
        /\ pc[c] = "idle" => try[c] = 0
        /\ pc[c] \in WithPage \cup {"waiting"} => try[c] > 0
Accounted == permits + Cardinality(Holders) + Cardinality(DOMAIN parked) + closes = MaxPages

LEMMA HoldersFinite == IsFiniteSet(Holders) /\ Cardinality(Holders) \in Nat
<1>1. IsFiniteSet(Holders)
    BY FS_Subset, PoolAssumption DEF Holders
<1> QED BY <1>1, FS_CardinalityType

LEMMA ParkedFinite ==
    ASSUME Types PROVE IsFiniteSet(DOMAIN parked) /\ Cardinality(DOMAIN parked) \in Nat
BY DroppedPermits

(* What c alone does to the holders.                                       *)
LEMMA HoldersChange ==
    ASSUME NEW c \in Callers, \A d \in Callers \ {c} : Holds(d)' <=> Holds(d)
    PROVE  /\ (Holds(c)' <=> Holds(c)) => Holders' = Holders
           /\ Holds(c) /\ ~Holds(c)' => Cardinality(Holders') = Cardinality(Holders) - 1
           /\ ~Holds(c) /\ Holds(c)' => Cardinality(Holders') = Cardinality(Holders) + 1
<1>1. (Holds(c)' <=> Holds(c)) => Holders' = Holders
    BY DEF Holders
<1>2. ASSUME Holds(c), ~Holds(c)' PROVE Cardinality(Holders') = Cardinality(Holders) - 1
    <2>1. Holders' = Holders \ {c} /\ c \in Holders
        BY <1>2 DEF Holders
    <2> QED BY <2>1, HoldersFinite, FS_RemoveElement
<1>3. ASSUME ~Holds(c), Holds(c)' PROVE Cardinality(Holders') = Cardinality(Holders) + 1
    <2>1. Holders' = Holders \cup {c} /\ c \notin Holders
        BY <1>3 DEF Holders
    <2> QED BY <2>1, HoldersFinite, FS_AddElement
<1> QED BY <1>1, <1>2, <1>3

LEMMA LeavePermits ==
    ASSUME Types, Tries, NEW c \in Callers, Leave(c)
    PROVE  permits' + Cardinality(Holders') = permits + Cardinality(Holders) /\ Tries'
<1>1. pc' = [pc EXCEPT ![c] = "idle"] /\ try' = [try EXCEPT ![c] = 0]
      /\ permits' = permits + (IF Holds(c) THEN 1 ELSE 0)
    BY DEF Leave, Goto
<1>2. ~Holds(c)' /\ (\A d \in Callers \ {c} : Holds(d)' <=> Holds(d)) /\ Tries'
    BY <1>1 DEF Holds, Tries, Types
<1>3. permits \in Nat /\ Cardinality(Holders) \in Nat
    BY HoldersFinite DEF Types
<1>4. CASE Holds(c)
    <2>1. permits' = permits + 1
        BY <1>1, <1>4
    <2>2. Cardinality(Holders') = Cardinality(Holders) - 1
        BY <1>2, <1>4, HoldersChange
    <2> QED BY <1>2, <1>3, <2>1, <2>2
<1>5. CASE ~Holds(c)
    <2>1. permits' = permits
        BY <1>1, <1>3, <1>5
    <2>2. Holders' = Holders
        BY <1>2, <1>5, HoldersChange
    <2> QED BY <1>2, <2>1, <2>2
<1> QED BY <1>4, <1>5

(* A way out keeps the permit of a call that goes on.                      *)
LEMMA WayOut ==
    ASSUME Types, Tries, Accounted, NEW c \in Callers, UNCHANGED <<closes, parked>>,
           \/ Leave(c)
           \/ pc[c] \notin {"waiting", "idle"} /\ (Fail(c) \/ \E g \in Generations : Found(c, g))
    PROVE  Tries' /\ Accounted'
<1>1. CASE Leave(c)
    BY <1>1, LeavePermits, HoldersFinite, ParkedFinite DEF Accounted, Types
<1>2. ASSUME ~Leave(c) PROVE Tries' /\ Accounted'
    <2>1. /\ permits' = permits
          /\ \/ pc' = [pc EXCEPT ![c] = "trying"] /\ try' = [try EXCEPT ![c] = 2] /\ try[c] = 1
             \/ pc' = [pc EXCEPT ![c] = "opening"] /\ try' = try /\ try[c] # 0
        BY <1>2 DEF Fail, Found, Goto
    <2>2. pc[c] # "waiting"
        BY <1>2
    <2>3. CASE pc' = [pc EXCEPT ![c] = "trying"] /\ try' = [try EXCEPT ![c] = 2] /\ try[c] = 1
        <3>1. \A d \in Callers : Holds(d)' <=> Holds(d)
            BY <2>2, <2>3 DEF Holds, Types
        <3> QED BY <2>1, <2>3, <3>1, HoldersChange DEF Accounted, Tries, Types
    <2>4. CASE pc' = [pc EXCEPT ![c] = "opening"] /\ try' = try /\ try[c] # 0
        <3>1. \A d \in Callers : Holds(d)' <=> Holds(d)
            BY <2>2, <2>4 DEF Holds, Types
        <3> QED BY <2>1, <2>4, <3>1, HoldersChange DEF Accounted, Tries, Types
    <2> QED BY <2>1, <2>3, <2>4
<1> QED BY <1>1, <1>2

(* So does a step from one place to the next.                              *)
LEMMA Onward ==
    ASSUME Types, Tries, Accounted, NEW c \in Callers, UNCHANGED <<try, permits, closes, parked>>,
           NEW p, Goto(c, p), pc[c] # "waiting", p \notin {"idle", "waiting"},
           p \in WithPage => pc[c] \in WithPage
    PROVE  Tries' /\ Accounted'
<1>1. pc' = [pc EXCEPT ![c] = p]
    BY DEF Goto
<1>2. (\A d \in Callers \ {c} : Holds(d)' <=> Holds(d)) /\ (Holds(c)' <=> Holds(c)) /\ Tries'
    BY <1>1 DEF Holds, Tries, Types
<1>3. Holders' = Holders
    BY <1>2, HoldersChange
<1> QED BY <1>2, <1>3 DEF Accounted

(* A call takes or gives up a permit: something else changes by one.       *)
LEMMA Takes ==
    ASSUME Types, Tries, NEW c \in Callers, \A d \in Callers \ {c} : pc'[d] = pc[d] /\ try'[d] = try[d],
           pc'[c] = "idle" => try'[c] = 0, pc'[c] \in WithPage \cup {"waiting"} => try'[c] > 0
    PROVE  /\ Tries'
           /\ Holds(c) /\ ~Holds(c)' => Cardinality(Holders') = Cardinality(Holders) - 1
           /\ ~Holds(c) /\ Holds(c)' => Cardinality(Holders') = Cardinality(Holders) + 1
           /\ ~Holds(c) /\ ~Holds(c)' => Holders' = Holders
<1>1. Tries'
    BY DEF Tries
<1>2. \A d \in Callers \ {c} : Holds(d)' <=> Holds(d)
    BY DEF Holds
<1> QED BY <1>1, <1>2, HoldersChange

LEMMA SessionsDropped ==
    ASSUME Types, NEW S \in SUBSET DOMAIN parked
    PROVE  Cardinality(DOMAIN parked \ S) = Cardinality(DOMAIN parked) - Cardinality(S)
<1>1. DOMAIN parked \cap S = S
    OBVIOUS
<1> QED BY <1>1, ParkedFinite, FS_Difference

LEMMA CallsPermits ==
    ASSUME IInv, Tries, Accounted, NEW c \in Callers,
           Acquire(c) \/ Warm(c) \/ Step(c) \/ LockLaunch(c) \/ GiveUp(c) \/ Close(c) \/ DropPage(c)
    PROVE  Tries' /\ Accounted'
<1> Types /\ (IsAlive => current \in Generations)
    BY DEF IInv, IsAlive, Types
<1> /\ permits \in Nat /\ closes \in Nat
    /\ Cardinality(Holders) \in Nat /\ Cardinality(DOMAIN parked) \in Nat
    BY HoldersFinite, ParkedFinite DEF Types
<1> USE DEF pages
<1>1. CASE Acquire(c)
    <2>1. ~Holds(c)
        BY <1>1 DEF Acquire, Holds, Tries
    <2>2. pc' = [pc EXCEPT ![c] = "waiting"] /\ try' = [try EXCEPT ![c] = 1]
        BY <1>1 DEF Acquire, Goto
    <2>3. ~Holds(c)'
        BY <2>2 DEF Holds, Types
    <2>4. Tries' /\ Holders' = Holders
        BY <2>1, <2>2, <2>3, Takes DEF Types
    <2> QED BY <1>1, <2>4 DEF Acquire, Accounted
<1>2. CASE Warm(c)
    BY <1>2, Onward DEF Warm
<1>3. CASE TakePermit(c)
    <2>1. CASE Leave(c)
        BY <1>3, <2>1, WayOut DEF TakePermit
    <2>2. CASE permits > 0 /\ Goto(c, "trying") /\ permits' = permits - 1 /\ UNCHANGED <<try, gen>>
        <3>1. pc[c] = "waiting" /\ UNCHANGED <<closes, parked>>
            BY <1>3 DEF TakePermit
        <3>2. ~Holds(c) /\ Holds(c)' /\ try[c] > 0
            BY <2>2, <3>1 DEF Goto, Holds, Tries, Types
        <3>3. Tries' /\ Cardinality(Holders') = Cardinality(Holders) + 1
            BY <2>2, <3>2, Takes DEF Goto, Types
        <3> QED BY <2>2, <3>1, <3>3 DEF Accounted
    <2> QED BY <1>3, <2>1, <2>2 DEF TakePermit
<1>4. CASE Find(c)
    <2>1. CASE IsAlive
        BY <1>4, <2>1, WayOut DEF Find
    <2>2. CASE ~IsAlive
        BY <1>4, <2>2, Onward DEF Find
    <2> QED BY <2>1, <2>2
<1>5. CASE TakeEnded(c)
    BY <1>5, Onward DEF TakeEnded
<1>6. CASE Launch(c)
    <2>1. CASE Fail(c)
        BY <1>6, <2>1, WayOut DEF Launch
    <2>2. CASE Goto(c, "launched") /\ UNCHANGED <<try, permits>>
        BY <1>6, <2>2, Onward DEF Launch
    <2> QED BY <1>6, <2>1, <2>2 DEF Launch
<1>7. CASE LookAtFlag(c)
    <2>1. CASE Fail(c)
        BY <1>7, <2>1, WayOut DEF LookAtFlag
    <2>2. CASE Goto(c, "installing") /\ UNCHANGED <<try, permits>>
        BY <1>7, <2>2, Onward DEF LookAtFlag
    <2> QED BY <1>7, <2>1, <2>2 DEF LookAtFlag
<1>13. CASE Install(c)
    <2>1. gen[c] \in Generations
        BY <1>13 DEF IInv, OnItsWay, Install
    <2> QED BY <1>13, <2>1, WayOut DEF Install
<1>8. CASE Open(c)
    <2>1. CASE Fail(c)
        BY <1>8, <2>1, WayOut DEF Open
    <2>2. CASE Goto(c, "open") /\ UNCHANGED <<try, permits>>
        BY <1>8, <2>2, Onward DEF Open
    <2> QED BY <1>8, <2>1, <2>2 DEF Open
<1>9. CASE Watch(c)
    <2>1. CASE Leave(c)
        BY <1>9, <2>1, WayOut DEF Watch
    <2>2. CASE Goto(c, "open") /\ UNCHANGED <<try, permits>>
        BY <1>9, <2>2, Onward DEF Watch
    <2> QED BY <1>9, <2>1, <2>2 DEF Watch
<1>10. CASE LockLaunch(c)
    <2>1. CASE IsAlive
        BY <1>10, <2>1, WayOut DEF LockLaunch
    <2>2. CASE ~IsAlive
        BY <1>10, <2>2, Onward DEF LockLaunch
    <2> QED BY <2>1, <2>2
<1>11. CASE GiveUp(c) \/ Close(c)
    BY <1>11, WayOut DEF GiveUp, Close
<1>12. CASE DropPage(c)
    <2>1. CASE Leave(c) /\ UNCHANGED closes
        BY <1>12, <2>1, WayOut DEF DropPage
    <2>2. CASE closes' = closes + 1 /\ permits' = permits /\ Goto(c, "idle") /\ try' = [try EXCEPT ![c] = 0]
        <3>1. Holds(c) /\ ~Holds(c)' /\ UNCHANGED parked
            BY <1>12, <2>2 DEF DropPage, Goto, Holds, Tries, Types
        <3>2. Tries' /\ Cardinality(Holders') = Cardinality(Holders) - 1
            BY <2>2, <3>1, Takes DEF Goto, Types
        <3> QED BY <2>2, <3>1, <3>2 DEF Accounted
    <2> QED BY <1>12, <2>1, <2>2 DEF DropPage, PermitsAfter
<1> QED BY <1>1, <1>2, <1>3, <1>4, <1>5, <1>6, <1>7, <1>8, <1>9, <1>10, <1>11, <1>12, <1>13 DEF Step

LEMMA SessionsPermits ==
    ASSUME IInv, Tries, Accounted, NEW c \in Callers, NEW k \in Keys, Reuse(c, k) \/ Park(c, k)
    PROVE  Tries' /\ Accounted'
<1> Types
    BY DEF IInv
<1> /\ permits \in Nat /\ closes \in Nat
    /\ Cardinality(Holders) \in Nat /\ Cardinality(DOMAIN parked) \in Nat
    BY HoldersFinite, ParkedFinite DEF Types
<1>1. CASE Reuse(c, k)
    <2>1. ~Holds(c) /\ k \in DOMAIN parked /\ DOMAIN parked' = DOMAIN parked \ {k} /\ UNCHANGED closes
        BY <1>1 DEF Reuse, Holds, Tries
    <2>2. Cardinality(DOMAIN parked') = Cardinality(DOMAIN parked) - 1
        BY <2>1, ParkedFinite, FS_RemoveElement
    <2>3. CASE Goto(c, "reused") /\ try' = [try EXCEPT ![c] = 2] /\ UNCHANGED permits
        <3>1. Holds(c)'
            BY <2>3 DEF Goto, Holds, Types
        <3>2. Tries' /\ Cardinality(Holders') = Cardinality(Holders) + 1
            BY <2>1, <2>3, <3>1, Takes DEF Goto, Types
        <3> QED BY <2>1, <2>2, <2>3, <3>2 DEF Accounted
    <2>4. CASE permits' = Dropped({k}) /\ (UNCHANGED <<pc, try>> \/ (Goto(c, "waiting") /\ try' = [try EXCEPT ![c] = 1]))
        <3>1. permits' = permits + 1
            BY <2>4, FS_Singleton DEF Dropped
        <3>2. Tries' /\ Holders' = Holders
            <4>1. CASE UNCHANGED <<pc, try>>
                BY <4>1 DEF Tries, Holders, Holds
            <4>2. CASE Goto(c, "waiting") /\ try' = [try EXCEPT ![c] = 1]
                <5>1. ~Holds(c)'
                    BY <4>2 DEF Goto, Holds, Types
                <5> QED BY <2>1, <4>2, <5>1, Takes DEF Goto, Types
            <4> QED BY <2>4, <4>1, <4>2
        <3> QED BY <2>1, <2>2, <3>1, <3>2 DEF Accounted
    <2> QED BY <1>1, <2>3, <2>4 DEF Reuse
<1>2. CASE Park(c, k)
    <2>1. Holds(c) /\ UNCHANGED closes /\ Goto(c, "idle") /\ try' = [try EXCEPT ![c] = 0]
        BY <1>2 DEF Park, Holds, Tries
    <2>2. PICK S \in SUBSET (DOMAIN parked \ {k}) :
              DOMAIN parked' = S \cup {k} /\ permits' = Dropped(DOMAIN parked \ S)
        BY <1>2 DEF Park
    <2>3. IsFiniteSet(S) /\ Cardinality(S) \in Nat
        BY DroppedPermits
    <2>4. Cardinality(DOMAIN parked') = Cardinality(S) + 1
        BY <2>2, <2>3, FS_AddElement
    <2>5. permits' = permits + (Cardinality(DOMAIN parked) - Cardinality(S))
        BY <2>2, SessionsDropped DEF Dropped
    <2>6. ~Holds(c)'
        BY <2>1 DEF Goto, Holds, Types
    <2>7. Tries' /\ Cardinality(Holders') = Cardinality(Holders) - 1
        BY <2>1, <2>6, Takes DEF Goto, Types
    <2> QED BY <2>1, <2>3, <2>4, <2>5, <2>7 DEF Accounted
<1> QED BY <1>1, <1>2

LEMMA PermitsKept == IInv /\ Tries /\ Accounted /\ [Next]_vars => Tries' /\ Accounted'
<1> SUFFICES ASSUME IInv, Tries, Accounted, [Next]_vars PROVE Tries' /\ Accounted'
    OBVIOUS
<1> Types
    BY DEF IInv
<1> /\ permits \in Nat /\ closes \in Nat
    /\ Cardinality(Holders) \in Nat /\ Cardinality(DOMAIN parked) \in Nat
    BY HoldersFinite, ParkedFinite DEF Types
<1>1. CASE UNCHANGED <<pc, try, permits, closes, parked>>
    BY <1>1 DEF Tries, Accounted, Holders, Holds
<1>2. CASE CloseEnds
    BY <1>2 DEF CloseEnds, Tries, Accounted, Holders, Holds
<1>3. CASE Expire
    <2>1. PICK S \in SUBSET DOMAIN parked : DOMAIN parked' = DOMAIN parked \ S /\ permits' = Dropped(S)
        BY <1>3 DEF Expire
    <2>2. Cardinality(DOMAIN parked') = Cardinality(DOMAIN parked) - Cardinality(S)
        BY <2>1, SessionsDropped
    <2>3. Cardinality(S) \in Nat /\ permits' = permits + Cardinality(S)
        BY <2>1, DroppedPermits DEF Dropped
    <2>4. Tries' /\ Holders' = Holders /\ UNCHANGED closes
        BY <1>3 DEF Expire, Tries, Holders, Holds
    <2> QED BY <2>2, <2>3, <2>4 DEF Accounted
<1>4. CASE ShutDown \/ \E g \in Generations : Die(g) \/ Supervise(g) \/ Retire(g)
    BY <1>1, <1>4 DEF ShutDown, Die, Supervise, Retire, callers, pages
<1>5. CASE UNCHANGED vars
    BY <1>1, <1>5 DEF vars, callers, pages
<1> QED BY <1>2, <1>3, <1>4, <1>5, CallsPermits, SessionsPermits DEF Next

(* No path loses a permit or makes one: a page is open, opening, parked or *)
(* being closed MaxPages times at most (acquire_page_through, PooledPage,  *)
(* BrowserSessionPool).                                                    *)
THEOREM TypeCorrect == Spec => []TypeOK
<1>1. Init => Tries /\ Accounted
    <2>1. ASSUME Init PROVE Holders = {} /\ DOMAIN parked = {} /\ permits = MaxPages /\ closes = 0 /\ Tries
        BY <2>1 DEF Init, Holders, Holds, Tries
    <2>2. Cardinality({}) = 0
        BY FS_EmptySet
    <2> QED BY <2>1, <2>2 DEF Accounted
<1>2. IInv /\ Accounted => TypeOK
    BY DEF IInv, Accounted, TypeOK
<1> QED BY <1>1, <1>2, PermitsKept, Invariance, PTL DEF Spec
=============================================================================
