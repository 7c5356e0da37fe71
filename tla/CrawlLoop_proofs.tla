-------------------------- MODULE CrawlLoop_proofs --------------------------
(***************************************************************************)
(* Proofs about CrawlLoop for every site, every bound and every switch:    *)
(* type correctness, that a page is reported once, and, when no task       *)
(* panics, that entries in flight are running and the loop implements      *)
(* CrawlWork.                                                              *)
(***************************************************************************)
EXTENDS CrawlLoop, TLAPS

Over == pc \in {"spill", "done"}

(* Where entries are: in one place at a time, settled ones in none.  A     *)
(* panicked entry alone stays in flight although it was counted.           *)
Whereabouts ==
    /\ frontier \cap window = {} /\ frontier \cap inFlight = {} /\ window \cap inFlight = {}
    /\ page \notin frontier \cup window \cup inFlight
    /\ frontier \cup window \cup inFlight \subseteq discovered
    /\ candidates \cap discovered = {}
    /\ \A u \in Urls : fate[u] # "none" => u \in discovered
    /\ page # NoUrl => page \in discovered /\ fate[page] = "none" /\ hop[page] = "none"
    /\ \A u \in Urls : fate[u] \notin {"none", "crashed"} =>
           u \notin frontier \cup window \cup inFlight
    /\ \A u \in Urls : hop[u] # "none" => u \in inFlight /\ fate[u] = "none"
    /\ ~Over => \A u \in frontier \cup window : fate[u] = "none"

(* An entry that was never taken up has not left its own address. *)
Fresh ==
    ~Over => \A u \in Urls : u \notin inFlight /\ u # page /\ fate[u] = "none" => cursor[u] = u

(* The keys held for an entry: its own from the moment its link is claimed, *)
(* and those its redirect chain claimed.                                    *)
Held(u) == chain[u] \cup {k \in Keys : u \in discovered \cup candidates /\ k = KeyOf[u]}

HeldIsSeen == \A u \in Urls : Held(u) \subseteq seen
HeldOnce == \A u, v \in Urls : u # v => Held(u) \cap Held(v) = {}

(* A chain holds its start, and the address it fetches, delivers or has    *)
(* delivered.                                                              *)
Arrived(u) ==
    \/ hop[u] \in {"ready", "turn", "fetch", "landed", "waiting", "fetched", "extract"}
    \/ page = u
    \/ fate[u] = "page"
ChainHolds ==
    /\ \A u \in Urls : hop[u] # "none" => KeyOf[u] \in chain[u]
    /\ \A u \in Urls : Arrived(u) => KeyOf[cursor[u]] \in chain[u]

IInv == TypeOK /\ Whereabouts /\ Fresh /\ HeldIsSeen /\ HeldOnce /\ ChainHolds

-----------------------------------------------------------------------------
LEMMA Initially == Init => IInv
<1> SUFFICES ASSUME Init PROVE IInv
    OBVIOUS
<1>1. TypeOK
  <2>1. /\ Seed \in Urls /\ KeyOf[Seed] \in Keys
        /\ \A u \in Urls : u # NoUrl
    BY UrlAssumption, GraphAssumption
  <2>2. /\ frontier \in SUBSET Urls /\ seen \in SUBSET Keys /\ discovered \in SUBSET Urls
        /\ window \in SUBSET Urls /\ inFlight \in SUBSET Urls
        /\ links \in SUBSET Urls /\ candidates \in SUBSET Urls
    BY <2>1 DEF Init
  <2>3. /\ mayHave \in BOOLEAN /\ hostAware \in BOOLEAN /\ drainConfirmed \in BOOLEAN
        /\ cancelled \in BOOLEAN /\ preloaded \in BOOLEAN /\ gone \in BOOLEAN
    BY DEF Init
  <2>4. /\ hop \in [Urls -> Phases] /\ cursor \in [Urls -> Urls]
        /\ visited \in [Urls -> SUBSET Urls] /\ chain \in [Urls -> SUBSET Keys]
        /\ fate \in [Urls -> Fates]
    <3>1. "none" \in Phases /\ "none" \in Fates
      BY DEF Phases, Fates
    <3> QED BY <3>1 DEF Init
  <2>5. ending \in Endings /\ pc = "head" /\ page = NoUrl /\ links \cup candidates = {}
    BY DEF Init, Endings
  <2> QED BY <2>2, <2>3, <2>4, <2>5 DEF TypeOK
<1>2. Whereabouts /\ Fresh /\ ChainHolds
    BY UrlAssumption DEF Init, Whereabouts, Fresh, ChainHolds, Arrived, Over
<1>3. HeldIsSeen /\ HeldOnce
    BY UrlAssumption DEF Init, HeldIsSeen, HeldOnce, Held
<1> QED BY <1>1, <1>2, <1>3 DEF IInv

(* Steps that move the loop on and touch no entry. *)
LEMMA ControlStep ==
    ASSUME IInv, UNCHANGED <<front, window, inFlight, pending, hops, fate>>, Over => Over'
    PROVE  Whereabouts' /\ Fresh' /\ HeldIsSeen' /\ HeldOnce' /\ ChainHolds'
BY DEF IInv, Whereabouts, Fresh, HeldIsSeen, HeldOnce, ChainHolds, Held, Arrived,
       front, pending, hops

Control == \/ LoopHead \/ SpawnFull \/ SpawnLegacyBound \/ RefillNotNeeded \/ RefillFails
           \/ AdmitNothing \/ AskFrontierAgain \/ AskFrontierFails \/ Drained \/ SelectReceiverClosed \/ LoopTail
           \/ Finish

LEMMA ControlInv == ASSUME IInv, Control PROVE IInv'
<1>1. /\ UNCHANGED <<front, window, inFlight, pending, hops, fate>>
      /\ Over => Over'
    BY DEF Control, LoopHead, SpawnFull, SpawnLegacyBound, RefillNotNeeded, RefillFails, AdmitNothing,
           AskFrontierAgain, AskFrontierFails, Drained, SelectReceiverClosed, LoopTail, Finish,
           Raise, EndPass, Over, MayAdmit
<1>2. /\ mayHave' \in BOOLEAN /\ hostAware' \in BOOLEAN /\ drainConfirmed' \in BOOLEAN
      /\ cancelled' \in BOOLEAN /\ preloaded' \in BOOLEAN /\ gone' \in BOOLEAN
    BY DEF Control, LoopHead, SpawnFull, SpawnLegacyBound, RefillNotNeeded, RefillFails, AdmitNothing,
           AskFrontierAgain, AskFrontierFails, Drained, SelectReceiverClosed, LoopTail, Finish,
           Raise, EndPass, MayAdmit, IInv, TypeOK, flags
<1>3. /\ ending' \in Endings
      /\ pc' \in {"head", "spawn", "admit", "select", "exit", "done"}
      /\ pc \notin {"claim", "deliver"}
    BY DEF Control, LoopHead, SpawnFull, SpawnLegacyBound, RefillNotNeeded, RefillFails, AdmitNothing,
           AskFrontierAgain, AskFrontierFails, Drained, SelectReceiverClosed, LoopTail, Finish,
           Raise, EndPass, MayAdmit, IInv, TypeOK, Endings
<1>4. TypeOK'
    BY <1>1, <1>2, <1>3 DEF IInv, TypeOK, front, pending, hops
<1> QED BY <1>1, <1>4, ControlStep DEF IInv

LEMMA DropReceiverInv == ASSUME IInv, DropReceiver PROVE IInv'
<1>1. TypeOK'
    BY DEF IInv, TypeOK, DropReceiver, front, pending, hops, flags
<1>2. UNCHANGED <<front, window, inFlight, pending, hops, fate>> /\ (Over => Over')
    BY DEF DropReceiver, Over
<1> QED BY <1>1, <1>2, ControlStep DEF IInv

-----------------------------------------------------------------------------
(* Steps of the spawn pass *)

LEMMA SpawnBacklogInv == ASSUME IInv, SpawnBacklog PROVE IInv'
<1> PICK u \in PrepareBacklog :
        /\ pc = "spawn" /\ hop' = [hop EXCEPT ![u] = "prepare"]
        /\ UNCHANGED <<front, pc, window, inFlight, flags, cancelled, preloaded, ending, pending,
                       cursor, visited, chain, fate, gone>>
    BY DEF SpawnBacklog, SetHop
<1>1. u \in Urls /\ hop[u] = "backlog"
    BY DEF PrepareBacklog, InPhase
<1>2. TypeOK'
    BY <1>1 DEF IInv, TypeOK, Phases, Running, front, flags, pending
<1>3. Whereabouts' /\ Fresh'
    BY <1>1 DEF IInv, TypeOK, Whereabouts, Fresh, Over, front, pending
<1>4. HeldIsSeen' /\ HeldOnce'
    BY DEF IInv, HeldIsSeen, HeldOnce, Held, front, pending
<1>5. ChainHolds'
    BY <1>1 DEF IInv, TypeOK, ChainHolds, Arrived, pending
<1> QED BY <1>2, <1>3, <1>4, <1>5 DEF IInv

(* A turn granted in the spawn pass or in the select. *)
LEMMA GrantInv ==
    ASSUME IInv, NEW u \in Urls, Grant(u), pc' \in {"spawn", "tail"}, pc \in {"spawn", "select"},
           UNCHANGED <<front, window, inFlight, flags, cancelled, preloaded, ending, pending,
                       cursor, visited, chain, fate, gone>>
    PROVE  IInv'
<1>1. hop[u] = "turn" /\ \E p \in {"fetch", "failed"} : hop' = [hop EXCEPT ![u] = p]
    BY DEF Grant, HostTurns, InPhase, SetHop
<1>2. TypeOK'
    BY <1>1 DEF IInv, TypeOK, Phases, Running, Finished, front, flags, pending
<1>3. Whereabouts' /\ Fresh'
    BY <1>1 DEF IInv, TypeOK, Whereabouts, Fresh, Over, front, pending
<1>4. HeldIsSeen' /\ HeldOnce'
    BY DEF IInv, HeldIsSeen, HeldOnce, Held, front, pending
<1>5. ChainHolds'
    BY <1>1 DEF IInv, TypeOK, ChainHolds, Arrived, pending
<1> QED BY <1>2, <1>3, <1>4, <1>5 DEF IInv

LEMMA RefillInv == ASSUME IInv, Refill PROVE IInv'
<1> PICK popped \in SUBSET Eligible :
        /\ frontier' = frontier \ popped
        /\ window' = window \cup popped
        /\ mayHave' = (Cardinality(popped) = MaxConcurrent - Cardinality(window))
        /\ pc = "spawn" /\ pc' = "admit" /\ hostAware' = HostAware
        /\ UNCHANGED <<seen, discovered, inFlight, drainConfirmed, cancelled, preloaded, ending,
                       pending, hops, fate, gone>>
    BY DEF Refill, MayAdmit
<1>1. popped \subseteq frontier
    BY DEF Eligible
<1>2. TypeOK'
    BY <1>1, SwitchAssumption DEF IInv, TypeOK, pending, hops
<1>3. Whereabouts' /\ Fresh'
    BY <1>1 DEF IInv, TypeOK, Whereabouts, Fresh, Over, pending, hops
<1>4. HeldIsSeen' /\ HeldOnce'
    BY DEF IInv, HeldIsSeen, HeldOnce, Held, pending, hops
<1>5. ChainHolds'
    BY DEF IInv, ChainHolds, Arrived, pending, hops
<1> QED BY <1>2, <1>3, <1>4, <1>5 DEF IInv

LEMMA AdmitRejectsInv == ASSUME IInv, AdmitRejects PROVE IInv'
<1> PICK u \in Selectable :
        /\ pc = "admit" /\ pc' = "spawn" /\ window' = window \ {u}
        /\ fate' = [fate EXCEPT ![u] = "filtered"]
        /\ UNCHANGED <<front, inFlight, flags, cancelled, preloaded, ending, pending, hops, gone>>
    BY DEF AdmitRejects, SetFate
<1>1. u \in window
    BY DEF Selectable
<1>2. TypeOK'
    BY <1>1 DEF IInv, TypeOK, Fates, front, flags, pending, hops
<1>3. Whereabouts' /\ Fresh'
    BY <1>1 DEF IInv, TypeOK, Whereabouts, Fresh, Over, front, pending, hops
<1>4. HeldIsSeen' /\ HeldOnce'
    BY DEF IInv, HeldIsSeen, HeldOnce, Held, front, pending, hops
<1>5. ChainHolds'
    BY <1>1 DEF IInv, TypeOK, ChainHolds, Arrived, pending, hops
<1> QED BY <1>2, <1>3, <1>4, <1>5 DEF IInv

LEMMA AdmitInv == ASSUME IInv, Admit PROVE IInv'
<1> PICK u \in Selectable :
        /\ pc = "admit" /\ pc' = "spawn"
        /\ window' = window \ {u} /\ inFlight' = inFlight \cup {u}
        /\ IF preloaded /\ u = Seed THEN SetHop(u, "extract") ELSE SetHop(u, "prepare")
        /\ preloaded' = (preloaded /\ u # Seed)
        /\ chain' = [chain EXCEPT ![u] = {KeyOf[u]}]
        /\ UNCHANGED <<front, flags, cancelled, ending, pending, cursor, visited, fate, gone>>
    BY DEF Admit
<1>1. u \in window /\ u \in Urls /\ u \in discovered
    BY DEF Selectable, IInv, TypeOK, Whereabouts
<1>2. \E p \in {"extract", "prepare"} : hop' = [hop EXCEPT ![u] = p]
    BY DEF SetHop
<1>3. KeyOf[u] \in Keys
    BY <1>1, GraphAssumption
<1>4. TypeOK'
    BY <1>1, <1>2, <1>3 DEF IInv, TypeOK, Phases, Running, front, flags, pending
<1>5. Whereabouts' /\ Fresh'
    BY <1>1, <1>2 DEF IInv, TypeOK, Whereabouts, Fresh, Over, front, pending
<1>6. cursor[u] = u
    BY <1>1 DEF IInv, Whereabouts, Fresh, Over, TypeOK
<1>7. \A v \in Urls : Held(v)' \subseteq Held(v)
    BY <1>1, <1>3 DEF IInv, TypeOK, Held, front, pending
<1>8. HeldIsSeen' /\ HeldOnce'
    BY <1>7 DEF IInv, HeldIsSeen, HeldOnce, front
<1>9. ChainHolds'
    BY <1>1, <1>2, <1>6 DEF IInv, TypeOK, ChainHolds, Arrived, pending
<1> QED BY <1>4, <1>5, <1>8, <1>9 DEF IInv

-----------------------------------------------------------------------------
(* The tasks *)

LEMMA ClaimsHopHeld ==
    ASSUME IInv, NEW u \in Urls, NEW v \in Urls, NEW ok, ClaimsHop(u, v, ok),
           UNCHANGED <<discovered, candidates>>
    PROVE  /\ seen' \in SUBSET Keys /\ chain' \in [Urls -> SUBSET Keys]
           /\ \A w \in Urls : chain[w] \subseteq chain'[w]
           /\ ok => KeyOf[v] \in chain'[u]
           /\ HeldIsSeen' /\ HeldOnce'
<1>1. KeyOf[v] \in Keys
    BY GraphAssumption
<1>2. CASE KeyOf[v] \in chain[u]
    BY <1>2 DEF ClaimsHop, IInv, TypeOK, HeldIsSeen, HeldOnce, Held
<1>3. CASE KeyOf[v] \notin chain[u] /\ ~ok
    BY <1>1, <1>3 DEF ClaimsHop, IInv, TypeOK, HeldIsSeen, HeldOnce, Held
<1>4. CASE KeyOf[v] \notin chain[u] /\ ok
  <2>1. /\ KeyOf[v] \notin seen /\ seen' = seen \cup {KeyOf[v]}
        /\ chain' = [chain EXCEPT ![u] = @ \cup {KeyOf[v]}]
    BY <1>4 DEF ClaimsHop
  <2>2. /\ \A w \in Urls \ {u} : Held(w)' = Held(w)
        /\ Held(u)' = Held(u) \cup {KeyOf[v]}
    BY <2>1 DEF IInv, TypeOK, Held
  <2>3. HeldIsSeen'
    BY <2>1, <2>2 DEF IInv, HeldIsSeen
  <2>4. HeldOnce'
    BY <2>1, <2>2 DEF IInv, HeldIsSeen, HeldOnce
  <2> QED BY <1>1, <2>1, <2>3, <2>4 DEF IInv, TypeOK
<1> QED BY <1>2, <1>3, <1>4

LEMMA AdmitsHopHeld ==
    ASSUME IInv, NEW u \in Urls, NEW v \in Urls, NEW granted \in {"ready", "landed"},
           AdmitsHop(u, v, granted), UNCHANGED <<discovered, candidates>>
    PROVE  /\ seen' \in SUBSET Keys /\ chain' \in [Urls -> SUBSET Keys]
           /\ \A w \in Urls : chain[w] \subseteq chain'[w]
           /\ HeldIsSeen' /\ HeldOnce'
           /\ \E p \in {granted, "failed", "refused"} :
                  SetHop(u, p) /\ (p = granted => KeyOf[v] \in chain'[u])
<1>1. CASE \E ok \in BOOLEAN : ClaimsHop(u, v, ok) /\
                (SetHop(u, IF ok THEN granted ELSE "refused") \/ SetHop(u, "failed"))
  <2> PICK ok \in BOOLEAN : ClaimsHop(u, v, ok) /\
                (SetHop(u, IF ok THEN granted ELSE "refused") \/ SetHop(u, "failed"))
    BY <1>1
  <2>1. /\ seen' \in SUBSET Keys /\ chain' \in [Urls -> SUBSET Keys]
        /\ \A w \in Urls : chain[w] \subseteq chain'[w]
        /\ ok => KeyOf[v] \in chain'[u]
        /\ HeldIsSeen' /\ HeldOnce'
    BY ClaimsHopHeld
  <2> QED BY <2>1
<1>2. CASE seen' = seen \cup {KeyOf[v]} /\ UNCHANGED chain /\ SetHop(u, "failed")
  <2>1. KeyOf[v] \in Keys
    BY GraphAssumption
  <2>2. seen' \in SUBSET Keys /\ chain' \in [Urls -> SUBSET Keys]
    BY <1>2, <2>1 DEF IInv, TypeOK
  <2>3. HeldIsSeen' /\ HeldOnce'
    BY <1>2 DEF IInv, HeldIsSeen, HeldOnce, Held
  <2> QED BY <1>2, <2>2, <2>3
<1> QED BY <1>1, <1>2 DEF AdmitsHop

(* A task's step that leaves its entry at an address its chain holds, or   *)
(* on its way to be prepared, counted or refused.                          *)
LEMMA TaskStepInv ==
    ASSUME IInv, NEW u \in Urls, TaskStep, hop[u] \in Running,
           NEW p \in Phases \ {"none"}, hop' = [hop EXCEPT ![u] = p],
           cursor' \in [Urls -> Urls], visited' \in [Urls -> SUBSET Urls],
           \A w \in Urls \ {u} : cursor'[w] = cursor[w],
           seen' \in SUBSET Keys, chain' \in [Urls -> SUBSET Keys],
           \A w \in Urls : chain[w] \subseteq chain'[w],
           HeldIsSeen', HeldOnce',
           p \in {"ready", "landed", "fetched", "waiting"} => KeyOf[cursor'[u]] \in chain'[u],
           p \notin {"turn", "fetch", "extract"}
    PROVE  IInv'
<1>1. hop[u] # "none" /\ u \in inFlight /\ fate[u] = "none" /\ page # u
    BY UrlAssumption DEF Running, IInv, TypeOK, Whereabouts
<1>2. TypeOK'
    BY DEF IInv, TypeOK, TaskStep, flags, pending
<1>3. Whereabouts' /\ Fresh'
    BY <1>1 DEF IInv, TypeOK, Whereabouts, Fresh, Over, TaskStep, pending
<1>4. ChainHolds'
  <2>1. \A w \in Urls : hop'[w] # "none" => KeyOf[w] \in chain'[w]
    BY <1>1 DEF IInv, TypeOK, ChainHolds
  <2>2. Arrived(u)' => KeyOf[cursor'[u]] \in chain'[u]
    BY <1>1 DEF IInv, TypeOK, Arrived, TaskStep, pending
  <2>3. \A w \in Urls \ {u} : Arrived(w)' => KeyOf[cursor'[w]] \in chain'[w]
    BY DEF IInv, TypeOK, ChainHolds, Arrived, TaskStep, pending
  <2> QED BY <2>1, <2>2, <2>3 DEF ChainHolds
<1> QED BY <1>2, <1>3, <1>4 DEF IInv

(* The chain and the frontier's keys untouched. *)
LEMMA UnclaimedHeld ==
    ASSUME IInv, UNCHANGED <<seen, chain, discovered, candidates>>
    PROVE  /\ seen' \in SUBSET Keys /\ chain' \in [Urls -> SUBSET Keys]
           /\ \A w \in Urls : chain[w] \subseteq chain'[w]
           /\ HeldIsSeen' /\ HeldOnce'
BY DEF IInv, TypeOK, HeldIsSeen, HeldOnce, Held

LEMMA PrepareInv == ASSUME IInv, NEW u \in Urls, Prepare(u) PROVE IInv'
<1>1. /\ hop[u] = "prepare" /\ TaskStep /\ UNCHANGED <<cursor, visited>>
      /\ UNCHANGED <<discovered, candidates>> /\ cursor[u] \in Urls
      /\ cursor' \in [Urls -> Urls] /\ visited' \in [Urls -> SUBSET Urls]
    BY DEF Prepare, TaskStep, pending, IInv, TypeOK
<1>2. CASE UNCHANGED <<seen, chain>> /\ \E p \in {"refused", "failed"} : SetHop(u, p)
    BY <1>1, <1>2, UnclaimedHeld, TaskStepInv DEF SetHop, Phases, Running, Finished
<1>3. CASE UNCHANGED <<seen, chain>> /\ cursor[u] = u /\ SetHop(u, "ready")
  <2>1. KeyOf[cursor'[u]] \in chain'[u]
    BY <1>1, <1>3 DEF IInv, ChainHolds
  <2> QED BY <1>1, <1>3, <2>1, UnclaimedHeld, TaskStepInv DEF SetHop, Phases, Running, Finished
<1>4. CASE AdmitsHop(u, cursor[u], "ready")
  <2>1. /\ seen' \in SUBSET Keys /\ chain' \in [Urls -> SUBSET Keys]
        /\ \A w \in Urls : chain[w] \subseteq chain'[w]
        /\ HeldIsSeen' /\ HeldOnce'
        /\ \E p \in {"ready", "failed", "refused"} :
              SetHop(u, p) /\ (p = "ready" => KeyOf[cursor[u]] \in chain'[u])
    BY <1>1, <1>4, AdmitsHopHeld
  <2> QED BY <1>1, <2>1, TaskStepInv DEF SetHop, Phases, Running, Finished
<1> QED BY <1>2, <1>3, <1>4 DEF Prepare

LEMMA AdvanceTypes ==
    ASSUME IInv, NEW u \in Urls, NEW v \in Urls, Advance(u, v)
    PROVE  /\ cursor' \in [Urls -> Urls] /\ visited' \in [Urls -> SUBSET Urls] /\ cursor'[u] = v
           /\ \A w \in Urls \ {u} : cursor'[w] = cursor[w]
BY DEF IInv, TypeOK, Advance

LEMMA AnsweredInv ==
    ASSUME IInv, NEW u \in Urls, hop[u] \in {"fetch", "landed"}, TaskStep,
           \/ Answered(u)
           \/ SetHop(u, "waiting") /\ UNCHANGED <<seen, chain, cursor, visited>>
    PROVE  IInv'
<1>1. /\ UNCHANGED <<discovered, candidates>> /\ KeyOf[cursor[u]] \in chain[u]
      /\ hop[u] \in Running
    BY DEF TaskStep, pending, IInv, ChainHolds, Arrived, Running
<1>2. CASE /\ UNCHANGED <<seen, chain, cursor, visited>>
           /\ \E p \in {"fetched", "failed", "waiting"} : SetHop(u, p)
  <2>1. cursor' \in [Urls -> Urls] /\ visited' \in [Urls -> SUBSET Urls]
    BY <1>2 DEF IInv, TypeOK
  <2> QED BY <1>1, <1>2, <2>1, UnclaimedHeld, TaskStepInv DEF SetHop, Phases, Running, Finished
<1>3. CASE \E v \in Urls : Advance(u, v) /\ SetHop(u, "continue") /\ UNCHANGED <<seen, chain>>
  <2>1. /\ cursor' \in [Urls -> Urls] /\ visited' \in [Urls -> SUBSET Urls]
        /\ \A w \in Urls \ {u} : cursor'[w] = cursor[w]
    BY <1>3, AdvanceTypes
  <2> QED BY <1>1, <1>3, <2>1, UnclaimedHeld, TaskStepInv DEF SetHop, Phases, Running, Finished
<1> QED BY <1>2, <1>3 DEF Answered

LEMMA FetchInv == ASSUME IInv, NEW u \in Urls, Fetch(u) \/ Landed(u) PROVE IInv'
<1>1. TaskStep /\ hop[u] \in {"fetch", "landed"}
    BY DEF Fetch, Landed
<1>2. CASE \E v \in Urls : Advance(u, v) /\ AdmitsHop(u, v, "landed")
  <2> PICK v \in Urls : Advance(u, v) /\ AdmitsHop(u, v, "landed")
    BY <1>2
  <2>1. UNCHANGED <<discovered, candidates>> /\ hop[u] \in Running
    BY <1>1 DEF TaskStep, pending, Running
  <2>2. /\ cursor' \in [Urls -> Urls] /\ visited' \in [Urls -> SUBSET Urls] /\ cursor'[u] = v
        /\ \A w \in Urls \ {u} : cursor'[w] = cursor[w]
    BY AdvanceTypes
  <2>3. /\ seen' \in SUBSET Keys /\ chain' \in [Urls -> SUBSET Keys]
        /\ \A w \in Urls : chain[w] \subseteq chain'[w]
        /\ HeldIsSeen' /\ HeldOnce'
        /\ \E p \in {"landed", "failed", "refused"} :
              SetHop(u, p) /\ (p = "landed" => KeyOf[v] \in chain'[u])
    BY <2>1, AdmitsHopHeld
  <2> QED BY <1>1, <2>1, <2>2, <2>3, TaskStepInv DEF SetHop, Phases, Running, Finished
<1>3. CASE \E v \in Urls : Advance(u, v) /\ SetHop(u, "refused") /\ UNCHANGED <<seen, chain>>
  <2>1. UNCHANGED <<discovered, candidates>> /\ hop[u] \in Running
    BY <1>1 DEF TaskStep, pending, Running
  <2>2. /\ cursor' \in [Urls -> Urls] /\ visited' \in [Urls -> SUBSET Urls]
        /\ \A w \in Urls \ {u} : cursor'[w] = cursor[w]
    BY <1>3, AdvanceTypes
  <2> QED BY <1>1, <1>3, <2>1, <2>2, UnclaimedHeld, TaskStepInv DEF SetHop, Phases, Running, Finished
<1> QED BY <1>1, <1>2, <1>3, AnsweredInv DEF Fetch, Landed

LEMMA ExtractPanicInv == ASSUME IInv, NEW u \in Urls, Extract(u) \/ Panic(u) PROVE IInv'
<1>1. /\ hop[u] \in Running /\ TaskStep /\ UNCHANGED <<seen, chain, cursor, visited>>
      /\ UNCHANGED <<discovered, candidates>>
      /\ cursor' \in [Urls -> Urls] /\ visited' \in [Urls -> SUBSET Urls]
    BY DEF Extract, Panic, Running, TaskStep, pending, IInv, TypeOK
<1>2. \/ \E p \in {"failed", "panicked"} : SetHop(u, p)
      \/ hop[u] = "extract" /\ SetHop(u, "fetched")
    BY DEF Extract, Panic
<1>3. hop[u] = "extract" => KeyOf[cursor[u]] \in chain[u]
    BY DEF IInv, ChainHolds, Arrived
<1> QED BY <1>1, <1>2, <1>3, UnclaimedHeld, TaskStepInv DEF SetHop, Phases, Running, Finished

-----------------------------------------------------------------------------
(* Folding results back in *)

LEMMA SelectInv == ASSUME IInv, SpawnGranted \/ SelectTurn PROVE IInv'
<1> PICK u \in Urls :
        /\ pc \in {"spawn", "select"} /\ pc' \in {"spawn", "tail"}
        /\ Grant(u)
        /\ UNCHANGED <<front, window, inFlight, flags, cancelled, preloaded, ending, pending,
                       cursor, visited, chain, fate, gone>>
    BY DEF SpawnGranted, SelectTurn
<1> QED BY GrantInv

LEMMA AbsorbHopInv == ASSUME IInv, AbsorbHop PROVE IInv'
<1> PICK u \in Urls :
        /\ \/ hop[u] \in {"ready", "waiting"} /\ SetHop(u, "turn")
           \/ hop[u] = "continue" /\ SetHop(u, "backlog")
        /\ pc = "select" /\ pc' = "tail"
        /\ UNCHANGED <<front, window, inFlight, flags, cancelled, preloaded, ending, pending, cursor,
                       visited, chain, fate, gone>>
    BY DEF AbsorbHop
<1>1. TypeOK'
    BY DEF IInv, TypeOK, SetHop, Phases, front, flags, pending
<1>2. Whereabouts' /\ Fresh'
    BY DEF IInv, TypeOK, SetHop, Whereabouts, Fresh, Over, front, pending
<1>3. HeldIsSeen' /\ HeldOnce'
    BY DEF IInv, HeldIsSeen, HeldOnce, Held, front, pending
<1>4. ChainHolds'
    BY DEF IInv, TypeOK, SetHop, ChainHolds, Arrived, pending
<1> QED BY <1>1, <1>2, <1>3, <1>4 DEF IInv

(* An entry leaves its task without a page. *)
LEMMA AbsorbEndInv == ASSUME IInv, AbsorbEnd \/ AbsorbFailedPage PROVE IInv'
<1> PICK u \in Urls, f \in {"filtered", "failed", "crashed"} :
        /\ pc = "select" /\ pc' = "tail" /\ hop[u] # "none"
        /\ hop' = [hop EXCEPT ![u] = "none"] /\ fate' = [fate EXCEPT ![u] = f]
        /\ IF f = "crashed" THEN UNCHANGED inFlight ELSE inFlight' = inFlight \ {u}
        /\ UNCHANGED <<front, window, flags, cancelled, preloaded, ending, pending, cursor,
                       visited, chain, gone>>
    BY DEF AbsorbEnd, AbsorbFailedPage, SetHop, SetFate, InPhase
<1>1. TypeOK'
    BY DEF IInv, TypeOK, Phases, Fates, front, flags, pending
<1>2. Whereabouts' /\ Fresh'
    BY DEF IInv, TypeOK, Whereabouts, Fresh, Over, front, pending
<1>3. HeldIsSeen' /\ HeldOnce'
    BY DEF IInv, HeldIsSeen, HeldOnce, Held, front, pending
<1>4. ChainHolds'
    BY DEF IInv, TypeOK, ChainHolds, Arrived, pending
<1> QED BY <1>1, <1>2, <1>3, <1>4 DEF IInv

LEMMA AbsorbPageInv == ASSUME IInv, AbsorbPage PROVE IInv'
<1> PICK u \in InPhase({"fetched"}) :
        /\ pc = "select" /\ pc' = "claim"
        /\ hop' = [hop EXCEPT ![u] = "none"] /\ inFlight' = inFlight \ {u}
        /\ page' = u /\ links' \in SUBSET Links[cursor[u]] /\ candidates' = {}
        /\ UNCHANGED <<front, window, flags, cancelled, preloaded, ending, cursor, visited, chain,
                       fate, gone>>
    BY DEF AbsorbPage, SetHop
<1>1. u \in Urls /\ hop[u] = "fetched" /\ u # NoUrl /\ page = NoUrl /\ candidates = {}
    BY UrlAssumption DEF InPhase, IInv, TypeOK
<1>2. links' \in SUBSET Urls
  <2>1. cursor[u] \in Urls
    BY <1>1 DEF IInv, TypeOK
  <2>2. Links[cursor[u]] \in SUBSET Urls
    BY <2>1, GraphAssumption
  <2> QED BY <2>2
<1>3. TypeOK'
    BY <1>1, <1>2 DEF IInv, TypeOK, Phases, front, flags
<1>4. Whereabouts' /\ Fresh'
  <2>1. /\ u \in inFlight /\ fate[u] = "none" /\ u \in discovered
        /\ u \notin frontier /\ u \notin window
    BY <1>1 DEF IInv, Whereabouts
  <2>2. hop'[u] = "none" /\ \A w \in Urls \ {u} : hop'[w] = hop[w]
    BY <1>1 DEF IInv, TypeOK
  <2>3. Whereabouts'
    BY <1>1, <2>1, <2>2 DEF IInv, Whereabouts, Over, front
  <2>4. Fresh'
    BY <1>1, <2>1, UrlAssumption DEF IInv, Fresh, Over, front
  <2> QED BY <2>3, <2>4
<1>5. HeldIsSeen' /\ HeldOnce'
    BY <1>1 DEF IInv, HeldIsSeen, HeldOnce, Held, front
<1>6. ChainHolds'
    BY <1>1 DEF IInv, TypeOK, ChainHolds, Arrived
<1> QED BY <1>3, <1>4, <1>5, <1>6 DEF IInv

(* A link claimed becomes the holder of its key, which nobody held. *)
LEMMA ClaimLinkInv == ASSUME IInv, ClaimLink PROVE IInv'
<1> PICK l \in links :
        /\ pc = "claim"
        /\ links' = links \ {l}
        /\ candidates' = IF KeyOf[l] \in seen THEN candidates ELSE candidates \cup {l}
        /\ seen' = seen \cup {KeyOf[l]}
        /\ UNCHANGED <<frontier, discovered, pc, window, inFlight, flags, cancelled, preloaded,
                       ending, page, hops, fate, gone>>
    BY DEF ClaimLink
<1>1. l \in Urls /\ KeyOf[l] \in Keys
    BY GraphAssumption DEF IInv, TypeOK
<1>2. TypeOK'
    BY <1>1 DEF IInv, TypeOK, flags, hops
<1>3. KeyOf[l] \notin seen => l \notin discovered
    BY <1>1 DEF IInv, HeldIsSeen, Held
<1>4. Whereabouts' /\ Fresh'
    BY <1>3 DEF IInv, TypeOK, Whereabouts, Fresh, Over, hops
<1>5. \A w \in Urls : Held(w)' \subseteq Held(w) \cup
                           (IF w = l /\ KeyOf[l] \notin seen THEN {KeyOf[l]} ELSE {})
    BY DEF Held, hops
<1>6. HeldIsSeen' /\ HeldOnce'
    BY <1>5 DEF IInv, HeldIsSeen, HeldOnce
<1>7. ChainHolds'
    BY DEF IInv, ChainHolds, Arrived, hops
<1> QED BY <1>2, <1>4, <1>6, <1>7 DEF IInv

LEMMA EnqueueLinksInv == ASSUME IInv, EnqueueLinks PROVE IInv'
<1> PICK valid \in SUBSET candidates :
        /\ pc = "claim" /\ pc' = "deliver" /\ links = {} /\ candidates' = {}
        /\ frontier' = frontier \cup valid /\ discovered' = discovered \cup valid
        /\ UNCHANGED <<seen, window, inFlight, flags, cancelled, preloaded, ending, page, links,
                       hops, fate, gone>>
    BY DEF EnqueueLinks
<1>1. TypeOK'
    BY DEF IInv, TypeOK, flags, hops
<1>2. Whereabouts' /\ Fresh'
    BY DEF IInv, TypeOK, Whereabouts, Fresh, Over, hops
<1>3. HeldIsSeen' /\ HeldOnce'
    BY DEF IInv, HeldIsSeen, HeldOnce, Held, hops
<1>4. ChainHolds'
    BY DEF IInv, ChainHolds, Arrived, hops
<1> QED BY <1>1, <1>2, <1>3, <1>4 DEF IInv

LEMMA DiscoveryFailsInv == ASSUME IInv, DiscoveryFails PROVE IInv'
<1> PICK pushed \in SUBSET candidates :
        /\ pc = "claim" /\ pc' = "exit" /\ ending' = "error"
        /\ frontier' = frontier \cup pushed /\ discovered' = discovered \cup pushed
        /\ fate' = [fate EXCEPT ![page] = "abandoned"]
        /\ page' = NoUrl /\ links' = {} /\ candidates' = {}
        /\ UNCHANGED <<window, inFlight, flags, cancelled, preloaded, hops, gone>>
    BY DEF DiscoveryFails, SetFate, Raise
<1>1. page \in Urls /\ page # NoUrl /\ NoUrl \notin Urls
    BY UrlAssumption DEF IInv, TypeOK
<1>2. seen \subseteq seen' /\ seen' \in SUBSET Keys
    BY GraphAssumption DEF DiscoveryFails, IInv, TypeOK
<1>3. TypeOK'
    BY <1>1, <1>2 DEF IInv, TypeOK, Fates, Endings, flags, hops
<1>4. Whereabouts' /\ Fresh'
    BY <1>1 DEF IInv, TypeOK, Whereabouts, Fresh, Over, hops
<1>5. HeldIsSeen' /\ HeldOnce'
    BY <1>2 DEF IInv, HeldIsSeen, HeldOnce, Held, hops
<1>6. ChainHolds'
    BY <1>1 DEF IInv, TypeOK, ChainHolds, Arrived, hops
<1> QED BY <1>3, <1>4, <1>5, <1>6 DEF IInv

(* The page is filtered, delivered, or dropped with the receiver. *)
LEMMA DeliverInv == ASSUME IInv, FilterPage \/ FilterFails \/ DeliverPage PROVE IInv'
<1> PICK f \in {"filtered", "abandoned", "undelivered", "page"} :
        /\ pc = "deliver" /\ pc' \in {"tail", "exit"}
        /\ fate' = [fate EXCEPT ![page] = f] /\ page' = NoUrl
        /\ UNCHANGED <<front, window, inFlight, flags, preloaded, links, candidates, hops, gone>>
    BY DEF FilterPage, FilterFails, DeliverPage, SetFate, Raise
<1>1. page \in Urls /\ page # NoUrl /\ NoUrl \notin Urls
    BY UrlAssumption DEF IInv, TypeOK
<1>2. cancelled' \in BOOLEAN /\ ending' \in Endings
    BY DEF FilterPage, FilterFails, DeliverPage, Raise, IInv, TypeOK, Endings
<1>3. TypeOK'
    BY <1>1, <1>2 DEF IInv, TypeOK, Fates, front, flags, hops
<1>4. Whereabouts' /\ Fresh'
    BY <1>1 DEF IInv, TypeOK, Whereabouts, Fresh, Over, front, hops
<1>5. HeldIsSeen' /\ HeldOnce'
    BY DEF IInv, HeldIsSeen, HeldOnce, Held, front, hops
<1>6. ChainHolds'
    BY <1>1 DEF IInv, TypeOK, ChainHolds, Arrived, hops
<1> QED BY <1>3, <1>4, <1>5, <1>6 DEF IInv

-----------------------------------------------------------------------------
(* After the loop *)

LEMMA AbortHopsInv == ASSUME IInv, AbortHops PROVE IInv'
<1>1. "none" \in Phases
    BY DEF Phases
<1>2. TypeOK'
    BY <1>1 DEF IInv, TypeOK, AbortHops, front, flags, pending
<1>3. Whereabouts' /\ Fresh'
    BY DEF IInv, TypeOK, AbortHops, Whereabouts, Fresh, Over, front, pending
<1>4. HeldIsSeen' /\ HeldOnce'
    BY DEF IInv, AbortHops, HeldIsSeen, HeldOnce, Held, front, pending
<1>5. ChainHolds'
    BY DEF IInv, TypeOK, AbortHops, ChainHolds, Arrived, pending
<1> QED BY <1>2, <1>3, <1>4, <1>5 DEF IInv

LEMMA SpillInv == ASSUME IInv, Spill \/ SpillFails PROVE IInv'
<1>1. CASE Spill
  <2> PICK u \in window :
        /\ pc = "spill" /\ window' = window \ {u} /\ frontier' = frontier \cup {u}
        /\ UNCHANGED <<seen, discovered, pc, inFlight, flags, cancelled, preloaded, ending, pending,
                       hops, fate, gone>>
    BY <1>1 DEF Spill
  <2>1. TypeOK'
    BY DEF IInv, TypeOK, flags, pending, hops
  <2>2. Whereabouts' /\ Fresh'
    BY DEF IInv, TypeOK, Whereabouts, Fresh, Over, pending, hops
  <2>3. HeldIsSeen' /\ HeldOnce' /\ ChainHolds'
    BY DEF IInv, HeldIsSeen, HeldOnce, Held, ChainHolds, Arrived, pending, hops
  <2> QED BY <2>1, <2>2, <2>3 DEF IInv
<1>2. CASE SpillFails
  <2>1. \A u \in Urls : fate'[u] = fate[u] \/ (u \in window /\ fate'[u] = "lost")
    BY <1>2 DEF SpillFails
  <2>2. TypeOK'
    BY <1>2 DEF SpillFails, IInv, TypeOK, Fates, Endings, front, flags, pending, hops
  <2>3. Whereabouts' /\ Fresh'
    BY <1>2, <2>1 DEF SpillFails, IInv, TypeOK, Whereabouts, Fresh, Over, front, pending, hops
  <2>4. HeldIsSeen' /\ HeldOnce'
    BY <1>2 DEF SpillFails, IInv, HeldIsSeen, HeldOnce, Held, front, pending, hops
  <2>5. ChainHolds'
    BY <1>2, <2>1 DEF SpillFails, IInv, ChainHolds, Arrived, pending, hops
  <2> QED BY <2>2, <2>3, <2>4, <2>5 DEF IInv
<1> QED BY <1>1, <1>2

-----------------------------------------------------------------------------
LEMMA StutterInv == ASSUME IInv, UNCHANGED vars PROVE IInv'
BY DEF vars, front, flags, pending, hops, IInv, TypeOK, Whereabouts, Fresh, Over, HeldIsSeen,
       HeldOnce, Held, ChainHolds, Arrived

LEMMA NextInv == ASSUME IInv, Next PROVE IInv'
<1>1. CASE Control
    BY <1>1, ControlInv
<1>2. CASE SpawnBacklog \/ SpawnGranted \/ SelectTurn \/ Refill \/ AdmitRejects \/ Admit
    BY <1>2, SpawnBacklogInv, SelectInv, RefillInv, AdmitRejectsInv, AdmitInv
<1>3. CASE AbsorbHop \/ AbsorbEnd \/ AbsorbFailedPage \/ AbsorbPage
    BY <1>3, AbsorbHopInv, AbsorbEndInv, AbsorbPageInv
<1>4. CASE ClaimLink \/ EnqueueLinks \/ DiscoveryFails \/ FilterPage \/ FilterFails \/ DeliverPage
    BY <1>4, ClaimLinkInv, EnqueueLinksInv, DiscoveryFailsInv, DeliverInv
<1>5. CASE AbortHops \/ Spill \/ SpillFails
    BY <1>5, AbortHopsInv, SpillInv
<1>6. CASE DropReceiver
    BY <1>6, DropReceiverInv
<1>7. CASE \E u \in Urls : Task(u) \/ Panic(u)
    BY <1>7, PrepareInv, FetchInv, ExtractPanicInv DEF Task
<1> QED BY <1>1, <1>2, <1>3, <1>4, <1>5, <1>6, <1>7 DEF Next, Loop, Control

(* The invariant the theorems rest on. *)
THEOREM Invariance == Spec => []IInv
<1>1. Init => IInv
    BY Initially
<1>2. IInv /\ [Next]_vars => IInv'
    BY NextInv, StutterInv
<1> QED BY <1>1, <1>2, PTL DEF Spec

(* Every variable of the crawl keeps its type: a page is being folded in   *)
(* exactly while the loop claims its links or delivers it, and no claimed  *)
(* link outlives its page (process_fetch_result).                          *)
THEOREM TypeCorrect == Spec => []TypeOK
<1>1. IInv => TypeOK
    BY DEF IInv
<1> QED BY <1>1, Invariance, PTL

(* A page is reported once, whatever the site, the interleaving of link    *)
(* discovery with redirect chains, and the failures (chain_claim.rs).      *)
THEOREM ReportedOnce == Spec => []PageReportedOnce
<1>1. IInv => PageReportedOnce
    BY GraphAssumption DEF IInv, TypeOK, PageReportedOnce, Fated, ChainHolds, Arrived, HeldOnce, Held
<1> QED BY <1>1, Invariance, PTL

-----------------------------------------------------------------------------
(* A crawl whose tasks do not panic *)

(* A panicked entry is the only one that stays in flight without a hop. *)
NoneCrashed ==
    /\ \A u \in Urls : fate[u] # "crashed" /\ hop[u] # "panicked"
    /\ pc # "spill" /\ pc # "done" => \A u \in inFlight : hop[u] # "none"

LEMMA NoneCrashedInit == Init => NoneCrashed
BY DEF Init, NoneCrashed

(* Steps that start, end or move no hop. *)
LEMMA NoneCrashedControl ==
    ASSUME IInv, NoneCrashed,
           Control \/ DropReceiver \/ Refill \/ AdmitRejects \/ ClaimLink \/ EnqueueLinks
               \/ DiscoveryFails \/ FilterPage \/ FilterFails \/ DeliverPage \/ Spill \/ SpillFails
    PROVE  NoneCrashed'
<1>1. UNCHANGED <<hop, inFlight>> /\ (Over => Over')
    BY DEF Control, LoopHead, SpawnFull, SpawnLegacyBound, RefillNotNeeded, RefillFails, AdmitNothing,
           AskFrontierAgain, AskFrontierFails, Drained, SelectReceiverClosed, LoopTail, Finish, Raise, EndPass, Over,
           MayAdmit, DropReceiver, Refill, AdmitRejects, ClaimLink, EnqueueLinks, DiscoveryFails,
           FilterPage, FilterFails, DeliverPage, Spill, SpillFails, hops
<1>2. CASE UNCHANGED fate
    BY <1>1, <1>2 DEF NoneCrashed, Over
<1>3. CASE \E u \in Urls \cup {NoUrl}, f \in Fates \ {"crashed"} : fate' = [fate EXCEPT ![u] = f]
    BY <1>1, <1>3 DEF NoneCrashed, Over, IInv, TypeOK
<1>4. CASE SpillFails
    BY <1>1, <1>4 DEF NoneCrashed, Over, SpillFails
<1>5. CASE AdmitRejects
  <2>1. \E u \in Urls : fate' = [fate EXCEPT ![u] = "filtered"]
    BY <1>5 DEF AdmitRejects, SetFate, Selectable, IInv, TypeOK
  <2> QED BY <2>1, <1>3 DEF Fates
<1>6. CASE DiscoveryFails \/ FilterPage \/ FilterFails \/ DeliverPage
  <2>1. \E f \in {"abandoned", "filtered", "undelivered", "page"} : fate' = [fate EXCEPT ![page] = f]
    BY <1>6 DEF DiscoveryFails, FilterPage, FilterFails, DeliverPage, SetFate
  <2>2. page \in Urls \cup {NoUrl}
    BY DEF IInv, TypeOK
  <2> QED BY <2>1, <2>2, <1>3 DEF Fates
<1>7. CASE Control \/ DropReceiver \/ Refill \/ ClaimLink \/ EnqueueLinks \/ Spill
  <2>1. UNCHANGED fate
    BY <1>7 DEF Control, LoopHead, SpawnFull, SpawnLegacyBound, RefillNotNeeded, RefillFails,
           AdmitNothing, AskFrontierAgain, AskFrontierFails, Drained, SelectReceiverClosed, LoopTail, Finish,
           DropReceiver, Refill, ClaimLink, EnqueueLinks, Spill
  <2> QED BY <2>1, <1>2
<1> QED BY <1>4, <1>5, <1>6, <1>7

(* Steps of the hops. *)
LEMMA NoneCrashedHops ==
    ASSUME IInv, NoneCrashed, MayPanic = FALSE,
           SpawnBacklog \/ SpawnGranted \/ SelectTurn \/ AbsorbHop
               \/ (\E u \in Urls : Task(u) \/ Panic(u))
    PROVE  NoneCrashed'
<1>1. /\ \E u \in Urls, p \in Phases \ {"none", "panicked"} : hop' = [hop EXCEPT ![u] = p]
      /\ UNCHANGED <<inFlight, fate>> /\ (Over' => Over) /\ (Over => Over')
  <2>1. CASE SpawnBacklog \/ SpawnGranted \/ SelectTurn \/ AbsorbHop
    BY <2>1 DEF SpawnBacklog, SpawnGranted, SelectTurn, AbsorbHop, Grant, SetHop, PrepareBacklog,
           InPhase, Phases, Running, Finished, Over
  <2>2. CASE \E u \in Urls : Task(u) \/ Panic(u)
    <3> PICK u \in Urls : Task(u) \/ Panic(u)
      BY <2>2
    <3>1. /\ \E p \in Phases \ {"none", "panicked"} : hop' = [hop EXCEPT ![u] = p]
          /\ UNCHANGED <<inFlight, fate, pc>>
      BY DEF Task, Prepare, Fetch, Landed, Extract, Panic, TaskStep, Answered, AdmitsHop, SetHop, Phases, Running, Finished
    <3> QED BY <3>1 DEF Over
  <2> QED BY <2>1, <2>2
<1> QED BY <1>1 DEF NoneCrashed, Over, IInv, TypeOK

(* Steps that take an entry up or give it back. *)
LEMMA NoneCrashedFlight ==
    ASSUME IInv, NoneCrashed, MayPanic = FALSE,
           Admit \/ AbsorbEnd \/ AbsorbFailedPage \/ AbsorbPage \/ AbortHops
    PROVE  NoneCrashed'
<1>1. CASE Admit
  <2>1. \E u \in Urls, p \in {"extract", "prepare"} :
            /\ hop' = [hop EXCEPT ![u] = p] /\ inFlight' = inFlight \cup {u}
            /\ ~Over /\ ~Over' /\ UNCHANGED fate
    BY <1>1 DEF Admit, SetHop, Selectable, IInv, TypeOK, Over
  <2> QED BY <2>1 DEF NoneCrashed, Over, IInv, TypeOK
<1>2. CASE AbsorbEnd \/ AbsorbFailedPage
  <2>1. \E u \in Urls, f \in {"filtered", "failed"} :
            /\ hop' = [hop EXCEPT ![u] = "none"] /\ inFlight' = inFlight \ {u}
            /\ fate' = [fate EXCEPT ![u] = f] /\ ~Over /\ ~Over'
    BY <1>2 DEF AbsorbEnd, AbsorbFailedPage, SetHop, SetFate, InPhase, NoneCrashed, Over
  <2> QED BY <2>1 DEF NoneCrashed, Over, IInv, TypeOK
<1>3. CASE AbsorbPage
  <2>1. \E u \in Urls :
            /\ hop' = [hop EXCEPT ![u] = "none"] /\ inFlight' = inFlight \ {u}
            /\ UNCHANGED fate /\ ~Over /\ ~Over'
    BY <1>3 DEF AbsorbPage, SetHop, InPhase, Over
  <2> QED BY <2>1 DEF NoneCrashed, Over, IInv, TypeOK
<1>4. CASE AbortHops
    BY <1>4 DEF AbortHops, NoneCrashed
<1> QED BY <1>1, <1>2, <1>3, <1>4

LEMMA NoneCrashedNext ==
    ASSUME IInv, NoneCrashed, MayPanic = FALSE, [Next]_vars PROVE NoneCrashed'
<1>1. CASE \/ Control \/ DropReceiver \/ Refill \/ AdmitRejects \/ ClaimLink \/ EnqueueLinks
           \/ DiscoveryFails \/ FilterPage \/ FilterFails \/ DeliverPage \/ Spill \/ SpillFails
    BY <1>1, NoneCrashedControl
<1>2. CASE \/ SpawnBacklog \/ SpawnGranted \/ SelectTurn \/ AbsorbHop
           \/ \E u \in Urls : Task(u) \/ Panic(u)
    BY <1>2, NoneCrashedHops
<1>3. CASE Admit \/ AbsorbEnd \/ AbsorbFailedPage \/ AbsorbPage \/ AbortHops
    BY <1>3, NoneCrashedFlight
<1>4. CASE UNCHANGED vars
    BY <1>4 DEF vars, hops, NoneCrashed
<1> QED BY <1>1, <1>2, <1>3, <1>4 DEF Next, Loop, Control

LEMMA NeverCrashed == ASSUME MayPanic = FALSE PROVE Spec => []NoneCrashed
<1>1. Init => NoneCrashed
    BY NoneCrashedInit
<1>2. IInv /\ NoneCrashed /\ [Next]_vars => NoneCrashed'
    BY NoneCrashedNext
<1> QED BY <1>1, <1>2, Invariance, PTL DEF Spec

(* As long as no task panics, every entry in flight is running, waiting    *)
(* for a turn or in the backlog (retire_in_flight): none takes up room     *)
(* under the page ceiling, or is spilled, without being under way.         *)
THEOREM InFlightRuns == ASSUME MayPanic = FALSE PROVE Spec => []InFlightIsRunning
<1>1. NoneCrashed => InFlightIsRunning
    BY DEF NoneCrashed, InFlightIsRunning, Looping
<1> QED BY <1>1, NeverCrashed, PTL

-----------------------------------------------------------------------------
(* The loop implements CrawlWork, step by step. *)
Waiting == frontier \cup window
Taken == inFlight \cup ({page} \ {NoUrl})
Settled == {u \in Urls : fate[u] # "none"}

(* Most steps move no entry between the three, or leave the three alone. *)
LEMMA WorkUnchanged ==
    ASSUME UNCHANGED <<frontier, window, inFlight, page, fate>>
    PROVE  UNCHANGED <<Waiting, Taken, Settled>>
BY DEF Waiting, Taken, Settled

LEMMA SettledOnce ==
    ASSUME IInv, NEW u \in Urls, NEW f \in Fates \ {"none"}, fate' = [fate EXCEPT ![u] = f]
    PROVE  Settled' = Settled \cup {u}
BY DEF IInv, TypeOK, Settled

LEMMA WorkQuietSteps ==
    ASSUME IInv,
           \/ Control \/ DropReceiver \/ SpawnBacklog \/ SpawnGranted \/ SelectTurn \/ AbsorbHop
           \/ ClaimLink \/ \E u \in Urls : Task(u) \/ Panic(u)
    PROVE  UNCHANGED <<Waiting, Taken, Settled>>
<1>1. UNCHANGED <<frontier, window, inFlight, page, fate>>
    BY DEF Control, LoopHead, SpawnFull, SpawnLegacyBound, RefillNotNeeded, RefillFails, AdmitNothing,
           AskFrontierAgain, AskFrontierFails, Drained, SelectReceiverClosed, LoopTail, Finish, DropReceiver,
           SpawnBacklog, SpawnGranted, SelectTurn, AbsorbHop, ClaimLink,
           Task, Prepare, Fetch, Landed, Extract, Panic, TaskStep, front, pending
<1> QED BY <1>1, WorkUnchanged

LEMMA WorkMovingSteps ==
    ASSUME IInv, Refill \/ AbsorbPage \/ Spill
    PROVE  UNCHANGED <<Waiting, Taken, Settled>>
<1>1. CASE Refill
  <2>1. \E popped \in SUBSET frontier :
            frontier' = frontier \ popped /\ window' = window \cup popped
    BY <1>1 DEF Refill, Eligible
  <2>2. UNCHANGED <<inFlight, page, fate>>
    BY <1>1 DEF Refill, pending
  <2> QED BY <2>1, <2>2 DEF Waiting, Taken, Settled
<1>2. CASE AbsorbPage
  <2>1. PICK u \in Urls : hop[u] = "fetched" /\ inFlight' = inFlight \ {u} /\ page' = u
    BY <1>2 DEF AbsorbPage, InPhase
  <2>2. u \in inFlight /\ u # NoUrl /\ page = NoUrl
    BY <1>2, <2>1, UrlAssumption DEF AbsorbPage, IInv, TypeOK, Whereabouts
  <2>3. Taken' = Taken
    BY <2>1, <2>2 DEF Taken
  <2> QED BY <1>2, <2>3 DEF AbsorbPage, front, Waiting, Settled
<1>3. CASE Spill
  <2>1. \E u \in window : window' = window \ {u} /\ frontier' = frontier \cup {u}
    BY <1>3 DEF Spill
  <2> QED BY <1>3, <2>1 DEF Spill, pending, Waiting, Taken, Settled
<1> QED BY <1>1, <1>2, <1>3

LEMMA WorkAdmitRejects == ASSUME IInv, AdmitRejects PROVE Work!Next
<1> PICK u \in Selectable :
        window' = window \ {u} /\ fate' = [fate EXCEPT ![u] = "filtered"]
    BY DEF AdmitRejects, SetFate
<1>1. /\ u \in window /\ u \in Urls /\ u \notin frontier
      /\ UNCHANGED <<frontier, inFlight, page>>
    BY DEF AdmitRejects, Selectable, front, pending, IInv, TypeOK, Whereabouts
<1>2. Waiting' = Waiting \ {u} /\ Taken' = Taken
    BY <1>1 DEF Waiting, Taken
<1>3. Settled' = Settled \cup {u}
    BY <1>1, SettledOnce DEF Fates
<1>4. Work!Discard({u}) /\ {u} \in SUBSET Urls
    BY <1>1, <1>2, <1>3 DEF Work!Discard, Waiting, Taken, Settled
<1> QED BY <1>4 DEF Work!Next

LEMMA WorkAdmit == ASSUME IInv, Admit PROVE Work!Next
<1> PICK u \in Selectable : window' = window \ {u} /\ inFlight' = inFlight \cup {u}
    BY DEF Admit
<1>1. /\ u \in window /\ u \in Urls /\ u \notin frontier
      /\ UNCHANGED <<frontier, page, fate>>
    BY DEF Admit, Selectable, front, pending, IInv, TypeOK, Whereabouts
<1>2. Waiting' = Waiting \ {u} /\ Taken' = Taken \cup {u} /\ Settled' = Settled
    BY <1>1 DEF Waiting, Taken, Settled
<1> QED BY <1>1, <1>2 DEF Work!Next, Work!Take, Waiting, Taken, Settled

LEMMA WorkAbsorbEnd ==
    ASSUME IInv, NoneCrashed, AbsorbEnd \/ AbsorbFailedPage PROVE Work!Next
<1> PICK u \in Urls, f \in {"filtered", "failed"} :
        /\ hop[u] # "none" /\ inFlight' = inFlight \ {u}
        /\ fate' = [fate EXCEPT ![u] = f]
    BY DEF AbsorbEnd, AbsorbFailedPage, SetFate, InPhase, NoneCrashed
<1>1. UNCHANGED <<frontier, window, page>> /\ page = NoUrl
    BY DEF AbsorbEnd, AbsorbFailedPage, front, pending, IInv, TypeOK
<1>2. u \in inFlight
    BY DEF IInv, Whereabouts
<1>3. Waiting' = Waiting /\ Taken' = Taken \ {u} /\ u \in Taken
    BY <1>1, <1>2 DEF Waiting, Taken
<1>4. Settled' = Settled \cup {u}
    BY SettledOnce DEF Fates
<1> QED BY <1>3, <1>4 DEF Work!Next, Work!Settle, Waiting, Taken, Settled

LEMMA WorkEnqueueLinks == ASSUME IInv, EnqueueLinks PROVE Work!Next
<1> PICK valid \in SUBSET candidates : frontier' = frontier \cup valid
    BY DEF EnqueueLinks
<1>1. UNCHANGED <<window, inFlight, page, fate>>
    BY DEF EnqueueLinks
<1>2. Waiting' = Waiting \cup valid /\ Taken' = Taken /\ Settled' = Settled
    BY <1>1 DEF Waiting, Taken, Settled
<1>3. valid \in SUBSET Urls /\ valid \cap (Waiting \cup Taken \cup Settled) = {}
    BY DEF IInv, TypeOK, Whereabouts, Waiting, Taken, Settled
<1> QED BY <1>2, <1>3 DEF Work!Next, Work!Discover, Work!Known, Waiting, Taken, Settled

LEMMA WorkDiscoveryFails == ASSUME IInv, DiscoveryFails PROVE Work!Next
<1> PICK pushed \in SUBSET candidates : frontier' = frontier \cup pushed
    BY DEF DiscoveryFails
<1>1. /\ UNCHANGED <<window, inFlight>> /\ page' = NoUrl
      /\ fate' = [fate EXCEPT ![page] = "abandoned"]
      /\ page \in Urls /\ page # NoUrl /\ page \notin inFlight
    BY DEF DiscoveryFails, SetFate, IInv, TypeOK, Whereabouts
<1>2. Waiting' = Waiting \cup pushed /\ Taken' = Taken \ {page} /\ page \in Taken
    BY <1>1 DEF Waiting, Taken
<1>3. Settled' = Settled \cup {page}
    BY <1>1, SettledOnce DEF Fates
<1>4. pushed \in SUBSET Urls /\ pushed \cap (Waiting \cup Taken \cup Settled) = {}
    BY DEF IInv, TypeOK, Whereabouts, Waiting, Taken, Settled
<1> QED BY <1>1, <1>2, <1>3, <1>4
        DEF Work!Next, Work!Abandon, Work!Known, Waiting, Taken, Settled

LEMMA WorkDeliver == ASSUME IInv, FilterPage \/ FilterFails \/ DeliverPage PROVE Work!Next
<1> PICK f \in {"filtered", "abandoned", "undelivered", "page"} : fate' = [fate EXCEPT ![page] = f]
    BY DEF FilterPage, FilterFails, DeliverPage, SetFate, Raise
<1>1. /\ UNCHANGED <<frontier, window, inFlight>> /\ page' = NoUrl
      /\ page \in Urls /\ page # NoUrl /\ page \notin inFlight
    BY DEF FilterPage, FilterFails, DeliverPage, front, IInv, TypeOK, Whereabouts
<1>2. Waiting' = Waiting /\ Taken' = Taken \ {page} /\ page \in Taken
    BY <1>1 DEF Waiting, Taken
<1>3. Settled' = Settled \cup {page}
    BY <1>1, SettledOnce DEF Fates
<1> QED BY <1>1, <1>2, <1>3 DEF Work!Next, Work!Settle, Waiting, Taken, Settled

LEMMA WorkAbortHops == ASSUME IInv, AbortHops PROVE Work!Next
<1>1. /\ window' = window \cup inFlight /\ inFlight' = {}
      /\ UNCHANGED <<frontier, page, fate>> /\ page = NoUrl
    BY DEF AbortHops, front, pending, IInv, TypeOK
<1>2. Waiting' = Waiting \cup Taken /\ Taken' = {} /\ Settled' = Settled
    BY <1>1 DEF Waiting, Taken, Settled
<1> QED BY <1>2 DEF Work!Next, Work!PutBack, Waiting, Taken, Settled

LEMMA WorkSpillFails == ASSUME IInv, SpillFails PROVE Work!Next
<1>1. /\ UNCHANGED <<frontier, inFlight, page>> /\ window' = {}
      /\ fate' = [u \in Urls |-> IF u \in window /\ fate[u] = "none" THEN "lost" ELSE fate[u]]
    BY DEF SpillFails, front, pending
<1>2. window \in SUBSET Urls /\ frontier \cap window = {}
    BY DEF IInv, TypeOK, Whereabouts
<1>3. Waiting' = Waiting \ window /\ Taken' = Taken /\ window \subseteq Waiting
    BY <1>1, <1>2 DEF Waiting, Taken
<1>4. Settled' = Settled \cup window
    BY <1>1, <1>2 DEF IInv, TypeOK, Settled
<1> QED BY <1>2, <1>3, <1>4 DEF Work!Next, Work!Discard, Waiting, Taken, Settled

LEMMA WorkStep ==
    ASSUME IInv, NoneCrashed, [Next]_vars PROVE Work!Next \/ UNCHANGED Work!vars
<1>1. CASE \/ Control \/ DropReceiver \/ SpawnBacklog \/ SpawnGranted \/ SelectTurn \/ AbsorbHop
           \/ ClaimLink \/ \E u \in Urls : Task(u) \/ Panic(u)
    BY <1>1, WorkQuietSteps DEF Work!vars, Waiting, Taken, Settled
<1>2. CASE Refill \/ AbsorbPage \/ Spill
    BY <1>2, WorkMovingSteps DEF Work!vars, Waiting, Taken, Settled
<1>3. CASE UNCHANGED vars
    BY <1>3, WorkUnchanged DEF vars, front, pending, Work!vars, Waiting, Taken, Settled
<1>4. CASE AdmitRejects \/ Admit \/ AbsorbEnd \/ AbsorbFailedPage
    BY <1>4, WorkAdmitRejects, WorkAdmit, WorkAbsorbEnd
<1>5. CASE EnqueueLinks \/ DiscoveryFails \/ FilterPage \/ FilterFails \/ DeliverPage
    BY <1>5, WorkEnqueueLinks, WorkDiscoveryFails, WorkDeliver
<1>6. CASE AbortHops \/ SpillFails
    BY <1>6, WorkAbortHops, WorkSpillFails
<1> QED BY <1>1, <1>2, <1>3, <1>4, <1>5, <1>6 DEF Next, Loop, Control

(* As long as no task panics, an entry found is never lost but by a        *)
(* frontier that fails, never taken up twice and never settled twice,      *)
(* whatever stops the crawl (spill_window, run_crawl_loop).                *)
THEOREM WorkRefined == ASSUME MayPanic = FALSE PROVE Spec => RefinesCrawlWork
<1>1. Init => Work!Init
    BY UrlAssumption DEF Init, Work!Init
<1>2. IInv /\ NoneCrashed /\ [Next]_vars => [Work!Next]_(Work!vars)
    BY WorkStep
<1> QED BY <1>1, <1>2, Invariance, NeverCrashed, PTL DEF Spec, Work!Spec, RefinesCrawlWork
=============================================================================
