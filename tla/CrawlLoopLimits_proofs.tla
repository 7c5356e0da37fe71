----------------------- MODULE CrawlLoopLimits_proofs -----------------------
(***************************************************************************)
(* The limits of the crawl loop, for every limit and every site: pages,    *)
(* tasks and admitted entries; and that it stops only for a reason.        *)
(***************************************************************************)
EXTENDS CrawlLoop_proofs, FiniteSetTheorems

Folding == {page} \ {NoUrl}
Delivered == Fated("page")

LEMMA SizesFinite ==
    ASSUME IInv
    PROVE  /\ IsFiniteSet(inFlight) /\ Cardinality(inFlight) \in Nat
           /\ IsFiniteSet(Folding) /\ Cardinality(Folding) \in Nat
           /\ IsFiniteSet(Delivered) /\ Cardinality(Delivered) \in Nat
<1>1. inFlight \in SUBSET Urls /\ Folding \in SUBSET Urls /\ Delivered \in SUBSET Urls
    BY DEF IInv, TypeOK, Folding, Delivered, Fated
<1>2. IsFiniteSet(inFlight) /\ IsFiniteSet(Folding) /\ IsFiniteSet(Delivered)
    BY <1>1, UrlAssumption, FS_Subset
<1> QED BY <1>2, FS_CardinalityType

(* Most steps only shrink the three sets the limit counts. *)
LEMMA Shrinks ==
    ASSUME IInv, WithinMaxPages, inFlight' \subseteq inFlight,
           Folding' \subseteq Folding, Delivered' \subseteq Delivered
    PROVE  WithinMaxPages'
<1>1. /\ Cardinality(inFlight') <= Cardinality(inFlight)
      /\ Cardinality(Folding') <= Cardinality(Folding)
      /\ Cardinality(Delivered') <= Cardinality(Delivered)
      /\ IsFiniteSet(inFlight') /\ IsFiniteSet(Folding') /\ IsFiniteSet(Delivered')
    BY SizesFinite, FS_Subset
<1>2. /\ Cardinality(inFlight') \in Nat /\ Cardinality(Folding') \in Nat
      /\ Cardinality(Delivered') \in Nat
    BY <1>1, FS_CardinalityType
<1> QED BY <1>1, <1>2, SizesFinite, LimitAssumption
        DEF WithinMaxPages, PagesProcessed, Folding, Delivered

LEMMA NotDelivered ==
    ASSUME IInv, NEW u, NEW f \in Fates \ {"page"}, fate' = [fate EXCEPT ![u] = f]
    PROVE  Delivered' \subseteq Delivered
BY DEF IInv, TypeOK, Delivered, Fated

LEMMA AdmitLimit == ASSUME IInv, WithinMaxPages, Admit PROVE WithinMaxPages'
<1>1. PICK u : inFlight' = inFlight \cup {u} /\ ~AtCeiling
    BY DEF Admit
<1>2. Folding = {} /\ Folding' = {} /\ Delivered' = Delivered
    BY DEF Admit, pending, IInv, TypeOK, Folding, Delivered, Fated
<1>3. Cardinality(inFlight') <= Cardinality(inFlight) + 1 /\ Cardinality(inFlight') \in Nat
  <2>1. /\ IsFiniteSet(inFlight \cup {u})
        /\ Cardinality(inFlight \cup {u}) =
               IF u \in inFlight THEN Cardinality(inFlight) ELSE Cardinality(inFlight) + 1
    BY SizesFinite, FS_AddElement
  <2> QED BY <1>1, <2>1, SizesFinite
<1>4. Cardinality(Folding') = 0
    BY <1>2, FS_EmptySet
<1>5. Cardinality(Delivered) + Cardinality(inFlight) < MaxPages
    BY <1>1, SizesFinite, LimitAssumption DEF AtCeiling, PagesProcessed, Delivered
<1>6. Cardinality(Delivered') + Cardinality(inFlight') + Cardinality(Folding') <= MaxPages
    BY <1>2, <1>3, <1>4, <1>5, SizesFinite, LimitAssumption
<1> QED BY <1>6 DEF WithinMaxPages, PagesProcessed, Folding, Delivered

LEMMA AbsorbPageLimit == ASSUME IInv, WithinMaxPages, AbsorbPage PROVE WithinMaxPages'
<1>1. PICK u \in Urls : hop[u] = "fetched" /\ inFlight' = inFlight \ {u} /\ page' = u
    BY DEF AbsorbPage, InPhase
<1>2. u \in inFlight /\ Delivered' = Delivered
    BY <1>1 DEF AbsorbPage, IInv, Whereabouts, Delivered, Fated
<1>3. Cardinality(inFlight') = Cardinality(inFlight) - 1
    BY <1>1, <1>2, SizesFinite, FS_RemoveElement
<1>4. Cardinality(Folding') = 1
    BY <1>1, UrlAssumption, FS_Singleton DEF Folding
<1>5. Cardinality(Delivered) + Cardinality(inFlight) + Cardinality(Folding) <= MaxPages
    BY DEF WithinMaxPages, PagesProcessed, Folding, Delivered
<1>6. Cardinality(Delivered') + Cardinality(inFlight') + Cardinality(Folding') <= MaxPages
    BY <1>2, <1>3, <1>4, <1>5, SizesFinite, LimitAssumption
<1> QED BY <1>6 DEF WithinMaxPages, PagesProcessed, Folding, Delivered

LEMMA DeliverLimit == ASSUME IInv, WithinMaxPages, FilterPage \/ FilterFails \/ DeliverPage PROVE WithinMaxPages'
<1>1. /\ UNCHANGED inFlight /\ page' = NoUrl /\ page \in Urls /\ page # NoUrl
      /\ \E f \in {"filtered", "abandoned", "undelivered", "page"} : fate' = [fate EXCEPT ![page] = f]
    BY DEF FilterPage, FilterFails, DeliverPage, SetFate, Raise, IInv, TypeOK
<1>2. Delivered' \subseteq Delivered \cup {page}
    BY <1>1 DEF IInv, TypeOK, Delivered, Fated
<1>3. /\ Cardinality(Delivered') <= Cardinality(Delivered \cup {page})
      /\ IsFiniteSet(Delivered')
      /\ Cardinality(Delivered \cup {page}) <= Cardinality(Delivered) + 1
      /\ Cardinality(Delivered \cup {page}) \in Nat
    BY <1>2, SizesFinite, FS_AddElement, FS_Subset, FS_CardinalityType
<1>4. Cardinality(Folding) = 1 /\ Cardinality(Folding') = 0
  <2>1. Folding = {page} /\ Folding' = {}
    BY <1>1 DEF Folding
  <2> QED BY <2>1, FS_Singleton, FS_EmptySet
<1>5. Cardinality(Delivered) + Cardinality(inFlight) + Cardinality(Folding) <= MaxPages
    BY DEF WithinMaxPages, PagesProcessed, Folding, Delivered
<1>6. Cardinality(Delivered') \in Nat
    BY <1>3, FS_CardinalityType
<1>7. Cardinality(Delivered') + Cardinality(inFlight') + Cardinality(Folding') <= MaxPages
    BY <1>1, <1>3, <1>4, <1>5, <1>6, SizesFinite, LimitAssumption
<1> QED BY <1>7 DEF WithinMaxPages, PagesProcessed, Folding, Delivered

LEMMA LimitNext == ASSUME IInv, WithinMaxPages, [Next]_vars PROVE WithinMaxPages'
<1>1. CASE \/ Control \/ DropReceiver \/ SpawnBacklog \/ SpawnGranted \/ SelectTurn \/ AbsorbHop
           \/ Refill \/ ClaimLink \/ EnqueueLinks \/ AbortHops \/ Spill
           \/ (\E u \in Urls : Task(u) \/ Panic(u)) \/ UNCHANGED vars
  <2>1. inFlight' \subseteq inFlight /\ UNCHANGED <<page, fate>>
    BY <1>1 DEF Control, LoopHead, SpawnFull, SpawnLegacyBound, RefillNotNeeded, RefillFails,
           AdmitNothing, AskFrontierAgain, AskFrontierFails, Drained, SelectReceiverClosed, LoopTail, Finish,
           DropReceiver, SpawnBacklog, SpawnGranted, SelectTurn, AbsorbHop, Refill, ClaimLink,
           EnqueueLinks, AbortHops, Spill, Task, Prepare, Fetch, Landed, Extract, Panic, TaskStep, vars, pending
  <2> QED BY <2>1, Shrinks DEF Folding, Delivered, Fated
<1>2. CASE AdmitRejects \/ AbsorbEnd \/ AbsorbFailedPage
  <2>1. inFlight' \subseteq inFlight /\ UNCHANGED page
    BY <1>2 DEF AdmitRejects, AbsorbEnd, AbsorbFailedPage, pending
  <2>2. \E u \in Urls : \E f \in {"filtered", "failed", "crashed"} : SetFate(u, f)
    <3>1. CASE AdmitRejects
      BY <3>1 DEF AdmitRejects, Selectable, IInv, TypeOK
    <3>2. CASE AbsorbEnd
      BY <3>2 DEF AbsorbEnd
    <3>3. CASE AbsorbFailedPage
      BY <3>3 DEF AbsorbFailedPage, InPhase
    <3> QED BY <1>2, <3>1, <3>2, <3>3
  <2>3. Delivered' \subseteq Delivered
    BY <2>2, NotDelivered DEF SetFate, Fates
  <2> QED BY <2>1, <2>3, Shrinks DEF Folding
<1>3. CASE DiscoveryFails
  <2>1. /\ UNCHANGED inFlight /\ page' = NoUrl
        /\ \E f \in Fates \ {"page"} : fate' = [fate EXCEPT ![page] = f]
    BY <1>3 DEF DiscoveryFails, SetFate, Fates
  <2> QED BY <2>1, NotDelivered, Shrinks DEF Folding
<1>4. CASE SpillFails
  <2>1. UNCHANGED <<inFlight, page>> /\ Delivered' \subseteq Delivered
    BY <1>4 DEF SpillFails, pending, Delivered, Fated
  <2> QED BY <2>1, Shrinks DEF Folding
<1> QED BY <1>1, <1>2, <1>3, <1>4, AdmitLimit, AbsorbPageLimit, DeliverLimit DEF Next, Loop, Control

(* The crawl never overshoots max_pages, whatever is in flight when the    *)
(* last page arrives (the ceiling of spawn_pending_fetches).               *)
THEOREM PageLimit == Spec => []WithinMaxPages
<1>1. Init => WithinMaxPages
  <2> SUFFICES ASSUME Init PROVE WithinMaxPages
    OBVIOUS
  <2>1. Fated("page") = {} /\ inFlight = {} /\ {page} \ {NoUrl} = {}
    BY DEF Init, Fated
  <2> QED BY <2>1, FS_EmptySet, LimitAssumption DEF WithinMaxPages, PagesProcessed
<1>2. IInv /\ WithinMaxPages /\ [Next]_vars => WithinMaxPages'
    BY LimitNext
<1> QED BY <1>1, <1>2, Invariance, PTL DEF Spec

-----------------------------------------------------------------------------
(* The concurrency limits *)

(* Before the first refill says what the frontier can do, nothing has been *)
(* taken from it, and the refill cannot be skipped.                        *)
NothingYet ==
    hostAware # HostAware => inFlight = {} /\ window = {} /\ mayHave /\ pc # "admit"
(* The room the pass found is still there when an entry is admitted. *)
RoomToAdmit ==
    pc = "admit" => HasRoom /\ (~hostAware => Cardinality(inFlight) < MaxConcurrent)

LInv == NothingYet /\ RoomToAdmit /\ WithinMaxConcurrent

LEMMA Fewer ==
    ASSUME NEW T, IsFiniteSet(T), NEW S, S \subseteq T
    PROVE  Cardinality(S) \in Nat /\ Cardinality(T) \in Nat /\ Cardinality(S) <= Cardinality(T)
BY FS_Subset, FS_CardinalityType

LEMMA OneMore ==
    ASSUME NEW T, IsFiniteSet(T), NEW u, NEW S, S \subseteq T \cup {u},
           Cardinality(T) < MaxConcurrent
    PROVE  Cardinality(S) <= MaxConcurrent
<1>1. IsFiniteSet(T \cup {u}) /\ Cardinality(T) \in Nat
      /\ Cardinality(T \cup {u}) <= Cardinality(T) + 1
  <2>1. /\ IsFiniteSet(T \cup {u}) /\ Cardinality(T) \in Nat
        /\ Cardinality(T \cup {u}) = IF u \in T THEN Cardinality(T) ELSE Cardinality(T) + 1
    BY FS_AddElement, FS_CardinalityType
  <2> QED BY <2>1
<1>2. Cardinality(S) \in Nat /\ Cardinality(T \cup {u}) \in Nat
      /\ Cardinality(S) <= Cardinality(T \cup {u})
    BY <1>1, Fewer
<1> QED BY <1>1, <1>2, LimitAssumption

LEMMA TasksFinite == ASSUME TypeOK PROVE IsFiniteSet(JoinSet) /\ IsFiniteSet(window) /\ IsFiniteSet(inFlight)
<1>1. JoinSet \subseteq Urls /\ window \subseteq Urls /\ inFlight \subseteq Urls
    BY DEF TypeOK, JoinSet, InPhase
<1> QED BY <1>1, UrlAssumption, FS_Subset

(* A step that adds no task, no entry to the window and none in flight. *)
LEMMA LimitsShrink ==
    ASSUME TypeOK, WithinMaxConcurrent, JoinSet' \subseteq JoinSet, inFlight' \subseteq inFlight,
           Looping' => Looping /\ window' \subseteq window
    PROVE  WithinMaxConcurrent'
<1>1. Cardinality(JoinSet') \in Nat /\ Cardinality(JoinSet) \in Nat
      /\ Cardinality(JoinSet') <= Cardinality(JoinSet)
    BY TasksFinite, Fewer
<1>2. Cardinality(inFlight') \in Nat /\ Cardinality(inFlight) \in Nat
      /\ Cardinality(inFlight') <= Cardinality(inFlight)
    BY TasksFinite, Fewer
<1>3. ASSUME Looping'
      PROVE  /\ Cardinality(window') \in Nat /\ Cardinality(window) \in Nat
             /\ Cardinality(window') <= Cardinality(window)
    BY <1>3, TasksFinite, Fewer
<1> QED BY <1>1, <1>2, <1>3, LimitAssumption DEF WithinMaxConcurrent

(* A step that starts one task in the room there is, and admits nothing. *)
LEMMA LimitsSpawn ==
    ASSUME TypeOK, WithinMaxConcurrent, HasRoom, NEW u \in Urls, JoinSet' \subseteq JoinSet \cup {u},
           UNCHANGED <<inFlight, window>>, Looping
    PROVE  WithinMaxConcurrent'
<1>1. Cardinality(JoinSet') <= MaxConcurrent
    BY TasksFinite, OneMore DEF HasRoom
<1> QED BY <1>1 DEF WithinMaxConcurrent

LEMMA RefillLimits == ASSUME TypeOK, LInv, Refill PROVE LInv'
<1>1. PICK popped :
        /\ Cardinality(popped) <= MaxConcurrent - Cardinality(window)
        /\ popped \in SUBSET Eligible /\ window' = window \cup popped
    BY DEF Refill
<1>2. /\ MayAdmit /\ hostAware' = HostAware /\ pc' = "admit" /\ UNCHANGED <<inFlight, hop>>
      /\ UNCHANGED JoinSet
    BY DEF Refill, hops, JoinSet, InPhase
<1>3. IsFiniteSet(popped)
  <2>1. popped \subseteq Urls
    BY <1>1 DEF Eligible, TypeOK
  <2> QED BY <2>1, UrlAssumption, FS_Subset
<1>4. Cardinality(window') <= MaxConcurrent
  <2>1. /\ Cardinality(window \cup popped) = Cardinality(window) + Cardinality(popped)
                                             - Cardinality(window \cap popped)
    BY <1>3, TasksFinite, FS_Union
  <2>2. /\ Cardinality(window) \in Nat /\ Cardinality(popped) \in Nat
        /\ Cardinality(window \cap popped) \in Nat
    BY <1>3, TasksFinite, FS_Intersection, FS_CardinalityType
  <2> QED BY <1>1, <2>1, <2>2, LimitAssumption
<1>5. WithinMaxConcurrent'
    BY <1>2, <1>4 DEF WithinMaxConcurrent, LInv
<1>6. RoomToAdmit'
  <2>1. ASSUME ~HostAware PROVE Cardinality(inFlight) < MaxConcurrent
    <3>1. CASE hostAware = HostAware
      BY <3>1, <2>1, <1>2 DEF MayAdmit
    <3>2. CASE hostAware # HostAware
      <4>1. inFlight = {}
        BY <3>2 DEF LInv, NothingYet
      <4> QED BY <4>1, FS_EmptySet, LimitAssumption
    <3> QED BY <3>1, <3>2
  <2> QED BY <2>1, <1>2 DEF RoomToAdmit, HasRoom, MayAdmit
<1> QED BY <1>2, <1>5, <1>6 DEF LInv, NothingYet

LEMMA AdmitLimits == ASSUME TypeOK, LInv, Admit PROVE LInv'
<1>1. PICK u \in Selectable :
        /\ window' = window \ {u} /\ inFlight' = inFlight \cup {u}
        /\ hop' \in {[hop EXCEPT ![u] = "extract"], [hop EXCEPT ![u] = "prepare"]}
    BY DEF Admit, SetHop
<1>2. pc = "admit" /\ pc' = "spawn" /\ UNCHANGED hostAware
    BY DEF Admit, flags
<1>3. hostAware = HostAware /\ HasRoom /\ (~hostAware => Cardinality(inFlight) < MaxConcurrent)
    BY <1>2 DEF LInv, NothingYet, RoomToAdmit
<1>4. Cardinality(JoinSet') <= MaxConcurrent
  <2>1. JoinSet' \subseteq JoinSet \cup {u}
    BY <1>1 DEF JoinSet, InPhase, TypeOK
  <2> QED BY <2>1, <1>3, TasksFinite, OneMore DEF HasRoom
<1>5. Cardinality(window') <= MaxConcurrent
  <2>1. Cardinality(window') \in Nat /\ Cardinality(window) \in Nat
        /\ Cardinality(window') <= Cardinality(window)
    BY <1>1, TasksFinite, Fewer
  <2> QED BY <2>1, <1>2, LimitAssumption DEF LInv, WithinMaxConcurrent, Looping
<1>6. ~HostAware => Cardinality(inFlight') <= MaxConcurrent
    BY <1>1, <1>3, TasksFinite, OneMore
<1> QED BY <1>2, <1>3, <1>4, <1>5, <1>6 DEF LInv, NothingYet, RoomToAdmit, WithinMaxConcurrent

LEMMA SpawnLimits == ASSUME TypeOK, LInv, SpawnBacklog \/ SpawnGranted \/ SelectTurn PROVE LInv'
<1>1. /\ HasRoom /\ UNCHANGED <<inFlight, window, flags>> /\ Looping /\ pc' # "admit"
      /\ \E u \in Urls, p \in Phases : SetHop(u, p)
  <2>1. CASE SpawnBacklog
    BY <2>1 DEF SpawnBacklog, PrepareBacklog, InPhase, Looping, Phases, Running
  <2>2. CASE SpawnGranted
    BY <2>2 DEF SpawnGranted, Grant, Looping, Phases, Running, Finished
  <2>3. CASE SelectTurn
    BY <2>3 DEF SelectTurn, Grant, Looping, Phases, Running, Finished
  <2> QED BY <2>1, <2>2, <2>3
<1>2. PICK u \in Urls : JoinSet' \subseteq JoinSet \cup {u}
    BY <1>1 DEF SetHop, JoinSet, InPhase, TypeOK
<1>3. WithinMaxConcurrent'
    BY <1>1, <1>2, LimitsSpawn DEF LInv
<1> QED BY <1>1, <1>3 DEF LInv, NothingYet, RoomToAdmit, flags

(* Tasks move among themselves: nothing the loop counts changes. *)
LEMMA TasksKeep ==
    ASSUME TypeOK, DropReceiver \/ (\E u \in Urls : Task(u) \/ Panic(u)) \/ UNCHANGED vars
    PROVE  /\ UNCHANGED <<frontier, window, inFlight, flags, pc, ending, fate, cancelled>>
           /\ JoinSet' = JoinSet /\ HostTurns' = HostTurns
<1>1. UNCHANGED <<frontier, window, inFlight, flags, pc, ending, fate, cancelled>>
    BY DEF DropReceiver, Task, Panic, Prepare, Fetch, Landed, Extract, TaskStep, vars, front
<1>2. CASE DropReceiver \/ UNCHANGED vars
    BY <1>1, <1>2 DEF DropReceiver, vars, hops, JoinSet, HostTurns, InPhase
<1>3. CASE \E u \in Urls : Task(u) \/ Panic(u)
  <2>1. PICK u \in Urls : Task(u) \/ Panic(u)
    BY <1>3
  <2>2. hop[u] \in Running
    BY <2>1 DEF Task, Panic, Prepare, Fetch, Landed, Extract, Running
  <2>3. \E p \in Running \cup Finished : SetHop(u, p)
    BY <2>1 DEF Task, Panic, Prepare, Fetch, Landed, Extract, Answered, AdmitsHop, Running, Finished
  <2> QED BY <1>1, <2>2, <2>3 DEF SetHop, JoinSet, HostTurns, InPhase, Running, Finished, TypeOK
<1> QED BY <1>2, <1>3

LEMMA TaskLimits ==
    ASSUME TypeOK, LInv, DropReceiver \/ (\E u \in Urls : Task(u) \/ Panic(u)) \/ UNCHANGED vars
    PROVE  LInv'
BY TasksKeep DEF LInv, NothingYet, RoomToAdmit, WithinMaxConcurrent, HasRoom, Looping, flags

LEMMA OtherLimits ==
    ASSUME TypeOK, LInv,
           \/ Control \/ AbsorbHop \/ AdmitRejects \/ AbsorbEnd \/ AbsorbFailedPage \/ AbsorbPage
           \/ ClaimLink \/ EnqueueLinks \/ DiscoveryFails \/ FilterPage \/ FilterFails
           \/ DeliverPage \/ AbortHops \/ Spill \/ SpillFails
    PROVE  LInv'
<1> USE DEF Control, LoopHead, SpawnFull, SpawnLegacyBound, RefillNotNeeded, RefillFails, AdmitNothing,
        AskFrontierAgain, AskFrontierFails, Drained, SelectReceiverClosed, LoopTail, Finish, EndPass, Raise,
        AbsorbHop, AdmitRejects, AbsorbEnd, AbsorbFailedPage, AbsorbPage, ClaimLink, EnqueueLinks,
        DiscoveryFails, FilterPage, FilterFails, DeliverPage, AbortHops, Spill, SpillFails
<1>1. JoinSet' \subseteq JoinSet
  <2>1. CASE UNCHANGED hop
    BY <2>1 DEF JoinSet, InPhase
  <2>2. CASE \E u \in Urls : \E p \in {"turn", "backlog", "none"} : SetHop(u, p)
    BY <2>2 DEF SetHop, JoinSet, InPhase, Running, Finished, TypeOK
  <2>3. CASE hop' = [u \in Urls |-> "none"]
    BY <2>3 DEF JoinSet, InPhase, Running, Finished
  <2> QED BY <2>1, <2>2, <2>3 DEF hops, InPhase
<1>2. inFlight' \subseteq inFlight /\ window' \subseteq window \cup inFlight /\ UNCHANGED hostAware
    BY DEF flags, Selectable
<1>3. Looping' => Looping /\ window' \subseteq window
    BY DEF Looping, MayAdmit
<1>4. mayHave => mayHave'
    BY DEF flags
<1>5. pc' = "admit" => RefillNotNeeded /\ UNCHANGED <<inFlight, hop>>
    BY DEF hops
<1> USE DEF MayAdmit
<1>6. WithinMaxConcurrent'
    BY <1>1, <1>2, <1>3, LimitsShrink DEF LInv
<1>7. RoomToAdmit'
  <2>1. pc' = "admit" => UNCHANGED JoinSet
    BY <1>5 DEF JoinSet, InPhase
  <2> QED BY <2>1, <1>2, <1>5 DEF RoomToAdmit, HasRoom
<1>8. NothingYet'
  <2>1. window = {} => Cardinality(window) < MaxConcurrent
    BY FS_EmptySet, LimitAssumption
  <2> QED BY <2>1, <1>2, <1>4, <1>5 DEF LInv, NothingYet
<1> QED BY <1>6, <1>7, <1>8 DEF LInv

(* However hops come back for a turn, through the backlog, the spawn pass  *)
(* or the select branch, no more than max_concurrent tasks run, and no     *)
(* more entries are admitted if the frontier cannot pop around hosts.      *)
THEOREM ConcurrencyLimits == Spec => []WithinMaxConcurrent
<1>1. Init => LInv
  <2> SUFFICES ASSUME Init PROVE LInv
    OBVIOUS
  <2>1. JoinSet = {} /\ window = {} /\ inFlight = {} /\ mayHave /\ pc = "head"
    BY DEF Init, JoinSet, InPhase, Running, Finished
  <2> QED BY <2>1, FS_EmptySet, LimitAssumption
          DEF LInv, NothingYet, RoomToAdmit, WithinMaxConcurrent
<1>2. TypeOK /\ LInv /\ [Next]_vars => LInv'
  <2> SUFFICES ASSUME TypeOK, LInv, [Next]_vars PROVE LInv'
    OBVIOUS
  <2> QED BY RefillLimits, AdmitLimits, SpawnLimits, TaskLimits, OtherLimits
          DEF Next, Loop, Control
<1>3. LInv => WithinMaxConcurrent
    BY DEF LInv
<1> QED BY <1>1, <1>2, <1>3, TypeCorrect, PTL DEF Spec

-----------------------------------------------------------------------------
(* Why the loop stops *)

(* Why a spawn pass ended, as far as the select that follows relies on it. *)
PassReason ==
    pc = "select" =>
        /\ ending # "none"
        /\ ending = "full" => JoinSet # {}
        /\ ending = "legacy" => inFlight # {}
        /\ ending = "blocked" => HostTurns # {}
        /\ ending = "ceiling" => AtCeiling
        /\ ending = "empty" => window = {} /\ ~mayHave
(* A window that is still empty after its refill has cleared the latch. *)
RefilledInVain == pc = "admit" /\ window = {} => ~mayHave
(* Since the frontier was asked no host was blocked: a refill that came    *)
(* back short has taken all there was.                                     *)
AskedIsAll ==
    drainConfirmed /\ ~ShortPops /\ pc \in {"head", "spawn", "admit", "select"} =>
        HostTurns = {} /\ (~mayHave => frontier = {})
(* Only a delivery cancels the crawl, and it says why. *)
CancelledFor ==
    cancelled =>
        /\ pc \in {"tail", "head", "exit", "spill", "done"}
        /\ ending \in {"receiver", "ceiling", "strategy", "error"}
        /\ ending = "ceiling" => PagesProcessed >= MaxPages
StopReason ==
    ~Looping =>
        /\ ending \notin {"none", "full", "legacy", "blocked"}
        /\ ending = "ceiling" => PagesProcessed >= MaxPages
        /\ ending = "empty" /\ ~ShortPops => frontier = {} /\ window = {} /\ inFlight = {}

Reasons == PassReason /\ RefilledInVain /\ AskedIsAll /\ CancelledFor /\ StopReason

LEMMA PagesKept == ASSUME UNCHANGED fate PROVE PagesProcessed' = PagesProcessed
BY DEF PagesProcessed, Fated

LEMMA IdleRunsNothing ==
    ASSUME IInv, InFlightIsRunning, Looping, Idle
    PROVE  inFlight = {}
<1>1. \A u \in Urls : hop[u] = "none"
    BY DEF Idle, JoinSet, HostTurns, PrepareBacklog, InPhase, Phases, IInv, TypeOK
<1> QED BY <1>1 DEF InFlightIsRunning, IInv, TypeOK

LEMMA TasksReason ==
    ASSUME TypeOK, Reasons, DropReceiver \/ (\E u \in Urls : Task(u) \/ Panic(u)) \/ UNCHANGED vars
    PROVE  Reasons'
BY TasksKeep, PagesKept DEF Reasons, PassReason, RefilledInVain, AskedIsAll, CancelledFor, StopReason,
       Looping, AtCeiling, flags

(* The end of a spawn pass. *)
LEMMA PassEnds ==
    ASSUME TypeOK, Reasons, SpawnFull \/ SpawnLegacyBound \/ AdmitNothing
    PROVE  Reasons'
<1>1. /\ UNCHANGED <<frontier, window, inFlight, flags, hop, fate, cancelled>>
      /\ pc' = "select" /\ pc \in {"spawn", "admit"}
    BY DEF SpawnFull, SpawnLegacyBound, AdmitNothing, EndPass, MayAdmit, front, hops
<1>2. UNCHANGED <<JoinSet, HostTurns, AtCeiling>>
    BY <1>1, PagesKept DEF JoinSet, HostTurns, InPhase, AtCeiling
<1>3. PassReason'
  <2>1. CASE SpawnFull
    <3>1. JoinSet # {}
      BY <2>1, FS_EmptySet, LimitAssumption DEF SpawnFull, HasRoom
    <3> QED BY <3>1, <2>1, <1>2 DEF SpawnFull, EndPass, PassReason
  <2>2. CASE SpawnLegacyBound
    <3>1. inFlight # {}
      BY <2>2, FS_EmptySet, LimitAssumption DEF SpawnLegacyBound
    <3> QED BY <3>1, <2>2, <1>1 DEF SpawnLegacyBound, EndPass, PassReason
  <2>3. CASE AdmitNothing
    <3>1. window # {} /\ Selectable = {} => HostTurns # {}
      BY DEF Selectable, BlockedHosts
    <3>2. window = {} => ~mayHave
      BY <2>3 DEF AdmitNothing, Reasons, RefilledInVain
    <3> QED BY <3>1, <3>2, <2>3, <1>1, <1>2 DEF AdmitNothing, EndPass, PassReason, flags
  <2> QED BY <2>1, <2>2, <2>3
<1> QED BY <1>1, <1>2, <1>3
        DEF Reasons, RefilledInVain, AskedIsAll, CancelledFor, StopReason, Looping, flags

LEMMA RefillReason == ASSUME TypeOK, Reasons, Refill PROVE Reasons'
<1>1. PICK popped \in SUBSET Eligible :
        LET wanted == MaxConcurrent - Cardinality(window) IN
        /\ Cardinality(popped) <= wanted
        /\ ShortPops \/ Cardinality(popped) = Smaller(wanted, Cardinality(Eligible))
        /\ frontier' = frontier \ popped /\ window' = window \cup popped
        /\ mayHave' = (Cardinality(popped) = wanted)
    BY DEF Refill
<1>2. /\ pc = "spawn" /\ pc' = "admit" /\ UNCHANGED <<cancelled, drainConfirmed, HostTurns>>
    BY DEF Refill, MayAdmit, hops, HostTurns, InPhase
<1>3. RefilledInVain'
  <2>1. window' = {} => Cardinality(window) = 0 /\ Cardinality(popped) = 0
    BY <1>1, FS_EmptySet
  <2>2. window' = {} => Cardinality(popped) # MaxConcurrent - Cardinality(window)
    BY <2>1, LimitAssumption
  <2>3. mayHave' <=> Cardinality(popped) = MaxConcurrent - Cardinality(window)
    BY <1>1
  <2> QED BY <2>2, <2>3 DEF RefilledInVain
<1>4. AskedIsAll'
  <2>1. ASSUME drainConfirmed, ~ShortPops, ~mayHave' PROVE frontier' = {}
    <3>1. Eligible = frontier
      BY <2>1, <1>2 DEF Reasons, AskedIsAll, Eligible, BlockedHosts
    <3>2. IsFiniteSet(frontier) /\ Cardinality(frontier) \in Nat /\ Cardinality(window) \in Nat
      <4>1. IsFiniteSet(frontier)
        BY UrlAssumption, FS_Subset DEF TypeOK
      <4> QED BY <4>1, TasksFinite, FS_CardinalityType
    <3>3. Cardinality(popped) = Cardinality(frontier)
      BY <2>1, <3>1, <3>2, <1>1, LimitAssumption DEF Smaller
    <3>4. popped = frontier
      BY <3>1, <3>2, <3>3, FS_Subset
    <3> QED BY <3>4, <1>1
  <2> QED BY <2>1, <1>2 DEF Reasons, AskedIsAll
<1> QED BY <1>2, <1>3, <1>4 DEF Reasons, PassReason, CancelledFor, StopReason, Looping

LEMMA DeliverReason == ASSUME IInv, Reasons, DeliverPage PROVE Reasons'
<1>1. page \in Urls /\ fate[page] = "none" /\ pc = "deliver" /\ pc' = "tail" /\ ~cancelled
    BY DEF DeliverPage, IInv, TypeOK, Whereabouts, Reasons, CancelledFor
<1>2. ASSUME fate' = [fate EXCEPT ![page] = "page"] PROVE PagesProcessed' = PagesProcessed + 1
  <2>1. Delivered' = Delivered \cup {page} /\ page \notin Delivered
    BY <1>1, <1>2 DEF Delivered, Fated, IInv, TypeOK
  <2> QED BY <2>1, SizesFinite, FS_AddElement DEF PagesProcessed, Delivered
<1> QED BY <1>1, <1>2 DEF DeliverPage, SetFate, Reasons, PassReason, RefilledInVain, AskedIsAll,
        CancelledFor, StopReason, Looping

(* The ways out of the loop, and what follows. *)
LEMMA ExitReason ==
    ASSUME IInv, InFlightIsRunning, Reasons,
           LoopHead \/ Drained \/ AbortHops \/ Spill \/ SpillFails \/ Finish
    PROVE  Reasons'
<1>1. CASE Drained
  <2>1. inFlight = {} /\ JoinSet = {} /\ HostTurns = {} /\ pc = "select"
    BY <1>1, IdleRunsNothing DEF Drained, Idle, Looping
  <2>2. AtCeiling => PagesProcessed >= MaxPages
    BY <2>1, SizesFinite, FS_EmptySet, LimitAssumption DEF AtCeiling, PagesProcessed, Delivered
  <2>3. ending = "empty" /\ ~ShortPops => frontier = {}
    BY <1>1, <2>1 DEF Drained, Reasons, PassReason, AskedIsAll
  <2> QED BY <1>1, <2>1, <2>2, <2>3, PagesKept
          DEF Drained, Reasons, PassReason, RefilledInVain, AskedIsAll, CancelledFor, StopReason,
              Looping, front, flags
<1>2. CASE LoopHead
    BY <1>2, PagesKept DEF LoopHead, Reasons, PassReason, RefilledInVain, AskedIsAll, CancelledFor,
       StopReason, Looping, front, flags, hops, HostTurns, InPhase
<1>3. CASE AbortHops \/ Spill \/ Finish
  <2>1. UNCHANGED <<fate, ending, cancelled>> /\ ~Looping /\ pc' \in {"spill", "done"}
    BY <1>3 DEF AbortHops, Spill, Finish, Looping
  <2>2. ending = "empty" /\ ~ShortPops => frontier' = {} /\ window' = {} /\ inFlight' = {}
    BY <1>3, <2>1 DEF AbortHops, Spill, Finish, front, Reasons, StopReason
  <2> QED BY <2>1, <2>2, PagesKept
          DEF Reasons, PassReason, RefilledInVain, AskedIsAll, CancelledFor, StopReason, Looping
<1>4. CASE SpillFails
    BY <1>4 DEF SpillFails, Reasons, PassReason, RefilledInVain, AskedIsAll, CancelledFor, StopReason,
       Looping
<1> QED BY <1>1, <1>2, <1>3, <1>4

(* The turns of the loop in between. *)
LEMMA TurnReason ==
    ASSUME IInv, Reasons,
           \/ RefillNotNeeded \/ RefillFails \/ AskFrontierAgain \/ AskFrontierFails
           \/ SelectReceiverClosed \/ LoopTail \/ SpawnBacklog \/ SpawnGranted \/ SelectTurn
           \/ Admit \/ AdmitRejects \/ AbsorbHop \/ AbsorbEnd \/ AbsorbFailedPage \/ AbsorbPage
           \/ ClaimLink \/ EnqueueLinks \/ DiscoveryFails \/ FilterPage \/ FilterFails
    PROVE  Reasons'
<1> USE DEF RefillNotNeeded, RefillFails, AskFrontierAgain, AskFrontierFails, SelectReceiverClosed,
        LoopTail, SpawnBacklog, SpawnGranted, SelectTurn, Admit, AdmitRejects, AbsorbHop, AbsorbEnd,
        AbsorbFailedPage, AbsorbPage, ClaimLink, EnqueueLinks, DiscoveryFails, FilterPage, FilterFails,
        Raise, MayAdmit
<1>1. pc' # "select" /\ Looping
    BY DEF Looping
<1>2. RefilledInVain'
  <2>1. window = {} => Cardinality(window) < MaxConcurrent
    BY FS_EmptySet, LimitAssumption
  <2> QED BY <2>1 DEF RefilledInVain, flags
<1>3. AskedIsAll'
  <2>1. CASE AskFrontierAgain
    BY <2>1 DEF AskedIsAll, Idle, hops, HostTurns, InPhase
  <2>2. CASE SpawnBacklog \/ SpawnGranted \/ Admit \/ AdmitRejects \/ RefillNotNeeded
    <3>1. HostTurns' \subseteq HostTurns
      BY <2>2 DEF Grant, SetHop, HostTurns, InPhase, hops, IInv, TypeOK
    <3>2. /\ UNCHANGED <<frontier, mayHave, drainConfirmed>>
          /\ pc \in {"spawn", "admit"}
      BY <2>2 DEF front, flags
    <3> QED BY <3>1, <3>2 DEF Reasons, AskedIsAll
  <2>3. CASE LoopTail
    BY <2>3 DEF AskedIsAll
  <2> QED BY <2>1, <2>2, <2>3 DEF AskedIsAll
<1>4. CancelledFor'
  <2>1. CASE LoopTail \/ RefillFails \/ AskFrontierFails \/ SelectReceiverClosed
    BY <2>1, PagesKept DEF Reasons, CancelledFor
  <2>2. cancelled' = cancelled
    OBVIOUS
  <2> QED BY <2>1, <2>2 DEF Reasons, CancelledFor
<1>5. StopReason'
    BY DEF StopReason, Looping
<1> QED BY <1>1, <1>2, <1>3, <1>4, <1>5 DEF Reasons, PassReason

LEMMA ReasonsNext ==
    ASSUME IInv, InFlightIsRunning, Reasons, [Next]_vars PROVE Reasons'
BY TasksReason, PassEnds, RefillReason, DeliverReason, ExitReason, TurnReason DEF Next, Loop, IInv

(* As long as no task panics: the crawl never stops because all room was   *)
(* taken or every host blocked while nothing runs, at the page ceiling     *)
(* only with max_pages pages, and for want of work only when the frontier  *)
(* has none, unless the frontier itself held entries back.                 *)
THEOREM EndsWithReason == ASSUME MayPanic = FALSE PROVE Spec => []EndsForAReason
<1>1. Init => Reasons
    BY DEF Init, Reasons, PassReason, RefilledInVain, AskedIsAll, CancelledFor, StopReason, Looping
<1>2. IInv /\ InFlightIsRunning /\ Reasons /\ [Next]_vars => Reasons'
    BY ReasonsNext
<1>3. IInv /\ WithinMaxPages /\ Reasons => EndsForAReason
  <2> SUFFICES ASSUME IInv, WithinMaxPages, Reasons PROVE EndsForAReason
    OBVIOUS
  <2>1. PagesProcessed \in Nat /\ PagesProcessed <= MaxPages
    BY SizesFinite, LimitAssumption DEF WithinMaxPages, PagesProcessed, Delivered, Folding
  <2> QED BY <2>1, LimitAssumption DEF EndsForAReason, Reasons, StopReason, Looping
<1> QED BY <1>1, <1>2, <1>3, Invariance, InFlightRuns, PageLimit, PTL DEF Spec
=============================================================================
