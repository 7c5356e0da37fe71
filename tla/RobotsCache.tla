---------------------------- MODULE RobotsCache ----------------------------
(***************************************************************************)
(* The cache of robots.txt rules every crawl of an engine shares           *)
(* (engine/robots_cache.rs): a bounded table of slots, one per origin and  *)
(* user agent.  Concurrent reads of one key meet in its slot and fetch     *)
(* once; a slot nobody uses may be evicted for another key; a read that    *)
(* finds the table full of slots in use waits to be notified.              *)
(*                                                                         *)
(* A call is one get_or_fetch; a slot is named after the call that made    *)
(* it.  Which idle slot is evicted (the least recently used) and which of  *)
(* the waiting futures is notified (the first) are abstracted to any; time *)
(* is a cached outcome that may expire at any moment.                      *)
(***************************************************************************)
EXTENDS Naturals, FiniteSets

CONSTANTS Calls, Keys,
          KeyOf,       \* [Calls -> Keys], what each call asks for
          MaxEntries,
          Suspends,    \* a call may be suspended, and so dropped, at the table's mutex
          NoSlot       \* absence of a slot

ASSUME CallsAssumption == NoSlot \notin Calls /\ KeyOf \in [Calls -> Keys]
ASSUME KeysAssumption == IsFiniteSet(Keys)
ASSUME LimitAssumption == MaxEntries \in Nat \ {0} /\ Suspends \in BOOLEAN

VARIABLES phase,    \* how far each call is
          slot,     \* the slot it uses
          notified, \* its Notified future: none, registered, notified, or done at once
          permit,   \* the permit stored by a notify_one nobody waited for
          entries,  \* the slot of each key
          cached    \* what each slot holds: nothing, or an outcome within its ttl or past it

notify == <<notified, permit>>
vars == <<phase, slot, notify, entries, cached>>

Phases == {"idle", "armed", "waiting", "woken", "using", "fetching", "leaving", "released", "ended"}

-----------------------------------------------------------------------------
(* A call has a CacheUse; CacheSlot::users counts those of the slot. *)
Uses(c) == slot[c] # NoSlot
InUse(s) == \E c \in Calls : Uses(c) /\ slot[c] = s

Cached == {k \in Keys : entries[k] # NoSlot}
Full == Cardinality(Cached) >= MaxEntries

(* Wrong: the users of a slot do not keep it from being evicted. *)
EvictableAnyway == Cached

(* The keys whose slot nobody uses. *)
Evictable == {k \in Cached : ~InUse(entries[k])}

Init ==
    /\ phase = [c \in Calls |-> "idle"]
    /\ slot = [c \in Calls |-> NoSlot]
    /\ notified = [c \in Calls |-> "none"]
    /\ permit = FALSE
    /\ entries = [k \in Keys |-> NoSlot]
    /\ cached = [s \in Calls |-> "nothing"]

Goto(c, p) == phase' = [phase EXCEPT ![c] = p]

-----------------------------------------------------------------------------
(* tokio::sync::Notify *)

(* notify_one, once c's own future is gone: some registered future is      *)
(* notified, or the permit is stored.                                      *)
Registered == {d \in Calls : notified[d] = "registered"}

NotifyOne(c) ==
    \/ /\ Registered \subseteq {c}
       /\ permit' = TRUE
       /\ notified' = [notified EXCEPT ![c] = "none"]
    \/ /\ \E d \in Registered \ {c} :
            notified' = [notified EXCEPT ![c] = "none", ![d] = "notified"]
       /\ UNCHANGED permit

(* A Notified future is dropped: a notification it never used goes to the  *)
(* next one; a permit it took when it was armed is gone.                   *)
DropNotified(c) ==
    IF notified[c] = "notified"
    THEN NotifyOne(c)
    ELSE notified' = [notified EXCEPT ![c] = "none"] /\ UNCHANGED permit

-----------------------------------------------------------------------------
(* acquire *)

(* notified(), enable(): before the table is looked at. *)
Arm(c) ==
    /\ phase[c] \in {"idle", "woken"}
    /\ Goto(c, "armed")
    /\ notified' = [notified EXCEPT ![c] = IF permit THEN "done" ELSE "registered"]
    /\ permit' = FALSE
    /\ UNCHANGED <<slot, entries, cached>>

(* The key has a slot: use it. *)
Share(c) ==
    /\ phase[c] = "armed" /\ KeyOf[c] \in Cached
    /\ Goto(c, "using")
    /\ slot' = [slot EXCEPT ![c] = entries[KeyOf[c]]]
    /\ DropNotified(c)
    /\ UNCHANGED <<entries, cached>>

Insert(c, evicted) ==
    /\ entries' = [k \in Keys |-> IF k = KeyOf[c] THEN c
                                  ELSE IF k \in evicted THEN NoSlot ELSE entries[k]]
    /\ slot' = [slot EXCEPT ![c] = c]
    /\ Goto(c, "using")
    /\ DropNotified(c)
    /\ UNCHANGED cached

(* Wrong: a table full of slots in use grows. *)
CreateBeyondLimit(c) ==
    /\ phase[c] = "armed" /\ KeyOf[c] \notin Cached
    /\ \/ (~Full \/ Evictable = {}) /\ Insert(c, {})
       \/ Full /\ \E k \in Evictable : Insert(c, {k})

(* It has none: make one, in place of an idle one when the table is full. *)
Create(c) ==
    /\ phase[c] = "armed" /\ KeyOf[c] \notin Cached
    /\ \/ ~Full /\ Insert(c, {})
       \/ Full /\ \E k \in Evictable : Insert(c, {k})

(* Every slot is in use: wait. *)
Wait(c) ==
    /\ phase[c] = "armed" /\ KeyOf[c] \notin Cached /\ Full /\ Evictable = {}
    /\ Goto(c, "waiting")
    /\ UNCHANGED <<slot, notify, entries, cached>>

(* notified.await returns; the loop starts again with a new future. *)
Wake(c) ==
    /\ phase[c] = "waiting" /\ notified[c] \in {"notified", "done"}
    /\ Goto(c, "woken")
    /\ notified' = [notified EXCEPT ![c] = "none"]
    /\ UNCHANGED <<slot, permit, entries, cached>>

-----------------------------------------------------------------------------
(* get_or_fetch, with a slot *)

(* The slot's mutex is held across the fetch only. *)
SlotLocked(s) == \E d \in Calls : phase[d] = "fetching" /\ slot[d] = s

Read(c) ==
    /\ phase[c] = "using" /\ ~SlotLocked(slot[c])
    /\ IF cached[slot[c]] = "fresh" THEN Goto(c, "leaving") ELSE Goto(c, "fetching")
    /\ UNCHANGED <<slot, notify, entries, cached>>

Fetched(c) ==
    /\ phase[c] = "fetching"
    /\ cached' = [cached EXCEPT ![slot[c]] = "fresh"]
    /\ Goto(c, "leaving")
    /\ UNCHANGED <<slot, notify, entries>>

(* The outcome of a slot that is still in the table outlives its ttl. *)
Expire(k) ==
    /\ k \in Cached /\ cached[entries[k]] = "fresh"
    /\ cached' = [cached EXCEPT ![entries[k]] = "stale"]
    /\ UNCHANGED <<phase, slot, notify, entries>>

(* Wrong: the notification goes out before the slot is given up. *)
DropUseNotifyingFirst(c) ==
    /\ \/ /\ phase[c] = "leaving"
          /\ Goto(c, "released") /\ NotifyOne(c) /\ slot' = slot
       \/ /\ phase[c] = "released"
          /\ Goto(c, "ended") /\ slot' = [slot EXCEPT ![c] = NoSlot]
          /\ UNCHANGED <<notify>>
    /\ UNCHANGED <<entries, cached>>

(* CacheUse::drop: give the slot up, then notify. *)
DropUse(c) ==
    /\ \/ /\ phase[c] = "leaving"
          /\ Goto(c, "released") /\ slot' = [slot EXCEPT ![c] = NoSlot]
          /\ UNCHANGED <<notify>>
       \/ /\ phase[c] = "released"
          /\ Goto(c, "ended") /\ NotifyOne(c) /\ slot' = slot
    /\ UNCHANGED <<entries, cached>>

(* Wrong: a cancelled read never gives its slot up. *)
CancelKeepingUse(c) ==
    /\ \/ /\ phase[c] = "waiting" \/ (Suspends /\ phase[c] = "armed")
          /\ Goto(c, "ended") /\ DropNotified(c)
       \/ phase[c] \in {"using", "fetching"} /\ Goto(c, "ended") /\ UNCHANGED notify
    /\ UNCHANGED <<slot, entries, cached>>

(* The caller drops the future at one of its awaits. *)
Cancel(c) ==
    /\ \/ /\ phase[c] = "waiting" \/ (Suspends /\ phase[c] = "armed")
          /\ Goto(c, "ended") /\ DropNotified(c)
       \/ phase[c] \in {"using", "fetching"} /\ Goto(c, "leaving") /\ UNCHANGED notify
    /\ UNCHANGED <<slot, entries, cached>>

Step(c) == \/ Arm(c) \/ Share(c) \/ Create(c) \/ Wait(c) \/ Wake(c)
           \/ Read(c) \/ Fetched(c) \/ DropUse(c)

Next == \/ \E c \in Calls : Step(c) \/ Cancel(c)
        \/ \E k \in Keys : Expire(k)

(* Every future is polled, and every fetch is answered or times out. *)
Fairness == \A c \in Calls : WF_vars(Step(c))

Spec == Init /\ [][Next]_vars
FairSpec == Spec /\ Fairness

-----------------------------------------------------------------------------
(* Properties *)

(* Every variable has its type; a call holds a slot exactly while it uses  *)
(* it, and a Notified future only before that.                             *)
TypeOK ==
    /\ phase \in [Calls -> Phases]
    /\ slot \in [Calls -> Calls \cup {NoSlot}]
    /\ notified \in [Calls -> {"none", "registered", "notified", "done"}]
    /\ permit \in BOOLEAN
    /\ entries \in [Keys -> Calls \cup {NoSlot}]
    /\ cached \in [Calls -> {"nothing", "fresh", "stale"}]
    /\ \A c \in Calls : Uses(c) <=> phase[c] \in {"using", "fetching", "leaving"}
    /\ \A c \in Calls : notified[c] # "none" => phase[c] \in {"armed", "waiting"}

(* The cache is bounded, however many origins a batch visits at once. *)
WithinMaxEntries == Cardinality(Cached) <= MaxEntries

(* Concurrent reads of one key are coalesced: never two fetches of it at   *)
(* once, although slots come and go while calls hold them.                 *)
OneFetchPerKey ==
    \A c, d \in Calls :
        phase[c] = "fetching" /\ phase[d] = "fetching" /\ KeyOf[c] = KeyOf[d] => c = d

(* No read waits for ever on a full table: every release reaches somebody. *)
EveryCallEnds == \A c \in Calls : phase[c] # "idle" ~> phase[c] = "ended"

(* "so the last active slot cannot become idle between the inspection and  *)
(* the wait, losing its wakeup" (acquire): while a read waits unnotified,  *)
(* another one uses a slot or is on its way to the table, and will end by  *)
(* notifying somebody.                                                     *)
Stirring(c) ==
    \/ phase[c] \in {"armed", "woken", "using", "fetching", "leaving", "released"}
    \/ phase[c] = "waiting" /\ notified[c] = "notified"

WaiterHasAWaker ==
    (\E c \in Calls : phase[c] = "waiting" /\ notified[c] = "registered") =>
        \E c \in Calls : Stirring(c)
=============================================================================
