------------------------- MODULE RobotsCache_proofs -------------------------
(***************************************************************************)
(* Proofs about RobotsCache for any calls, keys and bound: types, one      *)
(* fetch per key, the bound on the table, and, for calls that are only     *)
(* dropped at the other awaits, that a waiting read always has a waker.    *)
(***************************************************************************)
EXTENDS RobotsCache, FiniteSetTheorems, TLAPS

(* A slot in use is the one the table has for its key: eviction passes     *)
(* over it, and whoever asks for the key meets in it.                      *)
UsedIsFound == \A c \in Calls : Uses(c) => entries[KeyOf[c]] = slot[c]

(* The slot's mutex. *)
OneFetchPerSlot ==
    \A c, d \in Calls :
        phase[c] = "fetching" /\ phase[d] = "fetching" /\ slot[c] = slot[d] => c = d

IInv == TypeOK /\ UsedIsFound /\ OneFetchPerSlot

USE CallsAssumption, KeysAssumption, LimitAssumption

-----------------------------------------------------------------------------
LEMMA Initially == Init => IInv
BY DEF Init, IInv, TypeOK, UsedIsFound, OneFetchPerSlot, Phases, Uses

(* Notify keeps its types, and leaves a future only to those that had one. *)
LEMMA NotifyTypes ==
    ASSUME TypeOK, NEW c \in Calls, NotifyOne(c) \/ DropNotified(c)
    PROVE  /\ notified' \in [Calls -> {"none", "registered", "notified", "done"}]
           /\ permit' \in BOOLEAN
           /\ notified'[c] = "none"
           /\ \A d \in Calls : notified'[d] # "none" => notified[d] # "none"
<1>1. CASE NotifyOne(c)
    BY <1>1 DEF NotifyOne, Registered, TypeOK
<1>2. CASE DropNotified(c) /\ notified[c] # "notified"
    BY <1>2 DEF DropNotified, TypeOK
<1> QED BY <1>1, <1>2 DEF DropNotified

LEMMA ShareStep ==
    ASSUME IInv, NEW c \in Calls, Share(c)
    PROVE  IInv'
<1>1. TypeOK /\ phase[c] = "armed" /\ entries[KeyOf[c]] # NoSlot
    BY DEF IInv, Share, Cached
<1>2. TypeOK'
    BY <1>1, NotifyTypes DEF Share, Goto, TypeOK, Phases, Uses
<1>3. UsedIsFound' /\ OneFetchPerSlot'
    BY <1>1 DEF IInv, Share, Goto, TypeOK, UsedIsFound, OneFetchPerSlot, Uses
<1> QED BY <1>2, <1>3 DEF IInv

LEMMA CreateStep ==
    ASSUME IInv, NEW c \in Calls, Create(c)
    PROVE  IInv'
<1>1. TypeOK /\ phase[c] = "armed" /\ entries[KeyOf[c]] = NoSlot
    BY DEF IInv, Create, Cached
<1>2. PICK evicted \in SUBSET Keys : evicted \subseteq Evictable /\ Insert(c, evicted)
    <2>1. CASE ~Full /\ Insert(c, {})
        BY <2>1
    <2>2. CASE Full /\ \E k \in Evictable : Insert(c, {k})
        <3>1. PICK k \in Evictable : Insert(c, {k})
            BY <2>2
        <3>2. {k} \in SUBSET Keys /\ {k} \subseteq Evictable
            BY DEF Evictable, Cached
        <3> QED BY <3>1, <3>2
    <2> QED BY <2>1, <2>2 DEF Create
<1>3. TypeOK'
    BY <1>1, <1>2, NotifyTypes DEF Insert, Goto, TypeOK, Phases, Uses
<1>4. UsedIsFound'
    <2> SUFFICES ASSUME NEW d \in Calls, Uses(d)'
                 PROVE  entries'[KeyOf[d]] = slot'[d]
        BY DEF UsedIsFound
    <2>1. CASE d = c
        BY <1>1, <1>2, <2>1 DEF Insert, TypeOK
    <2>2. CASE d # c
        <3>1. Uses(d) /\ slot'[d] = slot[d] /\ slot[d] # NoSlot
            BY <1>1, <1>2, <2>2 DEF Insert, Goto, TypeOK, Uses
        <3>2. entries[KeyOf[d]] = slot[d]
            BY <3>1 DEF IInv, UsedIsFound
        <3>3. KeyOf[d] # KeyOf[c] /\ KeyOf[d] \notin evicted
            BY <1>1, <1>2, <3>1, <3>2 DEF Evictable, InUse
        <3> QED BY <1>2, <3>1, <3>2, <3>3 DEF Insert
    <2> QED BY <2>1, <2>2
<1>5. OneFetchPerSlot'
    BY <1>1, <1>2 DEF IInv, Insert, Goto, TypeOK, OneFetchPerSlot
<1> QED BY <1>3, <1>4, <1>5 DEF IInv

LEMMA ReadStep ==
    ASSUME IInv, NEW c \in Calls, Read(c)
    PROVE  IInv'
<1>1. TypeOK /\ phase[c] = "using"
    BY DEF IInv, Read
<1>2. TypeOK'
    BY <1>1 DEF Read, Goto, TypeOK, Phases, Uses, notify
<1>3. UsedIsFound'
    BY <1>1 DEF IInv, Read, Goto, TypeOK, UsedIsFound, Uses
<1>4. OneFetchPerSlot'
    BY <1>1 DEF IInv, Read, Goto, TypeOK, OneFetchPerSlot, SlotLocked
<1> QED BY <1>2, <1>3, <1>4 DEF IInv

LEMMA DropUseStep ==
    ASSUME IInv, NEW c \in Calls, DropUse(c)
    PROVE  IInv'
<1>1. TypeOK
    BY DEF IInv
<1>2. CASE phase[c] = "leaving"
    <2>1. Goto(c, "released") /\ slot' = [slot EXCEPT ![c] = NoSlot] /\ UNCHANGED <<notified, permit, entries, cached>>
        BY <1>2 DEF DropUse, notify
    <2>2. TypeOK'
        BY <1>1, <1>2, <2>1 DEF Goto, TypeOK, Phases, Uses
    <2>3. UsedIsFound' /\ OneFetchPerSlot'
        BY <1>1, <1>2, <2>1 DEF IInv, Goto, TypeOK, UsedIsFound, OneFetchPerSlot, Uses
    <2> QED BY <2>2, <2>3 DEF IInv
<1>3. CASE phase[c] = "released"
    <2>1. NotifyOne(c) /\ Goto(c, "ended") /\ UNCHANGED <<slot, entries, cached>>
        BY <1>3 DEF DropUse
    <2>2. TypeOK'
        BY <1>1, <1>3, <2>1, NotifyTypes DEF Goto, TypeOK, Phases, Uses
    <2>3. UsedIsFound' /\ OneFetchPerSlot'
        BY <1>1, <1>3, <2>1 DEF IInv, Goto, TypeOK, UsedIsFound, OneFetchPerSlot, Uses
    <2> QED BY <2>2, <2>3 DEF IInv
<1> QED BY <1>2, <1>3 DEF DropUse

LEMMA CancelStep ==
    ASSUME IInv, NEW c \in Calls, Cancel(c)
    PROVE  IInv'
<1>1. TypeOK
    BY DEF IInv
<1>2. CASE phase[c] \in {"using", "fetching"}
    <2>1. TypeOK'
        BY <1>1, <1>2 DEF Cancel, Goto, TypeOK, Phases, Uses, notify
    <2>2. UsedIsFound' /\ OneFetchPerSlot'
        BY <1>1, <1>2 DEF IInv, Cancel, Goto, TypeOK, UsedIsFound, OneFetchPerSlot, Uses
    <2> QED BY <2>1, <2>2 DEF IInv
<1>3. CASE phase[c] \in {"armed", "waiting"}
    <2>1. DropNotified(c) /\ Goto(c, "ended") /\ UNCHANGED <<slot, entries, cached>>
        BY <1>3 DEF Cancel
    <2>2. TypeOK'
        BY <1>1, <1>3, <2>1, NotifyTypes DEF Goto, TypeOK, Phases, Uses
    <2>3. UsedIsFound' /\ OneFetchPerSlot'
        BY <1>1, <1>3, <2>1 DEF IInv, Goto, TypeOK, UsedIsFound, OneFetchPerSlot, Uses
    <2> QED BY <2>2, <2>3 DEF IInv
<1> QED BY <1>2, <1>3 DEF Cancel

LEMMA OtherSteps ==
    ASSUME IInv, NEW c \in Calls, Arm(c) \/ Wait(c) \/ Wake(c) \/ Fetched(c)
    PROVE  IInv'
<1>1. TypeOK
    BY DEF IInv
<1>2. CASE Arm(c)
    <2>1. TypeOK'
        <3> DEFINE future == IF permit THEN "done" ELSE "registered"
        <3>1. notified' = [notified EXCEPT ![c] = future] /\ future \in {"registered", "done"}
            BY <1>2 DEF Arm
        <3> QED BY <1>1, <1>2, <3>1 DEF Arm, Goto, TypeOK, Phases, Uses
    <2>2. UsedIsFound' /\ OneFetchPerSlot'
        BY <1>1, <1>2 DEF IInv, Arm, Goto, TypeOK, UsedIsFound, OneFetchPerSlot, Uses
    <2> QED BY <2>1, <2>2 DEF IInv
<1>3. CASE Wait(c)
    BY <1>1, <1>3 DEF IInv, Wait, Goto, TypeOK, UsedIsFound, OneFetchPerSlot, Phases, Uses, notify
<1>4. CASE Wake(c)
    BY <1>1, <1>4 DEF IInv, Wake, Goto, TypeOK, UsedIsFound, OneFetchPerSlot, Phases, Uses
<1>5. CASE Fetched(c)
    <2>1. TypeOK'
        BY <1>1, <1>5 DEF Fetched, Goto, TypeOK, Phases, Uses, notify
    <2>2. UsedIsFound' /\ OneFetchPerSlot'
        BY <1>1, <1>5 DEF IInv, Fetched, Goto, TypeOK, UsedIsFound, OneFetchPerSlot, Uses
    <2> QED BY <2>1, <2>2 DEF IInv
<1> QED BY <1>2, <1>3, <1>4, <1>5

LEMMA Expiry ==
    ASSUME IInv, NEW k \in Keys, Expire(k)
    PROVE  IInv'
<1>1. entries[k] \in Calls
    BY DEF IInv, Expire, Cached, TypeOK
<1> QED BY <1>1 DEF IInv, Expire, TypeOK, UsedIsFound, OneFetchPerSlot, Uses, notify

LEMMA Inductive == IInv /\ [Next]_vars => IInv'
<1> SUFFICES ASSUME IInv, [Next]_vars PROVE IInv'
    OBVIOUS
<1>1. CASE UNCHANGED vars
    BY <1>1 DEF IInv, TypeOK, UsedIsFound, OneFetchPerSlot, Uses, vars, notify
<1>2. ASSUME NEW c \in Calls, Step(c) \/ Cancel(c)
      PROVE  IInv'
    BY <1>2, ShareStep, CreateStep, ReadStep, DropUseStep, CancelStep, OtherSteps DEF Step
<1>3. ASSUME NEW k \in Keys, Expire(k)
      PROVE  IInv'
    BY <1>3, Expiry
<1> QED BY <1>1, <1>2, <1>3 DEF Next

(* The inductive invariant holds throughout. *)
THEOREM Invariance == Spec => []IInv
BY Initially, Inductive, PTL DEF Spec

(* Every variable keeps its type, whatever is cancelled or evicted. *)
THEOREM TypeCorrect == Spec => []TypeOK
<1>1. IInv => TypeOK
    BY DEF IInv
<1> QED BY <1>1, Invariance, PTL

(* Reads of one key never fetch at once: they all use the slot the table   *)
(* has, and its mutex lets one of them fetch.                              *)
THEOREM Coalesced == Spec => []OneFetchPerKey
<1>1. IInv => OneFetchPerKey
    BY DEF IInv, TypeOK, UsedIsFound, OneFetchPerSlot, OneFetchPerKey
<1> QED BY <1>1, Invariance, PTL

-----------------------------------------------------------------------------
(* The bound on the table *)

LEMMA InsertedKeys ==
    ASSUME IInv, NEW c \in Calls, NEW evicted \in SUBSET Keys, KeyOf[c] \notin evicted,
           Insert(c, evicted)
    PROVE  Cached' = (Cached \ evicted) \cup {KeyOf[c]}
BY DEF Cached, Insert

LEMMA BoundKept ==
    ASSUME IInv, WithinMaxEntries, NEW c \in Calls, Create(c)
    PROVE  WithinMaxEntries'
<1>1. IsFiniteSet(Cached) /\ Cardinality(Cached) \in Nat
    BY FS_Subset, FS_CardinalityType DEF Cached
<1>2. KeyOf[c] \notin Cached
    BY DEF Create
<1>3. CASE ~Full /\ Insert(c, {})
    <2>1. Cached' = Cached \cup {KeyOf[c]}
        BY <1>3, InsertedKeys
    <2>2. Cardinality(Cached') = Cardinality(Cached) + 1
        BY <1>1, <1>2, <2>1, FS_AddElement
    <2> QED BY <1>1, <1>3, <2>2 DEF Full, WithinMaxEntries
<1>4. CASE Full /\ \E k \in Evictable : Insert(c, {k})
    <2>1. PICK k \in Evictable : Insert(c, {k})
        BY <1>4
    <2>2. k \in Cached /\ k \in Keys
        BY DEF Evictable, Cached
    <2>3. Cached' = (Cached \ {k}) \cup {KeyOf[c]}
        BY <1>2, <2>1, <2>2, InsertedKeys
    <2>4. IsFiniteSet(Cached \ {k}) /\ Cardinality(Cached \ {k}) = Cardinality(Cached) - 1
        BY <1>1, <2>2, FS_RemoveElement
    <2>5. Cardinality(Cached') = Cardinality(Cached)
        <3>1. KeyOf[c] \notin Cached \ {k}
            BY <1>2
        <3>2. Cardinality(Cached') = Cardinality(Cached \ {k}) + 1
            BY <2>3, <2>4, <3>1, FS_AddElement
        <3> QED BY <1>1, <2>4, <3>2
    <2> QED BY <2>5 DEF WithinMaxEntries
<1> QED BY <1>3, <1>4 DEF Create

(* The table never holds more slots than its bound. *)
THEOREM Bounded == Spec => []WithinMaxEntries
<1>1. Init => WithinMaxEntries
    <2>1. Init => Cached = {}
        BY DEF Init, Cached
    <2> QED BY <2>1, FS_EmptySet DEF WithinMaxEntries
<1>2. IInv /\ WithinMaxEntries /\ [Next]_vars => WithinMaxEntries'
    <2> SUFFICES ASSUME IInv, WithinMaxEntries, [Next]_vars PROVE WithinMaxEntries'
        OBVIOUS
    <2>1. ASSUME NEW c \in Calls, Create(c)
          PROVE  WithinMaxEntries'
        BY <2>1, BoundKept
    <2>2. ASSUME entries' = entries
          PROVE  WithinMaxEntries'
        BY <2>2 DEF WithinMaxEntries, Cached
    <2>3. (\E c \in Calls : Create(c)) \/ entries' = entries
        BY DEF Next, Step, Arm, Share, Wait, Wake, Read, Fetched, DropUse, Cancel, Expire, vars
    <2> QED BY <2>1, <2>2, <2>3
<1> QED BY <1>1, <1>2, Invariance, PTL DEF Spec

-----------------------------------------------------------------------------
(* Nobody is left waiting *)

(* A notification sent while somebody waits unnotified wakes somebody.     *)
LEMMA NotificationArrives ==
    ASSUME TypeOK, NEW c \in Calls, NotifyOne(c), phase'[c] = "ended",
           \A d \in Calls \ {c} : phase'[d] = phase[d],
           NEW d \in Calls, phase'[d] = "waiting", notified'[d] = "registered"
    PROVE  \E e \in Calls : Stirring(e)'
<1>1. d # c /\ notified[d] = "registered"
    BY DEF NotifyOne, TypeOK, Registered
<1>2. PICK e \in Registered \ {c} : notified' = [notified EXCEPT ![c] = "none", ![e] = "notified"]
    BY <1>1 DEF NotifyOne, Registered
<1>3. e \in Calls /\ phase[e] \in {"armed", "waiting"} /\ phase'[e] = phase[e]
    BY <1>2 DEF Registered, TypeOK
<1>4. notified'[e] = "notified"
    BY <1>2, <1>3 DEF TypeOK
<1> QED BY <1>3, <1>4 DEF Stirring

(* A full table nobody may evict from has a slot in use. *)
LEMMA FullIsUsed ==
    ASSUME Full, Evictable = {}
    PROVE  \E c \in Calls : Uses(c)
<1>1. Cached # {}
    BY FS_EmptySet DEF Full
<1>2. PICK k \in Cached : InUse(entries[k])
    BY <1>1 DEF Evictable
<1> QED BY <1>2 DEF InUse

LEMMA WakerKept ==
    ASSUME Suspends = FALSE, IInv, WaiterHasAWaker, [Next]_vars
    PROVE  WaiterHasAWaker'
<1> SUFFICES ASSUME NEW d \in Calls, phase'[d] = "waiting", notified'[d] = "registered"
             PROVE  \E e \in Calls : Stirring(e)'
    BY DEF WaiterHasAWaker
<1>0. TypeOK
    BY DEF IInv
<1>1. CASE UNCHANGED vars
    BY <1>1 DEF WaiterHasAWaker, Stirring, vars, notify
<1>2. ASSUME NEW k \in Keys, Expire(k)
      PROVE  \E e \in Calls : Stirring(e)'
    BY <1>2 DEF WaiterHasAWaker, Stirring, Expire, notify
<1>3. ASSUME NEW c \in Calls, Step(c) \/ Cancel(c)
      PROVE  \E e \in Calls : Stirring(e)'
    <2>1. CASE Arm(c) \/ Share(c) \/ Create(c) \/ Wake(c) \/ Read(c) \/ Fetched(c)
        <3>1. phase'[c] \in {"armed", "woken", "using", "fetching", "leaving", "released"}
            BY <1>0, <2>1 DEF Arm, Share, Create, Insert, Wake, Read, Fetched, Goto, TypeOK
        <3> QED BY <3>1 DEF Stirring
    <2>2. CASE Wait(c)
        <3>1. PICK e \in Calls : Uses(e)
            BY <2>2, FullIsUsed DEF Wait
        <3>2. phase'[e] = phase[e]
            BY <1>0, <2>2, <3>1 DEF Wait, Goto, TypeOK, Uses
        <3> QED BY <1>0, <3>1, <3>2 DEF Stirring, TypeOK
    <2>3. CASE DropUse(c)
        <3>1. CASE phase[c] = "leaving"
            BY <1>0, <2>3, <3>1 DEF DropUse, Goto, TypeOK, Stirring
        <3>2. CASE phase[c] = "released"
            <4>1. NotifyOne(c) /\ Goto(c, "ended")
                BY <2>3, <3>2 DEF DropUse
            <4>2. phase'[c] = "ended" /\ \A e \in Calls \ {c} : phase'[e] = phase[e]
                BY <1>0, <4>1 DEF Goto, TypeOK
            <4> QED BY <1>0, <4>1, <4>2, NotificationArrives
        <3> QED BY <2>3, <3>1, <3>2 DEF DropUse
    <2>4. CASE Cancel(c)
        <3>1. CASE phase[c] \in {"using", "fetching"}
            BY <1>0, <2>4, <3>1 DEF Cancel, Goto, TypeOK, Stirring
        <3>2. CASE phase[c] = "waiting"
            <4>1. DropNotified(c) /\ Goto(c, "ended")
                BY <2>4, <3>2 DEF Cancel
            <4>2. phase'[c] = "ended" /\ \A e \in Calls \ {c} : phase'[e] = phase[e]
                BY <1>0, <4>1 DEF Goto, TypeOK
            <4>3. CASE notified[c] = "notified"
                BY <1>0, <4>1, <4>2, <4>3, NotificationArrives DEF DropNotified
            <4>4. CASE notified[c] # "notified"
                <5>1. notified' = [notified EXCEPT ![c] = "none"]
                    BY <4>1, <4>4 DEF DropNotified
                <5>2. phase[d] = "waiting" /\ notified[d] = "registered"
                    BY <1>0, <4>2, <5>1 DEF TypeOK
                <5>3. PICK e \in Calls : Stirring(e)
                    BY <5>2 DEF WaiterHasAWaker
                <5>4. e # c
                    BY <3>2, <4>4, <5>3 DEF Stirring
                <5> QED BY <1>0, <4>2, <5>1, <5>3, <5>4 DEF Stirring, TypeOK
            <4> QED BY <4>3, <4>4
        <3> QED BY <2>4, <3>1, <3>2 DEF Cancel
    <2> QED BY <1>3, <2>1, <2>2, <2>3, <2>4 DEF Step
<1> QED BY <1>1, <1>2, <1>3 DEF Next

(* When calls are never dropped at the table's mutex, no read waits while  *)
(* nobody is left to notify it.                                            *)
THEOREM WakerThere == ASSUME Suspends = FALSE PROVE Spec => []WaiterHasAWaker
<1>1. Init => WaiterHasAWaker
    BY DEF Init, WaiterHasAWaker
<1>2. IInv /\ WaiterHasAWaker /\ [Next]_vars => WaiterHasAWaker'
    BY WakerKept
<1> QED BY <1>1, <1>2, Invariance, PTL DEF Spec
=============================================================================
