----------------------- MODULE GuardedFrontier_proofs -----------------------
(***************************************************************************)
(* Proofs about GuardedFrontier for any sets of calls and keys: the        *)
(* inductive invariant, the safety properties that follow from it, and     *)
(* the refinement of AtomicClaim.                                          *)
(***************************************************************************)
EXTENDS GuardedFrontier, TLAPS

(* The table finds the lock of every call in flight. *)
OwnersAreFound ==
    \A c \in Calls : Owns(c) => lock[c] \in Calls /\ table[key[c]] = lock[c]

(* Of two calls queued for one key, one queued behind the other. *)
QueueIsOrdered ==
    \A c, d \in Calls :
        c # d /\ Queued(c) /\ Queued(d) /\ key[c] = key[d] => c \in ahead[d] \/ d \in ahead[c]

(* A call queues once, so who has left the queue never returns to it. *)
AheadHasQueued == \A c \in Calls : \A d \in ahead[c] : phase[d] \notin {"idle", "found"}

(* Between is_seen and mark_seen the claimer holds the lock, and nothing   *)
(* has marked its key.                                                     *)
MarkingHolds ==
    \A c \in Calls : phase[c] = "marking" => op[c] = "claim" /\ Holds(c) /\ key[c] \notin seen

ClaimedIsSeen == \A c \in Calls : phase[c] = "claimed" => key[c] \in seen

IInv ==
    /\ TypeOK
    /\ OwnersAreFound
    /\ QueueIsOrdered
    /\ AheadHasQueued
    /\ MarkingHolds
    /\ ClaimedIsSeen
    /\ AtMostOneClaim

-----------------------------------------------------------------------------
(* The lock excludes: two calls for one key never both hold it. *)
LEMMA HoldersDiffer ==
    ASSUME IInv, NEW c \in Calls, NEW d \in Calls, Holds(c), Holds(d), key[c] = key[d]
    PROVE  c = d
BY DEF IInv, QueueIsOrdered, Holds

(* Calls in flight for one key share one lock. *)
LEMMA SharedLock == IInv => OneLockPerKey
BY DEF IInv, OwnersAreFound, OneLockPerKey

LEMMA Initially == Init => IInv
BY DEF Init, IInv, TypeOK, OwnersAreFound, QueueIsOrdered, AheadHasQueued, MarkingHolds,
       ClaimedIsSeen, AtMostOneClaim, Owns, Queued, Holds, Ops, Phases, Ended

(* Looking a lock up keeps the table true of every call in flight. *)
LEMMA KeyLockStep ==
    ASSUME IInv, NEW c \in Calls, KeyLock(c)
    PROVE  IInv'
<1> DEFINE found == IF Retained[key[c]] = NoLock THEN c ELSE Retained[key[c]]
<1>1. TypeOK /\ phase[c] = "idle"
    BY DEF IInv, KeyLock
<1>2. \A k \in Keys : Retained[k] \in Calls \cup {NoLock}
    BY <1>1 DEF Retained, TypeOK
<1>3. found \in Calls
    BY <1>1, <1>2 DEF TypeOK
<1>4. /\ phase' = [phase EXCEPT ![c] = "found"]
      /\ lock' = [lock EXCEPT ![c] = found]
      /\ table' = [Retained EXCEPT ![key[c]] = found]
      /\ UNCHANGED <<key, op, ahead, seen>>
    BY DEF KeyLock
<1> HIDE DEF found
<1>5. TypeOK'
    BY NoLockAssumption, <1>1, <1>2, <1>3, <1>4 DEF TypeOK, Phases, Ops, Retained, Owns, Ended
<1>6. \A d \in Calls : Owns(d) => Retained[key[d]] = lock[d] /\ lock[d] # NoLock
    BY <1>1, NoLockAssumption DEF IInv, OwnersAreFound, TypeOK, Retained, Alive
<1>7. OwnersAreFound'
    <2> SUFFICES ASSUME NEW d \in Calls, Owns(d)'
                 PROVE  lock'[d] \in Calls /\ table'[key'[d]] = lock'[d]
        BY DEF OwnersAreFound
    <2>1. CASE d = c
        BY <2>1, <1>1, <1>3, <1>4 DEF TypeOK, Retained
    <2>2. CASE d # c
        <3>1. Owns(d) /\ lock'[d] = lock[d] /\ lock[d] \in Calls
            BY <2>2, <1>1, <1>4 DEF Owns, TypeOK, IInv, OwnersAreFound
        <3>2. CASE key[d] = key[c]
            <4>1. found = lock[d]
                BY <3>1, <3>2, <1>6 DEF found
            <4> QED BY <4>1, <3>1, <3>2, <1>1, <1>4 DEF TypeOK, Retained
        <3>3. CASE key[d] # key[c]
            BY <3>1, <3>3, <1>1, <1>4, <1>6 DEF TypeOK, Retained
        <3> QED BY <3>2, <3>3
    <2> QED BY <2>1, <2>2
<1>8. \A d \in Calls : /\ Queued(d)' <=> Queued(d)
                       /\ phase'[d] = "marking" <=> phase[d] = "marking"
                       /\ phase'[d] = "claimed" <=> phase[d] = "claimed"
    BY <1>1, <1>4 DEF TypeOK, Queued
<1>9. QueueIsOrdered'
    BY <1>4, <1>8 DEF IInv, QueueIsOrdered
<1>10. AheadHasQueued'
    BY <1>1, <1>4 DEF IInv, AheadHasQueued, TypeOK
<1>11. MarkingHolds'
    BY <1>1, <1>4, <1>8 DEF IInv, MarkingHolds, Holds, TypeOK
<1>12. ClaimedIsSeen' /\ AtMostOneClaim'
    BY <1>4, <1>8 DEF IInv, ClaimedIsSeen, AtMostOneClaim
<1> QED BY <1>5, <1>7, <1>9, <1>10, <1>11, <1>12 DEF IInv

(* Joining the queue puts a call behind every call queued for its key. *)
LEMMA QueueStep ==
    ASSUME IInv, NEW c \in Calls, Queue(c)
    PROVE  IInv'
<1>1. TypeOK /\ phase[c] = "found"
    BY DEF IInv, Queue
<1>2. /\ phase' = [phase EXCEPT ![c] = "queued"]
      /\ ahead' = [ahead EXCEPT ![c] = {d \in Calls : Queued(d) /\ lock[d] = lock[c]}]
      /\ UNCHANGED <<key, op, lock, table, seen>>
    BY DEF Queue
<1>3. TypeOK'
    BY <1>1, <1>2 DEF TypeOK, Phases, Owns, Ended
<1>4. OwnersAreFound'
    BY <1>1, <1>2 DEF IInv, OwnersAreFound, Owns, TypeOK
<1>5. QueueIsOrdered'
    <2> SUFFICES ASSUME NEW d \in Calls, NEW e \in Calls, d # e,
                        Queued(d)', Queued(e)', key[d] = key[e]
                 PROVE  d \in ahead'[e] \/ e \in ahead'[d]
        BY <1>2 DEF QueueIsOrdered
    <2>1. \A x \in Calls : Queued(x) /\ key[x] = key[c] => x \in ahead'[c]
        BY <1>1, <1>2, SharedLock DEF TypeOK, OneLockPerKey, Owns, Queued
    <2>2. CASE d = c \/ e = c
        BY <2>1, <2>2, <1>1, <1>2 DEF TypeOK, Queued
    <2>3. CASE d # c /\ e # c
        BY <2>3, <1>1, <1>2 DEF IInv, QueueIsOrdered, TypeOK, Queued
    <2> QED BY <2>2, <2>3
<1>6. AheadHasQueued'
    BY <1>1, <1>2 DEF IInv, AheadHasQueued, TypeOK, Queued
<1>7. MarkingHolds'
    <2> SUFFICES ASSUME NEW d \in Calls, phase'[d] = "marking"
                 PROVE  op[d] = "claim" /\ Holds(d)' /\ key[d] \notin seen
        BY <1>2 DEF MarkingHolds
    <2>1. d # c /\ phase[d] = "marking" /\ ahead'[d] = ahead[d]
        BY <1>1, <1>2 DEF TypeOK
    <2>2. op[d] = "claim" /\ Holds(d) /\ key[d] \notin seen
        BY <2>1 DEF IInv, MarkingHolds
    <2>3. c \notin ahead[d] /\ ahead[d] \subseteq Calls
        BY <1>1 DEF IInv, AheadHasQueued, TypeOK
    <2> QED BY <2>1, <2>2, <2>3, <1>1, <1>2 DEF Holds, Queued, TypeOK
<1>8. ClaimedIsSeen' /\ AtMostOneClaim'
    BY <1>1, <1>2 DEF IInv, ClaimedIsSeen, AtMostOneClaim, TypeOK
<1> QED BY <1>3, <1>4, <1>5, <1>6, <1>7, <1>8 DEF IInv

(* An is_seen that answers no leaves the claimer holding an unmarked key. *)
LEMMA UnseenStep ==
    ASSUME IInv, NEW c \in Calls, IsSeen(c), key[c] \notin seen
    PROVE  IInv'
<1>1. TypeOK /\ phase[c] = "queued" /\ op[c] = "claim" /\ Holds(c)
    BY DEF IInv, IsSeen
<1>2. phase' = [phase EXCEPT ![c] = "marking"] /\ UNCHANGED <<key, op, lock, ahead, table, seen>>
    BY DEF IsSeen
<1>3. \A d \in Calls : /\ Owns(d)' <=> Owns(d)
                       /\ Queued(d)' <=> Queued(d)
                       /\ phase'[d] \in {"idle", "found", "claimed"} <=> phase[d] \in {"idle", "found", "claimed"}
                       /\ phase'[d] = "claimed" <=> phase[d] = "claimed"
    BY <1>1, <1>2 DEF TypeOK, Owns, Queued
<1>4. TypeOK'
    BY <1>1, <1>2 DEF TypeOK, Phases, Owns, Ended
<1>5. OwnersAreFound' /\ QueueIsOrdered'
    BY <1>2, <1>3 DEF IInv, OwnersAreFound, QueueIsOrdered
<1>6. AheadHasQueued'
    BY <1>1, <1>2, <1>3 DEF IInv, AheadHasQueued, TypeOK
<1>7. \A d \in Calls : Holds(d)' <=> Holds(d)
    BY <1>1, <1>2, <1>3 DEF Holds, TypeOK
<1>8. MarkingHolds'
    BY <1>1, <1>2, <1>7 DEF IInv, MarkingHolds, TypeOK
<1>9. ClaimedIsSeen' /\ AtMostOneClaim'
    BY <1>2, <1>3 DEF IInv, ClaimedIsSeen, AtMostOneClaim
<1> QED BY <1>4, <1>5, <1>6, <1>8, <1>9 DEF IInv

(* However a call ends: only a holder marks its key, and only a claimer of *)
(* an unseen key that marks it is told it claimed it.                      *)
LEMMA EndStep ==
    ASSUME IInv, NEW c \in Calls, NEW r \in Ended, Owns(c), End(c, r),
           UNCHANGED <<key, op, table>>,
           \/ seen' = seen /\ r # "claimed"
           \/ Holds(c) /\ seen' = seen \cup {key[c]} /\ (r = "claimed" => key[c] \notin seen)
    PROVE  IInv'
<1>1. TypeOK
    BY DEF IInv
<1>2. /\ phase' = [phase EXCEPT ![c] = r]
      /\ lock' = [lock EXCEPT ![c] = NoLock]
      /\ ahead' = [ahead EXCEPT ![c] = {}]
      /\ UNCHANGED <<key, op, table>>
    BY DEF End
<1>3. seen' \in SUBSET Keys /\ seen \subseteq seen'
    BY <1>1 DEF TypeOK
<1>4. TypeOK'
    BY <1>1, <1>2, <1>3 DEF TypeOK, Phases, Owns, Ended
<1>5. \A d \in Calls : d # c => /\ phase'[d] = phase[d] /\ lock'[d] = lock[d] /\ ahead'[d] = ahead[d]
    BY <1>1, <1>2 DEF TypeOK
<1>6. phase'[c] = r /\ r \notin {"idle", "found", "queued", "marking"} /\ ahead'[c] = {}
    BY <1>1, <1>2 DEF TypeOK, Ended
<1>7. \A d \in Calls : Queued(d)' => Queued(d) /\ d # c
    BY <1>5, <1>6 DEF Queued
<1>8. OwnersAreFound'
    BY <1>2, <1>5, <1>6 DEF IInv, OwnersAreFound, Owns
<1>9. QueueIsOrdered'
    BY <1>2, <1>5, <1>7 DEF IInv, QueueIsOrdered
<1>10. AheadHasQueued'
    <2> SUFFICES ASSUME NEW d \in Calls, NEW e \in ahead'[d]
                 PROVE  phase'[e] \notin {"idle", "found"}
        BY DEF AheadHasQueued
    <2>1. d # c /\ e \in ahead[d] /\ e \in Calls
        BY <1>1, <1>5, <1>6 DEF TypeOK
    <2> QED BY <2>1, <1>5, <1>6 DEF IInv, AheadHasQueued
<1>11. MarkingHolds'
    <2> SUFFICES ASSUME NEW d \in Calls, phase'[d] = "marking"
                 PROVE  op[d] = "claim" /\ Holds(d)' /\ key[d] \notin seen'
        BY <1>2 DEF MarkingHolds
    <2>1. d # c /\ phase[d] = "marking"
        BY <1>5, <1>6
    <2>2. op[d] = "claim" /\ Holds(d) /\ key[d] \notin seen
        BY <2>1 DEF IInv, MarkingHolds
    <2>3. Holds(d)'
        BY <2>1, <2>2, <1>1, <1>5, <1>7 DEF Holds, Queued, TypeOK
    <2>4. key[d] \notin seen'
        BY <2>1, <2>2, HoldersDiffer
    <2> QED BY <2>2, <2>3, <2>4
<1>12. ClaimedIsSeen'
    BY <1>2, <1>3, <1>5, <1>6 DEF IInv, ClaimedIsSeen
<1>13. AtMostOneClaim'
    BY <1>2, <1>5, <1>6 DEF IInv, ClaimedIsSeen, AtMostOneClaim
<1> QED BY <1>4, <1>8, <1>9, <1>10, <1>11, <1>12, <1>13 DEF IInv

LEMMA NextStep == IInv /\ [Next]_vars => IInv'
<1> SUFFICES ASSUME IInv, [Next]_vars PROVE IInv'
    OBVIOUS
<1>1. ASSUME NEW c \in Calls, KeyLock(c) PROVE IInv'
    BY <1>1, KeyLockStep
<1>2. ASSUME NEW c \in Calls, Queue(c) PROVE IInv'
    BY <1>2, QueueStep
<1>3. ASSUME NEW c \in Calls, IsSeen(c) PROVE IInv'
    <2>1. CASE key[c] \notin seen
        BY <1>3, <2>1, UnseenStep
    <2>2. CASE key[c] \in seen
        BY <1>3, <2>2, EndStep DEF IsSeen, Owns, Ended
    <2> QED BY <2>1, <2>2
<1>4. ASSUME NEW c \in Calls, MarkClaimed(c) PROVE IInv'
    BY <1>4, EndStep DEF MarkClaimed, Owns, Ended, IInv, MarkingHolds
<1>5. ASSUME NEW c \in Calls, MarkSeen(c) PROVE IInv'
    BY <1>5, EndStep DEF MarkSeen, Owns, Ended
<1>6. ASSUME NEW c \in Calls, Fail(c) PROVE IInv'
    BY <1>6, EndStep DEF Fail, Abandon, MarkUnderWay, Holds, Queued, Owns, Ended
<1>7. ASSUME NEW c \in Calls, Drop(c) PROVE IInv'
    BY <1>7, EndStep DEF Drop, Abandon, MarkUnderWay, Ended
<1>8. CASE UNCHANGED vars
    BY <1>8 DEF vars, IInv, TypeOK, OwnersAreFound, QueueIsOrdered, AheadHasQueued, MarkingHolds,
                ClaimedIsSeen, AtMostOneClaim, Owns, Queued, Holds
<1> QED BY <1>1, <1>2, <1>3, <1>4, <1>5, <1>6, <1>7, <1>8 DEF Next

-----------------------------------------------------------------------------
(* Type correctness, for every set of calls and keys. *)
THEOREM TypeCorrect == Spec => []TypeOK
<1>1. IInv => TypeOK
    BY DEF IInv
<1> QED BY Initially, NextStep, <1>1, PTL DEF Spec

(* However calls interleave, fail or are cancelled, one key is claimed at  *)
(* most once (GuardedFrontier::claim).                                     *)
THEOREM ClaimSafety == Spec => []AtMostOneClaim
<1>1. IInv => AtMostOneClaim
    BY DEF IInv
<1> QED BY Initially, NextStep, <1>1, PTL DEF Spec

(* The calls in flight for a key share one lock, although the table drops  *)
(* a lock as soon as nobody owns it (key_lock).                            *)
THEOREM LocksShared == Spec => []OneLockPerKey
<1> QED BY Initially, NextStep, SharedLock, PTL DEF Spec

(* Looking a lock up leaves no dead entry behind: every lock the table     *)
(* then has is owned by a call in flight (retain in key_lock).             *)
THEOREM NoDeadEntry == Spec => LookupLeavesNoDeadEntry
<1> DEFINE Clean == \A c \in Calls : KeyLock(c) =>
               \A k \in Keys : table'[k] # NoLock => \E d \in Calls : Owns(d)' /\ lock'[d] = table'[k]
<1>1. ASSUME IInv, [Next]_vars PROVE Clean
    <2> SUFFICES ASSUME NEW c \in Calls, KeyLock(c), NEW k \in Keys, table'[k] # NoLock
                 PROVE  \E d \in Calls : Owns(d)' /\ lock'[d] = table'[k]
        OBVIOUS
    <2>1. TypeOK /\ phase[c] = "idle"
        BY <1>1 DEF IInv, KeyLock
    <2>2. key[c] \in Keys
        BY <2>1 DEF TypeOK
    <2>3. Owns(c)' /\ lock'[c] = table'[key[c]]
        BY <2>1, <2>2 DEF KeyLock, Retained, Owns, Ended, TypeOK
    <2>4. CASE k # key[c]
        <3>1. table'[k] = Retained[k] /\ Retained[k] # NoLock
            BY <2>2, <2>4 DEF KeyLock, Retained
        <3>2. Alive(table[k]) /\ table'[k] = table[k]
            BY <3>1 DEF Retained
        <3>3. PICK d \in Calls : Owns(d) /\ lock[d] = table[k]
            BY <3>2 DEF Alive
        <3>4. d # c
            BY <2>1, <3>3 DEF Owns
        <3>5. Owns(d)' /\ lock'[d] = lock[d]
            BY <2>1, <3>3, <3>4 DEF KeyLock, Owns, TypeOK
        <3> QED BY <3>2, <3>3, <3>5
    <2> QED BY <2>3, <2>4
<1>2. IInv /\ [Next]_vars => [Clean]_vars
    BY <1>1
<1> QED BY Initially, NextStep, <1>2, PTL DEF Spec, LookupLeavesNoDeadEntry

(* A claim is granted only while its key is unseen: no other call marks it *)
(* between the backend's two answers (GuardedFrontier::claim).             *)
THEOREM GrantsUnseen == Spec => GrantsUnseenOnly
<1> DEFINE Granted == \A c \in Calls :
               phase[c] # "claimed" /\ phase'[c] = "claimed" => key[c] \notin seen
<1>1. ASSUME IInv, [Next]_vars PROVE Granted
    <2> SUFFICES ASSUME NEW c \in Calls, phase[c] # "claimed", phase'[c] = "claimed"
                 PROVE  key[c] \notin seen
        OBVIOUS
    <2>1. phase \in [Calls -> Phases]
        BY <1>1 DEF IInv, TypeOK
    <2>2. PICK d \in Calls :
              KeyLock(d) \/ Queue(d) \/ IsSeen(d) \/ MarkClaimed(d) \/ MarkSeen(d) \/ Fail(d) \/ Drop(d)
        BY <1>1 DEF Next, vars
    <2>3. MarkClaimed(d) /\ d = c
        BY <2>1, <2>2 DEF KeyLock, Queue, IsSeen, MarkClaimed, MarkSeen, Fail, Drop, Abandon, End
    <2> QED BY <1>1, <2>3 DEF IInv, MarkingHolds, MarkClaimed
<1>2. IInv /\ [Next]_vars => [Granted]_vars
    BY <1>1
<1> QED BY Initially, NextStep, <1>2, PTL DEF Spec, GrantsUnseenOnly

(* The two-step claim behind the lock is the indivisible one: every step   *)
(* is a step of AtomicClaim or leaves its variables alone.                 *)
THEOREM Refinement == Spec => RefinesAtomicClaim
<1>1. Init => Atomic!Init
    BY DEF Init, Atomic!Init, AbstractPhase, Ended, Ops
<1>2. ASSUME IInv, [Next]_vars PROVE [Atomic!Next]_(Atomic!vars)
    <2> USE <1>2
    <2> DEFINE outcome == [c \in Calls |-> AbstractPhase(c)]
    <2>1. TypeOK
        BY DEF IInv
    <2>2. ASSUME NEW c \in Calls, NEW r \in Ended, Owns(c), End(c, r)
          PROVE  outcome[c] = "open" /\ outcome' = [outcome EXCEPT ![c] = r]
        <3>1. phase' = [phase EXCEPT ![c] = r]
            BY <2>2 DEF End
        <3>2. \A d \in Calls : AbstractPhase(d)' = IF d = c THEN r ELSE AbstractPhase(d)
            BY <3>1, <2>1 DEF AbstractPhase, TypeOK
        <3>3. AbstractPhase(c) = "open"
            BY <2>2 DEF AbstractPhase, Owns, Ended
        <3> QED BY <3>2, <3>3
    <2>3. ASSUME NEW c \in Calls, KeyLock(c) \/ Queue(c) \/ (IsSeen(c) /\ key[c] \notin seen)
          PROVE  UNCHANGED Atomic!vars
        <3>1. \A d \in Calls : AbstractPhase(d)' = AbstractPhase(d)
            BY <2>1, <2>3 DEF KeyLock, Queue, IsSeen, AbstractPhase, Ended, TypeOK
        <3>2. UNCHANGED <<key, op, seen>>
            BY <2>3 DEF KeyLock, Queue, IsSeen
        <3> QED BY <3>1, <3>2 DEF Atomic!vars
    <2>4. ASSUME NEW c \in Calls, IsSeen(c), key[c] \in seen PROVE Atomic!Refuse(c)
        <3>1. outcome[c] = "open" /\ outcome' = [outcome EXCEPT ![c] = "refused"]
            BY <2>2, <2>4 DEF IsSeen, Owns, Ended
        <3> QED BY <3>1, <2>4 DEF IsSeen, Atomic!Refuse, Atomic!Ends
    <2>5. ASSUME NEW c \in Calls, MarkClaimed(c) PROVE Atomic!Claim(c)
        <3>1. outcome[c] = "open" /\ outcome' = [outcome EXCEPT ![c] = "claimed"]
            BY <2>2, <2>5 DEF MarkClaimed, Owns, Ended
        <3>2. op[c] = "claim" /\ key[c] \notin seen
            BY <2>5 DEF IInv, MarkingHolds, MarkClaimed
        <3> QED BY <3>1, <3>2, <2>5 DEF MarkClaimed, Atomic!Claim, Atomic!Ends
    <2>6. ASSUME NEW c \in Calls, MarkSeen(c) PROVE Atomic!Mark(c)
        <3>1. outcome[c] = "open" /\ outcome' = [outcome EXCEPT ![c] = "marked"]
            BY <2>2, <2>6 DEF MarkSeen, Owns, Ended
        <3> QED BY <3>1, <2>6 DEF MarkSeen, Atomic!Mark, Atomic!Ends
    <2>7. ASSUME NEW c \in Calls, Fail(c) PROVE Atomic!Give(c, "failed")
        <3>1. outcome[c] = "open" /\ outcome' = [outcome EXCEPT ![c] = "failed"]
            BY <2>2, <2>7 DEF Fail, Abandon, Holds, Queued, Owns, Ended
        <3> QED BY <3>1, <2>7 DEF Fail, Abandon, Atomic!Give, Atomic!Ends
    <2>8. ASSUME NEW c \in Calls, Drop(c) PROVE Atomic!Give(c, "dropped")
        <3>1. outcome[c] = "open" /\ outcome' = [outcome EXCEPT ![c] = "dropped"]
            BY <2>2, <2>8 DEF Drop, Abandon, Owns, Ended
        <3> QED BY <3>1, <2>8 DEF Drop, Abandon, Atomic!Give, Atomic!Ends
    <2>9. CASE UNCHANGED vars
        BY <2>9 DEF vars, Atomic!vars, AbstractPhase
    <2> QED BY <2>3, <2>4, <2>5, <2>6, <2>7, <2>8, <2>9 DEF Next, Atomic!Next
<1> QED BY <1>1, <1>2, Initially, NextStep, PTL DEF Spec, Atomic!Spec, RefinesAtomicClaim
=============================================================================
