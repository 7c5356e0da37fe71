-------------------------- MODULE GuardedFrontier --------------------------
(***************************************************************************)
(* The engine's wrapper around a Frontier that has no atomic claim         *)
(* (engine/frontier_claim.rs).  The backend's claim is the two-step        *)
(* default of traits.rs: is_seen, and only then mark_seen, each a call     *)
(* that may take any time, fail, or never return.  The wrapper lets one    *)
(* call at a time run for a key, by a lock the calls in flight for the key *)
(* own together and a table of weak references only finds.                 *)
(*                                                                         *)
(* A call is one future: it looks its lock up, queues on it, runs, ends.   *)
(* A lock is named after the call that created it.                         *)
(***************************************************************************)
EXTENDS Naturals, FiniteSets

CONSTANTS Calls,      \* the claim and mark_seen calls made on the frontier
          Keys,       \* deduplication keys
          HungKeys,   \* keys for which the backend may never answer
          NoLock      \* absence of a lock

ASSUME NoLockAssumption == NoLock \notin Calls
ASSUME HungKeysAssumption == HungKeys \subseteq Keys

VARIABLES key,     \* [Calls -> Keys]: what each call asks about
          op,      \* which method it is: claim or mark_seen
          phase,   \* how far it is
          lock,    \* the lock it holds an Arc of
          ahead,   \* the calls queued on that lock before it
          table,   \* GuardedFrontier::in_flight, the weak references by key
          seen     \* the backend's seen-set

vars == <<key, op, phase, lock, ahead, table, seen>>

Ops == {"claim", "mark_seen"}
Ended == {"claimed", "refused", "marked", "failed", "dropped"}
Phases == {"idle", "found", "queued", "marking"} \cup Ended

-----------------------------------------------------------------------------
(* A call owns its lock from the lookup until it ends, and waits or runs   *)
(* in the lock's queue from the moment it joins it.                        *)
Owns(c) == phase[c] \in {"found", "queued", "marking"}
Queued(c) == phase[c] \in {"queued", "marking"}

(* Weak::strong_count() > 0 *)
Alive(l) == \E c \in Calls : Owns(c) /\ lock[c] = l

(* Wrong: the lock is looked up and never locked. *)
HoldsAtOnce(c) == Queued(c)

(* The queue is first come, first served: a call holds the lock once every *)
(* call queued before it has left.                                         *)
Holds(c) == Queued(c) /\ \A d \in ahead[c] : ~Queued(d)

Init ==
    /\ key \in [Calls -> Keys]
    /\ op \in [Calls -> Ops]
    /\ phase = [c \in Calls |-> "idle"]
    /\ lock = [c \in Calls |-> NoLock]
    /\ ahead = [c \in Calls |-> {}]
    /\ table = [k \in Keys |-> NoLock]
    /\ seen = {}

-----------------------------------------------------------------------------
(* Wrong: the creator's end takes the entry away from the calls that share it. *)
RetainedWhileCreatorRuns ==
    [k \in Keys |-> IF \E c \in Calls : Owns(c) /\ table[k] = c THEN table[k] ELSE NoLock]

(* locks.retain(strong_count > 0): the table without its dead entries *)
Retained == [k \in Keys |-> IF Alive(table[k]) THEN table[k] ELSE NoLock]

(* Wrong: dead entries are passed over, and stay. *)
KeyLockWithoutRetain(c) ==
    LET found == IF Retained[key[c]] = NoLock THEN c ELSE Retained[key[c]]
    IN  /\ phase[c] = "idle"
        /\ phase' = [phase EXCEPT ![c] = "found"]
        /\ lock' = [lock EXCEPT ![c] = found]
        /\ table' = [table EXCEPT ![key[c]] = found]
        /\ UNCHANGED <<key, op, ahead, seen>>

(* Wrong: one lock for the whole frontier. *)
KeyLockForAll(c) ==
    LET held == {Retained[k] : k \in Keys} \ {NoLock}
        found == IF held = {} THEN c ELSE CHOOSE l \in held : TRUE
    IN  /\ phase[c] = "idle"
        /\ phase' = [phase EXCEPT ![c] = "found"]
        /\ lock' = [lock EXCEPT ![c] = found]
        /\ table' = [Retained EXCEPT ![key[c]] = found]
        /\ UNCHANGED <<key, op, ahead, seen>>

(* key_lock: drop what has no owner left, then share the key's lock or     *)
(* make one.  One critical section of the table's own mutex.               *)
KeyLock(c) ==
    LET found == IF Retained[key[c]] = NoLock THEN c ELSE Retained[key[c]]
    IN  /\ phase[c] = "idle"
        /\ phase' = [phase EXCEPT ![c] = "found"]
        /\ lock' = [lock EXCEPT ![c] = found]
        /\ table' = [Retained EXCEPT ![key[c]] = found]
        /\ UNCHANGED <<key, op, ahead, seen>>

(* lock.lock().await, first poll: another call may have looked the lock    *)
(* up earlier and yet queue later.                                         *)
Queue(c) ==
    /\ phase[c] = "found"
    /\ phase' = [phase EXCEPT ![c] = "queued"]
    /\ ahead' = [ahead EXCEPT ![c] = {d \in Calls : Queued(d) /\ lock[d] = lock[c]}]
    /\ UNCHANGED <<key, op, lock, table, seen>>

(* Wrong: a call that ends leaks its Arc. *)
EndKeepingLock(c, result) ==
    /\ phase' = [phase EXCEPT ![c] = result]
    /\ ahead' = [ahead EXCEPT ![c] = {}]
    /\ UNCHANGED lock

(* Ending drops the guard and the Arc; no call removes its table entry.    *)
End(c, result) ==
    /\ phase' = [phase EXCEPT ![c] = result]
    /\ lock' = [lock EXCEPT ![c] = NoLock]
    /\ ahead' = [ahead EXCEPT ![c] = {}]

(* Wrong: the claim is granted on is_seen's word, the key left unmarked. *)
IsSeenGrants(c) ==
    /\ phase[c] = "queued" /\ op[c] = "claim" /\ Holds(c)
    /\ IF key[c] \in seen THEN End(c, "refused") ELSE End(c, "claimed")
    /\ UNCHANGED <<key, op, table, seen>>

(* inner.claim, first await: is_seen answers. *)
IsSeen(c) ==
    /\ phase[c] = "queued" /\ op[c] = "claim" /\ Holds(c)
    /\ \/ key[c] \in seen /\ End(c, "refused")
       \/ /\ key[c] \notin seen
          /\ phase' = [phase EXCEPT ![c] = "marking"]
          /\ UNCHANGED <<lock, ahead>>
    /\ UNCHANGED <<key, op, table, seen>>

(* inner.claim, second await: mark_seen answers. *)
MarkClaimed(c) ==
    /\ phase[c] = "marking" /\ Holds(c)
    /\ End(c, "claimed")
    /\ seen' = seen \cup {key[c]}
    /\ UNCHANGED <<key, op, table>>

(* Wrong: mark_seen goes straight to the backend. *)
MarkSeenUnlocked(c) ==
    /\ phase[c] = "queued" /\ op[c] = "mark_seen"
    /\ End(c, "marked")
    /\ seen' = seen \cup {key[c]}
    /\ UNCHANGED <<key, op, table>>

(* mark_seen, under the same lock as the claims *)
MarkSeen(c) ==
    /\ phase[c] = "queued" /\ op[c] = "mark_seen" /\ Holds(c)
    /\ End(c, "marked")
    /\ seen' = seen \cup {key[c]}
    /\ UNCHANGED <<key, op, table>>

(* Whether a mark_seen that is under way may have reached the backend. *)
MarkUnderWay(c) == Holds(c) /\ (phase[c] = "marking" \/ op[c] = "mark_seen")

(* A backend call answers with an error, or the caller drops the future.   *)
(* A mark under way may or may not have taken effect.                      *)
Abandon(c, result) ==
    /\ End(c, result)
    /\ \/ seen' = seen
       \/ MarkUnderWay(c) /\ seen' = seen \cup {key[c]}
    /\ UNCHANGED <<key, op, table>>

Fail(c) == Holds(c) /\ Abandon(c, "failed")
Drop(c) == Owns(c) /\ Abandon(c, "dropped")

Backend(c) == IsSeen(c) \/ MarkClaimed(c) \/ MarkSeen(c)

Next == \E c \in Calls :
    KeyLock(c) \/ Queue(c) \/ IsSeen(c) \/ MarkClaimed(c) \/ MarkSeen(c) \/ Fail(c) \/ Drop(c)

(* The executor polls every future; the backend answers except on a hung   *)
(* key; nothing forces a failure or a cancellation.                        *)
Fairness == \A c \in Calls :
    /\ WF_vars(KeyLock(c))
    /\ WF_vars(Queue(c))
    /\ WF_vars(key[c] \notin HungKeys /\ Backend(c))

Spec == Init /\ [][Next]_vars
FairSpec == Spec /\ Fairness

-----------------------------------------------------------------------------
(* Properties *)

(* Every variable has its type, and a call keeps its lock alive exactly    *)
(* while it is in flight: a lock kept by a call that ended would stay in    *)
(* the table for good.                                                     *)
TypeOK ==
    /\ key \in [Calls -> Keys]
    /\ op \in [Calls -> Ops]
    /\ phase \in [Calls -> Phases]
    /\ lock \in [Calls -> Calls \cup {NoLock}]
    /\ ahead \in [Calls -> SUBSET Calls]
    /\ table \in [Keys -> Calls \cup {NoLock}]
    /\ seen \in SUBSET Keys
    /\ \A c \in Calls : Owns(c) <=> lock[c] # NoLock

(* Two claims of one key never both succeed (Frontier::claim returns true  *)
(* "only when it was newly claimed"), although the backend's claim is two  *)
(* separate calls with another claimer's between them.                     *)
AtMostOneClaim ==
    \A c, d \in Calls :
        c # d /\ key[c] = key[d] /\ phase[c] = "claimed" => phase[d] # "claimed"

(* Calls in flight for one key share one lock, whatever lookups, dead      *)
(* entries and cancellations came between their lookups: a second lock     *)
(* for a key would let two calls run at once.                              *)
OneLockPerKey ==
    \A c, d \in Calls : Owns(c) /\ Owns(d) /\ key[c] = key[d] => lock[c] = lock[d]

(* A claim granted after another call marked the key would crawl a page    *)
(* twice: a key is unseen at the step that grants its claim.               *)
GrantsUnseenOnly ==
    [][\A c \in Calls : phase[c] # "claimed" /\ phase'[c] = "claimed" => key[c] \notin seen]_vars

(* "The table does not grow with the URLs the engine encounters": after a  *)
(* lookup every entry of the table has an owner in flight.                 *)
LookupLeavesNoDeadEntry ==
    [][\A c \in Calls : KeyLock(c) =>
           \A k \in Keys : table'[k] # NoLock => \E d \in Calls : Owns(d)' /\ lock'[d] = table'[k]]_vars

(* "a frontier call that never returns holds back its own key and no       *)
(* other": a call for a key the backend answers for always ends.           *)
OnlyItsOwnKey ==
    \A c \in Calls : key[c] \notin HungKeys ~> phase[c] \in Ended

(* What the wrapper promises its callers: see AtomicClaim. *)
AbstractPhase(c) == IF phase[c] \in Ended THEN phase[c] ELSE "open"
Atomic == INSTANCE AtomicClaim WITH outcome <- [c \in Calls |-> AbstractPhase(c)]
RefinesAtomicClaim == Atomic!Spec
=============================================================================
