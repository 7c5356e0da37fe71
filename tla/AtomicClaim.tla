---------------------------- MODULE AtomicClaim ----------------------------
(***************************************************************************)
(* What Frontier::claim promises (traits.rs): one indivisible test-and-set *)
(* per key, however many steps the backend needs.  A call that fails or is *)
(* cancelled may have marked its key, and never reports it claimed.        *)
(***************************************************************************)
EXTENDS Naturals

CONSTANTS Calls, Keys
VARIABLES key, op, outcome, seen

vars == <<key, op, outcome, seen>>

Init ==
    /\ key \in [Calls -> Keys]
    /\ op \in [Calls -> {"claim", "mark_seen"}]
    /\ outcome = [c \in Calls |-> "open"]
    /\ seen = {}

Ends(c, result) ==
    /\ outcome[c] = "open"
    /\ outcome' = [outcome EXCEPT ![c] = result]
    /\ UNCHANGED <<key, op>>

Claim(c) ==
    /\ op[c] = "claim" /\ key[c] \notin seen
    /\ Ends(c, "claimed") /\ seen' = seen \cup {key[c]}

Refuse(c) == op[c] = "claim" /\ key[c] \in seen /\ Ends(c, "refused") /\ seen' = seen

Mark(c) == op[c] = "mark_seen" /\ Ends(c, "marked") /\ seen' = seen \cup {key[c]}

Give(c, result) == Ends(c, result) /\ seen' \in {seen, seen \cup {key[c]}}

Next == \E c \in Calls :
    Claim(c) \/ Refuse(c) \/ Mark(c) \/ Give(c, "failed") \/ Give(c, "dropped")

Spec == Init /\ [][Next]_vars
=============================================================================
