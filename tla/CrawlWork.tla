----------------------------- MODULE CrawlWork -----------------------------
(***************************************************************************)
(* What a crawl does with its work, leaving out how: an entry waits in the *)
(* frontier (the loop's window included), is taken up, and is settled, as  *)
(* a page, a failure or a refusal; when the crawl stops early it goes back *)
(* to waiting.  No entry is settled twice, comes back once settled, or     *)
(* leaves without being settled.                                           *)
(***************************************************************************)
CONSTANTS Urls, Seed
VARIABLES waiting, taken, settled

vars == <<waiting, taken, settled>>
Known == waiting \cup taken \cup settled

Init == waiting = {Seed} /\ taken = {} /\ settled = {}

Discover(found) ==
    /\ found \cap Known = {}
    /\ waiting' = waiting \cup found
    /\ UNCHANGED <<taken, settled>>

Take(u) ==
    /\ u \in waiting
    /\ waiting' = waiting \ {u} /\ taken' = taken \cup {u}
    /\ UNCHANGED settled

Settle(u) ==
    /\ u \in taken
    /\ taken' = taken \ {u} /\ settled' = settled \cup {u}
    /\ UNCHANGED waiting

(* Discovery that fails part of the way: the page is settled with it. *)
Abandon(u, found) ==
    /\ u \in taken /\ found \cap Known = {}
    /\ taken' = taken \ {u} /\ settled' = settled \cup {u}
    /\ waiting' = waiting \cup found

(* Entries rejected before they are taken, or lost by the frontier. *)
Discard(gone) ==
    /\ gone \subseteq waiting
    /\ waiting' = waiting \ gone /\ settled' = settled \cup gone
    /\ UNCHANGED taken

PutBack ==
    /\ waiting' = waiting \cup taken /\ taken' = {}
    /\ UNCHANGED settled

Next == \/ PutBack
        \/ \E u \in Urls : Take(u) \/ Settle(u)
        \/ \E found \in SUBSET Urls : Discover(found) \/ Discard(found)
        \/ \E u \in Urls, found \in SUBSET Urls : Abandon(u, found)

Spec == Init /\ [][Next]_vars
=============================================================================
