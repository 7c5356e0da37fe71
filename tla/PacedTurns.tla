----------------------------- MODULE PacedTurns -----------------------------
(***************************************************************************)
(* What a rate limiter promises: the requests of one domain go through one *)
(* by one, in the order in which they arrived, and none of them sooner     *)
(* after the one before than the domain asked for when its turn came.      *)
(***************************************************************************)
EXTENDS Naturals, Sequences, SequencesExt

CONSTANTS Callers, Domains,
          Delays,       \* what a domain may ask for
          Horizon       \* after so long without a request a domain may be forgotten

VARIABLES
    line,     \* [Domains -> the callers that wait, in the order of arrival]
    rest,     \* [Domains -> how long the head still waits, {} before its turn came]
    asked,    \* [Domains -> the delay the domain asks for]
    since     \* [Domains -> how long ago the last request went, at most Horizon]

vars == <<line, rest, asked, since>>

Init ==
    /\ line = [d \in Domains |-> <<>>]
    /\ rest = [d \in Domains |-> {}]
    /\ asked = [d \in Domains |-> 0]
    /\ since = [d \in Domains |-> Horizon]

Arrive(c, d) ==
    /\ line' = [line EXCEPT ![d] = Append(@, c)]
    /\ UNCHANGED <<rest, asked, since>>

(* Domains nobody waits for are forgotten. *)
Forget(F) ==
    /\ \A d \in F : line[d] = <<>> /\ since[d] = Horizon
    /\ asked' = [d \in Domains |-> IF d \in F THEN 0 ELSE asked[d]]
    /\ UNCHANGED <<line, rest, since>>

Ask(d, delay) ==
    /\ asked' = [asked EXCEPT ![d] = delay]
    /\ UNCHANGED <<line, rest, since>>

(* The head's turn comes: it is told how long to wait. *)
TakeTurn(d, wait) ==
    /\ line[d] # <<>> /\ rest[d] = {} /\ since[d] + wait >= asked[d]
    /\ rest' = [rest EXCEPT ![d] = {wait}]
    /\ UNCHANGED <<line, asked, since>>

Go(d) ==
    /\ rest[d] = {0}
    /\ line' = [line EXCEPT ![d] = Tail(@)]
    /\ rest' = [rest EXCEPT ![d] = {}]
    /\ since' = [since EXCEPT ![d] = 0]
    /\ UNCHANGED asked

GiveUp(c, d) ==
    /\ \E i \in DOMAIN line[d] :
         /\ line[d][i] = c
         /\ rest' = IF i = 1 THEN [rest EXCEPT ![d] = {}] ELSE rest
         /\ line' = [line EXCEPT ![d] = RemoveAt(@, i)]
    /\ UNCHANGED <<asked, since>>

Tick ==
    /\ since' = [d \in Domains |-> IF since[d] < Horizon THEN since[d] + 1 ELSE Horizon]
    /\ rest' = [d \in Domains |-> {IF w > 0 THEN w - 1 ELSE 0 : w \in rest[d]}]
    /\ UNCHANGED <<line, asked>>

Next ==
    \/ \E c \in Callers, d \in Domains : Arrive(c, d) \/ GiveUp(c, d)
    \/ \E F \in SUBSET Domains : Forget(F)
    \/ \E d \in Domains, delay \in Delays : Ask(d, delay)
    \/ \E d \in Domains, wait \in 0 .. 2 * Horizon : TakeTurn(d, wait)
    \/ \E d \in Domains : Go(d)
    \/ Tick

Spec == Init /\ [][Next]_vars
=============================================================================
