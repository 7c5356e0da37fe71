-------------------------- MODULE PerDomainThrottle --------------------------
(***************************************************************************)
(* PerDomainThrottle (defaults/rate_limiter.rs), used the way the tower    *)
(* layer uses it (tower/rate_limit.rs): acquire, send, record_response.    *)
(*                                                                         *)
(* Time passes in ticks; only differences of instants are kept, and cut    *)
(* off at Ttl, where the code tells no more apart.  A caller that sleeps   *)
(* may wake late.  An Option is a set with at most one member.             *)
(***************************************************************************)
EXTENDS Naturals, Sequences, FiniteSets, FiniteSetsExt, SequencesExt

CONSTANTS Callers, Domains,
          Default,        \* default_delay
          MaxBackoff,     \* MAX_BACKOFF
          Relax,          \* SUCCESSES_BEFORE_RELAX
          Ttl,            \* DOMAIN_STATE_TTL
          SweepInterval,  \* SWEEP_INTERVAL
          JitterPercent,  \* jitter_ratio
          RobotsDelays    \* [Domains -> what its robots.txt may ask for]

ASSUME ThrottleAssumption ==
    /\ {Default, MaxBackoff, Ttl, SweepInterval, JitterPercent} \subseteq Nat
    /\ Relax \in Nat \ {0} /\ JitterPercent <= 100
(* A domain is not forgotten sooner than it may be asked again. *)
ASSUME HorizonAssumption ==
    RobotsDelays \in [Domains -> SUBSET (0 .. Ttl)] /\ Default <= Ttl /\ MaxBackoff <= Ttl

VARIABLES
    pc,        \* [Callers -> where the request is]
    turn,      \* [Callers -> the turn it asked for, <<>> without a request]
    queue,     \* [Turns -> callers at the mutex, its owner first]
    left,      \* [Callers -> what is left of its sleep]
    state,     \* the domains of ThrottleState and their DomainState
    current,   \* [Domains -> the generation of the turn in its state]
    sweepAge,  \* the time since last_sweep
    since      \* [Domains -> the time since a request went], not in the code

calls == <<pc, turn, queue, left>>
vars == <<calls, state, current, sweepAge, since>>

(* A domain that is dropped and made anew gets another turn. *)
Turns == Domains \X {0, 1}
TurnOf(d) == <<d, current[d]>>
DomainOf(c) == turn[c][1]
Elements(q) == {q[i] : i \in DOMAIN q}

OrElse(option, default) == IF option = {} THEN default ELSE Max(option)

Init ==
    /\ pc = [c \in Callers |-> "idle"]
    /\ turn = [c \in Callers |-> <<>>]
    /\ queue = [t \in Turns |-> <<>>]
    /\ left = [c \in Callers |-> 0]
    /\ state = [d \in {} |-> 0]
    /\ current = [d \in Domains |-> 0]
    /\ sweepAge = 0
    /\ since = [d \in Domains |-> Ttl]

-----------------------------------------------------------------------------
(* DomainState *)

NewState == [age |-> Default, crawl |-> {}, robots |-> {}, ok |-> 0]

(* effective_delay *)
Effective(s) == OrElse(s.crawl \cup s.robots, Default)
Floor(s) == OrElse(s.robots, Default)

(* back_off *)
BackOff(s) ==
    [s EXCEPT !.ok = 0, !.crawl = {Min({2 * OrElse(s.crawl, Default), MaxBackoff})}]

(* Wrong: every good answer halves the delay. *)
SuccessAtOnce(s) ==
    [s EXCEPT !.ok = 0, !.crawl = {h \in {c \div 2 : c \in s.crawl} : h > Floor(s)}]
(* record_success *)
Success(s) ==
    IF s.ok + 1 < Relax THEN [s EXCEPT !.ok = @ + 1]
    ELSE [s EXCEPT !.ok = 0, !.crawl = {h \in {c \div 2 : c \in s.crawl} : h > Floor(s)}]

(* jitter *)
Jittered(delay) ==
    {w \in 0 .. 2 * delay : /\ 100 * w >= (100 - JitterPercent) * delay
                            /\ 100 * w <= (100 + JitterPercent) * delay}

(* Wrong: jitter may shorten the gap that robots.txt asks for. *)
WaitsUnderFloor(s) ==
    IF s.age >= Effective(s) THEN {0}
    ELSE {IF w > s.age THEN w - s.age ELSE 0 : w \in Jittered(Effective(s))}
(* wait_for *)
Waits(s) ==
    IF s.age >= Effective(s) THEN {0}
    ELSE {IF w > s.age THEN w - s.age ELSE 0 :
            w \in {Max({w} \cup s.robots) : w \in Jittered(Effective(s))}}

-----------------------------------------------------------------------------
(* ThrottleState *)

(* The clones of a domain's turn: strong_count is more than 1. *)
Cloned(d) ==
    \E c \in Callers : pc[c] \in {"entering", "queued", "asleep"} /\ turn[c] = TurnOf(d)

(* Wrong: a sweep drops the domain of a request that still waits. *)
SweptByAge ==
    IF sweepAge < SweepInterval THEN DOMAIN state
    ELSE {d \in DOMAIN state : state[d].age < Ttl}
(* sweep_if_due: the domains that stay *)
Swept ==
    IF sweepAge < SweepInterval THEN DOMAIN state
    ELSE {d \in DOMAIN state : Cloned(d) \/ state[d].age < Ttl}

(* domain: the state of d among the domains D, made on first use *)
Entry(D, d) == IF d \in D THEN state[d] ELSE NewState
(* A new state comes with a new turn.  (Which one matters only while some- *)
(* body still has the old one.)                                            *)
NewTurn(D, d) ==
    current' = IF d \in D \/ ~Cloned(d) THEN current ELSE [current EXCEPT ![d] = 1 - @]
Put(D, d, s) ==
    /\ state' = [e \in D \cup {d} |-> IF e = d THEN s ELSE state[e]]
    /\ NewTurn(D, d)

-----------------------------------------------------------------------------
(* acquire, up to the queue of the turn *)
Enter(c, d) ==
    /\ pc[c] = "idle"
    /\ pc' = [pc EXCEPT ![c] = "entering"]
    /\ Put(Swept, d, Entry(Swept, d))
    /\ turn' = [turn EXCEPT ![c] = <<d, current'[d]>>]
    /\ sweepAge' = IF sweepAge < SweepInterval THEN sweepAge ELSE 0
    /\ UNCHANGED <<queue, left, since>>

Queue(c) ==
    /\ pc[c] = "entering"
    /\ pc' = [pc EXCEPT ![c] = "queued"]
    /\ queue' = [queue EXCEPT ![turn[c]] = Append(@, c)]
    /\ UNCHANGED <<turn, left, state, current, sweepAge, since>>

(* The mutex goes to the first in its queue, which reads its wait. *)
TakeTurn(c) ==
    LET d == DomainOf(c)
        s == Entry(DOMAIN state, d) IN
    /\ pc[c] = "queued" /\ Head(queue[turn[c]]) = c
    /\ pc' = [pc EXCEPT ![c] = "asleep"]
    /\ \E w \in Waits(s) : left' = [left EXCEPT ![c] = w]
    /\ Put(DOMAIN state, d, s)
    /\ UNCHANGED <<turn, queue, sweepAge, since>>

(* The sleep is over: acquire returns, and the turn goes to the next. *)
Go(c) ==
    LET d == DomainOf(c) IN
    /\ pc[c] = "asleep" /\ left[c] = 0
    /\ pc' = [pc EXCEPT ![c] = "sent"]
    /\ queue' = [queue EXCEPT ![turn[c]] = Tail(@)]
    /\ Put(DOMAIN state, d, [Entry(DOMAIN state, d) EXCEPT !.age = 0])
    /\ since' = [since EXCEPT ![d] = 0]
    /\ UNCHANGED <<turn, left, sweepAge>>

(* Wrong: a caller that gives up stays in the queue. *)
StayInQueue(q, c) == q
(* The mutex forgets a caller that gives up, or is released by it. *)
Leave(q, c) == RemoveAt(q, CHOOSE i \in DOMAIN q : q[i] = c)

(* The request is dropped: while it waits, sleeps or is sent.  A request   *)
(* that fails is not recorded either.                                      *)
Drop(c) ==
    /\ pc[c] \in {"queued", "asleep", "sent"}
    /\ pc' = [pc EXCEPT ![c] = "idle"]
    /\ queue' = IF pc[c] = "sent" THEN queue ELSE [queue EXCEPT ![turn[c]] = Leave(@, c)]
    /\ left' = [left EXCEPT ![c] = 0]
    /\ turn' = [turn EXCEPT ![c] = <<>>]
    /\ UNCHANGED <<state, current, sweepAge, since>>

(* record_response, for a 429, for a good answer, and for any other *)
Respond(c) ==
    LET d == DomainOf(c) IN
    /\ pc[c] = "sent"
    /\ pc' = [pc EXCEPT ![c] = "idle"]
    /\ \/ d \in DOMAIN state /\ state' = [state EXCEPT ![d] = BackOff(@)]
       \/ d \in DOMAIN state /\ state' = [state EXCEPT ![d] = Success(@)]
       \/ UNCHANGED state
    /\ turn' = [turn EXCEPT ![c] = <<>>]
    /\ UNCHANGED <<queue, left, current, sweepAge, since>>

(* set_crawl_delay, when a chain visits an origin *)
SetCrawlDelay(d, delay) ==
    /\ Put(DOMAIN state, d, [Entry(DOMAIN state, d) EXCEPT !.robots = {delay}, !.crawl = {delay}])
    /\ UNCHANGED <<calls, sweepAge, since>>

Older(age) == IF age < Ttl THEN age + 1 ELSE Ttl
Tick ==
    /\ state' = [d \in DOMAIN state |-> [state[d] EXCEPT !.age = Older(@)]]
    /\ sweepAge' = IF sweepAge < SweepInterval THEN sweepAge + 1 ELSE sweepAge
    /\ since' = [d \in Domains |-> Older(since[d])]
    /\ left' = [c \in Callers |-> IF left[c] > 0 THEN left[c] - 1 ELSE 0]
    /\ UNCHANGED <<pc, turn, queue, current>>

Step(c) == Queue(c) \/ TakeTurn(c) \/ Go(c)
Next ==
    \/ \E c \in Callers : Step(c) \/ Drop(c) \/ Respond(c) \/ \E d \in Domains : Enter(c, d)
    \/ \E d \in Domains : \E delay \in RobotsDelays[d] : SetCrawlDelay(d, delay)
    \/ Tick

Spec == Init /\ [][Next]_vars
(* Time passes, and a task that can go on does. *)
FairSpec == Spec /\ WF_vars(Tick) /\ \A c \in Callers : WF_vars(Step(c))

-----------------------------------------------------------------------------
(* Types, and that a turn's queue is exactly the callers that wait for it. *)
States == [age : 0 .. Ttl, crawl : SUBSET (0 .. Ttl), robots : SUBSET (0 .. Ttl), ok : 0 .. Relax - 1]
TypeOK ==
    /\ pc \in [Callers -> {"idle", "entering", "queued", "asleep", "sent"}]
    /\ turn \in [Callers -> Turns \cup {<<>>}] /\ left \in [Callers -> 0 .. 2 * Ttl]
    /\ DOMAIN state \subseteq Domains /\ \A d \in DOMAIN state : state[d] \in States
    /\ current \in [Domains -> {0, 1}] /\ sweepAge \in 0 .. SweepInterval
    /\ since \in [Domains -> 0 .. Ttl] /\ queue \in [Turns -> Seq(Callers)]
    /\ \A t \in Turns : Elements(queue[t]) = {c \in Callers : pc[c] \in {"queued", "asleep"} /\ turn[c] = t}

(* The requests of one domain that have not gone yet share one turn, the   *)
(* one the next request will find: no sweep splits the queue of a domain.  *)
OneQueue ==
    \A c \in Callers : pc[c] \in {"entering", "queued", "asleep"} =>
        DomainOf(c) \in DOMAIN state /\ turn[c] = TurnOf(DomainOf(c))

(* A domain's delay is never under what robots.txt, or else the configura- *)
(* tion, asks for, and it shrinks only when the domain has answered well   *)
(* as often as it takes, to no less than half (rounded down to a tick),    *)
(* when its robots.txt is read again, or when it was left alone for the    *)
(* lifetime of its state.                                                  *)
DelayHolds ==
    [][\A d \in DOMAIN state \cap DOMAIN state' :
        /\ Effective(state'[d]) >= Floor(state'[d])
        /\ Effective(state'[d]) < Effective(state[d]) =>
             \/ /\ state[d].ok = Relax - 1 /\ state'[d].ok = 0
                /\ 2 * Effective(state'[d]) + 1 >= Effective(state[d])
             \/ state[d].age = Ttl /\ ~Cloned(d)
             \/ state'[d].robots # {} /\ state'[d].crawl = state'[d].robots]_vars

(* A request that waits is let through or given up, whoever else gives up. *)
EveryRequestGoes == \A c \in Callers : pc[c] = "queued" ~> pc[c] \in {"sent", "idle"}

(* The throttle keeps the promise of a rate limiter: order of arrival, one *)
(* at a time, and never under the delay that robots.txt asks for.          *)
PT == INSTANCE PacedTurns WITH
    Delays <- UNION {RobotsDelays[d] : d \in Domains}, Horizon <- Ttl,
    line <- [d \in Domains |-> queue[TurnOf(d)]],
    rest <- [d \in Domains |-> {left[c] : c \in {c \in Callers : pc[c] = "asleep" /\ turn[c] = TurnOf(d)}}],
    asked <- [d \in Domains |-> IF d \in DOMAIN state THEN OrElse(state[d].robots, 0) ELSE 0]
PacesTurns == PT!Spec
=============================================================================
