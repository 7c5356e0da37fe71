---------------------------- MODULE SeedSchedule ----------------------------
(***************************************************************************)
(* A batch of crawls that share Slots seed slots (engine/seed_schedule.rs, *)
(* cooperative.rs, host_turn.rs, continuation.rs, and the places where     *)
(* crawl_loop.rs asks for an activity or pushes a host turn).              *)
(*                                                                         *)
(* A job is <<s, 0>>, the seed s itself while its redirects are resolved,  *)
(* or <<s, i>>, the i-th page of its crawl.  A seed holds at most one slot *)
(* (its lease) for all its jobs; a job works under an activity guard.  A   *)
(* job that needs a host's turn parks in a line of HostTurns, and a seed   *)
(* whose jobs are all parked gives its slot back.                          *)
(*                                                                         *)
(* What a fetch does is a choice: it asks for the next turn of its route,  *)
(* or it is over.  Wakers are not modelled: a future that can make         *)
(* progress is polled.                                                     *)
(***************************************************************************)
EXTENDS Naturals, Sequences, FiniteSets

CONSTANTS Seeds,      \* the ids of the batch, in the order of its URLs
          Slots,      \* max_concurrent, of the batch and of each crawl
          Pages,      \* [Seeds -> Nat], how many pages the crawl of a seed has
          Hosts,
          Route,      \* [Jobs -> Seq(Hosts)], the turns a job takes, one by one
          Streaming,  \* the results go to a channel whose receiver may be dropped
          Refusing    \* hosts for which the rate limiter may return an error

Jobs == UNION {{s} \X (0 .. Pages[s]) : s \in Seeds}

ASSUME SeedAssumption == Seeds \subseteq Nat /\ IsFiniteSet(Seeds)
ASSUME SlotAssumption == Slots \in Nat \ {0} /\ Pages \in [Seeds -> Nat]
ASSUME RouteAssumption ==
    Route \in [Jobs -> Seq(Hosts)] /\ \A s \in Seeds : Route[<<s, 0>>] # <<>>
ASSUME FlagAssumption == Streaming \in BOOLEAN /\ Refusing \subseteq Hosts

VARIABLES
    phase,      \* [Jobs -> where the job is]
    turns,      \* [Jobs -> how many turns of its route the job has had]
    guard,      \* jobs that hold an activity guard
    lease,      \* seeds that hold a slot
    slotq,      \* seeds whose reservation is queued at the semaphore
    asking,     \* jobs in CooperativeContext::activity
    completed,  \* seeds whose context is completed
    waiter,     \* jobs whose host admission is a future: the heads
    queue,      \* [Lines -> jobs behind the head]
    evidence,   \* [Jobs -> what the job's admission says of its host]
    limiter,    \* [Hosts -> jobs whose acquire was polled, in order]
    due,        \* hosts whose delay since the last request has passed
    cancelled   \* the schedule saw the receiver dropped

slots == <<guard, lease, slotq, asking, completed>>
lines == <<waiter, queue, evidence, limiter, due>>
vars == <<phase, turns, slots, lines, cancelled>>

Phases == {"no", "ask", "work", "line", "refused", "loop", "over", "done", "dropped",
           "out", "fold", "aborted", "end"}

-----------------------------------------------------------------------------
SeedOf(j) == j[1]
Main(s) == <<s, 0>>
IsMain(j) == j[2] = 0
Owned(s) == {j \in Jobs : SeedOf(j) = s}
PagesOf(s) == {j \in Owned(s) : ~IsMain(j)}
InPhase(S) == {j \in Jobs : phase[j] \in S}

(* The schedule has one HostTurns for the seeds, each crawl one of its own. *)
Owner(j) == IF IsMain(j) THEN {} ELSE {SeedOf(j)}
HostAt(j) == Route[j][turns[j] + 1]
Line(j) == <<Owner(j), HostAt(j)>>
Lines == ({{}} \cup {{s} : s \in Seeds}) \X Hosts
TurnsLeft(j) == turns[j] < Len(Route[j])

(* ContextState::waiting and CooperativeContext::active, as sets *)
Waiting(s) == Owned(s) \cap InPhase({"line"})
Active(s) == Owned(s) \cap guard

(* SeedProgress::unavailable, for the host of a seed *)
Unavailable(s) ==
    \E j \in Jobs : evidence[j] # "none" /\ HostAt(j) = Route[Main(s)][1]

(* The loop of a crawl is not waiting for an activity itself. *)
LoopFree(s) == PagesOf(s) \cap InPhase({"ask", "fold"}) = {}
(* join_set.len() < max_concurrent *)
HasRoom(s) == Cardinality(PagesOf(s) \cap InPhase({"work", "out"})) < Slots

Elements(q) == {q[i] : i \in DOMAIN q}
(* What is left of q when the elements of S go. *)
Without(q, S) ==
    LET kept[i \in 0 .. Len(q)] ==
            IF i = 0 THEN <<>>
            ELSE IF q[i] \in S THEN kept[i - 1] ELSE Append(kept[i - 1], q[i])
    IN  kept[Len(q)]

Init ==
    /\ phase = [j \in Jobs |-> "no"]
    /\ turns = [j \in Jobs |-> 0]
    /\ guard = {} /\ lease = {} /\ slotq = <<>> /\ asking = {} /\ completed = {}
    /\ waiter = {} /\ queue = [l \in Lines |-> <<>>]
    /\ evidence = [j \in Jobs |-> "none"]
    /\ limiter = [h \in Hosts |-> <<>>]
    /\ due = Hosts
    /\ cancelled = FALSE

-----------------------------------------------------------------------------
(* The slot of a seed *)

(* tokio's semaphore gives a free permit to the first in its queue: the    *)
(* reservations the free permits reach are the ones that are granted.      *)
Free == Slots - Cardinality(lease)
Granted(s) ==
    /\ Cardinality(lease) < Slots
    /\ IF s \in Elements(slotq) THEN \E i \in 1 .. Free : i \in DOMAIN slotq /\ slotq[i] = s
                                ELSE Len(slotq) < Free
CanTake(s) == s \notin completed /\ (s \in lease \/ Granted(s))

(* What a change of the context leaves of the leases.  The operations take *)
(* the guards and the waiting jobs of the seed as they are at that point.  *)

(* Wrong: a host wait takes the slot from the jobs still at work. *)
ParkAllLease(L, s, active) == L \ {s}
(* waiting *)
LeaseParked(L, s, active) == IF active = {} THEN L \ {s} ELSE L

(* Wrong: the last guard keeps the slot of a completed context. *)
ForgetCompletedLease(L, s, active, waiting, done) ==
    IF active = {} /\ waiting # {} THEN L \ {s} ELSE L
(* ActivityGuard::finish; active is what is left *)
LeaseFinished(L, s, active, waiting, done) ==
    IF active = {} /\ (waiting # {} \/ done) THEN L \ {s} ELSE L

(* Wrong: completing a context leaves the release to a guard it may not have. *)
LeaveLease(L, s, active) == L
(* complete *)
LeaseCompleted(L, s, active) == IF active = {} THEN L \ {s} ELSE L

(* Wrong: a tentative start that goes back keeps its slot. *)
KeepTentativeLease(L, s) == L \cup {s}
(* rollback_tentative: the guard ends while the context counts as waiting. *)
LeaseRolledBack(L, s) == L \ {s}

(* activity() returns a guard. *)
TakeActivity(j) ==
    /\ guard' = guard \cup {j}
    /\ lease' = lease \cup {SeedOf(j)}
    /\ slotq' = Without(slotq, {SeedOf(j)})
    /\ asking' = asking \ {j}

(* A caller of activity() without a lease sees to it that there is a       *)
(* reservation; all callers of one seed share it.                          *)
Reserve(s) ==
    /\ s \notin lease \cup completed \cup Elements(slotq)
    /\ Owned(s) \cap asking # {}
    /\ slotq' = Append(slotq, s)
    /\ UNCHANGED <<phase, turns, guard, lease, asking, completed, lines, cancelled>>

-----------------------------------------------------------------------------
(* The lines of the hosts *)

(* Wrong: every job gets a waiter, whoever waits for its host already. *)
PushAlone(j) == waiter' = waiter \cup {j} /\ UNCHANGED queue
(* enqueue *)
Push(j) ==
    IF \E k \in waiter : Line(k) = Line(j)
    THEN queue' = [queue EXCEPT ![Line(j)] = Append(@, j)] /\ UNCHANGED waiter
    ELSE waiter' = waiter \cup {j} /\ UNCHANGED queue

(* Wrong: the turn that ends starts no waiter for the one behind it. *)
LeaveAlone(j) == waiter' = waiter \ {j} /\ UNCHANGED queue
(* next: the turn of j has ended, and the next one of its host waits *)
Leave(j) ==
    LET q == queue[Line(j)] IN
    IF q = <<>> THEN waiter' = waiter \ {j} /\ UNCHANGED queue
    ELSE /\ waiter' = (waiter \ {j}) \cup {Head(q)}
         /\ queue' = [queue EXCEPT ![Line(j)] = Tail(q)]

SetPhase(j, p) == phase' = [phase EXCEPT ![j] = p]

(* The futures of the jobs in S are dropped: their places at the limiter,  *)
(* and what they say of their hosts.                                       *)
DropAdmissions(S) ==
    /\ waiter' = waiter \ S
    /\ evidence' = [j \in Jobs |-> IF j \in S THEN "none" ELSE evidence[j]]
    /\ limiter' = [h \in Hosts |-> Without(limiter[h], S)]
    /\ UNCHANGED due

(* Wrong: drain returns the heads and forgets the jobs behind them. *)
DropHeads(o) ==
    DropAdmissions({j \in Jobs : Owner(j) = o}) /\ UNCHANGED queue
(* drain: the lines of one HostTurns are emptied, heads and all. *)
DropTurns(o) ==
    /\ DropAdmissions({j \in Jobs : Owner(j) = o})
    /\ queue' = [l \in Lines |-> IF l[1] = o THEN <<>> ELSE queue[l]]

(* Whoever drives the line polls it: the schedule, or a crawl's loop.      *)
Polled(j) ==
    IF IsMain(j) THEN ~cancelled
    ELSE phase[Main(SeedOf(j))] = "loop" /\ LoopFree(SeedOf(j)) /\ HasRoom(SeedOf(j))

(* The first poll, or the limiter woke the job that is first in its queue. *)
InLimiter(j) == j \in Elements(limiter[HostAt(j)])
Woken(j) == InLimiter(j) => HostAt(j) \in due /\ Head(limiter[HostAt(j)]) = j

(* HostAdmission::poll without a slot: ask for one, and tell that this     *)
(* host has a first probe that waits.                                      *)
AskTurn(j) ==
    /\ j \in waiter \ asking /\ Polled(j) /\ Woken(j)
    /\ ~CanTake(SeedOf(j)) /\ SeedOf(j) \notin completed
    /\ asking' = asking \cup {j}
    /\ slotq' = IF SeedOf(j) \in Elements(slotq) THEN slotq ELSE Append(slotq, SeedOf(j))
    /\ evidence' = IF evidence[j] = "none" THEN [evidence EXCEPT ![j] = "probe"] ELSE evidence
    /\ UNCHANGED <<phase, turns, guard, lease, completed, waiter, queue, limiter, due, cancelled>>

(* The limiter lets the job through: it works, under the guard it polled with. *)
AdmitTurn(j) ==
    LET h == HostAt(j) IN
    /\ j \in waiter /\ Polled(j) /\ Woken(j) /\ CanTake(SeedOf(j))
    /\ h \in due /\ (InLimiter(j) \/ limiter[h] = <<>>)
    /\ TakeActivity(j) /\ Leave(j) /\ SetPhase(j, "work")
    /\ turns' = [turns EXCEPT ![j] = @ + 1]
    /\ evidence' = [evidence EXCEPT ![j] = "none"]
    /\ limiter' = [limiter EXCEPT ![h] = Without(@, {j})]
    /\ due' = due \ {h}
    /\ UNCHANGED <<completed, cancelled>>

(* The guard of a poll that does not come through ends with the poll. *)
EndPoll(j) ==
    /\ lease' = LeaseFinished(lease \cup {SeedOf(j)}, SeedOf(j), Active(SeedOf(j)),
                              Waiting(SeedOf(j)), FALSE)
    /\ slotq' = Without(slotq, {SeedOf(j)})
    /\ UNCHANGED <<guard, completed>>

(* The limiter makes the job wait: the poll ends and its guard with it. *)
DelayTurn(j) ==
    /\ j \in waiter /\ Polled(j) /\ CanTake(SeedOf(j)) /\ ~InLimiter(j)
    /\ limiter[HostAt(j)] # <<>> \/ HostAt(j) \notin due
    /\ EndPoll(j) /\ asking' = asking \ {j}
    /\ limiter' = [limiter EXCEPT ![HostAt(j)] = Append(@, j)]
    /\ evidence' = [evidence EXCEPT ![j] = "pending"]
    /\ UNCHANGED <<phase, turns, waiter, queue, due, cancelled>>

(* The limiter fails or panics.  A seed waits for a slot to report it, a   *)
(* page's task reports it without one.                                     *)
RefuseTurn(j) ==
    /\ j \in waiter /\ HostAt(j) \in Refusing /\ Polled(j) /\ Woken(j) /\ CanTake(SeedOf(j))
    /\ EndPoll(j) /\ Leave(j)
    /\ asking' = IF IsMain(j) THEN asking \cup {j} ELSE asking \ {j}
    /\ SetPhase(j, IF IsMain(j) THEN "refused" ELSE "out")
    /\ turns' = [turns EXCEPT ![j] = @ + 1]
    /\ evidence' = [evidence EXCEPT ![j] = "none"]
    /\ limiter' = [limiter EXCEPT ![HostAt(j)] = Without(@, {j})]
    /\ UNCHANGED <<due, cancelled>>

(* The delay of a host passes. *)
Elapse(h) ==
    /\ h \notin due /\ due' = due \cup {h}
    /\ UNCHANGED <<phase, turns, slots, waiter, queue, evidence, limiter, cancelled>>

-----------------------------------------------------------------------------
(* The seeds *)

Backlog == {s \in Seeds : phase[Main(s)] = "no"}
Starts == {s \in Seeds : phase[Main(s)] = "ask"}

(* queue_starts: the first seed whose host nobody waits for *)
QueueStart(s) ==
    /\ ~cancelled /\ Cardinality(Starts) < Slots
    /\ s \in Backlog /\ ~Unavailable(s)
    /\ \A t \in Backlog : t < s => Unavailable(t)
    /\ SetPhase(Main(s), "ask") /\ asking' = asking \cup {Main(s)}
    /\ UNCHANGED <<turns, guard, lease, slotq, completed, lines, cancelled>>

(* start: the seed has its slot.  It may find that its host is waited for  *)
(* by now, or run.                                                         *)
RollBack(s) ==
    /\ ~cancelled /\ s \in Starts /\ CanTake(s) /\ Unavailable(s)
    /\ SetPhase(Main(s), "no") /\ asking' = asking \ {Main(s)}
    /\ lease' = LeaseRolledBack(lease \cup {s}, s)
    /\ slotq' = Without(slotq, {s})
    /\ UNCHANGED <<turns, guard, completed, lines, cancelled>>

Start(s) ==
    /\ ~cancelled /\ s \in Starts /\ CanTake(s) /\ ~Unavailable(s)
    /\ SetPhase(Main(s), "work") /\ TakeActivity(Main(s))
    /\ UNCHANGED <<turns, completed, lines, cancelled>>

(* The seed's continuation asks for a turn: it is parked, then its guard ends. *)
Yield(s) ==
    /\ ~cancelled /\ phase[Main(s)] = "work" /\ TurnsLeft(Main(s))
    /\ SetPhase(Main(s), "line") /\ Push(Main(s))
    /\ guard' = guard \ {Main(s)}
    /\ lease' = LeaseFinished(LeaseParked(lease, s, Active(s)), s, Active(s) \ {Main(s)},
                              {Main(s)}, FALSE)
    /\ UNCHANGED <<turns, slotq, asking, completed, evidence, limiter, due, cancelled>>

(* resume with an error *)
Resume(s) ==
    /\ phase[Main(s)] = "refused" /\ CanTake(s)
    /\ SetPhase(Main(s), "work") /\ TakeActivity(Main(s))
    /\ UNCHANGED <<turns, completed, lines, cancelled>>

(* crawl_with_sender got the seed's response: finish_parent, then the loop *)
EnterLoop(s) ==
    /\ phase[Main(s)] = "work" /\ turns[Main(s)] > 0
    /\ SetPhase(Main(s), "loop")
    /\ guard' = guard \ {Main(s)}
    /\ lease' = LeaseFinished(lease, s, Active(s) \ {Main(s)}, Waiting(s), s \in completed)
    /\ UNCHANGED <<turns, slotq, asking, completed, lines, cancelled>>

(* The crawl of the seed is over, or its redirects led nowhere: finish     *)
(* completes the context, and the continuation's own guard ends.           *)
Finish(s) ==
    /\ phase[Main(s)] \in {"work", "over"}
    /\ SetPhase(Main(s), "done")
    /\ completed' = completed \cup {s}
    /\ asking' = asking \ Owned(s) /\ slotq' = Without(slotq, {s})
    /\ guard' = guard \ {Main(s)}
    /\ lease' = LET L == LeaseCompleted(lease, s, Active(s)) IN
                IF Main(s) \in guard
                THEN LeaseFinished(L, s, Active(s) \ {Main(s)}, Waiting(s), TRUE)
                ELSE L
    /\ UNCHANGED <<turns, lines, cancelled>>

(* The receiver of the stream is gone: cancel *)
Cancel ==
    /\ Streaming /\ ~cancelled /\ cancelled' = TRUE
    /\ phase' = [j \in Jobs |->
                   CASE IsMain(j) /\ phase[j] \in {"no", "ask"} -> "dropped"
                     [] IsMain(j) /\ phase[j] \in {"line", "refused"} -> "over"
                     [] OTHER -> phase[j]]
    /\ completed' = Seeds
    /\ asking' = {} /\ slotq' = <<>>
    /\ lease' = {s \in lease : s \in LeaseCompleted(lease, s, Active(s))}
    /\ DropTurns({})
    /\ UNCHANGED <<turns, guard>>

-----------------------------------------------------------------------------
(* The pages of a crawl: its loop, and the tasks it spawns *)

(* spawn_prepared_hop waits for an activity, then spawns the task. *)
AskPrepare(j) ==
    LET s == SeedOf(j) IN
    /\ ~IsMain(j) /\ phase[j] = "no" /\ phase[Main(s)] = "loop"
    /\ LoopFree(s) /\ HasRoom(s) /\ s \notin completed
    /\ SetPhase(j, "ask") /\ asking' = asking \cup {j}
    /\ UNCHANGED <<turns, guard, lease, slotq, completed, lines, cancelled>>

Prepare(j) ==
    /\ ~IsMain(j) /\ phase[j] = "ask" /\ CanTake(SeedOf(j))
    /\ SetPhase(j, "work") /\ TakeActivity(j)
    /\ UNCHANGED <<turns, completed, lines, cancelled>>

(* The task of the page ends, and its guard. *)
TaskEnds(j) ==
    LET s == SeedOf(j) IN
    /\ ~IsMain(j) /\ phase[j] \in {"work", "aborted"}
    /\ SetPhase(j, IF phase[j] = "work" THEN "out" ELSE "end")
    /\ guard' = guard \ {j}
    /\ lease' = IF j \in guard
                THEN LeaseFinished(lease, s, Active(s) \ {j}, Waiting(s), s \in completed)
                ELSE lease
    /\ UNCHANGED <<turns, slotq, asking, completed, lines, cancelled>>

(* absorb_hop_result: the page needs a turn ... *)
JoinToTurn(j) ==
    LET s == SeedOf(j) IN
    /\ ~IsMain(j) /\ phase[j] = "out" /\ phase[Main(s)] = "loop"
    /\ LoopFree(s) /\ TurnsLeft(j) /\ s \notin completed
    /\ SetPhase(j, "line") /\ Push(j)
    /\ lease' = LeaseParked(lease, s, Active(s))
    /\ UNCHANGED <<turns, guard, slotq, asking, completed, evidence, limiter, due, cancelled>>

(* ... or it is complete, and is folded in under an activity. *)
JoinToFold(j) ==
    LET s == SeedOf(j) IN
    /\ ~IsMain(j) /\ phase[j] = "out" /\ phase[Main(s)] = "loop"
    /\ LoopFree(s) /\ s \notin completed
    /\ SetPhase(j, "fold") /\ asking' = asking \cup {j}
    /\ UNCHANGED <<turns, guard, lease, slotq, completed, lines, cancelled>>

Fold(j) ==
    /\ ~IsMain(j) /\ phase[j] = "fold" /\ CanTake(SeedOf(j))
    /\ SetPhase(j, "end") /\ EndPoll(j) /\ asking' = asking \ {j}
    /\ UNCHANGED <<turns, lines, cancelled>>

(* run_crawl_loop returns: its pages are through, or it stops early and    *)
(* drops its lines and aborts its tasks.                                   *)
EndCrawl(s) ==
    LET P == PagesOf(s) IN
    /\ phase[Main(s)] = "loop" /\ (LoopFree(s) \/ cancelled)
    /\ phase' = [j \in Jobs |->
                   CASE j = Main(s) -> "over"
                     [] j \in P /\ phase[j] = "work" -> "aborted"
                     [] j \in P /\ phase[j] # "work" -> "end"
                     [] OTHER -> phase[j]]
    /\ DropTurns({s})
    /\ asking' = asking \ P
    /\ slotq' = IF Owned(s) \cap (asking \ P) = {} THEN Without(slotq, {s}) ELSE slotq
    /\ UNCHANGED <<turns, guard, lease, completed, cancelled>>

-----------------------------------------------------------------------------
Next ==
    \/ Cancel
    \/ \E h \in Hosts : Elapse(h)
    \/ \E s \in Seeds :
         \/ Reserve(s) \/ QueueStart(s) \/ RollBack(s) \/ Start(s)
         \/ Yield(s) \/ Resume(s) \/ EnterLoop(s) \/ Finish(s) \/ EndCrawl(s)
    \/ \E j \in Jobs :
         \/ AskTurn(j) \/ AdmitTurn(j) \/ DelayTurn(j) \/ RefuseTurn(j)
         \/ AskPrepare(j) \/ Prepare(j) \/ TaskEnds(j) \/ JoinToTurn(j) \/ JoinToFold(j) \/ Fold(j)

Spec == Init /\ [][Next]_vars

(* The runtime does not rest while a future can go on, a task can end      *)
(* (every request has a timeout) or a delay can pass.  Nobody has to drop  *)
(* the receiver or to stop a crawl early, and no limiter has to fail.      *)
Driven(s) ==
    \/ Reserve(s) \/ QueueStart(s) \/ RollBack(s) \/ Start(s)
    \/ Resume(s) \/ EnterLoop(s) \/ Finish(s)
    \/ EndCrawl(s) /\ (cancelled \/ \A j \in PagesOf(s) : phase[j] = "end")
Worked(j) ==
    \/ AskTurn(j) \/ AdmitTurn(j) \/ DelayTurn(j)
    \/ AskPrepare(j) \/ Prepare(j) \/ TaskEnds(j) \/ JoinToFold(j) \/ Fold(j)
Progress ==
    \/ \E h \in Hosts : Elapse(h)
    \/ \E s \in Seeds : Driven(s)
    \/ \E j \in Jobs : Worked(j)

FairSpec == Spec /\ WF_vars(Progress)

-----------------------------------------------------------------------------
(* Types, and that the jobs in line are the heads and those behind them:   *)
(* no list keeps a job whose continuation has gone elsewhere.              *)
TypeOK ==
    /\ phase \in [Jobs -> Phases] /\ turns \in [Jobs -> Nat]
    /\ guard \subseteq Jobs /\ lease \subseteq Seeds /\ asking \subseteq Jobs
    /\ Elements(slotq) \subseteq Seeds /\ completed \subseteq Seeds
    /\ waiter \subseteq Jobs /\ queue \in [Lines -> Seq(Jobs)]
    /\ InPhase({"line"}) = waiter \cup UNION {Elements(queue[l]) : l \in Lines}
    /\ evidence \in [Jobs -> {"none", "probe", "pending"}]
    /\ limiter \in [Hosts -> Seq(Jobs)] /\ due \subseteq Hosts /\ cancelled \in BOOLEAN

(* At most Slots seeds are at work, and each of them holds a slot: a job   *)
(* that parks or ends takes no slot from a sibling that goes on.           *)
WithinSlots == Cardinality(lease) <= Slots /\ \A j \in guard : SeedOf(j) \in lease

(* A slot is never held by a seed that only waits for hosts, or is over.   *)
NoIdleSlot == \A s \in lease : Active(s) = {} => Waiting(s) = {} /\ s \notin completed

(* A seed in the backlog holds no slot and no place in the slots' queue:   *)
(* a start that was taken back left nothing behind.                        *)
BacklogHoldsNothing == Backlog \cap (lease \cup Elements(slotq)) = {}

(* One acquire per line, and a job behind it is never left without one.    *)
LinesMove ==
    /\ \A j, k \in waiter : Line(j) = Line(k) => j = k
    /\ \A l \in Lines : queue[l] # <<>> => \E j \in waiter : Line(j) = l

(* Every seed of the batch gets its result, unless the receiver has gone.  *)
SeedsEnd == <>(\A s \in Seeds : phase[Main(s)] \in {"done", "dropped"})

(* When the receiver has gone, every slot comes back. *)
CancelReturnsSlots == cancelled ~> lease = {}
=============================================================================
