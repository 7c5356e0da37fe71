-------------------------- MODULE SeedSchedule_proofs --------------------------
(***************************************************************************)
(* For any batch, number of slots and routes: no more seeds hold a slot    *)
(* than there are, a seed at work has one, and a seed that only waits for  *)
(* hosts or is over has none.                                              *)
(***************************************************************************)
EXTENDS SeedSchedule, FiniteSetTheorems, SequenceTheorems, WellFoundedInduction, TLAPS

Types ==
    /\ phase \in [Jobs -> Phases] /\ guard \subseteq Jobs
    /\ lease \subseteq Seeds /\ completed \subseteq Seeds

Unstarted == {"no", "ask"}

(* What holds of one seed: with a guard it has a slot, without one it      *)
(* keeps no slot in vain, and nothing has begun before its start.          *)
SeedFine(s) ==
    /\ Active(s) # {} => s \in lease
    /\ s \in lease /\ Active(s) = {} => Waiting(s) = {} /\ s \notin completed
    /\ phase[Main(s)] \in Unstarted => Active(s) = {} /\ \A j \in PagesOf(s) : phase[j] = "no"

IInv == Types /\ Cardinality(lease) <= Slots /\ \A s \in Seeds : SeedFine(s)

USE SeedAssumption, SlotAssumption DEF Unstarted

(* The jobs of a seed. *)
LEMMA JobFacts ==
    /\ \A j \in Jobs : SeedOf(j) \in Seeds /\ j \in Owned(SeedOf(j))
    /\ \A j \in Jobs : IsMain(j) => j = Main(SeedOf(j))
    /\ \A s \in Seeds : Main(s) \in Jobs /\ IsMain(Main(s)) /\ SeedOf(Main(s)) = s
    /\ \A s \in Seeds : \A j \in Owned(s) : j \in Jobs /\ SeedOf(j) = s
<1>1. ASSUME NEW j \in Jobs PROVE SeedOf(j) \in Seeds /\ (IsMain(j) => j = Main(SeedOf(j)))
    <2>1. PICK s \in Seeds : j \in {s} \X (0 .. Pages[s])
        BY DEF Jobs
    <2>2. j = <<j[1], j[2]>> /\ j[1] = s
        BY <2>1
    <2> QED BY <2>2 DEF SeedOf, IsMain, Main
<1>2. ASSUME NEW s \in Seeds PROVE Main(s) \in Jobs /\ IsMain(Main(s)) /\ SeedOf(Main(s)) = s
    <2>1. <<s, 0>> \in {s} \X (0 .. Pages[s])
        OBVIOUS
    <2> QED BY <2>1 DEF Jobs, Main, IsMain, SeedOf
<1> QED BY <1>1, <1>2 DEF Owned

LEMMA LeaseFinite ==
    ASSUME NEW L \in SUBSET Seeds PROVE IsFiniteSet(L) /\ Cardinality(L) \in Nat
BY FS_Subset, FS_CardinalityType

(* A slot is only taken when there is one.                                 *)
LEMMA SlotTaken ==
    ASSUME IInv, NEW s \in Seeds, lease' \subseteq Seeds,
           lease' \subseteq lease \/ (CanTake(s) /\ lease' \subseteq lease \cup {s})
    PROVE  Cardinality(lease') <= Slots
<1> lease \subseteq Seeds /\ Cardinality(lease) <= Slots
    BY DEF IInv, Types
<1>1. CASE lease' \subseteq lease
    <2>1. IsFiniteSet(lease) /\ Cardinality(lease) \in Nat /\ Cardinality(lease') \in Nat
        BY LeaseFinite
    <2>2. Cardinality(lease') <= Cardinality(lease)
        BY <1>1, <2>1, FS_Subset
    <2> QED BY <2>1, <2>2
<1>2. CASE CanTake(s) /\ lease' \subseteq lease \cup {s} /\ s \notin lease
    <2>1. Cardinality(lease \cup {s}) = Cardinality(lease) + 1 /\ IsFiniteSet(lease \cup {s})
        BY <1>2, LeaseFinite, FS_AddElement
    <2>2. Cardinality(lease) < Slots
        BY <1>2 DEF CanTake, Granted
    <2>3. Cardinality(lease') <= Cardinality(lease \cup {s})
        BY <1>2, <2>1, FS_Subset
    <2> QED BY <2>1, <2>2, <2>3, LeaseFinite
<1> QED BY <1>1, <1>2

(* A step that concerns one seed.                                          *)
LEMMA ForOne ==
    ASSUME IInv, NEW s \in Seeds, Types',
           lease' \subseteq lease \/ (CanTake(s) /\ lease' \subseteq lease \cup {s}),
           lease \subseteq lease' \cup {s}, completed' \cup {s} = completed \cup {s},
           \A j \in Jobs : SeedOf(j) # s => phase'[j] = phase[j] /\ (j \in guard' <=> j \in guard),
           SeedFine(s)'
    PROVE  IInv'
<1>1. Cardinality(lease') <= Slots
    BY SlotTaken DEF Types
<1>2. ASSUME NEW t \in Seeds, t # s PROVE SeedFine(t)'
    <2>1. SeedFine(t) /\ (t \in lease' <=> t \in lease) /\ (t \in completed' <=> t \in completed)
        BY <1>2 DEF IInv
    <2>2. \A j \in Owned(t) : phase'[j] = phase[j] /\ (j \in guard' <=> j \in guard)
        BY <1>2, JobFacts
    <2>3. Active(t)' = Active(t)
        BY <2>2 DEF Active
    <2>4. Waiting(t)' = Waiting(t)
        BY <2>2 DEF Waiting, InPhase, Owned
    <2>5. phase'[Main(t)] = phase[Main(t)]
        BY <2>2, JobFacts
    <2> QED BY <2>1, <2>2, <2>3, <2>4, <2>5 DEF SeedFine, Active, PagesOf
<1> QED BY <1>1, <1>2 DEF IInv

LEMMA Untouched == ASSUME IInv, UNCHANGED <<phase, guard, lease, completed>> PROVE IInv'
<1>1. \A s \in Seeds : SeedFine(s)'
    BY DEF IInv, SeedFine, Active, Waiting, InPhase
<1> QED BY <1>1 DEF IInv, Types

-----------------------------------------------------------------------------
(* A step of one job *)

LEMMA JobSets ==
    ASSUME Types, NEW j \in Jobs, NEW p, SetPhase(j, p)
    PROVE  /\ \A k \in Jobs : phase'[k] = IF k = j THEN p ELSE phase[k]
           /\ p # "line" => Waiting(SeedOf(j))' = Waiting(SeedOf(j)) \ {j}
           /\ p = "line" => Waiting(SeedOf(j))' = Waiting(SeedOf(j)) \cup {j}
           /\ guard' = guard => Active(SeedOf(j))' = Active(SeedOf(j))
           /\ guard' = guard \cup {j} => Active(SeedOf(j))' = Active(SeedOf(j)) \cup {j}
           /\ guard' = guard \ {j} => Active(SeedOf(j))' = Active(SeedOf(j)) \ {j}
<1>1. phase' = [phase EXCEPT ![j] = p]
    BY DEF SetPhase
<1>2. \A k \in Jobs : phase'[k] = IF k = j THEN p ELSE phase[k]
    BY <1>1 DEF Types
<1>3. j \in Owned(SeedOf(j))
    BY JobFacts
<1>4. Waiting(SeedOf(j))' = {k \in Owned(SeedOf(j)) : phase'[k] = "line"}
      /\ Waiting(SeedOf(j)) = {k \in Owned(SeedOf(j)) : phase[k] = "line"}
    BY DEF Waiting, InPhase, Owned
<1>5. \A k \in Owned(SeedOf(j)) : k \in Jobs
    BY DEF Owned
<1>6. p # "line" => Waiting(SeedOf(j))' = Waiting(SeedOf(j)) \ {j}
    BY <1>2, <1>4, <1>5
<1>7. p = "line" => Waiting(SeedOf(j))' = Waiting(SeedOf(j)) \cup {j}
    BY <1>2, <1>3, <1>4, <1>5
<1> QED BY <1>2, <1>3, <1>6, <1>7 DEF Active

(* The job's seed stays fine if the slot goes by what is left of it.       *)
LEMMA OneJob ==
    ASSUME IInv, NEW j \in Jobs, NEW p \in Phases, SetPhase(j, p),
           guard' \in {guard, guard \cup {j}, guard \ {j}},
           lease' \subseteq lease \/ (CanTake(SeedOf(j)) /\ lease' \subseteq lease \cup {SeedOf(j)}),
           lease \subseteq lease' \cup {SeedOf(j)},
           completed' \in {completed, completed \cup {SeedOf(j)}},
           IsMain(j) /\ p \in Unstarted => phase[j] \in Unstarted /\ guard' = guard,
           ~IsMain(j) => phase[Main(SeedOf(j))] \notin Unstarted,
           Active(SeedOf(j))' # {} => SeedOf(j) \in lease',
           SeedOf(j) \in lease' /\ Active(SeedOf(j))' = {} =>
               Waiting(SeedOf(j))' = {} /\ SeedOf(j) \notin completed'
    PROVE  IInv'
<1> DEFINE s == SeedOf(j)
<1>1. s \in Seeds /\ (IsMain(j) => j = Main(s)) /\ Main(s) \in Jobs /\ IsMain(Main(s))
    BY JobFacts
<1>2. Types
    BY DEF IInv
<1>3. \A k \in Jobs : phase'[k] = IF k = j THEN p ELSE phase[k]
    BY <1>2, JobSets
<1>4. Types'
    <2>1. phase' \in [Jobs -> Phases]
        BY <1>2 DEF SetPhase, Types
    <2>2. guard' \subseteq Jobs
        BY <1>2 DEF Types
    <2>3. lease' \subseteq Seeds /\ completed' \subseteq Seeds
        BY <1>1, <1>2 DEF Types
    <2> QED BY <2>1, <2>2, <2>3 DEF Types
<1>5. SeedFine(s)
    BY <1>1 DEF IInv
<1>6. ASSUME phase'[Main(s)] \in Unstarted
      PROVE  Active(s)' = {} /\ \A k \in PagesOf(s) : phase'[k] = "no"
    <2>1. IsMain(j) /\ j = Main(s) /\ phase[Main(s)] \in Unstarted /\ guard' = guard
        BY <1>1, <1>3, <1>6
    <2>2. Active(s)' = Active(s)
        BY <2>1 DEF Active
    <2>3. \A k \in PagesOf(s) : k \in Jobs /\ k # j
        BY <2>1 DEF PagesOf, Owned
    <2> QED BY <1>3, <1>5, <2>1, <2>2, <2>3 DEF SeedFine
<1>8. SeedFine(s)'
    BY <1>6 DEF SeedFine, PagesOf, Owned
<1>9. \A k \in Jobs : SeedOf(k) # s => phase'[k] = phase[k] /\ (k \in guard' <=> k \in guard)
    BY <1>3
<1> QED BY <1>1, <1>4, <1>8, <1>9, ForOne

(* Who gets an activity is at work under a guard, and its seed has a slot. *)
LEMMA ToWork ==
    ASSUME IInv, NEW j \in Jobs, SetPhase(j, "work"), TakeActivity(j), CanTake(SeedOf(j)),
           UNCHANGED completed, ~IsMain(j) => phase[Main(SeedOf(j))] \notin Unstarted
    PROVE  IInv'
<1>1. guard' = guard \cup {j} /\ lease' = lease \cup {SeedOf(j)}
    BY DEF TakeActivity
<1>2. Active(SeedOf(j))' = Active(SeedOf(j)) \cup {j}
    BY <1>1, JobSets DEF IInv
<1>3. "work" \in Phases
    BY DEF Phases
<1> QED BY <1>1, <1>2, <1>3, OneJob

(* From one place to another, but not into a line.                         *)
LEMMA Aside ==
    ASSUME IInv, NEW j \in Jobs, NEW p \in Phases, SetPhase(j, p), p # "line",
           UNCHANGED <<guard, lease, completed>>,
           IsMain(j) /\ p \in Unstarted => phase[j] \in Unstarted,
           ~IsMain(j) => phase[Main(SeedOf(j))] \notin Unstarted
    PROVE  IInv'
<1>1. Types /\ SeedFine(SeedOf(j))
    BY JobFacts DEF IInv
<1>2. Active(SeedOf(j))' = Active(SeedOf(j)) /\ Waiting(SeedOf(j))' \subseteq Waiting(SeedOf(j))
    BY <1>1, JobSets
<1> QED BY <1>1, <1>2, OneJob DEF SeedFine

(* A page that is somewhere has a seed that was started.                   *)
LEMMA PagesLater ==
    ASSUME IInv, NEW j \in Jobs, ~IsMain(j), phase[j] # "no"
    PROVE  phase[Main(SeedOf(j))] \notin Unstarted
<1>1. SeedFine(SeedOf(j)) /\ j \in PagesOf(SeedOf(j))
    BY JobFacts DEF IInv, PagesOf
<1> QED BY <1>1 DEF SeedFine

(* A guard of a poll that ends with the poll.                              *)
LEMMA Polls ==
    ASSUME IInv, NEW j \in Jobs, CanTake(SeedOf(j)), EndPoll(j)
    PROVE  /\ lease' \subseteq lease \cup {SeedOf(j)} /\ lease \subseteq lease' \cup {SeedOf(j)}
           /\ UNCHANGED <<guard, completed>> /\ SeedOf(j) \notin completed
           /\ Active(SeedOf(j)) # {} => SeedOf(j) \in lease'
           /\ SeedOf(j) \in lease' /\ Active(SeedOf(j)) = {} => Waiting(SeedOf(j)) = {}
BY DEF EndPoll, LeaseFinished, CanTake

-----------------------------------------------------------------------------
(* The steps *)

(* A turn that is let through, put off or refused.                         *)
LEMMA TurnStep ==
    ASSUME IInv, NEW j \in Jobs, AskTurn(j) \/ AdmitTurn(j) \/ DelayTurn(j) \/ RefuseTurn(j)
    PROVE  IInv'
<1>1. Types /\ SeedOf(j) \in Seeds
    BY JobFacts DEF IInv
<1>2. ~IsMain(j) /\ Polled(j) => phase[Main(SeedOf(j))] \notin Unstarted
    BY DEF Polled
<1>3. CASE AskTurn(j)
    BY <1>3, Untouched DEF AskTurn
<1>4. CASE AdmitTurn(j)
    BY <1>2, <1>4, ToWork DEF AdmitTurn
<1>5. CASE DelayTurn(j)
    <2>1. UNCHANGED <<phase, guard, completed>> /\ CanTake(SeedOf(j)) /\ EndPoll(j)
        BY <1>5 DEF DelayTurn, EndPoll
    <2>2. Active(SeedOf(j))' = Active(SeedOf(j)) /\ Waiting(SeedOf(j))' = Waiting(SeedOf(j))
        BY <2>1 DEF Active, Waiting, InPhase
    <2>3. SeedFine(SeedOf(j))'
        BY <1>1, <2>1, <2>2, Polls DEF IInv, SeedFine, PagesOf
    <2>4. Types'
        BY <1>1, <2>1, Polls DEF Types
    <2> QED BY <1>1, <2>1, <2>3, <2>4, Polls, ForOne
<1>6. CASE RefuseTurn(j)
    <2>1. PICK p \in {"refused", "out"} : SetPhase(j, p)
        BY <1>6 DEF RefuseTurn
    <2>2. CanTake(SeedOf(j)) /\ EndPoll(j) /\ Polled(j)
        BY <1>6 DEF RefuseTurn
    <2>3. guard' = guard /\ p \in Phases /\ p # "line"
        BY <2>1, <2>2, Polls DEF Phases
    <2>4. Active(SeedOf(j))' = Active(SeedOf(j)) /\ Waiting(SeedOf(j))' \subseteq Waiting(SeedOf(j))
        BY <1>1, <2>1, <2>3, JobSets
    <2> QED BY <1>2, <2>1, <2>2, <2>3, <2>4, Polls, OneJob
<1> QED BY <1>3, <1>4, <1>5, <1>6

(* The start of a seed, taken or taken back.                               *)
LEMMA StartStep ==
    ASSUME IInv, NEW s \in Seeds, QueueStart(s) \/ RollBack(s) \/ Start(s) \/ Resume(s)
    PROVE  IInv'
<1>1. Main(s) \in Jobs /\ IsMain(Main(s)) /\ SeedOf(Main(s)) = s
    BY JobFacts
<1>2. Types /\ SeedFine(s) /\ {"no", "ask"} \subseteq Phases
    BY DEF IInv, Phases
<1>3. CASE QueueStart(s)
    BY <1>1, <1>2, <1>3, Aside DEF QueueStart, Backlog
<1>4. CASE RollBack(s)
    <2>1. phase[Main(s)] = "ask" /\ SetPhase(Main(s), "no") /\ UNCHANGED <<guard, completed>>
          /\ lease' = lease \ {s}
        BY <1>4 DEF RollBack, Starts, LeaseRolledBack
    <2>2. Active(s)' = {}
        BY <1>2, <2>1 DEF SeedFine, Active
    <2> QED BY <1>1, <1>2, <2>1, <2>2, OneJob
<1>5. CASE Start(s) \/ Resume(s)
    BY <1>1, <1>5, ToWork DEF Start, Resume
<1> QED BY <1>3, <1>4, <1>5

(* A seed's continuation parks, goes on to its crawl or ends.              *)
LEMMA SeedStep ==
    ASSUME IInv, NEW s \in Seeds, Yield(s) \/ EnterLoop(s) \/ Finish(s)
    PROVE  IInv'
<1>1. Main(s) \in Jobs /\ IsMain(Main(s)) /\ SeedOf(Main(s)) = s
    BY JobFacts
<1>2. Types /\ SeedFine(s) /\ {"line", "loop", "done"} \subseteq Phases
    BY DEF IInv, Phases
<1>3. guard' = guard \ {Main(s)}
    BY DEF Yield, EnterLoop, Finish
<1>4. ASSUME NEW p, SetPhase(Main(s), p) PROVE Active(s)' = Active(s) \ {Main(s)}
    BY <1>1, <1>2, <1>3, <1>4, JobSets
<1>5. CASE Yield(s)
    <2>1. SetPhase(Main(s), "line") /\ UNCHANGED completed
          /\ lease' = LeaseFinished(LeaseParked(lease, s, Active(s)), s, Active(s) \ {Main(s)},
                                     {Main(s)}, FALSE)
        BY <1>5 DEF Yield
    <2>2. lease' = IF Active(s) \ {Main(s)} = {} THEN lease \ {s} ELSE lease
        BY <2>1 DEF LeaseFinished, LeaseParked
    <2> QED BY <1>1, <1>2, <1>3, <1>4, <2>1, <2>2, OneJob DEF SeedFine
<1>6. CASE EnterLoop(s)
    <2>1. SetPhase(Main(s), "loop") /\ UNCHANGED completed
          /\ lease' = LeaseFinished(lease, s, Active(s) \ {Main(s)}, Waiting(s), s \in completed)
        BY <1>6 DEF EnterLoop
    <2>2. Waiting(s)' \subseteq Waiting(s)
        BY <1>1, <1>2, <2>1, JobSets
    <2> QED BY <1>1, <1>2, <1>3, <1>4, <2>1, <2>2, OneJob DEF SeedFine, LeaseFinished
<1>7. CASE Finish(s)
    <2>1. SetPhase(Main(s), "done") /\ completed' = completed \cup {s}
        BY <1>7 DEF Finish
    <2>2. /\ lease' \subseteq lease /\ lease \subseteq lease' \cup {s}
          /\ Active(s) \ {Main(s)} = {} => s \notin lease'
          /\ Active(s) \ {Main(s)} # {} => lease' = lease
        <3>1. Active(s) \ {Main(s)} = {} => Main(s) \in guard \/ Active(s) = {}
            BY DEF Active
        <3> QED BY <1>7, <3>1 DEF Finish, LeaseCompleted, LeaseFinished
    <2> QED BY <1>1, <1>2, <1>3, <1>4, <2>1, <2>2, OneJob DEF SeedFine
<1> QED BY <1>5, <1>6, <1>7

(* A page is prepared, worked at, parked or folded in.                     *)
LEMMA PageStep ==
    ASSUME IInv, NEW j \in Jobs,
           AskPrepare(j) \/ Prepare(j) \/ TaskEnds(j) \/ JoinToTurn(j) \/ JoinToFold(j) \/ Fold(j)
    PROVE  IInv'
<1> DEFINE s == SeedOf(j)
<1>1. Types /\ s \in Seeds /\ SeedFine(s)
      /\ {"ask", "work", "out", "end", "line", "fold"} \subseteq Phases
    BY JobFacts DEF IInv, Phases
<1>2. ~IsMain(j) /\ phase[Main(s)] \notin Unstarted
    <2>1. ~IsMain(j)
        BY DEF AskPrepare, Prepare, TaskEnds, JoinToTurn, JoinToFold, Fold
    <2>2. phase[j] # "no" \/ phase[Main(s)] = "loop"
        BY DEF AskPrepare, Prepare, TaskEnds, JoinToTurn, JoinToFold, Fold
    <2> QED BY <2>1, <2>2, PagesLater
<1>3. CASE AskPrepare(j) \/ JoinToFold(j)
    BY <1>1, <1>2, <1>3, Aside DEF AskPrepare, JoinToFold
<1>4. CASE Prepare(j)
    BY <1>2, <1>4, ToWork DEF Prepare
<1>5. CASE TaskEnds(j)
    <2>1. PICK p \in {"out", "end"} : SetPhase(j, p)
        BY <1>5 DEF TaskEnds
    <2>2. guard' = guard \ {j} /\ UNCHANGED completed
          /\ lease' = IF j \in guard
                      THEN LeaseFinished(lease, s, Active(s) \ {j}, Waiting(s), s \in completed)
                      ELSE lease
        BY <1>5 DEF TaskEnds
    <2>3. Active(s)' = Active(s) \ {j} /\ Waiting(s)' \subseteq Waiting(s)
        BY <1>1, <2>1, <2>2, JobSets
    <2>4. j \notin guard => Active(s) \ {j} = Active(s)
        BY DEF Active
    <2> QED BY <1>1, <1>2, <2>1, <2>2, <2>3, <2>4, OneJob DEF SeedFine, LeaseFinished
<1>6. CASE JoinToTurn(j)
    <2>1. SetPhase(j, "line") /\ UNCHANGED <<guard, completed>> /\ lease' = LeaseParked(lease, s, Active(s))
        BY <1>6 DEF JoinToTurn
    <2>2. Active(s)' = Active(s)
        BY <1>1, <2>1, JobSets
    <2> QED BY <1>1, <1>2, <2>1, <2>2, OneJob DEF SeedFine, LeaseParked
<1>7. CASE Fold(j)
    <2>1. SetPhase(j, "end") /\ CanTake(s) /\ EndPoll(j)
        BY <1>7 DEF Fold
    <2>2. guard' = guard /\ UNCHANGED completed
        BY <2>1, Polls
    <2>3. Active(s)' = Active(s) /\ Waiting(s)' \subseteq Waiting(s)
        BY <1>1, <2>1, <2>2, JobSets
    <2> QED BY <1>1, <1>2, <2>1, <2>2, <2>3, Polls, OneJob
<1> QED BY <1>3, <1>4, <1>5, <1>6, <1>7

LEMMA EndCrawlStep == ASSUME IInv, NEW s \in Seeds, EndCrawl(s) PROVE IInv'
<1>1. /\ phase[Main(s)] = "loop" /\ UNCHANGED <<guard, lease, completed>>
      /\ phase' = [j \in Jobs |->
                     CASE j = Main(s) -> "over"
                       [] j \in PagesOf(s) /\ phase[j] = "work" -> "aborted"
                       [] j \in PagesOf(s) /\ phase[j] # "work" -> "end"
                       [] OTHER -> phase[j]]
    BY DEF EndCrawl
<1>2. Main(s) \in Jobs /\ Main(s) \notin PagesOf(s) /\ SeedOf(Main(s)) = s /\ SeedFine(s) /\ Types
    BY JobFacts DEF PagesOf, IInv
<1>3. \A j \in Jobs : SeedOf(j) # s => phase'[j] = phase[j]
    BY <1>1, <1>2 DEF PagesOf, Owned
<1>4. phase' \in [Jobs -> Phases]
    BY <1>1, <1>2 DEF Types, Phases
<1>5. \A j \in Owned(s) : phase'[j] \in {"over", "aborted", "end"}
    BY <1>1, JobFacts DEF PagesOf, Owned
<1>6. Active(s)' = Active(s) /\ Waiting(s)' = {} /\ phase'[Main(s)] = "over"
    BY <1>1, <1>2, <1>5 DEF Active, Waiting, InPhase, Owned
<1>7. SeedFine(s)'
    BY <1>1, <1>2, <1>6 DEF SeedFine
<1>8. Types'
    BY <1>1, <1>2, <1>4 DEF Types
<1> QED BY <1>1, <1>3, <1>7, <1>8, ForOne

(* The slots without a guard come back at once, the others with the guard. *)
LEMMA CancelStep == ASSUME IInv, Cancel PROVE IInv'
<1>1. /\ guard' = guard /\ completed' = Seeds
      /\ lease' = {s \in lease : s \in LeaseCompleted(lease, s, Active(s))}
      /\ phase' = [j \in Jobs |->
                     CASE IsMain(j) /\ phase[j] \in {"no", "ask"} -> "dropped"
                       [] IsMain(j) /\ phase[j] \in {"line", "refused"} -> "over"
                       [] OTHER -> phase[j]]
    BY DEF Cancel
<1>2. \A s \in lease : s \in lease' <=> Active(s) # {}
    BY <1>1 DEF LeaseCompleted
<1>3. Types /\ lease' \subseteq lease
    BY <1>1 DEF IInv
<1>4. phase' \in [Jobs -> Phases]
    BY <1>1, <1>3 DEF Types, Phases
<1>5. Types'
    BY <1>1, <1>3, <1>4 DEF Types
<1>6. Cardinality(lease') <= Slots
    <2>1. Cardinality(lease) \in Nat /\ Cardinality(lease') \in Nat /\ IsFiniteSet(lease)
        BY <1>3, <1>5, LeaseFinite DEF Types
    <2>2. Cardinality(lease') <= Cardinality(lease)
        BY <1>3, <2>1, FS_Subset
    <2> QED BY <2>1, <2>2 DEF IInv
<1>7. ASSUME NEW s \in Seeds PROVE SeedFine(s)'
    <2>1. Active(s)' = Active(s) /\ SeedFine(s)
        BY <1>1 DEF Active, IInv
    <2>2. phase'[Main(s)] \notin Unstarted
        <3>1. phase'[Main(s)] = CASE phase[Main(s)] \in {"no", "ask"} -> "dropped"
                                  [] phase[Main(s)] \in {"line", "refused"} -> "over"
                                  [] OTHER -> phase[Main(s)]
            BY <1>1, JobFacts
        <3> QED BY <3>1
    <2> QED BY <1>2, <1>3, <2>1, <2>2 DEF SeedFine
<1> QED BY <1>5, <1>6, <1>7 DEF IInv

LEMMA Initially == Init => IInv
<1> SUFFICES ASSUME Init PROVE IInv
    OBVIOUS
<1> USE DEF Init
<1>1. Types
    BY DEF Types, Phases
<1>2. Cardinality(lease) <= Slots
    BY FS_EmptySet
<1>3. \A s \in Seeds : SeedFine(s)
    BY DEF SeedFine, Active, PagesOf, Owned
<1> QED BY <1>1, <1>2, <1>3 DEF IInv

LEMMA Preserved == IInv /\ [Next]_vars => IInv'
<1> SUFFICES ASSUME IInv, [Next]_vars PROVE IInv'
    OBVIOUS
<1>1. CASE Cancel
    BY <1>1, CancelStep
<1>2. ASSUME NEW h \in Hosts, Elapse(h) PROVE IInv'
    BY <1>2, Untouched DEF Elapse, slots
<1>3. ASSUME NEW s \in Seeds,
             \/ Reserve(s) \/ QueueStart(s) \/ RollBack(s) \/ Start(s)
             \/ Yield(s) \/ Resume(s) \/ EnterLoop(s) \/ Finish(s) \/ EndCrawl(s)
      PROVE  IInv'
    <2>1. CASE Reserve(s)
        BY <2>1, Untouched DEF Reserve
    <2> QED BY <1>3, <2>1, StartStep, SeedStep, EndCrawlStep
<1>4. ASSUME NEW j \in Jobs,
             \/ AskTurn(j) \/ AdmitTurn(j) \/ DelayTurn(j) \/ RefuseTurn(j)
             \/ AskPrepare(j) \/ Prepare(j) \/ TaskEnds(j) \/ JoinToTurn(j) \/ JoinToFold(j) \/ Fold(j)
      PROVE  IInv'
    BY <1>4, TurnStep, PageStep
<1>5. CASE UNCHANGED vars
    BY <1>5, Untouched DEF vars, slots
<1> QED BY <1>1, <1>2, <1>3, <1>4, <1>5 DEF Next

-----------------------------------------------------------------------------
(* The conjunction is inductive.                                           *)
THEOREM Invariance == Spec => []IInv
BY Initially, Preserved, PTL DEF Spec

(* No more seeds hold a slot than the batch has, and a job that works does *)
(* so on its seed's slot (cooperative.rs, activity and waiting).           *)
THEOREM SlotsBound == Spec => []WithinSlots
<1>1. IInv => WithinSlots
    BY JobFacts DEF IInv, Types, SeedFine, Active, WithinSlots
<1> QED BY <1>1, Invariance, PTL

(* A seed whose jobs all wait for hosts, or that is over, has given its    *)
(* slot back (waiting, ActivityGuard::finish, complete).                   *)
THEOREM NoSlotIdle == Spec => []NoIdleSlot
<1>1. IInv => NoIdleSlot
    BY DEF IInv, Types, SeedFine, NoIdleSlot
<1> QED BY <1>1, Invariance, PTL
-----------------------------------------------------------------------------
(* The lines and the backlog.  What follows is proved on top of IInv.      *)

RestTypes ==
    /\ turns \in [Jobs -> Nat] /\ asking \subseteq Jobs /\ slotq \in Seq(Seeds)
    /\ evidence \in [Jobs -> {"none", "probe", "pending"}]
    /\ limiter \in [Hosts -> Seq(Jobs)] /\ due \subseteq Hosts /\ cancelled \in BOOLEAN

(* Whoever is behind the head of a line waits for that line, once.         *)
Behind(l) ==
    /\ \A j \in Elements(queue[l]) : phase[j] = "line" /\ j \notin waiter /\ Line(j) = l
    /\ \A i, k \in 1 .. Len(queue[l]) : queue[l][i] = queue[l][k] => i = k

(* A job in line has a turn to come, and is the head or behind it.         *)
InLine(j) == TurnsLeft(j) /\ (j \in waiter \/ j \in Elements(queue[Line(j)]))

LinesFine ==
    /\ waiter \subseteq InPhase({"line"}) /\ queue \in [Lines -> Seq(Jobs)]
    /\ \A l \in Lines : Behind(l)
    /\ \A j \in InPhase({"line"}) : InLine(j)
    /\ LinesMove

Asked == \A j \in asking : phase[j] # "no"

DInv == RestTypes /\ LinesFine /\ BacklogHoldsNothing /\ Asked

-----------------------------------------------------------------------------
(* Sequences *)

(* A set of numbers that has the next one of each of its numbers up to n.  *)
LEMMA Counted ==
    ASSUME NEW n \in Nat, NEW T, 0 \in T,
           \A i \in 0 .. n : i # n /\ i \in T => i + 1 \in T
    PROVE  0 .. n \subseteq T
<1> DEFINE Less == OpToRel(<, Nat)
           Missed == (0 .. n) \ T
<1> SUFFICES ASSUME Missed # {} PROVE FALSE
    OBVIOUS
<1>1. IsWellFoundedOn(Less, Nat)
    BY NatLessThanWellFounded
<1>2. \A x, y \in Nat : x < y => <<x, y>> \in Less
    BY DEF OpToRel
<1>3. Missed \subseteq Nat
    OBVIOUS
<1> HIDE DEF Less, Missed
<1>4. PICK i \in Missed : \A k \in Missed : ~ (<<k, i>> \in Less)
    BY <1>1, <1>3, WFMin
<1>5. i \in 0 .. n /\ i \notin T /\ i # 0
    BY <1>4 DEF Missed
<1>6. i - 1 \in 0 .. n /\ i - 1 \in Nat /\ i \in Nat /\ i - 1 < i /\ i - 1 # n /\ (i - 1) + 1 = i
    BY <1>5
<1>7. i - 1 \notin Missed
    BY <1>2, <1>4, <1>6
<1> QED BY <1>5, <1>6, <1>7 DEF Missed

(* One element of a sequence more, kept or not, and the function of all.   *)
KeepOne(q, S, g, i) ==
    IF i = 0 THEN <<>> ELSE IF q[i] \in S THEN g[i - 1] ELSE Append(g[i - 1], q[i])
Keeps(q, S, g, n) == g = [i \in 0 .. n |-> KeepOne(q, S, g, i)]

LEMMA KeepsMore ==
    ASSUME NEW q, NEW S, NEW m \in Nat, NEW g, Keeps(q, S, g, m)
    PROVE  \E f : Keeps(q, S, f, m + 1)
<1> DEFINE f == [i \in 0 .. m + 1 |-> IF i = m + 1 THEN KeepOne(q, S, g, m + 1) ELSE g[i]]
<1>1. \A i \in 0 .. m : g[i] = KeepOne(q, S, g, i)
    BY DEF Keeps
<1>2. DOMAIN f = 0 .. m + 1 /\ \A i \in 0 .. m : f[i] = g[i]
    OBVIOUS
<1>3. f[m + 1] = KeepOne(q, S, g, m + 1)
    OBVIOUS
<1>4. f = [i \in 0 .. m + 1 |-> f[i]]
    OBVIOUS
<1> HIDE DEF f
<1>5. ASSUME NEW i \in 0 .. m + 1 PROVE f[i] = KeepOne(q, S, f, i)
    <2>1. i = 0 \/ i - 1 \in 0 .. m
        OBVIOUS
    <2>2. KeepOne(q, S, f, i) = KeepOne(q, S, g, i)
        BY <1>2, <2>1 DEF KeepOne
    <2>3. i = m + 1 \/ i \in 0 .. m
        OBVIOUS
    <2> QED BY <1>1, <1>2, <1>3, <2>2, <2>3
<1>6. f = [i \in 0 .. m + 1 |-> KeepOne(q, S, f, i)]
    BY <1>4, <1>5
<1> QED BY <1>6 DEF Keeps

LEMMA KeepsAll == ASSUME NEW q, NEW S, NEW n \in Nat PROVE \E g : Keeps(q, S, g, n)
<1> DEFINE Good == {m \in 0 .. n : \E g : Keeps(q, S, g, m)}
<1>1. 0 \in Good
    <2> DEFINE g == [i \in 0 .. 0 |-> <<>>]
    <2>1. \A i \in 0 .. 0 : KeepOne(q, S, g, i) = <<>>
        BY DEF KeepOne
    <2>2. Keeps(q, S, g, 0)
        BY <2>1 DEF Keeps
    <2> HIDE DEF g
    <2> QED BY <2>2
<1>2. ASSUME NEW m \in 0 .. n, m # n, m \in Good PROVE m + 1 \in Good
    <2>1. PICK g : Keeps(q, S, g, m)
        BY <1>2
    <2>2. m \in Nat /\ m + 1 \in 0 .. n
        BY <1>2
    <2> QED BY <2>1, <2>2, KeepsMore
<1> HIDE DEF Good
<1>3. 0 .. n \subseteq Good
    BY <1>1, <1>2, Counted
<1> QED BY <1>3 DEF Good

LEMMA ElementsAre ==
    ASSUME NEW T, NEW q \in Seq(T)
    PROVE  /\ Len(q) \in Nat /\ DOMAIN q = 1 .. Len(q)
           /\ \A i \in 1 .. Len(q) : q[i] \in T
           /\ Elements(q) = {q[i] : i \in 1 .. Len(q)} /\ Elements(q) \subseteq T
           /\ (q = <<>> <=> Len(q) = 0)
<1>1. Len(q) \in Nat /\ DOMAIN q = 1 .. Len(q) /\ q \in [1 .. Len(q) -> T]
    BY LenProperties
<1>2. q = <<>> <=> Len(q) = 0
    BY EmptySeq
<1> QED BY <1>1, <1>2 DEF Elements

LEMMA Appended ==
    ASSUME NEW T, NEW q \in Seq(T), NEW e \in T
    PROVE  /\ Append(q, e) \in Seq(T) /\ Len(Append(q, e)) = Len(q) + 1
           /\ \A i \in 1 .. Len(q) : Append(q, e)[i] = q[i]
           /\ Append(q, e)[Len(q) + 1] = e
           /\ Elements(Append(q, e)) = Elements(q) \cup {e}
<1> DEFINE r == Append(q, e)
<1>1. /\ r \in Seq(T) /\ Len(r) = Len(q) + 1
      /\ \A i \in 1 .. Len(q) : r[i] = q[i]
      /\ r[Len(q) + 1] = e
    BY AppendProperties
<1> HIDE DEF r
<1>2. /\ Len(q) \in Nat /\ Elements(q) = {q[i] : i \in 1 .. Len(q)}
      /\ Elements(r) = {r[i] : i \in 1 .. Len(q) + 1}
    BY <1>1, ElementsAre
<1>3. Elements(r) = Elements(q) \cup {e}
    BY <1>1, <1>2
<1> QED BY <1>1, <1>3 DEF r

(* What is kept is what is not in S.                                       *)
LEMMA WithoutIs ==
    ASSUME NEW T, NEW q \in Seq(T), NEW S
    PROVE  Without(q, S) \in Seq(T) /\ Elements(Without(q, S)) = Elements(q) \ S
<1> DEFINE n == Len(q)
           Of(i) == {q[k] : k \in 1 .. i} \ S
<1>1. n \in Nat /\ (\A i \in 1 .. n : q[i] \in T) /\ Elements(q) = {q[k] : k \in 1 .. n}
    BY ElementsAre
<1> DEFINE kept == CHOOSE g : Keeps(q, S, g, n)
<1>2. Keeps(q, S, kept, n)
    BY <1>1, KeepsAll
<1>3. Without(q, S) = kept[n]
    BY DEF Without, Keeps, KeepOne
<1> HIDE DEF kept
<1>4. \A i \in 0 .. n : kept[i] = KeepOne(q, S, kept, i)
    BY <1>2 DEF Keeps
<1> DEFINE Right == {m \in 0 .. n : kept[m] \in Seq(T) /\ Elements(kept[m]) = Of(m)}
<1>5. 0 \in Right
    <2>1. kept[0] = <<>> /\ 0 \in 0 .. n
        BY <1>1, <1>4 DEF KeepOne
    <2>2. <<>> \in Seq(T) /\ Elements(<<>>) = {}
        BY DEF Elements
    <2>3. Of(0) = {}
        OBVIOUS
    <2> QED BY <2>1, <2>2, <2>3
<1>6. ASSUME NEW m \in 0 .. n, m # n, m \in Right PROVE m + 1 \in Right
    <2> DEFINE r == kept[m]
               e == q[m + 1]
    <2>0. m + 1 \in 0 .. n /\ m + 1 # 0 /\ (m + 1) - 1 = m /\ m + 1 \in 1 .. n
        BY <1>1, <1>6
    <2>1. kept[m + 1] = IF e \in S THEN r ELSE Append(r, e)
        BY <1>4, <2>0 DEF KeepOne
    <2>2. r \in Seq(T) /\ Elements(r) = Of(m)
        BY <1>6
    <2>3. e \in T
        BY <1>1, <2>0
    <2>4. Append(r, e) \in Seq(T) /\ Elements(Append(r, e)) = Elements(r) \cup {e}
        BY <2>2, <2>3, Appended
    <2>5. {q[k] : k \in 1 .. m + 1} = {q[k] : k \in 1 .. m} \cup {e}
        BY <1>1
    <2>6. Of(m + 1) = IF e \in S THEN Of(m) ELSE Of(m) \cup {e}
        BY <2>5
    <2>7. kept[m + 1] \in Seq(T)
        BY <2>1, <2>2, <2>4
    <2> HIDE DEF Of, r, e
    <2>8. Elements(kept[m + 1]) = Of(m + 1)
        BY <2>1, <2>2, <2>4, <2>6
    <2> QED BY <2>0, <2>7, <2>8
<1> HIDE DEF Right
<1>7. n \in Right
    <2>1. 0 .. n \subseteq Right
        BY <1>1, <1>5, <1>6, Counted
    <2> QED BY <1>1, <2>1
<1> QED BY <1>1, <1>3, <1>7 DEF Right


-----------------------------------------------------------------------------
(* What a step does to the lines *)

LEMMA OwnerFacts ==
    ASSUME NEW j \in Jobs
    PROVE  /\ Owner(j) = (IF IsMain(j) THEN {} ELSE {SeedOf(j)})
           /\ turns \in [Jobs -> Nat] /\ TurnsLeft(j) => HostAt(j) \in Hosts /\ Line(j) \in Lines
<1>1. ASSUME turns \in [Jobs -> Nat], TurnsLeft(j) PROVE HostAt(j) \in Hosts
    <2>1. Route[j] \in Seq(Hosts) /\ turns[j] \in Nat
        BY <1>1, RouteAssumption
    <2>2. Len(Route[j]) \in Nat /\ \A i \in 1 .. Len(Route[j]) : Route[j][i] \in Hosts
        BY <2>1, ElementsAre
    <2>3. turns[j] + 1 \in 1 .. Len(Route[j])
        BY <1>1, <2>1, <2>2 DEF TurnsLeft
    <2> QED BY <2>2, <2>3 DEF HostAt
<1>2. Owner(j) \in {{}} \cup {{s} : s \in Seeds}
    BY JobFacts DEF Owner
<1> QED BY <1>1, <1>2 DEF Owner, Line, Lines

(* Who is in line, by its phase.                                           *)
LEMMA InLineIs ==
    /\ InPhase({"line"}) = {j \in Jobs : phase[j] = "line"}
    /\ InPhase({"line"})' = {j \in Jobs : phase'[j] = "line"}
BY DEF InPhase

LEMMA QueueFacts ==
    ASSUME LinesFine, RestTypes
    PROVE  /\ waiter \subseteq Jobs /\ \A j \in waiter : phase[j] = "line"
           /\ \A l \in Lines : queue[l] \in Seq(Jobs) /\ Elements(queue[l]) \subseteq Jobs
           /\ \A j \in Jobs : phase[j] = "line" =>
                 InLine(j) /\ TurnsLeft(j) /\ HostAt(j) \in Hosts /\ Line(j) \in Lines
<1>1. \A l \in Lines : queue[l] \in Seq(Jobs) /\ Elements(queue[l]) \subseteq Jobs
    BY ElementsAre DEF LinesFine
<1>2. \A j \in Jobs : phase[j] = "line" => InLine(j) /\ TurnsLeft(j)
    BY InLineIs DEF LinesFine, InLine
<1> QED BY <1>1, <1>2, InLineIs, OwnerFacts DEF LinesFine, RestTypes

(* The turns of the jobs in line stay as they are.                         *)
LEMMA SameTurn ==
    ASSUME NEW j, turns'[j] = turns[j]
    PROVE  Line(j)' = Line(j) /\ (TurnsLeft(j)' <=> TurnsLeft(j)) /\ HostAt(j)' = HostAt(j)
BY DEF Line, HostAt, TurnsLeft, Owner, IsMain, SeedOf

LEMMA LinesStay ==
    ASSUME LinesFine, UNCHANGED <<waiter, queue>>,
           \A j \in Jobs : (phase'[j] = "line" <=> phase[j] = "line")
                           /\ (phase[j] = "line" => turns'[j] = turns[j])
    PROVE  LinesFine'
<1>1. InPhase({"line"})' = InPhase({"line"})
    BY InLineIs
<1>2. \A j \in InPhase({"line"}) : Line(j)' = Line(j) /\ (TurnsLeft(j)' <=> TurnsLeft(j)) /\ j \in Jobs
    BY SameTurn, InLineIs
<1>3. waiter \subseteq InPhase({"line"})
    BY DEF LinesFine
<1>4. ASSUME NEW l \in Lines PROVE Behind(l)'
    <2>1. Behind(l) /\ Elements(queue[l])' = Elements(queue[l]) /\ Elements(queue[l]) \subseteq Jobs
        BY ElementsAre DEF LinesFine, Elements
    <2>2. \A j \in Elements(queue[l]) : j \in InPhase({"line"}) /\ phase'[j] = "line"
        BY <2>1, InLineIs DEF Behind
    <2> QED BY <1>2, <2>1, <2>2 DEF Behind
<1>5. ASSUME NEW j \in InPhase({"line"}) PROVE InLine(j)'
    BY <1>2 DEF LinesFine, InLine, Elements
<1>6. LinesMove'
    BY <1>2, <1>3 DEF LinesFine, LinesMove
<1> QED BY <1>1, <1>3, <1>4, <1>5, <1>6 DEF LinesFine

(* A job is put in the line of its host.                                   *)
LEMMA Pushed ==
    ASSUME IInv, LinesFine, RestTypes, NEW j \in Jobs, phase[j] # "line", TurnsLeft(j),
           SetPhase(j, "line"), Push(j), UNCHANGED turns
    PROVE  LinesFine'
<1>0. PICK l \in Lines : l = Line(j)
    BY OwnerFacts DEF RestTypes
<1>1. \A k \in Jobs : phase'[k] = IF k = j THEN "line" ELSE phase[k]
    BY JobSets DEF IInv
<1>2. j \notin waiter /\ \A m \in Lines : j \notin Elements(queue[m])
    BY QueueFacts DEF LinesFine, Behind
<1>3. \A k : Line(k)' = Line(k) /\ (TurnsLeft(k)' <=> TurnsLeft(k))
    BY SameTurn
<1>4. \A m \in Lines : queue[m] \in Seq(Jobs) /\ Elements(queue[m]) \subseteq Jobs
    BY QueueFacts
<1>5. /\ Append(queue[l], j) \in Seq(Jobs) /\ Len(Append(queue[l], j)) = Len(queue[l]) + 1
      /\ \A i \in 1 .. Len(queue[l]) : Append(queue[l], j)[i] = queue[l][i]
      /\ Append(queue[l], j)[Len(queue[l]) + 1] = j
      /\ Elements(Append(queue[l], j)) = Elements(queue[l]) \cup {j}
    BY <1>2, <1>4, Appended
<1>6. \A k \in waiter : k \in Jobs /\ phase[k] = "line"
    BY QueueFacts
<1>7. \A m \in Lines : \A k \in Elements(queue[m]) : k # j /\ k \in Jobs
    BY <1>2, <1>4
<1>8. \A m \in Lines : Elements(queue[m])' = Elements(queue'[m])
    BY DEF Elements
<1>9. CASE \E k \in waiter : Line(k) = l
    <2>1. waiter' = waiter /\ queue' = [queue EXCEPT ![l] = Append(@, j)]
        BY <1>0, <1>9 DEF Push
    <2>2. queue' \in [Lines -> Seq(Jobs)] /\ queue'[l] = Append(queue[l], j)
          /\ \A m \in Lines : m # l => queue'[m] = queue[m]
        BY <1>2, <1>5, <2>1 DEF LinesFine
    <2>3. ASSUME NEW m \in Lines, m # l PROVE Behind(m)'
        <3>1. Behind(m) /\ queue'[m] = queue[m]
            BY <2>2, <2>3 DEF LinesFine
        <3>2. Elements(queue[m])' = Elements(queue[m])
            BY <1>8, <3>1
        <3> QED BY <1>1, <1>3, <1>7, <2>1, <3>1, <3>2 DEF Behind
    <2>4. Behind(l)'
        <3>1. Behind(l)
            BY <1>2 DEF LinesFine
        <3>2. Elements(queue[l])' = Elements(queue[l]) \cup {j}
            BY <1>8, <1>5, <2>2
        <3>3. \A k \in Elements(queue[l]) \cup {j} : phase'[k] = "line" /\ k \notin waiter /\ Line(k) = l
            BY <1>0, <1>1, <1>2, <1>7, <3>1 DEF Behind
        <3>4. \A i \in 1 .. Len(queue[l]) : queue[l][i] # j
            BY <1>2, <1>4, ElementsAre
        <3>5. Len(queue[l]) \in Nat
            BY <1>2, <1>4, ElementsAre
        <3>6. \A i, k \in 1 .. Len(queue'[l]) : queue'[l][i] = queue'[l][k] => i = k
            BY <1>5, <2>2, <3>1, <3>4, <3>5 DEF Behind
        <3> QED BY <1>3, <2>1, <3>2, <3>3, <3>6 DEF Behind
    <2>5. ASSUME NEW k \in Jobs, phase'[k] = "line" PROVE InLine(k)'
        <3>1. CASE k = j
            BY <1>0, <1>3, <1>5, <2>2, <3>1 DEF InLine, Elements
        <3>2. CASE k # j
            <4>1. InLine(k) /\ Line(k) \in Lines
                BY <1>1, <2>5, <3>2, QueueFacts
            <4>2. Elements(queue[Line(k)]) \subseteq Elements(queue'[Line(k)])
                BY <1>5, <2>2, <4>1
            <4>3. Elements(queue[Line(k)])' = Elements(queue'[Line(k)])
                BY <1>3 DEF Elements
            <4> QED BY <1>3, <2>1, <4>1, <4>2, <4>3 DEF InLine
        <3> QED BY <3>1, <3>2
    <2>6. LinesMove'
        <3>1. \A m \in Lines : queue'[m] # <<>> => \E k \in waiter : Line(k) = m
            BY <1>9, <2>2 DEF LinesFine, LinesMove
        <3> QED BY <1>3, <2>1, <3>1 DEF LinesFine, LinesMove
    <2>7. waiter' \subseteq InPhase({"line"})' /\ \A k \in InPhase({"line"})' : InLine(k)'
        BY <1>1, <1>6, <2>1, <2>5, InLineIs
    <2>8. \A m \in Lines : Behind(m)'
        BY <2>3, <2>4
    <2> QED BY <2>2, <2>6, <2>7, <2>8 DEF LinesFine
<1>10. CASE ~ \E k \in waiter : Line(k) = l
    <2>1. waiter' = waiter \cup {j} /\ queue' = queue
        BY <1>0, <1>10 DEF Push
    <2>2. ASSUME NEW m \in Lines PROVE Behind(m)'
        <3>1. Behind(m)
            BY DEF LinesFine
        <3> QED BY <1>1, <1>3, <1>7, <2>1, <3>1 DEF Behind, Elements
    <2>3. ASSUME NEW k \in Jobs, phase'[k] = "line" PROVE InLine(k)'
        <3>1. CASE k = j
            BY <1>3, <2>1, <3>1 DEF InLine
        <3>2. CASE k # j
            <4>1. InLine(k)
                BY <1>1, <2>3, <3>2, QueueFacts
            <4> QED BY <1>3, <2>1, <4>1 DEF InLine, Elements
        <3> QED BY <3>1, <3>2
    <2>4. LinesMove'
        BY <1>0, <1>3, <1>10, <2>1 DEF LinesFine, LinesMove
    <2>5. waiter' \subseteq InPhase({"line"})' /\ \A k \in InPhase({"line"})' : InLine(k)'
        BY <1>1, <1>6, <2>1, <2>3, InLineIs
    <2> QED BY <2>1, <2>2, <2>4, <2>5 DEF LinesFine
<1> QED BY <1>9, <1>10

(* The elements of a sequence without repetition, but for the first.       *)
LEMMA Tailed ==
    ASSUME NEW T, NEW q \in Seq(T), q # <<>>, \A i, k \in 1 .. Len(q) : q[i] = q[k] => i = k
    PROVE  /\ Tail(q) \in Seq(T) /\ Elements(Tail(q)) = Elements(q) \ {q[1]}
           /\ \A i, k \in 1 .. Len(Tail(q)) : Tail(q)[i] = Tail(q)[k] => i = k
<1> DEFINE r == Tail(q)
<1>1. r \in Seq(T) /\ Len(r) = Len(q) - 1 /\ \A i \in 1 .. Len(q) - 1 : r[i] = q[i + 1]
    BY HeadTailProperties
<1> HIDE DEF r
<1>2. /\ Len(q) \in Nat /\ Elements(q) = {q[i] : i \in 1 .. Len(q)}
      /\ Elements(r) = {r[i] : i \in 1 .. Len(r)}
    BY <1>1, ElementsAre
<1>3. \A i \in 1 .. Len(r) : i + 1 \in 1 .. Len(q) /\ r[i] = q[i + 1] /\ q[i + 1] # q[1]
    BY <1>1, <1>2
<1>4. \A i \in 1 .. Len(q) : i # 1 => i - 1 \in 1 .. Len(r) /\ r[i - 1] = q[i]
    BY <1>1, <1>2
<1>5. Elements(r) = Elements(q) \ {q[1]}
    <2>1. ASSUME NEW x \in Elements(r) PROVE x \in Elements(q) /\ x # q[1]
        BY <1>2, <1>3
    <2>2. ASSUME NEW x \in Elements(q), x # q[1] PROVE x \in Elements(r)
        <3>1. PICK i \in 1 .. Len(q) : x = q[i]
            BY <1>2
        <3> QED BY <1>2, <1>4, <2>2, <3>1
    <2> QED BY <2>1, <2>2
<1>6. \A i, k \in 1 .. Len(r) : r[i] = r[k] => i = k
    BY <1>1, <1>2, <1>3
<1> QED BY <1>1, <1>5, <1>6 DEF r

(* A turn has ended: the next job of its line, if any, is the head.        *)
LEMMA LeftLine ==
    ASSUME IInv, LinesFine, RestTypes, NEW j \in Jobs, j \in waiter, NEW p, p # "line",
           SetPhase(j, p), Leave(j), turns' = [turns EXCEPT ![j] = @ + 1]
    PROVE  LinesFine'
<1>1. PICK l \in Lines : l = Line(j)
    BY QueueFacts
<1>2. \A k \in Jobs : phase'[k] = IF k = j THEN p ELSE phase[k]
    BY JobSets DEF IInv
<1>3. \A k \in Jobs : k # j => turns'[k] = turns[k]
    BY DEF RestTypes
<1>4. \A k \in Jobs : k # j => Line(k)' = Line(k) /\ (TurnsLeft(k)' <=> TurnsLeft(k))
    BY <1>3, SameTurn
<1>5. \A m \in Lines : /\ queue[m] \in Seq(Jobs) /\ Elements(queue[m]) \subseteq Jobs
                       /\ j \notin Elements(queue[m]) /\ Behind(m)
    BY QueueFacts DEF LinesFine, Behind
<1>6. \A m \in Lines : Elements(queue[m])' = Elements(queue'[m])
    BY DEF Elements
<1>7. \A k \in waiter : k \in Jobs /\ phase[k] = "line" /\ (Line(k) = l => k = j)
    BY <1>1, QueueFacts DEF LinesFine, LinesMove
<1>8. \A m \in Lines : queue[m] # <<>> => \E k \in waiter : Line(k) = m
    BY DEF LinesFine, LinesMove
<1>9. CASE queue[l] = <<>>
    <2>1. waiter' = waiter \ {j} /\ queue' = queue
        BY <1>1, <1>9 DEF Leave
    <2>2. ASSUME NEW m \in Lines PROVE Behind(m)'
        <3>1. Elements(queue[m])' = Elements(queue[m])
            BY <1>6, <2>1
        <3> QED BY <1>2, <1>4, <1>5, <2>1, <3>1 DEF Behind
    <2>3. ASSUME NEW k \in Jobs, phase'[k] = "line" PROVE InLine(k)'
        <3>1. k # j /\ InLine(k) /\ Line(k) \in Lines
            BY <1>2, <2>3, QueueFacts
        <3>2. Elements(queue[Line(k)])' = Elements(queue[Line(k)])
            BY <1>4, <2>1, <3>1 DEF Elements
        <3> QED BY <1>4, <2>1, <3>1, <3>2 DEF InLine
    <2>4. \A m \in Lines : queue'[m] # <<>> => \E k \in waiter' : Line(k)' = m
        <3>1. ASSUME NEW m \in Lines, queue'[m] # <<>> PROVE \E k \in waiter' : Line(k)' = m
            <4>1. PICK k \in waiter : Line(k) = m
                BY <1>8, <2>1, <3>1
            <4>2. k # j
                BY <1>1, <1>9, <2>1, <3>1, <4>1
            <4> QED BY <1>4, <1>7, <2>1, <4>1, <4>2
        <3> QED BY <3>1
    <2>5. \A k, n \in waiter' : Line(k)' = Line(n)' => k = n
        BY <1>4, <1>7, <2>1 DEF LinesFine, LinesMove
    <2>6. waiter' \subseteq InPhase({"line"})' /\ \A k \in InPhase({"line"})' : InLine(k)'
        BY <1>2, <1>7, <2>1, <2>3, InLineIs
    <2>7. queue' \in [Lines -> Seq(Jobs)]
        BY <2>1 DEF LinesFine
    <2>8. LinesMove'
        BY <2>4, <2>5 DEF LinesMove
    <2> QED BY <2>2, <2>6, <2>7, <2>8 DEF LinesFine
<1>10. CASE queue[l] # <<>>
    <2>0. PICK q \in Seq(Jobs) : q = queue[l]
        BY <1>5
    <2> DEFINE h == Head(q)
    <2>1. waiter' = (waiter \ {j}) \cup {h} /\ queue' = [queue EXCEPT ![l] = Tail(q)]
        BY <1>1, <1>10, <2>0 DEF Leave
    <2>2. /\ Len(q) \in Nat /\ Len(q) # 0 /\ Elements(q) = {q[i] : i \in 1 .. Len(q)} /\ h = q[1]
        BY <1>10, <2>0, ElementsAre
    <2>3. \A i, k \in 1 .. Len(q) : q[i] = q[k] => i = k
        BY <1>5, <2>0 DEF Behind
    <2>4. /\ Tail(q) \in Seq(Jobs) /\ Elements(Tail(q)) = Elements(q) \ {h}
          /\ \A i, k \in 1 .. Len(Tail(q)) : Tail(q)[i] = Tail(q)[k] => i = k
        BY <1>10, <2>0, <2>2, <2>3, Tailed
    <2>6. h \in Elements(q) /\ h \in Jobs /\ h # j /\ phase[h] = "line" /\ Line(h) = l /\ h \notin waiter
        <3>1. h \in Elements(q)
            BY <2>2
        <3> QED BY <1>5, <2>0, <3>1 DEF Behind
    <2>7. queue' \in [Lines -> Seq(Jobs)] /\ queue'[l] = Tail(q)
          /\ \A m \in Lines : m # l => queue'[m] = queue[m]
        BY <2>1, <2>4 DEF LinesFine
    <2> HIDE DEF h
    <2>8. ASSUME NEW m \in Lines, m # l PROVE Behind(m)'
        <3>1. Elements(queue[m])' = Elements(queue[m]) /\ queue'[m] = queue[m]
            BY <1>6, <2>7, <2>8
        <3>2. \A k \in Elements(queue[m]) : k # h /\ k # j /\ k \in Jobs
            BY <1>5, <2>6, <2>8 DEF Behind
        <3>3. Behind(m) /\ waiter' = (waiter \ {j}) \cup {h}
            BY <1>5, <2>1
        <3>4. \A k \in Elements(queue[m]) : phase'[k] = "line" /\ k \notin waiter' /\ Line(k)' = m
            BY <1>2, <1>4, <3>2, <3>3 DEF Behind
        <3>5. Len(queue[m])' = Len(queue[m])
            BY <3>1
        <3> QED BY <3>1, <3>3, <3>4, <3>5 DEF Behind
    <2>9. Behind(l)'
        <3>1. Elements(queue[l])' = Elements(queue[l]) \ {h} /\ queue'[l] = Tail(q)
            BY <1>6, <2>0, <2>4, <2>7
        <3>2. \A k \in Elements(queue[l]) : k # j /\ k \in Jobs
            BY <1>5
        <3>3. \A k \in Elements(queue[l])' : phase'[k] = "line" /\ k \notin waiter' /\ Line(k)' = l
            BY <1>2, <1>4, <1>5, <2>1, <3>1, <3>2 DEF Behind
        <3> QED BY <2>4, <3>1, <3>3 DEF Behind
    <2>10. ASSUME NEW k \in Jobs, phase'[k] = "line" PROVE InLine(k)'
        <3>1. k # j /\ InLine(k) /\ Line(k) \in Lines
            BY <1>2, <2>10, QueueFacts
        <3>2. Elements(queue[Line(k)])' = Elements(queue'[Line(k)])
            BY <1>4, <3>1 DEF Elements
        <3>3. Elements(queue[Line(k)]) \subseteq Elements(queue'[Line(k)]) \cup {h}
            BY <2>0, <2>4, <2>7, <3>1
        <3> QED BY <1>4, <2>1, <3>1, <3>2, <3>3 DEF InLine
    <2>11. \A m \in Lines : queue'[m] # <<>> => \E k \in waiter' : Line(k)' = m
        <3>1. ASSUME NEW m \in Lines, queue'[m] # <<>>, m # l PROVE \E k \in waiter' : Line(k)' = m
            <4>1. PICK k \in waiter : Line(k) = m
                BY <1>8, <2>7, <3>1
            <4> QED BY <1>1, <1>4, <1>7, <2>1, <3>1, <4>1
        <3>2. h \in waiter' /\ Line(h)' = l
            BY <1>4, <2>1, <2>6
        <3> QED BY <3>1, <3>2
    <2>12. \A k, n \in waiter' : Line(k)' = Line(n)' => k = n
        <3>1. \A k \in waiter \ {j} : Line(k)' = Line(k) /\ Line(k) # l
            BY <1>4, <1>7
        <3>2. Line(h)' = l
            BY <1>4, <2>6
        <3> QED BY <2>1, <3>1, <3>2 DEF LinesFine, LinesMove
    <2>13. waiter' \subseteq InPhase({"line"})' /\ \A k \in InPhase({"line"})' : InLine(k)'
        BY <1>2, <1>7, <2>1, <2>6, <2>10, InLineIs
    <2>14. LinesMove'
        BY <2>11, <2>12 DEF LinesMove
    <2>15. \A m \in Lines : Behind(m)'
        BY <2>8, <2>9
    <2> QED BY <2>7, <2>13, <2>14, <2>15 DEF LinesFine
<1> QED BY <1>9, <1>10

(* One HostTurns is emptied, and the others stay.                          *)
LEMMA Drained ==
    ASSUME LinesFine, RestTypes, NEW o, DropTurns(o), UNCHANGED turns,
           \A j \in Jobs : phase'[j] = "line" <=> phase[j] = "line" /\ Owner(j) # o
    PROVE  LinesFine'
<1>1. waiter' = waiter \ {j \in Jobs : Owner(j) = o}
      /\ queue' = [l \in Lines |-> IF l[1] = o THEN <<>> ELSE queue[l]]
    BY DEF DropTurns, DropAdmissions
<1>2. \A j : Line(j)' = Line(j) /\ (TurnsLeft(j)' <=> TurnsLeft(j))
    BY SameTurn
<1>3. \A j : Line(j)[1] = Owner(j)
    BY DEF Line
<1>4. \A l \in Lines : queue'[l] = (IF l[1] = o THEN <<>> ELSE queue[l])
                       /\ Elements(queue[l])' = Elements(queue'[l])
    BY <1>1 DEF Elements
<1>5. \A l \in Lines : queue[l] \in Seq(Jobs) /\ Elements(queue[l]) \subseteq Jobs
    BY QueueFacts
<1>6. <<>> \in Seq(Jobs) /\ Elements(<<>>) = {} /\ Len(<<>>) = 0
    BY DEF Elements
<1>7. queue' \in [Lines -> Seq(Jobs)]
    BY <1>1, <1>5, <1>6
<1>8. \A k \in waiter : k \in Jobs /\ phase[k] = "line"
    BY QueueFacts
<1>9. ASSUME NEW l \in Lines PROVE Behind(l)'
    <2>1. CASE l[1] = o
        BY <1>4, <1>6, <2>1 DEF Behind
    <2>2. CASE l[1] # o
        <3>1. queue'[l] = queue[l] /\ Elements(queue[l])' = Elements(queue[l]) /\ Behind(l)
            BY <1>4, <2>2 DEF LinesFine
        <3>2. \A k \in Elements(queue[l]) : k \in Jobs /\ Owner(k) # o
            BY <1>3, <1>5, <2>2, <3>1 DEF Behind
        <3> QED BY <1>1, <1>2, <3>1, <3>2 DEF Behind
    <2> QED BY <2>1, <2>2
<1>10. ASSUME NEW k \in Jobs, phase'[k] = "line" PROVE InLine(k)'
    <2>1. InLine(k) /\ Line(k) \in Lines /\ Owner(k) # o
        BY <1>10, QueueFacts
    <2>2. Elements(queue[Line(k)])' = Elements(queue[Line(k)])
        BY <1>2, <1>3, <1>4, <2>1 DEF Elements
    <2> QED BY <1>1, <1>2, <2>1, <2>2 DEF InLine
<1>11. \A l \in Lines : queue'[l] # <<>> => \E k \in waiter' : Line(k) = l
    <2>1. ASSUME NEW l \in Lines, queue'[l] # <<>> PROVE \E k \in waiter' : Line(k) = l
        <3>1. l[1] # o /\ queue[l] # <<>>
            BY <1>4, <2>1
        <3>2. PICK k \in waiter : Line(k) = l
            BY <3>1 DEF LinesFine, LinesMove
        <3> QED BY <1>1, <1>3, <3>1, <3>2
    <2> QED BY <2>1
<1>12. LinesMove'
    BY <1>1, <1>2, <1>11 DEF LinesFine, LinesMove
<1>13. waiter' \subseteq InPhase({"line"})' /\ \A k \in InPhase({"line"})' : InLine(k)'
    BY <1>1, <1>8, <1>10, InLineIs
<1> QED BY <1>7, <1>9, <1>12, <1>13 DEF LinesFine

-----------------------------------------------------------------------------
(* What a step does to the backlog, and the types of the rest *)

(* A job moves that is not to be in the backlog, nor its seed: what its    *)
(* seed may take is a slot, a place in the slots' queue or an activity.    *)
LEMMA Moved ==
    ASSUME IInv, DInv, NEW j \in Jobs, NEW p, SetPhase(j, p), p # "no",
           IsMain(j) \/ phase[Main(SeedOf(j))] # "no",
           lease' \subseteq lease \cup {SeedOf(j)},
           Elements(slotq)' \subseteq Elements(slotq) \cup {SeedOf(j)},
           asking' \subseteq asking \cup {j}
    PROVE  BacklogHoldsNothing' /\ Asked'
<1>1. \A k \in Jobs : phase'[k] = IF k = j THEN p ELSE phase[k]
    BY JobSets DEF IInv
<1>2. Asked'
    BY <1>1 DEF DInv, RestTypes, Asked
<1>3. ASSUME NEW s \in Seeds, phase'[Main(s)] = "no" PROVE s \notin lease' /\ s \notin Elements(slotq)'
    <2>1. Main(s) # j /\ phase[Main(s)] = "no" /\ s # SeedOf(j)
        BY <1>1, <1>3, JobFacts
    <2>2. s \notin lease /\ s \notin Elements(slotq)
        BY <2>1 DEF DInv, BacklogHoldsNothing, Backlog
    <2> QED BY <2>1, <2>2
<1>4. Backlog' = {s \in Seeds : phase'[Main(s)] = "no"}
    BY DEF Backlog, Main
<1> QED BY <1>2, <1>3, <1>4 DEF BacklogHoldsNothing

(* A job that stays where it is moves to where it is.                      *)
LEMMA Stays ==
    ASSUME IInv, UNCHANGED phase, NEW j \in Jobs
    PROVE  SetPhase(j, phase[j])
BY DEF SetPhase, IInv, Types

LEMMA BacklogStays ==
    ASSUME DInv, lease' \subseteq lease, UNCHANGED <<slotq, asking>>,
           \A j \in Jobs : phase'[j] = "no" <=> phase[j] = "no"
    PROVE  BacklogHoldsNothing' /\ Asked'
<1>1. Backlog' = Backlog
    BY JobFacts DEF Backlog, Main
<1> QED BY <1>1 DEF DInv, RestTypes, BacklogHoldsNothing, Asked, Elements

(* What the queues of the slots and of the limiter may become.             *)
LEMMA RestFacts ==
    ASSUME DInv
    PROVE  /\ \A s \in Seeds : /\ Without(slotq, {s}) \in Seq(Seeds)
                               /\ Elements(Without(slotq, {s})) = Elements(slotq) \ {s}
                               /\ Append(slotq, s) \in Seq(Seeds)
                               /\ Elements(Append(slotq, s)) = Elements(slotq) \cup {s}
           /\ <<>> \in Seq(Seeds) /\ Elements(<<>>) = {}
           /\ \A S : \A h \in Hosts : Without(limiter[h], S) \in Seq(Jobs)
           /\ \A h \in Hosts, j \in Jobs : Append(limiter[h], j) \in Seq(Jobs)
<1>1. slotq \in Seq(Seeds) /\ \A h \in Hosts : limiter[h] \in Seq(Jobs)
    BY DEF DInv, RestTypes
<1>2. <<>> \in Seq(Seeds) /\ Elements(<<>>) = {}
    BY DEF Elements
<1> QED BY <1>1, <1>2, WithoutIs, Appended

(* What is asked of a step of one job of the seed that takes an activity.  *)
LEMMA Taken ==
    ASSUME DInv, NEW j \in Jobs, TakeActivity(j)
    PROVE  /\ asking' \subseteq asking /\ slotq' \in Seq(Seeds)
           /\ lease' \subseteq lease \cup {SeedOf(j)} /\ Elements(slotq)' \subseteq Elements(slotq)
<1>1. SeedOf(j) \in Seeds /\ Elements(slotq)' = Elements(slotq')
    BY JobFacts DEF Elements
<1> QED BY <1>1, RestFacts DEF TakeActivity

LEMMA PollEnds ==
    ASSUME DInv, NEW j \in Jobs, EndPoll(j)
    PROVE  /\ slotq' \in Seq(Seeds) /\ lease' \subseteq lease \cup {SeedOf(j)}
           /\ Elements(slotq)' \subseteq Elements(slotq)
<1>1. SeedOf(j) \in Seeds /\ Elements(slotq)' = Elements(slotq')
    BY JobFacts DEF Elements
<1>2. lease' \subseteq lease \cup {SeedOf(j)} /\ slotq' = Without(slotq, {SeedOf(j)})
    BY DEF EndPoll, LeaseFinished
<1> QED BY <1>1, <1>2, RestFacts

(* A job that moves, but neither into a line nor out of one.               *)
LEMMA NotInLine ==
    ASSUME IInv, DInv, NEW j \in Jobs, NEW p, SetPhase(j, p), p = "line" <=> phase[j] = "line",
           UNCHANGED <<turns, waiter, queue>>
    PROVE  LinesFine'
<1>1. \A k \in Jobs : phase'[k] = IF k = j THEN p ELSE phase[k]
    BY JobSets DEF IInv
<1> QED BY <1>1, LinesStay DEF DInv

(* A page that is not where it began has a seed that has left the backlog. *)
LEMMA SeedLeft ==
    ASSUME IInv, NEW j \in Jobs, ~IsMain(j), phase[j] # "no" \/ phase[Main(SeedOf(j))] = "loop"
    PROVE  phase[Main(SeedOf(j))] # "no"
BY PagesLater

-----------------------------------------------------------------------------
(* The steps, once more: the lines and the backlog *)

LEMMA ReserveLines == ASSUME IInv, DInv, NEW s \in Seeds, Reserve(s) PROVE DInv'
<1>1. /\ slotq' = Append(slotq, s)
      /\ UNCHANGED <<phase, turns, lease, asking, waiter, queue, evidence, limiter, due, cancelled>>
    BY DEF Reserve, lines
<1>2. PICK j \in Owned(s) : j \in asking
    BY DEF Reserve
<1>3. j \in Jobs /\ SeedOf(j) = s /\ phase[j] # "no"
    BY <1>2, JobFacts DEF DInv, Asked
<1>4. RestTypes'
    BY <1>1, RestFacts DEF DInv, RestTypes
<1>5. LinesFine'
    BY <1>1, LinesStay DEF DInv
<1>6. Elements(slotq)' = Elements(slotq) \cup {s}
    BY <1>1, RestFacts DEF Elements
<1>7. SetPhase(j, phase[j])
    BY <1>1, <1>3, Stays
<1>8. BacklogHoldsNothing' /\ Asked'
    BY <1>1, <1>3, <1>6, <1>7, Moved, SeedLeft
<1> QED BY <1>4, <1>5, <1>8 DEF DInv

LEMMA ElapseLines == ASSUME DInv, NEW h \in Hosts, Elapse(h) PROVE DInv'
<1>1. /\ due' = due \cup {h}
      /\ UNCHANGED <<phase, turns, lease, slotq, asking, waiter, queue, evidence, limiter, cancelled>>
    BY DEF Elapse, slots
<1>2. RestTypes'
    BY <1>1 DEF DInv, RestTypes
<1>3. LinesFine'
    BY <1>1, LinesStay DEF DInv
<1> QED BY <1>1, <1>2, <1>3, BacklogStays DEF DInv

(* The head of a line asks for a slot, goes, waits on or is refused.       *)
LEMMA HeadFacts ==
    ASSUME IInv, DInv, NEW j \in Jobs, j \in waiter
    PROVE  /\ phase[j] = "line" /\ HostAt(j) \in Hosts /\ SeedOf(j) \in Seeds
           /\ IsMain(j) \/ phase[Main(SeedOf(j))] # "no"
BY QueueFacts, JobFacts, SeedLeft DEF DInv

LEMMA AskTurnLines == ASSUME IInv, DInv, NEW j \in Jobs, AskTurn(j) PROVE DInv'
<1> DEFINE s == SeedOf(j)
<1>1. /\ j \in waiter /\ asking' = asking \cup {j}
      /\ slotq' \in {slotq, Append(slotq, s)}
      /\ evidence' \in {evidence, [evidence EXCEPT ![j] = "probe"]}
      /\ UNCHANGED <<phase, turns, lease, waiter, queue, limiter, due, cancelled>>
    BY DEF AskTurn
<1>2. s \in Seeds /\ phase[j] # "no" /\ (IsMain(j) \/ phase[Main(s)] # "no")
    BY <1>1, HeadFacts
<1>3. slotq' \in Seq(Seeds) /\ Elements(slotq)' \subseteq Elements(slotq) \cup {s}
    <2>1. Elements(slotq)' = Elements(slotq')
        BY DEF Elements
    <2> QED BY <1>1, <1>2, <2>1, RestFacts DEF DInv, RestTypes
<1>4. RestTypes'
    BY <1>1, <1>3 DEF DInv, RestTypes
<1>5. LinesFine'
    BY <1>1, LinesStay DEF DInv
<1>6. SetPhase(j, phase[j])
    BY <1>1, Stays
<1>7. BacklogHoldsNothing' /\ Asked'
    BY <1>1, <1>2, <1>3, <1>6, Moved
<1> QED BY <1>4, <1>5, <1>7 DEF DInv

LEMMA AdmitTurnLines == ASSUME IInv, DInv, NEW j \in Jobs, AdmitTurn(j) PROVE DInv'
<1>1. /\ j \in waiter /\ TakeActivity(j) /\ Leave(j) /\ SetPhase(j, "work")
      /\ turns' = [turns EXCEPT ![j] = @ + 1]
      /\ evidence' = [evidence EXCEPT ![j] = "none"]
      /\ limiter' = [limiter EXCEPT ![HostAt(j)] = Without(@, {j})]
      /\ due' = due \ {HostAt(j)} /\ UNCHANGED cancelled
    BY DEF AdmitTurn
<1>2. HostAt(j) \in Hosts /\ (IsMain(j) \/ phase[Main(SeedOf(j))] # "no")
    BY <1>1, HeadFacts
<1>3. slotq' \in Seq(Seeds) /\ asking' \subseteq asking
      /\ lease' \subseteq lease \cup {SeedOf(j)} /\ Elements(slotq)' \subseteq Elements(slotq)
    BY <1>1, Taken
<1>4. limiter' \in [Hosts -> Seq(Jobs)]
    BY <1>1, <1>2, RestFacts DEF DInv, RestTypes
<1>5. turns' \in [Jobs -> Nat] /\ evidence' \in [Jobs -> {"none", "probe", "pending"}]
    BY <1>1 DEF DInv, RestTypes
<1>6. RestTypes'
    BY <1>1, <1>3, <1>4, <1>5 DEF DInv, RestTypes
<1>7. LinesFine'
    BY <1>1, LeftLine DEF DInv
<1>8. BacklogHoldsNothing' /\ Asked'
    BY <1>1, <1>2, <1>3, Moved
<1> QED BY <1>6, <1>7, <1>8 DEF DInv

LEMMA DelayTurnLines == ASSUME IInv, DInv, NEW j \in Jobs, DelayTurn(j) PROVE DInv'
<1>1. /\ j \in waiter /\ EndPoll(j) /\ asking' = asking \ {j}
      /\ limiter' = [limiter EXCEPT ![HostAt(j)] = Append(@, j)]
      /\ evidence' = [evidence EXCEPT ![j] = "pending"]
      /\ UNCHANGED <<phase, turns, waiter, queue, due, cancelled>>
    BY DEF DelayTurn
<1>2. HostAt(j) \in Hosts /\ phase[j] # "no" /\ (IsMain(j) \/ phase[Main(SeedOf(j))] # "no")
    BY <1>1, HeadFacts
<1>3. slotq' \in Seq(Seeds) /\ lease' \subseteq lease \cup {SeedOf(j)}
      /\ Elements(slotq)' \subseteq Elements(slotq)
    BY <1>1, PollEnds
<1>4. limiter' \in [Hosts -> Seq(Jobs)]
    BY <1>1, <1>2, RestFacts DEF DInv, RestTypes
<1>5. evidence' \in [Jobs -> {"none", "probe", "pending"}]
    BY <1>1 DEF DInv, RestTypes
<1>6. RestTypes'
    BY <1>1, <1>3, <1>4, <1>5 DEF DInv, RestTypes
<1>7. LinesFine'
    BY <1>1, LinesStay DEF DInv
<1>8. SetPhase(j, phase[j])
    BY <1>1, Stays
<1>9. BacklogHoldsNothing' /\ Asked'
    BY <1>1, <1>2, <1>3, <1>8, Moved
<1> QED BY <1>6, <1>7, <1>9 DEF DInv

LEMMA RefuseTurnLines == ASSUME IInv, DInv, NEW j \in Jobs, RefuseTurn(j) PROVE DInv'
<1>1. PICK p \in {"refused", "out"} : SetPhase(j, p)
    BY DEF RefuseTurn
<1>2. /\ j \in waiter /\ EndPoll(j) /\ Leave(j) /\ asking' \subseteq asking \cup {j}
      /\ turns' = [turns EXCEPT ![j] = @ + 1]
      /\ evidence' = [evidence EXCEPT ![j] = "none"]
      /\ limiter' = [limiter EXCEPT ![HostAt(j)] = Without(@, {j})]
      /\ UNCHANGED <<due, cancelled>>
    BY DEF RefuseTurn
<1>3. HostAt(j) \in Hosts /\ (IsMain(j) \/ phase[Main(SeedOf(j))] # "no")
    BY <1>2, HeadFacts
<1>4. slotq' \in Seq(Seeds) /\ lease' \subseteq lease \cup {SeedOf(j)}
      /\ Elements(slotq)' \subseteq Elements(slotq)
    BY <1>2, PollEnds
<1>5. limiter' \in [Hosts -> Seq(Jobs)]
    BY <1>2, <1>3, RestFacts DEF DInv, RestTypes
<1>6. turns' \in [Jobs -> Nat] /\ evidence' \in [Jobs -> {"none", "probe", "pending"}]
    BY <1>2 DEF DInv, RestTypes
<1>7. RestTypes'
    BY <1>2, <1>4, <1>5, <1>6 DEF DInv, RestTypes
<1>8. LinesFine'
    BY <1>1, <1>2, LeftLine DEF DInv
<1>9. BacklogHoldsNothing' /\ Asked'
    BY <1>1, <1>2, <1>3, <1>4, Moved
<1> QED BY <1>7, <1>8, <1>9 DEF DInv

(* A seed leaves the backlog or comes back to it, parks, goes on or ends.  *)
LEMMA SeedLines ==
    ASSUME IInv, DInv, NEW s \in Seeds,
           QueueStart(s) \/ Start(s) \/ Resume(s) \/ Yield(s) \/ EnterLoop(s) \/ Finish(s)
    PROVE  DInv'
<1> DEFINE j == Main(s)
<1>1. j \in Jobs /\ IsMain(j) /\ SeedOf(j) = s
    BY JobFacts
<1>2. ASSUME NEW p, p # "no", SetPhase(j, p), asking' \subseteq asking \cup {j},
             lease' \subseteq lease \cup {s}, slotq' \in {slotq, Without(slotq, {s})},
             UNCHANGED <<turns, evidence, limiter, due, cancelled>>
      PROVE  RestTypes' /\ BacklogHoldsNothing' /\ Asked'
    <2>1. Elements(slotq)' = Elements(slotq')
        BY DEF Elements
    <2>2. slotq' \in Seq(Seeds) /\ Elements(slotq)' \subseteq Elements(slotq)
        BY <1>2, <2>1, RestFacts DEF DInv, RestTypes
    <2>3. RestTypes'
        BY <1>1, <1>2, <2>2 DEF DInv, RestTypes
    <2> QED BY <1>1, <1>2, <2>2, <2>3, Moved
<1>3. CASE QueueStart(s)
    <2>1. /\ SetPhase(j, "ask") /\ phase[j] # "line" /\ asking' = asking \cup {j}
          /\ UNCHANGED <<lease, slotq, turns, waiter, queue, evidence, limiter, due, cancelled>>
        BY <1>3 DEF QueueStart, Backlog, lines
    <2> QED BY <1>1, <1>2, <2>1, NotInLine DEF DInv
<1>4. CASE Start(s) \/ Resume(s)
    <2>1. /\ SetPhase(j, "work") /\ phase[j] # "line" /\ TakeActivity(j)
          /\ UNCHANGED <<turns, waiter, queue, evidence, limiter, due, cancelled>>
        BY <1>4 DEF Start, Resume, Starts, lines
    <2>2. slotq' = Without(slotq, {s}) /\ lease' = lease \cup {s} /\ asking' \subseteq asking
        BY <1>1, <2>1 DEF TakeActivity
    <2> QED BY <1>1, <1>2, <2>1, <2>2, NotInLine DEF DInv
<1>5. CASE Yield(s)
    <2>1. /\ SetPhase(j, "line") /\ phase[j] = "work" /\ Push(j) /\ TurnsLeft(j)
          /\ lease' = LeaseFinished(LeaseParked(lease, s, Active(s)), s, Active(s) \ {j}, {j}, FALSE)
          /\ UNCHANGED <<turns, slotq, asking, evidence, limiter, due, cancelled>>
        BY <1>5 DEF Yield
    <2>2. lease' \subseteq lease
        BY <2>1 DEF LeaseFinished, LeaseParked
    <2>3. LinesFine'
        BY <1>1, <2>1, Pushed DEF DInv
    <2> QED BY <1>2, <2>1, <2>2, <2>3 DEF DInv
<1>6. CASE EnterLoop(s)
    <2>1. /\ SetPhase(j, "loop") /\ phase[j] = "work"
          /\ lease' = LeaseFinished(lease, s, Active(s) \ {j}, Waiting(s), s \in completed)
          /\ UNCHANGED <<slotq, asking, turns, waiter, queue, evidence, limiter, due, cancelled>>
        BY <1>6 DEF EnterLoop, lines
    <2>2. lease' \subseteq lease
        BY <2>1 DEF LeaseFinished
    <2> QED BY <1>1, <1>2, <2>1, <2>2, NotInLine DEF DInv
<1>7. CASE Finish(s)
    <2>1. /\ SetPhase(j, "done") /\ phase[j] # "line" /\ asking' \subseteq asking
          /\ slotq' = Without(slotq, {s})
          /\ UNCHANGED <<turns, waiter, queue, evidence, limiter, due, cancelled>>
        BY <1>7 DEF Finish, lines
    <2>2. lease' \subseteq lease
        BY <1>7 DEF Finish, LeaseFinished, LeaseCompleted
    <2> QED BY <1>1, <1>2, <2>1, <2>2, NotInLine DEF DInv
<1> QED BY <1>3, <1>4, <1>5, <1>6, <1>7

(* A start is taken back: neither slot nor place in its queue is left.     *)
LEMMA RollBackLines == ASSUME IInv, DInv, NEW s \in Seeds, RollBack(s) PROVE DInv'
<1> DEFINE j == Main(s)
<1>1. /\ SetPhase(j, "no") /\ phase[j] = "ask" /\ asking' = asking \ {j}
      /\ lease' = lease \ {s} /\ slotq' = Without(slotq, {s})
      /\ UNCHANGED <<turns, waiter, queue, evidence, limiter, due, cancelled>>
    BY DEF RollBack, Starts, LeaseRolledBack, lines
<1>2. j \in Jobs /\ SeedOf(j) = s
    BY JobFacts
<1>3. \A k \in Jobs : phase'[k] = IF k = j THEN "no" ELSE phase[k]
    BY <1>1, <1>2, JobSets DEF IInv
<1>4. slotq' \in Seq(Seeds) /\ Elements(slotq)' = Elements(slotq) \ {s}
    <2>1. Elements(slotq)' = Elements(slotq')
        BY DEF Elements
    <2> QED BY <1>1, <2>1, RestFacts
<1>5. RestTypes'
    BY <1>1, <1>4 DEF DInv, RestTypes
<1>6. LinesFine'
    BY <1>1, <1>2, NotInLine
<1>7. Asked'
    BY <1>1, <1>3 DEF DInv, RestTypes, Asked
<1>8. BacklogHoldsNothing'
    <2>1. Backlog' \subseteq Backlog \cup {s}
        <3>1. Backlog' = {t \in Seeds : phase'[Main(t)] = "no"}
            BY DEF Backlog, Main
        <3> QED BY <1>3, <3>1, JobFacts DEF Backlog
    <2> QED BY <1>1, <1>4, <2>1 DEF DInv, BacklogHoldsNothing
<1> QED BY <1>5, <1>6, <1>7, <1>8 DEF DInv

LEMMA PageLines ==
    ASSUME IInv, DInv, NEW j \in Jobs,
           AskPrepare(j) \/ Prepare(j) \/ TaskEnds(j) \/ JoinToTurn(j) \/ JoinToFold(j) \/ Fold(j)
    PROVE  DInv'
<1> DEFINE s == SeedOf(j)
<1>1. s \in Seeds /\ (IsMain(j) \/ phase[Main(s)] # "no")
    <2>1. IsMain(j) \/ phase[j] # "no" \/ phase[Main(s)] = "loop"
        BY DEF AskPrepare, Prepare, TaskEnds, JoinToTurn, JoinToFold, Fold
    <2> QED BY <2>1, JobFacts, SeedLeft
<1>2. ASSUME NEW p, p # "no", SetPhase(j, p), asking' \subseteq asking \cup {j},
             lease' \subseteq lease \cup {s}, slotq' \in {slotq, Without(slotq, {s})},
             UNCHANGED <<turns, evidence, limiter, due, cancelled>>
      PROVE  RestTypes' /\ BacklogHoldsNothing' /\ Asked'
    <2>1. Elements(slotq)' = Elements(slotq')
        BY DEF Elements
    <2>2. slotq' \in Seq(Seeds) /\ Elements(slotq)' \subseteq Elements(slotq)
        BY <1>1, <1>2, <2>1, RestFacts DEF DInv, RestTypes
    <2>3. RestTypes'
        BY <1>2, <2>2 DEF DInv, RestTypes
    <2> QED BY <1>1, <1>2, <2>2, <2>3, Moved
<1>3. CASE AskPrepare(j) \/ JoinToFold(j)
    <2>1. PICK p \in {"ask", "fold"} : SetPhase(j, p)
        BY <1>3 DEF AskPrepare, JoinToFold
    <2>2. /\ phase[j] # "line" /\ asking' = asking \cup {j}
          /\ UNCHANGED <<turns, lease, slotq, waiter, queue, evidence, limiter, due, cancelled>>
        BY <1>3 DEF AskPrepare, JoinToFold, lines
    <2> QED BY <1>2, <2>1, <2>2, NotInLine DEF DInv
<1>4. CASE Prepare(j)
    <2>1. /\ SetPhase(j, "work") /\ phase[j] # "line" /\ TakeActivity(j)
          /\ UNCHANGED <<turns, waiter, queue, evidence, limiter, due, cancelled>>
        BY <1>4 DEF Prepare, lines
    <2>2. slotq' = Without(slotq, {s}) /\ lease' = lease \cup {s} /\ asking' \subseteq asking
        BY <2>1 DEF TakeActivity
    <2> QED BY <1>2, <2>1, <2>2, NotInLine DEF DInv
<1>5. CASE TaskEnds(j)
    <2>1. PICK p \in {"out", "end"} : SetPhase(j, p)
        BY <1>5 DEF TaskEnds
    <2>2. /\ phase[j] # "line"
          /\ UNCHANGED <<turns, slotq, asking, waiter, queue, evidence, limiter, due, cancelled>>
        BY <1>5 DEF TaskEnds, lines
    <2>3. lease' \subseteq lease
        BY <1>5 DEF TaskEnds, LeaseFinished
    <2> QED BY <1>2, <2>1, <2>2, <2>3, NotInLine DEF DInv
<1>6. CASE JoinToTurn(j)
    <2>1. /\ SetPhase(j, "line") /\ phase[j] = "out" /\ Push(j) /\ TurnsLeft(j)
          /\ UNCHANGED <<turns, slotq, asking, evidence, limiter, due, cancelled>>
        BY <1>6 DEF JoinToTurn
    <2>2. lease' \subseteq lease
        BY <1>6 DEF JoinToTurn, LeaseParked
    <2>3. LinesFine'
        BY <2>1, Pushed DEF DInv
    <2> QED BY <1>2, <2>1, <2>2, <2>3 DEF DInv
<1>7. CASE Fold(j)
    <2>1. /\ SetPhase(j, "end") /\ phase[j] = "fold" /\ EndPoll(j) /\ asking' = asking \ {j}
          /\ UNCHANGED <<turns, waiter, queue, evidence, limiter, due, cancelled>>
        BY <1>7 DEF Fold, lines
    <2>2. slotq' = Without(slotq, {s}) /\ lease' \subseteq lease \cup {s}
        BY <2>1 DEF EndPoll, LeaseFinished
    <2> QED BY <1>2, <2>1, <2>2, NotInLine DEF DInv
<1> QED BY <1>3, <1>4, <1>5, <1>6, <1>7

(* The types of what a drained HostTurns leaves.                           *)
LEMMA DrainTypes ==
    ASSUME DInv, NEW o, DropTurns(o)
    PROVE  /\ limiter' \in [Hosts -> Seq(Jobs)] /\ due' = due
           /\ evidence' \in [Jobs -> {"none", "probe", "pending"}]
<1>1. /\ limiter' = [h \in Hosts |-> Without(limiter[h], {j \in Jobs : Owner(j) = o})]
      /\ evidence' = [j \in Jobs |-> IF j \in {k \in Jobs : Owner(k) = o} THEN "none" ELSE evidence[j]]
      /\ due' = due
    BY DEF DropTurns, DropAdmissions
<1>2. limiter' \in [Hosts -> Seq(Jobs)]
    BY <1>1, RestFacts
<1> QED BY <1>1, <1>2 DEF DInv, RestTypes

LEMMA EndCrawlLines == ASSUME IInv, DInv, NEW s \in Seeds, EndCrawl(s) PROVE DInv'
<1>1. /\ phase[Main(s)] = "loop" /\ DropTurns({s}) /\ asking' = asking \ PagesOf(s)
      /\ slotq' \in {slotq, Without(slotq, {s})} /\ UNCHANGED <<turns, lease, cancelled>>
      /\ phase' = [j \in Jobs |->
                     CASE j = Main(s) -> "over"
                       [] j \in PagesOf(s) /\ phase[j] = "work" -> "aborted"
                       [] j \in PagesOf(s) /\ phase[j] # "work" -> "end"
                       [] OTHER -> phase[j]]
    BY DEF EndCrawl
<1>2. \A j \in Jobs : phase'[j] = IF j = Main(s) THEN "over"
                                  ELSE IF j \notin PagesOf(s) THEN phase[j]
                                  ELSE IF phase[j] = "work" THEN "aborted" ELSE "end"
    <2>1. \A j \in PagesOf(s) : j # Main(s)
        BY JobFacts DEF PagesOf
    <2>2. ASSUME NEW j \in Jobs
          PROVE  phase'[j] = CASE j = Main(s) -> "over"
                               [] j \in PagesOf(s) /\ phase[j] = "work" -> "aborted"
                               [] j \in PagesOf(s) /\ phase[j] # "work" -> "end"
                               [] OTHER -> phase[j]
        BY <1>1
    <2> QED BY <2>1, <2>2
<1>3. \A j \in Jobs : Owner(j) = {s} <=> j \in PagesOf(s)
    BY JobFacts DEF Owner, PagesOf, Owned
<1>4. \A j \in Jobs : phase'[j] = "line" <=> phase[j] = "line" /\ Owner(j) # {s}
    BY <1>1, <1>2, <1>3
<1>5. slotq' \in Seq(Seeds) /\ Elements(slotq)' \subseteq Elements(slotq)
    <2>1. Elements(slotq)' = Elements(slotq')
        BY DEF Elements
    <2> QED BY <1>1, <2>1, RestFacts DEF DInv, RestTypes
<1>6. RestTypes'
    BY <1>1, <1>5, DrainTypes DEF DInv, RestTypes
<1>7. LinesFine'
    BY <1>1, <1>4, Drained DEF DInv
<1>8. Backlog' \subseteq Backlog
    <2>1. Backlog' = {t \in Seeds : phase'[Main(t)] = "no"}
        BY DEF Backlog, Main
    <2>2. \A t \in Seeds : Main(t) \in Jobs /\ Main(t) \notin PagesOf(s)
        BY JobFacts DEF PagesOf
    <2> QED BY <1>2, <2>1, <2>2 DEF Backlog
<1>9. BacklogHoldsNothing'
    BY <1>1, <1>5, <1>8 DEF DInv, BacklogHoldsNothing
<1>10. Asked'
    BY <1>1, <1>2 DEF DInv, RestTypes, Asked
<1> QED BY <1>6, <1>7, <1>9, <1>10 DEF DInv

LEMMA CancelLines == ASSUME IInv, DInv, Cancel PROVE DInv'
<1>1. /\ asking' = {} /\ slotq' = <<>> /\ cancelled' = TRUE /\ DropTurns({}) /\ UNCHANGED turns
      /\ phase' = [j \in Jobs |->
                     CASE IsMain(j) /\ phase[j] \in {"no", "ask"} -> "dropped"
                       [] IsMain(j) /\ phase[j] \in {"line", "refused"} -> "over"
                       [] OTHER -> phase[j]]
    BY DEF Cancel
<1>2. \A j \in Jobs : phase'[j] = IF ~IsMain(j) THEN phase[j]
                                  ELSE IF phase[j] \in {"no", "ask"} THEN "dropped"
                                  ELSE IF phase[j] \in {"line", "refused"} THEN "over" ELSE phase[j]
    BY <1>1
<1>3. \A j \in Jobs : Owner(j) = {} <=> IsMain(j)
    BY DEF Owner
<1>4. \A j \in Jobs : phase'[j] = "line" <=> phase[j] = "line" /\ Owner(j) # {}
    BY <1>2, <1>3
<1>5. RestTypes'
    BY <1>1, DrainTypes, RestFacts DEF DInv, RestTypes
<1>6. LinesFine'
    BY <1>1, <1>4, Drained DEF DInv
<1>7. Backlog' = {}
    <2>1. Backlog' = {t \in Seeds : phase'[Main(t)] = "no"}
        BY DEF Backlog, Main
    <2> QED BY <1>2, <2>1, JobFacts
<1>8. BacklogHoldsNothing' /\ Asked'
    BY <1>1, <1>7 DEF BacklogHoldsNothing, Asked
<1> QED BY <1>5, <1>6, <1>8 DEF DInv

LEMMA InitLines == ASSUME Init PROVE DInv
<1> USE DEF Init
<1>1. <<>> \in Seq(Seeds) /\ <<>> \in Seq(Jobs) /\ Elements(<<>>) = {} /\ Len(<<>>) = 0
    BY DEF Elements
<1>2. RestTypes
    BY <1>1 DEF RestTypes
<1>3. \A l \in Lines : Behind(l)
    BY <1>1 DEF Behind
<1>4. LinesFine
    BY <1>1, <1>3, InLineIs DEF LinesFine, LinesMove
<1>5. BacklogHoldsNothing /\ Asked
    BY <1>1 DEF BacklogHoldsNothing, Asked
<1> QED BY <1>2, <1>4, <1>5 DEF DInv

LEMMA LinesPreserved == IInv /\ DInv /\ [Next]_vars => DInv'
<1> SUFFICES ASSUME IInv, DInv, [Next]_vars PROVE DInv'
    OBVIOUS
<1>1. CASE Cancel
    BY <1>1, CancelLines
<1>2. ASSUME NEW h \in Hosts, Elapse(h) PROVE DInv'
    BY <1>2, ElapseLines
<1>3. ASSUME NEW s \in Seeds,
             \/ Reserve(s) \/ QueueStart(s) \/ RollBack(s) \/ Start(s)
             \/ Yield(s) \/ Resume(s) \/ EnterLoop(s) \/ Finish(s) \/ EndCrawl(s)
      PROVE  DInv'
    BY <1>3, ReserveLines, RollBackLines, SeedLines, EndCrawlLines
<1>4. ASSUME NEW j \in Jobs,
             \/ AskTurn(j) \/ AdmitTurn(j) \/ DelayTurn(j) \/ RefuseTurn(j)
             \/ AskPrepare(j) \/ Prepare(j) \/ TaskEnds(j) \/ JoinToTurn(j) \/ JoinToFold(j) \/ Fold(j)
      PROVE  DInv'
    BY <1>4, AskTurnLines, AdmitTurnLines, DelayTurnLines, RefuseTurnLines, PageLines
<1>5. CASE UNCHANGED vars
    <2>1. UNCHANGED <<phase, turns, lease, slotq, asking, waiter, queue, evidence, limiter, due, cancelled>>
        BY <1>5 DEF vars, slots, lines
    <2>2. RestTypes' /\ LinesFine'
        BY <2>1, LinesStay DEF DInv, RestTypes
    <2> QED BY <2>1, <2>2, BacklogStays DEF DInv
<1> QED BY <1>1, <1>2, <1>3, <1>4, <1>5 DEF Next

-----------------------------------------------------------------------------
(* Both conjunctions together are inductive.                               *)
THEOREM LinesInvariance == Spec => [](IInv /\ DInv)
<1>1. Init => IInv /\ DInv
    BY Initially, InitLines
<1>2. IInv /\ DInv /\ [Next]_vars => (IInv /\ DInv)'
    BY Preserved, LinesPreserved
<1> QED BY <1>1, <1>2, PTL DEF Spec

(* The lists have their types, and a job is in a line of a HostTurns, at   *)
(* its head or behind it, exactly while its continuation waits there       *)
(* (host_turn.rs, enqueue, next and drain): nothing is lost and nothing is *)
(* left behind when a crawl ends or the batch is cancelled.                *)
THEOREM TypeCorrect == Spec => []TypeOK
<1>1. ASSUME IInv, DInv PROVE TypeOK
    <2>1. phase \in [Jobs -> Phases] /\ guard \subseteq Jobs /\ lease \subseteq Seeds /\ completed \subseteq Seeds
        BY <1>1 DEF IInv, Types
    <2>2. Elements(slotq) \subseteq Seeds
        BY <1>1, ElementsAre DEF DInv, RestTypes
    <2>3. waiter \subseteq Jobs /\ queue \in [Lines -> Seq(Jobs)]
        BY <1>1, QueueFacts DEF DInv, LinesFine
    <2>4. InPhase({"line"}) = waiter \cup UNION {Elements(queue[l]) : l \in Lines}
        <3>1. ASSUME NEW j \in InPhase({"line"})
              PROVE  j \in waiter \/ \E l \in Lines : j \in Elements(queue[l])
            BY <1>1, <3>1, InLineIs, QueueFacts DEF DInv, InLine
        <3>2. \A l \in Lines : Elements(queue[l]) \subseteq InPhase({"line"})
            BY <1>1, InLineIs, QueueFacts DEF DInv, LinesFine, Behind
        <3>3. waiter \subseteq InPhase({"line"})
            BY <1>1 DEF DInv, LinesFine
        <3> QED BY <3>1, <3>2, <3>3
    <2> QED BY <1>1, <2>1, <2>2, <2>3, <2>4 DEF TypeOK, DInv, RestTypes
<1> QED BY <1>1, LinesInvariance, PTL

(* A seed whose start was taken back, or that was not started yet, has no  *)
(* slot and no reservation (seed_schedule.rs, queue_starts and start;      *)
(* cooperative.rs, rollback_tentative).                                    *)
THEOREM BacklogFree == Spec => []BacklogHoldsNothing
BY LinesInvariance, PTL DEF DInv

(* A host that has jobs in line has one of them at its limiter, and only   *)
(* one for each HostTurns (host_turn.rs, enqueue and next).                *)
THEOREM LinesHaveHeads == Spec => []LinesMove
<1>1. DInv => LinesMove
    BY DEF DInv, LinesFine
<1> QED BY <1>1, LinesInvariance, PTL
=============================================================================
