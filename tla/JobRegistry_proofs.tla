------------------------- MODULE JobRegistry_proofs -------------------------
(***************************************************************************)
(* For any requests, ceiling, number of threads and age: the registry and  *)
(* the tasks agree, and the result of a job lasts until it is evicted.     *)
(***************************************************************************)
EXTENDS JobRegistry, TLAPS

(* Jobs are made by handlers that are through with them. *)
MadeOnce == \A r \in DOMAIN jobs : handler[r] = "accepted"

IInv == TypeOK /\ MadeOnce

(* Initially there are no jobs. *)
LEMMA InitOK == Init => IInv
BY RegistryAssumption DEF Init, IInv, TypeOK, MadeOnce

(* What update leaves of the registry: the same ids, one state changed. *)
LEMMA UpdateChanges ==
    ASSUME NEW r, NEW s
    PROVE /\ DOMAIN Update(r, s) = DOMAIN jobs
          /\ \A q \in DOMAIN jobs : q # r => Update(r, s)[q] = jobs[q]
          /\ r \in DOMAIN jobs => Update(r, s)[r] = s
BY DEF Update

(* Every step keeps the types, and the agreement of registry and tasks. *)
LEMMA StepOK == IInv /\ [Next]_vars => IInv'
<1> SUFFICES ASSUME IInv, [Next]_vars PROVE IInv'
    OBVIOUS
<1> USE RegistryAssumption DEF IInv, TypeOK, MadeOnce, States, Live
<1>1. CASE UNCHANGED vars
    BY <1>1 DEF vars
<1>2. ASSUME NEW r \in Requests, Check(r) \/ EngineFails(r) PROVE IInv'
    BY <1>2 DEF Check, EngineFails
<1>3. ASSUME NEW r \in Requests, Create(r) PROVE IInv'
    BY <1>3 DEF Create
<1>4. ASSUME NEW r \in Requests, TaskStarts(r) PROVE IInv'
    <2>1. jobs' = Update(r, "in_progress")
        BY <1>4 DEF TaskStarts
    <2> QED BY <1>4, <2>1, UpdateChanges DEF TaskStarts
<1>5. ASSUME NEW r \in Requests, TaskEnds(r) PROVE IInv'
    <2>1. PICK s \in {"completed", "failed"} : jobs' = Update(r, s)
        BY <1>5 DEF TaskEnds
    <2> QED BY <1>5, <2>1, UpdateChanges DEF TaskEnds
<1>6. ASSUME NEW r \in Requests, TaskPanics(r) PROVE IInv'
    BY <1>6 DEF TaskPanics
<1>7. ASSUME NEW r \in Requests, Cancel(r) PROVE IInv'
    BY <1>7 DEF Cancel, Cancellable
<1>8. CASE Evict
    BY <1>8 DEF Evict, Retained
<1>9. CASE Tick
    BY <1>9 DEF Tick
<1> QED BY <1>1, <1>2, <1>3, <1>4, <1>5, <1>6, <1>7, <1>8, <1>9 DEF Next

(* The registry and the tasks agree in every state. *)
THEOREM Invariance == Spec => []IInv
BY InitOK, StepOK, PTL DEF Spec

(* Types, and the agreement of the registry with the tasks: what TypeOK    *)
(* says of update and spawn_crawl_job (api/jobs.rs, api/handlers.rs).      *)
THEOREM TypeCorrect == Spec => []TypeOK
<1>1. IInv => TypeOK
    BY DEF IInv
<1> QED BY <1>1, Invariance, PTL

(* What a step may do to the jobs: see ResultsLast. *)
ResultStays(r) ==
    /\ r \in DOMAIN jobs /\ jobs[r] \in {"completed", "failed"} =>
         r \notin DOMAIN jobs' \/ jobs'[r] = jobs[r]
    /\ handler[r] = "accepted" /\ r \notin DOMAIN jobs => r \notin DOMAIN jobs'

(* No step of a handler, a task, a DELETE or an eviction disturbs a result.*)
LEMMA StepKeepsResults == IInv /\ [Next]_vars => \A r \in Requests : ResultStays(r)
<1> SUFFICES ASSUME IInv, [Next]_vars, NEW r \in Requests PROVE ResultStays(r)
    OBVIOUS
<1> USE DEF IInv, TypeOK, MadeOnce, Live, ResultStays
<1>1. CASE UNCHANGED jobs
    BY <1>1
<1>2. ASSUME NEW q \in Requests, Create(q) PROVE ResultStays(r)
    BY <1>2 DEF Create
<1>3. ASSUME NEW q \in Requests, TaskStarts(q) PROVE ResultStays(r)
    <2>1. jobs' = Update(q, "in_progress") /\ task[q] = "spawned"
        BY <1>3 DEF TaskStarts
    <2> QED BY <2>1, UpdateChanges
<1>4. ASSUME NEW q \in Requests, TaskEnds(q) PROVE ResultStays(r)
    <2>1. task[q] = "running"
        BY <1>4 DEF TaskEnds
    <2>2. PICK s \in {"completed", "failed"} : jobs' = Update(q, s)
        BY <1>4 DEF TaskEnds
    <2> QED BY <2>1, <2>2, UpdateChanges
<1>5. ASSUME NEW q \in Requests, Cancel(q) PROVE ResultStays(r)
    BY <1>5 DEF Cancel, Cancellable
<1>6. CASE Evict
    BY <1>6 DEF Evict, Retained
<1> QED BY <1>1, <1>2, <1>3, <1>4, <1>5, <1>6 DEF Next, vars, Check, EngineFails, TaskPanics, Tick

(* A result lasts until its job is evicted, and a late task or DELETE      *)
(* brings no job back (JobRegistry::update, cancel).                       *)
THEOREM ResultsStay == Spec => ResultsLast
<1>1. (\A r \in Requests : ResultStays(r)) =>
        [\A r \in Requests :
            /\ r \in DOMAIN jobs /\ jobs[r] \in {"completed", "failed"} =>
                 r \notin DOMAIN jobs' \/ jobs'[r] = jobs[r]
            /\ handler[r] = "accepted" /\ r \notin DOMAIN jobs => r \notin DOMAIN jobs']_vars
    BY DEF ResultStays
<1> QED BY <1>1, Invariance, StepKeepsResults, PTL DEF Spec, ResultsLast
=============================================================================
