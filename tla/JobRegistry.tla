----------------------------- MODULE JobRegistry -----------------------------
(***************************************************************************)
(* The jobs of the REST API: JobRegistry (api/jobs.rs) and the handlers    *)
(* that create, run and cancel them (api/handlers.rs).                     *)
(*                                                                         *)
(* A request is known by the id its job will get.  Its handler does not    *)
(* wait between the count of the active jobs and the creation of its own,  *)
(* so at most Threads handlers, one per thread of the runtime, are there   *)
(* at a time.  Each operation on the registry's map is one step.           *)
(***************************************************************************)
EXTENDS Naturals, FiniteSets

CONSTANTS Requests,
          Ceiling,     \* max_concurrent_jobs
          Threads,     \* worker threads of the runtime
          MaxAge       \* DEFAULT_JOB_MAX_AGE, in eviction rounds

ASSUME RegistryAssumption == Ceiling \in Nat /\ Threads \in Nat \ {0} /\ MaxAge \in Nat

VARIABLES
    handler,   \* [Requests -> where the POST is]
    jobs,      \* the registry: the ids it has, and their state
    age,       \* [Requests -> the time since created_at, at most MaxAge]
    task       \* [Requests -> the task that runs the job]

vars == <<handler, jobs, age, task>>

States == {"pending", "in_progress", "completed", "failed", "cancelled"}
Live == {"pending", "in_progress"}

Init ==
    /\ handler = [r \in Requests |-> "none"]
    /\ jobs = [r \in {} |-> "pending"]
    /\ age = [r \in Requests |-> 0]
    /\ task = [r \in Requests |-> "none"]

-----------------------------------------------------------------------------
(* JobRegistry *)

(* active_count *)
Active == {r \in DOMAIN jobs : jobs[r] \in Live}

(* Wrong: an update creates the entry it does not find. *)
Upsert(r, s) == [q \in DOMAIN jobs \cup {r} |-> IF q = r THEN s ELSE jobs[q]]
(* update: the state, if the job is still there *)
Update(r, s) == IF r \in DOMAIN jobs THEN [jobs EXCEPT ![r] = s] ELSE jobs

(* Wrong: eviction spares the jobs that count as active. *)
EvictFinal == {r \in DOMAIN jobs : jobs[r] \in Live \/ age[r] < MaxAge}
(* evict_expired: what is retained *)
Retained == {r \in DOMAIN jobs : age[r] < MaxAge}

(* Wrong: any job can be cancelled. *)
CancelAny(r) == r \in DOMAIN jobs
(* cancel: the job is there and not over *)
Cancellable(r) == r \in DOMAIN jobs /\ jobs[r] \in Live

-----------------------------------------------------------------------------
(* ensure_job_capacity, by crawl_handler or batch_scrape_handler *)
Check(r) ==
    /\ handler[r] = "none"
    /\ Cardinality({q \in Requests : handler[q] = "admitted"}) < Threads
    /\ handler' = [handler EXCEPT ![r] =
                     IF Cardinality(Active) >= Ceiling THEN "rejected" ELSE "admitted"]
    /\ UNCHANGED <<jobs, age, task>>

(* Wrong: the task is spawned before its job is in the registry. *)
SpawnThenCreate(r) ==
    /\ handler[r] = "admitted"
    /\ \/ task[r] = "none" /\ task' = [task EXCEPT ![r] = "spawned"] /\ UNCHANGED <<handler, jobs>>
       \/ /\ task[r] # "none" /\ handler' = [handler EXCEPT ![r] = "accepted"]
          /\ jobs' = [q \in DOMAIN jobs \cup {r} |-> IF q = r THEN "pending" ELSE jobs[q]]
          /\ UNCHANGED task
    /\ UNCHANGED age
(* create_job, then spawn_crawl_job or spawn_batch_scrape_job *)
Create(r) ==
    /\ handler[r] = "admitted"
    /\ handler' = [handler EXCEPT ![r] = "accepted"]
    /\ jobs' = [q \in DOMAIN jobs \cup {r} |-> IF q = r THEN "pending" ELSE jobs[q]]
    /\ task' = [task EXCEPT ![r] = "spawned"]
    /\ UNCHANGED age

(* request_engine fails: batch_scrape_handler makes its engine once it is  *)
(* through the check, crawl_handler before.                                *)
EngineFails(r) ==
    /\ handler[r] = "admitted"
    /\ handler' = [handler EXCEPT ![r] = "rejected"]
    /\ UNCHANGED <<jobs, age, task>>

(* The task is polled first: it says so, whatever became of the job. *)
TaskStarts(r) ==
    /\ task[r] = "spawned"
    /\ task' = [task EXCEPT ![r] = "running"]
    /\ jobs' = Update(r, "in_progress")
    /\ UNCHANGED <<handler, age>>

(* The crawl or the batch returns; a batch has no error of its own. *)
TaskEnds(r) ==
    /\ task[r] = "running"
    /\ task' = [task EXCEPT ![r] = "ended"]
    /\ \E s \in {"completed", "failed"} : jobs' = Update(r, s)
    /\ UNCHANGED <<handler, age>>

(* The crawl panics: nobody looks at the task's handle. *)
TaskPanics(r) ==
    /\ task[r] = "running"
    /\ task' = [task EXCEPT ![r] = "panicked"]
    /\ UNCHANGED <<handler, jobs, age>>

(* DELETE: the entry changes, the task goes on. *)
Cancel(r) ==
    /\ Cancellable(r)
    /\ jobs' = [jobs EXCEPT ![r] = "cancelled"]
    /\ UNCHANGED <<handler, age, task>>

(* A round of the eviction task, and the time between two of them *)
Evict ==
    /\ Retained # DOMAIN jobs
    /\ jobs' = [r \in Retained |-> jobs[r]]
    /\ UNCHANGED <<handler, age, task>>
Tick ==
    /\ \E r \in DOMAIN jobs : age[r] < MaxAge
    /\ age' = [r \in Requests |-> IF r \in DOMAIN jobs /\ age[r] < MaxAge THEN age[r] + 1 ELSE age[r]]
    /\ UNCHANGED <<handler, jobs, task>>

Next ==
    \/ \E r \in Requests :
         Check(r) \/ EngineFails(r) \/ Create(r) \/ TaskStarts(r)
         \/ TaskEnds(r) \/ TaskPanics(r) \/ Cancel(r)
    \/ Evict \/ Tick

Spec == Init /\ [][Next]_vars
(* Time passes and the eviction task runs; a crawl need not end. *)
FairSpec == Spec /\ WF_vars(Tick) /\ WF_vars(Evict)

-----------------------------------------------------------------------------
(* Types, and that the registry and the tasks agree: a job that counts as  *)
(* active has a task that has not ended by itself, a job that is over by   *)
(* itself has one that has, and one that nobody started is pending at best.*)
TypeOK ==
    /\ handler \in [Requests -> {"none", "rejected", "admitted", "accepted"}]
    /\ DOMAIN jobs \subseteq Requests /\ \A r \in DOMAIN jobs : jobs[r] \in States
    /\ age \in [Requests -> 0 .. MaxAge]
    /\ task \in [Requests -> {"none", "spawned", "running", "ended", "panicked"}]
    /\ \A r \in DOMAIN jobs :
         /\ jobs[r] = "pending" => task[r] = "spawned"
         /\ jobs[r] = "in_progress" => task[r] \in {"running", "panicked"}
         /\ jobs[r] \in {"completed", "failed"} => task[r] = "ended"

(* The result of a job stays as it is until it is evicted, whenever a      *)
(* DELETE for it arrives, and a task that ends late brings no job back.    *)
ResultsLast ==
    [][\A r \in Requests :
        /\ r \in DOMAIN jobs /\ jobs[r] \in {"completed", "failed"} =>
             r \notin DOMAIN jobs' \/ jobs'[r] = jobs[r]
        /\ handler[r] = "accepted" /\ r \notin DOMAIN jobs => r \notin DOMAIN jobs']_vars

(* No job counts against the ceiling for ever: not one whose crawl panics, *)
(* hangs, or is cancelled and then marked as running again.                *)
CapacityReturns == \A r \in Requests : r \in Active ~> r \notin Active

(* What the registry says of active_count (api/jobs.rs): a hard ceiling on *)
(* concurrently running jobs.                                              *)
HardCeiling == Cardinality({r \in Requests : task[r] \in {"spawned", "running"}}) <= Ceiling
=============================================================================
