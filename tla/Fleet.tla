-------------------------------- MODULE Fleet --------------------------------
(***************************************************************************)
(* The runner fleet of ohoci: webhook intake, admission, launch, the warm  *)
(* pool and cleanup, running concurrently over the jobs, runners and       *)
(* events tables, the OCI instances and GitHub.                            *)
(*                                                                         *)
(* A step of this module is one statement on the database or one call to   *)
(* OCI or GitHub: that is the granularity at which the goroutines of the   *)
(* program interleave, for no lock or transaction spans two of them. Three *)
(* calls share the step of a neighbour that they cannot race with: a write *)
(* of the job's row, whose status nothing here reads back, a read that may *)
(* fail without consequence, and the removal of a GitHub registration.     *)
(***************************************************************************)
EXTENDS Integers, FiniteSets

CONSTANTS
  Jobs,          \* GitHub workflow jobs
  NoJob,         \* job_id = 0
  Policies,      \* enabled policies; each has one repository as its warm target
  NoPolicy,
  PolicyOf,      \* the policy that a job's labels match
  MaxRunners,    \* MaxRunners[q]: max_runners of policy q
  WarmPolicies,  \* the policies with warm capacity for their repository
  Kinds,         \* the workflow_job actions that GitHub delivers
  Conclusions,   \* terminal statuses a completed job maps to
  Handlers,      \* HTTP requests being served at the same time
  Operators,     \* requests to the admin endpoints (cleanup, terminate a runner)
  CleanupLoop,   \* the cleanup ticker
  WarmLoop,      \* the warm pool loop, of which the process starts one
  MaxInstances,  \* bound: OCI instances ever launched, so rows of runners too
  MaxFaults      \* bound: aborted requests or passes, failed inserts, preemptions

Sweepers == Operators \union {CleanupLoop}
Procs    == Handlers \union Sweepers \union {WarmLoop}

ASSUME ConstantAssumption ==
  /\ NoJob \notin Jobs
  /\ NoPolicy \notin Policies
  /\ PolicyOf \in [Jobs -> Policies]
  /\ MaxRunners \in [Policies -> Nat]
  /\ WarmPolicies \subseteq Policies
  /\ Kinds \subseteq {"queued", "in_progress", "completed"}
  /\ "failed" \in Conclusions
  /\ Conclusions \subseteq {"completed", "failed", "cancelled"}
  /\ IsFiniteSet(Handlers) /\ Handlers # {}
  /\ Handlers \intersect Operators = {}
  /\ CleanupLoop \notin Handlers \union Operators
  /\ WarmLoop \notin Handlers \union Sweepers
  /\ MaxInstances \in Nat
  /\ MaxFaults \in Nat

VARIABLES
  runners,       \* table runners, by id; an unused id holds NoRunner
  lastRow,       \* the last id the table has given out
  jobs,          \* column status of table jobs, by GitHub job; "none": no row
  events,        \* table events, by delivery: none, received, processed
  instances,     \* the OCI instances and the runner agent each one hosts
  lastInstance,  \* how many instances OCI has created
  github,        \* the workflow jobs as GitHub sees them
  proc,          \* where each goroutine is, and its local variables
  faults         \* faults injected so far

vars == <<runners, lastRow, jobs, events, instances, lastInstance, github, proc, faults>>

-----------------------------------------------------------------------------
(* Data                                                                     *)

RowIds      == 1..MaxInstances
InstanceIds == 1..MaxInstances
Deliveries  == Jobs \X Kinds

RunnerStatus == {"absent", "launching", "warm_idle", "reserved", "in_progress",
                 "terminating", "terminated"} \union Conclusions
JobStatus    == {"none", "queued", "waiting_warm_attach", "provisioning",
                 "in_progress"} \union Conclusions
WarmState    == {"", "warming", "warm_idle", "reserved", "consumed"}

\* A row of table runners. ghRunner names the GitHub runner by the instance that
\* hosts it; expired is expires_at <= now; terminated is terminated_at IS NOT NULL.
Runner == [policy : Policies \union {NoPolicy}, job : Jobs \union {NoJob},
           instance : 0..MaxInstances, status : RunnerStatus,
           source : {"ondemand", "warm"}, warmState : WarmState,
           ghRunner : 0..MaxInstances, expired : BOOLEAN, terminated : BOOLEAN]

NoRunner == [policy |-> NoPolicy, job |-> NoJob, instance |-> 0, status |-> "absent",
             source |-> "ondemand", warmState |-> "", ghRunner |-> 0,
             expired |-> FALSE, terminated |-> FALSE]

\* An instance, the labels and the job tag it was launched with, and its agent.
Instance == [state : {"none", "RUNNING", "STOPPED", "TERMINATING", "TERMINATED"},
             policy : Policies \union {NoPolicy}, job : Jobs \union {NoJob},
             agent : {"booting", "idle", "busy", "gone"}]

NoInstance == [state |-> "none", policy |-> NoPolicy, job |-> NoJob, agent |-> "booting"]

GitHubJob == [phase : {"queued", "running", "done"},
              instance : 0..MaxInstances, conclusion : {""} \union Conclusions]

\* What a goroutine keeps of a row that it has read.
Snapshot == [row : RowIds, status : RunnerStatus, ghRunner : 0..MaxInstances]

NoSnapshot == [row |-> 0, status |-> "", ghRunner |-> 0]

SnapshotOf(r) == [row |-> r, status |-> runners[r].status, ghRunner |-> runners[r].ghRunner]

Labels == {"idle", "start", "count", "tracked", "reserve_state", "reserve_status",
           "launch", "insert", "consume", "set_status",
           "list", "sweep", "get", "close", "mark", "admin_terminate", "admin_mark",
           "warm_scan", "warm_status", "warm_state", "warm_count"}

Local == [pc : Labels, job : Jobs \union {NoJob}, kind : {""} \union Kinds,
          policy : Policies \union {NoPolicy}, verdict : {"", "blocked", "warm", "launch"},
          cur : Snapshot \union {NoSnapshot}, instance : 0..MaxInstances, todo : SUBSET Snapshot,
          targets : SUBSET Policies]

Idle == [pc |-> "idle", job |-> NoJob, kind |-> "", policy |-> NoPolicy, verdict |-> "",
         cur |-> NoSnapshot, instance |-> 0, todo |-> {}, targets |-> {}]

-----------------------------------------------------------------------------
(* Queries and statements of the store                                      *)

Open(r) == runners[r].status # "absent" /\ ~runners[r].terminated

Active(q) == {r \in RowIds : /\ Open(r)
                             /\ runners[r].policy = q
                             /\ runners[r].status # "terminated"}

WarmIdle(q) == {r \in RowIds : /\ Open(r)
                               /\ runners[r].policy = q
                               /\ runners[r].source = "warm"
                               /\ runners[r].warmState = "warm_idle"}

\* MUTANT: only the idle warm runners of a target.
IdleWarmOnly(q) == {r \in RowIds : /\ Open(r)
                                   /\ runners[r].policy = q
                                   /\ runners[r].warmState = "warm_idle"}

ActiveWarm(q) == {r \in RowIds : /\ Open(r)
                                 /\ runners[r].policy = q
                                 /\ runners[r].source = "warm"}

\* MUTANT: the runners of a job, without the condition on job_id.
RunnersOfAnyJob(j) == {r \in RowIds : runners[r].status # "absent"}

RunnersOf(j) == {r \in RowIds : runners[r].status # "absent" /\ runners[r].job = j}

\* ORDER BY id DESC LIMIT 1
IsLatestRunnerOf(j, r) == r \in RunnersOf(j) /\ \A s \in RunnersOf(j) : s <= r

\* MUTANT: expires_at left out of the query.
ConcludedRunners == {r \in RowIds : Open(r) /\ runners[r].status \in Conclusions}

\* The query also takes the status "stopped", which nothing writes.
CleanupCandidates == {r \in RowIds : /\ Open(r)
                                     /\ \/ runners[r].expired
                                        \/ runners[r].status \in Conclusions}

\* MUTANT: terminated_at = ? without the CASE.
StatusClearsTermination(row, status, gh) ==
  [row EXCEPT !.status = status, !.ghRunner = IF gh > 0 THEN gh ELSE @, !.terminated = FALSE]

\* A status write that carries no termination time keeps the stored one.
WithStatus(row, status, gh) ==
  [row EXCEPT !.status = status, !.ghRunner = IF gh > 0 THEN gh ELSE @]

WithWarmState(row, j, state) ==
  [row EXCEPT !.warmState = state, !.job = IF j # NoJob THEN j ELSE @]

WithTermination(row) == [row EXCEPT !.status = "terminated", !.terminated = TRUE]

UpdateRunnerStatus(r, status, gh) ==
  runners' = [runners EXCEPT ![r] = WithStatus(runners[r], status, gh)]

UpdateRunnerWarmState(r, j, state) ==
  runners' = [runners EXCEPT ![r] = WithWarmState(runners[r], j, state)]

MarkRunnerTerminated(r) ==
  runners' = [runners EXCEPT ![r] = WithTermination(runners[r])]

UpsertJob(j, status) == jobs' = [jobs EXCEPT ![j] = status]

-----------------------------------------------------------------------------
(* GitHub and OCI, as the code uses them                                    *)

\* A delivery can arrive once its event has happened, at any later time, in any
\* order, and again; GitHub never assigns a runner to a job cancelled in the queue.
Emitted(j, k) ==
  CASE k = "queued"      -> TRUE
    [] k = "in_progress" -> github[j].instance # 0
    [] k = "completed"   -> github[j].phase = "done"

Registered(i) == i # 0 /\ instances[i].agent \in {"idle", "busy"}

\* MUTANT: a termination in progress taken for an end.
EndedOrEnding(i) == instances[i].state \in {"TERMINATED", "TERMINATING", "STOPPED", "FAILED"}

\* The states that cleanup takes for the end of an instance.
InstanceEnded(i) == instances[i].state \in {"TERMINATED", "STOPPED", "FAILED"}

\* GitHub refuses to delete the registration of a runner that is busy.
Deregister(insts, i) ==
  IF i # 0 /\ insts[i].agent = "idle" THEN [insts EXCEPT ![i].agent = "gone"] ELSE insts

UnchangedWorld == UNCHANGED <<instances, lastInstance, github>>
UnchangedStore == UNCHANGED <<runners, lastRow, jobs, events>>

\* cloud-init has started the agent: it registers as an ephemeral runner.
AgentRegisters(i) ==
  /\ instances[i].state = "RUNNING" /\ instances[i].agent = "booting"
  /\ instances' = [instances EXCEPT ![i].agent = "idle"]
  /\ UNCHANGED <<lastInstance, github, proc, faults>> /\ UnchangedStore

\* GitHub gives a queued job to any idle runner with its labels, whichever job
\* that runner was launched for.
JobStarts(j, i) ==
  /\ github[j].phase = "queued"
  /\ instances[i].state = "RUNNING" /\ instances[i].agent = "idle"
  /\ instances[i].policy = PolicyOf[j]
  /\ github' = [github EXCEPT ![j].phase = "running", ![j].instance = i]
  /\ instances' = [instances EXCEPT ![i].agent = "busy"]
  /\ UNCHANGED <<lastInstance, proc, faults>> /\ UnchangedStore

\* The job ends, or is cancelled in the queue; an ephemeral agent serves one job.
JobEnds(j, c) ==
  /\ github[j].phase \in {"queued", "running"}
  /\ github' = [github EXCEPT ![j].phase = "done", ![j].conclusion = c]
  /\ instances' = IF github[j].phase = "running"
                    THEN [instances EXCEPT ![github[j].instance].agent = "gone"]
                    ELSE instances
  /\ UNCHANGED <<lastInstance, proc, faults>> /\ UnchangedStore

\* The last line of cloud-init, once the agent has exited or has failed to register.
InstancePowersOff(i) ==
  /\ instances[i].state = "RUNNING" /\ instances[i].agent \in {"booting", "gone"}
  /\ instances' = [instances EXCEPT ![i].state = "STOPPED", ![i].agent = "gone"]
  /\ UNCHANGED <<lastInstance, github, proc, faults>> /\ UnchangedStore

\* The instance disappears, and GitHub fails the job that was running on it.
InstanceGone(i) ==
  /\ instances' = [instances EXCEPT ![i].state = "TERMINATED", ![i].agent = "gone"]
  /\ github' = [j \in Jobs |->
                  IF github[j].phase = "running" /\ github[j].instance = i
                    THEN [github[j] EXCEPT !.phase = "done", !.conclusion = "failed"]
                    ELSE github[j]]
  /\ UNCHANGED <<lastInstance, proc>> /\ UnchangedStore

TerminationCompletes(i) ==
  /\ instances[i].state = "TERMINATING"
  /\ InstanceGone(i)
  /\ UNCHANGED faults

\* OCI reclaims a preemptible (spot) instance.
InstancePreempted(i) ==
  /\ instances[i].state = "RUNNING" /\ faults < MaxFaults
  /\ InstanceGone(i)
  /\ faults' = faults + 1

\* expires_at passes.
RunnerExpires(r) ==
  /\ Open(r) /\ ~runners[r].expired
  /\ runners' = [runners EXCEPT ![r].expired = TRUE]
  /\ UNCHANGED <<lastRow, jobs, events, proc, faults>> /\ UnchangedWorld

-----------------------------------------------------------------------------
(* The webhook handler: intake                                              *)

At(p, label) == proc[p].pc = label

\* p goes on at label, with what else it has learnt in local.
Continue(p, local, label) == proc' = [proc EXCEPT ![p] = [local EXCEPT !.pc = label]]

Stop(p) == proc' = [proc EXCEPT ![p] = Idle]

Delivery(h) == <<proc[h].job, proc[h].kind>>

\* processWorkflowJob has returned nil: the event is marked processed.
Processed(h) == events' = [events EXCEPT ![Delivery(h)] = "processed"]

\* MUTANT: duplicates of a delivery not recognised.
AlwaysNew(d) == TRUE

IsNew(d) == events[d] = "none"

\* The delivery id is unique in table events: a second insert is a duplicate.
Receive(h, j, k) ==
  /\ At(h, "idle") /\ Emitted(j, k)
  /\ IF IsNew(<<j, k>>)
       THEN /\ events' = [events EXCEPT ![<<j, k>>] = "received"]
            /\ Continue(h, [Idle EXCEPT !.job = j, !.kind = k, !.policy = PolicyOf[j]], "start")
       ELSE UNCHANGED <<events, proc>>
  /\ UNCHANGED <<runners, lastRow, jobs, faults>> /\ UnchangedWorld

\* MUTANT: the conclusion passed on as GitHub spells it.
RawConclusion(j, k) == IF k = "completed" THEN "success" ELSE k

PayloadStatus(j, k) == IF k = "completed" THEN github[j].conclusion ELSE k

\* The administrator may have narrowed the repositories at any moment.
RepositoryNotAllowed(h) ==
  /\ At(h, "start")
  /\ UpsertJob(proc[h].job, PayloadStatus(proc[h].job, proc[h].kind))
  /\ Processed(h) /\ Stop(h)
  /\ UNCHANGED <<runners, lastRow, faults>> /\ UnchangedWorld

-----------------------------------------------------------------------------
(* The webhook handler: a queued job                                        *)

\* Setup incomplete, no route, no matching policy, or the budget cap reached.
AdmissionBlocks(h) ==
  /\ At(h, "start") /\ proc[h].kind = "queued"
  /\ Continue(h, [proc[h] EXCEPT !.verdict = "blocked"], "tracked")
  /\ UNCHANGED faults /\ UnchangedStore /\ UnchangedWorld

FindWarmIdleRunner(h) ==
  /\ At(h, "start") /\ proc[h].kind = "queued" /\ proc[h].policy \in WarmPolicies
  /\ LET found == WarmIdle(proc[h].policy)
     IN  \/ found = {} /\ Continue(h, proc[h], "count")
         \/ \E r \in found : Continue(h, [proc[h] EXCEPT !.cur = SnapshotOf(r)], "count")
  /\ UNCHANGED faults /\ UnchangedStore /\ UnchangedWorld

\* MUTANT: > for >=.
VerdictOffByOne(n, max, reusable) ==
  LET effective == IF reusable /\ n > 0 THEN n - 1 ELSE n
  IN  IF effective > max THEN "blocked" ELSE IF reusable THEN "warm" ELSE "launch"

\* A reusable warm runner already counts in the policy's capacity.
Verdict(n, max, reusable) ==
  LET effective == IF reusable /\ n > 0 THEN n - 1 ELSE n
  IN  IF effective >= max THEN "blocked" ELSE IF reusable THEN "warm" ELSE "launch"

CountActiveRunners(h) ==
  /\ \/ At(h, "count")
     \/ At(h, "start") /\ proc[h].kind = "queued" /\ proc[h].policy \notin WarmPolicies
  /\ LET q == proc[h].policy
     IN  Continue(h, [proc[h] EXCEPT !.verdict = Verdict(Cardinality(Active(q)), MaxRunners[q],
                                                         proc[h].cur.row # 0)], "tracked")
  /\ UNCHANGED faults /\ UnchangedStore /\ UnchangedWorld

HasLiveRunner(j) ==
  \E r \in RowIds : IsLatestRunnerOf(j, r) /\ Open(r) /\ runners[r].status # "terminated"

JobStatusFor(verdict) ==
  CASE verdict = "blocked" -> "queued"
    [] verdict = "warm"    -> "waiting_warm_attach"
    [] verdict = "launch"  -> "provisioning"

\* The job is recorded whatever comes of it, and goes no further if it is blocked
\* or already has a runner.
RecordQueuedJob(h) ==
  /\ At(h, "tracked")
  /\ UpsertJob(proc[h].job, JobStatusFor(proc[h].verdict))
  /\ IF HasLiveRunner(proc[h].job) \/ proc[h].verdict = "blocked"
       THEN Processed(h) /\ Stop(h)
       ELSE /\ Continue(h, proc[h], IF proc[h].verdict = "warm" THEN "reserve_state" ELSE "launch")
            /\ UNCHANGED events
  /\ UNCHANGED <<runners, lastRow, faults>> /\ UnchangedWorld

ReserveState(h) ==
  /\ At(h, "reserve_state")
  /\ UpdateRunnerWarmState(proc[h].cur.row, proc[h].job, "reserved")
  /\ Continue(h, proc[h], "reserve_status")
  /\ UNCHANGED <<lastRow, jobs, events, faults>> /\ UnchangedWorld

ReserveStatus(h) ==
  /\ At(h, "reserve_status")
  /\ UpdateRunnerStatus(proc[h].cur.row, "reserved", proc[h].cur.ghRunner)
  /\ Processed(h) /\ Stop(h)
  /\ UNCHANGED <<lastRow, jobs, faults>> /\ UnchangedWorld

-----------------------------------------------------------------------------
(* Launch: for a queued job, or for a warm target                           *)

LaunchInstance(p) ==
  /\ At(p, "launch") /\ lastInstance < MaxInstances
  /\ LET i == lastInstance + 1
     IN  /\ lastInstance' = i
         /\ instances' = [instances EXCEPT ![i] =
                            [state |-> "RUNNING", policy |-> proc[p].policy,
                             job |-> proc[p].job, agent |-> "booting"]]
         /\ Continue(p, [proc[p] EXCEPT !.instance = i], "insert")
  /\ UNCHANGED <<github, faults>> /\ UnchangedStore

NewRunner(p) ==
  [NoRunner EXCEPT !.policy = proc[p].policy, !.job = proc[p].job, !.instance = proc[p].instance,
                   !.status = "launching",
                   !.source = IF p = WarmLoop THEN "warm" ELSE "ondemand",
                   !.warmState = IF p = WarmLoop THEN "warming" ELSE ""]

\* The warm pool loop goes on to its next target, if any.
NextTarget(local) ==
  IF local.targets = {}
    THEN Stop(WarmLoop)
    ELSE Continue(WarmLoop, [local EXCEPT !.instance = 0, !.policy = NoPolicy], "warm_scan")

\* After a launch that succeeded the handler is done; the loop tries the next target.
CreateRunner(p) ==
  /\ At(p, "insert") /\ lastRow < MaxInstances
  /\ lastRow' = lastRow + 1
  /\ runners' = [runners EXCEPT ![lastRow + 1] = NewRunner(p)]
  /\ IF p = WarmLoop
       THEN NextTarget(proc[p]) /\ UNCHANGED events
       ELSE Processed(p) /\ Stop(p)
  /\ UNCHANGED <<jobs, faults>> /\ UnchangedWorld

\* MUTANT: the failure of a launch not recorded on the job.
SilentLaunchError(p) ==
  /\ IF p = WarmLoop THEN NextTarget(proc[p]) ELSE Stop(p)
  /\ UNCHANGED <<runners, lastRow, jobs, events>> /\ UnchangedWorld

\* Launch returned an error: the job fails and its event stays unprocessed; the
\* loop goes on to the next target.
LaunchError(p) ==
  /\ IF p = WarmLoop
       THEN NextTarget(proc[p]) /\ UNCHANGED jobs
       ELSE UpsertJob(proc[p].job, "failed") /\ Stop(p)
  /\ UNCHANGED <<runners, lastRow, events>> /\ UnchangedWorld

\* MUTANT: the work that can fail done once the instance exists.
LaunchFailsLate(p) == (At(p, "launch") \/ At(p, "insert")) /\ LaunchError(p) /\ UNCHANGED faults

\* No runtime settings, shape, registration token or capacity: nothing is launched.
LaunchFails(p) == At(p, "launch") /\ LaunchError(p) /\ UNCHANGED faults

\* The instance exists and its row cannot be written.
CreateRunnerFails(p) ==
  /\ At(p, "insert") /\ faults < MaxFaults
  /\ LaunchError(p)
  /\ faults' = faults + 1

-----------------------------------------------------------------------------
(* The webhook handler: a job that is in progress or completed              *)

\* The runner named by the payload, else the one on record, else the one that
\* GitHub lists under the runner's name, if the lookup finds it.
ResolveRunnerID(j, r) ==
  CASE github[j].instance # 0    -> {github[j].instance}
    [] runners[r].ghRunner # 0   -> {runners[r].ghRunner}
    [] OTHER                     -> {0} \union {i \in {runners[r].instance} : Registered(i)}

RecordJobProgress(h) ==
  /\ At(h, "start") /\ proc[h].kind # "queued"
  /\ UpsertJob(proc[h].job, PayloadStatus(proc[h].job, proc[h].kind))
  /\ \/ /\ RunnersOf(proc[h].job) = {}
        /\ Processed(h) /\ Stop(h)
     \/ /\ \E r \in RowIds :
             /\ IsLatestRunnerOf(proc[h].job, r)
             /\ \E gh \in ResolveRunnerID(proc[h].job, r) :
                  Continue(h, [proc[h] EXCEPT !.cur = [SnapshotOf(r) EXCEPT !.ghRunner = gh]],
                           IF proc[h].kind = "in_progress" /\ runners[r].source = "warm"
                             THEN "consume" ELSE "set_status")
        /\ UNCHANGED events
  /\ UNCHANGED <<runners, lastRow, faults>> /\ UnchangedWorld

ConsumeWarm(h) ==
  /\ At(h, "consume")
  /\ UpdateRunnerWarmState(proc[h].cur.row, proc[h].job, "consumed")
  /\ Continue(h, proc[h], "set_status")
  /\ UNCHANGED <<lastRow, jobs, events, faults>> /\ UnchangedWorld

\* A terminal status runs a cleanup pass within the request.
SyncRunnerStatus(h) ==
  /\ At(h, "set_status")
  /\ UpdateRunnerStatus(proc[h].cur.row, PayloadStatus(proc[h].job, proc[h].kind),
                        proc[h].cur.ghRunner)
  /\ IF proc[h].kind = "completed"
       THEN Continue(h, [proc[h] EXCEPT !.cur = NoSnapshot], "list") /\ UNCHANGED events
       ELSE Processed(h) /\ Stop(h)
  /\ UNCHANGED <<lastRow, jobs, faults>> /\ UnchangedWorld

-----------------------------------------------------------------------------
(* Cleanup: the ticker, the admin endpoint, and handlers of completed jobs  *)

\* A pass with no candidate changes nothing.
ListCleanupCandidates(p) ==
  /\ \/ At(p, "list")
     \/ p \in Sweepers /\ At(p, "idle") /\ CleanupCandidates # {}
  /\ Continue(p, [proc[p] EXCEPT !.todo = {SnapshotOf(r) : r \in CleanupCandidates}], "sweep")
  /\ UNCHANGED faults /\ UnchangedStore /\ UnchangedWorld

\* A runner id that GitHub gives for the runner's name is saved, with the status
\* that the list read. The order of the list (updated_at) is left open.
TakeCandidate(p) ==
  /\ At(p, "sweep")
  /\ \E s \in proc[p].todo :
       LET own    == runners[s.row].instance
           lookup == IF s.ghRunner = 0 /\ Registered(own) THEN {0, own} ELSE {0}
       IN  \E gh \in lookup :
             /\ IF gh # 0 THEN UpdateRunnerStatus(s.row, s.status, gh) ELSE UNCHANGED runners
             /\ Continue(p, [proc[p] EXCEPT
                               !.todo = @ \ {s},
                               !.cur = [s EXCEPT !.ghRunner = IF gh # 0 THEN gh ELSE @]], "get")
  /\ UNCHANGED <<lastRow, jobs, events, faults>> /\ UnchangedWorld

FindInstanceEnded(p) ==
  /\ At(p, "get") /\ InstanceEnded(runners[proc[p].cur.row].instance)
  /\ Continue(p, proc[p], "close")
  /\ UNCHANGED faults /\ UnchangedStore /\ UnchangedWorld

\* An error of DeleteRepoRunner is logged and passed over.
DeleteRepoRunner(i) == instances' \in {instances, Deregister(instances, i)}

NextCandidate(p) == Continue(p, [proc[p] EXCEPT !.cur = NoSnapshot], "sweep")

CloseRunner(p) ==
  /\ At(p, "close")
  /\ DeleteRepoRunner(proc[p].cur.ghRunner)
  /\ MarkRunnerTerminated(proc[p].cur.row)
  /\ NextCandidate(p)
  /\ UNCHANGED <<lastRow, jobs, events, lastInstance, github, faults>>

\* OCI answers a second request either way, and the state does not go back.
RequestTermination(i) ==
  instances' = [instances EXCEPT ![i].state =
                  IF @ \in {"RUNNING", "STOPPED"} THEN "TERMINATING" ELSE @]

\* GetInstance has shown a live instance or has failed: the request is the same.
TerminateRunner(p) ==
  /\ At(p, "get")
  /\ RequestTermination(runners[proc[p].cur.row].instance)
  /\ Continue(p, proc[p], "mark")
  /\ UNCHANGED <<lastInstance, github, faults>> /\ UnchangedStore

TerminateFails(p) ==
  /\ At(p, "get")
  /\ NextCandidate(p)
  /\ UNCHANGED faults /\ UnchangedStore /\ UnchangedWorld

MarkTerminating(p) ==
  /\ At(p, "mark")
  /\ IF proc[p].cur.status \in Conclusions
       THEN UNCHANGED runners
       ELSE UpdateRunnerStatus(proc[p].cur.row, "terminating", proc[p].cur.ghRunner)
  /\ DeleteRepoRunner(proc[p].cur.ghRunner)
  /\ NextCandidate(p)
  /\ UNCHANGED <<lastRow, jobs, events, lastInstance, github, faults>>

\* The pass ignores an error of its write and goes on to the next candidate.
RowWriteFails(p) ==
  /\ At(p, "close") \/ At(p, "mark")
  /\ faults < MaxFaults
  /\ DeleteRepoRunner(proc[p].cur.ghRunner)
  /\ NextCandidate(p)
  /\ faults' = faults + 1
  /\ UNCHANGED <<lastInstance, github>> /\ UnchangedStore

EndSweep(p) ==
  /\ At(p, "sweep") /\ proc[p].todo = {}
  /\ IF p \in Handlers THEN Processed(p) ELSE UNCHANGED events
  /\ Stop(p)
  /\ UNCHANGED <<runners, lastRow, jobs, faults>> /\ UnchangedWorld

\* The GitHub App of a candidate cannot be read: the pass ends, with the error
\* logged, and the request that ran it goes on.
SweepFails(p) ==
  /\ At(p, "sweep") /\ proc[p].todo # {} /\ faults < MaxFaults
  /\ IF p \in Handlers THEN Processed(p) ELSE UNCHANGED events
  /\ Stop(p)
  /\ faults' = faults + 1
  /\ UNCHANGED <<runners, lastRow, jobs>> /\ UnchangedWorld

\* POST /api/v1/runners/{id}/terminate
AdminTerminate(p, r) ==
  /\ p \in Operators /\ At(p, "idle") /\ runners[r].status # "absent"
  /\ Continue(p, [Idle EXCEPT !.cur = SnapshotOf(r)], "admin_terminate")
  /\ UNCHANGED faults /\ UnchangedStore /\ UnchangedWorld

AdminTerminateInstance(p) ==
  /\ At(p, "admin_terminate")
  /\ \/ /\ RequestTermination(runners[proc[p].cur.row].instance)
        /\ Continue(p, proc[p], "admin_mark")
     \/ Stop(p) /\ UNCHANGED instances
  /\ UNCHANGED <<lastInstance, github, faults>> /\ UnchangedStore

AdminMark(p) ==
  /\ At(p, "admin_mark")
  /\ UpdateRunnerStatus(proc[p].cur.row, "terminating", proc[p].cur.ghRunner)
  /\ Stop(p)
  /\ UNCHANGED <<lastRow, jobs, events, faults>> /\ UnchangedWorld

-----------------------------------------------------------------------------
(* The warm pool loop                                                       *)

\* MUTANT: reserved and consumed runners probed like warming ones.
NotYetIdle == {r \in RowIds : /\ Open(r)
                              /\ runners[r].source = "warm"
                              /\ runners[r].warmState # "warm_idle"}

\* Runners that are neither idle, reserved nor consumed yet.
Warming == {r \in RowIds : /\ Open(r)
                           /\ runners[r].source = "warm"
                           /\ runners[r].warmState \notin {"warm_idle", "reserved", "consumed"}}

ListWarming ==
  /\ At(WarmLoop, "idle") /\ WarmPolicies # {}
  /\ Continue(WarmLoop, [Idle EXCEPT !.todo = {SnapshotOf(r) : r \in Warming},
                                     !.targets = WarmPolicies], "warm_scan")
  /\ UNCHANGED faults /\ UnchangedStore /\ UnchangedWorld

\* Is the runner registered in GitHub and free? A failed lookup counts as no.
ProbeWarming ==
  /\ At(WarmLoop, "warm_scan")
  /\ \E s \in proc[WarmLoop].todo :
       LET own  == runners[s.row].instance
           rest == [proc[WarmLoop] EXCEPT !.todo = @ \ {s}]
       IN  \/ Continue(WarmLoop, rest, "warm_scan")
           \/ /\ instances[own].agent = "idle"
              /\ Continue(WarmLoop, [rest EXCEPT !.cur = [s EXCEPT !.ghRunner = own]],
                          "warm_status")
  /\ UNCHANGED faults /\ UnchangedStore /\ UnchangedWorld

SetWarmStatus ==
  /\ At(WarmLoop, "warm_status")
  /\ UpdateRunnerStatus(proc[WarmLoop].cur.row, "warm_idle", proc[WarmLoop].cur.ghRunner)
  /\ Continue(WarmLoop, proc[WarmLoop], "warm_state")
  /\ UNCHANGED <<lastRow, jobs, events, faults>> /\ UnchangedWorld

SetWarmIdle ==
  /\ At(WarmLoop, "warm_state")
  /\ UpdateRunnerWarmState(proc[WarmLoop].cur.row, NoJob, "warm_idle")
  /\ Continue(WarmLoop, [proc[WarmLoop] EXCEPT !.cur = NoSnapshot], "warm_scan")
  /\ UNCHANGED <<lastRow, jobs, events, faults>> /\ UnchangedWorld

\* A target with an active warm runner of any state is left alone.
FindActiveWarmRunner ==
  /\ At(WarmLoop, "warm_scan") /\ proc[WarmLoop].todo = {}
  /\ \E q \in proc[WarmLoop].targets :
       LET rest == [proc[WarmLoop] EXCEPT !.targets = @ \ {q}, !.policy = q]
       IN  IF ActiveWarm(q) # {} THEN NextTarget(rest) ELSE Continue(WarmLoop, rest, "warm_count")
  /\ UNCHANGED faults /\ UnchangedStore /\ UnchangedWorld

CountForWarmTarget ==
  /\ At(WarmLoop, "warm_count")
  /\ LET q == proc[WarmLoop].policy
     IN  IF Verdict(Cardinality(Active(q)), MaxRunners[q], FALSE) = "blocked"
           THEN NextTarget(proc[WarmLoop])
           ELSE Continue(WarmLoop, proc[WarmLoop], "launch")
  /\ UNCHANGED faults /\ UnchangedStore /\ UnchangedWorld

-----------------------------------------------------------------------------

\* A statement or call of p fails, the client has gone and its context is
\* cancelled, or the process stops: p ends where it is. A crash is an Abort of
\* every goroutine, for nothing else lives in memory.
Abort(p) ==
  /\ ~At(p, "idle") /\ faults < MaxFaults
  /\ Stop(p)
  /\ faults' = faults + 1
  /\ UnchangedStore /\ UnchangedWorld

Init ==
  /\ runners = [r \in RowIds |-> NoRunner] /\ lastRow = 0
  /\ jobs = [j \in Jobs |-> "none"]
  /\ events = [d \in Deliveries |-> "none"]
  /\ instances = [i \in InstanceIds |-> NoInstance] /\ lastInstance = 0
  /\ github = [j \in Jobs |-> [phase |-> "queued", instance |-> 0, conclusion |-> ""]]
  /\ proc = [p \in Procs |-> Idle]
  /\ faults = 0

World ==
  \/ \E j \in Jobs : (\E i \in InstanceIds : JobStarts(j, i))
                  \/ (\E c \in Conclusions : JobEnds(j, c))
  \/ \E i \in InstanceIds : AgentRegisters(i) \/ InstancePowersOff(i)
                            \/ TerminationCompletes(i) \/ InstancePreempted(i)
  \/ \E r \in RowIds : RunnerExpires(r)

Webhook(h) ==
  \/ \E j \in Jobs, k \in Kinds : Receive(h, j, k)
  \/ RepositoryNotAllowed(h) \/ AdmissionBlocks(h) \/ FindWarmIdleRunner(h)
  \/ CountActiveRunners(h) \/ RecordQueuedJob(h)
  \/ ReserveState(h) \/ ReserveStatus(h)
  \/ RecordJobProgress(h) \/ ConsumeWarm(h) \/ SyncRunnerStatus(h)

Launch(p) ==
  LaunchInstance(p) \/ LaunchFails(p) \/ CreateRunner(p) \/ CreateRunnerFails(p)

Cleanup(p) ==
  \/ ListCleanupCandidates(p) \/ TakeCandidate(p) \/ FindInstanceEnded(p)
  \/ CloseRunner(p) \/ TerminateRunner(p) \/ TerminateFails(p) \/ MarkTerminating(p)
  \/ RowWriteFails(p) \/ EndSweep(p) \/ SweepFails(p)

Admin(p) ==
  (\E r \in RowIds : AdminTerminate(p, r)) \/ AdminTerminateInstance(p) \/ AdminMark(p)

WarmPool ==
  \/ ListWarming \/ ProbeWarming \/ SetWarmStatus \/ SetWarmIdle
  \/ FindActiveWarmRunner \/ CountForWarmTarget

Next ==
  \/ World
  \/ \E h \in Handlers : Webhook(h)
  \/ \E p \in Handlers \union {WarmLoop} : Launch(p)
  \/ \E p \in Handlers \union Sweepers : Cleanup(p)
  \/ \E p \in Operators : Admin(p)
  \/ WarmPool
  \/ \E p \in Procs : Abort(p)

Spec == Init /\ [][Next]_vars

\* What each variable may hold.
TypeOK ==
  /\ runners \in [RowIds -> Runner] /\ lastRow \in 0..MaxInstances
  /\ jobs \in [Jobs -> JobStatus]
  /\ events \in [Deliveries -> {"none", "received", "processed"}]
  /\ instances \in [InstanceIds -> Instance] /\ lastInstance \in 0..MaxInstances
  /\ github \in [Jobs -> GitHubJob]
  /\ proc \in [Procs -> Local]
  /\ faults \in 0..MaxFaults
=============================================================================
