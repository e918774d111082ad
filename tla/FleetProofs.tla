----------------------------- MODULE FleetProofs -----------------------------
(***************************************************************************)
(* Proofs about module Fleet, for any numbers of jobs, policies, handlers, *)
(* operators, instances and faults.                                        *)
(***************************************************************************)
EXTENDS FleetProperties, FiniteSetTheorems, TLAPS

-----------------------------------------------------------------------------
(* The inductive invariant                                                  *)

\* What a goroutine at label has learnt by then.
Fits(local, label) ==
  /\ label \in {"start", "consume", "set_status"} => local.job \in Jobs /\ local.kind \in Kinds
  /\ label \in {"consume", "set_status"} => local.kind # "queued"
  /\ label = "tracked" => local.verdict # ""
  /\ local.kind = "completed" => local.job \in Jobs /\ github[local.job].phase = "done"

LocalOK(p) == Fits(proc[p], proc[p].pc)

ConclusionOK == \A j \in Jobs : github[j].phase = "done" => github[j].conclusion \in Conclusions

IInv == TypeOK /\ ConclusionOK /\ \A p \in Procs : LocalOK(p)

\* The null values are values of their types.
LEMMA EmptyValues ==
  /\ NoRunner \in Runner /\ NoInstance \in Instance
  /\ NoSnapshot \notin Snapshot /\ Idle \in Local
<1>1. 0 \in 0..MaxInstances
  BY ConstantAssumption
<1>2. NoRunner \in Runner
  BY <1>1 DEF NoRunner, Runner, RunnerStatus, WarmState
<1>3. NoInstance \in Instance
  BY DEF NoInstance, Instance
<1>4. NoSnapshot \notin Snapshot
  BY DEF NoSnapshot, Snapshot, RowIds
<1>5. Idle \in Local
  BY <1>1 DEF Idle, Local, Labels, Snapshot
<1> QED
  BY <1>2, <1>3, <1>4, <1>5

\* The invariant holds in the initial states.
LEMMA InitInvariant == Init => IInv
<1> SUFFICES ASSUME Init PROVE IInv
  OBVIOUS
<1>1. TypeOK
  <2>1. 0 \in 0..MaxInstances /\ 0 \in 0..MaxFaults
    BY ConstantAssumption
  <2>2. github \in [Jobs -> GitHubJob]
    BY <2>1 DEF Init, GitHubJob
  <2>3. jobs \in [Jobs -> JobStatus] /\ events \in [Deliveries -> {"none", "received", "processed"}]
    BY DEF Init, JobStatus
  <2> QED
    BY <2>1, <2>2, <2>3, EmptyValues DEF Init, TypeOK
<1>2. ConclusionOK
  BY DEF Init, ConclusionOK
<1>3. \A p \in Procs : LocalOK(p)
  BY DEF Init, Idle, LocalOK, Fits
<1> QED
  BY <1>1, <1>2, <1>3 DEF IInv

(* What the statements of the store and the moves of a goroutine preserve.  *)

\* The three ways of writing a row of table runners yield a row.
LEMMA RowWrites ==
  ASSUME NEW row \in Runner
  PROVE  /\ \A status \in RunnerStatus, gh \in 0..MaxInstances : WithStatus(row, status, gh) \in Runner
         /\ \A j \in Jobs \union {NoJob}, state \in WarmState : WithWarmState(row, j, state) \in Runner
         /\ WithTermination(row) \in Runner
<1>1. ASSUME NEW status \in RunnerStatus, NEW gh \in 0..MaxInstances
      PROVE  WithStatus(row, status, gh) \in Runner
  <2>1. (IF gh > 0 THEN gh ELSE row.ghRunner) \in 0..MaxInstances
    BY DEF Runner
  <2> QED
    BY <2>1 DEF Runner, WithStatus
<1>2. ASSUME NEW j \in Jobs \union {NoJob}, NEW state \in WarmState
      PROVE  WithWarmState(row, j, state) \in Runner
  <2>1. (IF j # NoJob THEN j ELSE row.job) \in Jobs \union {NoJob}
    BY DEF Runner
  <2> QED
    BY <2>1 DEF Runner, WithWarmState
<1>3. WithTermination(row) \in Runner
  BY DEF Runner, WithTermination, RunnerStatus
<1> QED
  BY <1>1, <1>2, <1>3

\* Writing a row into table runners keeps the table well typed.
LEMMA RunnerWrite ==
  ASSUME IInv, NEW r, NEW row, r \in RowIds => row \in Runner,
         runners' = [runners EXCEPT ![r] = row]
  PROVE  runners' \in [RowIds -> Runner]
  BY DEF IInv, TypeOK

\* UpdateRunnerStatus keeps table runners well typed.
LEMMA StatusWrite ==
  ASSUME IInv, NEW r, NEW status \in RunnerStatus, NEW gh \in 0..MaxInstances,
         UpdateRunnerStatus(r, status, gh)
  PROVE  runners' \in [RowIds -> Runner]
<1>1. r \in RowIds => WithStatus(runners[r], status, gh) \in Runner
  BY RowWrites DEF IInv, TypeOK
<1> QED
  BY <1>1, RunnerWrite DEF UpdateRunnerStatus

\* UpdateRunnerWarmState keeps table runners well typed.
LEMMA WarmStateWrite ==
  ASSUME IInv, NEW r, NEW j \in Jobs \union {NoJob}, NEW state \in WarmState,
         UpdateRunnerWarmState(r, j, state)
  PROVE  runners' \in [RowIds -> Runner]
<1>1. r \in RowIds => WithWarmState(runners[r], j, state) \in Runner
  BY RowWrites DEF IInv, TypeOK
<1> QED
  BY <1>1, RunnerWrite DEF UpdateRunnerWarmState

\* MarkRunnerTerminated keeps table runners well typed.
LEMMA TerminationWrite ==
  ASSUME IInv, NEW r, MarkRunnerTerminated(r)
  PROVE  runners' \in [RowIds -> Runner]
<1>1. r \in RowIds => WithTermination(runners[r]) \in Runner
  BY RowWrites DEF IInv, TypeOK
<1> QED
  BY <1>1, RunnerWrite DEF MarkRunnerTerminated

\* UpsertJob keeps table jobs well typed.
LEMMA JobWrite ==
  ASSUME IInv, NEW j, NEW status \in JobStatus, UpsertJob(j, status)
  PROVE  jobs' \in [Jobs -> JobStatus]
  BY DEF IInv, TypeOK, UpsertJob

\* MarkEventProcessed keeps table events well typed.
LEMMA EventWrite ==
  ASSUME IInv, NEW h, Processed(h)
  PROVE  events' \in [Deliveries -> {"none", "received", "processed"}]
  BY DEF IInv, TypeOK, Processed

StoreOK ==
  /\ runners \in [RowIds -> Runner] /\ lastRow \in 0..MaxInstances
  /\ jobs \in [Jobs -> JobStatus]
  /\ events \in [Deliveries -> {"none", "received", "processed"}]

MachinesOK == instances \in [InstanceIds -> Instance] /\ lastInstance \in 0..MaxInstances

\* A goroutine that moves on with well-typed locals, which fit its next label,
\* keeps the invariant if the rest of the step keeps the tables and machines typed.
LEMMA ContinueInv ==
  ASSUME IInv, NEW p \in Procs, NEW local \in Local, NEW label \in Labels,
         Continue(p, local, label), Fits(local, label),
         StoreOK', MachinesOK', github' = github, faults' \in 0..MaxFaults
  PROVE  IInv'
<1>1. [local EXCEPT !.pc = label] \in Local
  BY DEF Local
<1>2. proc \in [Procs -> Local]
  BY DEF IInv, TypeOK
<1>3. TypeOK'
  BY <1>1, <1>2 DEF IInv, TypeOK, StoreOK, MachinesOK, Continue
<1>4. ASSUME NEW q \in Procs PROVE LocalOK(q)'
  <2>1. CASE q = p
    <3>1. /\ proc'[q].pc = label /\ proc'[q].job = local.job
          /\ proc'[q].kind = local.kind /\ proc'[q].verdict = local.verdict
      BY <1>2, <2>1 DEF Continue, Local
    <3> QED
      BY <3>1 DEF Fits, LocalOK
  <2>2. CASE q # p
    <3>1. proc'[q] = proc[q]
      BY <1>2, <2>2 DEF Continue
    <3> QED
      BY <3>1 DEF Fits, LocalOK, IInv
  <2> QED
    BY <2>1, <2>2
<1>5. ConclusionOK'
  BY DEF IInv, ConclusionOK
<1> QED
  BY <1>3, <1>4, <1>5 DEF IInv

\* So does a goroutine that ends.
LEMMA StopInv ==
  ASSUME IInv, NEW p \in Procs, Stop(p),
         StoreOK', MachinesOK', github' = github, faults' \in 0..MaxFaults
  PROVE  IInv'
<1>1. Continue(p, Idle, "idle")
  BY DEF Stop, Continue, Idle
<1> QED
  BY <1>1, EmptyValues, ContinueInv DEF Idle, Labels, Fits

\* The GitHub runner of a snapshot is an instance, or none.
LEMMA SnapshotRunner ==
  ASSUME NEW s \in Snapshot \union {NoSnapshot}
  PROVE  s.ghRunner \in 0..MaxInstances
<1>1. s \in Snapshot => s.ghRunner \in 0..MaxInstances
  BY DEF Snapshot
<1>2. NoSnapshot.ghRunner = 0
  BY DEF NoSnapshot
<1>3. 0 \in 0..MaxInstances
  BY ConstantAssumption
<1> QED
  BY <1>1, <1>2, <1>3

\* So does the warm pool loop when it goes on to its next target.
LEMMA NextTargetInv ==
  ASSUME IInv, NEW local \in Local, Fits(local, "warm_scan"), NextTarget(local),
         StoreOK', MachinesOK', github' = github, faults' \in 0..MaxFaults
  PROVE  IInv'
<1> DEFINE next == [local EXCEPT !.instance = 0, !.policy = NoPolicy]
<1>1. WarmLoop \in Procs /\ "warm_scan" \in Labels
  BY DEF Procs, Labels
<1>2. next \in Local
  <2>1. 0 \in 0..MaxInstances
    BY ConstantAssumption
  <2> QED
    BY <2>1 DEF Local
<1>3. Fits(next, "warm_scan")
  BY DEF Fits, Local
<1>4. Stop(WarmLoop) \/ Continue(WarmLoop, next, "warm_scan")
  BY DEF NextTarget
<1> HIDE DEF next
<1> QED
  BY <1>1, <1>2, <1>3, <1>4, ContinueInv, StopInv

\* A request for termination keeps the instances well typed.
LEMMA RequestTerminationType ==
  ASSUME IInv, NEW i, RequestTermination(i)
  PROVE  instances' \in [InstanceIds -> Instance]
<1>1. instances \in [InstanceIds -> Instance]
  BY DEF IInv, TypeOK
<1>2. ASSUME NEW k \in InstanceIds
      PROVE  [instances[k] EXCEPT !.state = IF @ \in {"RUNNING", "STOPPED"} THEN "TERMINATING" ELSE @]
               \in Instance
  BY <1>1 DEF Instance
<1> QED
  BY <1>1, <1>2 DEF RequestTermination

\* The parts of the state that a step leaves alone stay well typed.
LEMMA UnchangedOK ==
  ASSUME IInv
  PROVE  /\ StoreOK /\ MachinesOK /\ faults \in 0..MaxFaults
         /\ UnchangedStore => StoreOK'
         /\ UnchangedWorld => MachinesOK' /\ github' = github
  BY DEF IInv, TypeOK, StoreOK, MachinesOK, UnchangedStore, UnchangedWorld

\* A stuttering step keeps the invariant.
LEMMA StutterInv == ASSUME IInv, UNCHANGED vars PROVE IInv'
<1>1. TypeOK' /\ ConclusionOK'
  BY DEF IInv, TypeOK, ConclusionOK, vars
<1>2. ASSUME NEW p \in Procs PROVE LocalOK(p)'
  BY DEF IInv, LocalOK, Fits, vars
<1> QED
  BY <1>1, <1>2 DEF IInv

-----------------------------------------------------------------------------
(* Every step keeps the invariant                                           *)

\* Every step of GitHub, OCI and the clock keeps the invariant.
LEMMA WorldInv == ASSUME IInv, World PROVE IInv'
<1>0. TypeOK /\ ConclusionOK /\ proc \in [Procs -> Local] /\ github \in [Jobs -> GitHubJob]
      /\ instances \in [InstanceIds -> Instance] /\ runners \in [RowIds -> Runner]
  BY DEF IInv, TypeOK
<1>1. ASSUME proc' = proc, github' \in [Jobs -> GitHubJob], ConclusionOK',
             \A j \in Jobs : github[j].phase = "done" => github'[j].phase = "done",
             StoreOK', MachinesOK', faults' \in 0..MaxFaults
      PROVE  IInv'
  <2>1. TypeOK'
    BY <1>0, <1>1 DEF TypeOK, StoreOK, MachinesOK
  <2>2. ASSUME NEW p \in Procs PROVE LocalOK(p)'
    <3>1. LocalOK(p) /\ proc'[p] = proc[p]
      BY <1>1 DEF IInv
    <3> QED
      BY <1>1, <3>1 DEF LocalOK, Fits
  <2> QED
    BY <1>1, <2>1, <2>2 DEF IInv
<1>2. ASSUME NEW j \in Jobs, NEW i \in InstanceIds, JobStarts(j, i)
      PROVE  IInv'
  <2>0. i \in 0..MaxInstances
    BY ConstantAssumption DEF InstanceIds
  <2>1. [github[j] EXCEPT !.phase = "running", !.instance = i] \in GitHubJob
    BY <1>0, <2>0 DEF GitHubJob
  <2>2. [instances[i] EXCEPT !.agent = "busy"] \in Instance
    BY <1>0 DEF Instance
  <2>3. /\ github' = [github EXCEPT ![j] = [github[j] EXCEPT !.phase = "running", !.instance = i]]
        /\ instances' = [instances EXCEPT ![i] = [instances[i] EXCEPT !.agent = "busy"]]
    BY <1>2 DEF JobStarts
  <2>4. github' \in [Jobs -> GitHubJob] /\ instances' \in [InstanceIds -> Instance]
    BY <1>0, <2>1, <2>2, <2>3
  <2>5. /\ ConclusionOK' 
        /\ \A k \in Jobs : github[k].phase = "done" => github'[k].phase = "done"
    BY <1>0, <1>2, <2>3 DEF ConclusionOK, JobStarts, GitHubJob
  <2> QED
    BY <1>1, <1>2, <2>4, <2>5, UnchangedOK DEF JobStarts, MachinesOK, UnchangedStore
<1>3. ASSUME NEW j \in Jobs, NEW c \in Conclusions, JobEnds(j, c)
      PROVE  IInv'
  <2>1. [github[j] EXCEPT !.phase = "done", !.conclusion = c] \in GitHubJob
    BY <1>0 DEF GitHubJob
  <2>2. github' = [github EXCEPT ![j] = [github[j] EXCEPT !.phase = "done", !.conclusion = c]]
    BY <1>3 DEF JobEnds
  <2>3. \A i \in InstanceIds : [instances[i] EXCEPT !.agent = "gone"] \in Instance
    BY <1>0 DEF Instance
  <2>4. instances' \in [InstanceIds -> Instance]
    BY <1>0, <1>3, <2>3 DEF JobEnds
  <2>5. github' \in [Jobs -> GitHubJob]
    BY <1>0, <2>1, <2>2
  <2>6. /\ ConclusionOK'
        /\ \A k \in Jobs : github[k].phase = "done" => github'[k].phase = "done"
    BY <1>0, <2>2 DEF ConclusionOK, GitHubJob
  <2> QED
    BY <1>1, <1>3, <2>4, <2>5, <2>6, UnchangedOK DEF JobEnds, MachinesOK, UnchangedStore
<1>4. ASSUME NEW i \in InstanceIds, AgentRegisters(i) \/ InstancePowersOff(i)
      PROVE  IInv'
  <2>1. /\ [instances[i] EXCEPT !.agent = "idle"] \in Instance
        /\ [instances[i] EXCEPT !.state = "STOPPED"] \in Instance
    BY <1>0 DEF Instance
  <2>2. instances' \in [InstanceIds -> Instance]
    BY <1>0, <1>4, <2>1 DEF AgentRegisters, InstancePowersOff
  <2> QED
    BY <1>0, <1>1, <1>4, <2>2, UnchangedOK
       DEF AgentRegisters, InstancePowersOff, MachinesOK, UnchangedStore, ConclusionOK
<1>5. ASSUME NEW i \in InstanceIds, InstanceGone(i), faults' \in 0..MaxFaults
      PROVE  IInv'
  <2>1. [instances[i] EXCEPT !.state = "TERMINATED", !.agent = "gone"] \in Instance
    BY <1>0 DEF Instance
  <2>2. instances' = [instances EXCEPT ![i] = [instances[i] EXCEPT !.state = "TERMINATED",
                                                                  !.agent = "gone"]]
    BY <1>5 DEF InstanceGone
  <2>3. instances' \in [InstanceIds -> Instance]
    BY <1>0, <2>1, <2>2
  <2>4. \A j \in Jobs : [github[j] EXCEPT !.phase = "done", !.conclusion = "failed"] \in GitHubJob
    BY <1>0, ConstantAssumption DEF GitHubJob
  <2>5. github' \in [Jobs -> GitHubJob]
    BY <1>0, <1>5, <2>4 DEF InstanceGone
  <2>6. /\ ConclusionOK'
        /\ \A k \in Jobs : github[k].phase = "done" => github'[k].phase = "done"
    BY <1>0, <1>5, ConstantAssumption DEF ConclusionOK, InstanceGone, GitHubJob
  <2> QED
    BY <1>1, <1>5, <2>3, <2>5, <2>6, UnchangedOK DEF InstanceGone, MachinesOK, UnchangedStore
<1>6. ASSUME NEW i \in InstanceIds, TerminationCompletes(i)
      PROVE  IInv'
  BY <1>5, <1>6, UnchangedOK DEF TerminationCompletes
<1>7. ASSUME NEW i \in InstanceIds, InstancePreempted(i)
      PROVE  IInv'
  <2>1. faults' \in 0..MaxFaults
    BY <1>7, ConstantAssumption, UnchangedOK DEF InstancePreempted
  <2> QED
    BY <1>5, <1>7, <2>1 DEF InstancePreempted
<1>8. ASSUME NEW r \in RowIds, RunnerExpires(r)
      PROVE  IInv'
  <2>1. [runners[r] EXCEPT !.expired = TRUE] \in Runner
    BY <1>0 DEF Runner
  <2>2. runners' = [runners EXCEPT ![r] = [runners[r] EXCEPT !.expired = TRUE]]
    BY <1>8 DEF RunnerExpires
  <2>3. StoreOK'
    BY <1>0, <1>8, <2>1, <2>2, UnchangedOK DEF RunnerExpires, StoreOK
  <2> QED
    BY <1>0, <1>1, <1>8, <2>3, UnchangedOK DEF RunnerExpires, UnchangedWorld, ConclusionOK
<1> QED
  BY <1>2, <1>3, <1>4, <1>6, <1>7, <1>8 DEF World

\* Every step of a webhook handler keeps the invariant.
LEMMA WebhookInv ==
  ASSUME IInv, NEW h \in Handlers, Webhook(h)
  PROVE  IInv'
<1> DEFINE me == proc[h]
<1>0. /\ h \in Procs /\ me \in Local /\ LocalOK(h)
      /\ github \in [Jobs -> GitHubJob] /\ runners \in [RowIds -> Runner]
  BY DEF IInv, TypeOK, Procs
<1> HIDE DEF me
<1>1. \A r \in RowIds : SnapshotOf(r) \in Snapshot
  BY <1>0 DEF SnapshotOf, Snapshot, Runner
<1>2. ASSUME NEW j \in Jobs, NEW k \in Kinds, Receive(h, j, k)
      PROVE  IInv'
  <2>1. StoreOK'
    BY <1>2, UnchangedOK DEF Receive, StoreOK
  <2>2. CASE IsNew(<<j, k>>)
    <3> DEFINE local == [Idle EXCEPT !.job = j, !.kind = k, !.policy = PolicyOf[j]]
    <3>1. local \in Local /\ Fits(local, "start")
      <4>1. PolicyOf[j] \in Policies
        BY ConstantAssumption
      <4>2. local \in Local
        BY <4>1, EmptyValues DEF Local
      <4>3. k = "completed" => github[j].phase = "done"
        BY <1>2 DEF Receive, Emitted
      <4> QED
        BY <4>2, <4>3 DEF Fits, Idle
    <3>2. Continue(h, local, "start")
      BY <1>2, <2>2 DEF Receive
    <3> HIDE DEF local
    <3> QED
      BY <1>0, <1>2, <2>1, <3>1, <3>2, ContinueInv, UnchangedOK DEF Receive, Labels
  <2>3. CASE ~IsNew(<<j, k>>)
    <3>1. UNCHANGED vars
      BY <1>2, <2>3 DEF Receive, vars, UnchangedWorld
    <3> QED
      BY <3>1, StutterInv
  <2> QED
    BY <2>2, <2>3
<1>3. ASSUME At(h, "start"), NEW status, status = PayloadStatus(me.job, me.kind)
      PROVE  status \in JobStatus /\ me.job \in Jobs
  BY <1>0, <1>3, ConstantAssumption
     DEF At, me, LocalOK, Fits, PayloadStatus, JobStatus, IInv, ConclusionOK
<1>4. ASSUME RepositoryNotAllowed(h)
      PROVE  IInv'
  <2>1. StoreOK'
    <3>1. UpsertJob(me.job, PayloadStatus(me.job, me.kind)) /\ Processed(h)
      BY <1>4 DEF RepositoryNotAllowed, me
    <3>2. PayloadStatus(me.job, me.kind) \in JobStatus
      BY <1>3, <1>4 DEF RepositoryNotAllowed
    <3> QED
      BY <1>4, <3>1, <3>2, JobWrite, EventWrite, UnchangedOK DEF RepositoryNotAllowed, StoreOK
  <2> QED
    BY <1>0, <1>4, <2>1, StopInv, UnchangedOK DEF RepositoryNotAllowed
<1>5. ASSUME AdmissionBlocks(h)
      PROVE  IInv'
  <2> DEFINE local == [me EXCEPT !.verdict = "blocked"]
  <2>1. local \in Local /\ Fits(local, "tracked")
    BY <1>0 DEF Local, Fits, LocalOK, me
  <2>2. Continue(h, local, "tracked")
    BY <1>5 DEF AdmissionBlocks, me
  <2> HIDE DEF local
  <2> QED
    BY <1>0, <1>5, <2>1, <2>2, ContinueInv, UnchangedOK DEF AdmissionBlocks, Labels
<1>6. ASSUME FindWarmIdleRunner(h)
      PROVE  IInv'
  <2>1. Fits(me, "count")
    BY <1>0 DEF Fits, LocalOK, me
  <2>2. ASSUME NEW r \in RowIds
        PROVE  LET local == [me EXCEPT !.cur = SnapshotOf(r)]
               IN  local \in Local /\ Fits(local, "count")
    BY <1>0, <1>1, <2>1 DEF Local, Fits
  <2>3. \/ Continue(h, me, "count")
        \/ \E r \in RowIds : Continue(h, [me EXCEPT !.cur = SnapshotOf(r)], "count")
    BY <1>6 DEF FindWarmIdleRunner, WarmIdle, me
  <2> QED
    BY <1>0, <1>6, <2>1, <2>2, <2>3, ContinueInv, UnchangedOK DEF FindWarmIdleRunner, Labels
<1>7. ASSUME CountActiveRunners(h)
      PROVE  IInv'
  <2> DEFINE v == Verdict(Cardinality(Active(me.policy)), MaxRunners[me.policy], me.cur.row # 0)
             local == [me EXCEPT !.verdict = v]
  <2>1. v \in {"blocked", "warm", "launch"}
    BY DEF Verdict
  <2>2. local \in Local /\ Fits(local, "tracked")
    BY <1>0, <2>1 DEF Local, Fits, LocalOK, me
  <2>3. Continue(h, local, "tracked")
    BY <1>7 DEF CountActiveRunners, me
  <2> HIDE DEF local
  <2> QED
    BY <1>0, <1>7, <2>2, <2>3, ContinueInv, UnchangedOK DEF CountActiveRunners, Labels
<1>8. ASSUME RecordQueuedJob(h)
      PROVE  IInv'
  <2>1. me.verdict \in {"blocked", "warm", "launch"}
    BY <1>0, <1>8 DEF RecordQueuedJob, At, LocalOK, Fits, Local, me
  <2>2. JobStatusFor(me.verdict) \in JobStatus
    BY <2>1 DEF JobStatusFor, JobStatus
  <2>3. StoreOK'
    <3>1. UpsertJob(me.job, JobStatusFor(me.verdict)) /\ (Processed(h) \/ UNCHANGED events)
      BY <1>8 DEF RecordQueuedJob, me
    <3> QED
      BY <1>8, <2>2, <3>1, JobWrite, EventWrite, UnchangedOK DEF RecordQueuedJob, StoreOK
  <2>4. Fits(me, "reserve_state") /\ Fits(me, "launch")
    BY <1>0 DEF Fits, LocalOK, me
  <2>5. Stop(h) \/ Continue(h, me, "reserve_state") \/ Continue(h, me, "launch")
    BY <1>8 DEF RecordQueuedJob, me
  <2> QED
    BY <1>0, <1>8, <2>3, <2>4, <2>5, ContinueInv, StopInv, UnchangedOK
       DEF RecordQueuedJob, Labels
<1>9. ASSUME ReserveState(h)
      PROVE  IInv'
  <2>1. StoreOK'
    <3>1. me.job \in Jobs \union {NoJob} /\ "reserved" \in WarmState
      BY <1>0 DEF Local, WarmState
    <3>2. UpdateRunnerWarmState(me.cur.row, me.job, "reserved")
      BY <1>9 DEF ReserveState, me
    <3> QED
      BY <1>9, <3>1, <3>2, WarmStateWrite, UnchangedOK DEF ReserveState, StoreOK
  <2>2. Fits(me, "reserve_status") /\ Continue(h, me, "reserve_status")
    BY <1>0, <1>9 DEF Fits, LocalOK, ReserveState, me
  <2> QED
    BY <1>0, <1>9, <2>1, <2>2, ContinueInv, UnchangedOK DEF ReserveState, Labels
<1>10. me.cur.ghRunner \in 0..MaxInstances
  BY <1>0, SnapshotRunner DEF Local
<1>11. ASSUME ReserveStatus(h)
       PROVE  IInv'
  <2>1. StoreOK'
    <3>1. UpdateRunnerStatus(me.cur.row, "reserved", me.cur.ghRunner) /\ Processed(h)
      BY <1>11 DEF ReserveStatus, me
    <3>2. "reserved" \in RunnerStatus
      BY DEF RunnerStatus
    <3> QED
      BY <1>10, <1>11, <3>1, <3>2, StatusWrite, EventWrite, UnchangedOK DEF ReserveStatus, StoreOK
  <2> QED
    BY <1>0, <1>11, <2>1, StopInv, UnchangedOK DEF ReserveStatus
<1>12. ASSUME RecordJobProgress(h)
       PROVE  IInv'
  <2>1. me.job \in Jobs /\ PayloadStatus(me.job, me.kind) \in JobStatus
    BY <1>3, <1>12 DEF RecordJobProgress
  <2>2. StoreOK'
    <3>1. /\ UpsertJob(me.job, PayloadStatus(me.job, me.kind))
          /\ Processed(h) \/ UNCHANGED events
      BY <1>12 DEF RecordJobProgress, me
    <3> QED
      BY <1>12, <2>1, <3>1, JobWrite, EventWrite, UnchangedOK DEF RecordJobProgress, StoreOK
  <2>3. ASSUME NEW r \in RowIds, NEW gh \in ResolveRunnerID(me.job, r),
               NEW label \in {"consume", "set_status"},
               label = "consume" => me.kind = "in_progress",
               Continue(h, [me EXCEPT !.cur = [SnapshotOf(r) EXCEPT !.ghRunner = gh]], label)
        PROVE  IInv'
    <3> DEFINE local == [me EXCEPT !.cur = [SnapshotOf(r) EXCEPT !.ghRunner = gh]]
    <3>1. gh \in 0..MaxInstances
      <4>1. /\ 0 \in 0..MaxInstances /\ github[me.job].instance \in 0..MaxInstances
            /\ runners[r].ghRunner \in 0..MaxInstances /\ runners[r].instance \in 0..MaxInstances
        <5>1. github[me.job] \in GitHubJob /\ runners[r] \in Runner
          BY <1>0, <2>1
        <5>2. github[me.job].instance \in 0..MaxInstances
          BY <5>1 DEF GitHubJob
        <5>3. /\ runners[r].ghRunner \in 0..MaxInstances
              /\ runners[r].instance \in 0..MaxInstances
          BY <5>1 DEF Runner
        <5> QED
          BY <5>2, <5>3, ConstantAssumption
      <4>2. \/ gh = github[me.job].instance
            \/ gh = runners[r].ghRunner
            \/ gh = 0
            \/ gh = runners[r].instance
        <5>1. CASE github[me.job].instance # 0
          BY <2>3, <5>1 DEF ResolveRunnerID
        <5>2. CASE github[me.job].instance = 0 /\ runners[r].ghRunner # 0
          BY <2>3, <5>2 DEF ResolveRunnerID
        <5>3. CASE github[me.job].instance = 0 /\ runners[r].ghRunner = 0
          BY <2>3, <5>3 DEF ResolveRunnerID
        <5> QED
          BY <5>1, <5>2, <5>3
      <4> QED
        BY <4>1, <4>2
    <3>2. [SnapshotOf(r) EXCEPT !.ghRunner = gh] \in Snapshot
      BY <1>1, <3>1 DEF Snapshot
    <3>3. local \in Local
      BY <1>0, <3>2 DEF Local
    <3>4. local.kind = me.kind /\ local.job = me.job /\ label # "tracked"
      BY <1>0 DEF Local
    <3>5. Fits(local, label)
      BY <1>0, <1>12, <3>4, <2>3 DEF Fits, LocalOK, RecordJobProgress, At, me
    <3>6. Continue(h, local, label) /\ label \in Labels
      BY <2>3 DEF Labels
    <3>7. MachinesOK' /\ github' = github /\ faults' \in 0..MaxFaults
      BY <1>12, UnchangedOK DEF RecordJobProgress
    <3> HIDE DEF local
    <3> QED
      BY <1>0, <2>2, <3>3, <3>5, <3>6, <3>7, ContinueInv
  <2>4. ASSUME Stop(h) PROVE IInv'
    BY <1>0, <1>12, <2>2, <2>4, StopInv, UnchangedOK DEF RecordJobProgress
  <2>5. \/ Stop(h)
        \/ \E r \in RowIds : \E gh \in ResolveRunnerID(me.job, r) :
             \E label \in {"consume", "set_status"} :
               /\ label = "consume" => me.kind = "in_progress"
               /\ Continue(h, [me EXCEPT !.cur = [SnapshotOf(r) EXCEPT !.ghRunner = gh]], label)
    BY <1>12 DEF RecordJobProgress, me
  <2> QED
    BY <2>3, <2>4, <2>5
<1>13. ASSUME ConsumeWarm(h)
       PROVE  IInv'
  <2>1. me.job \in Jobs \union {NoJob} /\ "consumed" \in WarmState
    BY <1>0 DEF Local, WarmState
  <2>2. StoreOK'
    <3>1. UpdateRunnerWarmState(me.cur.row, me.job, "consumed")
      BY <1>13 DEF ConsumeWarm, me
    <3> QED
      BY <1>13, <2>1, <3>1, WarmStateWrite, UnchangedOK DEF ConsumeWarm, StoreOK
  <2>3. Fits(me, "set_status") /\ Continue(h, me, "set_status")
    BY <1>0, <1>13 DEF Fits, LocalOK, ConsumeWarm, At, me
  <2> QED
    BY <1>0, <1>13, <2>2, <2>3, ContinueInv, UnchangedOK DEF ConsumeWarm, Labels
<1>14. ASSUME SyncRunnerStatus(h)
       PROVE  IInv'
  <2>1. PayloadStatus(me.job, me.kind) \in RunnerStatus
    BY <1>0, <1>14, ConstantAssumption
       DEF SyncRunnerStatus, At, me, LocalOK, Fits, PayloadStatus, RunnerStatus, IInv, ConclusionOK
  <2>2. StoreOK'
    <3>1. /\ UpdateRunnerStatus(me.cur.row, PayloadStatus(me.job, me.kind), me.cur.ghRunner)
          /\ Processed(h) \/ UNCHANGED events
      BY <1>14 DEF SyncRunnerStatus, me
    <3> QED
      BY <1>10, <1>14, <2>1, <3>1, StatusWrite, EventWrite, UnchangedOK
         DEF SyncRunnerStatus, StoreOK
  <2> DEFINE local == [me EXCEPT !.cur = NoSnapshot]
  <2>3. local \in Local /\ Fits(local, "list")
    BY <1>0 DEF Local, Fits, LocalOK, me
  <2>4. Stop(h) \/ Continue(h, local, "list")
    BY <1>14 DEF SyncRunnerStatus, me
  <2> HIDE DEF local
  <2> QED
    BY <1>0, <1>14, <2>2, <2>3, <2>4, ContinueInv, StopInv, UnchangedOK
       DEF SyncRunnerStatus, Labels
<1> QED
  BY <1>2, <1>4, <1>5, <1>6, <1>7, <1>8, <1>9, <1>11, <1>12, <1>13, <1>14 DEF Webhook

\* Every step of a launch keeps the invariant.
LEMMA LaunchInv ==
  ASSUME IInv, NEW p \in Handlers \union {WarmLoop}, Launch(p)
  PROVE  IInv'
<1> DEFINE me == proc[p]
<1>0. p \in Procs /\ me \in Local /\ LocalOK(p)
  BY DEF IInv, TypeOK, Procs
<1> HIDE DEF me
<1>1. me.job \in Jobs \union {NoJob} /\ me.policy \in Policies \union {NoPolicy}
      /\ me.instance \in 0..MaxInstances
  BY <1>0 DEF Local
<1>2. ASSUME LaunchInstance(p)
      PROVE  IInv'
  <2> DEFINE i == lastInstance + 1
             local == [me EXCEPT !.instance = i]
  <2>1. i \in InstanceIds
    BY <1>2, ConstantAssumption, UnchangedOK DEF LaunchInstance, MachinesOK, InstanceIds
  <2>0. i \in 0..MaxInstances
    BY <2>1, ConstantAssumption DEF InstanceIds
  <2>2. [state |-> "RUNNING", policy |-> me.policy, job |-> me.job, agent |-> "booting"] \in Instance
    BY <1>1 DEF Instance
  <2>3. MachinesOK'
    <3>1. /\ lastInstance' = i
          /\ instances' = [instances EXCEPT ![i] = [state |-> "RUNNING", policy |-> me.policy,
                                                    job |-> me.job, agent |-> "booting"]]
      BY <1>2 DEF LaunchInstance, me
    <3> QED
      BY <2>0, <2>2, <3>1, UnchangedOK DEF MachinesOK
  <2>4. local \in Local
    <3> HIDE DEF i
    <3> QED
      BY <1>0, <2>0 DEF Local
  <2>5. Fits(local, "insert") /\ "insert" \in Labels
    BY <1>0 DEF Fits, LocalOK, Local, Labels, me
  <2>6. Continue(p, local, "insert")
    BY <1>2 DEF LaunchInstance, me
  <2>7. StoreOK' /\ github' = github /\ faults' \in 0..MaxFaults
    BY <1>2, UnchangedOK DEF LaunchInstance
  <2> HIDE DEF local
  <2> QED
    BY <1>0, <2>3, <2>4, <2>5, <2>6, <2>7, ContinueInv
<1>3. ASSUME StoreOK', MachinesOK', github' = github, faults' \in 0..MaxFaults,
             Stop(p) \/ NextTarget(me)
      PROVE  IInv'
  <2>1. Fits(me, "warm_scan")
    BY <1>0 DEF Fits, LocalOK, me
  <2> QED
    BY <1>0, <1>3, <2>1, NextTargetInv, StopInv
<1>4. ASSUME CreateRunner(p)
      PROVE  IInv'
  <2>1. NewRunner(p) \in Runner
    BY <1>1, EmptyValues DEF NewRunner, Runner, RunnerStatus, WarmState, me
  <2>2. lastRow + 1 \in 0..MaxInstances
    BY <1>4, ConstantAssumption, UnchangedOK DEF CreateRunner, StoreOK
  <2>3. StoreOK'
    <3>1. /\ runners' = [runners EXCEPT ![lastRow + 1] = NewRunner(p)] /\ lastRow' = lastRow + 1
          /\ jobs' = jobs /\ (Processed(p) \/ UNCHANGED events)
      BY <1>4 DEF CreateRunner
    <3>2. runners' \in [RowIds -> Runner]
      BY <2>1, <3>1, RunnerWrite
    <3> QED
      BY <2>2, <3>1, <3>2, EventWrite, UnchangedOK DEF StoreOK
  <2>4. Stop(p) \/ NextTarget(me)
    BY <1>4 DEF CreateRunner, me
  <2>5. MachinesOK' /\ github' = github /\ faults' \in 0..MaxFaults
    BY <1>4, UnchangedOK DEF CreateRunner
  <2> QED
    BY <1>3, <2>3, <2>4, <2>5
<1>5. ASSUME LaunchError(p), faults' \in 0..MaxFaults
      PROVE  IInv'
  <2>1. StoreOK'
    <3>1. UpsertJob(me.job, "failed") \/ UNCHANGED jobs
      BY <1>5 DEF LaunchError, me
    <3>2. "failed" \in JobStatus
      BY ConstantAssumption DEF JobStatus
    <3> QED
      BY <1>5, <3>1, <3>2, JobWrite, UnchangedOK DEF LaunchError, StoreOK
  <2>2. Stop(p) \/ NextTarget(me)
    BY <1>5 DEF LaunchError, me
  <2>3. MachinesOK' /\ github' = github
    BY <1>5, UnchangedOK DEF LaunchError
  <2> QED
    BY <1>3, <1>5, <2>1, <2>2, <2>3
<1>6. ASSUME LaunchFails(p)
      PROVE  IInv'
  BY <1>5, <1>6, UnchangedOK DEF LaunchFails
<1>7. ASSUME CreateRunnerFails(p)
      PROVE  IInv'
  <2>1. faults' \in 0..MaxFaults
    BY <1>7, ConstantAssumption, UnchangedOK DEF CreateRunnerFails
  <2> QED
    BY <1>5, <1>7, <2>1 DEF CreateRunnerFails
<1> QED
  BY <1>2, <1>4, <1>6, <1>7 DEF Launch

\* Every step of a cleanup pass, whoever runs it, keeps the invariant.
LEMMA CleanupInv ==
  ASSUME IInv, NEW p \in Handlers \union Sweepers, Cleanup(p)
  PROVE  IInv'
<1> DEFINE me == proc[p]
<1>0. p \in Procs /\ me \in Local /\ LocalOK(p) /\ TypeOK
  BY DEF IInv, TypeOK, Procs
<1> HIDE DEF me
<1>1. \A r \in RowIds : SnapshotOf(r) \in Snapshot
  BY <1>0 DEF SnapshotOf, Snapshot, Runner, TypeOK
<1>2. /\ me.cur \in Snapshot \union {NoSnapshot} /\ me.todo \subseteq Snapshot
      /\ me.cur.ghRunner \in 0..MaxInstances
  <2>1. me.cur \in Snapshot \union {NoSnapshot} /\ me.todo \subseteq Snapshot
    BY <1>0 DEF Local
  <2> QED
    BY <2>1, SnapshotRunner
\* A step of cleanup that moves on keeps what the goroutine knows of its delivery.
<1>3. ASSUME NEW local \in Local, NEW label \in {"sweep", "get", "close", "mark"},
             Continue(p, local, label), local.kind = me.kind, local.job = me.job,
             StoreOK', MachinesOK', github' = github, faults' \in 0..MaxFaults
      PROVE  IInv'
  <2>1. Fits(local, label) /\ label \in Labels
    BY <1>0, <1>3 DEF Fits, LocalOK, Labels, me
  <2> QED
    BY <1>0, <1>3, <2>1, ContinueInv
<1>4. ASSUME NextCandidate(p), StoreOK', MachinesOK', github' = github, faults' \in 0..MaxFaults
      PROVE  IInv'
  <2> DEFINE local == [me EXCEPT !.cur = NoSnapshot]
  <2>1. local \in Local /\ local.kind = me.kind /\ local.job = me.job
    BY <1>0 DEF Local
  <2>2. Continue(p, local, "sweep")
    BY <1>4 DEF NextCandidate, me
  <2> HIDE DEF local
  <2> QED
    BY <1>3, <1>4, <2>1, <2>2
<1>5. ASSUME ListCleanupCandidates(p)
      PROVE  IInv'
  <2> DEFINE local == [me EXCEPT !.todo = {SnapshotOf(r) : r \in CleanupCandidates}]
  <2>1. {SnapshotOf(r) : r \in CleanupCandidates} \subseteq Snapshot
    BY <1>1 DEF CleanupCandidates
  <2>2. local \in Local /\ local.kind = me.kind /\ local.job = me.job
    BY <1>0, <2>1 DEF Local
  <2>3. Continue(p, local, "sweep")
    BY <1>5 DEF ListCleanupCandidates, me
  <2>4. StoreOK' /\ MachinesOK' /\ github' = github /\ faults' \in 0..MaxFaults
    BY <1>5, UnchangedOK DEF ListCleanupCandidates
  <2> HIDE DEF local
  <2> QED
    BY <1>3, <2>2, <2>3, <2>4
<1>6. ASSUME TakeCandidate(p)
      PROVE  IInv'
  <2>0. PICK s \in me.todo : \E gh \in {0, runners[s.row].instance} :
          /\ IF gh # 0 THEN UpdateRunnerStatus(s.row, s.status, gh) ELSE UNCHANGED runners
          /\ Continue(p, [me EXCEPT !.todo = @ \ {s},
                                    !.cur = [s EXCEPT !.ghRunner = IF gh # 0 THEN gh ELSE @]], "get")
    BY <1>6 DEF TakeCandidate, me
  <2>1. PICK gh \in {0, runners[s.row].instance} :
          /\ IF gh # 0 THEN UpdateRunnerStatus(s.row, s.status, gh) ELSE UNCHANGED runners
          /\ Continue(p, [me EXCEPT !.todo = @ \ {s},
                                    !.cur = [s EXCEPT !.ghRunner = IF gh # 0 THEN gh ELSE @]], "get")
    BY <2>0
  <2>2. s \in Snapshot /\ s.status \in RunnerStatus /\ s.row \in RowIds
    BY <1>2, <2>0 DEF Snapshot
  <2>3. gh \in 0..MaxInstances
    <3>1. runners[s.row] \in Runner
      BY <1>0, <2>2 DEF TypeOK
    <3>2. runners[s.row].instance \in 0..MaxInstances
      BY <3>1 DEF Runner
    <3> QED
      BY <2>1, <3>2, ConstantAssumption
  <2>4. StoreOK'
    <3>1. runners' \in [RowIds -> Runner]
      BY <2>1, <2>2, <2>3, StatusWrite, UnchangedOK DEF StoreOK
    <3> QED
      BY <1>6, <3>1, UnchangedOK DEF TakeCandidate, StoreOK
  <2> DEFINE seen  == [s EXCEPT !.ghRunner = IF gh # 0 THEN gh ELSE @]
             local == [me EXCEPT !.todo = @ \ {s}, !.cur = seen]
  <2>5. seen \in Snapshot
    <3>1. (IF gh # 0 THEN gh ELSE s.ghRunner) \in 0..MaxInstances
      BY <2>2, <2>3 DEF Snapshot
    <3> QED
      BY <2>2, <3>1 DEF Snapshot
  <2>6. local \in Local /\ local.kind = me.kind /\ local.job = me.job
    <3> HIDE DEF seen
    <3> QED
      BY <1>0, <2>5 DEF Local
  <2>7. Continue(p, local, "get")
    BY <2>1
  <2>8. MachinesOK' /\ github' = github /\ faults' \in 0..MaxFaults
    BY <1>6, UnchangedOK DEF TakeCandidate
  <2> HIDE DEF local
  <2> QED
    BY <1>3, <2>4, <2>6, <2>7, <2>8
<1>7. ASSUME FindInstanceEnded(p)
      PROVE  IInv'
  <2>1. Continue(p, me, "close")
    BY <1>7 DEF FindInstanceEnded, me
  <2>2. StoreOK' /\ MachinesOK' /\ github' = github /\ faults' \in 0..MaxFaults
    BY <1>7, UnchangedOK DEF FindInstanceEnded
  <2> QED
    BY <1>0, <1>3, <2>1, <2>2
<1>8. ASSUME NEW i, DeleteRepoRunner(i), UNCHANGED <<lastInstance, github>>
      PROVE  MachinesOK'
  <2>1. \A k \in InstanceIds : [instances[k] EXCEPT !.agent = "gone"] \in Instance
    BY <1>0 DEF TypeOK, Instance
  <2>2. instances' \in [InstanceIds -> Instance]
    BY <1>0, <1>8, <2>1 DEF DeleteRepoRunner, Deregister, TypeOK
  <2> QED
    BY <1>8, <2>2, UnchangedOK DEF MachinesOK
<1>9. ASSUME CloseRunner(p)
      PROVE  IInv'
  <2>1. StoreOK'
    <3>1. MarkRunnerTerminated(me.cur.row)
      BY <1>9 DEF CloseRunner, me
    <3> QED
      BY <1>9, <3>1, TerminationWrite, UnchangedOK DEF CloseRunner, StoreOK
  <2>2. MachinesOK' /\ github' = github /\ faults' \in 0..MaxFaults /\ NextCandidate(p)
    BY <1>8, <1>9, UnchangedOK DEF CloseRunner
  <2> QED
    BY <1>4, <2>1, <2>2
<1>10. ASSUME TerminateRunner(p)
       PROVE  IInv'
  <2>2. MachinesOK'
    <3>1. RequestTermination(runners[me.cur.row].instance) /\ lastInstance' = lastInstance
      BY <1>10 DEF TerminateRunner, me
    <3> QED
      BY <3>1, RequestTerminationType, UnchangedOK DEF MachinesOK
  <2>3. StoreOK' /\ github' = github /\ faults' \in 0..MaxFaults /\ Continue(p, me, "mark")
    BY <1>10, UnchangedOK DEF TerminateRunner, me
  <2> QED
    BY <1>0, <1>3, <2>2, <2>3
<1>11. ASSUME TerminateFails(p)
       PROVE  IInv'
  BY <1>4, <1>11, UnchangedOK DEF TerminateFails
<1>12. ASSUME MarkTerminating(p)
       PROVE  IInv'
  <2>1. StoreOK'
    <3>1. \/ UNCHANGED runners
          \/ UpdateRunnerStatus(me.cur.row, "terminating", me.cur.ghRunner)
      BY <1>12 DEF MarkTerminating, me
    <3>2. "terminating" \in RunnerStatus
      BY DEF RunnerStatus
    <3> QED
      BY <1>2, <1>12, <3>1, <3>2, StatusWrite, UnchangedOK DEF MarkTerminating, StoreOK
  <2>2. MachinesOK' /\ github' = github /\ faults' \in 0..MaxFaults /\ NextCandidate(p)
    BY <1>8, <1>12, UnchangedOK DEF MarkTerminating
  <2> QED
    BY <1>4, <2>1, <2>2
<1>13. ASSUME Stop(p), Processed(p) \/ UNCHANGED events, UNCHANGED <<runners, lastRow, jobs>>,
              UnchangedWorld, faults' \in 0..MaxFaults
       PROVE  IInv'
  <2>1. StoreOK'
    BY <1>13, EventWrite, UnchangedOK DEF StoreOK
  <2> QED
    BY <1>0, <1>13, <2>1, StopInv, UnchangedOK
<1>14. ASSUME EndSweep(p)
       PROVE  IInv'
  BY <1>13, <1>14, UnchangedOK DEF EndSweep
<1>15. ASSUME SweepFails(p)
       PROVE  IInv'
  <2>1. faults' \in 0..MaxFaults
    BY <1>15, ConstantAssumption, UnchangedOK DEF SweepFails
  <2> QED
    BY <1>13, <1>15, <2>1 DEF SweepFails
<1>16. ASSUME RowWriteFails(p)
       PROVE  IInv'
  <2>1. faults' \in 0..MaxFaults
    BY <1>16, ConstantAssumption, UnchangedOK DEF RowWriteFails
  <2>2. StoreOK' /\ MachinesOK' /\ github' = github /\ NextCandidate(p)
    BY <1>8, <1>16, UnchangedOK DEF RowWriteFails
  <2> QED
    BY <1>4, <2>1, <2>2
<1> QED
  BY <1>5, <1>6, <1>7, <1>9, <1>10, <1>11, <1>12, <1>14, <1>15, <1>16 DEF Cleanup

\* Every step of an admin request keeps the invariant.
LEMMA AdminInv ==
  ASSUME IInv, NEW p \in Operators, Admin(p)
  PROVE  IInv'
<1> DEFINE me == proc[p]
<1>0. p \in Procs /\ me \in Local /\ LocalOK(p) /\ TypeOK
  BY DEF IInv, TypeOK, Procs, Sweepers
<1> HIDE DEF me
<1>1. ASSUME NEW r \in RowIds, AdminTerminate(p, r)
      PROVE  IInv'
  <2> DEFINE local == [Idle EXCEPT !.cur = SnapshotOf(r)]
  <2>1. SnapshotOf(r) \in Snapshot
    BY <1>0 DEF SnapshotOf, Snapshot, Runner, TypeOK
  <2>2. local \in Local
    BY <2>1, EmptyValues DEF Local
  <2>3. Fits(local, "admin_terminate") /\ "admin_terminate" \in Labels
    BY DEF Fits, Idle, Labels
  <2>4. Continue(p, local, "admin_terminate")
    BY <1>1 DEF AdminTerminate
  <2>5. StoreOK' /\ MachinesOK' /\ github' = github /\ faults' \in 0..MaxFaults
    BY <1>1, UnchangedOK DEF AdminTerminate
  <2> HIDE DEF local
  <2> QED
    BY <1>0, <2>2, <2>3, <2>4, <2>5, ContinueInv
<1>2. ASSUME AdminTerminateInstance(p)
      PROVE  IInv'
  <2>1. MachinesOK'
    <3>1. /\ RequestTermination(runners[me.cur.row].instance) \/ UNCHANGED instances
          /\ lastInstance' = lastInstance
      BY <1>2 DEF AdminTerminateInstance, me
    <3> QED
      BY <3>1, RequestTerminationType, UnchangedOK DEF MachinesOK
  <2>2. Continue(p, me, "admin_mark") \/ Stop(p)
    BY <1>2 DEF AdminTerminateInstance, me
  <2>3. Fits(me, "admin_mark") /\ "admin_mark" \in Labels
    BY <1>0 DEF Fits, LocalOK, Labels, me
  <2>4. StoreOK' /\ github' = github /\ faults' \in 0..MaxFaults
    BY <1>2, UnchangedOK DEF AdminTerminateInstance
  <2> QED
    BY <1>0, <2>1, <2>2, <2>3, <2>4, ContinueInv, StopInv
<1>3. ASSUME AdminMark(p)
      PROVE  IInv'
  <2>1. me.cur.ghRunner \in 0..MaxInstances
    BY <1>0, SnapshotRunner DEF Local
  <2>2. StoreOK'
    <3>1. UpdateRunnerStatus(me.cur.row, "terminating", me.cur.ghRunner)
      BY <1>3 DEF AdminMark, me
    <3>2. "terminating" \in RunnerStatus
      BY DEF RunnerStatus
    <3> QED
      BY <1>3, <2>1, <3>1, <3>2, StatusWrite, UnchangedOK DEF AdminMark, StoreOK
  <2> QED
    BY <1>0, <1>3, <2>2, StopInv, UnchangedOK DEF AdminMark
<1> QED
  BY <1>1, <1>2, <1>3 DEF Admin

\* Every step of the warm pool loop keeps the invariant.
LEMMA WarmPoolInv ==
  ASSUME IInv, WarmPool
  PROVE  IInv'
<1> DEFINE p  == WarmLoop
           me == proc[p]
<1>0. p \in Procs /\ me \in Local /\ LocalOK(p) /\ TypeOK
  BY DEF IInv, TypeOK, Procs
<1> HIDE DEF me
<1>1. \A r \in RowIds : SnapshotOf(r) \in Snapshot
  BY <1>0 DEF SnapshotOf, Snapshot, Runner, TypeOK
\* The loop has no delivery to know anything of.
<1>2. ASSUME NEW local \in Local,
             NEW label \in {"warm_scan", "warm_status", "warm_state", "warm_count", "launch"},
             Continue(p, local, label), local.kind = me.kind, local.job = me.job,
             StoreOK', MachinesOK', github' = github, faults' \in 0..MaxFaults
      PROVE  IInv'
  <2>1. Fits(local, label) /\ label \in Labels
    BY <1>0, <1>2 DEF Fits, LocalOK, Labels, me
  <2> QED
    BY <1>0, <1>2, <2>1, ContinueInv
<1>3. ASSUME ListWarming
      PROVE  IInv'
  <2> DEFINE local == [Idle EXCEPT !.todo = {SnapshotOf(r) : r \in Warming},
                                   !.targets = WarmPolicies]
  <2>1. {SnapshotOf(r) : r \in Warming} \subseteq Snapshot /\ WarmPolicies \subseteq Policies
    BY <1>1, ConstantAssumption DEF Warming
  <2>2. local \in Local
    BY <2>1, EmptyValues DEF Local
  <2>3. Fits(local, "warm_scan") /\ "warm_scan" \in Labels
    BY DEF Fits, Idle, Labels
  <2>4. Continue(p, local, "warm_scan")
    BY <1>3 DEF ListWarming
  <2>5. StoreOK' /\ MachinesOK' /\ github' = github /\ faults' \in 0..MaxFaults
    BY <1>3, UnchangedOK DEF ListWarming
  <2> HIDE DEF local
  <2> QED
    BY <1>0, <2>2, <2>3, <2>4, <2>5, ContinueInv
<1>4. ASSUME ProbeWarming
      PROVE  IInv'
  <2>1. PICK s \in me.todo :
          LET own  == runners[s.row].instance
              rest == [me EXCEPT !.todo = @ \ {s}]
          IN  \/ Continue(p, rest, "warm_scan")
              \/ Continue(p, [rest EXCEPT !.cur = [s EXCEPT !.ghRunner = own]], "warm_status")
    BY <1>4 DEF ProbeWarming, me
  <2> DEFINE own   == runners[s.row].instance
             seen  == [s EXCEPT !.ghRunner = own]
             rest  == [me EXCEPT !.todo = @ \ {s}]
             local == [rest EXCEPT !.cur = seen]
  <2>2. s \in Snapshot /\ s.row \in RowIds
    BY <1>0, <2>1 DEF Snapshot, Local
  <2>3. own \in 0..MaxInstances
    <3>1. runners[s.row] \in Runner
      BY <1>0, <2>2 DEF TypeOK
    <3> QED
      BY <3>1 DEF Runner
  <2>4. seen \in Snapshot
    BY <2>2, <2>3 DEF Snapshot
  <2>5. rest \in Local /\ rest.kind = me.kind /\ rest.job = me.job
    BY <1>0 DEF Local
  <2>6. local \in Local /\ local.kind = me.kind /\ local.job = me.job
    <3> HIDE DEF rest, seen
    <3> QED
      BY <2>4, <2>5 DEF Local
  <2>7. StoreOK' /\ MachinesOK' /\ github' = github /\ faults' \in 0..MaxFaults
    BY <1>4, UnchangedOK DEF ProbeWarming
  <2>8. Continue(p, rest, "warm_scan") \/ Continue(p, local, "warm_status")
    BY <2>1
  <2> HIDE DEF rest, local
  <2> QED
    BY <1>2, <2>5, <2>6, <2>7, <2>8
<1>5. ASSUME SetWarmStatus
      PROVE  IInv'
  <2>1. me.cur.ghRunner \in 0..MaxInstances
    BY <1>0, SnapshotRunner DEF Local
  <2>2. StoreOK'
    <3>1. UpdateRunnerStatus(me.cur.row, "warm_idle", me.cur.ghRunner)
      BY <1>5 DEF SetWarmStatus, me
    <3>2. "warm_idle" \in RunnerStatus
      BY DEF RunnerStatus
    <3> QED
      BY <1>5, <2>1, <3>1, <3>2, StatusWrite, UnchangedOK DEF SetWarmStatus, StoreOK
  <2>3. Continue(p, me, "warm_state")
    BY <1>5 DEF SetWarmStatus, me
  <2>4. MachinesOK' /\ github' = github /\ faults' \in 0..MaxFaults
    BY <1>5, UnchangedOK DEF SetWarmStatus
  <2> QED
    BY <1>0, <1>2, <2>2, <2>3, <2>4
<1>6. ASSUME SetWarmIdle
      PROVE  IInv'
  <2> DEFINE local == [me EXCEPT !.cur = NoSnapshot]
  <2>1. StoreOK'
    <3>1. UpdateRunnerWarmState(me.cur.row, NoJob, "warm_idle")
      BY <1>6 DEF SetWarmIdle, me
    <3>2. "warm_idle" \in WarmState
      BY DEF WarmState
    <3> QED
      BY <1>6, <3>1, <3>2, WarmStateWrite, UnchangedOK DEF SetWarmIdle, StoreOK
  <2>2. local \in Local /\ local.kind = me.kind /\ local.job = me.job
    BY <1>0 DEF Local
  <2>3. Continue(p, local, "warm_scan")
    BY <1>6 DEF SetWarmIdle, me
  <2>4. MachinesOK' /\ github' = github /\ faults' \in 0..MaxFaults
    BY <1>6, UnchangedOK DEF SetWarmIdle
  <2> HIDE DEF local
  <2> QED
    BY <1>2, <2>1, <2>2, <2>3, <2>4
<1>7. ASSUME FindActiveWarmRunner
      PROVE  IInv'
  <2>1. PICK q \in me.targets :
          LET rest == [me EXCEPT !.targets = @ \ {q}, !.policy = q]
          IN  NextTarget(rest) \/ Continue(p, rest, "warm_count")
    BY <1>7 DEF FindActiveWarmRunner, me
  <2> DEFINE rest == [me EXCEPT !.targets = @ \ {q}, !.policy = q]
  <2>2. rest \in Local /\ rest.kind = me.kind /\ rest.job = me.job
    BY <1>0, <2>1 DEF Local
  <2>3. StoreOK' /\ MachinesOK' /\ github' = github /\ faults' \in 0..MaxFaults
    BY <1>7, UnchangedOK DEF FindActiveWarmRunner
  <2>4. NextTarget(rest) \/ Continue(p, rest, "warm_count")
    BY <2>1
  <2> HIDE DEF rest
  <2>5. Fits(rest, "warm_scan")
    BY <1>0, <2>2 DEF Fits, LocalOK, me
  <2> QED
    BY <1>2, <2>2, <2>3, <2>4, <2>5, NextTargetInv
<1>8. ASSUME CountForWarmTarget
      PROVE  IInv'
  <2>1. NextTarget(me) \/ Continue(p, me, "launch")
    BY <1>8 DEF CountForWarmTarget, me
  <2>2. StoreOK' /\ MachinesOK' /\ github' = github /\ faults' \in 0..MaxFaults
    BY <1>8, UnchangedOK DEF CountForWarmTarget
  <2>3. Fits(me, "warm_scan")
    BY <1>0 DEF Fits, LocalOK, me
  <2> QED
    BY <1>0, <1>2, <2>1, <2>2, <2>3, NextTargetInv
<1> QED
  BY <1>3, <1>4, <1>5, <1>6, <1>7, <1>8 DEF WarmPool

\* The invariant is inductive.
LEMMA NextInvariant == IInv /\ [Next]_vars => IInv'
<1> SUFFICES ASSUME IInv, [Next]_vars PROVE IInv'
  OBVIOUS
<1>1. ASSUME NEW p \in Procs, Abort(p) PROVE IInv'
  <2>1. faults' \in 0..MaxFaults
    BY <1>1, ConstantAssumption, UnchangedOK DEF Abort
  <2> QED
    BY <1>1, <2>1, StopInv, UnchangedOK DEF Abort
<1> QED
  BY <1>1, WorldInv, WebhookInv, LaunchInv, CleanupInv, AdminInv, WarmPoolInv, StutterInv DEF Next

\* The inductive invariant holds in every behaviour, for every value of the
\* constants: types, the conclusion of a finished job and what each label implies.
THEOREM Invariance == Spec => []IInv
  BY InitInvariant, NextInvariant, PTL DEF Spec

\* Whatever fails and however the requests and loops interleave, every row, job,
\* delivery, instance and goroutine stays within the values the code gives them.
THEOREM TypeCorrect == Spec => []TypeOK
<1>1. IInv => TypeOK
  BY DEF IInv
<1> QED
  BY <1>1, Invariance, PTL
=============================================================================
