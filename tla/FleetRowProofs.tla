---------------------------- MODULE FleetRowProofs ----------------------------
(***************************************************************************)
(* What handlers and passes decide on state that they read long ago is     *)
(* still right when they act, for any numbers of jobs, goroutines,         *)
(* instances and faults: redelivered, concurrent and aborted webhooks      *)
(* launch at most one machine for a job, cleanup terminates runners for    *)
(* cause, and a warm runner that was handed out stays out.                 *)
(***************************************************************************)
EXTENDS FleetSafetyProofs

-----------------------------------------------------------------------------
(* One machine per job: the inductive invariant                             *)

Serving(h) == ~At(h, "idle")

\* The labels of a queued delivery whose machine has not been launched yet, and those
\* that no other delivery reaches.
Early      == {"start", "count", "tracked", "launch"}
QueuedOnly == {"count", "tracked", "reserve_state", "reserve_status", "launch", "insert"}

\* A delivery is served by the one handler that was the first to record it.
ServedOnce ==
  /\ \A h \in Handlers : Serving(h) => /\ Delivery(h) \in Deliveries
                                       /\ events[Delivery(h)] # "none"
                                       /\ proc[h].pc \in QueuedOnly => proc[h].kind = "queued"
  /\ \A g, h \in Handlers : Serving(g) /\ Serving(h) /\ Delivery(g) = Delivery(h) => g = h

\* A machine is launched for a job by the handler of its queued delivery, once.
LaunchedOnce ==
  /\ \A i \in InstanceIds : instances[i].job \in Jobs
       => /\ <<instances[i].job, "queued">> \in Deliveries
          /\ events[<<instances[i].job, "queued">>] # "none"
  /\ \A h \in Handlers, i \in InstanceIds :
       proc[h].pc \in Early /\ proc[h].kind = "queued" => instances[i].job # proc[h].job
  /\ \A i, k \in InstanceIds : instances[i].job \in Jobs /\ instances[i].job = instances[k].job
       => i = k

JInv == ServedOnce /\ LaunchedOnce /\ proc[WarmLoop].job = NoJob

-----------------------------------------------------------------------------
(* What a step does to deliveries and machines                              *)

\* h ends, or goes on serving its delivery; it does not come back to an earlier label.
Follows(h) ==
  \/ proc'[h].pc = "idle"
  \/ /\ Serving(h) /\ proc'[h].job = proc[h].job /\ proc'[h].kind = proc[h].kind
     /\ proc'[h].pc \in Early => proc[h].pc \in Early
     /\ proc'[h].pc \in QueuedOnly => proc[h].pc \in QueuedOnly \/ proc[h].kind = "queued"

EventsKept == \A d \in Deliveries : events[d] # "none" => events'[d] # "none"
JobsKept   == \A i \in InstanceIds : instances'[i].job = instances[i].job
AllFollow  == /\ \A h \in Handlers : Follows(h)
              /\ proc[WarmLoop].job = NoJob => proc'[WarmLoop].job = NoJob

Ordinary == EventsKept /\ JobsKept /\ AllFollow

\* An event is marked, never forgotten.
LEMMA EventsMarked ==
  ASSUME IInv, NEW h, UNCHANGED events \/ Processed(h)
  PROVE  EventsKept
<1>1. events \in [Deliveries -> {"none", "received", "processed"}]
  BY DEF IInv, TypeOK
<1> QED
  BY <1>1 DEF EventsKept, Processed

\* No step but a launch gives a machine a job.
LEMMA JobsStay ==
  ASSUME IInv, NEW i,
         \/ UNCHANGED instances \/ DeleteRepoRunner(i) \/ RequestTermination(i)
         \/ \E state : instances' = [instances EXCEPT ![i].state = state]
         \/ \E agent : instances' = [instances EXCEPT ![i].agent = agent]
         \/ \E state, agent : instances' = [instances EXCEPT ![i].state = state, ![i].agent = agent]
  PROVE  JobsKept
<1>0. instances \in [InstanceIds -> Instance]
  BY DEF IInv, TypeOK
<1>1. CASE UNCHANGED instances
  BY <1>1 DEF JobsKept
<1>2. ASSUME NEW state, instances' = [instances EXCEPT ![i].state = state]
      PROVE  JobsKept
  BY <1>0, <1>2 DEF JobsKept, Instance
<1>3. ASSUME NEW agent, instances' = [instances EXCEPT ![i].agent = agent]
      PROVE  JobsKept
  BY <1>0, <1>3 DEF JobsKept, Instance
<1>4. ASSUME NEW state, NEW agent,
             instances' = [instances EXCEPT ![i].state = state, ![i].agent = agent]
      PROVE  JobsKept
  BY <1>0, <1>4 DEF JobsKept, Instance
<1>5. DeleteRepoRunner(i) => JobsKept
  BY <1>1, <1>3 DEF DeleteRepoRunner, Deregister
<1>6. RequestTermination(i) => JobsKept
  BY <1>2 DEF RequestTermination
<1> QED
  BY <1>1, <1>2, <1>3, <1>4, <1>5, <1>6

\* A goroutine that moves leaves the others where they are.
LEMMA MoveFollows ==
  ASSUME IInv, IInv', NEW p \in Procs, NEW local, NEW label, Continue(p, local, label),
         p = WarmLoop => local.job = NoJob,
         p \in Handlers =>
           /\ Serving(p) /\ local.job = proc[p].job /\ local.kind = proc[p].kind
           /\ label \in Early => proc[p].pc \in Early
           /\ label \in QueuedOnly => proc[p].pc \in QueuedOnly \/ proc[p].kind = "queued"
  PROVE  AllFollow
<1>1. /\ proc \in [Procs -> Local] /\ proc' \in [Procs -> Local]
      /\ WarmLoop \in Procs /\ Handlers \subseteq Procs
  BY DEF IInv, TypeOK, Procs
<1>2. /\ proc'[p] = [local EXCEPT !.pc = label] /\ proc'[p] \in Local
      /\ \A q \in Procs : q # p => proc'[q] = proc[q]
  BY <1>1 DEF Continue
<1>3. proc'[p].pc = label /\ proc'[p].job = local.job /\ proc'[p].kind = local.kind
  BY <1>2 DEF Local
<1>4. ASSUME NEW h \in Handlers PROVE Follows(h)
  <2>1. CASE h # p
    BY <1>1, <1>2, <2>1 DEF Follows, Serving, At
  <2>2. CASE h = p
    BY <1>3, <2>2 DEF Follows
  <2> QED
    BY <2>1, <2>2
<1>5. proc[WarmLoop].job = NoJob => proc'[WarmLoop].job = NoJob
  BY <1>1, <1>2, <1>3
<1> QED
  BY <1>4, <1>5 DEF AllFollow

LEMMA StopFollows ==
  ASSUME IInv, NEW p \in Procs, Stop(p)
  PROVE  AllFollow
<1>1. proc \in [Procs -> Local] /\ WarmLoop \in Procs /\ Handlers \subseteq Procs
  BY DEF IInv, TypeOK, Procs
<1>2. Idle.pc = "idle" /\ Idle.job = NoJob
  BY DEF Idle
<1>3. proc'[p] = Idle /\ \A q \in Procs : q # p => proc'[q] = proc[q]
  BY <1>1 DEF Stop
<1> QED
  BY <1>1, <1>2, <1>3 DEF AllFollow, Follows, Serving, At

LEMMA StayFollows ==
  ASSUME UNCHANGED proc
  PROVE  AllFollow
  BY DEF AllFollow, Follows, Serving, At

LEMMA NextTargetFollows ==
  ASSUME IInv, IInv', NEW local \in Local, local.job = NoJob, NextTarget(local)
  PROVE  AllFollow
<1> DEFINE next == [local EXCEPT !.instance = 0, !.policy = NoPolicy]
<1>1. WarmLoop \in Procs /\ WarmLoop \notin Handlers
  BY ConstantAssumption DEF Procs
<1>2. next.job = NoJob
  BY DEF Local
<1>3. Stop(WarmLoop) \/ Continue(WarmLoop, next, "warm_scan")
  BY DEF NextTarget
<1> HIDE DEF next
<1> QED
  BY <1>1, <1>2, <1>3, StopFollows, MoveFollows

-----------------------------------------------------------------------------
(* The ordinary steps                                                       *)

LEMMA WorldOrdinary == ASSUME IInv, World PROVE Ordinary
<1>1. UNCHANGED <<events, proc>>
  BY DEF World, JobStarts, JobEnds, AgentRegisters, InstancePowersOff, TerminationCompletes,
         InstancePreempted, InstanceGone, RunnerExpires, UnchangedStore
<1>2. EventsKept /\ AllFollow
  BY <1>1, EventsMarked, StayFollows
<1>3. JobsKept
  <2>1. ASSUME NEW j \in Jobs, NEW i \in InstanceIds, JobStarts(j, i) PROVE JobsKept
    BY <2>1, JobsStay DEF JobStarts
  <2>2. ASSUME NEW j \in Jobs, NEW c \in Conclusions, JobEnds(j, c) PROVE JobsKept
    BY <2>2, JobsStay DEF JobEnds
  <2>3. ASSUME NEW i \in InstanceIds, AgentRegisters(i) PROVE JobsKept
    BY <2>3, JobsStay DEF AgentRegisters
  <2>4. ASSUME NEW i \in InstanceIds,
               InstancePowersOff(i) \/ TerminationCompletes(i) \/ InstancePreempted(i)
        PROVE  JobsKept
    <3>1. \E state : instances' = [instances EXCEPT ![i].state = state, ![i].agent = "gone"]
      BY <2>4 DEF InstancePowersOff, TerminationCompletes, InstancePreempted, InstanceGone
    <3> QED
      BY <3>1, JobsStay
  <2>5. ASSUME NEW r \in RowIds, RunnerExpires(r) PROVE JobsKept
    BY <2>5, JobsStay DEF RunnerExpires, UnchangedWorld
  <2> QED
    BY <2>1, <2>2, <2>3, <2>4, <2>5 DEF World
<1> QED
  BY <1>2, <1>3 DEF Ordinary

\* A handler that has received its delivery works it off from label to label.
LEMMA WebhookOrdinary ==
  ASSUME IInv, IInv', NEW h \in Handlers, Webhook(h),
         \A j \in Jobs, k \in Kinds : ~Receive(h, j, k)
  PROVE  Ordinary
<1> DEFINE me == proc[h]
<1>1. h \in Procs /\ me \in Local /\ h # WarmLoop
  BY ConstantAssumption DEF IInv, TypeOK, Procs
<1> HIDE DEF me
<1>2. JobsKept
  <2>1. UNCHANGED instances
    BY DEF Webhook, RepositoryNotAllowed, AdmissionBlocks, FindWarmIdleRunner, CountActiveRunners,
           RecordQueuedJob, ReserveState, ReserveStatus, RecordJobProgress, ConsumeWarm,
           SyncRunnerStatus, UnchangedWorld
  <2> QED
    BY <2>1, JobsStay
<1>3. EventsKept
  <2>1. UNCHANGED events \/ Processed(h)
    BY DEF Webhook, RepositoryNotAllowed, AdmissionBlocks, FindWarmIdleRunner, CountActiveRunners,
           RecordQueuedJob, ReserveState, ReserveStatus, RecordJobProgress, ConsumeWarm,
           SyncRunnerStatus, UnchangedStore
  <2> QED
    BY <2>1, EventsMarked
<1>4. ASSUME NEW local, NEW label, Continue(h, local, label), local.job = me.job, local.kind = me.kind,
             Serving(h), label \in Early => me.pc \in Early,
             label \in QueuedOnly => me.pc \in QueuedOnly \/ me.kind = "queued"
      PROVE  AllFollow
  BY <1>1, <1>4, MoveFollows DEF me
<1>5. ASSUME RepositoryNotAllowed(h) \/ ReserveStatus(h) PROVE AllFollow
  BY <1>1, <1>5, StopFollows DEF RepositoryNotAllowed, ReserveStatus
<1>6. ASSUME AdmissionBlocks(h) PROVE AllFollow
  <2>1. /\ Continue(h, [me EXCEPT !.verdict = "blocked"], "tracked")
        /\ me.pc = "start" /\ me.kind = "queued"
    BY <1>6 DEF AdmissionBlocks, At, me
  <2> QED
    BY <1>1, <1>4, <2>1 DEF Local, Serving, At, Early, me
<1>7. ASSUME FindWarmIdleRunner(h) PROVE AllFollow
  <2>1. /\ Continue(h, me, "count") \/ \E c : Continue(h, [me EXCEPT !.cur = c], "count")
        /\ me.pc = "start" /\ me.kind = "queued" /\ Serving(h)
    BY <1>7 DEF FindWarmIdleRunner, At, Serving, me
  <2>2. \A c : [me EXCEPT !.cur = c].job = me.job /\ [me EXCEPT !.cur = c].kind = me.kind
    BY <1>1 DEF Local
  <2> QED
    BY <1>4, <2>1, <2>2 DEF Early
<1>8. ASSUME CountActiveRunners(h) PROVE AllFollow
  <2>1. /\ \E v : Continue(h, [me EXCEPT !.verdict = v], "tracked")
        /\ me.pc = "count" \/ (me.pc = "start" /\ me.kind = "queued")
        /\ Serving(h)
    BY <1>8 DEF CountActiveRunners, At, Serving, me
  <2>2. \A v : [me EXCEPT !.verdict = v].job = me.job /\ [me EXCEPT !.verdict = v].kind = me.kind
    BY <1>1 DEF Local
  <2> QED
    BY <1>4, <2>1, <2>2 DEF Early, QueuedOnly
<1>9. ASSUME RecordQueuedJob(h) PROVE AllFollow
  <2>1. /\ Stop(h) \/ \E label \in {"reserve_state", "launch"} : Continue(h, me, label)
        /\ me.pc = "tracked" /\ Serving(h)
    BY <1>9 DEF RecordQueuedJob, At, Serving, me
  <2> QED
    BY <1>1, <1>4, <2>1, StopFollows DEF Early, QueuedOnly
<1>10. ASSUME ReserveState(h) PROVE AllFollow
  <2>1. Continue(h, me, "reserve_status") /\ me.pc = "reserve_state" /\ Serving(h)
    BY <1>10 DEF ReserveState, At, Serving, me
  <2> QED
    BY <1>4, <2>1 DEF Early, QueuedOnly
<1>11. ASSUME RecordJobProgress(h) PROVE AllFollow
  <2>1. /\ Stop(h) \/ \E c, label : /\ label \in {"consume", "set_status"}
                                    /\ Continue(h, [me EXCEPT !.cur = c], label)
        /\ Serving(h)
    BY <1>11 DEF RecordJobProgress, At, Serving, me
  <2>2. \A c : [me EXCEPT !.cur = c].job = me.job /\ [me EXCEPT !.cur = c].kind = me.kind
    BY <1>1 DEF Local
  <2> QED
    BY <1>1, <1>4, <2>1, <2>2, StopFollows DEF Early, QueuedOnly
<1>12. ASSUME ConsumeWarm(h) \/ SyncRunnerStatus(h) PROVE AllFollow
  <2>1. /\ \/ Stop(h) \/ Continue(h, me, "set_status")
           \/ Continue(h, [me EXCEPT !.cur = NoSnapshot], "list")
        /\ Serving(h)
    BY <1>12 DEF ConsumeWarm, SyncRunnerStatus, At, Serving, me
  <2>2. \A c : [me EXCEPT !.cur = c].job = me.job /\ [me EXCEPT !.cur = c].kind = me.kind
    BY <1>1 DEF Local
  <2> QED
    BY <1>1, <1>4, <2>1, <2>2, StopFollows DEF Early, QueuedOnly
<1>13. AllFollow
  BY <1>5, <1>6, <1>7, <1>8, <1>9, <1>10, <1>11, <1>12 DEF Webhook
<1> QED
  BY <1>2, <1>3, <1>13 DEF Ordinary

\* Launches that fail or have succeeded end the delivery or go on to the next target.
LEMMA LaunchOrdinary ==
  ASSUME IInv, IInv', proc[WarmLoop].job = NoJob, NEW p \in Handlers \union {WarmLoop},
         LaunchFails(p) \/ CreateRunner(p) \/ CreateRunnerFails(p)
  PROVE  Ordinary
<1>1. p \in Procs /\ WarmLoop \in Procs /\ proc[WarmLoop] \in Local
  BY DEF IInv, TypeOK, Procs
<1>2. JobsKept
  <2>1. UNCHANGED instances
    BY DEF LaunchFails, CreateRunner, CreateRunnerFails, LaunchError, UnchangedWorld
  <2> QED
    BY <2>1, JobsStay
<1>3. EventsKept
  <2>1. UNCHANGED events \/ Processed(p)
    BY DEF LaunchFails, CreateRunner, CreateRunnerFails, LaunchError
  <2> QED
    BY <2>1, EventsMarked
<1>4. AllFollow
  <2>1. Stop(p) \/ NextTarget(proc[WarmLoop])
    BY DEF LaunchFails, CreateRunner, CreateRunnerFails, LaunchError
  <2> QED
    BY <1>1, <2>1, StopFollows, NextTargetFollows
<1> QED
  BY <1>2, <1>3, <1>4 DEF Ordinary

\* A cleanup pass, run by a handler of a completed job or by others, starts no
\* delivery and launches nothing.
LEMMA CleanupOrdinary ==
  ASSUME IInv, IInv', NEW p \in Handlers \union Sweepers, Cleanup(p)
  PROVE  Ordinary
<1> DEFINE me == proc[p]
<1>1. p \in Procs /\ me \in Local /\ p # WarmLoop /\ (p \in Handlers => p \notin Sweepers)
  BY ConstantAssumption DEF IInv, TypeOK, Procs, Sweepers
<1> HIDE DEF me
<1>2. JobsKept
  <2>1. \/ UNCHANGED instances
        \/ \E i : DeleteRepoRunner(i) \/ RequestTermination(i)
    BY DEF Cleanup, ListCleanupCandidates, TakeCandidate, FindInstanceEnded, CloseRunner,
           TerminateRunner, TerminateFails, MarkTerminating, RowWriteFails, EndSweep, SweepFails,
           UnchangedWorld
  <2> QED
    BY <2>1, JobsStay
<1>3. EventsKept
  <2>1. UNCHANGED events \/ Processed(p)
    BY DEF Cleanup, ListCleanupCandidates, TakeCandidate, FindInstanceEnded, CloseRunner,
           TerminateRunner, TerminateFails, MarkTerminating, RowWriteFails, EndSweep, SweepFails,
           UnchangedStore
  <2> QED
    BY <2>1, EventsMarked
<1>4. Stop(p) \/ \E todo, cur : \E label \in {"sweep", "get", "close", "mark"} :
                    Continue(p, [me EXCEPT !.todo = todo, !.cur = cur], label)
  <2>1. ASSUME NEW todo PROVE [me EXCEPT !.todo = todo] = [me EXCEPT !.todo = todo, !.cur = me.cur]
    BY <1>1 DEF Local
  <2>2. ASSUME NEW cur PROVE [me EXCEPT !.cur = cur] = [me EXCEPT !.todo = me.todo, !.cur = cur]
    BY <1>1 DEF Local
  <2>3. me = [me EXCEPT !.todo = me.todo, !.cur = me.cur]
    BY <1>1 DEF Local
  <2>4. CASE ListCleanupCandidates(p)
    BY <2>1, <2>4 DEF ListCleanupCandidates, me
  <2>5. CASE TakeCandidate(p)
    BY <2>5 DEF TakeCandidate, me
  <2>6. CASE CloseRunner(p) \/ TerminateFails(p) \/ MarkTerminating(p) \/ RowWriteFails(p)
    BY <2>2, <2>6 DEF CloseRunner, TerminateFails, MarkTerminating, RowWriteFails, NextCandidate, me
  <2>7. CASE FindInstanceEnded(p) \/ TerminateRunner(p)
    <3>1. \E label \in {"close", "mark"} : Continue(p, me, label)
      BY <2>7 DEF FindInstanceEnded, TerminateRunner, me
    <3>2. PICK label \in {"close", "mark"} : Continue(p, [me EXCEPT !.todo = me.todo, !.cur = me.cur], label)
      BY <2>3, <3>1
    <3> QED
      BY <3>2
  <2>8. CASE EndSweep(p) \/ SweepFails(p)
    BY <2>8 DEF EndSweep, SweepFails
  <2> QED
    BY <2>4, <2>5, <2>6, <2>7, <2>8 DEF Cleanup
<1>5. p \in Handlers => Serving(p)
  BY <1>1 DEF Cleanup, ListCleanupCandidates, TakeCandidate, FindInstanceEnded, CloseRunner,
              TerminateRunner, TerminateFails, MarkTerminating, RowWriteFails, EndSweep,
              SweepFails, Serving, At
<1>6. \A todo, cur : /\ [me EXCEPT !.todo = todo, !.cur = cur].job = me.job
                     /\ [me EXCEPT !.todo = todo, !.cur = cur].kind = me.kind
  BY <1>1 DEF Local
<1>7. AllFollow
  <2>1. CASE Stop(p)
    BY <1>1, <2>1, StopFollows
  <2>2. ASSUME NEW todo, NEW cur, NEW label \in {"sweep", "get", "close", "mark"},
               Continue(p, [me EXCEPT !.todo = todo, !.cur = cur], label)
        PROVE  AllFollow
    <3> DEFINE local == [me EXCEPT !.todo = todo, !.cur = cur]
    <3>1. local.job = me.job /\ local.kind = me.kind /\ Continue(p, local, label)
      BY <1>6, <2>2
    <3> HIDE DEF local
    <3>2. label \notin Early /\ label \notin QueuedOnly
      BY DEF Early, QueuedOnly
    <3> QED
      BY <1>1, <1>5, <3>1, <3>2, MoveFollows DEF me
  <2> QED
    BY <1>4, <2>1, <2>2
<1> QED
  BY <1>2, <1>3, <1>7 DEF Ordinary

\* So does a request to the admin endpoint.
LEMMA AdminOrdinary ==
  ASSUME IInv, IInv', NEW p \in Operators, Admin(p)
  PROVE  Ordinary
<1>1. p \in Procs /\ p \notin Handlers /\ p # WarmLoop
  BY ConstantAssumption DEF Procs, Sweepers
<1>2. Stop(p) \/ \E local, label : Continue(p, local, label)
  BY DEF Admin, AdminTerminate, AdminTerminateInstance, AdminMark
<1>3. /\ UNCHANGED events
      /\ UNCHANGED instances \/ \E i : RequestTermination(i)
  BY DEF Admin, AdminTerminate, AdminTerminateInstance, AdminMark, UnchangedStore, UnchangedWorld
<1> QED
  BY <1>1, <1>2, <1>3, StopFollows, MoveFollows, EventsMarked, JobsStay DEF Ordinary

\* The warm pool works for no job.
LEMMA WarmPoolOrdinary ==
  ASSUME IInv, IInv', proc[WarmLoop].job = NoJob, WarmPool
  PROVE  Ordinary
<1> DEFINE me == proc[WarmLoop]
<1>1. WarmLoop \in Procs /\ me \in Local /\ WarmLoop \notin Handlers /\ me.job = NoJob
  BY ConstantAssumption DEF IInv, TypeOK, Procs
<1> HIDE DEF me
<1>2. UNCHANGED <<events, instances>>
  BY DEF WarmPool, ListWarming, ProbeWarming, SetWarmStatus, SetWarmIdle, FindActiveWarmRunner,
         CountForWarmTarget, UnchangedStore, UnchangedWorld
<1>3. ASSUME NEW local, NEW label, Continue(WarmLoop, local, label), local.job = NoJob
      PROVE  AllFollow
  BY <1>1, <1>3, MoveFollows
<1>4. CASE ListWarming
  <2>1. PICK todo : Continue(WarmLoop, [Idle EXCEPT !.todo = todo, !.targets = WarmPolicies], "warm_scan")
    BY <1>4 DEF ListWarming
  <2>2. [Idle EXCEPT !.todo = todo, !.targets = WarmPolicies].job = NoJob
    BY DEF Idle
  <2> QED
    BY <1>2, <1>3, <2>1, <2>2, EventsMarked, JobsStay DEF Ordinary
<1>5. CASE ProbeWarming
  <2>1. \E todo : \/ Continue(WarmLoop, [me EXCEPT !.todo = todo], "warm_scan")
                  \/ \E c : Continue(WarmLoop, [[me EXCEPT !.todo = todo] EXCEPT !.cur = c], "warm_status")
    BY <1>5 DEF ProbeWarming, me
  <2>2. \A todo, c : /\ [me EXCEPT !.todo = todo].job = NoJob
                     /\ [[me EXCEPT !.todo = todo] EXCEPT !.cur = c].job = NoJob
    BY <1>1 DEF Local
  <2> QED
    BY <1>2, <1>3, <2>1, <2>2, EventsMarked, JobsStay DEF Ordinary
<1>6. CASE SetWarmStatus \/ SetWarmIdle
  <2>1. \/ Continue(WarmLoop, me, "warm_state")
        \/ Continue(WarmLoop, [me EXCEPT !.cur = NoSnapshot], "warm_scan")
    BY <1>6 DEF SetWarmStatus, SetWarmIdle, me
  <2>2. [me EXCEPT !.cur = NoSnapshot].job = NoJob
    BY <1>1 DEF Local
  <2> QED
    BY <1>1, <1>2, <1>3, <2>1, <2>2, EventsMarked, JobsStay DEF Ordinary
<1>7. CASE FindActiveWarmRunner
  <2>1. PICK q \in me.targets :
          LET rest == [me EXCEPT !.targets = @ \ {q}, !.policy = q]
          IN  NextTarget(rest) \/ Continue(WarmLoop, rest, "warm_count")
    BY <1>7 DEF FindActiveWarmRunner, me
  <2> DEFINE rest == [me EXCEPT !.targets = @ \ {q}, !.policy = q]
  <2>2. rest \in Local /\ rest.job = NoJob
    BY <1>1, <2>1 DEF Local
  <2>3. NextTarget(rest) \/ Continue(WarmLoop, rest, "warm_count")
    BY <2>1
  <2> HIDE DEF rest
  <2> QED
    BY <1>2, <1>3, <2>2, <2>3, NextTargetFollows, EventsMarked, JobsStay DEF Ordinary
<1>8. CASE CountForWarmTarget
  <2>1. NextTarget(me) \/ Continue(WarmLoop, me, "launch")
    BY <1>8 DEF CountForWarmTarget, me
  <2> QED
    BY <1>1, <1>2, <1>3, <2>1, NextTargetFollows, EventsMarked, JobsStay DEF Ordinary
<1> QED
  BY <1>4, <1>5, <1>6, <1>7, <1>8 DEF WarmPool

\* Only the arrival of a delivery and a launch change who works for which job.
LEMMA NextOrdinary ==
  ASSUME IInv, IInv', JInv, [Next]_vars
  PROVE  \/ Ordinary
         \/ \E h \in Handlers, j \in Jobs, k \in Kinds : Receive(h, j, k)
         \/ \E p \in Handlers \union {WarmLoop} : LaunchInstance(p)
<1>1. ASSUME UNCHANGED vars PROVE Ordinary
  BY <1>1, EventsMarked, StayFollows, JobsStay DEF vars, Ordinary
<1>2. ASSUME NEW p \in Procs, Abort(p) PROVE Ordinary
  <2>1. UNCHANGED <<events, instances>> /\ Stop(p)
    BY <1>2 DEF Abort, UnchangedStore, UnchangedWorld
  <2> QED
    BY <2>1, EventsMarked, StopFollows, JobsStay DEF Ordinary
<1>3. proc[WarmLoop].job = NoJob
  BY DEF JInv
<1>4. ASSUME NEW p \in Handlers \union {WarmLoop}, Launch(p)
      PROVE  Ordinary \/ LaunchInstance(p)
  BY <1>3, <1>4, LaunchOrdinary DEF Launch
<1> QED
  BY <1>1, <1>2, <1>3, <1>4, WorldOrdinary, WebhookOrdinary, CleanupOrdinary, AdminOrdinary,
     WarmPoolOrdinary DEF Next

-----------------------------------------------------------------------------
(* The invariant                                                            *)

LEMMA InitJobs == Init => JInv
<1> SUFFICES ASSUME Init PROVE JInv
  OBVIOUS
<1>1. \A p \in Procs : proc[p] = Idle
  BY DEF Init
<1>2. Handlers \subseteq Procs /\ WarmLoop \in Procs
  BY DEF Procs
<1>3. Idle.pc = "idle" /\ Idle.job = NoJob
  BY DEF Idle
<1>4. ServedOnce
  BY <1>1, <1>2, <1>3 DEF ServedOnce, Serving, At
<1>5. \A i \in InstanceIds : instances[i].job = NoJob
  BY DEF Init, NoInstance
<1>6. \A h \in Handlers : proc[h].pc \notin Early
  BY <1>1, <1>2, <1>3 DEF Early
<1>7. LaunchedOnce
  BY <1>5, <1>6, ConstantAssumption DEF LaunchedOnce
<1> QED
  BY <1>1, <1>2, <1>3, <1>4, <1>7 DEF JInv

LEMMA OrdinaryJobs ==
  ASSUME IInv, JInv, Ordinary
  PROVE  JInv'
<1>1. ASSUME NEW h \in Handlers, Serving(h)'
      PROVE  Serving(h) /\ Follows(h) /\ Delivery(h)' = Delivery(h)
  BY <1>1 DEF Ordinary, AllFollow, Follows, Serving, At, Delivery
<1>2. ServedOnce'
  <2>1. ASSUME NEW h \in Handlers, Serving(h)'
        PROVE  /\ Delivery(h)' \in Deliveries /\ events'[Delivery(h)'] # "none"
               /\ proc'[h].pc \in QueuedOnly => proc'[h].kind = "queued"
    <3>1. Serving(h) /\ Follows(h) /\ Delivery(h)' = Delivery(h)
      BY <1>1, <2>1
    <3>2. proc'[h].pc # "idle"
      BY <2>1 DEF Serving, At
    <3> QED
      BY <3>1, <3>2 DEF JInv, ServedOnce, Follows, Ordinary, EventsKept
  <2>2. ASSUME NEW g \in Handlers, NEW h \in Handlers, Serving(g)', Serving(h)',
               Delivery(g)' = Delivery(h)'
        PROVE  g = h
    BY <1>1, <2>2 DEF JInv, ServedOnce
  <2> QED
    BY <2>1, <2>2 DEF ServedOnce
<1>3. LaunchedOnce'
  <2>1. \A i \in InstanceIds : instances'[i].job = instances[i].job
    BY DEF Ordinary, JobsKept
  <2>2. ASSUME NEW h \in Handlers, NEW i \in InstanceIds, proc'[h].pc \in Early, proc'[h].kind = "queued"
        PROVE  instances'[i].job # proc'[h].job
    <3>1. Follows(h)
      BY DEF Ordinary, AllFollow
    <3>2. proc'[h].pc # "idle"
      BY <2>2 DEF Early
    <3> QED
      BY <2>1, <2>2, <3>1, <3>2 DEF Follows, JInv, LaunchedOnce
  <2> QED
    BY <2>1, <2>2 DEF LaunchedOnce, JInv, Ordinary, EventsKept
<1> QED
  BY <1>2, <1>3 DEF JInv, Ordinary, AllFollow

\* A delivery that is new is served by nobody, and if it is a queued one no machine
\* has been launched for its job.
LEMMA ReceiveJobs ==
  ASSUME IInv, IInv', JInv, NEW h \in Handlers, NEW j \in Jobs, NEW k \in Kinds, Receive(h, j, k)
  PROVE  JInv'
<1> DEFINE d == <<j, k>>
<1>1. CASE ~IsNew(d)
  <2>1. UNCHANGED <<events, proc, instances>>
    BY <1>1 DEF Receive, UnchangedWorld
  <2>2. Ordinary
    BY <2>1, EventsMarked, StayFollows, JobsStay DEF Ordinary
  <2> QED
    BY <2>2, OrdinaryJobs
<1>2. CASE IsNew(d)
  <2>1. /\ events \in [Deliveries -> {"none", "received", "processed"}]
        /\ proc \in [Procs -> Local] /\ proc' \in [Procs -> Local]
        /\ h \in Procs /\ h # WarmLoop /\ d \in Deliveries
        /\ Handlers \subseteq Procs /\ WarmLoop \in Procs
    BY ConstantAssumption DEF IInv, TypeOK, Procs, Deliveries
  <2>2. /\ events[d] = "none" /\ events' = [events EXCEPT ![d] = "received"]
        /\ UNCHANGED instances
    BY <1>2 DEF Receive, IsNew, UnchangedWorld
  <2>3. /\ proc'[h] = [Idle EXCEPT !.job = j, !.kind = k, !.policy = PolicyOf[j], !.pc = "start"]
        /\ \A q \in Procs : q # h => proc'[q] = proc[q]
    BY <1>2, <2>1 DEF Receive, Continue
  <2>4. proc'[h].pc = "start" /\ proc'[h].job = j /\ proc'[h].kind = k
    BY <2>3 DEF Idle
  <2>5. Delivery(h)' = d
    BY <2>4 DEF Delivery
  <2>6. \A g \in Handlers : g # h => /\ Serving(g)' <=> Serving(g)
                                     /\ Delivery(g)' = Delivery(g)
                                     /\ Serving(g) => Delivery(g) # d
    BY <2>1, <2>2, <2>3 DEF Serving, At, Delivery, JInv, ServedOnce
  <2>7. events'[d] # "none" /\ EventsKept
    BY <2>1, <2>2 DEF EventsKept
  <2>8. ServedOnce'
    <3>1. ASSUME NEW g \in Handlers, Serving(g)'
          PROVE  /\ Delivery(g)' \in Deliveries /\ events'[Delivery(g)'] # "none"
                 /\ proc'[g].pc \in QueuedOnly => proc'[g].kind = "queued"
      <4>1. CASE g = h
        BY <2>1, <2>4, <2>5, <2>7, <4>1 DEF QueuedOnly
      <4>2. CASE g # h
        BY <2>1, <2>3, <2>6, <2>7, <3>1, <4>2 DEF JInv, ServedOnce, EventsKept
      <4> QED
        BY <4>1, <4>2
    <3>2. ASSUME NEW f \in Handlers, NEW g \in Handlers, Serving(f)', Serving(g)',
                 Delivery(f)' = Delivery(g)'
          PROVE  f = g
      BY <2>5, <2>6, <3>2 DEF JInv, ServedOnce
    <3> QED
      BY <3>1, <3>2 DEF ServedOnce
  <2>9. LaunchedOnce'
    <3>1. ASSUME NEW g \in Handlers, NEW i \in InstanceIds, proc'[g].pc \in Early, proc'[g].kind = "queued"
          PROVE  instances'[i].job # proc'[g].job
      <4>1. CASE g = h
        BY <2>2, <2>4, <3>1, <4>1 DEF JInv, LaunchedOnce
      <4>2. CASE g # h
        BY <2>1, <2>2, <2>3, <3>1, <4>2 DEF JInv, LaunchedOnce
      <4> QED
        BY <4>1, <4>2
    <3> QED
      BY <2>2, <2>7, <3>1 DEF LaunchedOnce, JInv, EventsKept
  <2>10. proc'[WarmLoop].job = NoJob
    BY <2>1, <2>3 DEF JInv
  <2> QED
    BY <2>8, <2>9, <2>10 DEF JInv
<1> QED
  BY <1>1, <1>2

\* A launch for a job is the first one for it, and the last.
LEMMA LaunchJobs ==
  ASSUME IInv, IInv', JInv, NEW p \in Handlers \union {WarmLoop}, LaunchInstance(p)
  PROVE  JInv'
<1> DEFINE n == lastInstance + 1
<1>1. /\ instances \in [InstanceIds -> Instance] /\ proc \in [Procs -> Local]
      /\ p \in Procs /\ Handlers \subseteq Procs /\ WarmLoop \in Procs /\ WarmLoop \notin Handlers
  BY ConstantAssumption DEF IInv, TypeOK, Procs
<1>2. /\ At(p, "launch") /\ UNCHANGED events
      /\ instances' = [instances EXCEPT ![n] = [state |-> "RUNNING", policy |-> proc[p].policy,
                                                job |-> proc[p].job, agent |-> "booting"]]
      /\ proc' = [proc EXCEPT ![p] = [[proc[p] EXCEPT !.instance = n] EXCEPT !.pc = "insert"]]
  BY DEF LaunchInstance, Continue, UnchangedStore
<1> HIDE DEF n
<1>3. \A i \in InstanceIds : instances'[i].job = IF i = n THEN proc[p].job ELSE instances[i].job
  BY <1>1, <1>2
<1>4. /\ proc[p].pc = "launch" /\ proc'[p].pc = "insert"
      /\ proc'[p].job = proc[p].job /\ proc'[p].kind = proc[p].kind
      /\ \A q \in Procs : q # p => proc'[q] = proc[q]
  BY <1>1, <1>2 DEF At, Local
<1>5. \A g \in Handlers : (Serving(g)' <=> Serving(g)) /\ Delivery(g)' = Delivery(g)
  BY <1>1, <1>4 DEF Serving, At, Delivery
<1>6. ServedOnce'
  <2>1. \A g \in Handlers : proc'[g].pc \in QueuedOnly => proc[g].pc \in QueuedOnly
    BY <1>1, <1>4 DEF QueuedOnly
  <2>2. \A g \in Handlers : proc'[g].kind = proc[g].kind
    BY <1>1, <1>4
  <2> QED
    BY <1>2, <1>5, <2>1, <2>2 DEF JInv, ServedOnce
<1>7. CASE p = WarmLoop
  <2>1. \A i \in InstanceIds : instances'[i].job \in Jobs => instances'[i].job = instances[i].job
    BY <1>3, <1>7, ConstantAssumption DEF JInv
  <2>2. \A g \in Handlers : proc'[g] = proc[g]
    BY <1>1, <1>4, <1>7
  <2>3. \A g \in Handlers : proc[g].pc \in Early /\ proc[g].kind = "queued" => proc[g].job \in Jobs
    BY DEF JInv, ServedOnce, Serving, At, Delivery, Deliveries, Early
  <2>4. LaunchedOnce'
    <3>1. ASSUME NEW i \in InstanceIds, instances'[i].job \in Jobs
          PROVE  /\ <<instances'[i].job, "queued">> \in Deliveries
                 /\ events'[<<instances'[i].job, "queued">>] # "none"
      BY <1>2, <2>1, <3>1 DEF LaunchedOnce, JInv
    <3>2. ASSUME NEW g \in Handlers, NEW i \in InstanceIds, proc'[g].pc \in Early, proc'[g].kind = "queued"
          PROVE  instances'[i].job # proc'[g].job
      <4>1. proc[g].job \in Jobs /\ instances[i].job # proc[g].job /\ proc'[g].job = proc[g].job
        BY <2>2, <2>3, <3>2 DEF LaunchedOnce, JInv
      <4> QED
        BY <2>1, <4>1
    <3>3. ASSUME NEW i \in InstanceIds, NEW k \in InstanceIds, instances'[i].job \in Jobs,
                 instances'[i].job = instances'[k].job
          PROVE  i = k
      BY <2>1, <3>3 DEF LaunchedOnce, JInv
    <3> QED
      BY <3>1, <3>2, <3>3 DEF LaunchedOnce
  <2> QED
    BY <1>1, <1>4, <1>6, <2>4 DEF JInv
<1>8. CASE p \in Handlers
  <2> DEFINE j == proc[p].job
  <2>1. /\ Serving(p) /\ proc[p].kind = "queued" /\ j \in Jobs
        /\ <<j, "queued">> \in Deliveries /\ events[<<j, "queued">>] # "none"
    BY <1>4, <1>8 DEF JInv, ServedOnce, Serving, At, QueuedOnly, Delivery, Deliveries
  <2>2. \A i \in InstanceIds : instances[i].job # j
    BY <1>4, <1>8, <2>1 DEF JInv, LaunchedOnce, Early
  <2> HIDE DEF j
  <2>3. ASSUME NEW g \in Handlers, NEW i \in InstanceIds, proc'[g].pc \in Early, proc'[g].kind = "queued"
        PROVE  instances'[i].job # proc'[g].job
    <3>1. g # p
      BY <1>4, <2>3 DEF Early
    <3>2. proc'[g] = proc[g] /\ proc[g].pc \in Early /\ proc[g].kind = "queued" /\ Serving(g)
      BY <1>1, <1>4, <2>3, <3>1 DEF Early, Serving, At
    <3>3. proc[g].job # j
      BY <1>8, <2>1, <3>1, <3>2 DEF JInv, ServedOnce, Delivery, j
    <3> QED
      BY <1>3, <3>2, <3>3 DEF JInv, LaunchedOnce, j
  <2>4. LaunchedOnce'
    <3>1. \A i \in InstanceIds : instances'[i].job = IF i = n THEN j ELSE instances[i].job
      BY <1>3 DEF j
    <3> QED
      BY <1>2, <2>1, <2>2, <2>3, <3>1 DEF LaunchedOnce, JInv
  <2> QED
    BY <1>1, <1>4, <1>6, <1>8, <2>4 DEF JInv
<1> QED
  BY <1>7, <1>8

LEMMA JobsInOrder == Spec => []JInv
<1>1. JInv /\ IInv /\ IInv' /\ [Next]_vars => JInv'
  BY NextOrdinary, OrdinaryJobs, ReceiveJobs, LaunchJobs
<1> QED
  BY <1>1, InitJobs, Invariance, PTL DEF Spec

\* However often, in whatever order and by however many handlers its deliveries are
\* served, and wherever a handler is aborted, a job is given one machine at most.
THEOREM OneMachineEach == Spec => []OneMachinePerJob
<1>1. ASSUME JInv PROVE OneMachinePerJob
  <2> SUFFICES ASSUME NEW j \in Jobs
               PROVE  Cardinality({i \in InstanceIds : instances[i].job = j}) <= 1
    BY DEF OneMachinePerJob
  <2> DEFINE S == {i \in InstanceIds : instances[i].job = j}
  <2>1. \A i, k \in S : i = k
    BY <1>1 DEF JInv, LaunchedOnce
  <2> HIDE DEF S
  <2>2. CASE S = {}
    <3>1. Cardinality(S) = 0
      BY <2>2, FS_EmptySet
    <3> QED
      BY <3>1 DEF S
  <2>3. CASE S # {}
    <3>1. PICK i : S = {i}
      BY <2>1, <2>3
    <3>2. Cardinality(S) = 1
      BY <3>1, FS_Singleton
    <3> QED
      BY <3>2 DEF S
  <2> QED
    BY <2>2, <2>3
<1> QED
  BY <1>1, JobsInOrder, PTL

-----------------------------------------------------------------------------
(* Decisions on old rows: the inductive invariant                           *)

HandedOut(r) == runners[r].warmState \in {"reserved", "consumed"}

\* The warm runner has registered: it is in the pool, or has left it for good.
Offered(r) == runners[r].warmState \in {"warm_idle", "reserved", "consumed"}

IsWarm(r) == runners[r].source = "warm"

\* The job of r is over, with conclusion c.
Concluded(r, c) == JobIsOver(r) /\ github[runners[r].job].conclusion = c

RowTruth(r) ==
  /\ IsWarm(r) /\ runners[r].job # NoJob => HandedOut(r)
  /\ Offered(r) => Present(r)
  /\ ~IsWarm(r) /\ runners[r].status \in Conclusions => Concluded(r, runners[r].status)

\* There is cause to terminate runner r, if it serves one job only.
Doomed(r) == IsWarm(r) \/ runners[r].expired \/ JobIsOver(r)

\* The conclusion in a snapshot is the one of the runner's job.
Truthful(s) == IsWarm(s.row) \/ (s.status \in Conclusions => Concluded(s.row, s.status))

\* What goroutine p can still rely on of the rows that it has read.
Sees(p, local, label) ==
  /\ p # WarmLoop => \A s \in local.todo : Doomed(s.row) /\ Truthful(s)
  /\ label = "get" => Doomed(local.cur.row)
  /\ local.cur.row \in RowIds =>
       /\ p \in Handlers /\ label \in {"start", "count", "tracked", "reserve_state"}
            => IsWarm(local.cur.row) /\ Offered(local.cur.row)
       /\ label = "consume" => IsWarm(local.cur.row) /\ HandedOut(local.cur.row)
       /\ label = "set_status" => IsWarm(local.cur.row) \/ runners[local.cur.row].job = local.job
  /\ p = WarmLoop =>
       /\ \A s \in local.todo : ~Offered(s.row)
       /\ \A s, t \in local.todo : s.row = t.row => s = t
       /\ label \in {"warm_status", "warm_state"} =>
            /\ local.cur.row \in RowIds /\ ~Offered(local.cur.row)
            /\ \A s \in local.todo : s.row # local.cur.row

KInv ==
  /\ \A r \in RowIds : RowTruth(r)
  /\ \A p \in Procs : Sees(p, proc[p], proc[p].pc)

-----------------------------------------------------------------------------
(* What a step does to rows and jobs                                        *)

\* A job that is over stays over, with its conclusion.
JobsFinal ==
  \A j \in Jobs : github[j].phase = "done" =>
    github'[j].phase = "done" /\ github'[j].conclusion = github[j].conclusion

\* The rows that a goroutine may have read keep what it can rely on; x is the row, if
\* any, that the step puts into the warm pool.
Lasting(x) ==
  \A r \in RowIds : Present(r) =>
    /\ runners'[r].source = runners[r].source
    /\ ~IsWarm(r) => runners'[r].job = runners[r].job
    /\ runners[r].expired => runners'[r].expired
    /\ Offered(r) => Offered(r)'
    /\ HandedOut(r) => HandedOut(r)'
    /\ r # x => (Offered(r)' => Offered(r))

Truths == \A r \in RowIds : RowTruth(r)'

HandedKept == \A r \in RowIds : HandedOut(r) => HandedOut(r)'

\* A conclusion that holds for a row goes on to hold.
LEMMA ConclusionsLast ==
  ASSUME IInv, JobsFinal, NEW x, Lasting(x), NEW r \in RowIds, Present(r), ~IsWarm(r)
  PROVE  /\ ~IsWarm(r)'
         /\ JobIsOver(r) => JobIsOver(r)'
         /\ \A c : Concluded(r, c) => Concluded(r, c)'
<1>1. ~IsWarm(r)' /\ runners'[r].job = runners[r].job
  BY DEF Lasting, IsWarm
<1>2. runners[r].job \in Jobs \union {NoJob}
  BY DEF IInv, TypeOK, Runner
<1>3. JobIsOver(r) => runners[r].job \in Jobs /\ github[runners[r].job].phase = "done"
  BY <1>2 DEF JobIsOver
<1>4. JobIsOver(r) => JobIsOver(r)' /\ github'[runners'[r].job].conclusion = github[runners[r].job].conclusion
  BY <1>1, <1>3 DEF JobsFinal, JobIsOver
<1> QED
  BY <1>1, <1>4 DEF Concluded

\* The rows that a goroutine has read are in the table.
Reads(local, label) ==
  /\ \A s \in local.todo : Present(s.row)
  /\ local.cur.row \in RowIds => Present(local.cur.row)
  /\ label = "get" => local.cur.row \in RowIds

\* What a goroutine relies on lasts.
LEMMA SeesKept ==
  ASSUME IInv, JobsFinal, NEW x, Lasting(x),
         NEW p, NEW local \in Local, NEW label, Reads(local, label), Sees(p, local, label),
         p = WarmLoop =>
           /\ \A s \in local.todo : s.row # x
           /\ label \in {"warm_status", "warm_state"} => local.cur.row # x
  PROVE  Sees(p, local, label)'
<1>1. \A s \in local.todo : s.row \in RowIds /\ Present(s.row)
  BY DEF Local, Snapshot, Reads
<1>2. local.cur.row \in RowIds => Present(local.cur.row)
  BY DEF Reads
<1>3. ASSUME NEW r \in RowIds, Present(r)
      PROVE  /\ IsWarm(r)' <=> IsWarm(r)
             /\ Doomed(r) => Doomed(r)'
             /\ Offered(r) => Offered(r)'
             /\ HandedOut(r) => HandedOut(r)'
             /\ r # x /\ ~Offered(r) => ~Offered(r)'
             /\ ~IsWarm(r) => runners'[r].job = runners[r].job
             /\ ~IsWarm(r) => \A c : Concluded(r, c) => Concluded(r, c)'
  BY <1>3, ConclusionsLast DEF Lasting, IsWarm, Doomed
<1>4. \A s \in local.todo : /\ Doomed(s.row) => Doomed(s.row)'
                            /\ Truthful(s) => Truthful(s)'
  BY <1>1, <1>3 DEF Truthful
<1>5. label = "get" => local.cur.row \in RowIds
  BY DEF Reads
<1> QED
  BY <1>1, <1>2, <1>3, <1>4, <1>5 DEF Sees

\* A step that keeps the rows' columns true and moves p with what it relies on keeps
\* the invariant.
LEMMA MoveSees ==
  ASSUME IInv, IInv', SInv, KInv, JobsFinal, NEW x, Lasting(x), Truths,
         NEW p \in Procs, NEW local \in Local, NEW label,
         Continue(p, local, label), Reads(local, label), Sees(p, local, label),
         x \in RowIds => p = WarmLoop,
         p = WarmLoop =>
           /\ \A s \in local.todo : s.row # x
           /\ label \in {"warm_status", "warm_state"} => local.cur.row # x
  PROVE  KInv' /\ HandedKept
<1>1. proc \in [Procs -> Local]
  BY DEF IInv, TypeOK
<1>2. /\ proc'[p] = [local EXCEPT !.pc = label]
      /\ \A q \in Procs : q # p => proc'[q] = proc[q]
  BY <1>1 DEF Continue
<1>3. proc'[p].pc = label /\ proc'[p].job = local.job /\ proc'[p].cur = local.cur
      /\ proc'[p].todo = local.todo
  BY <1>2 DEF Local
<1>4. Sees(p, proc[p], proc[p].pc)'
  <2>1. Sees(p, local, label)'
    BY SeesKept
  <2> QED
    BY <1>3, <2>1 DEF Sees
<1>5. ASSUME NEW q \in Procs, q # p, NEW l \in Local, l = proc[q]
      PROVE  Sees(q, proc[q], proc[q].pc)'
  <2>1. Reads(l, l.pc) /\ Sees(q, l, l.pc)
    BY <1>5 DEF SInv, KInv, Knows, Reads
  <2>2. q = WarmLoop => x \notin RowIds
    BY <1>5
  <2>3. q = WarmLoop =>
           /\ \A s \in l.todo : s.row # x
           /\ l.pc \in {"warm_status", "warm_state"} => l.cur.row # x
    BY <2>1, <2>2 DEF Local, Snapshot, Sees
  <2>4. Sees(q, l, l.pc)'
    BY <2>1, <2>3, SeesKept
  <2> QED
    BY <1>2, <1>5, <2>4 DEF Sees
<1>6. HandedKept
  BY DEF HandedKept, KInv, RowTruth, Lasting, HandedOut, Offered
<1> QED
  BY <1>1, <1>4, <1>5, <1>6 DEF KInv, Truths

\* So does a step in which p ends, ...
LEMMA HaltSees ==
  ASSUME IInv, IInv', SInv, KInv, JobsFinal, Lasting(0), Truths, NEW p \in Procs, Stop(p)
  PROVE  KInv' /\ HandedKept
<1>1. Continue(p, Idle, "idle") /\ Idle \in Local
  BY EmptyValues DEF Stop, Continue, Idle
<1>2. Sees(p, Idle, "idle") /\ Reads(Idle, "idle") /\ 0 \notin RowIds
  BY NothingRead DEF Sees, Reads, NoSnapshot
<1> QED
  BY <1>1, <1>2, MoveSees, NothingRead

\* ... or after which p relies on nothing new, ...
LEMMA StepSees ==
  ASSUME IInv, IInv', SInv, KInv, JobsFinal, Lasting(0), Truths,
         NEW p \in Procs, NEW local \in Local, NEW label, Continue(p, local, label),
         label \notin {"start", "count", "tracked", "reserve_state", "consume", "set_status", "get",
                      "warm_status", "warm_state"},
         local.cur \in {proc[p].cur, NoSnapshot}, local.todo \subseteq proc[p].todo
  PROVE  KInv' /\ HandedKept
<1>1. Sees(p, proc[p], proc[p].pc) /\ Knows(p, proc[p], proc[p].pc)
  BY DEF SInv, KInv
<1>2. Sees(p, local, label) /\ Reads(local, label)
  BY <1>1, NothingRead DEF Sees, Reads, Knows
<1>3. 0 \notin RowIds /\ \A s \in local.todo : s.row \in RowIds
  BY NothingRead DEF NoSnapshot, Local, Snapshot
<1> QED
  BY <1>2, <1>3, MoveSees

\* ... the warm pool goes on to its next target, ...
LEMMA NextTargetSees ==
  ASSUME IInv, IInv', SInv, KInv, JobsFinal, Lasting(0), Truths,
         NEW local \in Local, NextTarget(local),
         local.cur = proc[WarmLoop].cur, local.todo = proc[WarmLoop].todo
  PROVE  KInv' /\ HandedKept
<1> DEFINE next == [local EXCEPT !.instance = 0, !.policy = NoPolicy]
<1>1. WarmLoop \in Procs /\ 0 \in 0..MaxInstances
  BY ConstantAssumption DEF Procs
<1>2. next \in Local /\ next.cur = proc[WarmLoop].cur /\ next.todo = proc[WarmLoop].todo
  BY <1>1 DEF Local
<1>3. Stop(WarmLoop) \/ Continue(WarmLoop, next, "warm_scan")
  BY DEF NextTarget
<1> HIDE DEF next
<1> QED
  BY <1>1, <1>2, <1>3, StepSees, HaltSees

\* ... or nobody moves.
LEMMA NoMoveSees ==
  ASSUME IInv, IInv', SInv, KInv, JobsFinal, Lasting(0), Truths, UNCHANGED proc
  PROVE  KInv' /\ HandedKept
<1>1. PICK p : p \in Handlers
  BY ConstantAssumption
<1>2. p \in Procs
  BY <1>1 DEF Procs
<1>3. ASSUME NEW local \in Local, local = proc[p] PROVE KInv' /\ HandedKept
  <2>1. Continue(p, local, local.pc)
    <3>1. proc \in [Procs -> Local] /\ [local EXCEPT !.pc = local.pc] = local
      BY <1>3 DEF IInv, TypeOK, Local
    <3> QED
      BY <1>2, <1>3, <3>1 DEF Continue
  <2>2. Sees(p, local, local.pc) /\ Reads(local, local.pc) /\ 0 \notin RowIds
    BY <1>2, <1>3, NothingRead DEF SInv, KInv, Knows, Reads, NoSnapshot
  <2>3. p # WarmLoop
    BY <1>1, ConstantAssumption
  <2> QED
    BY <1>2, <2>1, <2>2, <2>3, MoveSees
<1> QED
  BY <1>2, <1>3 DEF IInv, TypeOK

-----------------------------------------------------------------------------
(* Writes of rows                                                           *)

\* A step that leaves the rows alone.
LEMMA NoWrite ==
  ASSUME IInv, KInv, JobsFinal, UNCHANGED runners
  PROVE  Lasting(0) /\ Truths
<1>1. Lasting(0)
  BY DEF Lasting, Offered, HandedOut
<1>2. ASSUME NEW r \in RowIds PROVE RowTruth(r)'
  <2>1. RowTruth(r)
    BY DEF KInv
  <2>2. runners[r].status \in Conclusions => Present(r)
    BY ConstantAssumption DEF Present
  <2>3. ~IsWarm(r) /\ runners[r].status \in Conclusions
          => Concluded(r, runners[r].status)'
    BY <1>1, <2>1, <2>2, ConclusionsLast DEF RowTruth
  <2> QED
    BY <2>1, <2>3 DEF RowTruth, IsWarm, HandedOut, Offered, Present, Concluded, JobIsOver
<1> QED
  BY <1>1, <1>2 DEF Truths

\* A write of columns that are neither the job nor the warm state, if the status is no
\* conclusion, or the right one.
LEMMA ColumnWrite ==
  ASSUME IInv, KInv, UNCHANGED github, NEW r, NEW row, runners' = [runners EXCEPT ![r] = row],
         r \in RowIds =>
           /\ Present(r) /\ row.status # "absent"
           /\ row.source = runners[r].source /\ row.job = runners[r].job
           /\ row.warmState = runners[r].warmState /\ (runners[r].expired => row.expired)
           /\ row.status \in Conclusions => IsWarm(r) \/ Concluded(r, row.status)
  PROVE  JobsFinal /\ Lasting(0) /\ Truths
<1>1. ASSUME NEW s \in RowIds
      PROVE  runners'[s] = IF s = r THEN row ELSE runners[s]
  BY DEF IInv, TypeOK
<1>2. JobsFinal
  BY DEF JobsFinal
<1>3. Lasting(0)
  BY <1>1 DEF Lasting, Offered, HandedOut
<1>4. ASSUME NEW s \in RowIds PROVE RowTruth(s)'
  <2>1. RowTruth(s)
    BY DEF KInv
  <2>2. CASE s # r
    BY <1>1, <2>1, <2>2 DEF RowTruth, IsWarm, HandedOut, Offered, Present, Concluded, JobIsOver
  <2>3. CASE s = r
    BY <1>1, <2>1, <2>3 DEF RowTruth, IsWarm, HandedOut, Offered, Present, Concluded, JobIsOver
  <2> QED
    BY <2>2, <2>3
<1> QED
  BY <1>2, <1>3, <1>4 DEF Truths

LEMMA StatusSees ==
  ASSUME IInv, KInv, UNCHANGED github, NEW r, r \in RowIds => Present(r),
         NEW status, status # "absent",
         r \in RowIds /\ status \in Conclusions => IsWarm(r) \/ Concluded(r, status),
         NEW gh, UpdateRunnerStatus(r, status, gh)
  PROVE  JobsFinal /\ Lasting(0) /\ Truths
<1> DEFINE row == WithStatus(runners[r], status, gh)
<1>1. r \in RowIds =>
        /\ row.status = status /\ row.source = runners[r].source /\ row.job = runners[r].job
        /\ row.warmState = runners[r].warmState /\ row.expired = runners[r].expired
  BY DEF IInv, TypeOK, Runner, WithStatus
<1>2. runners' = [runners EXCEPT ![r] = row]
  BY DEF UpdateRunnerStatus
<1> HIDE DEF row
<1> QED
  BY <1>1, <1>2, ColumnWrite

\* A runner that has been offered is handed out, ...
LEMMA HandOutSees ==
  ASSUME IInv, SInv, KInv, UNCHANGED github, NEW r, r \in RowIds => IsWarm(r) /\ Offered(r),
         NEW j, NEW state \in {"reserved", "consumed"}, UpdateRunnerWarmState(r, j, state)
  PROVE  JobsFinal /\ Lasting(0) /\ Truths
<1>1. ASSUME NEW s \in RowIds
      PROVE  /\ runners'[s].source = runners[s].source /\ runners'[s].status = runners[s].status
             /\ runners'[s].expired = runners[s].expired
             /\ s # r => runners'[s] = runners[s]
             /\ s = r => runners'[s].warmState = state
  <2>1. CASE s # r
    BY <2>1 DEF IInv, TypeOK, UpdateRunnerWarmState
  <2>2. CASE s = r
    <3>1. runners'[s] = WithWarmState(runners[s], j, state) /\ runners[s] \in Runner
      BY <2>2 DEF IInv, TypeOK, UpdateRunnerWarmState
    <3> QED
      BY <2>2, <3>1 DEF WithWarmState, Runner
  <2> QED
    BY <2>1, <2>2
<1>2. JobsFinal
  BY DEF JobsFinal
<1>3. Lasting(0)
  BY <1>1 DEF Lasting, Offered, HandedOut, IsWarm
<1>4. ASSUME NEW s \in RowIds PROVE RowTruth(s)'
  <2>1. RowTruth(s)
    BY DEF KInv
  <2>2. CASE s # r
    BY <1>1, <2>1, <2>2 DEF RowTruth, IsWarm, HandedOut, Offered, Present, Concluded, JobIsOver
  <2>3. CASE s = r
    BY <1>1, <2>1, <2>3 DEF RowTruth, IsWarm, HandedOut, Offered, Present
  <2> QED
    BY <2>2, <2>3
<1> QED
  BY <1>2, <1>3, <1>4 DEF Truths

\* ... and one that has not yet been offered, and so has no job, joins the pool.
LEMMA OfferSees ==
  ASSUME IInv, KInv, UNCHANGED github, NEW r \in RowIds, Present(r), ~Offered(r),
         UpdateRunnerWarmState(r, NoJob, "warm_idle")
  PROVE  JobsFinal /\ Lasting(r) /\ Truths
<1>1. ASSUME NEW s \in RowIds
      PROVE  /\ runners'[s].source = runners[s].source /\ runners'[s].status = runners[s].status
             /\ runners'[s].expired = runners[s].expired /\ runners'[s].job = runners[s].job
             /\ s # r => runners'[s] = runners[s]
             /\ s = r => runners'[s].warmState = "warm_idle"
  <2>1. CASE s # r
    BY <2>1 DEF IInv, TypeOK, UpdateRunnerWarmState
  <2>2. CASE s = r
    <3>1. runners'[s] = WithWarmState(runners[s], NoJob, "warm_idle") /\ runners[s] \in Runner
      BY <2>2 DEF IInv, TypeOK, UpdateRunnerWarmState
    <3> QED
      BY <2>2, <3>1 DEF WithWarmState, Runner
  <2> QED
    BY <2>1, <2>2
<1>2. JobsFinal
  BY DEF JobsFinal
<1>3. Lasting(r)
  BY <1>1 DEF Lasting, Offered, HandedOut, IsWarm
<1>4. ASSUME NEW s \in RowIds PROVE RowTruth(s)'
  <2>1. RowTruth(s)
    BY DEF KInv
  <2>2. CASE s # r
    BY <1>1, <2>1, <2>2 DEF RowTruth, IsWarm, HandedOut, Offered, Present, Concluded, JobIsOver
  <2>3. CASE s = r
    BY <1>1, <2>1, <2>3 DEF RowTruth, IsWarm, HandedOut, Offered, Present, Concluded, JobIsOver
  <2> QED
    BY <2>2, <2>3
<1> QED
  BY <1>2, <1>3, <1>4 DEF Truths

\* A row is closed, ...
LEMMA TerminationSees ==
  ASSUME IInv, KInv, UNCHANGED github, NEW r \in RowIds, Present(r), MarkRunnerTerminated(r)
  PROVE  JobsFinal /\ Lasting(0) /\ Truths
<1> DEFINE row == WithTermination(runners[r])
<1>1. /\ row.status = "terminated" /\ row.source = runners[r].source /\ row.job = runners[r].job
      /\ row.warmState = runners[r].warmState /\ row.expired = runners[r].expired
  BY DEF IInv, TypeOK, Runner, WithTermination
<1>2. "terminated" \notin Conclusions
  BY ConstantAssumption
<1>3. runners' = [runners EXCEPT ![r] = row]
  BY DEF MarkRunnerTerminated
<1> HIDE DEF row
<1> QED
  BY <1>1, <1>2, <1>3, ColumnWrite

\* ... its time is up, ...
LEMMA ExpirySees ==
  ASSUME IInv, KInv, UNCHANGED github, NEW r \in RowIds, Present(r),
         runners' = [runners EXCEPT ![r].expired = TRUE]
  PROVE  JobsFinal /\ Lasting(0) /\ Truths
<1> DEFINE row == [runners[r] EXCEPT !.expired = TRUE]
<1>1. /\ row.status = runners[r].status /\ row.source = runners[r].source /\ row.expired
      /\ row.job = runners[r].job /\ row.warmState = runners[r].warmState
  BY DEF IInv, TypeOK, Runner
<1>2. runners' = [runners EXCEPT ![r] = row]
  OBVIOUS
<1>3. RowTruth(r)
  BY DEF KInv
<1> HIDE DEF row
<1> QED
  BY <1>1, <1>2, <1>3, ColumnWrite DEF Present, RowTruth

\* ... or a launch records a new one; the warm pool launches for no job.
LEMMA CreateSees ==
  ASSUME IInv, SInv, JInv, KInv, NEW p \in Handlers \union {WarmLoop}, CreateRunner(p)
  PROVE  JobsFinal /\ Lasting(0) /\ Truths
<1> DEFINE new == lastRow + 1
<1>1. lastRow \in Nat /\ runners \in [RowIds -> Runner]
  BY ConstantAssumption DEF IInv, TypeOK
<1>2. new \in RowIds /\ ~Present(new)
  <2>1. new \in RowIds /\ ~(new <= lastRow)
    BY <1>1, ConstantAssumption DEF CreateRunner, RowIds
  <2> QED
    BY <2>1 DEF SInv, RowOK
<1>3. /\ runners'[new].status = "launching" /\ runners'[new].job = proc[p].job
      /\ runners'[new].source = (IF p = WarmLoop THEN "warm" ELSE "ondemand")
      /\ runners'[new].warmState \in {"", "warming"}
      /\ \A r \in RowIds : r # new => runners'[r] = runners[r]
  BY <1>1, <1>2 DEF CreateRunner, NewRunner, NoRunner
<1>4. JobsFinal /\ UNCHANGED github
  BY DEF JobsFinal, CreateRunner, UnchangedWorld
<1>5. Lasting(0)
  <2>1. ASSUME NEW r \in RowIds, Present(r) PROVE runners'[r] = runners[r]
    BY <1>2, <1>3, <2>1
  <2> QED
    BY <2>1 DEF Lasting, Offered, HandedOut
<1>6. ASSUME NEW r \in RowIds PROVE RowTruth(r)'
  <2>1. CASE r # new
    <3>1. runners'[r] = runners[r] /\ RowTruth(r)
      BY <1>3, <2>1 DEF KInv
    <3> QED
      BY <1>4, <3>1 DEF RowTruth, IsWarm, HandedOut, Offered, Present, Concluded, JobIsOver
  <2>2. CASE r = new
    <3>1. "launching" \notin Conclusions
      BY ConstantAssumption
    <3>2. p = WarmLoop => proc[p].job = NoJob
      BY DEF JInv
    <3> QED
      BY <1>3, <2>2, <3>1, <3>2 DEF RowTruth, IsWarm, Offered
  <2> QED
    BY <2>1, <2>2
<1> QED
  BY <1>4, <1>5, <1>6 DEF Truths

-----------------------------------------------------------------------------
(* Every step keeps what has been read true                                 *)

\* GitHub, OCI and the clock: a job that is over stays over.
LEMMA WorldSees ==
  ASSUME IInv, IInv', SInv, KInv, World
  PROVE  KInv' /\ HandedKept
<1>1. UNCHANGED proc
  BY DEF World, JobStarts, JobEnds, AgentRegisters, InstancePowersOff, TerminationCompletes,
         InstancePreempted, InstanceGone, RunnerExpires
<1>2. CASE UNCHANGED runners
  <2>1. github \in [Jobs -> GitHubJob]
    BY DEF IInv, TypeOK
  <2>2. JobsFinal
    <3>1. ASSUME NEW j \in Jobs, NEW i, JobStarts(j, i) PROVE JobsFinal
      BY <2>1, <3>1 DEF JobStarts, JobsFinal
    <3>2. ASSUME NEW j \in Jobs, NEW c, JobEnds(j, c) PROVE JobsFinal
      BY <2>1, <3>2 DEF JobEnds, JobsFinal
    <3>3. ASSUME NEW i, InstanceGone(i) PROVE JobsFinal
      BY <2>1, <3>3 DEF InstanceGone, JobsFinal
    <3>4. ASSUME UNCHANGED github PROVE JobsFinal
      BY <3>4 DEF JobsFinal
    <3> QED
      BY <3>1, <3>2, <3>3, <3>4 DEF World, AgentRegisters, InstancePowersOff, TerminationCompletes,
         InstancePreempted, RunnerExpires, UnchangedWorld
  <2> QED
    BY <1>1, <1>2, <2>2, NoWrite, NoMoveSees
<1>3. ASSUME NEW r \in RowIds, RunnerExpires(r)
      PROVE  KInv' /\ HandedKept
  BY <1>1, <1>3, ExpirySees, NoMoveSees DEF RunnerExpires, UnchangedWorld, Open, Present
<1> QED
  BY <1>2, <1>3 DEF World, JobStarts, JobEnds, AgentRegisters, InstancePowersOff,
     TerminationCompletes, InstancePreempted, InstanceGone, UnchangedStore

\* A webhook handler hands out only runners that it has found in the pool, and writes
\* the conclusion of a job only on a row of that job, or on a warm one.
LEMMA WebhookSees ==
  ASSUME IInv, IInv', SInv, KInv, NEW h \in Handlers, Webhook(h)
  PROVE  KInv' /\ HandedKept
<1> DEFINE me == proc[h]
<1>0. /\ h \in Procs /\ h # WarmLoop /\ me \in Local /\ proc' \in [Procs -> Local]
      /\ proc \in [Procs -> Local] /\ LocalOK(h) /\ Knows(h, me, me.pc) /\ Sees(h, me, me.pc)
  BY ConstantAssumption DEF IInv, TypeOK, Procs, SInv, KInv
<1> HIDE DEF me
<1>1. UNCHANGED <<runners, github>> => JobsFinal /\ Lasting(0) /\ Truths
  BY NoWrite DEF JobsFinal
<1>2. /\ me.cur.row \in RowIds => Present(me.cur.row)
      /\ \A s \in me.todo : Present(s.row)
      /\ \A s \in me.todo : Doomed(s.row) /\ Truthful(s)
      /\ 0 \notin RowIds
  BY <1>0, NothingRead DEF Knows, Sees, NoSnapshot
<1>3. ASSUME JobsFinal, Lasting(0), Truths, Stop(h)
      PROVE  KInv' /\ HandedKept
  BY <1>0, <1>3, HaltSees
\* A handler that goes on relies on the row that it has read, if any.
<1>4. ASSUME JobsFinal, Lasting(0), Truths, NEW local \in Local, NEW label, label # "get",
             Continue(h, local, label),
             local.cur.row \in RowIds =>
               /\ Present(local.cur.row)
               /\ label \in {"start", "count", "tracked", "reserve_state"}
                    => IsWarm(local.cur.row) /\ Offered(local.cur.row)
               /\ label = "consume" => IsWarm(local.cur.row) /\ HandedOut(local.cur.row)
               /\ label = "set_status" => IsWarm(local.cur.row) \/ runners[local.cur.row].job = local.job,
             local.todo \subseteq me.todo
      PROVE  KInv' /\ HandedKept
  <2>1. Sees(h, local, label)
    BY <1>0, <1>2, <1>4 DEF Sees
  <2>2. Reads(local, label)
    BY <1>2, <1>4 DEF Reads
  <2> QED
    BY <1>0, <1>2, <1>4, <2>1, <2>2, MoveSees
<1>5. ASSUME NEW j \in Jobs, NEW k \in Kinds, Receive(h, j, k)
      PROVE  KInv' /\ HandedKept
  <2>1. JobsFinal /\ Lasting(0) /\ Truths
    BY <1>1, <1>5 DEF Receive, UnchangedWorld
  <2>2. CASE IsNew(<<j, k>>)
    <3> DEFINE local == [Idle EXCEPT !.job = j, !.kind = k, !.policy = PolicyOf[j]]
    <3>1. local \in Local
      BY EmptyValues, ConstantAssumption DEF Local
    <3>2. local.cur = NoSnapshot /\ local.todo = {}
      BY DEF Idle
    <3>3. Continue(h, local, "start")
      BY <1>5, <2>2 DEF Receive
    <3> HIDE DEF local
    <3> QED
      BY <1>4, <2>1, <3>1, <3>2, <3>3, NothingRead
  <2>3. CASE ~IsNew(<<j, k>>)
    BY <1>5, <2>1, <2>3, NoMoveSees DEF Receive
  <2> QED
    BY <2>2, <2>3
<1>6. ASSUME RepositoryNotAllowed(h)
      PROVE  KInv' /\ HandedKept
  BY <1>1, <1>3, <1>6 DEF RepositoryNotAllowed, UnchangedWorld
<1>7. ASSUME AdmissionBlocks(h) \/ CountActiveRunners(h)
      PROVE  KInv' /\ HandedKept
  <2>1. PICK v : Continue(h, [me EXCEPT !.verdict = v], "tracked")
    BY <1>7 DEF AdmissionBlocks, CountActiveRunners, me
  <2>2. me.pc \in {"start", "count"} /\ UNCHANGED <<runners, github>>
    BY <1>7 DEF AdmissionBlocks, CountActiveRunners, At, UnchangedStore, UnchangedWorld, me
  <2> DEFINE local == [me EXCEPT !.verdict = v]
  <2>3. local.cur = me.cur /\ local.todo = me.todo
    BY <1>0 DEF Local
  <2>4. local \in Local
    <3>1. v \in {"", "blocked", "warm", "launch"}
      <4>1. proc'[h] = [local EXCEPT !.pc = "tracked"]
        BY <1>0, <2>1 DEF Continue
      <4>2. proc'[h].verdict = v
        BY <1>0, <4>1 DEF Local
      <4> QED
        BY <1>0, <4>2 DEF Local
    <3> QED
      BY <1>0, <3>1 DEF Local
  <2>5. Continue(h, local, "tracked")
    BY <2>1
  <2>6. me.cur.row \in RowIds => IsWarm(me.cur.row) /\ Offered(me.cur.row)
    BY <1>0, <2>2 DEF Sees, Procs
  <2> HIDE DEF local
  <2> QED
    BY <1>1, <1>2, <1>4, <2>2, <2>3, <2>4, <2>5, <2>6
<1>8. ASSUME FindWarmIdleRunner(h)
      PROVE  KInv' /\ HandedKept
  <2>1. JobsFinal /\ Lasting(0) /\ Truths /\ me.pc = "start"
    BY <1>1, <1>8 DEF FindWarmIdleRunner, UnchangedStore, UnchangedWorld, At, me
  <2>2. ASSUME NEW r \in WarmIdle(me.policy), Continue(h, [me EXCEPT !.cur = SnapshotOf(r)], "count")
        PROVE  KInv' /\ HandedKept
    <3> DEFINE local == [me EXCEPT !.cur = SnapshotOf(r)]
    <3>1. r \in RowIds /\ Present(r) /\ IsWarm(r) /\ Offered(r)
      BY <2>2 DEF WarmIdle, Open, Present, IsWarm, Offered
    <3>2. SnapshotOf(r) \in Snapshot /\ SnapshotOf(r).row = r
      BY <3>1 DEF IInv, TypeOK, SnapshotOf, Snapshot, Runner
    <3>3. local \in Local
      BY <1>0, <3>2 DEF Local
    <3>4. local.cur = SnapshotOf(r) /\ local.todo = me.todo
      BY <1>0 DEF Local
    <3>5. Continue(h, local, "count")
      BY <2>2
    <3> HIDE DEF local
    <3> QED
      BY <1>4, <2>1, <3>1, <3>2, <3>3, <3>4, <3>5
  <2>3. CASE Continue(h, me, "count")
    <3>1. me.cur.row \in RowIds => IsWarm(me.cur.row) /\ Offered(me.cur.row)
      BY <1>0, <2>1 DEF Sees
    <3> QED
      BY <1>0, <1>2, <1>4, <2>1, <2>3, <3>1
  <2>4. \/ Continue(h, me, "count")
        \/ \E r \in WarmIdle(me.policy) : Continue(h, [me EXCEPT !.cur = SnapshotOf(r)], "count")
    BY <1>8 DEF FindWarmIdleRunner, me
  <2> QED
    BY <2>2, <2>3, <2>4
<1>9. ASSUME RecordQueuedJob(h)
      PROVE  KInv' /\ HandedKept
  <2>1. JobsFinal /\ Lasting(0) /\ Truths /\ me.pc = "tracked"
    BY <1>1, <1>9 DEF RecordQueuedJob, UnchangedWorld, At, me
  <2>2. Stop(h) \/ \E label \in {"reserve_state", "launch"} : Continue(h, me, label)
    BY <1>9 DEF RecordQueuedJob, me
  <2>3. me.cur.row \in RowIds => IsWarm(me.cur.row) /\ Offered(me.cur.row)
    BY <1>0, <2>1 DEF Sees
  <2> QED
    BY <1>0, <1>2, <1>3, <1>4, <2>1, <2>2, <2>3
<1>10. ASSUME ReserveState(h)
       PROVE  KInv' /\ HandedKept
  <2>1. /\ UpdateRunnerWarmState(me.cur.row, me.job, "reserved") /\ Continue(h, me, "reserve_status")
        /\ UNCHANGED github /\ me.pc = "reserve_state"
    BY <1>10 DEF ReserveState, At, UnchangedWorld, me
  <2>2. me.cur.row \in RowIds => IsWarm(me.cur.row) /\ Offered(me.cur.row)
    BY <1>0, <2>1 DEF Sees
  <2>3. JobsFinal /\ Lasting(0) /\ Truths
    BY <2>1, <2>2, HandOutSees
  <2> QED
    BY <1>0, <1>2, <1>4, <2>1, <2>3
<1>11. ASSUME ReserveStatus(h)
       PROVE  KInv' /\ HandedKept
  <2>1. /\ UpdateRunnerStatus(me.cur.row, "reserved", me.cur.ghRunner) /\ Stop(h)
        /\ UNCHANGED github
    BY <1>11 DEF ReserveStatus, UnchangedWorld, me
  <2>2. "reserved" \notin Conclusions
    BY ConstantAssumption
  <2> QED
    BY <1>2, <1>3, <2>1, <2>2, StatusSees
<1>12. ASSUME RecordJobProgress(h)
       PROVE  KInv' /\ HandedKept
  <2>1. JobsFinal /\ Lasting(0) /\ Truths /\ me.pc = "start" /\ me.job \in Jobs
    BY <1>0, <1>1, <1>12 DEF RecordJobProgress, UnchangedWorld, At, LocalOK, Fits, me
  <2>2. ASSUME NEW r \in RowIds, IsLatestRunnerOf(me.job, r), NEW gh,
               NEW label, label = "set_status" \/ (label = "consume" /\ IsWarm(r)),
               Continue(h, [me EXCEPT !.cur = [SnapshotOf(r) EXCEPT !.ghRunner = gh]], label)
        PROVE  KInv' /\ HandedKept
    <3> DEFINE c     == [SnapshotOf(r) EXCEPT !.ghRunner = gh]
               local == [me EXCEPT !.cur = c]
    <3>1. Present(r) /\ c.row = r /\ runners[r].job = me.job
      BY <2>2 DEF IsLatestRunnerOf, RunnersOf, Present, SnapshotOf
    <3>2. IsWarm(r) => HandedOut(r)
      <4>1. RowTruth(r) /\ runners[r].job # NoJob
        BY <2>1, <3>1, ConstantAssumption DEF KInv
      <4> QED
        BY <4>1 DEF RowTruth
    <3>3. c \in Snapshot \union {NoSnapshot}
      <4>1. proc'[h] = [local EXCEPT !.pc = label]
        BY <1>0, <2>2 DEF Continue
      <4>2. proc'[h].cur = c
        <5> HIDE DEF c
        <5> QED
          BY <1>0, <4>1 DEF Local
      <4> HIDE DEF c
      <4> QED
        BY <1>0, <4>2 DEF Local
    <3> HIDE DEF c
    <3>4. local \in Local
      BY <1>0, <3>3 DEF Local
    <3>5. local.cur = c /\ local.todo = me.todo /\ local.job = me.job
      BY <1>0 DEF Local
    <3>6. Continue(h, local, label)
      BY <2>2 DEF c
    <3> HIDE DEF local
    <3> QED
      BY <1>4, <2>1, <2>2, <3>1, <3>2, <3>4, <3>5, <3>6
  <2>3. \/ Stop(h)
        \/ \E r \in RowIds : IsLatestRunnerOf(me.job, r) /\ \E gh \in ResolveRunnerID(me.job, r) :
             \E label : /\ label = "set_status" \/ (label = "consume" /\ IsWarm(r))
                        /\ Continue(h, [me EXCEPT !.cur = [SnapshotOf(r) EXCEPT !.ghRunner = gh]], label)
    BY <1>12 DEF RecordJobProgress, IsWarm, me
  <2> QED
    BY <1>3, <2>1, <2>2, <2>3
<1>13. ASSUME ConsumeWarm(h)
       PROVE  KInv' /\ HandedKept
  <2>1. /\ UpdateRunnerWarmState(me.cur.row, me.job, "consumed") /\ Continue(h, me, "set_status")
        /\ UNCHANGED github /\ me.pc = "consume"
    BY <1>13 DEF ConsumeWarm, At, UnchangedWorld, me
  <2>2. me.cur.row \in RowIds => IsWarm(me.cur.row) /\ HandedOut(me.cur.row)
    BY <1>0, <2>1 DEF Sees
  <2>3. JobsFinal /\ Lasting(0) /\ Truths
    BY <2>1, <2>2, HandOutSees DEF HandedOut, Offered
  <2> QED
    BY <1>0, <1>2, <1>4, <2>1, <2>2, <2>3
<1>14. ASSUME SyncRunnerStatus(h)
       PROVE  KInv' /\ HandedKept
  <2> DEFINE status == PayloadStatus(me.job, me.kind)
             r      == me.cur.row
  <2>1. /\ UpdateRunnerStatus(r, status, me.cur.ghRunner) /\ UNCHANGED github
        /\ me.pc = "set_status"
    BY <1>14 DEF SyncRunnerStatus, UnchangedWorld, At, me
  <2>2. me.job \in Jobs /\ me.kind \in Kinds /\ (me.kind = "completed" => github[me.job].phase = "done")
    BY <1>0, <2>1 DEF LocalOK, Fits, me
  <2>3. status # "absent"
    BY <2>2, ConstantAssumption DEF PayloadStatus, IInv, ConclusionOK
  <2>4. r \in RowIds => IsWarm(r) \/ runners[r].job = me.job
    BY <1>0, <2>1 DEF Sees
  <2>5. status \in Conclusions => github[me.job].phase = "done" /\ status = github[me.job].conclusion
    BY <2>2, ConstantAssumption DEF PayloadStatus
  <2> HIDE DEF status
  <2>6. r \in RowIds /\ status \in Conclusions => IsWarm(r) \/ Concluded(r, status)
    BY <2>2, <2>4, <2>5, ConstantAssumption DEF Concluded, JobIsOver
  <2>7. JobsFinal /\ Lasting(0) /\ Truths
    BY <1>2, <2>1, <2>3, <2>6, StatusSees
  <2> DEFINE local == [me EXCEPT !.cur = NoSnapshot]
  <2>8. local \in Local /\ local.cur = NoSnapshot /\ local.todo = me.todo
    BY <1>0 DEF Local
  <2>9. Stop(h) \/ Continue(h, local, "list")
    BY <1>14 DEF SyncRunnerStatus, me
  <2> HIDE DEF local
  <2> QED
    BY <1>3, <1>4, <2>7, <2>8, <2>9, NothingRead
<1> QED
  BY <1>5, <1>6, <1>7, <1>8, <1>9, <1>10, <1>11, <1>12, <1>13, <1>14 DEF Webhook

\* A launch records a row that nobody has read.
LEMMA LaunchSees ==
  ASSUME IInv, IInv', SInv, JInv, KInv, NEW p \in Handlers \union {WarmLoop}, Launch(p)
  PROVE  KInv' /\ HandedKept
<1> DEFINE me == proc[p]
<1>0. p \in Procs /\ me \in Local
  BY DEF IInv, TypeOK, Procs
<1> HIDE DEF me
<1>1. ASSUME LaunchInstance(p)
      PROVE  KInv' /\ HandedKept
  <2> DEFINE i     == lastInstance + 1
             local == [me EXCEPT !.instance = i]
  <2>1. Continue(p, local, "insert") /\ UNCHANGED <<runners, github>>
    BY <1>1 DEF LaunchInstance, UnchangedStore, me
  <2>2. i \in 0..MaxInstances
    BY <1>1, ConstantAssumption DEF IInv, TypeOK, LaunchInstance
  <2> HIDE DEF i
  <2>3. local \in Local /\ local.cur = me.cur /\ local.todo = me.todo
    BY <1>0, <2>2 DEF Local
  <2>4. JobsFinal /\ Lasting(0) /\ Truths
    BY <2>1, NoWrite DEF JobsFinal
  <2> HIDE DEF local
  <2> QED
    BY <1>0, <2>1, <2>3, <2>4, StepSees DEF me
<1>2. ASSUME JobsFinal, Lasting(0), Truths, Stop(p) \/ (p = WarmLoop /\ NextTarget(me))
      PROVE  KInv' /\ HandedKept
  BY <1>0, <1>2, HaltSees, NextTargetSees DEF me
<1>3. ASSUME LaunchFails(p) \/ CreateRunnerFails(p)
      PROVE  KInv' /\ HandedKept
  <2>1. /\ UNCHANGED <<runners, github>>
        /\ Stop(p) \/ (p = WarmLoop /\ NextTarget(me))
    BY <1>3 DEF LaunchFails, CreateRunnerFails, LaunchError, UnchangedWorld, me
  <2>2. JobsFinal /\ Lasting(0) /\ Truths
    BY <2>1, NoWrite DEF JobsFinal
  <2> QED
    BY <1>2, <2>1, <2>2
<1>4. ASSUME CreateRunner(p)
      PROVE  KInv' /\ HandedKept
  <2>1. Stop(p) \/ (p = WarmLoop /\ NextTarget(me))
    BY <1>4 DEF CreateRunner, me
  <2> QED
    BY <1>2, <1>4, <2>1, CreateSees
<1> QED
  BY <1>1, <1>3, <1>4 DEF Launch

\* A cleanup pass lists rows that it has cause to terminate, and the cause lasts.
LEMMA CleanupSees ==
  ASSUME IInv, IInv', SInv, KInv, NEW p \in Handlers \union Sweepers, Cleanup(p)
  PROVE  KInv' /\ HandedKept
<1> DEFINE me == proc[p]
<1>0. /\ p \in Procs /\ p # WarmLoop /\ me \in Local /\ Knows(p, me, me.pc) /\ Sees(p, me, me.pc)
      /\ proc \in [Procs -> Local] /\ proc' \in [Procs -> Local]
  BY ConstantAssumption DEF IInv, TypeOK, Procs, SInv, KInv
<1> HIDE DEF me
<1>1. UNCHANGED <<runners, github>> => JobsFinal /\ Lasting(0) /\ Truths
  BY NoWrite DEF JobsFinal
<1>2. /\ me.cur.row \in RowIds => Present(me.cur.row)
      /\ \A s \in me.todo : Present(s.row) /\ Doomed(s.row) /\ Truthful(s)
      /\ 0 \notin RowIds
  BY <1>0, NothingRead DEF Knows, Sees, NoSnapshot
\* The pass goes on to its next candidate, asks for a termination, or ends.
<1>3. ASSUME JobsFinal, Lasting(0), Truths,
             \/ NextCandidate(p) \/ Stop(p)
             \/ \E label \in {"close", "mark"} : Continue(p, me, label)
      PROVE  KInv' /\ HandedKept
  <2> DEFINE local == [me EXCEPT !.cur = NoSnapshot]
  <2>1. local \in Local /\ local.cur = NoSnapshot /\ local.todo = me.todo
    BY <1>0 DEF Local
  <2>2. NextCandidate(p) => Continue(p, local, "sweep")
    BY DEF NextCandidate, me
  <2> HIDE DEF local
  <2> QED
    BY <1>0, <1>3, <2>1, <2>2, StepSees, HaltSees DEF me
<1>4. ASSUME ListCleanupCandidates(p)
      PROVE  KInv' /\ HandedKept
  <2> DEFINE todo  == {SnapshotOf(r) : r \in CleanupCandidates}
             local == [me EXCEPT !.todo = todo]
  <2>1. todo \subseteq Snapshot
    BY DEF CleanupCandidates, IInv, TypeOK, SnapshotOf, Snapshot, Runner
  <2>2. ASSUME NEW s \in todo PROVE Present(s.row) /\ Doomed(s.row) /\ Truthful(s)
    <3>1. PICK r \in RowIds : /\ s = SnapshotOf(r) /\ Present(r)
                              /\ runners[r].expired \/ runners[r].status \in Conclusions
      BY <2>2 DEF CleanupCandidates, Open, Present
    <3>2. s.row = r /\ s.status = runners[r].status
      BY <3>1 DEF SnapshotOf
    <3>3. RowTruth(r)
      BY DEF KInv
    <3> QED
      BY <3>1, <3>2, <3>3 DEF RowTruth, Doomed, Truthful, Concluded
  <2> HIDE DEF todo
  <2>3. local \in Local /\ local.cur = me.cur /\ local.todo = todo
    BY <1>0, <2>1 DEF Local
  <2>4. Continue(p, local, "sweep") /\ UNCHANGED <<runners, github>>
    BY <1>4 DEF ListCleanupCandidates, UnchangedStore, UnchangedWorld, me, todo
  <2> HIDE DEF local
  <2>5. Sees(p, local, "sweep") /\ Reads(local, "sweep")
    BY <1>0, <1>2, <2>2, <2>3 DEF Sees, Reads
  <2> QED
    BY <1>0, <1>1, <1>2, <2>3, <2>4, <2>5, MoveSees
<1>5. ASSUME TakeCandidate(p)
      PROVE  KInv' /\ HandedKept
  <2>1. PICK s \in me.todo : \E gh \in {0, runners[s.row].instance} :
          /\ IF gh # 0 THEN UpdateRunnerStatus(s.row, s.status, gh) ELSE UNCHANGED runners
          /\ Continue(p, [me EXCEPT !.todo = @ \ {s},
                                    !.cur = [s EXCEPT !.ghRunner = IF gh # 0 THEN gh ELSE @]], "get")
    BY <1>5 DEF TakeCandidate, me
  <2>2. PICK gh :
          /\ IF gh # 0 THEN UpdateRunnerStatus(s.row, s.status, gh) ELSE UNCHANGED runners
          /\ Continue(p, [me EXCEPT !.todo = @ \ {s},
                                    !.cur = [s EXCEPT !.ghRunner = IF gh # 0 THEN gh ELSE @]], "get")
    BY <2>1
  <2>3. /\ s \in Snapshot /\ s.row \in RowIds /\ s.status # "absent"
        /\ Present(s.row) /\ Doomed(s.row) /\ Truthful(s)
    BY <1>0, <1>2, <2>1 DEF Knows, Local, Snapshot
  <2>4. JobsFinal /\ Lasting(0) /\ Truths
    <3>1. UNCHANGED github
      BY <1>5 DEF TakeCandidate, UnchangedWorld
    <3> QED
      BY <1>1, <2>2, <2>3, <3>1, StatusSees DEF Truthful
  <2> DEFINE c     == [s EXCEPT !.ghRunner = IF gh # 0 THEN gh ELSE @]
             local == [me EXCEPT !.todo = @ \ {s}, !.cur = c]
  <2>5. c.row = s.row
    BY <2>3 DEF Snapshot
  <2>6. Continue(p, local, "get")
    BY <2>2
  <2> HIDE DEF c
  <2>7. c \in Snapshot \union {NoSnapshot}
    <3>1. proc'[p] = [local EXCEPT !.pc = "get"]
      BY <1>0, <2>6 DEF Continue
    <3>2. proc'[p].cur = c
      BY <1>0, <3>1 DEF Local
    <3> QED
      BY <1>0, <3>2 DEF Local
  <2>8. local \in Local /\ local.cur = c /\ local.todo \subseteq me.todo
    BY <1>0, <2>7 DEF Local
  <2> HIDE DEF local
  <2>9. Sees(p, local, "get") /\ Reads(local, "get")
    BY <1>0, <1>2, <2>3, <2>5, <2>8 DEF Sees, Reads
  <2> QED
    BY <1>0, <1>2, <2>4, <2>6, <2>8, <2>9, MoveSees
<1>6. ASSUME FindInstanceEnded(p) \/ TerminateRunner(p) \/ TerminateFails(p) \/ RowWriteFails(p)
      PROVE  KInv' /\ HandedKept
  <2>1. /\ UNCHANGED <<runners, github>>
        /\ NextCandidate(p) \/ \E label \in {"close", "mark"} : Continue(p, me, label)
    BY <1>6 DEF FindInstanceEnded, TerminateRunner, TerminateFails, RowWriteFails, UnchangedStore,
                UnchangedWorld, me
  <2> QED
    BY <1>1, <1>3, <2>1
<1>7. ASSUME CloseRunner(p)
      PROVE  KInv' /\ HandedKept
  <2>1. /\ MarkRunnerTerminated(me.cur.row) /\ NextCandidate(p) /\ UNCHANGED github
        /\ me.cur.row \in RowIds
    BY <1>0, <1>7 DEF CloseRunner, At, Knows, me
  <2> QED
    BY <1>2, <1>3, <2>1, TerminationSees
<1>8. ASSUME MarkTerminating(p)
      PROVE  KInv' /\ HandedKept
  <2>1. /\ UNCHANGED runners \/ UpdateRunnerStatus(me.cur.row, "terminating", me.cur.ghRunner)
        /\ NextCandidate(p) /\ UNCHANGED github
    BY <1>8 DEF MarkTerminating, me
  <2>2. "terminating" \notin Conclusions
    BY ConstantAssumption
  <2>3. JobsFinal /\ Lasting(0) /\ Truths
    BY <1>1, <1>2, <2>1, <2>2, StatusSees
  <2> QED
    BY <1>3, <2>1, <2>3
<1>9. ASSUME EndSweep(p) \/ SweepFails(p)
      PROVE  KInv' /\ HandedKept
  BY <1>1, <1>3, <1>9 DEF EndSweep, SweepFails, UnchangedWorld
<1> QED
  BY <1>4, <1>5, <1>6, <1>7, <1>8, <1>9 DEF Cleanup

\* An operator may terminate what it likes: it writes no conclusion.
LEMMA AdminSees ==
  ASSUME IInv, IInv', SInv, KInv, NEW p \in Operators, Admin(p)
  PROVE  KInv' /\ HandedKept
<1> DEFINE me == proc[p]
<1>0. /\ p \in Procs /\ p # WarmLoop /\ p \notin Handlers /\ me \in Local
      /\ Knows(p, me, me.pc) /\ Sees(p, me, me.pc)
  BY ConstantAssumption DEF IInv, TypeOK, Procs, Sweepers, SInv, KInv
<1> HIDE DEF me
<1>1. UNCHANGED <<runners, github>> => JobsFinal /\ Lasting(0) /\ Truths
  BY NoWrite DEF JobsFinal
<1>2. ASSUME NEW r \in RowIds, AdminTerminate(p, r)
      PROVE  KInv' /\ HandedKept
  <2> DEFINE local == [Idle EXCEPT !.cur = SnapshotOf(r)]
  <2>1. SnapshotOf(r) \in Snapshot /\ SnapshotOf(r).row = r
    BY DEF SnapshotOf, Snapshot, Runner, IInv, TypeOK
  <2>2. local \in Local
    BY <2>1, EmptyValues DEF Local
  <2>3. local.cur = SnapshotOf(r) /\ local.todo = {}
    BY DEF Idle
  <2>4. Present(r) /\ Continue(p, local, "admin_terminate") /\ UNCHANGED <<runners, github>>
    BY <1>2 DEF AdminTerminate, Present, UnchangedStore, UnchangedWorld
  <2> HIDE DEF local
  <2>5. Sees(p, local, "admin_terminate") /\ Reads(local, "admin_terminate")
    BY <1>0, <2>1, <2>3, <2>4 DEF Sees, Reads
  <2> QED
    BY <1>0, <1>1, <2>2, <2>4, <2>5, MoveSees, NothingRead DEF NoSnapshot
<1>3. ASSUME AdminTerminateInstance(p)
      PROVE  KInv' /\ HandedKept
  <2>1. /\ UNCHANGED <<runners, github>>
        /\ Continue(p, me, "admin_mark") \/ Stop(p)
    BY <1>3 DEF AdminTerminateInstance, UnchangedStore, me
  <2> QED
    BY <1>0, <1>1, <2>1, StepSees, HaltSees DEF me
<1>4. ASSUME AdminMark(p)
      PROVE  KInv' /\ HandedKept
  <2>1. me.cur.row \in RowIds => Present(me.cur.row)
    BY <1>0 DEF Knows
  <2>2. /\ UpdateRunnerStatus(me.cur.row, "terminating", me.cur.ghRunner)
        /\ UNCHANGED github /\ Stop(p)
    BY <1>4 DEF AdminMark, UnchangedWorld, me
  <2>3. "terminating" \notin Conclusions
    BY ConstantAssumption
  <2>4. JobsFinal /\ Lasting(0) /\ Truths
    BY <2>1, <2>2, <2>3, StatusSees
  <2> QED
    BY <1>0, <2>2, <2>4, HaltSees
<1> QED
  BY <1>2, <1>3, <1>4 DEF Admin

\* The warm pool puts a runner into the pool that nobody can have been handed: only it
\* offers runners, and it has not offered this one.
LEMMA WarmPoolSees ==
  ASSUME IInv, IInv', SInv, KInv, WarmPool
  PROVE  KInv' /\ HandedKept
<1> DEFINE p  == WarmLoop
           me == proc[p]
<1>0. /\ p \in Procs /\ p \notin Handlers /\ me \in Local
      /\ Knows(p, me, me.pc) /\ Sees(p, me, me.pc)
      /\ proc \in [Procs -> Local] /\ proc' \in [Procs -> Local]
  BY ConstantAssumption DEF IInv, TypeOK, Procs, SInv, KInv
<1> HIDE DEF me
<1>1. UNCHANGED <<runners, github>> => JobsFinal /\ Lasting(0) /\ Truths
  BY NoWrite DEF JobsFinal
<1>2. /\ me.cur.row \in RowIds => Present(me.cur.row)
      /\ \A s \in me.todo : Present(s.row) /\ ~Offered(s.row) /\ s.row \in RowIds
      /\ \A s, t \in me.todo : s.row = t.row => s = t
      /\ 0 \notin RowIds
  BY <1>0, NothingRead DEF Knows, Sees, Local, Snapshot, NoSnapshot
<1>3. ASSUME ListWarming
      PROVE  KInv' /\ HandedKept
  <2> DEFINE todo  == {SnapshotOf(r) : r \in Warming}
             local == [Idle EXCEPT !.todo = todo, !.targets = WarmPolicies]
  <2>1. todo \subseteq Snapshot /\ WarmPolicies \subseteq Policies
    BY ConstantAssumption DEF Warming, IInv, TypeOK, SnapshotOf, Snapshot, Runner
  <2>2. /\ \A s \in todo : Present(s.row) /\ ~Offered(s.row)
        /\ \A s, t \in todo : s.row = t.row => s = t
    BY DEF Warming, Open, SnapshotOf, Present, Offered
  <2> HIDE DEF todo
  <2>3. local \in Local
    BY <2>1, EmptyValues DEF Local
  <2>4. local.cur = NoSnapshot /\ local.todo = todo
    BY DEF Idle
  <2>5. Continue(p, local, "warm_scan") /\ UNCHANGED <<runners, github>>
    BY <1>3 DEF ListWarming, UnchangedStore, UnchangedWorld, todo
  <2> HIDE DEF local
  <2>6. Sees(p, local, "warm_scan") /\ Reads(local, "warm_scan")
    BY <1>0, <2>2, <2>4, NothingRead DEF Sees, Reads
  <2>7. \A s \in local.todo : s.row # 0
    BY <1>2, <2>1, <2>4 DEF Snapshot
  <2> QED
    BY <1>0, <1>1, <1>2, <2>3, <2>5, <2>6, <2>7, MoveSees
<1>4. ASSUME ProbeWarming
      PROVE  KInv' /\ HandedKept
  <2>1. PICK s \in me.todo :
          LET rest == [me EXCEPT !.todo = @ \ {s}]
          IN  \/ Continue(p, rest, "warm_scan")
              \/ Continue(p, [rest EXCEPT !.cur = [s EXCEPT !.ghRunner = runners[s.row].instance]],
                          "warm_status")
    BY <1>4 DEF ProbeWarming, me
  <2> DEFINE c     == [s EXCEPT !.ghRunner = runners[s.row].instance]
             rest  == [me EXCEPT !.todo = @ \ {s}]
             local == [rest EXCEPT !.cur = c]
  <2>2. s \in Snapshot
    BY <1>0, <2>1 DEF Local
  <2>3. c.row = s.row
    BY <2>2 DEF Snapshot
  <2>4. Continue(p, rest, "warm_scan") \/ Continue(p, local, "warm_status")
    BY <2>1
  <2>5. UNCHANGED <<runners, github>>
    BY <1>4 DEF ProbeWarming, UnchangedStore, UnchangedWorld
  <2>6. rest \in Local /\ rest.cur = me.cur /\ rest.todo = me.todo \ {s}
    BY <1>0 DEF Local
  <2> HIDE DEF c, rest
  <2>7. CASE Continue(p, rest, "warm_scan")
    BY <1>0, <1>1, <2>5, <2>6, <2>7, StepSees DEF me
  <2>8. CASE Continue(p, local, "warm_status")
    <3>1. c \in Snapshot \union {NoSnapshot}
      <4>1. proc'[p] = [local EXCEPT !.pc = "warm_status"]
        BY <1>0, <2>8 DEF Continue
      <4>2. proc'[p].cur = c
        BY <2>6, <4>1 DEF Local
      <4> QED
        BY <1>0, <4>2 DEF Local
    <3>2. local \in Local /\ local.cur = c /\ local.todo = rest.todo
      BY <2>6, <3>1 DEF Local
    <3> HIDE DEF local
    <3>3. \A t \in local.todo : t \in me.todo /\ t.row # c.row
      BY <1>2, <2>1, <2>3, <2>6, <3>2
    <3>4. c.row \in RowIds /\ Present(c.row) /\ ~Offered(c.row)
      BY <1>2, <2>1, <2>3
    <3>5. Sees(p, local, "warm_status") /\ Reads(local, "warm_status")
      BY <1>0, <1>2, <3>2, <3>3, <3>4 DEF Sees, Reads
    <3> QED
      BY <1>0, <1>1, <1>2, <2>5, <2>8, <3>2, <3>3, <3>4, <3>5, MoveSees
  <2> QED
    BY <2>4, <2>7, <2>8
<1>5. me.pc \in {"warm_status", "warm_state"} =>
        /\ me.cur.row \in RowIds /\ ~Offered(me.cur.row)
        /\ \A s \in me.todo : s.row # me.cur.row
  BY <1>0 DEF Sees
<1>6. ASSUME SetWarmStatus
      PROVE  KInv' /\ HandedKept
  <2>1. /\ UpdateRunnerStatus(me.cur.row, "warm_idle", me.cur.ghRunner)
        /\ Continue(p, me, "warm_state") /\ UNCHANGED github /\ me.pc = "warm_status"
    BY <1>6 DEF SetWarmStatus, At, UnchangedWorld, me
  <2>2. "warm_idle" \notin Conclusions
    BY ConstantAssumption
  <2>3. JobsFinal /\ Lasting(0) /\ Truths
    BY <1>2, <2>1, <2>2, StatusSees
  <2>4. Sees(p, me, "warm_state") /\ Reads(me, "warm_state")
    BY <1>0, <1>2, <1>5, <2>1 DEF Sees, Reads
  <2> QED
    BY <1>0, <1>2, <1>5, <2>1, <2>3, <2>4, MoveSees
<1>7. ASSUME SetWarmIdle
      PROVE  KInv' /\ HandedKept
  <2> DEFINE local == [me EXCEPT !.cur = NoSnapshot]
             r     == me.cur.row
  <2>1. /\ UpdateRunnerWarmState(r, NoJob, "warm_idle") /\ Continue(p, local, "warm_scan")
        /\ UNCHANGED github /\ me.pc = "warm_state"
    BY <1>7 DEF SetWarmIdle, At, UnchangedWorld, me
  <2>2. local \in Local /\ local.cur = NoSnapshot /\ local.todo = me.todo
    BY <1>0 DEF Local
  <2>3. JobsFinal /\ Lasting(r) /\ Truths
    BY <1>2, <1>5, <2>1, OfferSees
  <2>4. \A s \in local.todo : s.row # r
    BY <1>5, <2>1, <2>2
  <2> HIDE DEF local, r
  <2>5. Sees(p, local, "warm_scan") /\ Reads(local, "warm_scan")
    BY <1>0, <1>2, <2>2, NothingRead DEF Sees, Reads
  <2> QED
    BY <1>0, <2>1, <2>2, <2>3, <2>4, <2>5, MoveSees
<1>8. ASSUME FindActiveWarmRunner
      PROVE  KInv' /\ HandedKept
  <2>1. PICK q \in me.targets :
          LET rest == [me EXCEPT !.targets = @ \ {q}, !.policy = q]
          IN  NextTarget(rest) \/ Continue(p, rest, "warm_count")
    BY <1>8 DEF FindActiveWarmRunner, me
  <2> DEFINE rest == [me EXCEPT !.targets = @ \ {q}, !.policy = q]
  <2>2. rest \in Local
    BY <1>0, <2>1 DEF Local
  <2>3. rest.cur = me.cur /\ rest.todo = me.todo
    BY <1>0 DEF Local
  <2>4. NextTarget(rest) \/ Continue(p, rest, "warm_count")
    BY <2>1
  <2>5. UNCHANGED <<runners, github>>
    BY <1>8 DEF FindActiveWarmRunner, UnchangedStore, UnchangedWorld
  <2> HIDE DEF rest
  <2> QED
    BY <1>0, <1>1, <2>2, <2>3, <2>4, <2>5, StepSees, NextTargetSees DEF me
<1>9. ASSUME CountForWarmTarget
      PROVE  KInv' /\ HandedKept
  <2>1. /\ NextTarget(me) \/ Continue(p, me, "launch")
        /\ UNCHANGED <<runners, github>>
    BY <1>9 DEF CountForWarmTarget, UnchangedStore, UnchangedWorld, me
  <2> QED
    BY <1>0, <1>1, <2>1, StepSees, NextTargetSees DEF me
<1> QED
  BY <1>3, <1>4, <1>6, <1>7, <1>8, <1>9 DEF WarmPool

\* The invariant holds in the initial states.
LEMMA InitSees == Init => KInv
<1> SUFFICES ASSUME Init PROVE KInv
  OBVIOUS
<1>1. ASSUME NEW r \in RowIds PROVE RowTruth(r)
  <2>1. /\ runners[r].job = NoJob /\ runners[r].warmState = ""
        /\ runners[r].status = "absent"
    BY DEF Init, NoRunner
  <2>2. "absent" \notin Conclusions
    BY ConstantAssumption
  <2> QED
    BY <2>1, <2>2 DEF RowTruth, Offered
<1>2. ASSUME NEW p \in Procs PROVE Sees(p, proc[p], proc[p].pc)
  <2>1. proc[p] = Idle /\ Idle.pc = "idle"
    BY DEF Init, Idle
  <2> QED
    BY <2>1, NothingRead DEF Sees
<1> QED
  BY <1>1, <1>2 DEF KInv

\* Every step keeps what has been read true, and what was handed out handed out.
LEMMA NextSees ==
  ASSUME IInv, IInv', SInv, JInv, KInv, [Next]_vars
  PROVE  KInv' /\ HandedKept
<1>1. ASSUME UNCHANGED vars PROVE KInv' /\ HandedKept
  BY <1>1, NoWrite, NoMoveSees DEF vars, JobsFinal
<1>2. ASSUME NEW p \in Procs, Abort(p) PROVE KInv' /\ HandedKept
  BY <1>2, NoWrite, HaltSees DEF Abort, UnchangedStore, UnchangedWorld, JobsFinal
<1> QED
  BY <1>1, <1>2, WorldSees, WebhookSees, LaunchSees, CleanupSees, AdminSees, WarmPoolSees DEF Next

-----------------------------------------------------------------------------
(* Theorems                                                                 *)

LEMMA ReadsStayTrue == Spec => []KInv
<1>1. IInv /\ IInv' /\ SInv /\ JInv /\ KInv /\ [Next]_vars => KInv'
  BY NextSees
<1> QED
  BY <1>1, InitSees, Invariance, Safety, JobsInOrder, PTL DEF Spec

\* However long ago a cleanup pass listed its candidates, it terminates an on-demand
\* runner only if its time is up or its job is over, and a conclusion on such a row is
\* the one of its job.
THEOREM TerminatedForCause == Spec => []TerminationJustified
<1>1. ASSUME KInv PROVE TerminationJustified
  <2> SUFFICES ASSUME NEW r \in RowIds, runners[r].source = "ondemand"
               PROVE  /\ runners[r].status \in Conclusions
                           => JobIsOver(r) /\ github[runners[r].job].conclusion = runners[r].status
                      /\ \A p \in Procs : At(p, "get") /\ proc[p].cur.row = r
                           => runners[r].expired \/ JobIsOver(r)
    BY DEF TerminationJustified
  <2>1. ~IsWarm(r) /\ RowTruth(r)
    BY <1>1 DEF IsWarm, KInv
  <2>2. \A p \in Procs : At(p, "get") => Doomed(proc[p].cur.row)
    BY <1>1 DEF KInv, Sees, At
  <2> QED
    BY <2>1, <2>2 DEF RowTruth, Concluded, Doomed
<1> QED
  BY <1>1, ReadsStayTrue, PTL

\* A warm runner that a job has been given never goes back to the pool, whenever the
\* warm pool decided what it writes.
THEOREM HandedOutForGood == Spec => HandedOutStaysOut
<1>1. IInv /\ IInv' /\ SInv /\ JInv /\ KInv /\ [Next]_vars
        => [\A r \in RowIds : runners[r].warmState \in {"reserved", "consumed"}
              => runners'[r].warmState \in {"reserved", "consumed"}]_vars
  BY NextSees DEF HandedKept, HandedOut
<1> QED
  BY <1>1, Invariance, Safety, JobsInOrder, ReadsStayTrue, PTL DEF Spec, HandedOutStaysOut

=============================================================================
