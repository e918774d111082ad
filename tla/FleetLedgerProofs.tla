-------------------------- MODULE FleetLedgerProofs --------------------------
(***************************************************************************)
(* The fleet keeps the books of its machines: module Fleet implements      *)
(* module MachineLedger, and a machine is lost only to a fault.            *)
(***************************************************************************)
EXTENDS FleetSafetyProofs

-----------------------------------------------------------------------------
(* What a step does to the books                                            *)

Orphans == {i \in InstanceIds : Orphan(i)}

\* Every instance that OCI has counted exists, and the faults pay for the orphans.
LInv ==
  /\ \A i \in 1..lastInstance : instances[i].state # "none"
  /\ Cardinality(Orphans) <= faults

\* No row appears, is closed or changes its machine.
RowsFixed ==
  /\ lastRow' = lastRow
  /\ \A r \in RowIds : /\ runners'[r].instance = runners[r].instance
                       /\ Present(r)' <=> Present(r)
                       /\ runners'[r].terminated <=> runners[r].terminated

\* Nobody takes a machine to the insert of its row, or leaves one there.
HoldersFixed ==
  \A p \in Procs : /\ At(p, "insert")' <=> At(p, "insert")
                   /\ At(p, "insert") => proc'[p].instance = proc[p].instance

\* No machine is launched.
FleetFixed ==
  /\ lastInstance' = lastInstance
  /\ \A i \in InstanceIds : instances'[i].state = "none" <=> instances[i].state = "none"

\* At most one machine stops working, and none starts.
WorkEnds ==
  \E i : \A k \in InstanceIds : /\ Working(k)' => Working(k)
                                /\ k # i => (Working(k) => Working(k)')

WorkFixed == \A k \in InstanceIds : Working(k)' <=> Working(k)

\* A step after which the books read as before.
Quiet == RowsFixed /\ HoldersFixed /\ FleetFixed /\ WorkEnds /\ faults <= faults'

\* Row r is marked terminated, on a machine that is down.
Closes(r) ==
  /\ r \in RowIds /\ Present(r) /\ Down(runners[r].instance)
  /\ lastRow' = lastRow
  /\ \A s \in RowIds : /\ runners'[s].instance = runners[s].instance
                       /\ Present(s)' <=> Present(s)
                       /\ runners'[s].terminated <=> runners[s].terminated \/ s = r
  /\ HoldersFixed /\ FleetFixed /\ WorkFixed /\ UNCHANGED faults

\* p gives up the machine that it was about to record.
Drops(p) ==
  /\ At(p, "insert") /\ ~At(p, "insert")'
  /\ \A q \in Procs : q # p => proc'[q] = proc[q]
  /\ faults < MaxFaults /\ faults' = faults + 1
  /\ UNCHANGED <<runners, lastRow, instances, lastInstance>>

-----------------------------------------------------------------------------
(* Writes and moves                                                         *)

\* The status and the warm state of a row can be written without touching the books.
LEMMA RowWritesFixed ==
  ASSUME IInv, SInv, lastRow' = lastRow, NEW r, r \in RowIds => Present(r),
         \/ UNCHANGED runners
         \/ \E status, gh : status # "absent" /\ UpdateRunnerStatus(r, status, gh)
         \/ \E j, state : UpdateRunnerWarmState(r, j, state)
  PROVE  RowsFixed
<1>0. runners \in [RowIds -> Runner]
  BY DEF IInv, TypeOK
<1>1. CASE UNCHANGED runners
  BY <1>1 DEF RowsFixed, Present
<1>2. ASSUME NEW status, NEW gh, status # "absent", UpdateRunnerStatus(r, status, gh)
      PROVE  RowsFixed
  <2>1. ASSUME NEW s \in RowIds
        PROVE  /\ runners'[s].instance = runners[s].instance
               /\ runners'[s].terminated <=> runners[s].terminated
               /\ runners'[s].status = IF s = r THEN status ELSE runners[s].status
    BY <1>0, <1>2 DEF UpdateRunnerStatus, WithStatus, Runner
  <2> QED
    BY <1>2, <2>1 DEF RowsFixed, Present
<1>3. ASSUME NEW j, NEW state, UpdateRunnerWarmState(r, j, state)
      PROVE  RowsFixed
  <2>1. ASSUME NEW s \in RowIds
        PROVE  /\ runners'[s].instance = runners[s].instance
               /\ runners'[s].terminated <=> runners[s].terminated
               /\ runners'[s].status = runners[s].status
    <3>1. runners'[s] = runners[s] \/ runners'[s] = WithWarmState(runners[s], j, state)
      BY <1>0, <1>3 DEF UpdateRunnerWarmState
    <3> QED
      BY <1>0, <3>1 DEF WithWarmState, Runner
  <2> QED
    BY <2>1 DEF RowsFixed, Present
<1> QED
  BY <1>1, <1>2, <1>3

\* A goroutine that comes from another label than insert, and goes to another one,
\* holds no machine before or after.
LEMMA MoveFixed ==
  ASSUME IInv, IInv', NEW p \in Procs, ~At(p, "insert"),
         NEW local, NEW label, label # "insert", Continue(p, local, label)
  PROVE  HoldersFixed
<1>1. proc \in [Procs -> Local] /\ proc' \in [Procs -> Local]
  BY DEF IInv, TypeOK
<1>2. proc'[p] = [local EXCEPT !.pc = label] /\ \A q \in Procs : q # p => proc'[q] = proc[q]
  BY <1>1 DEF Continue
<1>3. proc'[p].pc = label
  BY <1>1, <1>2 DEF Local
<1> QED
  BY <1>2, <1>3 DEF HoldersFixed, At

LEMMA StopFixed ==
  ASSUME IInv, NEW p \in Procs, ~At(p, "insert"), Stop(p)
  PROVE  HoldersFixed
<1>1. proc \in [Procs -> Local] /\ Idle.pc = "idle"
  BY DEF IInv, TypeOK, Idle
<1>2. proc'[p] = Idle /\ \A q \in Procs : q # p => proc'[q] = proc[q]
  BY <1>1 DEF Stop
<1> QED
  BY <1>1, <1>2 DEF HoldersFixed, At

LEMMA NextTargetFixed ==
  ASSUME IInv, IInv', ~At(WarmLoop, "insert"), NEW local, NextTarget(local)
  PROVE  HoldersFixed
<1>1. WarmLoop \in Procs
  BY DEF Procs
<1> QED
  BY <1>1, MoveFixed, StopFixed DEF NextTarget

\* Deleting a registration stops no machine; a request to terminate stops one at most.
LEMMA CallsFixed ==
  ASSUME IInv, NEW i, lastInstance' = lastInstance
  PROVE  /\ UNCHANGED instances => FleetFixed /\ WorkFixed
         /\ DeleteRepoRunner(i) => FleetFixed /\ WorkFixed
         /\ RequestTermination(i) => FleetFixed /\ WorkEnds
<1>0. instances \in [InstanceIds -> Instance]
  BY DEF IInv, TypeOK
<1>1. ASSUME UNCHANGED instances
      PROVE  FleetFixed /\ WorkFixed
  BY <1>1 DEF FleetFixed, WorkFixed, Working
<1>2. ASSUME DeleteRepoRunner(i)
      PROVE  FleetFixed /\ WorkFixed
  <2>1. ASSUME NEW k \in InstanceIds
        PROVE  /\ instances'[k].state = instances[k].state
               /\ \/ instances'[k].agent = instances[k].agent
                  \/ instances[k].agent = "idle" /\ instances'[k].agent = "gone"
    BY <1>0, <1>2 DEF DeleteRepoRunner, Deregister, Instance
  <2> QED
    BY <2>1 DEF FleetFixed, WorkFixed, Working
<1>3. ASSUME RequestTermination(i)
      PROVE  FleetFixed /\ WorkEnds
  <2>1. ASSUME NEW k \in InstanceIds
        PROVE  /\ instances'[k].agent = instances[k].agent
               /\ \/ instances'[k].state = instances[k].state
                  \/ /\ k = i /\ instances[k].state \in {"RUNNING", "STOPPED"}
                     /\ instances'[k].state = "TERMINATING"
    BY <1>0, <1>3 DEF RequestTermination, Instance
  <2> QED
    BY <2>1 DEF FleetFixed, WorkEnds, Working
<1> QED
  BY <1>1, <1>2, <1>3

\* The parts of a quiet step.
LEMMA QuietParts ==
  ASSUME IInv, RowsFixed, HoldersFixed, FleetFixed, WorkFixed \/ WorkEnds,
         faults' = faults \/ faults' = faults + 1
  PROVE  Quiet
<1>1. faults \in Nat
  BY ConstantAssumption DEF IInv, TypeOK
<1> QED
  BY <1>1 DEF Quiet, WorkEnds, WorkFixed

\* A machine that is written on its own, with its other half kept as it was.
LEMMA MachineStep ==
  ASSUME IInv, NEW i, NEW m, instances' = [instances EXCEPT ![i] = m], lastInstance' = lastInstance,
         i \in InstanceIds =>
           /\ m.state = "none" <=> instances[i].state = "none"
           /\ m.state = "RUNNING" \/ m.agent = "busy" => Working(i)
  PROVE  FleetFixed /\ WorkEnds
<1>1. instances \in [InstanceIds -> Instance]
  BY DEF IInv, TypeOK
<1>2. ASSUME NEW k \in InstanceIds
      PROVE  instances'[k] = IF k = i THEN m ELSE instances[k]
  BY <1>1
<1> QED
  BY <1>2 DEF FleetFixed, WorkEnds, Working

-----------------------------------------------------------------------------
(* The steps                                                                *)

\* GitHub, OCI and time stop machines, one at a time; they open no books.
LEMMA WorldBooks == ASSUME IInv, SInv, World PROVE Quiet
<1>0. instances \in [InstanceIds -> Instance] /\ runners \in [RowIds -> Runner]
  BY DEF IInv, TypeOK
<1>1. ASSUME UnchangedStore, UNCHANGED <<proc, lastInstance>>,
             faults' = faults \/ faults' = faults + 1,
             FleetFixed, WorkFixed \/ WorkEnds
      PROVE  Quiet
  BY <1>1, QuietParts DEF UnchangedStore, RowsFixed, Present, HoldersFixed, At
<1>2. ASSUME NEW i, NEW agent, agent \in {"idle", "busy", "gone"},
             instances' = [instances EXCEPT ![i].agent = agent],
             agent = "busy" => instances[i].state = "RUNNING",
             UnchangedStore, UNCHANGED <<lastInstance, proc, faults>>
      PROVE  Quiet
  <2> DEFINE m == [instances[i] EXCEPT !.agent = agent]
  <2>1. instances' = [instances EXCEPT ![i] = m]
    BY <1>2
  <2>2. i \in InstanceIds => m.state = instances[i].state /\ m.agent = agent
    BY <1>0 DEF Instance
  <2> HIDE DEF m
  <2>3. FleetFixed /\ WorkEnds
    BY <1>2, <2>1, <2>2, MachineStep DEF Working
  <2> QED
    BY <1>1, <1>2, <2>3
<1>3. ASSUME NEW i, NEW state \in {"STOPPED", "TERMINATED"}, instances[i].state # "none",
             instances' = [instances EXCEPT ![i].state = state, ![i].agent = "gone"],
             UnchangedStore, UNCHANGED <<lastInstance, proc>>,
             faults' = faults \/ faults' = faults + 1
      PROVE  Quiet
  <2> DEFINE m == [instances[i] EXCEPT !.state = state, !.agent = "gone"]
  <2>1. instances' = [instances EXCEPT ![i] = m]
    BY <1>0, <1>3
  <2>2. i \in InstanceIds => m.state = state /\ m.agent = "gone"
    BY <1>0 DEF Instance
  <2> HIDE DEF m
  <2>3. FleetFixed /\ WorkEnds
    BY <1>3, <2>1, <2>2, MachineStep
  <2> QED
    BY <1>1, <1>3, <2>3
<1>4. ASSUME NEW j \in Jobs, NEW i \in InstanceIds, JobStarts(j, i) PROVE Quiet
  BY <1>2, <1>4 DEF JobStarts
<1>5. ASSUME NEW j \in Jobs, NEW c \in Conclusions, JobEnds(j, c) PROVE Quiet
  <2>1. CASE github[j].phase = "running"
    BY <1>2, <1>5, <2>1 DEF JobEnds
  <2>2. CASE github[j].phase # "running"
    BY <1>1, <1>5, <2>2, CallsFixed DEF JobEnds
  <2> QED
    BY <2>1, <2>2
<1>6. ASSUME NEW i \in InstanceIds, AgentRegisters(i) PROVE Quiet
  BY <1>2, <1>6 DEF AgentRegisters
<1>7. ASSUME NEW i \in InstanceIds,
             InstancePowersOff(i) \/ TerminationCompletes(i) \/ InstancePreempted(i)
      PROVE  Quiet
  BY <1>3, <1>7 DEF InstancePowersOff, TerminationCompletes, InstancePreempted, InstanceGone
<1>8. ASSUME NEW r \in RowIds, RunnerExpires(r) PROVE Quiet
  <2>1. ASSUME NEW s \in RowIds
        PROVE  /\ runners'[s].instance = runners[s].instance
               /\ runners'[s].terminated = runners[s].terminated
               /\ runners'[s].status = runners[s].status
    BY <1>0, <1>8 DEF RunnerExpires, Runner
  <2>2. RowsFixed /\ HoldersFixed
    BY <1>8, <2>1 DEF RunnerExpires, RowsFixed, Present, HoldersFixed, At
  <2> QED
    BY <1>8, <2>2, CallsFixed, QuietParts DEF RunnerExpires, UnchangedWorld
<1> QED
  BY <1>4, <1>5, <1>6, <1>7, <1>8 DEF World

\* A webhook handler changes nothing that is on the books: it holds no machine before
\* it launches one.
LEMMA WebhookBooks ==
  ASSUME IInv, IInv', SInv, NEW h \in Handlers, Webhook(h)
  PROVE  Quiet
<1>0. /\ h \in Procs /\ proc[h] \in Local /\ LocalOK(h)
      /\ proc[h].cur.row \in RowIds => Present(proc[h].cur.row)
  BY DEF IInv, TypeOK, Procs, SInv, Knows
<1>1. ASSUME UnchangedWorld, UNCHANGED faults, RowsFixed, HoldersFixed PROVE Quiet
  BY <1>1, CallsFixed, QuietParts DEF UnchangedWorld
<1>2. UNCHANGED <<runners, lastRow>> => RowsFixed
  BY DEF RowsFixed, Present
<1>3. ASSUME NEW j \in Jobs, NEW k \in Kinds, Receive(h, j, k) PROVE Quiet
  <2>1. CASE UNCHANGED proc
    BY <1>1, <1>2, <1>3, <2>1 DEF Receive, HoldersFixed, At
  <2>2. CASE \E local : Continue(h, local, "start")
    <3>1. HoldersFixed
      BY <1>0, <1>3, <2>2, MoveFixed DEF Receive, At
    <3> QED
      BY <1>1, <1>2, <1>3, <3>1 DEF Receive
  <2> QED
    BY <1>3, <2>1, <2>2 DEF Receive
<1>4. ASSUME \/ RepositoryNotAllowed(h) \/ AdmissionBlocks(h) \/ FindWarmIdleRunner(h)
             \/ CountActiveRunners(h)
      PROVE  Quiet
  <2>1. ~At(h, "insert")
    BY <1>4 DEF RepositoryNotAllowed, AdmissionBlocks, FindWarmIdleRunner, CountActiveRunners, At
  <2>2. \/ Stop(h)
        \/ \E local, label : label # "insert" /\ Continue(h, local, label)
    BY <1>4 DEF RepositoryNotAllowed, AdmissionBlocks, FindWarmIdleRunner, CountActiveRunners
  <2>3. HoldersFixed
    BY <1>0, <2>1, <2>2, MoveFixed, StopFixed
  <2> QED
    BY <1>1, <1>2, <1>4, <2>3
       DEF RepositoryNotAllowed, AdmissionBlocks, FindWarmIdleRunner, CountActiveRunners,
           UnchangedStore
<1>5. ASSUME RecordQueuedJob(h) \/ RecordJobProgress(h) PROVE Quiet
  <2>1. ~At(h, "insert")
    BY <1>5 DEF RecordQueuedJob, RecordJobProgress, At
  <2>2. \/ Stop(h)
        \/ \E local, label : label # "insert" /\ Continue(h, local, label)
    BY <1>5 DEF RecordQueuedJob, RecordJobProgress
  <2>3. HoldersFixed
    BY <1>0, <2>1, <2>2, MoveFixed, StopFixed
  <2> QED
    BY <1>1, <1>2, <1>5, <2>3 DEF RecordQueuedJob, RecordJobProgress
<1>6. ASSUME ReserveState(h) \/ ReserveStatus(h) \/ ConsumeWarm(h) PROVE Quiet
  <2>1. ~At(h, "insert")
    BY <1>6 DEF ReserveState, ReserveStatus, ConsumeWarm, At
  <2>2. Stop(h) \/ \E local, label : label # "insert" /\ Continue(h, local, label)
    BY <1>6 DEF ReserveState, ReserveStatus, ConsumeWarm
  <2>3. HoldersFixed
    BY <1>0, <2>1, <2>2, MoveFixed, StopFixed
  <2>4. RowsFixed
    BY <1>0, <1>6, RowWritesFixed DEF ReserveState, ReserveStatus, ConsumeWarm
  <2> QED
    BY <1>1, <1>6, <2>3, <2>4 DEF ReserveState, ReserveStatus, ConsumeWarm
<1>7. ASSUME SyncRunnerStatus(h) PROVE Quiet
  <2> DEFINE status == PayloadStatus(proc[h].job, proc[h].kind)
  <2>1. status # "absent"
    BY <1>0, <1>7, ConstantAssumption
       DEF SyncRunnerStatus, At, LocalOK, Fits, PayloadStatus, IInv, ConclusionOK
  <2>2. ~At(h, "insert") /\ (Stop(h) \/ \E local : Continue(h, local, "list"))
    BY <1>7 DEF SyncRunnerStatus, At
  <2>3. HoldersFixed
    BY <1>0, <2>2, MoveFixed, StopFixed
  <2>4. RowsFixed
    BY <1>0, <1>7, <2>1, RowWritesFixed DEF SyncRunnerStatus
  <2> QED
    BY <1>1, <1>7, <2>3, <2>4 DEF SyncRunnerStatus
<1> QED
  BY <1>3, <1>4, <1>5, <1>6, <1>7 DEF Webhook

\* A cleanup pass closes a row, or leaves the books as they are.
LEMMA CleanupBooks ==
  ASSUME IInv, IInv', SInv, NEW p \in Handlers \union Sweepers, Cleanup(p)
  PROVE  Quiet \/ \E r : Closes(r)
<1> DEFINE c == proc[p].cur
<1>0. /\ p \in Procs /\ proc[p] \in Local /\ Knows(p, proc[p], proc[p].pc)
      /\ c.row \in RowIds => Present(c.row)
  BY DEF IInv, TypeOK, Procs, SInv, Knows
<1>1. UNCHANGED <<runners, lastRow>> => RowsFixed
  BY DEF RowsFixed, Present
\* Every step of a pass is a move from one of its labels to another, or its end.
<1>2. /\ ~At(p, "insert")
      /\ Stop(p) \/ \E local, label : label # "insert" /\ Continue(p, local, label)
  BY DEF Cleanup, ListCleanupCandidates, TakeCandidate, FindInstanceEnded, CloseRunner,
         TerminateRunner, TerminateFails, MarkTerminating, RowWriteFails, EndSweep, SweepFails,
         NextCandidate, At
<1>3. HoldersFixed
  BY <1>0, <1>2, MoveFixed, StopFixed
<1>4. ASSUME \/ ListCleanupCandidates(p) \/ FindInstanceEnded(p) \/ TerminateFails(p)
             \/ EndSweep(p) \/ SweepFails(p)
      PROVE  Quiet
  <2>1. /\ UNCHANGED <<runners, lastRow, instances, lastInstance>>
        /\ faults' = faults \/ faults' = faults + 1
    BY <1>4 DEF ListCleanupCandidates, FindInstanceEnded, TerminateFails, EndSweep, SweepFails,
                UnchangedStore, UnchangedWorld
  <2> QED
    BY <1>1, <1>3, <2>1, CallsFixed, QuietParts
<1>5. ASSUME TakeCandidate(p) PROVE Quiet
  <2>0. PICK s \in proc[p].todo :
          \E gh : IF gh # 0 THEN UpdateRunnerStatus(s.row, s.status, gh) ELSE UNCHANGED runners
    BY <1>5 DEF TakeCandidate
  <2>1. PICK gh : IF gh # 0 THEN UpdateRunnerStatus(s.row, s.status, gh) ELSE UNCHANGED runners
    BY <2>0
  <2>2. Present(s.row) /\ s.status # "absent"
    BY <1>0, <2>1 DEF Knows
  <2>3. RowsFixed
    BY <1>5, <2>1, <2>2, RowWritesFixed DEF TakeCandidate
  <2> QED
    BY <1>3, <1>5, <2>3, CallsFixed, QuietParts DEF TakeCandidate, UnchangedWorld
<1>6. ASSUME TerminateRunner(p) PROVE Quiet
  <2>1. FleetFixed /\ WorkEnds
    BY <1>6, CallsFixed DEF TerminateRunner
  <2> QED
    BY <1>1, <1>3, <1>6, <2>1, QuietParts DEF TerminateRunner, UnchangedStore
<1>7. ASSUME MarkTerminating(p) PROVE Quiet
  <2>1. RowsFixed
    BY <1>0, <1>7, RowWritesFixed DEF MarkTerminating
  <2> QED
    BY <1>3, <1>7, <2>1, CallsFixed, QuietParts DEF MarkTerminating
<1>8. ASSUME RowWriteFails(p) PROVE Quiet
  BY <1>1, <1>3, <1>8, CallsFixed, QuietParts DEF RowWriteFails, UnchangedStore
<1>9. ASSUME CloseRunner(p) PROVE Closes(c.row)
  <2> DEFINE r == c.row
  <2>1. r \in RowIds /\ Present(r) /\ Down(runners[r].instance)
    BY <1>0, <1>9 DEF CloseRunner, At, Knows
  <2>2. runners \in [RowIds -> Runner] /\ MarkRunnerTerminated(r)
    BY <1>9 DEF IInv, TypeOK, CloseRunner
  <2> HIDE DEF r
  <2>3. ASSUME NEW s \in RowIds
        PROVE  /\ runners'[s].instance = runners[s].instance
               /\ Present(s)' <=> Present(s)
               /\ runners'[s].terminated <=> runners[s].terminated \/ s = r
    BY <2>1, <2>2 DEF MarkRunnerTerminated, WithTermination, Runner, Present
  <2>4. FleetFixed /\ WorkFixed
    BY <1>9, CallsFixed DEF CloseRunner
  <2> QED
    BY <1>3, <1>9, <2>1, <2>3, <2>4 DEF Closes, CloseRunner, r
<1> QED
  BY <1>4, <1>5, <1>6, <1>7, <1>8, <1>9 DEF Cleanup

\* A request to the admin endpoint leaves the books as they are.
LEMMA AdminBooks ==
  ASSUME IInv, IInv', SInv, NEW p \in Operators, Admin(p)
  PROVE  Quiet
<1>0. /\ p \in Procs /\ proc[p] \in Local
      /\ proc[p].cur.row \in RowIds => Present(proc[p].cur.row)
  BY DEF IInv, TypeOK, Procs, Sweepers, SInv, Knows
<1>1. UNCHANGED <<runners, lastRow>> => RowsFixed
  BY DEF RowsFixed, Present
<1>2. /\ ~At(p, "insert")
      /\ Stop(p) \/ \E local, label : label # "insert" /\ Continue(p, local, label)
  BY DEF Admin, AdminTerminate, AdminTerminateInstance, AdminMark, At
<1>3. HoldersFixed
  BY <1>0, <1>2, MoveFixed, StopFixed
<1>4. ASSUME NEW r \in RowIds, AdminTerminate(p, r) PROVE Quiet
  BY <1>1, <1>3, <1>4, CallsFixed, QuietParts DEF AdminTerminate, UnchangedStore, UnchangedWorld
<1>5. ASSUME AdminTerminateInstance(p) PROVE Quiet
  <2>1. FleetFixed /\ (WorkFixed \/ WorkEnds)
    BY <1>5, CallsFixed DEF AdminTerminateInstance
  <2> QED
    BY <1>1, <1>3, <1>5, <2>1, QuietParts DEF AdminTerminateInstance, UnchangedStore
<1>6. ASSUME AdminMark(p) PROVE Quiet
  <2>1. RowsFixed
    BY <1>0, <1>6, RowWritesFixed DEF AdminMark
  <2> QED
    BY <1>3, <1>6, <2>1, CallsFixed, QuietParts DEF AdminMark, UnchangedWorld
<1> QED
  BY <1>4, <1>5, <1>6 DEF Admin

\* So does the warm pool, until it launches.
LEMMA WarmPoolBooks ==
  ASSUME IInv, IInv', SInv, WarmPool
  PROVE  Quiet
<1> DEFINE p == WarmLoop
<1>0. /\ p \in Procs /\ proc[p] \in Local
      /\ proc[p].cur.row \in RowIds => Present(proc[p].cur.row)
  BY DEF IInv, TypeOK, Procs, SInv, Knows
<1>1. ~At(p, "insert")
  BY DEF WarmPool, ListWarming, ProbeWarming, SetWarmStatus, SetWarmIdle, FindActiveWarmRunner,
         CountForWarmTarget, At
<1>2. \/ \E local : NextTarget(local)
      \/ \E local, label : label # "insert" /\ Continue(p, local, label)
  BY DEF WarmPool, ListWarming, ProbeWarming, SetWarmStatus, SetWarmIdle, FindActiveWarmRunner,
         CountForWarmTarget
<1>3. HoldersFixed
  BY <1>0, <1>1, <1>2, MoveFixed, NextTargetFixed
<1>4. RowsFixed
  <2>1. CASE ListWarming \/ ProbeWarming \/ FindActiveWarmRunner \/ CountForWarmTarget
    BY <2>1 DEF ListWarming, ProbeWarming, FindActiveWarmRunner, CountForWarmTarget,
                UnchangedStore, RowsFixed, Present
  <2>2. CASE SetWarmStatus \/ SetWarmIdle
    BY <1>0, <2>2, RowWritesFixed DEF SetWarmStatus, SetWarmIdle
  <2> QED
    BY <2>1, <2>2 DEF WarmPool
<1>5. UNCHANGED <<instances, lastInstance, faults>>
  BY DEF WarmPool, ListWarming, ProbeWarming, SetWarmStatus, SetWarmIdle, FindActiveWarmRunner,
         CountForWarmTarget, UnchangedWorld
<1> QED
  BY <1>3, <1>4, <1>5, CallsFixed, QuietParts

\* A launch that fails once the instance exists is a machine dropped.
LEMMA LaunchBooks ==
  ASSUME IInv, IInv', NEW p \in Handlers \union {WarmLoop}, LaunchFails(p) \/ CreateRunnerFails(p)
  PROVE  Quiet \/ Drops(p)
<1>0. p \in Procs /\ proc \in [Procs -> Local] /\ proc' \in [Procs -> Local]
  BY DEF IInv, TypeOK, Procs
<1>1. /\ UNCHANGED <<runners, lastRow, instances, lastInstance>>
      /\ Stop(p) \/ (p = WarmLoop /\ \E local : NextTarget(local))
  BY DEF LaunchFails, CreateRunnerFails, LaunchError, UnchangedWorld
<1>2. CASE LaunchFails(p)
  <2>1. HoldersFixed
    BY <1>0, <1>1, <1>2, StopFixed, NextTargetFixed DEF LaunchFails, At
  <2>2. RowsFixed
    BY <1>1 DEF RowsFixed, Present
  <2> QED
    BY <1>1, <1>2, <2>1, <2>2, CallsFixed, QuietParts DEF LaunchFails
<1>3. CASE CreateRunnerFails(p)
  <2>1. Stop(p) \/ \E local : Continue(p, local, "warm_scan")
    BY <1>1 DEF NextTarget
  <2>2. \A q \in Procs : q # p => proc'[q] = proc[q]
    BY <1>0, <2>1 DEF Stop, Continue
  <2>3. CASE Stop(p)
    BY <1>0, <1>1, <1>3, <2>2, <2>3 DEF Stop, Idle, CreateRunnerFails, Drops, At
  <2>4. ASSUME NEW local, Continue(p, local, "warm_scan")
        PROVE  Drops(p)
    <3>1. proc'[p] = [local EXCEPT !.pc = "warm_scan"] /\ proc'[p] \in Local
      BY <1>0, <2>4 DEF Continue
    <3>2. proc'[p].pc = "warm_scan"
      BY <3>1 DEF Local
    <3> QED
      BY <1>1, <1>3, <2>2, <3>2 DEF CreateRunnerFails, Drops, At
  <2> QED
    BY <2>1, <2>3, <2>4
<1> QED
  BY <1>2, <1>3

\* A request that is aborted drops the machine it holds, if any.
LEMMA AbortBooks ==
  ASSUME IInv, NEW p \in Procs, Abort(p)
  PROVE  Quiet \/ Drops(p)
<1>1. proc \in [Procs -> Local] /\ Idle.pc = "idle"
  BY DEF IInv, TypeOK, Idle
<1>2. CASE At(p, "insert")
  BY <1>1, <1>2 DEF Abort, Stop, Drops, At, UnchangedStore, UnchangedWorld
<1>3. CASE ~At(p, "insert")
  BY <1>3, StopFixed, CallsFixed, QuietParts
     DEF Abort, UnchangedStore, UnchangedWorld, RowsFixed, Present
<1> QED
  BY <1>2, <1>3

\* Every step opens, moves or closes at most one book.
LEMMA NextBooks ==
  ASSUME IInv, IInv', SInv, [Next]_vars
  PROVE  \/ Quiet
         \/ \E r : Closes(r)
         \/ \E p \in Procs : Drops(p)
         \/ \E p \in Handlers \union {WarmLoop} : LaunchInstance(p) \/ CreateRunner(p)
<1>1. CASE UNCHANGED vars
  BY <1>1, CallsFixed, QuietParts DEF vars, RowsFixed, Present, HoldersFixed, At
<1>2. ASSUME NEW p \in Handlers \union {WarmLoop}, Launch(p)
      PROVE  Quiet \/ (\E q \in Procs : Drops(q)) \/ LaunchInstance(p) \/ CreateRunner(p)
  BY <1>2, LaunchBooks DEF Launch, Procs
<1> QED
  BY <1>1, <1>2, WorldBooks, WebhookBooks, CleanupBooks, AdminBooks, WarmPoolBooks, AbortBooks
     DEF Next

-----------------------------------------------------------------------------
(* The books                                                                *)

\* The four questions that decide where a machine stands.
Unlaunched(i) == instances[i].state = "none"

Retired(i) == \E r \in RowIds : runners[r].instance = i /\ runners[r].terminated

Standing(unlaunched, retired, tracked, held) ==
  IF unlaunched THEN "unlaunched"
  ELSE IF retired THEN "retired" ELSE IF tracked THEN "tracked" ELSE IF held THEN "held" ELSE "lost"

SameRows(i) == (Retired(i)' <=> Retired(i)) /\ (Tracked(i)' <=> Tracked(i))

\* The cases of Book exclude one another: a machine that was not launched has no row
\* and nobody holds it.
LEMMA BookStands ==
  IInv /\ SInv /\ LInv =>
    \A i \in InstanceIds :
      /\ Unlaunched(i) => ~Retired(i) /\ ~Tracked(i) /\ ~Held(i)
      /\ Retired(i) => Tracked(i)
      /\ Book(i) = Standing(Unlaunched(i), Retired(i), Tracked(i), Held(i))
<1> SUFFICES ASSUME IInv, SInv, LInv, NEW i \in InstanceIds
             PROVE  /\ Unlaunched(i) => ~Retired(i) /\ ~Tracked(i) /\ ~Held(i)
                    /\ Retired(i) => Tracked(i)
                    /\ Book(i) = Standing(Unlaunched(i), Retired(i), Tracked(i), Held(i))
  OBVIOUS
<1>1. Retired(i) => Tracked(i)
  BY DEF SInv, RowOK, Present, Retired, Tracked
<1>2. Tracked(i) => i \in 1..lastInstance
  BY DEF SInv, RowOK, Present, Tracked
<1>3. Held(i) => i \in 1..lastInstance
  BY DEF SInv, HoldsMachine, Held
<1>4. Unlaunched(i) => ~Retired(i) /\ ~Tracked(i) /\ ~Held(i)
  BY <1>1, <1>2, <1>3 DEF LInv, Unlaunched
<1>5. Book(i) = Standing(Unlaunched(i), Retired(i), Tracked(i), Held(i))
  BY <1>1, <1>4 DEF Book, Standing, Unlaunched, Retired, Tracked, Orphan
<1> QED
  BY <1>1, <1>4, <1>5

LEMMA BookStandsNext ==
  (IInv /\ SInv /\ LInv =>
    \A i \in InstanceIds :
      /\ Unlaunched(i) => ~Retired(i) /\ ~Tracked(i) /\ ~Held(i)
      /\ Retired(i) => Tracked(i)
      /\ Book(i) = Standing(Unlaunched(i), Retired(i), Tracked(i), Held(i)))'
  BY BookStands, PTL

\* What becomes of the four answers in each kind of step.
LEMMA HeldFixed ==
  ASSUME HoldersFixed, NEW i
  PROVE  Held(i)' <=> Held(i)
  BY DEF HoldersFixed, Held, At

LEMMA QuietBooks ==
  ASSUME Quiet, NEW i \in InstanceIds
  PROVE  /\ (Unlaunched(i)' <=> Unlaunched(i)) /\ (Held(i)' <=> Held(i))
         /\ SameRows(i)
<1>1. Unlaunched(i)' <=> Unlaunched(i)
  BY DEF Quiet, FleetFixed, Unlaunched
<1>2. SameRows(i)
  BY DEF Quiet, RowsFixed, SameRows, Retired, Tracked, Present
<1> QED
  BY <1>1, <1>2, HeldFixed DEF Quiet

LEMMA CloseBooks ==
  ASSUME NEW r, Closes(r), NEW i \in InstanceIds
  PROVE  /\ (Unlaunched(i)' <=> Unlaunched(i)) /\ (Held(i)' <=> Held(i))
         /\ Tracked(i)' <=> Tracked(i)
         /\ Retired(i)' <=> Retired(i) \/ i = runners[r].instance
<1>1. Unlaunched(i)' <=> Unlaunched(i)
  BY DEF Closes, FleetFixed, Unlaunched
<1>2. Tracked(i)' <=> Tracked(i)
  BY DEF Closes, Tracked, Present
<1>3. Retired(i)' <=> Retired(i) \/ i = runners[r].instance
  BY DEF Closes, Retired
<1> QED
  BY <1>1, <1>2, <1>3, HeldFixed DEF Closes

LEMMA DropBooks ==
  ASSUME NEW p \in Procs, Drops(p), NEW i \in InstanceIds
  PROVE  /\ Unlaunched(i)' <=> Unlaunched(i)
         /\ SameRows(i)
         /\ Held(i)' => Held(i)
         /\ i # proc[p].instance => (Held(i) => Held(i)')
<1>1. Unlaunched(i)' <=> Unlaunched(i)
  BY DEF Drops, Unlaunched
<1>2. SameRows(i)
  BY DEF Drops, SameRows, Retired, Tracked
<1>3. (Held(i)' => Held(i)) /\ (i # proc[p].instance => (Held(i) => Held(i)'))
  BY DEF Drops, Held, At
<1> QED
  BY <1>1, <1>2, <1>3

LEMMA LaunchedBooks ==
  ASSUME IInv, NEW p \in Procs, LaunchInstance(p), NEW i \in InstanceIds
  PROVE  /\ Unlaunched(i)' <=> Unlaunched(i) /\ i # lastInstance + 1
         /\ SameRows(i)
         /\ Held(i)' <=> Held(i) \/ i = lastInstance + 1
         /\ Working(i)' <=> Working(i) \/ i = lastInstance + 1
<1> DEFINE n == lastInstance + 1
<1>1. proc \in [Procs -> Local] /\ instances \in [InstanceIds -> Instance]
  BY DEF IInv, TypeOK
<1>2. instances'[i] = IF i = n THEN [state |-> "RUNNING", policy |-> proc[p].policy,
                                     job |-> proc[p].job, agent |-> "booting"]
                               ELSE instances[i]
  BY <1>1 DEF LaunchInstance
<1>3. At(p, "launch") /\ proc' = [proc EXCEPT ![p] = [[proc[p] EXCEPT !.instance = n] EXCEPT !.pc = "insert"]]
  BY DEF LaunchInstance, Continue
<1> HIDE DEF n
<1>4. /\ proc[p].pc = "launch" /\ proc'[p].pc = "insert" /\ proc'[p].instance = n
      /\ \A q \in Procs : q # p => proc'[q] = proc[q]
  BY <1>1, <1>3 DEF At, Local
<1>5. Held(i)' <=> Held(i) \/ i = n
  BY <1>4 DEF Held, At
<1>6. (Unlaunched(i)' <=> Unlaunched(i) /\ i # n) /\ (Working(i)' <=> Working(i) \/ i = n)
  BY <1>2 DEF Unlaunched, Working
<1>7. SameRows(i)
  BY DEF LaunchInstance, UnchangedStore, SameRows, Retired, Tracked
<1> QED
  BY <1>5, <1>6, <1>7 DEF n

LEMMA CreatedBooks ==
  ASSUME IInv, IInv', SInv, NEW p \in Handlers \union {WarmLoop}, CreateRunner(p),
         NEW i \in InstanceIds
  PROVE  /\ Unlaunched(i)' <=> Unlaunched(i)
         /\ Retired(i)' <=> Retired(i)
         /\ Tracked(i)' <=> Tracked(i) \/ i = proc[p].instance
         /\ i # proc[p].instance => (Held(i)' <=> Held(i))
<1> DEFINE n == lastRow + 1
<1>1. /\ proc \in [Procs -> Local] /\ proc' \in [Procs -> Local] /\ runners \in [RowIds -> Runner]
      /\ p \in Procs /\ lastRow \in Nat /\ n \in RowIds /\ At(p, "insert")
  BY ConstantAssumption DEF IInv, TypeOK, CreateRunner, RowIds, Procs
<1>2. /\ NewRunner(p).instance = proc[p].instance /\ NewRunner(p).status = "launching"
      /\ NewRunner(p).terminated = FALSE
  BY DEF NewRunner, NoRunner
<1>3. ~Present(n) /\ ~runners[n].terminated
  BY <1>1 DEF SInv, RowOK
<1>4. runners' = [runners EXCEPT ![n] = NewRunner(p)]
  BY DEF CreateRunner
<1> HIDE DEF n
<1>5. Retired(i)' <=> Retired(i)
  BY <1>1, <1>2, <1>3, <1>4 DEF Retired
<1>6. Tracked(i)' <=> Tracked(i) \/ i = proc[p].instance
  BY <1>1, <1>2, <1>3, <1>4 DEF Tracked, Present
<1>7. \A q \in Procs : q # p => proc'[q] = proc[q]
  BY <1>1 DEF CreateRunner, NextTarget, Stop, Continue
<1>8. proc'[p].pc # "insert"
  <2>1. Stop(p) \/ \E local : Continue(p, local, "warm_scan")
    BY DEF CreateRunner, NextTarget
  <2>2. CASE Stop(p)
    BY <1>1, <2>2 DEF Stop, Idle
  <2>3. ASSUME NEW local, Continue(p, local, "warm_scan")
        PROVE  proc'[p].pc # "insert"
    <3>1. proc'[p] = [local EXCEPT !.pc = "warm_scan"] /\ proc'[p] \in Local
      BY <1>1, <2>3 DEF Continue
    <3> QED
      BY <3>1 DEF Local
  <2> QED
    BY <2>1, <2>2, <2>3
<1>9. i # proc[p].instance => (Held(i)' <=> Held(i))
  BY <1>1, <1>7, <1>8 DEF Held, At
<1>10. Unlaunched(i)' <=> Unlaunched(i)
  BY DEF CreateRunner, UnchangedWorld, Unlaunched
<1> QED
  BY <1>5, <1>6, <1>9, <1>10

-----------------------------------------------------------------------------
(* Orphans                                                                  *)

\* The sets of machines can be counted.
LEMMA MachineSets ==
  ASSUME NEW S \in SUBSET InstanceIds, NEW T \in SUBSET S
  PROVE  /\ IsFiniteSet(S) /\ Cardinality(S) \in Nat
         /\ Cardinality(T) \in Nat /\ Cardinality(T) <= Cardinality(S)
<1>1. IsFiniteSet(InstanceIds)
  BY FS_Interval, ConstantAssumption DEF InstanceIds
<1>2. IsFiniteSet(S)
  BY <1>1, FS_Subset
<1> QED
  BY <1>2, FS_Subset, FS_CardinalityType

LEMMA InitBooks == Init => LInv
<1> SUFFICES ASSUME Init PROVE LInv
  OBVIOUS
<1>1. Orphans = {}
  BY DEF Init, Orphans, Orphan, NoInstance
<1>2. Cardinality(Orphans) = 0
  BY <1>1, FS_EmptySet
<1>3. lastInstance = 0 /\ faults = 0
  BY DEF Init
<1>4. 1..0 = {}
  OBVIOUS
<1> QED
  BY <1>2, <1>3, <1>4 DEF LInv

\* Only a drop makes an orphan, one, at the cost of a fault.
LEMMA OrphansPaid ==
  ASSUME IInv, IInv', SInv, LInv, [Next]_vars
  PROVE  LInv'
<1>0. /\ lastInstance \in Nat /\ lastInstance <= MaxInstances /\ faults \in Nat
      /\ instances \in [InstanceIds -> Instance] /\ faults' \in Nat /\ MaxInstances \in Nat
  BY ConstantAssumption DEF IInv, TypeOK
<1>1. 1..lastInstance \subseteq InstanceIds
  BY <1>0 DEF InstanceIds
<1>2. Orphans = {i \in InstanceIds : ~Unlaunched(i) /\ ~Tracked(i) /\ ~Held(i)}
  BY DEF Orphans, Orphan, Unlaunched
<1>3. Orphans' = {i \in InstanceIds : ~Unlaunched(i)' /\ ~Tracked(i)' /\ ~Held(i)'}
  BY DEF Orphans, Orphan, Unlaunched
<1>4. ASSUME lastInstance' = lastInstance,
             \A i \in InstanceIds : Unlaunched(i)' <=> Unlaunched(i)
      PROVE  \A i \in 1..lastInstance' : instances'[i].state # "none"
  BY <1>1, <1>4 DEF LInv, Unlaunched
<1>5. ASSUME Orphans' \subseteq Orphans, faults <= faults'
      PROVE  Cardinality(Orphans') <= faults'
  <2>1. Orphans \subseteq InstanceIds
    BY DEF Orphans
  <2>2. Cardinality(Orphans) \in Nat /\ Cardinality(Orphans') \in Nat
        /\ Cardinality(Orphans') <= Cardinality(Orphans)
    BY <1>5, <2>1, MachineSets
  <2> QED
    BY <1>0, <1>5, <2>2 DEF LInv
<1>6. CASE Quiet
  <2>1. Orphans' \subseteq Orphans
    BY <1>2, <1>3, <1>6, QuietBooks DEF SameRows
  <2>2. \A i \in 1..lastInstance' : instances'[i].state # "none"
    BY <1>4, <1>6, QuietBooks DEF Quiet, FleetFixed
  <2> QED
    BY <1>5, <1>6, <2>1, <2>2 DEF Quiet, LInv
<1>7. ASSUME NEW r, Closes(r)
      PROVE  LInv'
  <2>1. Orphans' \subseteq Orphans
    BY <1>2, <1>3, <1>7, CloseBooks
  <2>2. \A i \in 1..lastInstance' : instances'[i].state # "none"
    BY <1>4, <1>7, CloseBooks DEF Closes, FleetFixed
  <2>3. faults <= faults'
    BY <1>0, <1>7 DEF Closes
  <2> QED
    BY <1>5, <2>1, <2>2, <2>3 DEF LInv
<1>8. ASSUME NEW p \in Procs, Drops(p)
      PROVE  LInv'
  <2> DEFINE i == proc[p].instance
  <2>1. Orphans' \subseteq Orphans \union {i} /\ Orphans \subseteq InstanceIds
    BY <1>2, <1>3, <1>8, DropBooks DEF SameRows
  <2>2. IsFiniteSet(Orphans) /\ Cardinality(Orphans) \in Nat
    BY <2>1, MachineSets
  <2> HIDE DEF i
  <2>3. /\ IsFiniteSet(Orphans \union {i}) /\ Cardinality(Orphans \union {i}) \in Nat
        /\ Cardinality(Orphans \union {i}) <= Cardinality(Orphans) + 1
    <3>1. /\ IsFiniteSet(Orphans \union {i})
          /\ \/ Cardinality(Orphans \union {i}) = Cardinality(Orphans)
             \/ Cardinality(Orphans \union {i}) = Cardinality(Orphans) + 1
      BY <2>2, FS_AddElement
    <3> QED
      BY <2>2, <3>1
  <2>4. Cardinality(Orphans') \in Nat /\ Cardinality(Orphans') <= Cardinality(Orphans \union {i})
    BY <2>1, <2>3, FS_Subset, FS_CardinalityType
  <2>5. Cardinality(Orphans') <= faults'
    BY <1>0, <1>8, <2>2, <2>3, <2>4 DEF Drops, LInv
  <2>6. \A k \in 1..lastInstance' : instances'[k].state # "none"
    BY <1>8 DEF Drops, LInv
  <2> QED
    BY <2>5, <2>6 DEF LInv
<1>9. ASSUME NEW p \in Handlers \union {WarmLoop}, LaunchInstance(p)
      PROVE  LInv'
  <2>1. p \in Procs
    BY DEF Procs
  <2>2. Orphans' \subseteq Orphans
    BY <1>2, <1>3, <1>9, <2>1, LaunchedBooks DEF SameRows
  <2>3. lastInstance' = lastInstance + 1 /\ lastInstance + 1 \in InstanceIds /\ faults' = faults
    BY <1>0, <1>9 DEF LaunchInstance, InstanceIds
  <2>4. ASSUME NEW i \in 1..lastInstance' PROVE instances'[i].state # "none"
    <3>1. i \in InstanceIds /\ (i = lastInstance + 1 \/ i \in 1..lastInstance)
      BY <1>0, <1>1, <2>3
    <3>2. Unlaunched(i)' => Unlaunched(i) /\ i # lastInstance + 1
      BY <1>9, <2>1, <3>1, LaunchedBooks
    <3> QED
      BY <3>1, <3>2 DEF Unlaunched, LInv
  <2>5. faults <= faults'
    BY <1>0, <2>3
  <2> QED
    BY <1>5, <2>2, <2>4, <2>5 DEF LInv
<1>10. ASSUME NEW p \in Handlers \union {WarmLoop}, CreateRunner(p)
       PROVE  LInv'
  <2>1. Orphans' \subseteq Orphans
    BY <1>2, <1>3, <1>10, CreatedBooks
  <2>2. lastInstance' = lastInstance /\ faults' = faults
    BY <1>10 DEF CreateRunner, UnchangedWorld
  <2>3. \A i \in 1..lastInstance' : instances'[i].state # "none"
    BY <1>4, <1>10, <2>2, CreatedBooks
  <2>4. faults <= faults'
    BY <1>0, <2>2
  <2> QED
    BY <1>5, <2>1, <2>3, <2>4 DEF LInv
<1> QED
  BY <1>6, <1>7, <1>8, <1>9, <1>10, NextBooks

LEMMA BooksInOrder == Spec => []LInv
<1>1. LInv /\ IInv /\ IInv' /\ SInv /\ [Next]_vars => LInv'
  BY OrphansPaid
<1> QED
  BY <1>1, InitBooks, Invariance, Safety, PTL DEF Spec

\* However many launches are aborted or fail to record their machine, each fault
\* loses one machine at most, and nothing else ever loses one.
THEOREM OrphansArePaidFor == Spec => []OrphansComeFromFaults
<1>1. LInv => OrphansComeFromFaults
  BY DEF LInv, OrphansComeFromFaults, Orphans
<1> QED
  BY <1>1, BooksInOrder, PTL

-----------------------------------------------------------------------------
(* Refinement                                                               *)

books  == [i \in InstanceIds |-> Book(i)]
labour == [i \in InstanceIds |-> Working(i)]

LedgerNext == [Ledger!Next]_<<books, labour>>

\* A step that leaves every book as it was stops one machine at most.
LEMMA SameBooksStep ==
  ASSUME \A k \in InstanceIds : Book(k)' = Book(k), WorkFixed \/ WorkEnds
  PROVE  LedgerNext
<1>1. books' = books
  BY DEF books
<1>2. CASE WorkFixed
  <2>1. \A k \in InstanceIds : Working(k)' = Working(k)
    BY <1>2 DEF WorkFixed, Working
  <2>2. labour' = labour
    BY <2>1 DEF labour
  <2> QED
    BY <1>1, <2>2 DEF LedgerNext
<1>3. ASSUME NEW i, \A k \in InstanceIds : /\ Working(k)' => Working(k)
                                           /\ k # i => (Working(k) => Working(k)')
      PROVE  LedgerNext
  <2>1. CASE i \in InstanceIds /\ Working(i) /\ ~Working(i)'
    <3>1. ASSUME NEW k \in InstanceIds
          PROVE  Working(k)' = IF k = i THEN FALSE ELSE Working(k)
      <4>1. CASE k = i
        BY <2>1, <4>1 DEF Working
      <4>2. CASE k # i
        <5>1. Working(k)' <=> Working(k)
          BY <1>3, <4>2 DEF Working
        <5> QED
          BY <4>2, <5>1 DEF Working
      <4> QED
        BY <4>1, <4>2
    <3>2. labour' = [labour EXCEPT ![i] = FALSE]
      BY <3>1 DEF labour
    <3>3. labour[i]
      BY <2>1 DEF labour
    <3>4. Ledger!StopWorking(i)
      BY <1>1, <3>2, <3>3 DEF Ledger!StopWorking, books, labour
    <3> QED
      BY <2>1, <3>4 DEF LedgerNext, Ledger!Next
  <2>2. CASE ~(i \in InstanceIds /\ Working(i) /\ ~Working(i)')
    <3>1. WorkFixed
      <4>1. ASSUME NEW k \in InstanceIds PROVE Working(k)' <=> Working(k)
        <5>1. CASE k = i
          BY <1>3, <2>2, <5>1 DEF Working
        <5>2. CASE k # i
          BY <1>3, <5>2 DEF Working
        <5> QED
          BY <5>1, <5>2
      <4> QED
        BY <4>1 DEF WorkFixed
    <3> QED
      BY <1>2, <3>1
  <2> QED
    BY <2>1, <2>2
<1> QED
  BY <1>2, <1>3 DEF WorkEnds

\* One that moves machine i alone, and stops none.
LEMMA OneBook ==
  ASSUME NEW i \in InstanceIds, NEW new,
         \A k \in InstanceIds : Book(k)' = IF k = i THEN new ELSE Book(k)
  PROVE  books' = [books EXCEPT ![i] = new]
  BY DEF books

\* Every step of the fleet is a step of the ledger, or none.
LEMMA LedgerStep ==
  ASSUME IInv, IInv', SInv, SInv', LInv, LInv', [Next]_vars
  PROVE  LedgerNext
<1>1. \A k \in InstanceIds :
        /\ Unlaunched(k) => ~Retired(k) /\ ~Tracked(k) /\ ~Held(k)
        /\ Retired(k) => Tracked(k)
        /\ Book(k) = Standing(Unlaunched(k), Retired(k), Tracked(k), Held(k))
  BY BookStands
<1>2. \A k \in InstanceIds :
        Book(k)' = Standing(Unlaunched(k)', Retired(k)', Tracked(k)', Held(k)')
  BY BookStandsNext
<1>3. CASE Quiet
  <2>1. ASSUME NEW k \in InstanceIds PROVE Book(k)' = Book(k)
    BY <1>1, <1>2, <1>3, QuietBooks DEF SameRows, Standing
  <2> QED
    BY <1>3, <2>1, SameBooksStep DEF Quiet
<1>4. ASSUME NEW r, Closes(r)
      PROVE  LedgerNext
  <2> DEFINE i == runners[r].instance
  <2>1. i \in InstanceIds /\ ~Working(i) /\ ~Unlaunched(i) /\ Tracked(i)
    BY <1>4 DEF Closes, Down, Working, Unlaunched, Tracked, Present
  <2>2. \A k \in InstanceIds : Book(k)' = IF k = i THEN "retired" ELSE Book(k)
    <3>1. ASSUME NEW k \in InstanceIds
          PROVE  Book(k)' = IF k = i THEN "retired" ELSE Book(k)
      <4> HIDE DEF i
      <4>1. /\ (Unlaunched(k)' <=> Unlaunched(k)) /\ (Held(k)' <=> Held(k))
            /\ Tracked(k)' <=> Tracked(k)
            /\ Retired(k)' <=> Retired(k) \/ k = i
        BY <1>4, CloseBooks DEF i
      <4> QED
        BY <1>1, <1>2, <2>1, <4>1 DEF Standing
    <3> QED
      BY <3>1
  <2>3. Book(i) = IF Retired(i) THEN "retired" ELSE "tracked"
    BY <1>1, <2>1 DEF Standing
  <2> HIDE DEF i
  <2>4. CASE Retired(i)
    <3>1. \A k \in InstanceIds : Book(k)' = Book(k)
      BY <2>2, <2>3, <2>4
    <3> QED
      BY <1>4, <3>1, SameBooksStep DEF Closes
  <2>5. CASE ~Retired(i)
    <3>1. books' = [books EXCEPT ![i] = "retired"]
      BY <2>1, <2>2, OneBook
    <3>2. books[i] = "tracked" /\ ~labour[i]
      BY <2>1, <2>3, <2>5 DEF books, labour
    <3>3. \A k \in InstanceIds : Working(k)' = Working(k)
      BY <1>4 DEF Closes, WorkFixed, Working
    <3>4. labour' = labour
      BY <3>3 DEF labour
    <3>5. Ledger!Retire(i)
      BY <3>1, <3>2, <3>4 DEF Ledger!Retire, books, labour
    <3> QED
      BY <2>1, <3>5 DEF LedgerNext, Ledger!Next
  <2> QED
    BY <2>4, <2>5
<1>5. ASSUME NEW p \in Procs, Drops(p)
      PROVE  LedgerNext
  <2> PICK i : i = proc[p].instance
    OBVIOUS
  <2>1. i \in InstanceIds /\ Held(i) /\ ~Unlaunched(i)
    <3>1. i \in 1..lastInstance /\ Held(i)
      BY <1>5 DEF Drops, SInv, HoldsMachine, Held
    <3>2. lastInstance \in Nat /\ lastInstance <= MaxInstances /\ MaxInstances \in Nat
      BY ConstantAssumption DEF IInv, TypeOK
    <3> QED
      BY <3>1, <3>2 DEF InstanceIds, LInv, Unlaunched
  <2>2. ASSUME NEW k \in InstanceIds
        PROVE  /\ Unlaunched(k)' <=> Unlaunched(k)
               /\ SameRows(k)
               /\ Held(k)' => Held(k)
               /\ k # i => (Held(k) => Held(k)')
    BY <1>5, DropBooks
  <2>3. ASSUME NEW k \in InstanceIds, k # i
        PROVE  Book(k)' = Book(k)
    BY <1>1, <1>2, <2>2, <2>3 DEF Standing, SameRows
  <2>4. \A k \in InstanceIds : Working(k)' = Working(k)
    BY <1>5 DEF Drops, Working
  <2>5. CASE Book(i)' = Book(i)
    <3>1. WorkFixed
      BY <2>4 DEF WorkFixed, Working
    <3> QED
      BY <2>3, <2>5, <3>1, SameBooksStep
  <2>6. CASE Book(i)' # Book(i)
    <3>1. Book(i) = "held" /\ Book(i)' = "lost"
      BY <1>1, <1>2, <2>1, <2>2, <2>6 DEF Standing, SameRows
    <3>2. books' = [books EXCEPT ![i] = "lost"]
      BY <2>1, <2>3, <3>1, OneBook
    <3>3. labour' = labour
      BY <2>4 DEF labour
    <3>4. {k \in InstanceIds : books[k] = "lost"} = Orphans
      <4>1. \A k \in InstanceIds : Book(k) = "lost" <=> Orphan(k)
        BY <1>1 DEF Standing, Orphan, Unlaunched
      <4> QED
        BY <4>1 DEF books, Orphans
    <3>5. Cardinality(Orphans) < MaxFaults
      <4>1. Cardinality(Orphans) \in Nat
        BY MachineSets DEF Orphans
      <4>2. faults < MaxFaults /\ faults \in Nat /\ MaxFaults \in Nat
        BY <1>5, ConstantAssumption DEF Drops, IInv, TypeOK
      <4> QED
        BY <4>1, <4>2 DEF LInv
    <3>6. books[i] = "held"
      BY <2>1, <3>1 DEF books
    <3>7. Ledger!Cardinality({k \in InstanceIds : books[k] = "lost"}) < MaxFaults
      <4>1. Ledger!Cardinality(Orphans) = Cardinality(Orphans)
        BY DEF Ledger!Cardinality, Cardinality
      <4> QED
        BY <3>4, <3>5, <4>1
    <3>8. Ledger!Lose(i)
      BY <3>2, <3>3, <3>6, <3>7 DEF Ledger!Lose, books, labour
    <3> QED
      BY <2>1, <3>8 DEF LedgerNext, Ledger!Next
  <2> QED
    BY <2>5, <2>6
<1>6. ASSUME NEW p \in Handlers \union {WarmLoop}, LaunchInstance(p)
      PROVE  LedgerNext
  <2> DEFINE i == lastInstance + 1
  <2>1. p \in Procs /\ i \in InstanceIds
    BY <1>6, ConstantAssumption DEF Procs, IInv, TypeOK, LaunchInstance, InstanceIds
  <2>2. Unlaunched(i)
    BY <2>1 DEF SInv, MachineOK, Unlaunched, IInv, TypeOK
  <2> HIDE DEF i
  <2>3. ASSUME NEW k \in InstanceIds
        PROVE  /\ Unlaunched(k)' <=> Unlaunched(k) /\ k # i
               /\ SameRows(k)
               /\ Held(k)' <=> Held(k) \/ k = i
               /\ Working(k)' <=> Working(k) \/ k = i
    BY <1>6, <2>1, LaunchedBooks DEF i
  <2>4. ASSUME NEW k \in InstanceIds
        PROVE  Book(k)' = IF k = i THEN "held" ELSE Book(k)
    BY <1>1, <1>2, <2>2, <2>3 DEF Standing, SameRows
  <2>5. ASSUME NEW k \in InstanceIds
        PROVE  Working(k)' = IF k = i THEN TRUE ELSE Working(k)
    BY <2>3 DEF Working
  <2>6. books' = [books EXCEPT ![i] = "held"]
    BY <2>1, <2>4, OneBook
  <2>7. labour' = [labour EXCEPT ![i] = TRUE]
    BY <2>5 DEF labour
  <2>8. books[i] = "unlaunched"
    BY <1>1, <2>1, <2>2 DEF books, Standing
  <2>9. Ledger!Launch(i)
    BY <2>6, <2>7, <2>8 DEF Ledger!Launch, books, labour
  <2> QED
    BY <2>1, <2>9 DEF LedgerNext, Ledger!Next
<1>7. ASSUME NEW p \in Handlers \union {WarmLoop}, CreateRunner(p)
      PROVE  LedgerNext
  <2> PICK i : i = proc[p].instance
    OBVIOUS
  <2>1. i \in InstanceIds /\ Held(i) /\ ~Unlaunched(i)
    <3>1. i \in 1..lastInstance /\ Held(i)
      BY <1>7 DEF Procs, CreateRunner, SInv, HoldsMachine, Held
    <3>2. lastInstance \in Nat /\ lastInstance <= MaxInstances /\ MaxInstances \in Nat
      BY ConstantAssumption DEF IInv, TypeOK
    <3> QED
      BY <3>1, <3>2 DEF InstanceIds, LInv, Unlaunched
  <2>2. ASSUME NEW k \in InstanceIds
        PROVE  /\ Unlaunched(k)' <=> Unlaunched(k)
               /\ Retired(k)' <=> Retired(k)
               /\ Tracked(k)' <=> Tracked(k) \/ k = i
               /\ k # i => (Held(k)' <=> Held(k))
    BY <1>7, CreatedBooks
  <2>3. ASSUME NEW k \in InstanceIds, k # i
        PROVE  Book(k)' = Book(k)
    BY <1>1, <1>2, <2>2, <2>3 DEF Standing
  <2>4. \A k \in InstanceIds : Working(k)' = Working(k)
    BY <1>7 DEF CreateRunner, UnchangedWorld, Working
  <2>5. CASE Book(i)' = Book(i)
    <3>1. WorkFixed
      BY <2>4 DEF WorkFixed, Working
    <3> QED
      BY <2>3, <2>5, <3>1, SameBooksStep
  <2>6. CASE Book(i)' # Book(i)
    <3>1. Book(i) = "held" /\ Book(i)' = "tracked"
      BY <1>1, <1>2, <2>1, <2>2, <2>6 DEF Standing
    <3>2. books' = [books EXCEPT ![i] = "tracked"]
      BY <2>1, <2>3, <3>1, OneBook
    <3>3. labour' = labour
      BY <2>4 DEF labour
    <3>4. books[i] = "held"
      BY <2>1, <3>1 DEF books
    <3>5. Ledger!Track(i)
      BY <3>2, <3>3, <3>4 DEF Ledger!Track, books, labour
    <3> QED
      BY <2>1, <3>5 DEF LedgerNext, Ledger!Next
  <2> QED
    BY <2>5, <2>6
<1> QED
  BY <1>3, <1>4, <1>5, <1>6, <1>7, NextBooks

LEMMA LedgerInit == Init => Ledger!Init
<1> SUFFICES ASSUME Init PROVE Ledger!Init
  OBVIOUS
<1>1. \A i \in InstanceIds : instances[i].state = "none" /\ instances[i].agent = "booting"
  BY DEF Init, NoInstance
<1>2. \A i \in InstanceIds : Book(i) = "unlaunched"
  <2>1. IInv /\ SInv /\ LInv
    BY InitInvariant, InitSafe, InitBooks
  <2> QED
    BY <1>1, <2>1, BookStands DEF Standing, Unlaunched
<1>3. \A i \in InstanceIds : Working(i) = FALSE
  BY <1>1 DEF Working
<1> QED
  BY <1>2, <1>3 DEF Ledger!Init

\* Module Fleet implements module MachineLedger: whatever fails, races or is aborted,
\* a machine that was launched is tracked until it has stopped working, and lost only
\* to a fault.
THEOREM LedgerIsKept == Spec => LedgerSpec
<1>1. IInv /\ IInv' /\ SInv /\ SInv' /\ LInv /\ LInv' /\ [Next]_vars => LedgerNext
  BY LedgerStep
<1>2. LedgerSpec <=> Ledger!Init /\ [][Ledger!Next]_<<books, labour>>
  BY DEF LedgerSpec, Ledger!Spec, books, labour
<1> QED
  BY <1>1, <1>2, LedgerInit, Invariance, Safety, BooksInOrder, PTL DEF Spec, LedgerNext

=============================================================================
