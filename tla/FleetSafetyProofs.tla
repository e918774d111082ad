-------------------------- MODULE FleetSafetyProofs --------------------------
(***************************************************************************)
(* Safety of module Fleet, for any numbers of jobs, policies, handlers,    *)
(* operators, instances and faults: closed rows and their machines, warm   *)
(* targets and capacity.                                                   *)
(***************************************************************************)
EXTENDS FleetProofs

-----------------------------------------------------------------------------
(* The inductive invariant                                                  *)

Present(r) == runners[r].status # "absent"

\* Instance i is on its way out and nothing runs on it: this is for good.
Down(i) ==
  /\ i \in InstanceIds
  /\ instances[i].state \in {"STOPPED", "TERMINATING", "TERMINATED"}
  /\ instances[i].agent = "gone"

\* A row is recorded with its machine, and closed only when that is down.
RowOK(r) ==
  /\ Present(r) <=> r <= lastRow
  /\ Present(r) => runners[r].instance \in 1..lastInstance
  /\ runners[r].status = "terminated" => runners[r].terminated
  /\ runners[r].terminated => Present(r) /\ Down(runners[r].instance)

MachineOK(i) ==
  /\ i > lastInstance => instances[i].state = "none"
  /\ instances[i].state \in {"STOPPED", "TERMINATED"} => instances[i].agent = "gone"

\* A goroutine with these locals at this label has room for a runner of q.
Granted(local, label, q) ==
  /\ local.policy = q
  /\ label \in {"launch", "insert"} \/ (label = "tracked" /\ local.verdict = "launch")

\* What goroutine p relies on at label: the rows it has read stay in the table, it
\* closes a row only if its machine is down, and the warm pool launches for a target
\* that has no warm runner.
Knows(p, local, label) ==
  /\ local.cur.row \in RowIds => Present(local.cur.row)
  /\ \A s \in local.todo : Present(s.row) /\ s.status \notin {"absent", "terminated"}
  /\ local.targets \subseteq WarmPolicies
  /\ label = "tracked" => p \in Handlers
  /\ label \in {"launch", "insert"} => p \in Handlers \union {WarmLoop}
  /\ p = WarmLoop /\ label \in {"warm_count", "launch", "insert"}
       => local.policy \in WarmPolicies /\ ActiveWarm(local.policy) = {}
  /\ label \in {"get", "close"} => local.cur.row \in RowIds
  /\ label = "close" => Down(runners[local.cur.row].instance)

HoldsMachine(p) == At(p, "insert") => proc[p].instance \in 1..lastInstance

WarmUnique == \A q \in Policies : \A r, s \in ActiveWarm(q) : r = s

SInv ==
  /\ \A r \in RowIds : RowOK(r)
  /\ \A i \in InstanceIds : MachineOK(i)
  /\ \A p \in Procs : Knows(p, proc[p], proc[p].pc) /\ HoldsMachine(p)
  /\ WarmUnique
  /\ OvershootBounded

\* What a step does to a row that it does not create.
RowKept(r) ==
  /\ runners'[r].policy = runners[r].policy
  /\ runners'[r].source = runners[r].source
  /\ runners'[r].instance = runners[r].instance
  /\ runners'[r].status = "absent" <=> runners[r].status = "absent"
  /\ runners'[r].status = "terminated" => runners'[r].terminated
  /\ runners[r].terminated => runners'[r].terminated
  /\ runners'[r].terminated =>
       runners[r].terminated \/ (Present(r) /\ Down(runners[r].instance))

RowsKept == lastRow' = lastRow /\ \A r \in RowIds : RowKept(r)

MachinesKept ==
  /\ lastInstance' \in Nat /\ lastInstance <= lastInstance'
  /\ \A i \in InstanceIds : Down(i) => Down(i)'
  /\ \A i \in InstanceIds : MachineOK(i)'

ClosedKept == \A r \in RowIds : runners[r].terminated => runners'[r].terminated

-----------------------------------------------------------------------------
(* Rows and machines                                                        *)

\* A step that leaves table runners alone keeps its rows.
LEMMA RowsUnchanged ==
  ASSUME SInv, UNCHANGED <<runners, lastRow>>
  PROVE  RowsKept
  BY DEF SInv, RowOK, RowsKept, RowKept

\* UpdateRunnerStatus keeps the rows, whatever the status, if the row exists.
LEMMA StatusKept ==
  ASSUME IInv, SInv, NEW r, r \in RowIds => Present(r),
         NEW status, status \notin {"absent", "terminated"}, NEW gh,
         UpdateRunnerStatus(r, status, gh), lastRow' = lastRow
  PROVE  RowsKept
<1>1. runners \in [RowIds -> Runner]
  BY DEF IInv, TypeOK
<1>2. ASSUME NEW s \in RowIds PROVE RowKept(s)
  <2>1. CASE s # r
    <3>1. runners'[s] = runners[s]
      BY <1>1, <2>1 DEF UpdateRunnerStatus
    <3> QED
      BY <3>1 DEF RowKept, SInv, RowOK
  <2>2. CASE s = r
    <3>1. runners'[s] = WithStatus(runners[s], status, gh) /\ runners[s] \in Runner
      BY <1>1, <2>2 DEF UpdateRunnerStatus
    <3>2. /\ runners'[s].policy = runners[s].policy /\ runners'[s].source = runners[s].source
          /\ runners'[s].instance = runners[s].instance
          /\ runners'[s].terminated = runners[s].terminated /\ runners'[s].status = status
      BY <3>1 DEF WithStatus, Runner
    <3> QED
      BY <2>2, <3>2 DEF RowKept, Present
  <2> QED
    BY <2>1, <2>2
<1> QED
  BY <1>2 DEF RowsKept

\* UpdateRunnerWarmState keeps the rows.
LEMMA WarmStateKept ==
  ASSUME IInv, SInv, NEW r, NEW j, NEW state,
         UpdateRunnerWarmState(r, j, state), lastRow' = lastRow
  PROVE  RowsKept
<1>1. runners \in [RowIds -> Runner]
  BY DEF IInv, TypeOK
<1>2. ASSUME NEW s \in RowIds PROVE RowKept(s)
  <2>1. runners[s] \in Runner
    BY <1>1
  <2>2. /\ runners'[s].policy = runners[s].policy /\ runners'[s].source = runners[s].source
        /\ runners'[s].instance = runners[s].instance
        /\ runners'[s].terminated = runners[s].terminated
        /\ runners'[s].status = runners[s].status
    <3>1. runners'[s] = runners[s] \/ runners'[s] = WithWarmState(runners[s], j, state)
      BY <1>1 DEF UpdateRunnerWarmState
    <3> QED
      BY <2>1, <3>1 DEF WithWarmState, Runner
  <2> QED
    BY <2>2 DEF RowKept, SInv, RowOK
<1> QED
  BY <1>2 DEF RowsKept

\* MarkRunnerTerminated keeps the rows, if the machine of the closed row is down.
LEMMA TerminationKept ==
  ASSUME IInv, SInv, NEW r \in RowIds, Present(r), Down(runners[r].instance),
         MarkRunnerTerminated(r), lastRow' = lastRow
  PROVE  RowsKept
<1>1. runners \in [RowIds -> Runner]
  BY DEF IInv, TypeOK
<1>2. ASSUME NEW s \in RowIds PROVE RowKept(s)
  <2>1. CASE s # r
    <3>1. runners'[s] = runners[s]
      BY <1>1, <2>1 DEF MarkRunnerTerminated
    <3> QED
      BY <3>1 DEF RowKept, SInv, RowOK
  <2>2. CASE s = r
    <3>1. runners'[s] = WithTermination(runners[s]) /\ runners[s] \in Runner
      BY <1>1, <2>2 DEF MarkRunnerTerminated
    <3>2. /\ runners'[s].policy = runners[s].policy /\ runners'[s].source = runners[s].source
          /\ runners'[s].instance = runners[s].instance
          /\ runners'[s].terminated /\ runners'[s].status = "terminated"
      BY <3>1 DEF WithTermination, Runner
    <3> QED
      BY <2>2, <3>2 DEF RowKept, Present
  <2> QED
    BY <2>1, <2>2
<1> QED
  BY <1>2 DEF RowsKept

\* A step that leaves the instances alone keeps the machines.
LEMMA MachinesUnchanged ==
  ASSUME IInv, SInv, UNCHANGED <<instances, lastInstance>>
  PROVE  MachinesKept
<1>1. lastInstance \in Nat
  BY ConstantAssumption DEF IInv, TypeOK
<1> QED
  BY <1>1 DEF SInv, MachinesKept, MachineOK, Down

\* The rows that a step keeps stay in order, and no policy gains a warm runner or an
\* active one.
LEMMA KeptRows ==
  ASSUME IInv, SInv, RowsKept, MachinesKept
  PROVE  /\ \A r \in RowIds : RowOK(r)' /\ (Present(r) => Present(r)')
         /\ \A q \in Policies : ActiveWarm(q)' \subseteq ActiveWarm(q)
         /\ \A q \in Policies : Active(q)' \subseteq Active(q)
         /\ ClosedKept
<1>1. ASSUME NEW r \in RowIds PROVE RowOK(r)' /\ (Present(r) => Present(r)')
  <2>1. RowOK(r) /\ RowKept(r) /\ lastRow' = lastRow
    BY DEF SInv, RowsKept
  <2>2. Present(r)' <=> Present(r)
    BY <2>1 DEF Present, RowKept
  <2>3. Down(runners[r].instance) => Down(runners[r].instance)'
    <3>1. ASSUME NEW i, runners'[r].instance = i, Down(i) PROVE Down(runners[r].instance)'
      <4>1. i \in InstanceIds
        BY <3>1 DEF Down
      <4>2. Down(i)'
        BY <3>1, <4>1 DEF MachinesKept
      <4> QED
        BY <3>1, <4>2 DEF Down
    <3>2. runners'[r].instance = runners[r].instance
      BY <2>1 DEF RowKept
    <3> QED
      BY <3>1, <3>2
  <2>4. Present(r) => runners'[r].instance \in 1..lastInstance'
    <3>1. lastInstance \in Nat /\ lastInstance' \in Nat /\ lastInstance <= lastInstance'
      BY ConstantAssumption DEF IInv, TypeOK, MachinesKept
    <3>2. 1..lastInstance \subseteq 1..lastInstance'
      BY <3>1
    <3> QED
      BY <2>1, <3>2 DEF RowOK, RowKept
  <2> QED
    BY <2>1, <2>2, <2>3, <2>4 DEF RowOK, RowKept
<1>2. ASSUME NEW r \in RowIds PROVE Open(r)' => Open(r)
  BY DEF RowsKept, RowKept, Open
<1>3. ASSUME NEW r \in RowIds, Open(r) PROVE runners[r].status # "terminated"
  BY <1>3 DEF SInv, RowOK, Open
<1> QED
  BY <1>1, <1>2, <1>3 DEF ActiveWarm, Active, RowsKept, RowKept, ClosedKept

-----------------------------------------------------------------------------
(* Goroutines                                                               *)

\* Rows are not deleted or given another machine, and a machine stays down.
Stable ==
  /\ \A r \in RowIds : Present(r) => Present(r)' /\ runners'[r].instance = runners[r].instance
  /\ \A i \in InstanceIds : Down(i) => Down(i)'

\* What a goroutine relies on is stable, but for the warm loop's target.
LEMMA KnowsKept ==
  ASSUME Stable, NEW p, NEW local \in Local, NEW label, Knows(p, local, label),
         p = WarmLoop => \A q \in WarmPolicies : ActiveWarm(q)' \subseteq ActiveWarm(q)
  PROVE  Knows(p, local, label)'
<1>1. \A s \in local.todo : s.row \in RowIds
  BY DEF Local, Snapshot
<1>2. local.cur.row \in RowIds => Present(local.cur.row)'
  BY DEF Knows, Stable
<1>3. \A s \in local.todo : Present(s.row)' /\ s.status \notin {"absent", "terminated"}
  BY <1>1 DEF Knows, Stable
<1>4. label = "close" => Down(runners[local.cur.row].instance)'
  <2> DEFINE r == local.cur.row
  <2> SUFFICES ASSUME label = "close" PROVE Down(runners[r].instance)'
    OBVIOUS
  <2>1. r \in RowIds /\ Present(r) /\ Down(runners[r].instance)
    BY DEF Knows
  <2>2. runners'[r].instance = runners[r].instance
    BY <2>1 DEF Stable
  <2>3. ASSUME NEW i, i = runners[r].instance PROVE Down(runners[r].instance)'
    <3>1. i \in InstanceIds /\ Down(i)
      BY <2>1, <2>3 DEF Down
    <3>2. Down(i)'
      BY <3>1 DEF Stable
    <3> QED
      BY <2>2, <2>3, <3>2 DEF Down
  <2> QED
    BY <2>3
<1>5. p = WarmLoop /\ label \in {"warm_count", "launch", "insert"}
        => local.policy \in WarmPolicies /\ ActiveWarm(local.policy)' = {}
  BY DEF Knows
<1> QED
  BY <1>2, <1>3, <1>4, <1>5 DEF Knows

\* The goroutines that do not move know what they knew.
LEMMA OthersKnow ==
  ASSUME IInv, SInv, Stable, NEW p, NEW local, NEW label, Continue(p, local, label),
         lastInstance' \in Nat, lastInstance <= lastInstance',
         p = WarmLoop \/ \A q \in WarmPolicies : ActiveWarm(q)' \subseteq ActiveWarm(q),
         NEW x \in Procs, x # p
  PROVE  Knows(x, proc[x], proc[x].pc)' /\ HoldsMachine(x)'
<1>1. proc \in [Procs -> Local] /\ lastInstance \in Nat
  BY ConstantAssumption DEF IInv, TypeOK
<1>2. proc'[x] = proc[x]
  BY <1>1 DEF Continue
<1>3. ASSUME NEW l \in Local, l = proc[x] PROVE Knows(x, proc[x], proc[x].pc)'
  <2>1. Knows(x, l, l.pc)
    BY <1>3 DEF SInv
  <2>2. Knows(x, l, l.pc)'
    BY <2>1, KnowsKept
  <2> QED
    BY <1>2, <1>3, <2>2 DEF Knows
<1>4. HoldsMachine(x)'
  <2>1. HoldsMachine(x)
    BY DEF SInv
  <2> QED
    BY <1>1, <1>2, <2>1 DEF HoldsMachine, At
<1> QED
  BY <1>1, <1>3, <1>4

\* A goroutine that has read nothing relies on nothing.
LEMMA NothingRead ==
  /\ NoSnapshot.row \notin RowIds
  /\ Idle.cur = NoSnapshot /\ Idle.todo = {} /\ Idle.targets = {}
<1>1. 0 \notin RowIds
  BY ConstantAssumption DEF RowIds
<1>2. NoSnapshot.row = 0
  BY DEF NoSnapshot
<1>3. Idle.cur = NoSnapshot /\ Idle.todo = {} /\ Idle.targets = {}
  BY DEF Idle
<1> QED
  BY <1>1, <1>2, <1>3

\* Subsets of the rows can be counted.
LEMMA RowSets ==
  ASSUME NEW S \in SUBSET RowIds, NEW T \in SUBSET S
  PROVE  /\ IsFiniteSet(S) /\ Cardinality(S) \in Nat
         /\ Cardinality(T) \in Nat /\ Cardinality(T) <= Cardinality(S)
<1>1. IsFiniteSet(RowIds)
  BY FS_Interval, ConstantAssumption DEF RowIds
<1>2. IsFiniteSet(S)
  BY <1>1, FS_Subset
<1> QED
  BY <1>2, FS_Subset, FS_CardinalityType

\* So can the launchers of a policy, of which there is at least one.
LEMMA LauncherSets ==
  ASSUME NEW q \in Policies, NEW S \in SUBSET Launchers(q), NEW T \in SUBSET S
  PROVE  /\ IsFiniteSet(S) /\ Cardinality(S) \in Nat
         /\ Cardinality(T) \in Nat /\ Cardinality(T) <= Cardinality(S)
         /\ Cardinality(S) <= Cardinality(Launchers(q))
         /\ Cardinality(Launchers(q)) \in Nat /\ Cardinality(Launchers(q)) > 0
<1>1. IsFiniteSet({x \in {WarmLoop} : q \in WarmPolicies})
  BY FS_Singleton, FS_Subset
<1>2. IsFiniteSet(Launchers(q)) /\ Launchers(q) # {}
  BY <1>1, FS_Union, ConstantAssumption DEF Launchers
<1>3. Cardinality(Launchers(q)) \in Nat /\ Cardinality(Launchers(q)) # 0
  BY <1>2, FS_CardinalityType, FS_EmptySet
<1>4. IsFiniteSet(S) /\ IsFiniteSet(T)
  BY <1>2, FS_Subset
<1> QED
  BY <1>2, <1>3, <1>4, FS_Subset, FS_CardinalityType

\* A step that keeps rows and machines, and moves p with what it relies on, keeps the
\* invariant: p may hold room for a runner that it held before or has counted.
LEMMA MoveInv ==
  ASSUME IInv, SInv, RowsKept, MachinesKept,
         NEW p \in Procs, NEW local \in Local, NEW label,
         Continue(p, local, label), Knows(p, local, label),
         label = "insert" => local.instance \in 1..lastInstance',
         \A q \in Policies : Granted(local, label, q) =>
           InFlight(p, q) \/ Cardinality(Active(q)) < MaxRunners[q]
  PROVE  SInv' /\ ClosedKept
<1>1. proc \in [Procs -> Local] /\ lastInstance \in Nat
  BY ConstantAssumption DEF IInv, TypeOK
<1>2. /\ proc'[p] = [local EXCEPT !.pc = label]
      /\ \A x \in Procs : x # p => proc'[x] = proc[x]
  BY <1>1 DEF Continue
<1>3. proc'[p].pc = label /\ proc'[p].policy = local.policy /\ proc'[p].verdict = local.verdict
      /\ proc'[p].instance = local.instance /\ proc'[p].cur = local.cur
      /\ proc'[p].todo = local.todo /\ proc'[p].targets = local.targets
  BY <1>2 DEF Local
<1>4. Stable
  BY KeptRows DEF Stable, MachinesKept, RowsKept, RowKept
<1>5. ASSUME NEW x \in Procs PROVE Knows(x, proc[x], proc[x].pc)' /\ HoldsMachine(x)'
  <2>1. CASE x # p
    BY <1>4, <2>1, OthersKnow, KeptRows, ConstantAssumption DEF MachinesKept
  <2>2. CASE x = p
    <3>1. Knows(p, local, label)'
      BY <1>4, KnowsKept, KeptRows, ConstantAssumption
    <3>2. Knows(x, proc[x], proc[x].pc)'
      BY <1>3, <2>2, <3>1 DEF Knows
    <3> QED
      BY <1>3, <2>2, <3>2 DEF HoldsMachine, At
  <2> QED
    BY <2>1, <2>2
<1>6. WarmUnique'
  BY KeptRows DEF WarmUnique, SInv
<1>7. ASSUME NEW q \in Policies
      PROVE  Cardinality(Active(q)') + Cardinality({x \in Procs : InFlight(x, q)}')
               <= MaxRunners[q] + Cardinality(Launchers(q)) - 1
  <2> DEFINE F == {x \in Procs : InFlight(x, q)}
             G == F'
             A == Active(q)
             B == A'
  <2>1. F \subseteq Launchers(q)
    BY DEF SInv, Knows, InFlight, At, Launchers
  <2>2. G \subseteq Launchers(q)
    BY <1>5 DEF Knows, InFlight, At, Launchers
  <2>3. A \subseteq RowIds /\ B \subseteq A
    BY KeptRows DEF Active
  <2>4. Cardinality(A) + Cardinality(F) <= MaxRunners[q] + Cardinality(Launchers(q)) - 1
    BY DEF SInv, OvershootBounded
  <2>5. \A x \in Procs : x # p /\ InFlight(x, q)' => InFlight(x, q)
    BY <1>2 DEF InFlight, At
  <2>6. InFlight(p, q)' => Granted(local, label, q)
    BY <1>3 DEF InFlight, Granted, At
  <2>7. G \subseteq F \/ Cardinality(A) < MaxRunners[q]
    BY <2>5, <2>6
  <2>8. MaxRunners[q] \in Nat
    BY ConstantAssumption
  <2> HIDE DEF F, G, A, B
  <2>9. Cardinality(B) <= Cardinality(A) /\ Cardinality(A) \in Nat /\ Cardinality(B) \in Nat
    BY <2>3, RowSets
  <2>10. /\ Cardinality(F) \in Nat /\ Cardinality(G) \in Nat /\ Cardinality(Launchers(q)) \in Nat
         /\ Cardinality(G) <= Cardinality(Launchers(q))
         /\ G \subseteq F => Cardinality(G) <= Cardinality(F)
    BY <2>1, <2>2, LauncherSets
  <2>11. Cardinality(B) + Cardinality(G) <= MaxRunners[q] + Cardinality(Launchers(q)) - 1
    BY <2>4, <2>7, <2>8, <2>9, <2>10
  <2> QED
    BY <2>11 DEF B, G, A, F
<1>8. OvershootBounded'
  BY <1>7 DEF OvershootBounded, Launchers
<1>9. \A r \in RowIds : RowOK(r)'
  BY KeptRows
<1>10. \A i \in InstanceIds : MachineOK(i)'
  BY DEF MachinesKept
<1> QED
  BY <1>5, <1>6, <1>8, <1>9, <1>10, KeptRows DEF SInv

\* So does a step in which p ends.
LEMMA HaltInv ==
  ASSUME IInv, SInv, RowsKept, MachinesKept, NEW p \in Procs, Stop(p)
  PROVE  SInv' /\ ClosedKept
<1>1. Continue(p, Idle, "idle") /\ Idle \in Local
  BY EmptyValues DEF Stop, Continue, Idle
<1>2. Knows(p, Idle, "idle")
  BY NothingRead DEF Knows
<1>3. \A q \in Policies : ~Granted(Idle, "idle", q)
  BY DEF Granted
<1> QED
  BY <1>1, <1>2, <1>3, MoveInv

\* So does the warm pool loop when it goes on to its next target.
LEMMA NextTargetSafe ==
  ASSUME IInv, SInv, RowsKept, MachinesKept,
         NEW local \in Local, NextTarget(local), Knows(WarmLoop, local, "warm_scan")
  PROVE  SInv' /\ ClosedKept
<1> DEFINE next == [local EXCEPT !.instance = 0, !.policy = NoPolicy]
<1>1. WarmLoop \in Procs
  BY DEF Procs
<1>2. next \in Local
  <2>1. 0 \in 0..MaxInstances
    BY ConstantAssumption
  <2> QED
    BY <2>1 DEF Local
<1>3. Knows(WarmLoop, next, "warm_scan")
  BY DEF Knows, Local
<1>4. Stop(WarmLoop) \/ Continue(WarmLoop, next, "warm_scan")
  BY DEF NextTarget
<1> HIDE DEF next
<1>5. \A q \in Policies : ~Granted(next, "warm_scan", q)
  BY DEF Granted
<1> QED
  BY <1>1, <1>2, <1>3, <1>4, <1>5, MoveInv, HaltInv

\* So does a step in which no goroutine moves.
LEMMA NoMoveInv ==
  ASSUME IInv, SInv, RowsKept, MachinesKept, proc' = proc
  PROVE  SInv' /\ ClosedKept
<1>1. PICK p : p \in Handlers
  BY ConstantAssumption
<1>2. p \in Procs
  BY <1>1 DEF Procs
<1>3. ASSUME NEW local \in Local, local = proc[p] PROVE SInv' /\ ClosedKept
  <2>1. Continue(p, local, local.pc)
    <3>1. proc \in [Procs -> Local] /\ [local EXCEPT !.pc = local.pc] = local
      BY <1>3 DEF IInv, TypeOK, Local
    <3> QED
      BY <1>2, <1>3, <3>1 DEF Continue
  <2>2. Knows(p, local, local.pc)
    BY <1>2, <1>3 DEF SInv
  <2>3. local.pc = "insert" => local.instance \in 1..lastInstance'
    <3>1. lastInstance \in Nat /\ lastInstance' \in Nat /\ lastInstance <= lastInstance'
      BY ConstantAssumption DEF IInv, TypeOK, MachinesKept
    <3>2. HoldsMachine(p)
      BY <1>2 DEF SInv
    <3> QED
      BY <1>3, <3>1, <3>2 DEF HoldsMachine, At
  <2>4. \A q \in Policies : Granted(local, local.pc, q) => InFlight(p, q)
    BY <1>3 DEF Granted, InFlight, At
  <2> QED
    BY <1>2, <2>1, <2>2, <2>3, <2>4, MoveInv
<1> QED
  BY <1>2, <1>3 DEF IInv, TypeOK

\* So does a step after which p relies on nothing new.
LEMMA StepInv ==
  ASSUME IInv, SInv, RowsKept, MachinesKept,
         NEW p \in Procs, NEW local \in Local, NEW label, Continue(p, local, label),
         label \notin {"tracked", "launch", "insert", "warm_count", "get", "close"},
         local.cur \in {proc[p].cur, NoSnapshot},
         local.todo \subseteq proc[p].todo, local.targets \subseteq proc[p].targets
  PROVE  SInv' /\ ClosedKept
<1>1. Knows(p, proc[p], proc[p].pc)
  BY DEF SInv
<1>2. Knows(p, local, label)
  BY <1>1, NothingRead DEF Knows
<1>3. \A q \in Policies : ~Granted(local, label, q)
  BY DEF Granted
<1> QED
  BY <1>2, <1>3, MoveInv

\* Writing one instance keeps the machines if it stays down once it is, and is not
\* down with a live agent.
LEMMA MachineWrite ==
  ASSUME IInv, SInv, NEW i, NEW m, instances' = [instances EXCEPT ![i] = m],
         lastInstance' = lastInstance,
         i \in InstanceIds =>
           /\ Down(i) => m.state \in {"STOPPED", "TERMINATING", "TERMINATED"} /\ m.agent = "gone"
           /\ instances[i].state = "none" => m.state = "none"
           /\ m.state \in {"STOPPED", "TERMINATED"} => m.agent = "gone"
  PROVE  MachinesKept
<1>1. lastInstance \in Nat /\ instances \in [InstanceIds -> Instance]
  BY ConstantAssumption DEF IInv, TypeOK
<1>2. ASSUME NEW k \in InstanceIds PROVE (Down(k) => Down(k)') /\ MachineOK(k)'
  <2>1. CASE k # i
    <3>1. instances'[k] = instances[k] /\ MachineOK(k)
      BY <1>1, <2>1 DEF SInv
    <3> QED
      BY <3>1 DEF Down, MachineOK
  <2>2. CASE k = i
    <3>1. instances'[k] = m /\ MachineOK(k)
      BY <1>1, <2>2 DEF SInv
    <3> QED
      BY <2>2, <3>1 DEF Down, MachineOK
  <2> QED
    BY <2>1, <2>2
<1> QED
  BY <1>1, <1>2 DEF MachinesKept

-----------------------------------------------------------------------------
(* Every step is safe                                                       *)

\* GitHub, OCI and the clock keep the invariant.
LEMMA WorldSafe == ASSUME IInv, SInv, World PROVE SInv' /\ ClosedKept
<1>0. instances \in [InstanceIds -> Instance] /\ runners \in [RowIds -> Runner]
  BY DEF IInv, TypeOK
<1>1. ASSUME NEW i, NEW agent, agent \in {"idle", "busy", "gone"},
             instances' = [instances EXCEPT ![i].agent = agent],
             agent = "gone" \/ instances[i].state = "RUNNING",
             UnchangedStore, UNCHANGED <<lastInstance, proc>>
      PROVE  SInv' /\ ClosedKept
  <2> DEFINE m == [instances[i] EXCEPT !.agent = agent]
  <2>1. instances' = [instances EXCEPT ![i] = m]
    BY <1>1
  <2>2. i \in InstanceIds => m.state = instances[i].state /\ m.agent = agent
    BY <1>0 DEF Instance
  <2> HIDE DEF m
  <2>3. MachinesKept
    BY <1>1, <2>1, <2>2, MachineWrite DEF Down
  <2>4. RowsKept
    BY <1>1, RowsUnchanged DEF UnchangedStore
  <2> QED
    BY <1>1, <2>3, <2>4, NoMoveInv
<1>2. ASSUME NEW j \in Jobs, NEW i \in InstanceIds, JobStarts(j, i)
      PROVE  SInv' /\ ClosedKept
  BY <1>1, <1>2 DEF JobStarts
<1>3. ASSUME NEW j \in Jobs, NEW c \in Conclusions, JobEnds(j, c)
      PROVE  SInv' /\ ClosedKept
  <2>1. CASE github[j].phase = "running"
    BY <1>1, <1>3, <2>1 DEF JobEnds
  <2>2. CASE github[j].phase # "running"
    BY <1>3, <2>2, RowsUnchanged, MachinesUnchanged, NoMoveInv DEF JobEnds, UnchangedStore
  <2> QED
    BY <2>1, <2>2
<1>4. ASSUME NEW i \in InstanceIds, AgentRegisters(i)
      PROVE  SInv' /\ ClosedKept
  BY <1>1, <1>4 DEF AgentRegisters
<1>5. ASSUME NEW i \in InstanceIds, NEW state \in {"STOPPED", "TERMINATED"},
             instances' = [instances EXCEPT ![i].state = state, ![i].agent = "gone"],
             instances[i].state # "none", UnchangedStore, UNCHANGED <<lastInstance, proc>>
      PROVE  SInv' /\ ClosedKept
  <2> DEFINE m == [instances[i] EXCEPT !.state = state, !.agent = "gone"]
  <2>1. instances' = [instances EXCEPT ![i] = m]
    BY <1>0, <1>5
  <2>2. m.state = state /\ m.agent = "gone"
    BY <1>0 DEF Instance
  <2> HIDE DEF m
  <2>3. MachinesKept
    BY <1>5, <2>1, <2>2, MachineWrite
  <2>4. RowsKept
    BY <1>5, RowsUnchanged DEF UnchangedStore
  <2> QED
    BY <1>5, <2>3, <2>4, NoMoveInv
<1>6. ASSUME NEW i \in InstanceIds, InstancePowersOff(i)
      PROVE  SInv' /\ ClosedKept
  BY <1>5, <1>6 DEF InstancePowersOff
<1>7. ASSUME NEW i \in InstanceIds, TerminationCompletes(i) \/ InstancePreempted(i)
      PROVE  SInv' /\ ClosedKept
  BY <1>5, <1>7 DEF TerminationCompletes, InstancePreempted, InstanceGone
<1>8. ASSUME NEW r \in RowIds, RunnerExpires(r)
      PROVE  SInv' /\ ClosedKept
  <2>1. ASSUME NEW s \in RowIds PROVE RowKept(s)
    <3>1. /\ runners'[s].policy = runners[s].policy /\ runners'[s].source = runners[s].source
          /\ runners'[s].instance = runners[s].instance
          /\ runners'[s].terminated = runners[s].terminated
          /\ runners'[s].status = runners[s].status
      BY <1>0, <1>8 DEF RunnerExpires, Runner
    <3> QED
      BY <3>1 DEF RowKept, SInv, RowOK
  <2>2. RowsKept
    BY <1>8, <2>1 DEF RunnerExpires, RowsKept
  <2> QED
    BY <1>8, <2>2, MachinesUnchanged, NoMoveInv DEF RunnerExpires, UnchangedWorld
<1> QED
  BY <1>2, <1>3, <1>4, <1>6, <1>7, <1>8 DEF World

\* A webhook handler keeps the invariant: it asks for room for a runner only when it
\* has counted less than the limit, and writes no row that it has not read.
LEMMA WebhookSafe ==
  ASSUME IInv, IInv', SInv, NEW h \in Handlers, Webhook(h)
  PROVE  SInv' /\ ClosedKept
<1> DEFINE me == proc[h]
<1>0. /\ h \in Procs /\ h # WarmLoop /\ me \in Local /\ proc' \in [Procs -> Local]
      /\ proc \in [Procs -> Local] /\ LocalOK(h) /\ Knows(h, me, me.pc)
  BY ConstantAssumption DEF IInv, TypeOK, Procs, SInv
<1> HIDE DEF me
<1>1. /\ UNCHANGED <<runners, lastRow>> => RowsKept
      /\ UnchangedWorld => MachinesKept
  BY RowsUnchanged, MachinesUnchanged DEF UnchangedWorld
<1>2. me.cur.row \in RowIds => Present(me.cur.row)
  BY <1>0 DEF Knows
\* A handler that keeps its locals, or ends, relies on nothing new.
<1>3. ASSUME RowsKept, MachinesKept,
             \/ Stop(h)
             \/ \E label \in {"count", "reserve_state", "reserve_status", "set_status"} :
                  Continue(h, me, label)
      PROVE  SInv' /\ ClosedKept
  BY <1>0, <1>3, StepInv, HaltInv DEF me
<1>4. ASSUME NEW local \in Local, NEW label \in {"start", "count", "consume", "set_status", "list"},
             Continue(h, local, label), RowsKept, MachinesKept,
             local.cur.row \in RowIds => Present(local.cur.row),
             local.todo \subseteq me.todo, local.targets \subseteq me.targets
      PROVE  SInv' /\ ClosedKept
  <2>1. Knows(h, local, label)
    BY <1>0, <1>4 DEF Knows
  <2>2. \A q \in Policies : ~Granted(local, label, q)
    BY <1>4 DEF Granted
  <2> QED
    BY <1>0, <1>4, <2>1, <2>2, MoveInv
<1>5. ASSUME NEW j \in Jobs, NEW k \in Kinds, Receive(h, j, k)
      PROVE  SInv' /\ ClosedKept
  <2>1. RowsKept /\ MachinesKept
    BY <1>1, <1>5 DEF Receive
  <2>2. CASE IsNew(<<j, k>>)
    <3> DEFINE local == [Idle EXCEPT !.job = j, !.kind = k, !.policy = PolicyOf[j]]
    <3>1. local \in Local
      BY EmptyValues, ConstantAssumption DEF Local
    <3>2. local.cur = NoSnapshot /\ local.todo = {} /\ local.targets = {}
      BY DEF Idle
    <3>3. Continue(h, local, "start")
      BY <1>5, <2>2 DEF Receive
    <3> HIDE DEF local
    <3> QED
      BY <1>4, <2>1, <3>1, <3>2, <3>3, NothingRead
  <2>3. CASE ~IsNew(<<j, k>>)
    BY <1>5, <2>1, <2>3, NoMoveInv DEF Receive
  <2> QED
    BY <2>2, <2>3
<1>6. ASSUME RepositoryNotAllowed(h)
      PROVE  SInv' /\ ClosedKept
  BY <1>1, <1>3, <1>6 DEF RepositoryNotAllowed
<1>7. ASSUME NEW v \in {"blocked", "warm", "launch"}, UNCHANGED <<runners, lastRow>>, UnchangedWorld,
             v = "launch" /\ me.policy \in Policies
               => Cardinality(Active(me.policy)) < MaxRunners[me.policy],
             Continue(h, [me EXCEPT !.verdict = v], "tracked")
      PROVE  SInv' /\ ClosedKept
  <2> DEFINE local == [me EXCEPT !.verdict = v]
  <2>1. local \in Local
    BY <1>0 DEF Local
  <2>2. /\ local.policy = me.policy /\ local.verdict = v /\ local.cur = me.cur
        /\ local.todo = me.todo /\ local.targets = me.targets
    BY <1>0 DEF Local
  <2>3. Continue(h, local, "tracked")
    BY <1>7
  <2> HIDE DEF local
  <2>4. Knows(h, local, "tracked")
    BY <1>0, <2>2 DEF Knows
  <2>5. \A q \in Policies : Granted(local, "tracked", q) => Cardinality(Active(q)) < MaxRunners[q]
    BY <1>7, <2>2 DEF Granted
  <2> QED
    BY <1>0, <1>1, <1>7, <2>1, <2>3, <2>4, <2>5, MoveInv
<1>8. ASSUME AdmissionBlocks(h)
      PROVE  SInv' /\ ClosedKept
  BY <1>7, <1>8 DEF AdmissionBlocks, UnchangedStore, me
<1>9. ASSUME FindWarmIdleRunner(h)
      PROVE  SInv' /\ ClosedKept
  <2>1. RowsKept /\ MachinesKept
    BY <1>1, <1>9 DEF FindWarmIdleRunner, UnchangedStore
  <2>2. ASSUME NEW r \in WarmIdle(me.policy), Continue(h, [me EXCEPT !.cur = SnapshotOf(r)], "count")
        PROVE  SInv' /\ ClosedKept
    <3> DEFINE local == [me EXCEPT !.cur = SnapshotOf(r)]
    <3>1. r \in RowIds /\ Present(r)
      BY <2>2 DEF WarmIdle, Open, Present
    <3>2. SnapshotOf(r) \in Snapshot /\ SnapshotOf(r).row = r
      BY <3>1 DEF IInv, TypeOK, SnapshotOf, Snapshot, Runner
    <3>3. local \in Local
      BY <1>0, <3>2 DEF Local
    <3>4. local.cur = SnapshotOf(r) /\ local.todo = me.todo /\ local.targets = me.targets
      BY <1>0 DEF Local
    <3>5. Continue(h, local, "count")
      BY <2>2
    <3> HIDE DEF local
    <3> QED
      BY <1>4, <2>1, <3>1, <3>2, <3>3, <3>4, <3>5
  <2>3. \/ Continue(h, me, "count")
        \/ \E r \in WarmIdle(me.policy) : Continue(h, [me EXCEPT !.cur = SnapshotOf(r)], "count")
    BY <1>9 DEF FindWarmIdleRunner, me
  <2> QED
    BY <1>3, <2>1, <2>2, <2>3
<1>10. ASSUME CountActiveRunners(h)
       PROVE  SInv' /\ ClosedKept
  <2> DEFINE q == me.policy
             v == Verdict(Cardinality(Active(q)), MaxRunners[q], me.cur.row # 0)
  <2>1. v \in {"blocked", "warm", "launch"}
    BY DEF Verdict
  <2>2. v = "launch" => ~(Cardinality(Active(q)) >= MaxRunners[q])
    BY DEF Verdict
  <2>3. UNCHANGED <<runners, lastRow>> /\ UnchangedWorld /\ Continue(h, [me EXCEPT !.verdict = v], "tracked")
    BY <1>10 DEF CountActiveRunners, UnchangedStore, me
  <2>4. v = "launch" /\ q \in Policies => Cardinality(Active(q)) < MaxRunners[q]
    <3>1. Active(q) \subseteq RowIds
      BY DEF Active
    <3>2. Cardinality(Active(q)) \in Nat
      BY <3>1, RowSets
    <3>3. q \in Policies => MaxRunners[q] \in Nat
      BY ConstantAssumption
    <3> HIDE DEF q, v
    <3> QED
      BY <2>2, <3>2, <3>3
  <2> HIDE DEF v
  <2> QED
    BY <1>7, <2>1, <2>3, <2>4
<1>11. ASSUME RecordQueuedJob(h)
       PROVE  SInv' /\ ClosedKept
  <2>1. RowsKept /\ MachinesKept
    BY <1>1, <1>11 DEF RecordQueuedJob
  <2>2. ASSUME me.verdict # "warm", me.verdict # "blocked", Continue(h, me, "launch")
        PROVE  SInv' /\ ClosedKept
    <3>1. Knows(h, me, "launch")
      BY <1>0 DEF Knows
    <3>2. me.pc = "tracked" /\ me.verdict = "launch"
      BY <1>0, <1>11, <2>2 DEF RecordQueuedJob, At, LocalOK, Fits, Local, me
    <3>3. \A q \in Policies : Granted(me, "launch", q) => InFlight(h, q)
      BY <3>2 DEF Granted, InFlight, At, me
    <3> QED
      BY <1>0, <2>1, <2>2, <3>1, <3>3, MoveInv
  <2>3. \/ Stop(h) \/ Continue(h, me, "reserve_state")
        \/ me.verdict # "warm" /\ me.verdict # "blocked" /\ Continue(h, me, "launch")
    BY <1>11 DEF RecordQueuedJob, me
  <2> QED
    BY <1>3, <2>1, <2>2, <2>3
<1>12. ASSUME ReserveState(h)
       PROVE  SInv' /\ ClosedKept
  <2>1. UpdateRunnerWarmState(me.cur.row, me.job, "reserved") /\ Continue(h, me, "reserve_status")
    BY <1>12 DEF ReserveState, me
  <2> QED
    BY <1>1, <1>3, <1>12, <2>1, WarmStateKept DEF ReserveState
<1>13. ASSUME ReserveStatus(h)
       PROVE  SInv' /\ ClosedKept
  <2>1. UpdateRunnerStatus(me.cur.row, "reserved", me.cur.ghRunner)
    BY <1>13 DEF ReserveStatus, me
  <2> QED
    BY <1>1, <1>2, <1>3, <1>13, <2>1, StatusKept DEF ReserveStatus
<1>14. ASSUME RecordJobProgress(h)
       PROVE  SInv' /\ ClosedKept
  <2>1. RowsKept /\ MachinesKept
    BY <1>1, <1>14 DEF RecordJobProgress
  <2>2. ASSUME NEW r \in RowIds, IsLatestRunnerOf(me.job, r), NEW gh,
               NEW label \in {"consume", "set_status"},
               Continue(h, [me EXCEPT !.cur = [SnapshotOf(r) EXCEPT !.ghRunner = gh]], label)
        PROVE  SInv' /\ ClosedKept
    <3> DEFINE c     == [SnapshotOf(r) EXCEPT !.ghRunner = gh]
               local == [me EXCEPT !.cur = c]
    <3>1. Present(r) /\ c.row = r
      BY <2>2 DEF IsLatestRunnerOf, RunnersOf, Present, SnapshotOf
    <3>2. c \in Snapshot \union {NoSnapshot}
      <4>1. proc'[h] = [local EXCEPT !.pc = label]
        BY <1>0, <2>2 DEF Continue
      <4>2. proc'[h].cur = c
        <5> HIDE DEF c
        <5> QED
          BY <1>0, <4>1 DEF Local
      <4> HIDE DEF c
      <4> QED
        BY <1>0, <4>2 DEF Local
    <3> HIDE DEF c
    <3>3. local \in Local
      BY <1>0, <3>2 DEF Local
    <3>4. local.cur = c /\ local.todo = me.todo /\ local.targets = me.targets
      BY <1>0 DEF Local
    <3>5. Continue(h, local, label)
      BY <2>2 DEF c
    <3> HIDE DEF local
    <3> QED
      BY <1>4, <2>1, <2>2, <3>1, <3>3, <3>4, <3>5
  <2>3. \/ Stop(h)
        \/ \E r \in RowIds : IsLatestRunnerOf(me.job, r) /\ \E gh \in ResolveRunnerID(me.job, r) :
             \E label \in {"consume", "set_status"} :
               Continue(h, [me EXCEPT !.cur = [SnapshotOf(r) EXCEPT !.ghRunner = gh]], label)
    BY <1>14 DEF RecordJobProgress, me
  <2> QED
    BY <1>3, <2>1, <2>2, <2>3
<1>15. ASSUME ConsumeWarm(h)
       PROVE  SInv' /\ ClosedKept
  <2>1. UpdateRunnerWarmState(me.cur.row, me.job, "consumed") /\ Continue(h, me, "set_status")
    BY <1>15 DEF ConsumeWarm, me
  <2> QED
    BY <1>1, <1>3, <1>15, <2>1, WarmStateKept DEF ConsumeWarm
<1>16. ASSUME SyncRunnerStatus(h)
       PROVE  SInv' /\ ClosedKept
  <2> DEFINE status == PayloadStatus(me.job, me.kind)
  <2>1. UpdateRunnerStatus(me.cur.row, status, me.cur.ghRunner) /\ lastRow' = lastRow
    BY <1>16 DEF SyncRunnerStatus, me
  <2>2. status \notin {"absent", "terminated"}
    <3>1. me.job \in Jobs /\ me.kind \in Kinds
      BY <1>0, <1>16 DEF SyncRunnerStatus, At, LocalOK, Fits, me
    <3>2. me.kind = "completed" => github[me.job].conclusion \in Conclusions
      BY <1>0, <1>16 DEF LocalOK, Fits, me, IInv, ConclusionOK
    <3> QED
      BY <3>1, <3>2, ConstantAssumption DEF PayloadStatus
  <2> HIDE DEF status
  <2>3. RowsKept /\ MachinesKept
    BY <1>1, <1>2, <1>16, <2>1, <2>2, StatusKept DEF SyncRunnerStatus
  <2> DEFINE local == [me EXCEPT !.cur = NoSnapshot]
  <2>4. local \in Local /\ local.cur = NoSnapshot /\ local.todo = me.todo /\ local.targets = me.targets
    BY <1>0 DEF Local
  <2>5. Stop(h) \/ Continue(h, local, "list")
    BY <1>16 DEF SyncRunnerStatus, me
  <2> HIDE DEF local
  <2> QED
    BY <1>3, <1>4, <2>3, <2>4, <2>5, NothingRead
<1> QED
  BY <1>5, <1>6, <1>8, <1>9, <1>10, <1>11, <1>12, <1>13, <1>14, <1>15, <1>16 DEF Webhook

\* Recording a runner keeps the invariant: its row takes the room its launcher held,
\* and it is the first warm runner of its target if it is one.
LEMMA CreateRunnerSafe ==
  ASSUME IInv, SInv, NEW p \in Handlers \union {WarmLoop}, CreateRunner(p)
  PROVE  SInv' /\ ClosedKept
<1> DEFINE me  == proc[p]
           new == lastRow + 1
<1>0. /\ p \in Procs /\ me \in Local /\ proc \in [Procs -> Local]
      /\ runners \in [RowIds -> Runner] /\ lastRow \in Nat /\ lastInstance \in Nat
  BY ConstantAssumption DEF IInv, TypeOK, Procs
<1>1. me.pc = "insert" /\ Knows(p, me, "insert") /\ me.instance \in 1..lastInstance
  BY <1>0 DEF CreateRunner, At, SInv, HoldsMachine
<1> HIDE DEF me
<1>2. new \in RowIds /\ ~Present(new) /\ lastRow' = new
  <2>1. new \in RowIds /\ lastRow' = new
    BY <1>0, ConstantAssumption DEF CreateRunner, RowIds
  <2>2. ~(new <= lastRow)
    BY <1>0
  <2> QED
    BY <2>1, <2>2 DEF SInv, RowOK
<1>3. ~runners[new].terminated /\ ~Open(new)
  BY <1>2 DEF SInv, RowOK, Present, Open
<1>4. /\ runners'[new].policy = me.policy /\ runners'[new].instance = me.instance
      /\ runners'[new].source = (IF p = WarmLoop THEN "warm" ELSE "ondemand")
      /\ runners'[new].status = "launching" /\ ~runners'[new].terminated
      /\ \A r \in RowIds : r # new => runners'[r] = runners[r]
  BY <1>0, <1>2 DEF CreateRunner, NewRunner, NoRunner, me
<1>5. MachinesKept
  BY MachinesUnchanged DEF CreateRunner, UnchangedWorld
<1>6. Stable
  BY <1>2, <1>4, <1>5 DEF Stable, MachinesKept, Present
<1>7. PICK local \in Local, label \in {"idle", "warm_scan"} :
        /\ Continue(p, local, label)
        /\ local.cur.row \in RowIds => local.cur.row \in RowIds /\ Present(local.cur.row)
        /\ \A s \in local.todo : Present(s.row) /\ s.status \notin {"absent", "terminated"}
        /\ local.targets \subseteq WarmPolicies
  <2>1. CASE Stop(p)
    <3>1. Continue(p, Idle, "idle") /\ Idle \in Local
      BY <2>1, EmptyValues DEF Stop, Continue, Idle
    <3> QED
      BY <3>1, NothingRead
  <2>2. CASE p = WarmLoop /\ Continue(WarmLoop, [me EXCEPT !.instance = 0, !.policy = NoPolicy], "warm_scan")
    <3> DEFINE next == [me EXCEPT !.instance = 0, !.policy = NoPolicy]
    <3>1. 0 \in 0..MaxInstances
      BY ConstantAssumption
    <3>2. next \in Local /\ next.cur = me.cur /\ next.todo = me.todo /\ next.targets = me.targets
      BY <1>0, <3>1 DEF Local
    <3>3. Continue(p, next, "warm_scan")
      BY <2>2
    <3> HIDE DEF next
    <3> QED
      BY <1>1, <3>2, <3>3 DEF Knows
  <2> QED
    BY <2>1, <2>2 DEF CreateRunner, NextTarget, me
<1>8. /\ proc'[p].pc = label /\ proc'[p].cur = local.cur /\ proc'[p].todo = local.todo
      /\ proc'[p].targets = local.targets
      /\ \A x \in Procs : x # p => proc'[x] = proc[x]
  BY <1>0, <1>7 DEF Continue, Local
<1>9. \A q \in WarmPolicies : p = WarmLoop \/ ActiveWarm(q)' \subseteq ActiveWarm(q)
  BY <1>4 DEF ActiveWarm, Open
<1>10. ASSUME NEW x \in Procs PROVE Knows(x, proc[x], proc[x].pc)' /\ HoldsMachine(x)'
  <2>1. CASE x # p
    BY <1>0, <1>5, <1>6, <1>7, <1>9, <2>1, OthersKnow DEF MachinesKept
  <2>2. CASE x = p
    <3>1. HoldsMachine(x)'
      BY <1>7, <1>8, <2>2 DEF HoldsMachine, At
    <3>2. local.cur.row \in RowIds => Present(local.cur.row)'
      BY <1>6, <1>7 DEF Stable
    <3>3. \A s \in local.todo : Present(s.row)'
      BY <1>6, <1>7 DEF Stable, Local, Snapshot
    <3> QED
      BY <1>7, <1>8, <2>2, <3>1, <3>2, <3>3 DEF Knows
  <2> QED
    BY <2>1, <2>2
<1>11. WarmUnique'
  <2>1. ASSUME NEW q \in Policies, NEW r \in ActiveWarm(q)', NEW s \in ActiveWarm(q)'
        PROVE  r = s
    <3>1. \A t \in ActiveWarm(q)' :
            t \in ActiveWarm(q) \/ (t = new /\ p = WarmLoop /\ me.policy = q)
      BY <1>4 DEF ActiveWarm, Open
    <3>2. p = WarmLoop => ActiveWarm(me.policy) = {}
      BY <1>1 DEF Knows
    <3>3. \A t, u \in ActiveWarm(q) : t = u
      BY DEF SInv, WarmUnique
    <3> QED
      BY <3>1, <3>2, <3>3
  <2> QED
    BY <2>1 DEF WarmUnique
<1>12. ASSUME NEW q \in Policies
       PROVE  Cardinality(Active(q)') + Cardinality({x \in Procs : InFlight(x, q)}')
                <= MaxRunners[q] + Cardinality(Launchers(q)) - 1
  <2> DEFINE F == {x \in Procs : InFlight(x, q)}
             G == F'
             A == Active(q)
             B == A'
  <2>1. F \subseteq Launchers(q)
    BY DEF SInv, Knows, InFlight, At, Launchers
  <2>2. A \subseteq RowIds /\ B \subseteq RowIds
    BY DEF Active
  <2>3. Cardinality(A) + Cardinality(F) <= MaxRunners[q] + Cardinality(Launchers(q)) - 1
    BY DEF SInv, OvershootBounded
  <2>4. G \subseteq F \ {p}
    BY <1>7, <1>8 DEF InFlight, At
  <2>5. p \in F <=> me.policy = q
    BY <1>0, <1>1 DEF InFlight, At, me
  <2>6. B = IF me.policy = q THEN A \union {new} ELSE A
    BY <1>2, <1>3, <1>4 DEF Active, Open
  <2>7. new \notin A
    BY <1>3 DEF Active
  <2>8. MaxRunners[q] \in Nat
    BY ConstantAssumption
  <2> HIDE DEF F, G, A, B, new
  <2>9. IsFiniteSet(F) /\ Cardinality(F) \in Nat /\ Cardinality(F \ {p}) \in Nat
        /\ Cardinality(G) \in Nat /\ Cardinality(G) <= Cardinality(F \ {p})
        /\ Cardinality(F \ {p}) <= Cardinality(F) /\ Cardinality(Launchers(q)) \in Nat
    <3>1. F \ {p} \in SUBSET Launchers(q) /\ F \ {p} \in SUBSET F
      BY <2>1
    <3> QED
      BY <2>1, <2>4, <3>1, LauncherSets
  <2>10. p \in F => Cardinality(F \ {p}) = Cardinality(F) - 1
    BY <2>9, FS_RemoveElement
  <2>11. IsFiniteSet(A) /\ Cardinality(A) \in Nat
    BY <2>2, RowSets
  <2>12. Cardinality(A \union {new}) = Cardinality(A) + 1
    BY <2>7, <2>11, FS_AddElement
  <2>13. Cardinality(B) + Cardinality(G) <= Cardinality(A) + Cardinality(F)
    BY <2>5, <2>6, <2>9, <2>10, <2>11, <2>12
  <2>14. Cardinality(B) \in Nat
    BY <2>2, RowSets
  <2>15. Cardinality(B) + Cardinality(G) <= MaxRunners[q] + Cardinality(Launchers(q)) - 1
    BY <2>3, <2>8, <2>9, <2>11, <2>13, <2>14
  <2> QED
    BY <2>15 DEF B, G, A, F
<1>13. OvershootBounded'
  BY <1>12 DEF OvershootBounded, Launchers
<1>14. ASSUME NEW r \in RowIds PROVE RowOK(r)'
  <2>1. CASE r = new
    BY <1>1, <1>2, <1>4, <2>1 DEF RowOK, Present, CreateRunner, UnchangedWorld
  <2>2. CASE r # new
    <3>1. r <= new <=> r <= lastRow
      BY <1>0, <2>2 DEF RowIds
    <3>2. RowOK(r) /\ runners'[r] = runners[r]
      BY <1>4, <2>2 DEF SInv
    <3> QED
      BY <1>2, <3>1, <3>2 DEF RowOK, Present, Down, CreateRunner, UnchangedWorld
  <2> QED
    BY <2>1, <2>2
<1>15. ClosedKept
  BY <1>3, <1>4 DEF ClosedKept
<1> QED
  BY <1>5, <1>10, <1>11, <1>13, <1>14, <1>15 DEF SInv, MachinesKept

\* A launch keeps the invariant.
LEMMA LaunchSafe ==
  ASSUME IInv, SInv, NEW p \in Handlers \union {WarmLoop}, Launch(p)
  PROVE  SInv' /\ ClosedKept
<1> DEFINE me == proc[p]
<1>0. p \in Procs /\ me \in Local /\ Knows(p, me, me.pc)
  BY DEF IInv, TypeOK, Procs, SInv
<1> HIDE DEF me
<1>1. ASSUME LaunchInstance(p)
      PROVE  SInv' /\ ClosedKept
  <2> DEFINE i     == lastInstance + 1
             local == [me EXCEPT !.instance = i]
  <2>1. lastInstance \in Nat /\ i \in InstanceIds /\ instances \in [InstanceIds -> Instance]
    BY <1>1, ConstantAssumption DEF IInv, TypeOK, LaunchInstance, InstanceIds
  <2>2. instances[i].state = "none"
    BY <2>1 DEF SInv, MachineOK
  <2>3. /\ instances'[i].state = "RUNNING" /\ lastInstance' = i
        /\ \A k \in InstanceIds : k # i => instances'[k] = instances[k]
    BY <1>1, <2>1 DEF LaunchInstance
  <2>4. MachinesKept
    <3>1. ASSUME NEW k \in InstanceIds PROVE (Down(k) => Down(k)') /\ MachineOK(k)'
      <4>1. CASE k = i
        BY <2>1, <2>2, <2>3, <4>1 DEF Down, MachineOK
      <4>2. CASE k # i
        <5>1. instances'[k] = instances[k] /\ MachineOK(k)
          BY <2>3, <4>2 DEF SInv
        <5>2. k > i => k > lastInstance
          BY <2>1 DEF InstanceIds
        <5> QED
          BY <2>3, <5>1, <5>2 DEF Down, MachineOK
      <4> QED
        BY <4>1, <4>2
    <3> QED
      BY <2>1, <2>3, <3>1 DEF MachinesKept
  <2>5. RowsKept
    BY <1>1, RowsUnchanged DEF LaunchInstance, UnchangedStore
  <2>6. me.pc = "launch" /\ Continue(p, local, "insert")
    BY <1>1 DEF LaunchInstance, At, me
  <2>7. i \in 0..MaxInstances /\ i \in 1..lastInstance'
    BY <2>1, <2>3, ConstantAssumption DEF InstanceIds
  <2> HIDE DEF i
  <2>8. local \in Local
    BY <1>0, <2>7 DEF Local
  <2>9. /\ local.policy = me.policy /\ local.instance = i /\ local.cur = me.cur
        /\ local.todo = me.todo /\ local.targets = me.targets
    BY <1>0 DEF Local
  <2> HIDE DEF local
  <2>10. Knows(p, local, "insert")
    BY <1>0, <2>6, <2>9 DEF Knows
  <2>11. \A q \in Policies : Granted(local, "insert", q) => InFlight(p, q)
    BY <2>6, <2>9 DEF Granted, InFlight, me
  <2> QED
    BY <1>0, <2>4, <2>5, <2>6, <2>7, <2>8, <2>9, <2>10, <2>11, MoveInv
<1>2. ASSUME LaunchFails(p) \/ CreateRunnerFails(p)
      PROVE  SInv' /\ ClosedKept
  <2>1. RowsKept /\ MachinesKept
    BY <1>2, RowsUnchanged, MachinesUnchanged
       DEF LaunchFails, CreateRunnerFails, LaunchError, UnchangedWorld
  <2>2. Stop(p) \/ (p = WarmLoop /\ NextTarget(me))
    BY <1>2 DEF LaunchFails, CreateRunnerFails, LaunchError, me
  <2>3. Knows(p, me, "warm_scan")
    BY <1>0 DEF Knows
  <2> QED
    BY <1>0, <2>1, <2>2, <2>3, HaltInv, NextTargetSafe
<1> QED
  BY <1>1, <1>2, CreateRunnerSafe DEF Launch

\* Deleting a GitHub registration and asking OCI to terminate keep the machines.
LEMMA MachineCalls ==
  ASSUME IInv, SInv, NEW i, DeleteRepoRunner(i) \/ RequestTermination(i), lastInstance' = lastInstance
  PROVE  MachinesKept
<1>0. instances \in [InstanceIds -> Instance]
  BY DEF IInv, TypeOK
<1>1. CASE instances' = instances
  BY <1>1, MachinesUnchanged
<1>2. CASE instances' = [instances EXCEPT ![i].agent = "gone"]
  <2> DEFINE m == [instances[i] EXCEPT !.agent = "gone"]
  <2>1. instances' = [instances EXCEPT ![i] = m]
    BY <1>2
  <2>2. i \in InstanceIds => m.state = instances[i].state /\ m.agent = "gone"
    BY <1>0 DEF Instance
  <2> HIDE DEF m
  <2> QED
    BY <2>1, <2>2, MachineWrite DEF Down
<1>3. CASE RequestTermination(i)
  <2> DEFINE state == IF instances[i].state \in {"RUNNING", "STOPPED"}
                        THEN "TERMINATING" ELSE instances[i].state
             m == [instances[i] EXCEPT !.state = state]
  <2>1. instances' = [instances EXCEPT ![i] = m]
    BY <1>3 DEF RequestTermination
  <2>2. i \in InstanceIds => m.state = state /\ m.agent = instances[i].agent
    BY <1>0 DEF Instance
  <2>3. i \in InstanceIds => MachineOK(i)
    BY DEF SInv
  <2> HIDE DEF m
  <2> QED
    BY <2>1, <2>2, <2>3, MachineWrite DEF Down, MachineOK
<1> QED
  BY <1>1, <1>2, <1>3 DEF DeleteRepoRunner, Deregister

\* A cleanup pass keeps the invariant: it closes only rows whose machine is down.
LEMMA CleanupSafe ==
  ASSUME IInv, IInv', SInv, NEW p \in Handlers \union Sweepers, Cleanup(p)
  PROVE  SInv' /\ ClosedKept
<1> DEFINE me == proc[p]
<1>0. /\ p \in Procs /\ p # WarmLoop /\ me \in Local /\ Knows(p, me, me.pc)
      /\ proc \in [Procs -> Local] /\ proc' \in [Procs -> Local]
  BY ConstantAssumption DEF IInv, TypeOK, Procs, SInv
<1> HIDE DEF me
<1>1. /\ UNCHANGED <<runners, lastRow>> => RowsKept
      /\ UNCHANGED <<instances, lastInstance>> => MachinesKept
  BY RowsUnchanged, MachinesUnchanged
<1>2. me.cur.row \in RowIds => Present(me.cur.row)
  BY <1>0 DEF Knows
\* The pass goes on to its next candidate, asks for a termination, or ends.
<1>3. ASSUME RowsKept, MachinesKept, NextCandidate(p) \/ Continue(p, me, "mark") \/ Stop(p)
      PROVE  SInv' /\ ClosedKept
  <2> DEFINE local == [me EXCEPT !.cur = NoSnapshot]
  <2>1. local \in Local /\ local.cur = NoSnapshot /\ local.todo = me.todo /\ local.targets = me.targets
    BY <1>0 DEF Local
  <2>2. NextCandidate(p) => Continue(p, local, "sweep")
    BY DEF NextCandidate, me
  <2> HIDE DEF local
  <2> QED
    BY <1>0, <1>3, <2>1, <2>2, StepInv, HaltInv DEF me
<1>4. ASSUME ListCleanupCandidates(p)
      PROVE  SInv' /\ ClosedKept
  <2> DEFINE todo  == {SnapshotOf(r) : r \in CleanupCandidates}
             local == [me EXCEPT !.todo = todo]
  <2>1. todo \subseteq Snapshot
    BY DEF CleanupCandidates, IInv, TypeOK, SnapshotOf, Snapshot, Runner
  <2>2. \A s \in todo : Present(s.row) /\ s.status \notin {"absent", "terminated"}
    BY DEF CleanupCandidates, Open, SnapshotOf, Present, SInv, RowOK
  <2> HIDE DEF todo
  <2>3. local \in Local
    BY <1>0, <2>1 DEF Local
  <2>4. local.cur = me.cur /\ local.todo = todo /\ local.targets = me.targets
    BY <1>0 DEF Local
  <2>5. Continue(p, local, "sweep")
    BY <1>4 DEF ListCleanupCandidates, me, todo
  <2>6. RowsKept /\ MachinesKept
    BY <1>1, <1>4 DEF ListCleanupCandidates, UnchangedStore, UnchangedWorld
  <2> HIDE DEF local
  <2>7. Knows(p, local, "sweep")
    BY <1>0, <2>2, <2>4 DEF Knows
  <2>8. \A q \in Policies : ~Granted(local, "sweep", q)
    BY DEF Granted
  <2> QED
    BY <1>0, <2>3, <2>5, <2>6, <2>7, <2>8, MoveInv
<1>5. ASSUME TakeCandidate(p)
      PROVE  SInv' /\ ClosedKept
  <2>1. PICK s \in me.todo : \E gh \in {0, runners[s.row].instance} :
          /\ IF gh # 0 THEN UpdateRunnerStatus(s.row, s.status, gh) ELSE UNCHANGED runners
          /\ Continue(p, [me EXCEPT !.todo = @ \ {s},
                                    !.cur = [s EXCEPT !.ghRunner = IF gh # 0 THEN gh ELSE @]], "get")
    BY <1>5 DEF TakeCandidate, me
  <2>2. PICK gh :
          /\ IF gh # 0 THEN UpdateRunnerStatus(s.row, s.status, gh) ELSE UNCHANGED runners
          /\ Continue(p, [me EXCEPT !.todo = @ \ {s},
                                    !.cur = [s EXCEPT !.ghRunner = IF gh # 0 THEN gh ELSE @]], "get")
    BY <2>1
  <2>3. s \in Snapshot /\ s.row \in RowIds /\ Present(s.row) /\ s.status \notin {"absent", "terminated"}
    BY <1>0, <2>1 DEF Knows, Local, Snapshot
  <2>4. RowsKept /\ MachinesKept
    BY <1>1, <1>5, <2>2, <2>3, StatusKept DEF TakeCandidate, UnchangedWorld
  <2> DEFINE c     == [s EXCEPT !.ghRunner = IF gh # 0 THEN gh ELSE @]
             local == [me EXCEPT !.todo = @ \ {s}, !.cur = c]
  <2>5. c.row = s.row
    BY <2>3 DEF Snapshot
  <2>6. Continue(p, local, "get")
    BY <2>2
  <2> HIDE DEF c
  <2>7. c \in Snapshot \union {NoSnapshot}
    <3>1. proc'[p] = [local EXCEPT !.pc = "get"]
      BY <1>0, <2>6 DEF Continue
    <3>2. proc'[p].cur = c
      BY <1>0, <3>1 DEF Local
    <3> QED
      BY <1>0, <3>2 DEF Local
  <2>8. local \in Local
    BY <1>0, <2>7 DEF Local
  <2>9. local.cur = c /\ local.todo \subseteq me.todo /\ local.targets = me.targets
    BY <1>0 DEF Local
  <2> HIDE DEF local
  <2>10. Knows(p, local, "get")
    BY <1>0, <2>3, <2>5, <2>9 DEF Knows
  <2>11. \A q \in Policies : ~Granted(local, "get", q)
    BY DEF Granted
  <2> QED
    BY <1>0, <2>4, <2>6, <2>8, <2>10, <2>11, MoveInv
<1>6. ASSUME FindInstanceEnded(p)
      PROVE  SInv' /\ ClosedKept
  <2> DEFINE r == me.cur.row
             i == runners[r].instance
  <2>1. me.pc = "get" /\ r \in RowIds /\ Present(r) /\ InstanceEnded(i) /\ Continue(p, me, "close")
    BY <1>0, <1>6 DEF FindInstanceEnded, At, Knows, me
  <2>2. i \in InstanceIds /\ MachineOK(i) /\ instances[i] \in Instance
    <3>1. i \in 1..lastInstance /\ lastInstance \in 0..MaxInstances
      BY <2>1 DEF SInv, RowOK, IInv, TypeOK
    <3>2. i \in InstanceIds
      BY <3>1, ConstantAssumption DEF InstanceIds
    <3> QED
      BY <3>2 DEF SInv, IInv, TypeOK
  <2>3. Down(i)
    BY <2>1, <2>2 DEF InstanceEnded, MachineOK, Down, Instance
  <2>4. Knows(p, me, "close")
    BY <1>0, <2>1, <2>3 DEF Knows
  <2>5. \A q \in Policies : ~Granted(me, "close", q)
    BY DEF Granted
  <2>6. RowsKept /\ MachinesKept
    BY <1>1, <1>6 DEF FindInstanceEnded, UnchangedStore, UnchangedWorld
  <2> QED
    BY <1>0, <2>1, <2>4, <2>5, <2>6, MoveInv
<1>7. ASSUME CloseRunner(p)
      PROVE  SInv' /\ ClosedKept
  <2>1. me.cur.row \in RowIds /\ Down(runners[me.cur.row].instance)
    BY <1>0, <1>7 DEF CloseRunner, At, Knows, me
  <2>2. MarkRunnerTerminated(me.cur.row)
    BY <1>7 DEF CloseRunner, me
  <2>3. RowsKept /\ MachinesKept
    BY <1>2, <1>7, <2>1, <2>2, TerminationKept, MachineCalls DEF CloseRunner
  <2> QED
    BY <1>3, <1>7, <2>3 DEF CloseRunner
<1>8. ASSUME TerminateRunner(p)
      PROVE  SInv' /\ ClosedKept
  <2>1. RowsKept /\ MachinesKept
    BY <1>1, <1>8, MachineCalls DEF TerminateRunner, UnchangedStore
  <2> QED
    BY <1>3, <1>8, <2>1 DEF TerminateRunner, me
<1>9. ASSUME TerminateFails(p)
      PROVE  SInv' /\ ClosedKept
  BY <1>1, <1>3, <1>9 DEF TerminateFails, UnchangedStore, UnchangedWorld
<1>10. ASSUME MarkTerminating(p)
       PROVE  SInv' /\ ClosedKept
  <2>1. UNCHANGED runners \/ UpdateRunnerStatus(me.cur.row, "terminating", me.cur.ghRunner)
    BY <1>10 DEF MarkTerminating, me
  <2>2. RowsKept /\ MachinesKept
    BY <1>1, <1>2, <1>10, <2>1, StatusKept, MachineCalls DEF MarkTerminating
  <2> QED
    BY <1>3, <1>10, <2>2 DEF MarkTerminating
<1>11. ASSUME RowWriteFails(p)
       PROVE  SInv' /\ ClosedKept
  <2>1. RowsKept /\ MachinesKept
    BY <1>1, <1>11, MachineCalls DEF RowWriteFails, UnchangedStore
  <2> QED
    BY <1>3, <1>11, <2>1 DEF RowWriteFails
<1>12. ASSUME EndSweep(p) \/ SweepFails(p)
       PROVE  SInv' /\ ClosedKept
  BY <1>1, <1>3, <1>12 DEF EndSweep, SweepFails, UnchangedWorld
<1> QED
  BY <1>4, <1>5, <1>6, <1>7, <1>8, <1>9, <1>10, <1>11, <1>12 DEF Cleanup

\* A request to the admin endpoint keeps the invariant.
LEMMA AdminSafe ==
  ASSUME IInv, SInv, NEW p \in Operators, Admin(p)
  PROVE  SInv' /\ ClosedKept
<1> DEFINE me == proc[p]
<1>0. p \in Procs /\ p # WarmLoop /\ me \in Local /\ Knows(p, me, me.pc)
  BY ConstantAssumption DEF IInv, TypeOK, Procs, Sweepers, SInv
<1> HIDE DEF me
<1>1. /\ UNCHANGED <<runners, lastRow>> => RowsKept
      /\ UNCHANGED <<instances, lastInstance>> => MachinesKept
  BY RowsUnchanged, MachinesUnchanged
<1>2. ASSUME NEW r \in RowIds, AdminTerminate(p, r)
      PROVE  SInv' /\ ClosedKept
  <2> DEFINE local == [Idle EXCEPT !.cur = SnapshotOf(r)]
  <2>1. SnapshotOf(r) \in Snapshot /\ SnapshotOf(r).row = r
    BY DEF SnapshotOf, Snapshot, Runner, IInv, TypeOK
  <2>2. local \in Local
    BY <2>1, EmptyValues DEF Local
  <2>3. local.cur = SnapshotOf(r) /\ local.todo = {} /\ local.targets = {}
    BY DEF Idle
  <2>4. Present(r) /\ Continue(p, local, "admin_terminate")
    BY <1>2 DEF AdminTerminate, Present
  <2> HIDE DEF local
  <2>5. Knows(p, local, "admin_terminate")
    BY <2>1, <2>3, <2>4 DEF Knows
  <2>6. \A q \in Policies : ~Granted(local, "admin_terminate", q)
    BY DEF Granted
  <2>7. RowsKept /\ MachinesKept
    BY <1>1, <1>2 DEF AdminTerminate, UnchangedStore, UnchangedWorld
  <2> QED
    BY <1>0, <2>2, <2>4, <2>5, <2>6, <2>7, MoveInv
<1>3. ASSUME AdminTerminateInstance(p)
      PROVE  SInv' /\ ClosedKept
  <2>1. RowsKept /\ MachinesKept
    BY <1>1, <1>3, MachineCalls DEF AdminTerminateInstance, UnchangedStore
  <2>2. Continue(p, me, "admin_mark") \/ Stop(p)
    BY <1>3 DEF AdminTerminateInstance, me
  <2> QED
    BY <1>0, <2>1, <2>2, StepInv, HaltInv DEF me
<1>4. ASSUME AdminMark(p)
      PROVE  SInv' /\ ClosedKept
  <2>1. me.cur.row \in RowIds => Present(me.cur.row)
    BY <1>0 DEF Knows
  <2>2. UpdateRunnerStatus(me.cur.row, "terminating", me.cur.ghRunner)
    BY <1>4 DEF AdminMark, me
  <2>3. RowsKept /\ MachinesKept
    BY <1>1, <1>4, <2>1, <2>2, StatusKept DEF AdminMark, UnchangedWorld
  <2> QED
    BY <1>0, <1>4, <2>3, HaltInv DEF AdminMark
<1> QED
  BY <1>2, <1>3, <1>4 DEF Admin

\* The warm pool loop keeps the invariant: it launches for a target once it has seen
\* no active warm runner of it, and nobody else creates one.
LEMMA WarmPoolSafe ==
  ASSUME IInv, IInv', SInv, WarmPool
  PROVE  SInv' /\ ClosedKept
<1> DEFINE p  == WarmLoop
           me == proc[p]
<1>0. /\ p \in Procs /\ me \in Local /\ Knows(p, me, me.pc)
      /\ proc \in [Procs -> Local] /\ proc' \in [Procs -> Local]
  BY DEF IInv, TypeOK, Procs, SInv
<1> HIDE DEF me
<1>1. /\ UNCHANGED <<runners, lastRow>> => RowsKept
      /\ UNCHANGED <<instances, lastInstance>> => MachinesKept
  BY RowsUnchanged, MachinesUnchanged
<1>2. me.cur.row \in RowIds => Present(me.cur.row)
  BY <1>0 DEF Knows
<1>3. ASSUME ListWarming
      PROVE  SInv' /\ ClosedKept
  <2> DEFINE todo  == {SnapshotOf(r) : r \in Warming}
             local == [Idle EXCEPT !.todo = todo, !.targets = WarmPolicies]
  <2>1. todo \subseteq Snapshot /\ WarmPolicies \subseteq Policies
    BY ConstantAssumption DEF Warming, IInv, TypeOK, SnapshotOf, Snapshot, Runner
  <2>2. \A s \in todo : Present(s.row) /\ s.status \notin {"absent", "terminated"}
    BY DEF Warming, Open, SnapshotOf, Present, SInv, RowOK
  <2> HIDE DEF todo
  <2>3. local \in Local
    BY <2>1, EmptyValues DEF Local
  <2>4. local.cur = NoSnapshot /\ local.todo = todo /\ local.targets = WarmPolicies
    BY DEF Idle
  <2>5. Continue(p, local, "warm_scan")
    BY <1>3 DEF ListWarming, todo
  <2>6. RowsKept /\ MachinesKept
    BY <1>1, <1>3 DEF ListWarming, UnchangedStore, UnchangedWorld
  <2> HIDE DEF local
  <2>7. Knows(p, local, "warm_scan")
    BY <2>2, <2>4, NothingRead DEF Knows
  <2>8. \A q \in Policies : ~Granted(local, "warm_scan", q)
    BY DEF Granted
  <2> QED
    BY <1>0, <2>3, <2>5, <2>6, <2>7, <2>8, MoveInv
<1>4. ASSUME ProbeWarming
      PROVE  SInv' /\ ClosedKept
  <2>1. PICK s \in me.todo :
          LET rest == [me EXCEPT !.todo = @ \ {s}]
          IN  \/ Continue(p, rest, "warm_scan")
              \/ Continue(p, [rest EXCEPT !.cur = [s EXCEPT !.ghRunner = runners[s.row].instance]],
                          "warm_status")
    BY <1>4 DEF ProbeWarming, me
  <2> DEFINE c     == [s EXCEPT !.ghRunner = runners[s.row].instance]
             rest  == [me EXCEPT !.todo = @ \ {s}]
             local == [rest EXCEPT !.cur = c]
  <2>2. s \in Snapshot /\ Present(s.row)
    BY <1>0, <2>1 DEF Knows, Local
  <2>3. c.row = s.row
    BY <2>2 DEF Snapshot
  <2>4. Continue(p, rest, "warm_scan") \/ Continue(p, local, "warm_status")
    BY <2>1
  <2>5. RowsKept /\ MachinesKept
    BY <1>1, <1>4 DEF ProbeWarming, UnchangedStore, UnchangedWorld
  <2>6. /\ rest \in Local /\ rest.cur = me.cur /\ rest.todo \subseteq me.todo
        /\ rest.targets = me.targets
    BY <1>0 DEF Local
  <2> HIDE DEF c, rest
  <2>7. CASE Continue(p, rest, "warm_scan")
    BY <1>0, <2>5, <2>6, <2>7, StepInv DEF me
  <2>8. CASE Continue(p, local, "warm_status")
    <3>1. c \in Snapshot \union {NoSnapshot}
      <4>1. proc'[p] = [local EXCEPT !.pc = "warm_status"]
        BY <1>0, <2>8 DEF Continue
      <4>2. proc'[p].cur = c
        BY <2>6, <4>1 DEF Local
      <4> QED
        BY <1>0, <4>2 DEF Local
    <3>2. local \in Local
      BY <2>6, <3>1 DEF Local
    <3>3. local.cur = c /\ local.todo = rest.todo /\ local.targets = rest.targets
      BY <2>6 DEF Local
    <3> HIDE DEF local
    <3>4. Knows(p, local, "warm_status")
      BY <1>0, <2>2, <2>3, <2>6, <3>3 DEF Knows
    <3>5. \A q \in Policies : ~Granted(local, "warm_status", q)
      BY DEF Granted
    <3> QED
      BY <1>0, <2>5, <2>8, <3>2, <3>4, <3>5, MoveInv
  <2> QED
    BY <2>4, <2>7, <2>8
<1>5. ASSUME SetWarmStatus
      PROVE  SInv' /\ ClosedKept
  <2>1. /\ UpdateRunnerStatus(me.cur.row, "warm_idle", me.cur.ghRunner)
        /\ Continue(p, me, "warm_state")
    BY <1>5 DEF SetWarmStatus, me
  <2>2. RowsKept /\ MachinesKept
    BY <1>1, <1>2, <1>5, <2>1, StatusKept DEF SetWarmStatus, UnchangedWorld
  <2> QED
    BY <1>0, <2>1, <2>2, StepInv DEF me
<1>6. ASSUME SetWarmIdle
      PROVE  SInv' /\ ClosedKept
  <2> DEFINE local == [me EXCEPT !.cur = NoSnapshot]
  <2>1. /\ UpdateRunnerWarmState(me.cur.row, NoJob, "warm_idle")
        /\ Continue(p, local, "warm_scan")
    BY <1>6 DEF SetWarmIdle, me
  <2>2. local \in Local /\ local.cur = NoSnapshot /\ local.todo = me.todo /\ local.targets = me.targets
    BY <1>0 DEF Local
  <2>3. RowsKept /\ MachinesKept
    BY <1>1, <1>6, <2>1, WarmStateKept DEF SetWarmIdle, UnchangedWorld
  <2> HIDE DEF local
  <2> QED
    BY <1>0, <2>1, <2>2, <2>3, StepInv DEF me
<1>7. ASSUME FindActiveWarmRunner
      PROVE  SInv' /\ ClosedKept
  <2>1. PICK q \in me.targets :
          LET rest == [me EXCEPT !.targets = @ \ {q}, !.policy = q]
          IN  IF ActiveWarm(q) # {} THEN NextTarget(rest) ELSE Continue(p, rest, "warm_count")
    BY <1>7 DEF FindActiveWarmRunner, me
  <2> DEFINE rest == [me EXCEPT !.targets = @ \ {q}, !.policy = q]
  <2>2. rest \in Local
    BY <1>0, <2>1 DEF Local
  <2>3. /\ rest.cur = me.cur /\ rest.todo = me.todo /\ rest.policy = q
        /\ rest.targets \subseteq me.targets
    BY <1>0 DEF Local
  <2>4. NextTarget(rest) \/ (ActiveWarm(q) = {} /\ Continue(p, rest, "warm_count"))
    BY <2>1
  <2>5. RowsKept /\ MachinesKept
    BY <1>1, <1>7 DEF FindActiveWarmRunner, UnchangedStore, UnchangedWorld
  <2> HIDE DEF rest
  <2>6. Knows(p, rest, "warm_scan") /\ (ActiveWarm(q) = {} => Knows(p, rest, "warm_count"))
    BY <1>0, <2>1, <2>3 DEF Knows
  <2>7. \A t \in Policies : ~Granted(rest, "warm_count", t)
    BY DEF Granted
  <2> QED
    BY <1>0, <2>2, <2>4, <2>5, <2>6, <2>7, MoveInv, NextTargetSafe
<1>8. ASSUME CountForWarmTarget
      PROVE  SInv' /\ ClosedKept
  <2> DEFINE q == me.policy
             n == Cardinality(Active(q))
  <2>1. RowsKept /\ MachinesKept
    BY <1>1, <1>8 DEF CountForWarmTarget, UnchangedStore, UnchangedWorld
  <2>2. \/ NextTarget(me)
        \/ Verdict(n, MaxRunners[q], FALSE) # "blocked" /\ Continue(p, me, "launch")
    BY <1>8 DEF CountForWarmTarget, me
  <2>3. me.pc = "warm_count" /\ Knows(p, me, "warm_scan")
    BY <1>0, <1>8 DEF Knows, CountForWarmTarget, At, me
  <2>4. CASE Verdict(n, MaxRunners[q], FALSE) # "blocked" /\ Continue(p, me, "launch")
    <3>1. Knows(p, me, "launch")
      BY <1>0, <2>3 DEF Knows
    <3>2. Active(q) \subseteq RowIds
      BY DEF Active
    <3>3. n \in Nat
      BY <3>2, RowSets
    <3>4. q \in Policies => MaxRunners[q] \in Nat
      BY ConstantAssumption
    <3>5. ~(n >= MaxRunners[q])
      BY <2>4 DEF Verdict
    <3>6. q \in Policies => n < MaxRunners[q]
      <4> HIDE DEF n, q
      <4> QED
        BY <3>3, <3>4, <3>5
    <3>7. \A t \in Policies : Granted(me, "launch", t) => Cardinality(Active(t)) < MaxRunners[t]
      BY <3>6 DEF Granted
    <3> QED
      BY <1>0, <2>1, <2>4, <3>1, <3>7, MoveInv
  <2> QED
    BY <1>0, <2>1, <2>2, <2>3, <2>4, NextTargetSafe
<1> QED
  BY <1>3, <1>4, <1>5, <1>6, <1>7, <1>8 DEF WarmPool

\* The invariant holds in the initial states.
LEMMA InitSafe == Init => SInv
<1> SUFFICES ASSUME Init PROVE SInv
  OBVIOUS
<1>1. ASSUME NEW r \in RowIds PROVE RowOK(r)
  <2>1. runners[r].status = "absent" /\ ~runners[r].terminated
    BY DEF Init, NoRunner
  <2>2. r \in 1..MaxInstances /\ MaxInstances \in Nat
    BY ConstantAssumption DEF RowIds
  <2>3. lastRow = 0
    BY DEF Init
  <2>4. ~(r <= lastRow)
    BY <2>2, <2>3
  <2> QED
    BY <2>1, <2>4 DEF RowOK, Present
<1>2. \A i \in InstanceIds : MachineOK(i)
  BY DEF Init, MachineOK, NoInstance
<1>3. ASSUME NEW p \in Procs PROVE Knows(p, proc[p], proc[p].pc) /\ HoldsMachine(p)
  <2>1. proc[p] = Idle /\ Idle.pc = "idle"
    BY DEF Init, Idle
  <2> QED
    BY <2>1, NothingRead DEF Knows, HoldsMachine, At
<1>4. WarmUnique
  BY DEF Init, WarmUnique, ActiveWarm, Open, NoRunner
<1>5. ASSUME NEW q \in Policies
      PROVE  Cardinality(Active(q)) + Cardinality({p \in Procs : InFlight(p, q)})
               <= MaxRunners[q] + Cardinality(Launchers(q)) - 1
  <2>1. Active(q) = {}
    BY DEF Init, Active, Open, NoRunner
  <2>2. {p \in Procs : InFlight(p, q)} = {}
    BY DEF Init, InFlight, At, Idle
  <2>3. Cardinality(Active(q)) = 0 /\ Cardinality({p \in Procs : InFlight(p, q)}) = 0
    BY <2>1, <2>2, FS_EmptySet
  <2>4. MaxRunners[q] \in Nat
    BY ConstantAssumption
  <2>5. Cardinality(Launchers(q)) \in Nat /\ Cardinality(Launchers(q)) > 0
    BY LauncherSets
  <2> QED
    BY <2>3, <2>4, <2>5
<1> QED
  BY <1>1, <1>2, <1>3, <1>4, <1>5 DEF SInv, OvershootBounded

\* Every step keeps the invariant and the closed rows closed.
LEMMA NextSafe ==
  ASSUME IInv, IInv', SInv, [Next]_vars
  PROVE  SInv' /\ ClosedKept
<1>1. ASSUME UNCHANGED vars PROVE SInv' /\ ClosedKept
  BY <1>1, RowsUnchanged, MachinesUnchanged, NoMoveInv DEF vars
<1>2. ASSUME NEW p \in Procs, Abort(p) PROVE SInv' /\ ClosedKept
  BY <1>2, RowsUnchanged, MachinesUnchanged, HaltInv DEF Abort, UnchangedStore, UnchangedWorld
<1> QED
  BY <1>1, <1>2, WorldSafe, WebhookSafe, LaunchSafe, CleanupSafe, AdminSafe, WarmPoolSafe DEF Next

-----------------------------------------------------------------------------
(* Theorems                                                                 *)

\* Rows, machines, warm targets and capacity are in order in every reachable state.
THEOREM Safety == Spec => []SInv
<1>1. SInv /\ IInv /\ IInv' /\ [Next]_vars => SInv'
  BY NextSafe
<1> QED
  BY <1>1, InitSafe, Invariance, PTL DEF Spec

\* No write of a webhook, a cleanup pass, an operator or the warm pool, however old
\* what it read, ever reopens a closed row.
THEOREM ClosedForGood == Spec => ClosedStaysClosed
<1>1. IInv /\ IInv' /\ SInv /\ [Next]_vars
        => [\A r \in RowIds : runners[r].terminated => runners'[r].terminated]_vars
  BY NextSafe DEF ClosedKept
<1> QED
  BY <1>1, Invariance, Safety, PTL DEF Spec, ClosedStaysClosed

\* Nothing runs on the machine of a closed row, whoever else is cleaning up.
THEOREM ClosedOnlyWhenDown == Spec => []ClosedMachineIsDown
<1>1. SInv => ClosedMachineIsDown
  BY DEF SInv, RowOK, Down, ClosedMachineIsDown
<1> QED
  BY <1>1, Safety, PTL

\* For any number of handlers a policy's limit is passed by fewer runners than there
\* are goroutines that can launch for it.
THEOREM CapacityBound == Spec => []OvershootBounded
<1>1. SInv => OvershootBounded
  BY DEF SInv
<1> QED
  BY <1>1, Safety, PTL

\* A warm target has at most one warm runner, and none while one is being launched.
THEOREM WarmTargets == Spec => []OneWarmRunnerPerTarget
<1>1. ASSUME SInv PROVE OneWarmRunnerPerTarget
  <2> SUFFICES ASSUME NEW q \in Policies
               PROVE  Cardinality(ActiveWarm(q)) <= IF InFlight(WarmLoop, q) THEN 0 ELSE 1
    BY DEF OneWarmRunnerPerTarget, ActiveWarm
  <2>1. WarmLoop \in Procs /\ WarmLoop \notin Handlers
    BY ConstantAssumption DEF Procs
  <2>2. InFlight(WarmLoop, q) => ActiveWarm(q) = {}
    BY <1>1, <2>1 DEF SInv, Knows, InFlight, At
  <2>3. ActiveWarm(q) = {} \/ \E r : ActiveWarm(q) = {r}
    BY <1>1 DEF SInv, WarmUnique
  <2>4. CASE ActiveWarm(q) = {}
    <3>1. Cardinality(ActiveWarm(q)) = 0
      BY <2>4, FS_EmptySet
    <3> QED
      BY <3>1
  <2>5. CASE \E r : ActiveWarm(q) = {r}
    <3>1. Cardinality(ActiveWarm(q)) = 1
      BY <2>5, FS_Singleton
    <3>2. ~InFlight(WarmLoop, q)
      BY <2>2, <2>5
    <3> QED
      BY <3>1, <3>2
  <2> QED
    BY <2>3, <2>4, <2>5
<1> QED
  BY <1>1, Safety, PTL
=============================================================================
