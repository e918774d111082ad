--------------------------- MODULE FleetProperties ---------------------------
(***************************************************************************)
(* What the fleet of module Fleet promises, what its documents promise and *)
(* the code does not keep, and the fairness its loops run with.            *)
(***************************************************************************)
EXTENDS Fleet

-----------------------------------------------------------------------------
(* Rows and machines                                                        *)

\* A row that is closed is never opened again. Cleanup passes, webhooks and admin
\* requests keep writing the status of rows that another pass has closed since
\* they read them; terminated_at survives them all (UpdateRunnerStatus).
ClosedStaysClosed ==
  [][\A r \in RowIds : runners[r].terminated => runners'[r].terminated]_vars

\* Nothing runs on the machine of a closed row: cleanup closes a row only on an
\* end it has read from OCI, never on a failed read or a termination in progress.
ClosedMachineIsDown ==
  \A r \in RowIds :
    runners[r].terminated => /\ instances[runners[r].instance].state # "RUNNING"
                             /\ instances[runners[r].instance].agent = "gone"

\* Redeliveries, concurrent webhooks and retries launch at most one machine for a
\* job: the unique delivery id is what the launch rests on.
OneMachinePerJob ==
  \A j \in Jobs : Cardinality({i \in InstanceIds : instances[i].job = j}) <= 1

Tracked(i) == \E r \in RowIds : runners[r].status # "absent" /\ runners[r].instance = i
Held(i)    == \E p \in Procs : At(p, "insert") /\ proc[p].instance = i

\* An instance without a row that no launch in progress will write either: cleanup
\* can never find it.
Orphan(i) == instances[i].state # "none" /\ ~Tracked(i) /\ ~Held(i)

\* Every machine that no row tracks is the work of a fault between LaunchInstance
\* and CreateRunner, and each such fault loses one machine at most.
OrphansComeFromFaults == Cardinality({i \in InstanceIds : Orphan(i)}) <= faults

\* Where machine i stands in the ledger of module MachineLedger.
Book(i) ==
  CASE instances[i].state = "none" -> "unlaunched"
    [] \E r \in RowIds : runners[r].instance = i /\ runners[r].terminated -> "retired"
    [] Tracked(i) /\ (\A r \in RowIds : runners[r].instance = i => ~runners[r].terminated) -> "tracked"
    [] ~Tracked(i) /\ Held(i) -> "held"
    [] Orphan(i) -> "lost"

Working(i) == instances[i].state = "RUNNING" \/ instances[i].agent = "busy"

Ledger == INSTANCE MachineLedger WITH
            Machines  <- InstanceIds,
            MaxLosses <- MaxFaults,
            book      <- [i \in InstanceIds |-> Book(i)],
            working   <- [i \in InstanceIds |-> Working(i)]

\* Through every race and fault the fleet keeps the ledger of its machines.
LedgerSpec == Ledger!Spec

-----------------------------------------------------------------------------
(* Capacity                                                                 *)

Launchers(q) == Handlers \union {p \in {WarmLoop} : q \in WarmPolicies}

\* p has been given room for a runner of q and has not written its row yet.
InFlight(p, q) ==
  /\ proc[p].policy = q
  /\ \/ proc[p].pc \in {"launch", "insert"}
     \/ At(p, "tracked") /\ proc[p].verdict = "launch"

\* Count and insert are not one transaction, so concurrent launches can pass
\* max_runners; but only by one each, for each has counted less than the limit.
OvershootBounded ==
  \A q \in Policies :
    Cardinality(Active(q)) + Cardinality({p \in Procs : InFlight(p, q)})
      <= MaxRunners[q] + Cardinality(Launchers(q)) - 1

\* docs/policies-and-capacity.md:61: max_runners caps the live runners of a policy.
MaxRunnersRespected == \A q \in Policies : Cardinality(Active(q)) <= MaxRunners[q]

-----------------------------------------------------------------------------
(* Warm runners                                                             *)

\* The warm pool keeps at most one warm runner per policy and repository, and
\* launches none while there is one, in any state (FindActiveWarmRunnerByTarget).
OneWarmRunnerPerTarget ==
  \A q \in Policies :
    LET warm == {r \in RowIds : /\ Open(r)
                                /\ runners[r].policy = q
                                /\ runners[r].source = "warm"}
    IN  Cardinality(warm) <= IF InFlight(WarmLoop, q) THEN 0 ELSE 1

\* A warm runner that has been handed out never goes back to the pool, although
\* the warm pool writes states it decided on before a job took the runner.
HandedOutStaysOut ==
  [][\A r \in RowIds : runners[r].warmState \in {"reserved", "consumed"}
                         => runners'[r].warmState \in {"reserved", "consumed"}]_vars

\* docs/policies-and-capacity.md:71: a job that finds no idle warm runner takes the
\* normal launch path, so a reservation is never taken over from another job.
ReservationIsExclusive ==
  [][\A r \in RowIds : runners[r].warmState = "reserved" => runners'[r].job = runners[r].job]_vars

-----------------------------------------------------------------------------
(* Cleanup                                                                  *)

JobIsOver(r) == runners[r].job # NoJob /\ github[runners[r].job].phase = "done"

\* The conclusion on an on-demand row is that of its own job, and cleanup is about
\* to terminate an on-demand runner only if its time is up or its job is over,
\* however long ago the pass listed its candidates.
TerminationJustified ==
  \A r \in RowIds : runners[r].source = "ondemand" =>
    /\ runners[r].status \in Conclusions
         => JobIsOver(r) /\ github[runners[r].job].conclusion = runners[r].status
    /\ (\E p \in Procs : At(p, "get") /\ proc[p].cur.row = r)
         => runners[r].expired \/ JobIsOver(r)

\* docs/policies-and-capacity.md:113: cleanup terminates a runner once its job has
\* ended; it never tears down the machine under a job that is running.
RunningJobKeepsItsMachine ==
  [][\A p \in Handlers \union Sweepers :
       (TerminateRunner(p) /\ ~runners[proc[p].cur.row].expired)
         => instances[runners[proc[p].cur.row].instance].agent # "busy"]_vars

\* README.md:31: cleanup removes the runner and the instance.
ClosedMachineIsRemoved ==
  \A r \in RowIds :
    runners[r].terminated => instances[runners[r].instance].state = "TERMINATED"

-----------------------------------------------------------------------------
(* Progress                                                                 *)

\* The loops run on tickers for as long as the process lives, and a goroutine that
\* is not blocked proceeds. OCI may fail a call any number of times, but not for
\* ever; time passes, and a requested termination completes.
Fairness ==
  /\ WF_vars(Cleanup(CleanupLoop))
  /\ SF_vars(FindInstanceEnded(CleanupLoop))
  /\ SF_vars(TerminateRunner(CleanupLoop))
  /\ \A h \in Handlers : WF_vars((~At(h, "idle") /\ Webhook(h)) \/ Launch(h) \/ Cleanup(h))
  /\ \A r \in RowIds : WF_vars(RunnerExpires(r))
  /\ \A i \in InstanceIds : WF_vars(TerminationCompletes(i))

FairSpec == Spec /\ Fairness

\* Every runner that was ever recorded is closed in the end, whatever webhook was
\* lost, whoever else wrote its status, and wherever a pass was interrupted.
EveryRunnerIsClosed ==
  \A r \in RowIds : runners[r].status # "absent" ~> runners[r].terminated

\* A job shown as provisioning gets a runner or leaves that status, unless a fault
\* has taken the request that was to launch its runner.
ProvisioningIsNotStuck ==
  \A j \in Jobs : jobs[j] = "provisioning" ~>
    jobs[j] # "provisioning" \/ RunnersOf(j) # {} \/ faults > 0
=============================================================================
