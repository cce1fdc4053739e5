---------------------------- MODULE GateScheduler ----------------------------
(***************************************************************************)
(* schedule() of src/engine/scheduler.ts: runs the gates of one plan in a  *)
(* shared workspace, with dependencies, named resources, a concurrency     *)
(* bound, and one writer or several readers at a time.                     *)
(*                                                                         *)
(* The function is a single JavaScript coroutine.  One pass over `pending` *)
(* is synchronous: no promise callback runs inside it, so the actions of   *)
(* the executions and the abort signal are disabled while phase = "scan".  *)
(* Between two passes the coroutine waits for one of the promises that     *)
(* were running when it called Promise.race (`raced`).                     *)
(***************************************************************************)
EXTENDS Naturals, Sequences, FiniteSets

CONSTANTS
  Gate,         \* the gates of the plan
  Order,        \* the order in which the configuration declares them
  Deps,         \* Deps[g]: dependsOn of gate g
  ReadOnly,     \* the gates declared readOnly
  Resource,     \* resource names
  Uses,         \* Uses[g]: resources of gate g
  Concurrency,  \* options.concurrency
  FailFast      \* options.failFast

(* validateDag (unique ids, known dependencies, no cycle) and the check of  *)
(* the concurrency, which throw before anything else happens.               *)
ASSUME SchedulerAssumption ==
  /\ IsFiniteSet(Gate)
  /\ Order \in Seq(Gate)
  /\ \A g \in Gate : \E i \in 1..Len(Order) : Order[i] = g
  /\ \A i, j \in 1..Len(Order) : Order[i] = Order[j] => i = j
  /\ Deps \in [Gate -> SUBSET Gate]
  /\ \A S \in SUBSET Gate : S # {} => \E g \in S : Deps[g] \cap S = {}
  /\ ReadOnly \subseteq Gate
  /\ Uses \in [Gate -> SUBSET Resource]
  /\ Concurrency \in Nat \ {0}
  /\ FailFast \in BOOLEAN

(* Every gate is declared after the gates it depends on.  The code does not *)
(* require it: validateDag only refuses cycles.                             *)
DependenciesFirst ==
  \A i, j \in 1..Len(Order) : Order[j] \in Deps[Order[i]] => j < i

VARIABLES
  phase,    \* where the coroutine is: scan, await, drain, returned, thrown
  pos,      \* the position of Order the scan has reached
  pending,  \* gates not yet launched nor blocked
  running,  \* keys of the `running` map
  stage,    \* of each launched promise: none, started, resolved, rejected, over
  held,     \* resources held
  writer,   \* a gate that is not read-only holds the workspace
  done,     \* status of the receipt of each gate, "none" without one
  aborted,  \* signal.aborted (the caller's signal or the controller's)
  error,    \* what the call throws: none, fatal, stall, blocked
  raced     \* the promises of the Promise.race in progress

vars == <<phase, pos, pending, running, stage, held, writer, done, aborted,
          error, raced>>

(* The statuses passed, cached and passed_after_retry are one: "passed";    *)
(* failed, timed_out, cancelled and spawn_error are "failed".               *)
success(r) == r = "passed"

Failed(d) == done[d] \in {"failed", "blocked"}

-----------------------------------------------------------------------------
Init ==
  /\ phase = "scan" /\ pos = 1
  /\ pending = Gate
  /\ running = {} /\ held = {} /\ writer = FALSE /\ raced = {}
  /\ stage = [g \in Gate |-> "none"]
  /\ done = [g \in Gate |-> "none"]
  /\ aborted \in BOOLEAN      \* the caller's signal may be aborted already
  /\ error = "none"

(***************************************************************************)
(* One pass over `pending`, gate after gate.                               *)
(***************************************************************************)
Scanning(g) == phase = "scan" /\ pos <= Len(Order) /\ g = Order[pos]

\* mutated forms of Admissible
AdmissibleReaderUnderWriter(g) ==
  /\ Cardinality(running) < Concurrency
  /\ g \in ReadOnly \/ running = {}
  /\ \A d \in Deps[g] : done[d] # "none"
  /\ Uses[g] \cap held = {}

AdmissibleWhenDependencyStarted(g) ==
  /\ Cardinality(running) < Concurrency
  /\ ~writer
  /\ g \in ReadOnly \/ running = {}
  /\ \A d \in Deps[g] : d \notin pending
  /\ Uses[g] \cap held = {}

Blockable(g) == aborted \/ \E d \in Deps[g] : Failed(d)

Admissible(g) ==
  /\ Cardinality(running) < Concurrency
  /\ ~writer
  /\ g \in ReadOnly \/ running = {}
  /\ \A d \in Deps[g] : done[d] # "none"
  /\ Uses[g] \cap held = {}

(* `blocked` writes a receipt; the gate is never launched.                 *)
Block(g) ==
  /\ Scanning(g) /\ g \in pending /\ Blockable(g)
  /\ done' = [done EXCEPT ![g] = "blocked"]
  /\ pending' = pending \ {g}
  /\ pos' = pos + 1
  /\ UNCHANGED <<phase, running, stage, held, writer, aborted, error, raced>>

(* `blocked` throws (its receipt cannot be written): the catch aborts and  *)
(* drains what is running.                                                 *)
BlockThrows(g) ==
  /\ Scanning(g) /\ g \in pending /\ Blockable(g)
  /\ phase' = "drain" /\ error' = "blocked" /\ aborted' = TRUE
  /\ UNCHANGED <<pos, pending, running, stage, held, writer, done, raced>>

Launch(g) ==
  /\ Scanning(g) /\ g \in pending /\ ~Blockable(g) /\ Admissible(g)
  /\ pending' = pending \ {g}
  /\ held' = held \cup Uses[g]
  /\ writer' = (writer \/ g \notin ReadOnly)
  /\ running' = running \cup {g}
  /\ stage' = [stage EXCEPT ![g] = "started"]
  /\ pos' = pos + 1
  /\ UNCHANGED <<phase, done, aborted, error, raced>>

\* mutated form of Skip
SkipPassingOverTheNext(g) ==
  /\ Scanning(g)
  /\ g \in pending => ~Blockable(g) /\ ~Admissible(g)
  /\ pos' = pos + 2
  /\ UNCHANGED <<phase, pending, running, stage, held, writer, done, aborted,
                 error, raced>>

Skip(g) ==
  /\ Scanning(g)
  /\ g \in pending => ~Blockable(g) /\ ~Admissible(g)
  /\ pos' = pos + 1
  /\ UNCHANGED <<phase, pending, running, stage, held, writer, done, aborted,
                 error, raced>>

\* mutated form of EndScan
EndScanOnlyAwaits ==
  /\ phase = "scan" /\ pos > Len(Order)
  /\ phase' = "await" /\ raced' = running /\ error' = error
  /\ UNCHANGED <<pos, pending, running, stage, held, writer, done, aborted>>

(* The end of a pass: wait for a running promise, leave the loop, or, with *)
(* nothing running and something pending, throw `Scheduler cannot make     *)
(* progress`.                                                              *)
EndScan ==
  /\ phase = "scan" /\ pos > Len(Order)
  /\ \/ /\ running # {}
        /\ phase' = "await" /\ raced' = running
        /\ UNCHANGED <<error, aborted>>
     \/ /\ running = {} /\ pending # {}
        /\ phase' = "drain" /\ error' = "stall" /\ aborted' = TRUE
        /\ UNCHANGED raced
     \/ /\ running = {} /\ pending = {}
        /\ phase' = IF error = "none" THEN "returned" ELSE "thrown"
        /\ UNCHANGED <<error, aborted, raced>>
  /\ UNCHANGED <<pos, pending, running, stage, held, writer, done>>

(***************************************************************************)
(* The promise of a launched gate.                                         *)
(***************************************************************************)
Suspended == phase \in {"await", "drain"}

(* `execute` gave a receipt: the receipt is recorded, a failure aborts the *)
(* rest under failFast.  The gate stays in `running` until `finally`.      *)
Resolve(g, r) ==
  /\ Suspended /\ stage[g] = "started"
  /\ stage' = [stage EXCEPT ![g] = "resolved"]
  /\ done' = [done EXCEPT ![g] = r]
  /\ aborted' = (aborted \/ (FailFast /\ ~success(r)))
  /\ UNCHANGED <<phase, pos, pending, running, held, writer, error, raced>>

(* `execute` threw: the first error is kept, everything else is aborted.   *)
(* In the drain phase the error of the catch clause is the one rethrown.   *)
Reject(g) ==
  /\ Suspended /\ stage[g] = "started"
  /\ stage' = [stage EXCEPT ![g] = "rejected"]
  /\ error' = IF error = "none" THEN "fatal" ELSE error
  /\ aborted' = TRUE
  /\ UNCHANGED <<phase, pos, pending, running, held, writer, done, raced>>

\* mutated form of Finalize
FinalizeKeepingWriter(g) ==
  /\ Suspended /\ stage[g] \in {"resolved", "rejected"}
  /\ stage' = [stage EXCEPT ![g] = "over"]
  /\ running' = running \ {g}
  /\ held' = held \ Uses[g]
  /\ UNCHANGED <<phase, pos, pending, writer, done, aborted, error, raced>>

(* The finally callback, some microtasks later.                            *)
Finalize(g) ==
  /\ Suspended /\ stage[g] \in {"resolved", "rejected"}
  /\ stage' = [stage EXCEPT ![g] = "over"]
  /\ running' = running \ {g}
  /\ held' = held \ Uses[g]
  /\ writer' = (writer /\ g \in ReadOnly)
  /\ UNCHANGED <<phase, pos, pending, done, aborted, error, raced>>

(* The caller's signal: SIGINT, or the failure of another group of gates.  *)
CallerAborts ==
  /\ Suspended /\ ~aborted
  /\ aborted' = TRUE
  /\ UNCHANGED <<phase, pos, pending, running, stage, held, writer, done, error, raced>>

(* Promise.race is settled by a promise that has gone through `finally`;   *)
(* the loop condition is then evaluated again.                             *)
Wake ==
  /\ phase = "await" /\ \E g \in raced : g \notin running
  /\ \/ /\ pending # {} \/ running # {}
        /\ phase' = "scan" /\ pos' = 1
     \/ /\ pending = {} /\ running = {}
        /\ phase' = IF error = "none" THEN "returned" ELSE "thrown"
        /\ UNCHANGED pos
  /\ UNCHANGED <<pending, running, stage, held, writer, done, aborted, error, raced>>

\* mutated form of Drained
DrainNothing ==
  /\ phase = "drain"
  /\ phase' = "thrown"
  /\ UNCHANGED <<pos, pending, running, stage, held, writer, done, aborted, error, raced>>

(* Promise.allSettled of the catch clause, then the error is thrown.       *)
Drained ==
  /\ phase = "drain" /\ running = {}
  /\ phase' = "thrown"
  /\ UNCHANGED <<pos, pending, running, stage, held, writer, done, aborted, error, raced>>

Finished == phase \in {"returned", "thrown"}

Terminated == Finished /\ UNCHANGED vars

Scan == EndScan \/ \E g \in Gate : Block(g) \/ BlockThrows(g) \/ Launch(g) \/ Skip(g)

Settle(g) == Reject(g) \/ \E r \in {"passed", "failed"} : Resolve(g, r)

Next ==
  \/ Scan
  \/ \E g \in Gate : Settle(g) \/ Finalize(g)
  \/ CallerAborts \/ Wake \/ Drained
  \/ Terminated

(* The event loop runs every callback that is ready, and the executor      *)
(* settles every gate: each command runs under its timeout.                *)
Fairness ==
  /\ WF_vars(Scan) /\ WF_vars(Wake) /\ WF_vars(Drained)
  /\ \A g \in Gate : WF_vars(Settle(g)) /\ WF_vars(Finalize(g))

Spec == Init /\ [][Next]_vars
FairSpec == Spec /\ Fairness
-----------------------------------------------------------------------------
Status == {"none", "passed", "failed", "blocked"}

(* The values every variable may take (scheduler.ts 18-25).                *)
TypeOK ==
  /\ phase \in {"scan", "await", "drain", "returned", "thrown"}
  /\ pos \in 1..(Len(Order) + 1)
  /\ pending \subseteq Gate /\ running \subseteq Gate /\ raced \subseteq Gate
  /\ stage \in [Gate -> {"none", "started", "resolved", "rejected", "over"}]
  /\ held \subseteq Resource /\ writer \in BOOLEAN /\ aborted \in BOOLEAN
  /\ done \in [Gate -> Status]
  /\ error \in {"none", "fatal", "stall", "blocked"}

(* The gates whose command may be running at this moment.                  *)
Executing == {g \in Gate : stage[g] = "started"}

(* A gate that may write the workspace runs alone.                         *)
WorkspaceExclusion ==
  \A g, h \in Executing :
    g # h => g \in ReadOnly /\ h \in ReadOnly

(* No resource is used by two running commands.                            *)
ResourceExclusion ==
  \A g, h \in Executing : g # h => Uses[g] \cap Uses[h] = {}

(* Commands that run together may share the workspace and the resources    *)
(* (test `a workspace writer excludes readers as well as other writers`),  *)
(* although `writer` and `held` are only updated in callbacks that run     *)
(* after the receipt is recorded.                                          *)
CompatibleGates == WorkspaceExclusion /\ ResourceExclusion

(* Never more than options.concurrency commands at once.                   *)
ConcurrencyBound == Cardinality(Executing) <= Concurrency

(* A command is started only once every gate it depends on has a           *)
(* successful receipt, and so is every gate that ended up running.         *)
DependenciesSucceeded ==
  \A g \in Gate : stage[g] # "none" => \A d \in Deps[g] : success(done[d])

(* `An error never leaves sibling processes running`: whatever ended the   *)
(* call, nothing executes afterwards, no resource is left held, and        *)
(* without an error every gate has its receipt.                            *)
DrainedAtEnd ==
  Finished =>
    /\ Executing = {} /\ running = {} /\ held = {} /\ ~writer
    /\ phase = "returned" => \A g \in Gate : done[g] # "none"

(* A gate is reported blocked only when the run was cancelled or one of    *)
(* its own dependencies did not succeed: with --keep-going a failure takes *)
(* down what depends on it and nothing else.                               *)
BlockedOnlyDownstream ==
  \A g \in Gate : done[g] = "blocked" =>
    /\ stage[g] = "none"
    /\ aborted \/ \E d \in Deps[g] : Failed(d)

(* A receipt, once recorded, is final.                                     *)
ReceiptsAreFinal ==
  [][\A g \in Gate : done[g] # "none" => done'[g] = done[g]]_vars

(* The internal error `Scheduler cannot make progress` is unreachable when *)
(* a failure cancels the run, or when the configuration declares every     *)
(* gate after its dependencies.                                            *)
NoStall == FailFast \/ DependenciesFirst => error # "stall"

(* The same without the premise: what the test `failed dependencies are    *)
(* blocked, not skipped-as-success` and the option --keep-going promise.   *)
NeverStalls == error # "stall"

(* Every call ends: no wake-up is lost between a receipt and the removal   *)
(* of its promise from `running`.                                          *)
EventuallyFinishes == <>Finished

(* The scheduler as an implementation of GatePlan: a gate is active from   *)
(* its launch to the settling of its promise.                              *)
Outcome ==
  [g \in Gate |->
    CASE done[g] = "blocked" -> "refused"
      [] done[g] = "none" /\ stage[g] \in {"rejected", "over"} -> "error"
      [] OTHER -> done[g]]

Plan == INSTANCE GatePlan WITH
  active <- Executing, outcome <- Outcome, cancelled <- aborted

(* Every behaviour of schedule() is one that GatePlan allows.              *)
ImplementsPlan == Plan!PlanSpec
=============================================================================
