------------------------- MODULE GateSchedulerProofs -------------------------
(***************************************************************************)
(* Theorems about GateScheduler for every plan, every declaration order,   *)
(* every concurrency and both values of failFast.                          *)
(*                                                                         *)
(* The invariants are layered: TypeOK, then Bookkeeping (what `pending`,   *)
(* `running`, `stage` and `done` say of the same gate), then Locks (the    *)
(* mutable `writer` and `held` summarise `running`), then the properties.  *)
(***************************************************************************)
EXTENDS GateScheduler, FiniteSetTheorems, TLAPS

(* The parts of SchedulerAssumption the proofs cite.                       *)
LEMMA PlanTypes ==
  /\ Len(Order) \in Nat
  /\ \A i \in 1..Len(Order) : Order[i] \in Gate
  /\ \A g \in Gate : Deps[g] \subseteq Gate /\ Uses[g] \subseteq Resource
  /\ FailFast \in BOOLEAN
BY SchedulerAssumption DEF SchedulerAssumption

(* Each step of schedule() keeps its variables in their domains.           *)
LEMMA TypeStep == TypeOK /\ [Next]_vars => TypeOK'
<1> SUFFICES ASSUME TypeOK, [Next]_vars PROVE TypeOK'
  OBVIOUS
<1> USE PlanTypes DEF TypeOK, Status
<1>1. ASSUME NEW g \in Gate, Block(g) PROVE TypeOK'
  BY <1>1 DEF Block, Scanning
<1>2. ASSUME NEW g \in Gate, BlockThrows(g) PROVE TypeOK'
  BY <1>2 DEF BlockThrows
<1>3. ASSUME NEW g \in Gate, Launch(g) PROVE TypeOK'
  BY <1>3 DEF Launch, Scanning
<1>4. ASSUME NEW g \in Gate, Skip(g) PROVE TypeOK'
  BY <1>4 DEF Skip, Scanning
<1>5. CASE EndScan
  BY <1>5 DEF EndScan
<1>6. ASSUME NEW g \in Gate, Reject(g) PROVE TypeOK'
  BY <1>6 DEF Reject
<1>7. ASSUME NEW g \in Gate, NEW r \in {"passed", "failed"}, Resolve(g, r)
      PROVE TypeOK'
  BY <1>7 DEF Resolve
<1>8. ASSUME NEW g \in Gate, Finalize(g) PROVE TypeOK'
  BY <1>8 DEF Finalize
<1>9. CASE CallerAborts
  BY <1>9 DEF CallerAborts
<1>10. CASE Wake
  BY <1>10 DEF Wake
<1>11. CASE Drained
  BY <1>11 DEF Drained
<1>12. CASE UNCHANGED vars
  BY <1>12 DEF vars
<1> QED
  BY <1>1, <1>2, <1>3, <1>4, <1>5, <1>6, <1>7, <1>8, <1>9, <1>10, <1>11, <1>12
  DEF Next, Scan, Settle, Terminated

(* The type invariant of schedule()'s local variables.                     *)
THEOREM TypeCorrect == Spec => []TypeOK
<1>1. Init => TypeOK
  <2> SUFFICES ASSUME Init PROVE TypeOK
    OBVIOUS
  <2>1. pos \in 1..(Len(Order) + 1)
    BY PlanTypes DEF Init
  <2>2. held \subseteq Resource /\ writer \in BOOLEAN /\ aborted \in BOOLEAN
    BY Zenon DEF Init
  <2>3. /\ pending \subseteq Gate /\ running \subseteq Gate /\ raced \subseteq Gate
        /\ stage \in [Gate -> {"none", "started", "resolved", "rejected", "over"}]
        /\ done \in [Gate -> Status]
    BY DEF Init, Status
  <2>4. /\ phase \in {"scan", "await", "drain", "returned", "thrown"}
        /\ error \in {"none", "fatal", "stall", "blocked"}
    BY DEF Init
  <2> QED
    BY <2>1, <2>2, <2>3, <2>4 DEF TypeOK
<1> QED
  BY <1>1, TypeStep, PTL DEF Spec
-----------------------------------------------------------------------------
(* What `pending`, `running`, `stage` and `done` say of one gate: it is    *)
(* pending, blocked, or launched, and `running` is exactly the promises    *)
(* that have not gone through `finally`.                                   *)
GateBook(g) ==
  /\ g \in running <=> stage[g] \in {"started", "resolved", "rejected"}
  /\ g \in pending => stage[g] = "none" /\ done[g] = "none"
  /\ stage[g] = "none" => done[g] \in {"none", "blocked"}
  /\ g \notin pending /\ stage[g] = "none" => done[g] = "blocked"
  /\ stage[g] \in {"started", "rejected"} => done[g] = "none"
  /\ stage[g] = "resolved" => done[g] \in {"passed", "failed"}
  /\ stage[g] = "over" => done[g] \in {"none", "passed", "failed"}
  /\ stage[g] \in {"rejected", "over"} /\ done[g] = "none" =>
       aborted /\ error # "none"

PhaseBook ==
  /\ Finished => running = {}
  /\ phase = "returned" => pending = {} /\ error = "none"
  /\ error \in {"stall", "blocked"} => phase \in {"drain", "thrown"}

Bookkeeping == PhaseBook /\ \A g \in Gate : GateBook(g)

(* schedule() starts with its maps in agreement.                           *)
LEMMA BookkeepingInit == Init => Bookkeeping
BY DEF Init, Bookkeeping, PhaseBook, GateBook, Finished

(* Where the coroutine is agrees with its maps after every step.           *)
LEMMA PhaseBookStep == TypeOK /\ Bookkeeping /\ [Next]_vars => PhaseBook'
  <1> SUFFICES ASSUME TypeOK, Bookkeeping, [Next]_vars PROVE PhaseBook'
    OBVIOUS
  <1> USE DEF TypeOK, Bookkeeping, PhaseBook, Finished
  <1>1. ASSUME NEW g \in Gate, Block(g) PROVE PhaseBook'
    BY <1>1 DEF Block, Scanning, Blockable, Failed
  <1>2. ASSUME NEW g \in Gate, BlockThrows(g) PROVE PhaseBook'
    BY <1>2 DEF BlockThrows, Scanning
  <1>3. ASSUME NEW g \in Gate, Launch(g) PROVE PhaseBook'
    BY <1>3 DEF Launch, Scanning, Blockable, Admissible, Failed, success
  <1>4. ASSUME NEW g \in Gate, Skip(g) PROVE PhaseBook'
    BY <1>4 DEF Skip
  <1>5. CASE EndScan
    BY <1>5 DEF EndScan
  <1>6. ASSUME NEW g \in Gate, Reject(g) PROVE PhaseBook'
    BY <1>6 DEF Reject, Suspended
  <1>7. ASSUME NEW g \in Gate, NEW r \in {"passed", "failed"}, Resolve(g, r) PROVE PhaseBook'
    BY <1>7 DEF Resolve, Suspended, Failed, success
  <1>8. ASSUME NEW g \in Gate, Finalize(g) PROVE PhaseBook'
    BY <1>8 DEF Finalize, Suspended
  <1>9. CASE CallerAborts
    BY <1>9 DEF CallerAborts, Suspended
  <1>10. CASE Wake
    BY <1>10 DEF Wake
  <1>11. CASE Drained
    BY <1>11 DEF Drained
  <1>12. CASE UNCHANGED vars
    BY <1>12 DEF vars
  <1> QED
    BY <1>1, <1>2, <1>3, <1>4, <1>5, <1>6, <1>7, <1>8, <1>9, <1>10, <1>11, <1>12
    DEF Next, Scan, Settle, Terminated

(* pending, running, done and the promise of a gate agree after any step.  *)
LEMMA GateBookStep ==
  TypeOK /\ Bookkeeping /\ [Next]_vars => \A g \in Gate : GateBook(g)'
  <1> SUFFICES ASSUME TypeOK, Bookkeeping, [Next]_vars, NEW h \in Gate
               PROVE GateBook(h)'
    OBVIOUS
  <1> USE DEF TypeOK, Bookkeeping, GateBook
  <1>1. ASSUME NEW g \in Gate, Block(g) PROVE GateBook(h)'
    BY <1>1 DEF Block, Scanning, Blockable, Failed
  <1>2. ASSUME NEW g \in Gate, BlockThrows(g) PROVE GateBook(h)'
    BY <1>2 DEF BlockThrows, Scanning
  <1>3. ASSUME NEW g \in Gate, Launch(g) PROVE GateBook(h)'
    BY <1>3 DEF Launch, Scanning, Blockable, Admissible, Failed, success
  <1>4. ASSUME NEW g \in Gate, Skip(g) PROVE GateBook(h)'
    BY <1>4 DEF Skip
  <1>5. CASE EndScan
    BY <1>5 DEF EndScan
  <1>6. ASSUME NEW g \in Gate, Reject(g) PROVE GateBook(h)'
    BY <1>6 DEF Reject, Suspended
  <1>7. ASSUME NEW g \in Gate, NEW r \in {"passed", "failed"}, Resolve(g, r) PROVE GateBook(h)'
    BY <1>7 DEF Resolve, Suspended, Failed, success
  <1>8. ASSUME NEW g \in Gate, Finalize(g) PROVE GateBook(h)'
    BY <1>8 DEF Finalize, Suspended
  <1>9. CASE CallerAborts
    BY <1>9 DEF CallerAborts, Suspended
  <1>10. CASE Wake
    BY <1>10 DEF Wake
  <1>11. CASE Drained
    BY <1>11 DEF Drained
  <1>12. CASE UNCHANGED vars
    BY <1>12 DEF vars
  <1> QED
    BY <1>1, <1>2, <1>3, <1>4, <1>5, <1>6, <1>7, <1>8, <1>9, <1>10, <1>11, <1>12
    DEF Next, Scan, Settle, Terminated

(* The maps of schedule() never disagree on where a gate is.               *)
THEOREM BookkeepingCorrect == Spec => []Bookkeeping
<1>1. TypeOK /\ Bookkeeping /\ [Next]_vars => Bookkeeping'
  BY PhaseBookStep, GateBookStep DEF Bookkeeping
<1> QED
  BY <1>1, BookkeepingInit, TypeCorrect, PTL DEF Spec
-----------------------------------------------------------------------------
(* `writer` and `held` summarise `running`, whose members are pairwise     *)
(* compatible and no more than Concurrency.                                *)
HeldIsUsed == held = UNION {Uses[g] : g \in running}

WriterIsRunning == writer <=> \E g \in running : g \notin ReadOnly

RunningCompatible ==
  \A g, h \in running : g # h =>
    g \in ReadOnly /\ h \in ReadOnly /\ Uses[g] \cap Uses[h] = {}

Locks ==
  /\ HeldIsUsed /\ WriterIsRunning /\ RunningCompatible
  /\ Cardinality(running) <= Concurrency

(* `running` is a finite set, so that its size is a number.                *)
LEMMA RunningFinite ==
  ASSUME TypeOK
  PROVE  IsFiniteSet(running) /\ Cardinality(running) \in Nat
<1>1. IsFiniteSet(running)
  BY SchedulerAssumption, FS_Subset DEF SchedulerAssumption, TypeOK
<1> QED
  BY <1>1, FS_CardinalityType

(* Nothing is held when schedule() starts.                                 *)
LEMMA LocksInit == Init => Locks
<1> SUFFICES ASSUME Init PROVE Locks
  OBVIOUS
<1>1. HeldIsUsed /\ WriterIsRunning /\ RunningCompatible
  BY DEF Init, HeldIsUsed, WriterIsRunning, RunningCompatible
<1>2. Cardinality(running) = 0
  BY FS_EmptySet DEF Init
<1> QED
  BY <1>1, <1>2, SchedulerAssumption DEF Locks, SchedulerAssumption

(* Launch adds a gate that is compatible with all that run.                *)
LEMMA LaunchLocks ==
  ASSUME TypeOK, Bookkeeping, Locks, NEW g \in Gate, Launch(g)
  PROVE  Locks'
<1> USE DEF Launch, Admissible
<1>0. g \notin running
  BY DEF Bookkeeping, GateBook
<1>1. HeldIsUsed'
  BY DEF Locks, HeldIsUsed
<1>2. WriterIsRunning'
  BY DEF Locks, WriterIsRunning
<1>3. RunningCompatible'
  <2> SUFFICES ASSUME NEW x \in running', NEW y \in running', x # y
               PROVE  x \in ReadOnly /\ y \in ReadOnly /\ Uses[x] \cap Uses[y] = {}
    BY DEF RunningCompatible
  <2>1. CASE x # g /\ y # g
    BY <2>1 DEF Locks, RunningCompatible
  <2>2. CASE x = g \/ y = g
    <3>1. PICK z \in running : {x, y} = {g, z}
      BY <2>2
    <3>2. g \in ReadOnly /\ z \in ReadOnly
      BY DEF Locks, WriterIsRunning
    <3>3. Uses[g] \cap Uses[z] = {}
      BY DEF Locks, HeldIsUsed
    <3> QED
      BY <3>1, <3>2, <3>3, <2>2
  <2> QED
    BY <2>1, <2>2
<1>4. (Cardinality(running) <= Concurrency)'
  <2>1. Cardinality(running \cup {g}) = Cardinality(running) + 1
    BY <1>0, RunningFinite, FS_AddElement
  <2> QED
    BY <2>1, RunningFinite, SchedulerAssumption DEF SchedulerAssumption
<1> QED
  BY <1>1, <1>2, <1>3, <1>4 DEF Locks

(* The finally callback of one gate leaves the others' resources held.     *)
LEMMA FinalizeLocks ==
  ASSUME TypeOK, Bookkeeping, Locks, NEW g \in Gate, Finalize(g)
  PROVE  Locks'
<1> USE DEF Finalize
<1>0. g \in running
  BY DEF Bookkeeping, GateBook
<1>1. HeldIsUsed'
  BY <1>0 DEF Locks, HeldIsUsed, RunningCompatible
<1>2. WriterIsRunning'
  BY <1>0 DEF Locks, WriterIsRunning, RunningCompatible
<1>3. RunningCompatible'
  BY DEF Locks, RunningCompatible
<1>4. (Cardinality(running) <= Concurrency)'
  <2>1. Cardinality(running \ {g}) = Cardinality(running) - 1
    BY <1>0, RunningFinite, FS_RemoveElement
  <2> QED
    BY <2>1, RunningFinite, SchedulerAssumption DEF Locks, SchedulerAssumption
<1> QED
  BY <1>1, <1>2, <1>3, <1>4 DEF Locks

(* Only Launch and Finalize touch the three variables.                     *)
LEMMA OtherStepsKeepLocks ==
  [Next]_vars =>
    \/ \E g \in Gate : Launch(g) \/ Finalize(g)
    \/ UNCHANGED <<running, held, writer>>
BY DEF Next, vars, Scan, Settle, Terminated, Block, BlockThrows, Skip, EndScan,
       Reject, Resolve, CallerAborts, Wake, Drained

(* held, writer and running describe compatible gates at all times.        *)
THEOREM LocksCorrect == Spec => []Locks
<1>1. TypeOK /\ Bookkeeping /\ Locks /\ [Next]_vars => Locks'
  <2> SUFFICES ASSUME TypeOK, Bookkeeping, Locks, [Next]_vars PROVE Locks'
    OBVIOUS
  <2>1. CASE \E g \in Gate : Launch(g) \/ Finalize(g)
    BY <2>1, LaunchLocks, FinalizeLocks
  <2>2. CASE UNCHANGED <<running, held, writer>>
    BY <2>2 DEF Locks, HeldIsUsed, WriterIsRunning, RunningCompatible
  <2> QED
    BY <2>1, <2>2, OtherStepsKeepLocks
<1> QED
  BY <1>1, LocksInit, TypeCorrect, BookkeepingCorrect, PTL DEF Spec

(* A started command has its promise in `running`.                         *)
LEMMA ExecutingIsRunning ==
  ASSUME TypeOK, Bookkeeping
  PROVE  Executing \subseteq running
BY DEF Bookkeeping, GateBook, Executing

(* A gate that may write the shared workspace runs alone, for every plan.  *)
THEOREM WorkspaceExclusionCorrect == Spec => []WorkspaceExclusion
<1>1. TypeOK /\ Bookkeeping /\ Locks => WorkspaceExclusion
  BY ExecutingIsRunning DEF Locks, RunningCompatible, WorkspaceExclusion
<1> QED
  BY <1>1, TypeCorrect, BookkeepingCorrect, LocksCorrect, PTL

(* No resource is used by two running commands, for every plan.            *)
THEOREM ResourceExclusionCorrect == Spec => []ResourceExclusion
<1>1. TypeOK /\ Bookkeeping /\ Locks => ResourceExclusion
  BY ExecutingIsRunning DEF Locks, RunningCompatible, ResourceExclusion
<1> QED
  BY <1>1, TypeCorrect, BookkeepingCorrect, LocksCorrect, PTL

(* Commands that run together may share what they use, for every plan.     *)
THEOREM CompatibleGatesCorrect == Spec => []CompatibleGates
BY WorkspaceExclusionCorrect, ResourceExclusionCorrect, PTL DEF CompatibleGates

(* At most options.concurrency commands run at once.                       *)
THEOREM ConcurrencyBoundCorrect == Spec => []ConcurrencyBound
<1>1. TypeOK /\ Bookkeeping /\ Locks => ConcurrencyBound
  <2> SUFFICES ASSUME TypeOK, Bookkeeping, Locks PROVE ConcurrencyBound
    OBVIOUS
  <2>1. /\ Cardinality(Executing) <= Cardinality(running)
        /\ Cardinality(Executing) \in Nat
    BY ExecutingIsRunning, RunningFinite, FS_Subset, FS_CardinalityType
  <2> QED
    BY <2>1, RunningFinite, SchedulerAssumption
    DEF Locks, ConcurrencyBound, SchedulerAssumption
<1> QED
  BY <1>1, TypeCorrect, BookkeepingCorrect, LocksCorrect, PTL
-----------------------------------------------------------------------------
(* Only a blocked receipt or a resolved promise writes `done`.             *)
LEMMA DoneSteps ==
  ASSUME TypeOK, Bookkeeping, [Next]_vars, NEW g \in Gate, done'[g] # done[g]
  PROVE  /\ done[g] = "none"
         /\ \/ Block(g)
            \/ \E r \in {"passed", "failed"} : Resolve(g, r)
BY DEF TypeOK, Bookkeeping, GateBook, Next, vars, Scan, Settle, Terminated,
       Block, BlockThrows, Launch, Skip, EndScan, Reject, Resolve, Finalize,
       CallerAborts, Wake, Drained

(* A receipt is never replaced.                                            *)
THEOREM ReceiptsAreFinalCorrect == Spec => ReceiptsAreFinal
<1>1. TypeOK /\ Bookkeeping /\ [Next]_vars =>
        [\A g \in Gate : done[g] # "none" => done'[g] = done[g]]_vars
  BY DoneSteps
<1> QED
  BY <1>1, TypeCorrect, BookkeepingCorrect, PTL DEF Spec, ReceiptsAreFinal

(* Only a launch starts the promise of a gate.                             *)
LEMMA StageSteps ==
  ASSUME TypeOK, [Next]_vars, NEW g \in Gate, stage[g] = "none", stage'[g] # "none"
  PROVE  Launch(g)
BY DEF TypeOK, Next, vars, Scan, Settle, Terminated, Block, BlockThrows, Launch,
       Skip, EndScan, Reject, Resolve, Finalize, CallerAborts, Wake, Drained

(* A gate launched stays launched.                                         *)
LEMMA StageStays ==
  ASSUME TypeOK, [Next]_vars, NEW g \in Gate, stage[g] # "none"
  PROVE  stage'[g] # "none"
BY DEF TypeOK, Next, vars, Scan, Settle, Terminated, Block, BlockThrows, Launch,
       Skip, EndScan, Reject, Resolve, Finalize, CallerAborts, Wake, Drained

(* No command starts before the success of every gate it depends on.       *)
THEOREM DependenciesSucceededCorrect == Spec => []DependenciesSucceeded
<1>1. Init => DependenciesSucceeded
  BY DEF Init, DependenciesSucceeded
<1>2. TypeOK /\ Bookkeeping /\ DependenciesSucceeded /\ [Next]_vars
        => DependenciesSucceeded'
  <2> SUFFICES ASSUME TypeOK, Bookkeeping, DependenciesSucceeded, [Next]_vars,
                      NEW g \in Gate, stage'[g] # "none", NEW d \in Deps[g]
               PROVE  success(done'[d])
    BY DEF DependenciesSucceeded, success
  <2>1. d \in Gate
    BY PlanTypes
  <2>2. success(done[d])
    <3>1. CASE stage[g] # "none"
      BY <3>1 DEF DependenciesSucceeded
    <3>2. CASE stage[g] = "none"
      <4>1. Launch(g)
        BY <3>2, StageSteps
      <4> QED
        BY <4>1, <2>1 DEF Launch, Blockable, Admissible, Failed, TypeOK, Status, success
    <3> QED
      BY <3>1, <3>2
  <2> QED
    BY <2>1, <2>2, DoneSteps DEF success
<1> QED
  BY <1>1, <1>2, TypeCorrect, BookkeepingCorrect, PTL DEF Spec

(* A signal once aborted stays aborted.                                    *)
LEMMA AbortIsFinal == aborted /\ [Next]_vars => aborted'
BY DEF Next, vars, Scan, Settle, Terminated, Block, BlockThrows, Launch, Skip,
       EndScan, Reject, Resolve, Finalize, CallerAborts, Wake, Drained

(* Only a cancellation or a dependency that did not succeed blocks a gate. *)
THEOREM BlockedOnlyDownstreamCorrect == Spec => []BlockedOnlyDownstream
<1>1. Init => BlockedOnlyDownstream
  BY DEF Init, BlockedOnlyDownstream
<1>2. TypeOK /\ Bookkeeping /\ Bookkeeping' /\ BlockedOnlyDownstream /\ [Next]_vars
        => BlockedOnlyDownstream'
  <2> SUFFICES ASSUME TypeOK, Bookkeeping, Bookkeeping', BlockedOnlyDownstream,
                      [Next]_vars, NEW g \in Gate, done'[g] = "blocked"
               PROVE  /\ stage'[g] = "none"
                      /\ aborted' \/ \E d \in Deps[g] : Failed(d)'
    BY DEF BlockedOnlyDownstream
  <2>1. stage'[g] = "none"
    <3>1. /\ stage'[g] \in {"started", "rejected"} => done'[g] = "none"
          /\ stage'[g] = "resolved" => done'[g] \in {"passed", "failed"}
          /\ stage'[g] = "over" => done'[g] \in {"none", "passed", "failed"}
      BY DEF Bookkeeping, GateBook
    <3>2. TypeOK'
      BY TypeStep
    <3> QED
      BY <3>1, <3>2 DEF TypeOK
  <2>2. aborted \/ \E d \in Deps[g] : Failed(d)
    <3>1. CASE done[g] = "blocked"
      BY <3>1 DEF BlockedOnlyDownstream
    <3>2. CASE done[g] # "blocked"
      <4>1. Block(g)
        BY <3>2, DoneSteps DEF Resolve, TypeOK
      <4> QED
        BY <4>1 DEF Block, Blockable
    <3> QED
      BY <3>1, <3>2
  <2>3. CASE aborted
    BY <2>1, <2>3, AbortIsFinal
  <2>4. ASSUME NEW d \in Deps[g], Failed(d) PROVE Failed(d)'
    <3>1. d \in Gate
      BY PlanTypes
    <3> QED
      BY <3>1, <2>4, DoneSteps DEF Failed
  <2> QED
    BY <2>1, <2>2, <2>3, <2>4
<1> QED
  BY <1>1, <1>2, TypeCorrect, BookkeepingCorrect, PTL DEF Spec

(* Whatever ends the call, nothing it launched is still running.           *)
THEOREM DrainedAtEndCorrect == Spec => []DrainedAtEnd
<1>1. TypeOK /\ Bookkeeping /\ Locks => DrainedAtEnd
  <2> SUFFICES ASSUME TypeOK, Bookkeeping, Locks, Finished PROVE
        /\ Executing = {} /\ running = {} /\ held = {} /\ ~writer
        /\ phase = "returned" => \A g \in Gate : done[g] # "none"
    BY DEF DrainedAtEnd
  <2>1. running = {} /\ Executing = {}
    BY ExecutingIsRunning DEF Bookkeeping, PhaseBook
  <2>2. held = {} /\ ~writer
    BY <2>1 DEF Locks, HeldIsUsed, WriterIsRunning
  <2>3. ASSUME phase = "returned", NEW g \in Gate PROVE done[g] # "none"
    BY <2>1, <2>3 DEF Bookkeeping, PhaseBook, GateBook, TypeOK
  <2> QED
    BY <2>1, <2>2, <2>3
<1> QED
  BY <1>1, TypeCorrect, BookkeepingCorrect, LocksCorrect, PTL
-----------------------------------------------------------------------------
(***************************************************************************)
(* `Scheduler cannot make progress`.  A gate left pending at the end of a  *)
(* pass with nothing running was refused only because some dependency had  *)
(* no receipt when the pass reached it.  A gate with no pending dependency *)
(* exists (no cycle), so that dependency must have got its receipt later   *)
(* in the same pass: it was blocked after its dependent was examined.      *)
(* Either premise of NoStall excludes that.                                *)
(***************************************************************************)
AbortOnFailure == FailFast /\ (\E g \in Gate : Failed(g)) => aborted

AbortedScan ==
  phase = "scan" /\ aborted => \A i \in 1..(pos - 1) : Order[i] \notin pending

IdleScan ==
  phase = "scan" /\ running = {} /\ ~aborted =>
    \A i \in 1..(pos - 1) : Order[i] \in pending =>
      \E d \in Deps[Order[i]] : done[d] = "none"

ScanBook == AbortOnFailure /\ AbortedScan /\ IdleScan

(* Under failFast every unsuccessful receipt comes with an abort.          *)
LEMMA AbortOnFailureStep ==
  ASSUME TypeOK, Bookkeeping, AbortOnFailure, [Next]_vars
  PROVE  AbortOnFailure'
<1> SUFFICES ASSUME FailFast, NEW g \in Gate, Failed(g)' PROVE aborted'
  BY DEF AbortOnFailure
<1>1. CASE Failed(g)
  BY <1>1, AbortIsFinal DEF AbortOnFailure
<1>2. CASE ~Failed(g)
  <2>1. done'[g] # done[g]
    BY <1>2 DEF Failed
  <2>2. CASE Block(g)
    <3>1. aborted
      BY <2>2, PlanTypes DEF Block, Blockable, AbortOnFailure
    <3> QED
      BY <3>1, AbortIsFinal
  <2>3. ASSUME NEW r \in {"passed", "failed"}, Resolve(g, r) PROVE aborted'
    BY <2>3 DEF Resolve, success, Failed, TypeOK
  <2> QED
    BY <2>1, <2>2, <2>3, DoneSteps
<1> QED
  BY <1>1, <1>2

(* Steps that leave the position of the scan and what it has seen alone, or *)
(* leave the scan, or restart it.                                           *)
LEMMA ScanMoves ==
  ASSUME TypeOK, [Next]_vars, phase' = "scan"
  PROVE  \/ UNCHANGED vars
         \/ pos' = 1
         \/ \E g \in Gate : Block(g) \/ Launch(g) \/ Skip(g)
BY DEF Next, vars, Scan, Settle, Terminated, Block, BlockThrows, Launch, Skip,
       EndScan, Reject, Resolve, Finalize, CallerAborts, Wake, Drained, Suspended

(* A cancelled pass leaves no gate pending behind it.                      *)
LEMMA AbortedScanStep ==
  ASSUME TypeOK, AbortedScan, [Next]_vars
  PROVE  AbortedScan'
<1> SUFFICES ASSUME phase' = "scan", aborted', NEW i \in 1..(pos' - 1)
             PROVE  Order[i] \notin pending'
  BY DEF AbortedScan
<1>1. CASE UNCHANGED vars
  BY <1>1 DEF vars, AbortedScan
<1>2. CASE pos' = 1
  BY <1>2
<1>3. ASSUME NEW g \in Gate, Block(g) \/ Launch(g) \/ Skip(g)
      PROVE  Order[i] \notin pending'
  <2>1. /\ phase = "scan" /\ aborted /\ pos' = pos + 1 /\ g = Order[pos]
        /\ pending' \subseteq pending /\ g \notin pending'
    BY <1>3 DEF Block, Launch, Skip, Scanning, Blockable
  <2>2. i \in 1..(pos - 1) \/ i = pos
    BY <2>1 DEF TypeOK
  <2> QED
    BY <2>1, <2>2 DEF AbortedScan
<1> QED
  BY <1>1, <1>2, <1>3, ScanMoves

(* With nothing running, a gate the pass left pending waits for a receipt. *)
LEMMA IdleScanStep ==
  ASSUME FailFast \/ DependenciesFirst,
         TypeOK, Bookkeeping, Locks, ScanBook, [Next]_vars
  PROVE  IdleScan'
<1> SUFFICES ASSUME phase' = "scan", running' = {}, ~aborted',
                    NEW i \in 1..(pos' - 1), Order[i] \in pending'
             PROVE  \E d \in Deps[Order[i]] : done'[d] = "none"
  BY DEF IdleScan
<1>1. CASE UNCHANGED vars
  BY <1>1 DEF vars, ScanBook, IdleScan
<1>2. CASE pos' = 1
  BY <1>2
<1>3. ASSUME NEW g \in Gate, Block(g)
      PROVE  \E d \in Deps[Order[i]] : done'[d] = "none"
  <2>1. /\ phase = "scan" /\ ~aborted /\ running = {} /\ g = Order[pos]
        /\ pos \in 1..Len(Order) /\ pos' = pos + 1
        /\ pending' = pending \ {g}
    BY <1>3 DEF Block, Scanning, TypeOK
  <2>2. ~FailFast
    BY <1>3, <2>1, PlanTypes DEF Block, Blockable, ScanBook, AbortOnFailure
  <2>3. i \in 1..(pos - 1)
    BY <2>1 DEF TypeOK
  <2>4. PICK d \in Deps[Order[i]] : done[d] = "none"
    BY <2>1, <2>3 DEF ScanBook, IdleScan
  <2>5. d # g
    BY <2>1, <2>2, <2>3 DEF DependenciesFirst
  <2> QED
    BY <1>3, <2>4, <2>5 DEF Block, TypeOK
<1>4. ASSUME NEW g \in Gate, Launch(g)
      PROVE  \E d \in Deps[Order[i]] : done'[d] = "none"
  BY <1>4 DEF Launch
<1>5. ASSUME NEW g \in Gate, Skip(g)
      PROVE  \E d \in Deps[Order[i]] : done'[d] = "none"
  <2>1. /\ phase = "scan" /\ ~aborted /\ running = {} /\ g = Order[pos]
        /\ pos' = pos + 1 /\ pending' = pending /\ done' = done
    BY <1>5 DEF Skip, Scanning
  <2>2. CASE i = pos
    <3>1. ~Admissible(g)
      BY <1>5, <2>1, <2>2 DEF Skip
    <3>2. ~writer /\ held = {}
      BY <2>1 DEF Locks, WriterIsRunning, HeldIsUsed
    <3>3. Cardinality(running) < Concurrency
      BY <2>1, FS_EmptySet, SchedulerAssumption DEF SchedulerAssumption
    <3> QED
      BY <2>1, <2>2, <3>1, <3>2, <3>3 DEF Admissible
  <2>3. CASE i # pos
    <3>1. i \in 1..(pos - 1)
      BY <2>1, <2>3 DEF TypeOK
    <3> QED
      BY <2>1, <3>1 DEF ScanBook, IdleScan
  <2> QED
    BY <2>2, <2>3
<1> QED
  BY <1>1, <1>2, <1>3, <1>4, <1>5, ScanMoves

(* The end of a pass never finds a pending gate and nothing running.       *)
LEMMA EndScanProgress ==
  ASSUME TypeOK, Bookkeeping, ScanBook, phase = "scan", pos > Len(Order),
         running = {}
  PROVE  pending = {}
<1> SUFFICES ASSUME pending # {} PROVE FALSE
  OBVIOUS
<1>1. \A g \in Gate : \E i \in 1..(pos - 1) : g = Order[i]
  <2>1. pos - 1 = Len(Order)
    BY PlanTypes DEF TypeOK
  <2> QED
    BY <2>1, SchedulerAssumption DEF SchedulerAssumption
<1>2. ~aborted
  BY <1>1 DEF TypeOK, ScanBook, AbortedScan
<1>3. PICK g \in pending : Deps[g] \cap pending = {}
  BY SchedulerAssumption DEF SchedulerAssumption, TypeOK
<1>4. g \in Gate
  BY DEF TypeOK
<1>5. PICK d \in Deps[g] : done[d] = "none"
  BY <1>1, <1>2, <1>4 DEF ScanBook, IdleScan
<1>6. d \in Gate /\ d \notin pending
  BY <1>3, <1>4, <1>5, PlanTypes
<1>7. stage[d] = "over"
  BY <1>5, <1>6 DEF Bookkeeping, GateBook, TypeOK
<1> QED
  BY <1>2, <1>5, <1>6, <1>7 DEF Bookkeeping, GateBook

(* schedule() throws `Scheduler cannot make progress` for no plan whose    *)
(* gates are declared after their dependencies, and for none under         *)
(* failFast.                                                               *)
THEOREM NoStallCorrect == Spec => []NoStall
<1>1. CASE ~(FailFast \/ DependenciesFirst)
  <2>1. NoStall
    BY <1>1 DEF NoStall
  <2> QED
    BY <2>1, PTL
<1>2. CASE FailFast \/ DependenciesFirst
  <2>1. Init => ScanBook /\ NoStall
    BY DEF Init, ScanBook, AbortOnFailure, AbortedScan, IdleScan, NoStall, Failed
  <2>2. TypeOK /\ Bookkeeping /\ Locks /\ ScanBook /\ NoStall /\ [Next]_vars
          => ScanBook' /\ NoStall'
    <3> SUFFICES ASSUME TypeOK, Bookkeeping, Locks, ScanBook, NoStall, [Next]_vars
                 PROVE  ScanBook' /\ NoStall'
      OBVIOUS
    <3>1. ScanBook'
      BY <1>2, AbortOnFailureStep, AbortedScanStep, IdleScanStep DEF ScanBook
    <3>2. error' # "stall"
      <4>1. error # "stall"
        BY <1>2 DEF NoStall
      <4>2. CASE EndScan
        BY <4>1, <4>2, EndScanProgress DEF EndScan
      <4>3. CASE ~EndScan
        BY <4>1, <4>3 DEF Next, vars, Scan, Settle, Terminated, Block, BlockThrows,
          Launch, Skip, Reject, Resolve, Finalize, CallerAborts, Wake, Drained
      <4> QED
        BY <4>2, <4>3
    <3> QED
      BY <3>1, <3>2 DEF NoStall
  <2> QED
    BY <2>1, <2>2, TypeCorrect, BookkeepingCorrect, LocksCorrect, PTL DEF Spec
<1> QED
  BY <1>1, <1>2
-----------------------------------------------------------------------------
(***************************************************************************)
(* schedule() implements GatePlan.                                         *)
(***************************************************************************)
(* What GatePlan sees of one gate.                                         *)
LEMMA OutcomeOf ==
  /\ DOMAIN Outcome = Gate
  /\ \A g \in Gate :
       /\ done[g] = "blocked" => Outcome[g] = "refused"
       /\ done[g] = "none" /\ stage[g] \in {"rejected", "over"} => Outcome[g] = "error"
       /\ done[g] = "none" /\ stage[g] \notin {"rejected", "over"} => Outcome[g] = "none"
       /\ done[g] \in {"passed", "failed"} => Outcome[g] = done[g]
BY DEF Outcome

(* A launch begins the gate in the plan.                                   *)
LEMMA LaunchBegins ==
  ASSUME TypeOK, Bookkeeping, Locks, DependenciesSucceeded', NEW g \in Gate, Launch(g)
  PROVE  Plan!Begin(g)
<1>1. /\ done[g] = "none" /\ stage[g] = "none" /\ done' = done
      /\ stage' = [stage EXCEPT ![g] = "started"]
  BY DEF Launch, Bookkeeping, GateBook
<1>2. Outcome[g] = "none" /\ g \notin Executing
  BY <1>1 DEF Outcome, Executing
<1>3. \A d \in Deps[g] : Outcome[d] = "passed"
  <2> TAKE d \in Deps[g]
  <2>1. d \in Gate /\ done[d] = "passed"
    BY <1>1, PlanTypes DEF DependenciesSucceeded, success, TypeOK
  <2> QED
    BY <2>1 DEF Outcome
<1>4. \A h \in Executing : Plan!Compatible(g, h)
  <2> TAKE h \in Executing
  <2>1. h \in running
    BY ExecutingIsRunning
  <2> QED
    BY <2>1 DEF Launch, Admissible, Locks, WriterIsRunning, HeldIsUsed, Plan!Compatible
<1>5. Cardinality(Executing) < Concurrency
  <2>1. /\ Cardinality(Executing) <= Cardinality(running)
        /\ Cardinality(Executing) \in Nat
    BY ExecutingIsRunning, RunningFinite, FS_Subset, FS_CardinalityType
  <2>2. Cardinality(running) < Concurrency
    BY DEF Launch, Admissible
  <2> QED
    BY <2>1, <2>2, RunningFinite, SchedulerAssumption DEF SchedulerAssumption
<1>6. Executing' = Executing \cup {g} /\ Outcome' = Outcome /\ aborted' = aborted
  <2>1. Executing' = Executing \cup {g} /\ aborted' = aborted
    BY <1>1 DEF Executing, TypeOK, Launch
  <2>2. Outcome' = Outcome
    BY <1>1 DEF Outcome, TypeOK
  <2> QED
    BY <2>1, <2>2
<1> QED
  <2>1. Plan!Cardinality(Executing) = Cardinality(Executing)
    BY DEF Cardinality, Plan!Cardinality
  <2> QED
    BY <1>2, <1>3, <1>4, <1>5, <1>6, <2>1 DEF Plan!Begin

(* A receipt or an exception ends the gate in the plan.                    *)
LEMMA SettleEnds ==
  ASSUME TypeOK, Bookkeeping, NEW g \in Gate, Settle(g)
  PROVE  Plan!End(g)
<1>1. g \in Executing
  BY DEF Settle, Reject, Resolve, Executing
<1>2. Executing' = Executing \ {g} /\ aborted' \in {aborted, TRUE}
  BY DEF Settle, Reject, Resolve, Executing, TypeOK
<1>3. \E r \in {"passed", "failed", "error"} : Outcome' = [Outcome EXCEPT ![g] = r]
  <2>1. CASE Reject(g)
    <3>1. done[g] = "none" /\ done' = done /\ stage' = [stage EXCEPT ![g] = "rejected"]
      BY <2>1 DEF Reject, Bookkeeping, GateBook
    <3>2. Outcome' = [Outcome EXCEPT ![g] = "error"]
      BY <3>1 DEF Outcome, TypeOK
    <3> QED
      BY <3>2
  <2>2. ASSUME NEW r \in {"passed", "failed"}, Resolve(g, r)
        PROVE  Outcome' = [Outcome EXCEPT ![g] = r]
    <3>1. /\ done' = [done EXCEPT ![g] = r]
          /\ stage' = [stage EXCEPT ![g] = "resolved"]
      BY <2>2 DEF Resolve
    <3> QED
      BY <3>1 DEF Outcome, TypeOK
  <2> QED
    BY <2>1, <2>2 DEF Settle
<1> QED
  BY <1>1, <1>2, <1>3 DEF Plan!End

(* A blocked receipt refuses the gate in the plan.                         *)
LEMMA BlockRefuses ==
  ASSUME TypeOK, Bookkeeping, NEW g \in Gate, Block(g)
  PROVE  Plan!Refuse(g)
<1>1. done[g] = "none" /\ stage[g] = "none"
  BY DEF Block, Bookkeeping, GateBook
<1>2. Outcome[g] = "none" /\ g \notin Executing
  BY <1>1 DEF Outcome, Executing
<1>3. aborted \/ \E d \in Deps[g] : Outcome[d] \in {"failed", "refused"}
  BY PlanTypes DEF Block, Blockable, Failed, Outcome
<1>4. Outcome' = [Outcome EXCEPT ![g] = "refused"]
  BY DEF Block, Outcome, TypeOK
<1>5. UNCHANGED <<Executing, aborted>>
  BY DEF Block, Executing
<1> QED
  BY <1>2, <1>3, <1>4, <1>5 DEF Plan!Refuse

(* Every other step is invisible in the plan, or cancels it.               *)
LEMMA OtherStepsAreSilent ==
  ASSUME TypeOK, Bookkeeping, [Next]_vars,
         ~\E g \in Gate : Launch(g) \/ Settle(g) \/ Block(g)
  PROVE  UNCHANGED <<Executing, Outcome>> /\ aborted' \in {aborted, TRUE}
<1>1. ASSUME NEW g \in Gate, Finalize(g)
      PROVE  UNCHANGED <<Executing, Outcome>> /\ aborted' = aborted
  <2>1. /\ stage[g] \in {"resolved", "rejected"} /\ stage' = [stage EXCEPT ![g] = "over"]
        /\ done' = done /\ aborted' = aborted
    BY <1>1 DEF Finalize
  <2>2. stage[g] = "resolved" => done[g] \in {"passed", "failed"}
    BY DEF Bookkeeping, GateBook
  <2>3. Executing' = Executing
    BY <2>1 DEF Executing, TypeOK
  <2>4. Outcome' = Outcome
    BY <2>1, <2>2 DEF Outcome, TypeOK
  <2> QED
    BY <2>1, <2>3, <2>4
<1>2. CASE ~\E g \in Gate : Finalize(g)
  <2>1. UNCHANGED <<stage, done>> /\ aborted' \in {aborted, TRUE}
    BY <1>2 DEF Next, vars, Scan, Settle, Terminated, BlockThrows, Skip, EndScan,
                CallerAborts, Wake, Drained
  <2> QED
    BY <2>1 DEF Executing, Outcome
<1> QED
  BY <1>1, <1>2

(* Every behaviour of schedule() is one that GatePlan allows: the receipts *)
(* it returns are those of a run in which each gate is executed at most    *)
(* once or refused, after its dependencies, and never beside a gate it     *)
(* conflicts with.                                                         *)
THEOREM ImplementsPlanCorrect == Spec => ImplementsPlan
<1>1. Init => Plan!PlanInit
  <2> SUFFICES ASSUME Init PROVE Plan!PlanInit
    OBVIOUS
  <2>1. Executing = {} /\ Outcome = [g \in Gate |-> "none"]
    BY DEF Init, Executing, Outcome
  <2>2. aborted \in BOOLEAN
    BY Zenon DEF Init
  <2> QED
    BY <2>1, <2>2 DEF Plan!PlanInit
<1>2. TypeOK /\ Bookkeeping /\ Locks /\ DependenciesSucceeded' /\ [Next]_vars
        => [Plan!PlanNext]_(Plan!planVars)
  <2> SUFFICES ASSUME TypeOK, Bookkeeping, Locks, DependenciesSucceeded', [Next]_vars
               PROVE  [Plan!PlanNext]_(Plan!planVars)
    OBVIOUS
  <2>1. CASE \E g \in Gate : Launch(g) \/ Settle(g) \/ Block(g)
    <3>1. \E g \in Gate : Plan!Begin(g) \/ Plan!End(g) \/ Plan!Refuse(g)
      BY <2>1, LaunchBegins, SettleEnds, BlockRefuses
    <3> QED
      BY <3>1 DEF Plan!PlanNext
  <2>2. CASE ~\E g \in Gate : Launch(g) \/ Settle(g) \/ Block(g)
    BY <2>2, OtherStepsAreSilent DEF Plan!PlanNext, Plan!Cancel, Plan!planVars
  <2> QED
    BY <2>1, <2>2
<1> QED
  BY <1>1, <1>2, TypeCorrect, BookkeepingCorrect, LocksCorrect,
     DependenciesSucceededCorrect, PTL DEF Spec, ImplementsPlan, Plan!PlanSpec
=============================================================================
