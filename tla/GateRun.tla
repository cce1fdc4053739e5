------------------------------- MODULE GateRun -------------------------------
(***************************************************************************)
(* Calls of `apv gates run` in several worktrees of one repository, the    *)
(* receipts they write, the shared store they publish them to, and one     *)
(* `apv gates verify` that reads them (runGates, publishRun, pruneStore,   *)
(* readSharedRun, verifyGates).  Inside a call the gates run one at a time *)
(* and the first failure stops the others (GateScheduler has the rest).    *)
(* The lease of the queue of the full suites and the locks of the gates    *)
(* are what LeaseLock establishes; a dead holder loses them.               *)
(***************************************************************************)
EXTENDS Integers, FiniteSets, FiniteSetsExt

CONSTANTS
  Runs,                    \* calls of `apv gates run`
  Worktrees,
  Gates, DependsOn,
  FullGates, Affected,     \* gates of stage full, those with an `affected` command
  Retries, Repeats,        \* gates with retryFailed, with changed tests to repeat
  Locked,                  \* gates that name the one lock of the instance
  KeepRuns,                \* retention of the shared store
  Reader,                  \* the worktree `gates verify` is called in
  Restless,                \* worktrees that change while commands run in them
  MaxChanges, MaxCrashes,  \* bounds
  Overlap,                 \* bound: commands proceed while receipts are read
  None

(* The name of a file of a copy, among those of the receipts.              *)
Manifest == "manifest.json"

ASSUME GateRunAssumption ==
  /\ IsFiniteSet(Runs) /\ Manifest \notin Gates
  /\ DependsOn \in [Gates -> SUBSET Gates]
  /\ FullGates \cup Retries \cup Repeats \cup Locked \subseteq Gates
  /\ Affected \subseteq FullGates /\ FullGates # {}
  /\ \A g \in Gates \ FullGates : DependsOn[g] \cap FullGates = {}
  /\ \A g \in Affected : DependsOn[g] \cap FullGates \subseteq Affected
  /\ KeepRuns \in Nat \ {0} /\ MaxChanges \in Nat /\ MaxCrashes \in Nat
  /\ Reader \in Worktrees /\ Restless \subseteq Worktrees
  /\ Overlap \in BOOLEAN /\ None \notin Runs \cup Gates

VARIABLES
  tip,       \* per worktree: its commit
  tree,      \* per worktree: what `git status` prints, Clean when nothing
  changes,   \* edits and commits so far
  pc,        \* per call: idle, queued, running, copying, pruning, removing,
             \* over (ended, refused or dead)
  home, stage,               \* per call: its worktree, --stage
  allowDirty,                \* per call in the queue: --allow-dirty
  sha, seen, \* per call: candidateSha and status, as it read them
  born,      \* per call: the start its run identifier is made of, 0 before
  check,     \* per call: the gate in progress
  receipts,  \* per call: .apv/receipts/<run>/<gate>.json
  queue,     \* the call that holds the queue of the full suites, or None
  lock,      \* the call that holds the lock of the gates, or None
  shared,    \* per call: the files of its copy in the shared store
  doomed,    \* per call: the copies its prune still has to remove
  crashes,
  verify,    \* the reading in progress
  written,   \* history, per call and gate: when its receipt was written
  genuine    \* history: the successes of commands that ran on clean commits

world == <<tip, tree, changes>>
call == <<home, stage, allowDirty, sha>>
store == <<shared, doomed>>
history == <<written, genuine>>
gateRunVars == <<world, pc, call, seen, born, check, receipts, queue, lock, store, crashes,
          verify, history>>

Clean == 0
NoReceipt == [status |-> "none", startedAt |-> 0]
NoCheck == [gate |-> None, phase |-> "none", startedAt |-> 0,
            before |-> <<0, Clean>>, faithful |-> TRUE]
NotReading == [pc |-> "idle", commit |-> 0, local |-> {}, listed |-> {}, left |-> {},
               run |-> None, found |-> {}]

GateRunInit ==
  /\ tip = [w \in Worktrees |-> 1] /\ tree = [w \in Worktrees |-> Clean]
  /\ changes = 0
  /\ pc = [r \in Runs |-> "idle"]
  /\ home = [r \in Runs |-> None] /\ stage = [r \in Runs |-> None]
  /\ allowDirty = [r \in Runs |-> FALSE]
  /\ sha = [r \in Runs |-> 0] /\ seen = [r \in Runs |-> Clean]
  /\ born = [r \in Runs |-> 0]
  /\ check = [r \in Runs |-> NoCheck]
  /\ receipts = [r \in Runs |-> [g \in Gates |-> NoReceipt]]
  /\ queue = None /\ lock = None
  /\ shared = [r \in Runs |-> {}] /\ doomed = [r \in Runs |-> {}]
  /\ crashes = 0
  /\ verify = NotReading
  /\ written = [r \in Runs |-> [g \in Gates |-> 0]] /\ genuine = {}

-----------------------------------------------------------------------------
(* The worktrees.  Their owners leave them alone while the commands of a   *)
(* call run there, but for the Restless; every edit and every commit is    *)
(* new.                                                                    *)

Executing(r) == pc[r] \in {"running", "copying", "pruning", "removing"}

(* A reading looks at the receipts of its own worktree once and then at    *)
(* the shared store only, so without Overlap the steps that touch neither  *)
(* the store nor a reading wait for its end: they commute with its steps.  *)
Calm == Overlap \/ verify.pc = "idle"

MayChange(w) ==
  /\ Calm /\ changes < MaxChanges
  /\ w \in Restless \/ \A r \in Runs : home[r] = w => ~Executing(r)

Edit(w) ==
  /\ MayChange(w)
  /\ changes' = changes + 1 /\ tree' = [tree EXCEPT ![w] = changes']
  /\ UNCHANGED <<tip, pc, call, seen, born, check, receipts, queue, lock, store,
                 crashes, verify, history>>

CommitAll(w) ==
  /\ MayChange(w)
  /\ changes' = changes + 1
  /\ tip' = [tip EXCEPT ![w] = changes' + 1]
  /\ tree' = [tree EXCEPT ![w] = Clean]
  /\ UNCHANGED <<pc, call, seen, born, check, receipts, queue, lock, store,
                 crashes, verify, history>>

Code(r) == <<tip[home[r]], tree[home[r]]>>

-----------------------------------------------------------------------------
(* The start of a call: HEAD, the tree, the queue of the full suites.      *)

Suite(r) == stage[r] = "full"

\* The gates a call runs, and those it runs through their `affected` command.
Selected(r) == IF Suite(r) THEN Gates ELSE (Gates \ FullGates) \cup Affected
Targeted(r, g) == ~Suite(r) /\ g \in FullGates

(* The run identifier is made and its directory created.  A time is its    *)
(* rank among the times it is ever compared to: here, of the identifiers.  *)
(* --allow-dirty is not looked at again.                                   *)
Open(r, w) ==
  /\ pc' = [pc EXCEPT ![r] = "running"]
  /\ allowDirty' = [allowDirty EXCEPT ![r] = FALSE]
  /\ seen' = [seen EXCEPT ![r] = tree[w]]
  /\ born' = [born EXCEPT ![r] = Cardinality({q \in Runs : born[q] # 0}) + 1]

Refuse(r) ==
  /\ pc' = [pc EXCEPT ![r] = "over"]
  /\ UNCHANGED <<allowDirty, seen, born, queue>>

\* mutated form of Take
TakeAnyway(r, w, allow) == Open(r, w) /\ queue' = r

(* The queue of the full suites: entered at once, or waited for.           *)
Take(r, w, allow) ==
  IF queue = None
  THEN Open(r, w) /\ queue' = r
  ELSE /\ pc' = [pc EXCEPT ![r] = "queued"]
       /\ allowDirty' = [allowDirty EXCEPT ![r] = allow]
       /\ seen' = [seen EXCEPT ![r] = tree[w]]
       /\ UNCHANGED <<born, queue>>

Start(r, w, s, allow) ==
  /\ Calm /\ pc[r] = "idle"
  /\ home' = [home EXCEPT ![r] = w]
  /\ stage' = [stage EXCEPT ![r] = s]
  /\ sha' = [sha EXCEPT ![r] = tip[w]]
  /\ \/ s = "task" /\ Open(r, w) /\ UNCHANGED queue
     \/ s = "full" /\ tree[w] # Clean /\ ~allow /\ Refuse(r)
     \/ s = "full" /\ (tree[w] = Clean \/ allow) /\ Take(r, w, allow)
  /\ UNCHANGED <<world, check, receipts, lock, store, crashes, verify, history>>

\* mutated form of ChangedMeanwhile
ChangedMeanwhileByDirt(r) == tree[home[r]] \notin {seen[r], Clean} /\ ~allowDirty[r]

(* After a wait, the same commit and a clean tree, or no run at all.       *)
ChangedMeanwhile(r) ==
  \/ tip[home[r]] # sha[r]
  \/ tree[home[r]] \notin {seen[r], Clean} /\ ~allowDirty[r]

Enter(r) ==
  /\ Calm /\ pc[r] = "queued" /\ queue = None
  /\ \/ ChangedMeanwhile(r) /\ Refuse(r)
     \/ ~ChangedMeanwhile(r) /\ Open(r, home[r]) /\ queue' = r
  /\ UNCHANGED <<world, home, stage, sha, check, receipts, lock, store, crashes, verify,
                 history>>

(* SUITE_QUEUE: the queue was not obtained within its waitMs.              *)
QueueTimeout(r) ==
  /\ Calm /\ pc[r] = "queued" /\ queue # None
  /\ pc' = [pc EXCEPT ![r] = "over"]
  /\ UNCHANGED <<world, call, seen, born, check, receipts, queue, lock, store,
                 crashes, verify, history>>

-----------------------------------------------------------------------------
(* The gates of a call.                                                    *)

\* `passed` stands for the statuses of a success, passed_after_retry included,
\* `failed` for the others: failed, timed_out, cancelled, blocked.
success(receipt) == receipt.status = "passed"
Receipts(r) == {g \in Gates : receipts[r][g] # NoReceipt}
Failed(r) == \E g \in Receipts(r) : ~success(receipts[r][g])

Idle(r) == Calm /\ pc[r] = "running" /\ check[r] = NoCheck
OnCandidate(r) == Code(r) = <<sha[r], Clean>>

KeepTheRest ==
  UNCHANGED <<world, pc, call, seen, born, queue, store, crashes, verify>>

\* A time among those of the starts of a gate, and of its receipts.
StartTime(g) ==
  Max({0} \cup {receipts[r][g].startedAt : r \in Runs}
          \cup {check[r].startedAt : r \in {q \in Runs : check[q].gate = g}}) + 1
Stamp(r, g) ==
  written' = [written EXCEPT ![r][g] = Cardinality({q \in Runs : written[q][g] # 0}) + 1]

Held(r) == lock \notin {None, r}

(* The command is launched, under its lock.  `before` is the code a        *)
(* repetition must find again.                                             *)
Launch(r, g, start) ==
  /\ check' = [check EXCEPT ![r] = [
       gate |-> g, phase |-> "first", startedAt |-> start,
       before |-> IF g \in Repeats THEN Code(r) ELSE NoCheck.before,
       faithful |-> OnCandidate(r)]]
  /\ lock' = IF g \in Locked THEN r ELSE lock

(* startedAt is taken on entry, before the wait for the lock.              *)
Execute(r, g) ==
  /\ Idle(r) /\ g \in Selected(r) \ Receipts(r) /\ ~Failed(r)
  /\ DependsOn[g] \subseteq Receipts(r)
  /\ IF g \in Locked /\ Held(r)
     THEN /\ check' = [check EXCEPT ![r] = [NoCheck EXCEPT
                 !.gate = g, !.phase = "waiting", !.startedAt = StartTime(g)]]
          /\ UNCHANGED lock
     ELSE Launch(r, g, StartTime(g))
  /\ UNCHANGED <<receipts, history>> /\ KeepTheRest

Waiting(r) == Calm /\ pc[r] = "running" /\ check[r].phase = "waiting"

GetLock(r) ==
  /\ Waiting(r) /\ ~Held(r)
  /\ Launch(r, check[r].gate, check[r].startedAt)
  /\ UNCHANGED <<receipts, history>> /\ KeepTheRest

\* mutated form of Write
WriteKeepingTheLock(r, status) ==
  /\ receipts' = [receipts EXCEPT ![r][check[r].gate] =
                   [status |-> status, startedAt |-> check[r].startedAt]]
  /\ check' = [check EXCEPT ![r] = NoCheck]
  /\ Stamp(r, check[r].gate) /\ UNCHANGED <<lock, genuine>>

(* The receipt of the gate in progress; its lock is released.  A receipt   *)
(* also carries `dirty`, `targeted`, the commit and the run of its call.   *)
Write(r, status) ==
  /\ receipts' = [receipts EXCEPT ![r][check[r].gate] =
                   [status |-> status, startedAt |-> check[r].startedAt]]
  /\ Stamp(r, check[r].gate)
  /\ check' = [check EXCEPT ![r] = NoCheck]
  /\ lock' = IF lock = r THEN None ELSE lock
  /\ genuine' = IF status = "passed" /\ check[r].faithful /\ OnCandidate(r)
                   /\ ~Targeted(r, check[r].gate)
                THEN genuine \cup {<<r, check[r].gate>>} ELSE genuine

(* What follows the command and its relaunch: nothing, or the repetition   *)
(* of the changed tests, on the code the command was launched on.          *)
AfterMain(r, outcome) ==
  IF check[r].gate \in Repeats /\ outcome = "passed"
  THEN IF check[r].before = Code(r)
       THEN /\ check' = [check EXCEPT ![r].phase = "repeat",
                           ![r].faithful = @ /\ OnCandidate(r)]
            /\ UNCHANGED <<receipts, lock, history>>
       ELSE Write(r, "failed")
  ELSE Write(r, IF outcome = "passed" THEN "passed" ELSE "failed")

\* mutated form of SameCode
SameCommit(r) == tip[home[r]] = sha[r]

(* A relaunch on another commit or another tree would prove other code.    *)
SameCode(r) == Code(r) = <<sha[r], seen[r]>>

\* A command succeeds, fails, or is stopped by its time limit or a signal, if
\* it could be launched at all.
Outcomes == {"passed", "failed", "stopped"}

EndFirst(r) ==
  /\ Calm /\ pc[r] = "running" /\ check[r].phase = "first"
  /\ \E outcome \in Outcomes :
       IF outcome = "failed" /\ check[r].gate \in Retries
       THEN IF SameCode(r)
            THEN /\ check' = [check EXCEPT ![r].phase = "retry",
                                ![r].faithful = @ /\ OnCandidate(r)]
                 /\ UNCHANGED <<receipts, lock, history>>
            ELSE AfterMain(r, "failed")
       ELSE AfterMain(r, outcome)
  /\ KeepTheRest

EndRetry(r) ==
  /\ Calm /\ pc[r] = "running" /\ check[r].phase = "retry"
  /\ \E outcome \in Outcomes :
       AfterMain(r, outcome)
  /\ KeepTheRest

(* A repetition is never relaunched, and a failure of it is final.         *)
EndRepeat(r) ==
  /\ Calm /\ pc[r] = "running" /\ check[r].phase = "repeat"
  /\ \E outcome \in Outcomes :
       Write(r, IF outcome = "passed" THEN "passed" ELSE "failed")
  /\ KeepTheRest

(* The lock was not obtained within its waitMs.                            *)
LockRefused(r) ==
  /\ Waiting(r) /\ Held(r)
  /\ Write(r, "failed")
  /\ KeepTheRest

Block(r, g) ==
  /\ Idle(r) /\ g \in Selected(r) \ Receipts(r) /\ Failed(r)
  /\ receipts' = [receipts EXCEPT ![r][g] =
                   [status |-> "failed", startedAt |-> StartTime(g)]]
  /\ Stamp(r, g)
  /\ UNCHANGED <<check, lock, genuine>> /\ KeepTheRest

(* The summary is written.                                                 *)
Finish(r) ==
  /\ Idle(r) /\ Receipts(r) = Selected(r)
  /\ pc' = [pc EXCEPT ![r] = "copying"]
  /\ UNCHANGED <<world, call, seen, born, check, receipts, queue, lock, store,
                 crashes, verify, history>>

-----------------------------------------------------------------------------
(* The shared store.  The copy is made in a temporary directory no reader  *)
(* looks at, and renamed; a removal takes the files one after the other.   *)
(* The summary is a file like the receipts and is left out.                *)

Files(r) == Selected(r) \cup {Manifest}

Publish(r) ==
  /\ pc[r] = "copying"
  /\ shared' = [shared EXCEPT ![r] = Files(r)]
  /\ pc' = [pc EXCEPT ![r] = "pruning"]
  /\ UNCHANGED <<world, call, seen, born, check, receipts, queue, lock, doomed,
                 crashes, verify, history>>

Leave(r) ==
  /\ pc' = [pc EXCEPT ![r] = "over"]
  /\ queue' = IF queue = r THEN None ELSE queue

(* A copy that fails is reported; the run and its local receipts stand.    *)
CopyFails(r) ==
  /\ pc[r] = "copying"
  /\ Leave(r)
  /\ UNCHANGED <<world, call, seen, born, check, receipts, lock, store, crashes,
                 verify, history>>

sharedRunIds == {r \in Runs : shared[r] # {}}
Newer(r) == {q \in sharedRunIds : born[q] > born[r]}

\* mutated form of Excess
ExcessByOne == {q \in sharedRunIds : Cardinality(Newer(q)) >= KeepRuns - 1}

(* All but the KeepRuns most recent runs, by identifier.  Their age, which *)
(* keepDays bounds, is left out.                                           *)
Excess == {q \in sharedRunIds : Cardinality(Newer(q)) >= KeepRuns}

PruneStore(r) ==
  /\ pc[r] = "pruning"
  /\ doomed' = [doomed EXCEPT ![r] = Excess]
  /\ pc' = [pc EXCEPT ![r] = "removing"]
  /\ UNCHANGED <<world, call, seen, born, check, receipts, queue, lock, shared,
                 crashes, verify, history>>

Remove(r) ==
  /\ pc[r] = "removing"
  /\ \E q \in doomed[r] : \E f \in shared[q] :
       shared' = [shared EXCEPT ![q] = @ \ {f}]
  /\ UNCHANGED <<world, pc, call, seen, born, check, receipts, queue, lock, doomed,
                 crashes, verify, history>>

EndPrune(r) ==
  /\ pc[r] = "removing" /\ doomed[r] \cap sharedRunIds = {}
  /\ Leave(r)
  /\ doomed' = [doomed EXCEPT ![r] = {}]
  /\ UNCHANGED <<world, call, seen, born, check, receipts, lock, shared, crashes,
                 verify, history>>

Crash(r) ==
  /\ crashes < MaxCrashes
  /\ pc[r] \in {"queued", "running", "copying", "pruning", "removing"}
  /\ crashes' = crashes + 1
  /\ pc' = [pc EXCEPT ![r] = "over"]
  /\ check' = [check EXCEPT ![r] = NoCheck]
  /\ doomed' = [doomed EXCEPT ![r] = {}]
  /\ queue' = IF queue = r THEN None ELSE queue
  /\ lock' = IF lock = r THEN None ELSE lock
  /\ UNCHANGED <<world, call, seen, born, receipts, shared, verify, history>>

-----------------------------------------------------------------------------
(* `apv gates verify --commit`, stage full: the worktree first, then the   *)
(* runs of the shared store the worktree does not have, one by one.        *)

Evidence(rs) == {e \in rs \X Gates : receipts[e[1]][e[2]] # NoReceipt}
Whole(r) == shared[r] = Files(r)
LocalRuns == {r \in Runs : home[r] = Reader /\ born[r] # 0}

KeepAllButVerify ==
  UNCHANGED <<world, pc, call, seen, born, check, receipts, queue, lock, store,
              crashes, history>>

(* readLocal, then the list of the shared runs that are not local.  A copy *)
(* published in between could as well have been published before.          *)
StartReading(c) ==
  /\ verify.pc = "idle"
  /\ verify' = [pc |-> "reading", commit |-> c, local |-> LocalRuns,
                listed |-> sharedRunIds \ LocalRuns, left |-> sharedRunIds \ LocalRuns,
                run |-> None, found |-> Evidence(LocalRuns)]
  /\ KeepAllButVerify

(* The manifest of the next run, in the order of the identifiers: of       *)
(* another commit, or gone (refused as altered), no receipt of it counts.  *)
OpenManifest ==
  /\ verify.pc = "reading" /\ verify.run = None
  /\ \E r \in verify.left :
       /\ \A q \in verify.left : born[r] <= born[q]
       /\ verify' = [verify EXCEPT
         !.left = @ \ {r},
         !.run = IF Manifest \in shared[r] /\ sha[r] = verify.commit THEN r ELSE None]
  /\ KeepAllButVerify

\* mutated form of Intact
IntactWhenNamed(r) == TRUE

(* Exactly the files of the manifest.  They never change once written.     *)
Intact(r) == shared[r] \ {Manifest} = Files(r) \ {Manifest}

ReadFiles ==
  /\ verify.pc = "reading" /\ verify.run # None
  /\ LET r == verify.run IN
     verify' = [verify EXCEPT
       !.run = None,
       !.found = @ \cup IF Intact(r) THEN {e \in Evidence({r}) : e[2] \in shared[r]}
                        ELSE {}]
  /\ KeepAllButVerify

Verdict == verify.pc = "reading" /\ verify.run = None /\ verify.left = {}

Report ==
  /\ Verdict
  /\ verify' = NotReading
  /\ KeepAllButVerify

dirty(r) == seen[r] # Clean

\* The receipts of a gate that count at the commit.  The configuration of the
\* gates is the same throughout.
Counted(g) ==
  {e \in verify.found : /\ e[2] = g /\ sha[e[1]] = verify.commit
                        /\ ~Targeted(e[1], g) /\ ~dirty(e[1])}

receipt(e) == receipts[e[1]][e[2]]

Before(e, f) ==
  \/ receipt(e).startedAt < receipt(f).startedAt
  \/ receipt(e).startedAt = receipt(f).startedAt /\ born[e[1]] < born[f[1]]

latest(S) == CHOOSE e \in S : \A f \in S : f = e \/ Before(f, e)

Proven(g) == Counted(g) # {} /\ success(receipt(latest(Counted(g))))

-----------------------------------------------------------------------------
GateRunNext ==
  \/ \E w \in Worktrees : Edit(w) \/ CommitAll(w)
  \/ \E r \in Runs :
       \/ \E w \in Worktrees :
            Start(r, w, "task", FALSE) \/ Start(r, w, "full", FALSE) \/ Start(r, w, "full", TRUE)
       \/ Enter(r) \/ QueueTimeout(r)
       \/ \E g \in Gates : Execute(r, g) \/ Block(r, g)
       \/ GetLock(r) \/ LockRefused(r)
       \/ EndFirst(r) \/ EndRetry(r) \/ EndRepeat(r)
       \/ Finish(r) \/ Publish(r) \/ CopyFails(r)
       \/ PruneStore(r) \/ Remove(r) \/ EndPrune(r)
       \/ Crash(r)
  \/ \E c \in {sha[r] : r \in Runs} \ {0} : StartReading(c)
  \/ OpenManifest \/ ReadFiles \/ Report

GateRunSpec == GateRunInit /\ [][GateRunNext]_gateRunVars

-----------------------------------------------------------------------------
Stages == {"idle", "queued", "running", "copying", "pruning", "removing", "over"}

Receipt == [status : {"none", "passed", "failed"}, startedAt : Nat]
Check == [gate : Gates \cup {None},
          phase : {"none", "waiting", "first", "retry", "repeat"},
          startedAt : Nat, before : Nat \X Nat, faithful : BOOLEAN]
Reading == [pc : {"idle", "reading"}, commit : Nat, local : SUBSET Runs,
            listed : SUBSET Runs, left : SUBSET Runs, run : Runs \cup {None},
            found : SUBSET (Runs \X Gates)]

(* The values every variable may take.                                     *)
GateRunTypeOK ==
  /\ tip \in [Worktrees -> Nat \ {0}] /\ tree \in [Worktrees -> Nat]
  /\ changes \in 0..MaxChanges /\ crashes \in 0..MaxCrashes
  /\ pc \in [Runs -> Stages]
  /\ home \in [Runs -> Worktrees \cup {None}]
  /\ stage \in [Runs -> {"task", "full", None}] /\ allowDirty \in [Runs -> BOOLEAN]
  /\ sha \in [Runs -> Nat] /\ seen \in [Runs -> Nat] /\ born \in [Runs -> Nat]
  /\ check \in [Runs -> Check] /\ receipts \in [Runs -> [Gates -> Receipt]]
  /\ queue \in Runs \cup {None} /\ lock \in Runs \cup {None}
  /\ shared \in [Runs -> SUBSET (Gates \cup {Manifest})]
  /\ doomed \in [Runs -> SUBSET Runs]
  /\ verify \in Reading
  /\ written \in [Runs -> [Gates -> Nat]] /\ genuine \subseteq Runs \X Gates

(* The lock and the queue belong to a call that is still at work: every    *)
(* way out of a gate and of a call gives them back.                        *)
HeldByTheLiving ==
  /\ queue # None => Suite(queue) /\ Executing(queue)
  /\ lock # None => check[lock].gate \in Locked /\ pc[lock] = "running"

(* A gate that `gates verify` reports as passed really passed: its whole   *)
(* command, with the commit checked out and nothing else in the tree from  *)
(* its launch to its end, in a worktree its owner leaves alone.            *)
ProofIsGenuine ==
  Verdict =>
    \A g \in Gates : Proven(g) =>
      LET e == latest(Counted(g)) IN home[e[1]] \in Restless \/ e \in genuine

(* A failed command is relaunched on the commit and the tree it failed on, *)
(* even in a worktree that changes meanwhile.                              *)
RelaunchOnSameCode ==
  \A r \in Runs : check[r].phase = "retry" /\ ~dirty(r) => check[r].faithful

\* The failures of a gate that could be read when the reading began and still can:
\* written after the success e, at its commit, of the whole gate, on a clean tree.
HiddenFailures(e) ==
  {f \in verify.found \cup Evidence(verify.listed) :
     /\ f[2] = e[2] /\ sha[f[1]] = verify.commit
     /\ ~Targeted(f[1], f[2]) /\ ~dirty(f[1]) /\ ~success(receipt(f))
     /\ written[f[1]][f[2]] > written[e[1]][e[2]]
     /\ f[1] \in verify.local \/ Whole(f[1])}

(* A success of a gate of stage full never hides a failure written after   *)
(* it (verifyGates: "a failure is never hidden by an older success"): the  *)
(* suites run one at a time, so the time a gate started at, which is what  *)
(* is compared, tells which ended last.  Of a gate of stage task, which    *)
(* several calls run at once, it does not.                                 *)
SuiteFailureNotHidden ==
  Verdict =>
    \A g \in FullGates : Proven(g) => HiddenFailures(latest(Counted(g))) = {}

(* Of a run of the shared store all the receipts count, or none, while it  *)
(* is published and removed by others; and a run leaves the store only     *)
(* when KeepRuns more recent ones are there, whole, whatever prunes run at *)
(* the same time or died half way.                                         *)
StoreKeepsWholeRuns ==
  /\ Verdict =>
       \A r \in Runs \ verify.local :
         \/ \A e \in verify.found : e[1] # r
         \/ Evidence({r}) \subseteq verify.found
  /\ \A r \in sharedRunIds : ~Whole(r) =>
       Cardinality({q \in Runs : Whole(q) /\ born[q] > born[r]}) >= KeepRuns
=============================================================================
