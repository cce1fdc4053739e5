# apv: models and proofs

`apv` is a command line tool that several agents, sessions and people run at the
same time on one repository: it runs the gates of a project (tests, linters,
builds), keeps the state of an execution of a spec, takes locks, merges pull
requests in batches, serves previews, judges specifications, reviews and commands.
Each command is a short process; what ties them together is files, leases, and git.
This directory holds TLA+ modules translated from the TypeScript of `src/src/`, TLC
configurations that check them on small instances, and TLAPS proofs of what matters
most about them for every instance.

`PROJECT.json` lists the components, the runs, the mutated forms each property is
tried against, the lines of code each definition models, the findings, the hazards
and the theorems.

To check: `tlc -config MCRecords.cfg MCRecords` for a run, `tlapm
RunStateProofs.tla` for the proofs of a module.

## 1. The system

### 1.1 Components, their state and their operations

| component | code | state | operations |
|---|---|---|---|
| gate scheduler | `engine/scheduler.ts` | in memory: pending, running, held, writer, done, the first error, an abort signal | one pass over the pending gates; the callbacks of their promises; the drain |
| gate configuration | `config/load.ts`, `gates/run.ts`, `gates/spread.ts` | the configuration file, of the copy or at a commit | load, select, plan, deal over stacks |
| gate run | `gates/run.ts`, `commands/gates.ts` | the receipts of one run, the locks it takes | launch, relaunch, repeat changed tests, recheck the tree |
| receipts | `gates/store.ts`, `evidence/key.ts` | a directory per run, published by rename | publish, read, prune |
| gate verification | `gates/verify.ts`, `gates/proof-scope.ts`, `gates/repeat.ts` | none (reads receipts and git) | does a receipt prove this gate here; what a change requires |
| suite queue | `gates/suite.ts`, `execution/procs.ts` | a lease per machine, the load, ports and marks of processes | wait, free the ports, run a suite, stop what it left |
| processes and waits | `execution/process.ts`, `execution/wait.ts` | a process group, timers, a file being read | run, limit, abort, kill; wait for a text |
| lease lock | `lock/store.ts` | one file per resource, a mutex directory, a directory of tickets | acquire, tryAcquire, renew, release, withMutex, list |
| locked command | `lock/run.ts`, `commands/lock.ts` | a child process, a heartbeat timer, a time limit | run, acquire, release, status |
| execution state | `run/state.ts`, `commands/run.ts`, `run/commit-state.ts` | one JSON file per execution: statuses of steps, tasks and reviews, commits, journal, pause | start, set, pause, resume, next, save |
| rhythm of an execution | `run/rhythm.ts` | copies of states in the checkouts | find the state of a branch, refuse or override a suite |
| stack of pull requests | `stack/batch.ts`, `stack/github.ts` | branches and pull requests on GitHub, a report, a journal | prove, bisect, merge a batch; plan and merge a stack |
| preview server | `preview/*.ts` | a record per worktree, a copy, a detached server, a port | update, stop, status |
| idle stacks | `stacks/idle.ts` | a record per stack: last use, series of observations | note a use, observe, stop, start |
| web audit | `web/*.ts`, `commands/web.ts` | a queue, the preview lock, reports and receipts | audit, measure, judge a site |
| decisions and contracts | `lifecycle/*.ts`, `spec/check.ts`, `design/registry.ts` | the ledger of decisions, its text, specifications, mockups | plan, apply, validate, register |
| policy and scopes | `policy/*.ts`, `commands/scope.ts` | none | match and compare globs, check a scope |
| reviews | `review/*.ts`, `workflows/revues.js` | none that outlives the workflow | plan, launch, consolidate |
| database check | `db/*.ts` | the schema read so far | apply a statement, check, check a live database |
| static analyses | `structure/*.ts`, `knowledge/*.ts` | none (reads the tracked files) | propose moves, inventory |
| hooks and workflows | `hooks/scripts/*.mjs`, `workflows/vague.js` | none | judge a command; sort the reports of a wave |
| the rest | `onboard/`, `quota/`, `domain/`, `cli.ts` | none | parse, detect, render, validate |

### 1.2 How they interact

- `gates run` reads the **configuration**, chooses the gates the options and the
  change ask for, takes the lease of the **suite queue** and the locks the gates
  name (**lease lock**), hands the gates to the **scheduler**, and publishes the
  results as **receipts**; **verification** reads them later, and recomputes from git
  what was left out.
- A suite is refused or not by the **rhythm** of the execution whose branch it is on,
  and may contain a **web audit**, which serves the commit with the **preview**.
- Every command that changes an **execution state** takes the lease `run:<id>` of
  the **lease lock**, reads the file, applies a pure function of `run/state.ts`,
  renames a new file over the old one and releases. The delivery then commits the
  file to git without the lease. An execution starts from a **specification** found
  valid against the **ledger**.
- The **stack** commands call the gate run once per lot they try, and GitHub
  through `gh`; nothing stops other people from acting on GitHub meanwhile.
- **Preview** and **idle stacks** act under locks of the lease lock; the end of a
  gate notes a use in the record of a stack.
- The **workflows** launch agents in parallel and consolidate their reports; the
  **hook** judges every shell command of a session before it runs.

### 1.3 What is hard in it

- *Interleavings of callbacks*: the scheduler is one coroutine, but its summary of
  what runs (`writer`, `held`, `running`) is updated by callbacks that run after
  the receipt is recorded. A child process has its exit, its pipes, its time limit
  and an abort, in any order.
- *Interleavings of processes* over files: read, judge, wait for a mutex, act. The
  judgement may be old when it is acted upon. Records of stacks and ledgers are read
  and written back without a lock.
- *Crashes and suspensions* anywhere: half-created lock files, leases that end
  under a process that still believes in them, tickets nobody refreshes, servers
  nobody has in a record.
- *Long protocols*: a task reopened while its dependents run, a commit replaced, a
  skipped dependency, a pause that outlives the work; a check left out of one run
  because an earlier one covered it, over several commits of two branches.
- *The outside world*: a merge whose answer is lost or that is done later, a push
  between a check and the merge it allows, a test suite that is flaky, a process of
  somebody else on a port.
- *Two readings of one thing*: the parser of migrations against PostgreSQL, the rules
  in TypeScript against the same in SQL, the hook against the shell, a glob against
  the paths it matches, a specification against what its tasks may do.

### 1.4 What makes each component correct

| component | correct when |
|---|---|
| gate scheduler | writers run alone and a resource has one user; a gate starts after the success of its dependencies; nothing runs after the call ends; the call ends |
| gate configuration | every accepted configuration and selection gives a plan the scheduler takes; a proof says that what was declared ran |
| gate run, receipts, verification | what is reported as passed was run on that commit, whole, on a clean tree; a reader sees a whole run or none; a newer failure is never hidden; the main branch holds only what every check read and passed |
| suite queue, processes, waits | one suite at a time; only what a suite owns is stopped; a call ends and says what happened; no text is missed |
| lease lock, locked command | two live leases never coexist; a takeover never removes a live lock; the queue is fair and nobody waits for ever behind a dead holder; the exit code tells the truth |
| execution state, rhythm | work starts on integrated work, or the journal says why; finished work names its commit; `next` and `set` agree and there is always something to do; no update is lost; a suite keeps to the step |
| stack of pull requests | only what passed a suite as one lot is merged; a merge on an unproven content is the last; the report is true; the bisection blames the guilty |
| preview, idle stacks, web audit | the record and the process agree; a stack in use is not stopped; what is published was measured |
| decisions, specifications, scopes | a decision leaves the ledger only superseded; a valid specification can be executed and demonstrates what concerns it |
| reviews, wave | a domain is skipped only on proof; no finding is lost; a commit that is not doubted exists |
| database check, hook, static analyses | the checks see the schema PostgreSQL ends with; a command that would do harm is refused, and no other; following the proposed moves loses nothing |

The hazards, each at its line, are in `PROJECT.json`.

## 2. The modules

```
GatePlan  <--refines-- GateScheduler <-- GateSchedulerProofs      MCCommands
                           ^ assumption discharged by
                       GateConfig
LeaseLock  <-- LeaseLockProofs                                    MCRecords
   ^ what it establishes is what these assume of a lock:
LockQueue, RunLocked, SuiteQueue, RunProcess, FileWatch
   <- Commands <-- CommandsProofs                                 MCCommands
RunState   <-- RunStateProofs                                     MCRuns
   ^ refined by
RunStore   <-- RunStoreProofs (which instantiates RunStateProofs) MCRecords
GateRun    <-- GateRunProofs                                      MCRuns
   assumes what LeaseLock establishes of its queue and its lock,
   and what GateScheduler establishes of the gates inside one call
Preview, IdleStacks, BatchMerge, StackMerge, Rhythm
   <- Servers <-- ServersProofs                                   MCServers
GateConfig, ProofScope, Ledger
   <- Decisions <-- DecisionsProofs
Decisions, DbSchema, Reviews, Wave, Guards, Specs, WebAudit,
Readiness, Structure                                              MCDecisions
```

`Commands`, `Servers`, `Decisions` and `MCDecisions` are *sums*: components that do not
interact, checked side by side in one run. A variable `part` is chosen in the initial
state; the steps are those of the module of that part, and the variables of the others
keep a constant. A variable two modules both have is declared once. A property of a
sum is the conjunction of those of one component, conditioned on its part, so that
nothing of one part is asked of another, and each part is explored whole. `MCDecisions`
adds to `Decisions` the components nothing is proved of, and `MCCommands`, `MCRecords` and
`MCRuns` put modules side by side in the same way; there the variables of the others keep a
state in which nothing goes on (a plan that was refused, an execution that is over).

### 2.1 Gates: the plan and the scheduler

**GatePlan** is what a run of a plan promises whoever runs it: `Begin`, `End`,
`Refuse`, `Cancel` over three variables.

**GateScheduler** is `schedule()`. The variables carry the names of its locals;
`phase`, `pos` and `raced` stand for its program counter, the position of the `for`
loop and the promises of the `Promise.race` in progress; `stage[g]` is the state of
the promise of gate `g`.

| action | code |
|---|---|
| `Block`, `BlockThrows` | the call of `blocked`, which records a receipt or throws |
| `Launch`, `Skip` | the conditions of the loop body and the launch |
| `EndScan` | the race, the exit of the loop, or `Scheduler cannot make progress` |
| `Resolve`, `Reject` | the `then` and `catch` callbacks of a gate |
| `Finalize` | its `finally` callback, some microtasks later |
| `CallerAborts` | the abort of the caller's signal |
| `Wake`, `Drained` | the end of the race; `Promise.allSettled` of the catch clause |

One pass over `pending` is synchronous, so nothing else happens while
`phase = "scan"`. The statuses that count as a success are one value, those that do
not another. `validateDag` of `policy/policy.ts` is `SchedulerAssumption`: it is
what makes the call throw before anything else happens.

**GateConfig** says why every call satisfies that assumption. It has the choice of the
configuration file, the rules of the loader (`configIssues`: identifiers, the
dependencies, the stages, what may be left out), the options of a call, the closure of
the selection under `dependsOn`, what the stage and the scope leave, the dealing over
stacks, the receipts, and `verify`: which receipts count, for both stages, and what a
receipt `not_required` needs. Rules without effect on the choice are one fact of a
document, `sound`; whether a change concerns a check is free (ProofScope has that),
and so is the verdict of a command.

**GateRun** has calls of `apv gates run`, the store they share, and one `apv gates verify`.

| action | code |
|---|---|
| `Start` | `runGates` up to its queue: HEAD, the tree, the refusal of a dirty suite |
| `Enter`, `QueueTimeout` | the end of the wait in `enterQueue`, the comparison of HEAD and of the tree, or `SUITE_QUEUE` |
| `Execute`, `GetLock`, `LockRefused` | `execute` up to its command: `startedAt`, then the lock, then the command |
| `EndFirst`, `EndRetry`, `EndRepeat` | the end of the command, of its only relaunch, of the repetition of the changed tests, each with the check of the code that follows and the receipt |
| `Block`, `Finish` | the receipts of the gates a failure stops; the summary |
| `Publish`, `CopyFails` | the rename of the copy, or the error `shareRun` reports |
| `PruneStore`, `Remove`, `EndPrune` | the list of `pruneStore`, then the files of the runs it drops, one by one |
| `StartReading`, `OpenManifest`, `ReadFiles`, `Report` | `verifyGates`: the receipts of the worktree, then each shared run, then the verdict |
| `Edit`, `CommitAll`, `Crash` | the owners of the worktrees; the death of a call |

A tree is what `git status` prints: a number that is new at each edit, 0 when clean. The
times are ranks: `born` orders the identifiers of runs (those of one second are ordered by
their random part, so any order may be the real one), `startedAt` the starts of one
gate. `written` and `genuine` are history: when a receipt was written, and which
successes come from commands whose commit was checked out, clean, from the launch to
the end. Reading the code and launching a command, or ending one and reading the code, are one step.

**ProofScope** is what a full run may leave out (`skipWhenOnly`, `repeatChanged`) and
what `verify` accepts in its place, while the branch, the main branch and the local copy
of the reference move. A check is a program that reads files; what it proves is the
contents it read when it ran and passed. That is the ground truth the lists, the merge
bases and the mentions of the code are held against.

### 2.2 Locks and commands

**LeaseLock** is `tryAcquire`, `renew` and `release` for one resource, one action per
system call: `Judge` (the first read), `EnterMutex`, `JudgeMutex`, `BreakMutex`,
`GiveUp`, `Leave` (`withMutex`), `Recheck` and `Act` (the critical section),
`Create` and `Write` (the exclusive creation and the record, two calls between
which the file is empty). The clock is an action of its own; leases, the grace of a
file being written and the age of the mutex are ticks of it. A process may be suspended for
any time and die anywhere, between `Create` and `Write` too, but for the critical section
(3.1). `cleared` is history: the locks removed by a takeover that had judged an empty file
corrupt. A record with no pid (`apv lock acquire` without `--pid`) never becomes stale by the
death of its owner.

**LockQueue** is `acquire`: tickets in order of arrival (`queue[p]` is the set of those whose
tickets are older than that of `p`), pruned when their process is
dead or has not polled, hidden when they are those of the holder. The lock is
reduced to one record that is free, live or stale, with an atomic `tryAcquire`,
which `LeaseLock` justifies. Time is reduced to its effects: `asleep` is a process
that has not refreshed its ticket for `waiterStaleMs`, and `Expire` may end any
lease nobody renews.

**RunLocked** is `apv lock run`: take, start, renew while the child runs, forward a
signal, kill after the grace, give an exit code, release; the child may itself be an
`apv lock run` of the same resource, which inherits `APV_LOCK_HELD` and does without
(`runUnlocked`: its command starts, or cannot; it handles no signal and dies of one). A command
is `Running` whatever became of the calls above it.

**SuiteQueue** is the queue of the full suites and the processes of the machine: the
lease, the wait for the load, the ports freed from the orphans of the copy, the servers
the gates start, the end of a suite, which stops what carries its mark. Lists of
processes are read once and signals go out later, to pids that another process may have
by then. **RunProcess** is one command in its process group: `SIGTERM` then `SIGKILL`,
the close event that waits for every pipe although a descendant that left the group may
hold one. **FileWatch** is `apv wait --contains`: looks of at most a chunk at a file
somebody appends to, shortens or rewrites.

### 2.3 Executions

**RunState** is one execution, one action per call: `Set` is `applySet` (`Accepts` its
refusals, `AfterSet` what it writes), `Pause` and `Resume` are `applyPause` and
`applyResume`, and `CurrentStep`, `Ready`, `Awaiting`, `Blocked`, `UnderWay`,
`ToDecide`, `ReviewsToLaunch` are the lists of `computeNext`, from which come the
actions `apv run next` lists (`StandingActions`, `ToIntegrate`, `WaveActions`,
`StepActions`). `Integrate` is a commit merged in the branch of the spec, which happens
in git. Two facts of the journal are kept per task: the dependencies its last start was
forced over, and those reopened or recommitted since.

**RunStore** is several commands at once on one file, with the lease, the read, the
rename, the release, the commit of the delivery and of `save`, and crashes. What a
command may write comes from the operators of `RunState`. A lease may end at any time, and the
write does not look (`late` is history: somebody wrote after its lease was taken over).

**Rhythm** is executions side by side: which copy of a state `gates run` judges a branch by,
what it refuses, the override it journals, while copies travel with commits and checkouts move.
`home` is history: the checkout an execution was started in, as long as it stays on that branch
and the execution is started nowhere else. `Located` is `locateRunState`, and `Known` what
`findRun` may then choose from.

### 2.4 Pull requests and servers

**BatchMerge** is a batch from the reading of its pull requests: `ReadPullRequest` one by one,
`ReadBase`, `FetchHeads`, `Vet` (the refusals before anything is built), then `batchSteps`.
`calls` is the stack of the recursive `culprits`; `ProveWhole`, `ProveHalf`, `Return`,
`Conclude` and `ProveFinal` are the suites and what follows them; `Recheck`, `ReadTarget`,
`CallMerge`, `Look`, `ReadLanded` and `Finish` are the steps of one merge. Every list the batch
makes keeps the order of the request (`Place`), so a lot is the set of its members. A tree is
the sequence of what was merged in it, which is what the code compares (trees by content, never
by commit). GitHub may merge and lose the answer, accept and merge later, or refuse; `Outside`
is anybody pushing to the target, moving a head, merging or closing a pull request. `breaks` is
the truth about the suite, `faithful` says whether the suite told it.

**StackMerge** is a chain of pull requests read, checked and merged in order while
others push, close, retarget and merge. A branch is the set of its commits; a call that
fails may have been applied.

**Preview** is one port, one lease for all worktrees of a project, a record and a copy per
worktree, and the detached servers; callers die, leases lapse, strangers take the port. A lease
that lapses under a caller (`lapsed`) lets two of them write records; what is said of records
holds until then, and a death alone forgets at most one server. **IdleStacks** has the
observations that stop a stack and the gates that use it under its lock; the record is read and
written later by all of them without a lock.

**WebAudit** is the audit of a commit served by the preview, inside a suite or alone,
what its receipt says, what `verify` recomputes, and what is then published. An audit may be
killed: its locks and its server stay behind, for those that come to take over.
**Readiness** is what robots.txt, the sitemaps and the heads of pages say against how
crawlers read them, after any edits.

### 2.5 Documents and judgements

**Ledger**: commands of several users on the ledger, plan then apply, step by step, with the
operator's hand edits and commits, and deaths; a mockup registered and the decision that names
it. **Specs**: a specification from its draft to the execution it starts (globs, as functions on
sequences of characters, rules, coverage of decisions, the security minimum of the request,
waves, foundations, chain) and the scope of a task; the author edits under a command that reads
file, ledger and request one after the other.

**Reviews**: the plan of a review from the lines Git shows (what is a change of paths
only), the launch, the refused reports, the consolidation. **Wave**: the reports of
implementers and the three copies of the commit each gives.

**DbSchema**: the model of a schema kept by name, through a script of statements, against
the catalogue PostgreSQL keeps by identity; the rules in TypeScript against the same in
SQL. **Guards** has the rules of the hook on a command as the tokenizer leaves it, and the same
command as the shell would run it: an assignment, a lock wrapper, a shell and its script, one
inside the other. The stacks, hence their lock commands, are read only when the text names
`docker` or `supabase` (`StacksRead`), as in the code.

**Structure**: the findings and the plan of `apv structure check` on the tracked files,
every step of a folder on what those before it left, and the moves made one at a time,
in any order, while others add and remove files. A name is its words; how they are
joined is abstracted.

## 3. The runs

| run | instance | states | what it shows |
|---|---|---|---|
| Commands | the sum of LockQueue, RunLocked, SuiteQueue, RunProcess, FileWatch and GateScheduler | 160 thousand | no overtaking; a true exit code, and each command beside another accounted for; only its own processes stopped; a task ends clean; no text missed; nobody waits for ever; compatible gates, the drain, no stall, the end of every call, refinement of `GatePlan` |
| Stall | `MCCommands`, its gates alone, declared in the opposite order | | `NeverStalls` is violated (finding 1) |
| LockQueueSameOwner | `MCCommands`, its queue alone; two of three waiters have one owner | | `StaleLockTakenOver` is violated (finding 2) |
| LeftBehind | `MCCommands`, its locked commands alone | | `NoCommandLeftBehind` is violated (finding 3) |
| Records | LeaseLock: 3 processes, one without a pid, clock 0..2, 3 acquisitions, lease of 2 ticks; RunStore: 2 agents, 3 writes, one task, integration and delivery | 1.3 million | mutual exclusion, what the holder owns, what a takeover removes, the critical section; refinement of `RunState`, no lost update, commits go forward |
| FreshLock | `MCRecords`, its lock alone | | `FreshLocksRespected` is violated (finding 4) |
| LateWrite | `MCRecords`, its store alone | | `NeverLosesAnUpdate` is violated (finding 5) |
| Runs | RunState: 2 tasks, one depending on the other, 2 commits, the step integration; GateRun: 2 calls in 2 worktrees, 2 gates of stage full (one relaunched, locked and run targeted by tasks; one repeated, dependent), one edit or commit, one crash, a retention of one run | 1.2 million | the four properties of the execution state; proofs are genuine, relaunches on the same code, no failure of a suite hidden, shared runs whole or nothing and the newest kept |
| Servers | the sum of Preview, IdleStacks, BatchMerge, StackMerge, Rhythm | 2.5 million | servers are accounted for; no stack in use is stopped; only proven lots land, the report is true, the bisection exact, the batch ends; a stack is merged as it was verified; suites keep to the step |
| BatchMergeInteraction | `MCServers`, its batch alone (`BatchSpec`) | | `InteractionIsOfTheWhole` is violated (finding 6) |
| Decisions | the sum of GateConfig, ProofScope, DbSchema, Reviews, Wave, Ledger, Guards, Specs, WebAudit, Readiness, Structure | 1.4 million | what lands on main was proven, plans are sound and proofs ran; the checks see the schema and a reorganisation is safe; reviews and waves miss nothing; the ledger keeps its word; the hook judges right; a specification means what it says; audits are honest |
| ReviewsSwapped | `MCDecisions`, its reviews alone; two statements swapped in a file | | `SwappedStatementsAreContent` is violated (finding 7) |

### 3.1 The bounds

- *Scheduler*: three readers are ready at once for two places, so that the concurrency, the
  resource, the writer and a chain of refusals all bite. `failFast` is off in the run, where
  more can happen; the theorems cover both values.
- *LeaseLock*: a takeover needs a judge, a new holder and a third party, hence three processes.
  `MaxNow` = 2 with a lease of 2 and `Grace` = 0 leaves room for a lease to end under its holder
  and others to be taken, and for the file of one creator to be judged corrupt at each tick, so
  that a judgement meets the file of the next (clock 0..3 and `Grace` = 1: 2.5 million states,
  same result). `MaxToken` = 3 is one lock, its successor and the successor of that one. The run and
  the theorems suppose `Punctual`: no live process stays in the critical section for longer
  than `MUTEX_STALE_MS`, and none dies there while two others live (`LoneCrashPoints`). It is the
  limit `docs/LOCKS.md:65` names (a section broken after 10 s, a process killed inside): beyond
  it two survivors may both judge the mutex old and be in the section together. Nothing else is
  supposed: a process may be suspended for any time, or die, anywhere else, with an empty file in
  its hands included. `MCQuietCrash` has the deaths that leave something behind (before the
  record is written, with the lock held); a death elsewhere is, to the others, a
  suspension without end or a death just before. What an empty file costs is stated, not supposed away: the properties
  except the locks removed by a takeover that had judged an empty file corrupt (`cleared`,
  `Clears`), since the one removed may be a fresh one, against `docs/LOCKS.md:51` (FreshLock).
- *LockQueue*: three waiters are the least for one to be overtaken while another leaves; one
  suspension is enough to lose a place. *RunLocked*: a call, one nested in it, one with a time
  limit, one signal (the theorem is for any nesting and number of signals). *SuiteQueue*: two suites of one
  copy and an editor that listens on a port, three processes over two pids, so that a pid is
  reused. *FileWatch*: a text of three bytes that overlaps itself, looks of two bytes, files of
  five.
- *RunState*: two tasks are the least dependency; two commits are the least replacement. No
  review is in the instance (the agreement of `next` and `set` about reviews is proved, section
  4).
- *RunStore*: two agents, and three writes, so that an update written between the read and the
  write of another can be followed by one more. The number of writes stands for the journal,
  which only grows. Of the calls of `apv run set` the instance has five (`MCCalls`): start,
  finish and reopen the task, start and finish the delivery. A lease may end under its holder at
  any time, between the read and the write too; nothing is supposed of it. The properties hold
  up to the first write that comes after its lease was taken over (`late`); that such a write
  takes an update away, against `docs/CLI.md:129`, is what LateWrite shows.
- *GateRun*: two calls and a reading are the least for a publication, a prune and a reader to
  meet, and for two suites to compete for the queue. `MaxChanges` = 1 is one edit or one commit,
  `KeepRuns` = 1 makes each second publication a removal. The reading belongs to the restless
  worktree, so both local and shared receipts occur. `Restless` worktrees change while commands
  run in them, the others only between the calls: the code looks at the tree before a relaunch
  and a repetition and nowhere else, so `ProofIsGenuine` speaks of worktrees left alone (the
  documented use) and `RelaunchOnSameCode` of all. `Overlap` is FALSE: once the local receipts
  are read, a reading looks at the shared store only, so steps that do not touch the store wait
  for its end; they commute with its steps, and the publication, removals and crashes do not
  wait. With `Overlap` TRUE the same holds (2.2 million states).
- *BatchMerge*: four pull requests give halves of two or, with the conflict, of unequal lengths,
  and a recursion of depth two; `Breaks` has single culprits, two of them, pairs inside one half
  and across halves. `MaxMoves` = 1 is one act of somebody else (`MaxOutside` in the sum). All
  22 families of at most two sets (294 thousand states) and two acts hold as well.
- *Preview*: two updates and a stop in one worktree, an update in another, one mishap.
  *IdleStacks*: two watchers, one user, times up to 4 (5: 3.5 million states). *StackMerge*: two
  pull requests, two acts of others. *Rhythm*: two executions, one named as a task of the other
  would be, three checkouts, four moves (five: 3.1 million).
- *GateConfig*: three checks, four configurations of which two are refused, two calls, two
  commits, two stacks. *ProofScope*: two checks, one depending on the other, a list that changes
  with the configuration, four commits (three checks: 260 thousand states).
- *DbSchema*: every script of three statements. *Reviews*: files of two lines, two findings.
  *Wave*: two agents. *Ledger*: two designers, one of whom applies (both: 4.3 million states).
  *Guards*: scripts over every wrapper, option and level the rules know, one assignment before a
  command, before its lock wrapper or before the shell that runs it. What the hook does not see is
  excepted in the property, case by case (`apart`): a script too deep, or run by the lock command
  of a stack when the text names neither `docker` nor `supabase`; a local database whose project
  is set before the lock wrapper or the shell, where the hook loses the assignment. *Specs*: every edit of one or two fields of a specification of
  two tasks (more sources and edits: 588 thousand); of two paths the request names one is among
  those searched (`Searched`: relevant files, manifests, security files) and one is not.
  *WebAudit*: three files, one page measured three times, five alternatives of who acts, in two
  of which an audit is killed. *Readiness*: two
  edits of robots.txt, the sitemaps or the pages (three of robots.txt: 37 thousand).
  *Structure*: sixteen trees of two to six files, one file added or removed, every order of the
  moves (without edits and with 128 trees the same holds).
- *Globs* (`Specs`): `Overlap` was also compared once, exhaustively, with the existence of a
  common path: all pairs of globs of at most 3 characters over `a b / * ?` (5,200 pairs) and of
  at most 5 over `a / *` (16,632 pairs).

`CHECK_DEADLOCK FALSE` is set where the system may really stop: all processes dead, a
bounded clock or number of writes used up, a batch or a call that has ended.

### 3.2 The fairness

- *GateScheduler*: the event loop runs what is ready (weak fairness of `Scan`,
  `Wake`, `Drained`, `Finalize`), and every command settles, because each runs under
  a timeout (`Settle`). Nobody is assumed to cancel.
- *LockQueue*: a live waiter polls, a suspended machine wakes up, a lease nobody
  renews ends, and commands end. The last is the caller's: `apv lock run` sets no
  limit of its own. Nobody is assumed to arrive, time out or die.
- *RunLocked*: the event loop handles signals, timers and exits; a command that was killed,
  or that is itself an `apv lock run` told to end, ends. *SuiteQueue*: the loop of the
  queue goes on, and gates end under their timeouts. *RunProcess*: timers fire and the
  kernel kills what is sent `SIGKILL`; children and daemons may live for ever.
- *BatchMerge*: the processes a batch starts end, and the polling of a merge is
  counted (`Look` may give up); `gh` answers. A queued merge may never happen.
- The other modules have no fairness: only safety is claimed of them.

### 3.3 What the runs found

1. **Stall** (`engine/scheduler.ts:45`). With `--keep-going`, a gate declared before a
   dependency that is blocked later in the same pass stays pending while nothing
   runs, and the call throws `Scheduler cannot make progress`. It cannot happen with
   `failFast`, nor when gates are declared after their dependencies (`NoStall`, proved).
2. **Two waiters of one owner** (`lock/store.ts:356`). The tickets of the owner of the lock
   record are not counted, even when the record is stale. Two `apv lock acquire` of one
   user have one owner: the second never tries to take the stale lock of the first, and leaves
   by its `--wait` deadline.
3. **A command left behind** (`commands/lock.ts:103`). A nested `apv lock run` on a lock that is
   held has no handler of signals: one that reaches it, from the terminal or forwarded by the call
   above, kills it and not its command. The call above ends and gives the lock back, and
   the command goes on while another takes the lock; `docs/LOCKS.md:12` says that the
   signal is passed on, then `SIGKILL`.
4. **A fresh lock removed** (`lock/store.ts:211`). The second read of a takeover compares
   contents, and two files just created are equally empty. With a creator suspended, or dead,
   between the creation and the record (234-240), two others judge its file corrupt; the one
   removes it and creates its own, the other finds that one, empty, equal to what it judged, and
   removes it. `docs/LOCKS.md:51` says it cannot be; line 52 has such files taken over after 10 s.
5. **A late write** (`run/state.ts:732`). The write of the state checks no token: a command
   suspended for more than its 120 s between read and write overwrites what was written
   since, although `docs/CLI.md:129` says that no update is ever lost.
6. **Interaction inside a half** (`stack/batch.ts:295`). Two pull requests of one half that
   break the suite together make the batch report an interaction of the whole, whose
   halves would all pass, although that half failed; the rest is not proven.
7. **Swapped statements** (`review/plan.ts:257`). Two statements that change places are
   to Git a line removed and the same line added elsewhere; the two lists compared are
   equal, the change counts as one of paths, and the domains of the file are skipped.

The properties of the passing runs that meet 2 to 5 except these cases by name, and claim the
rest: owners that differ; `Unheard` (a nested call that died of a signal); `cleared`; `late`.

Further facts met while modelling. The properties are stated apart from them, or the
instance does not contain them; no run checks them.

- *Lease and locks.* `apv lock run` inside another only checks that somebody holds the lock
  (`commands/lock.ts:89-96`). `withGateLease` of `gates/suite.ts` checks nothing of the lease it
  inherits.
- *Executions.* A running task that updates its fields has its
  dependencies checked again, though not their integration (`run/state.ts:333`,
  `docs/CLI.md:159`). `apv run start` reads the specification twice (`commands/run.ts:109`),
  looks for a state in its own checkout only, so an execution can be started twice, and
  a stale copy on `apv/<id>` is the one the gates judge by.
- *Gates.* Receipts are ordered by the start of their gate (`gates/verify.ts:198`), so of two
  calls of stage task that run one gate at once the last started decides, whichever
  ended last. The identifiers `summary` and `manifest` are not reserved: such a gate would
  share its file with the summary or the manifest of its run. `gatesConfigHash` covers
  gates and passEnv only. With `--stacks` every copy has a scheduler of its own, hence resources,
  writers and concurrency of its own (documented, `docs/CLI.md:297`). At the limits of the schema
  `validateReceipt` throws after the command ran: waits for locks whose sum passes 24 h, names of
  relaunched tests that redaction lengthens beyond 500, more than 2000 repeated files when the
  ceiling is off.
- *Suite, waits, servers.* A targeted run's server is stopped by the freeing of ports of a suite of
  the same copy; a marked process that forks after the listing survives. A file truncated and
  regrown beyond the offset is not read again. A record of a preview without the start of its
  process takes a reused pid for its own. Two observers may lose a note of use
  (`stacks/idle.ts:113`, `docs/APV3-SPEC.md:284`). `apv stack merge --method squash` on two or more
  requests stops as behind unless waived.
- *Documents.* Two `ledger apply` that overlap lose an update (`lifecycle/ledger-update.ts:64`); an
  identifier once superseded may be used again; a registration killed in the middle leaves a
  new file and an old ledger, which is reported. A glob the rules do not support ends
  `spec check` alone, without the other errors.
- *Reviews and waves.* A finding that carries an `id` replaces the one computed
  (`revues.js:211`); a default domain neither reviewed nor skipped is not noticed; an alias
  that ends like the moved file is taken for it. `vague.js` never compares a report's task
  with the task.
- *Schema.* Grants and drops by argument count hit each overload of that arity
  (`db/parser.ts:572`), `alter function … set schema` is not seen (609), temporary tables outlive
  their file (158), an index name is looked up in all schemas (464), `references` without
  columns means `id` (272).
- *Hook.* It is a guard rail. Scripts nested more than three deep, those of a lock command whose
  text names no stack (`bash-guard.mjs:322`), a project set before a lock wrapper or a shell
  (`harness-guard.mjs:407-441`), a `supabase` after a `cd` (`bash-guard.mjs:329`) and a kill behind `flock` are judged without what precedes them; the target `-0` of
  line 130 is unreachable; an error of the hook allows the command.
- *Audits.* A line that is neither a rule nor a user-agent between two user-agents makes two
  groups of robots.txt (`web/readiness.ts:42`), where RFC 9309 makes one. The audit of a change
  against a local base moved by hand may take it for published. A server that is not the
  project's, on the port after the served one died, would be measured.
- *Moves.* Two modules can be given one stem (`order-list.ts` and `orders-list.js` →
  `orders/list.*`), as a clash is one of paths. Tests with another stem or in `tests/` are
  counted and not moved, whereas `docs/CLI.md:513` says the tests follow. An extension-less file
  with the name of the folder proposed is no clash. A file may be proposed again by
  the next check.

## 4. What is proved

The theorems hold for every value of the constants that satisfies the named assumptions
(`SchedulerAssumption`, `RunAssumption`, `LeaseLockAssumption`, `StoreAssumption`,
`GateRunAssumption`, `CommandsAssumption`, `ServersAssumption`, `DecisionsAssumption`), each
taken from what the code refuses before it starts or from how it draws its identifiers. Two
parts of `DecisionsAssumption` say instead which projects and updates are considered: the lists
of ProofScope never dispense the one file that names others (`code`), whose name means that; and
no update of Ledger names or supersedes the decision of a mockup, since these are registered,
nor the marker an edit by hand leaves. The invariants are layered: each part has a lemma that says a step preserves it, using the parts
before it.

**GateSchedulerProofs.**

1. `TypeOK`.
2. `Bookkeeping`: `pending`, `running`, `stage` and `done` say the same of each gate, and
   the phase agrees with them. `TypeOK` alone would allow a gate that is pending and
   running.
3. `Locks`: the mutable summaries are right, `writer` is true exactly when a
   running gate may write and then it is alone, `held` is the disjoint union of what the
   running gates use, and they are at most `Concurrency`. This is the strengthening
   exclusion needs: the guard of `Launch` reads `writer` and `held`, never the gates.
4. From these: `CompatibleGates`, `ConcurrencyBound`, `ReceiptsAreFinal`,
   `DependenciesSucceeded`, `BlockedOnlyDownstream`, `DrainedAtEnd`.
5. `NoStall` needs `ScanBook`, what a pass knows of the gates before `pos`. Under
   `failFast` a failure has aborted the call (`AbortOnFailure`), and in an aborted pass
   every gate already examined has left `pending` (`AbortedScan`). Otherwise, with
   nothing running, a gate still pending was passed over because a dependency had no
   receipt when it was reached (`IdleScan`). As `dependsOn` has no cycle, some pending
   gate has no pending dependency; its dependency without a receipt would have had to
   be decided later in the same pass, which a declaration after the dependencies
   excludes.
6. `ImplementsPlan`: each step of the scheduler is a step of `GatePlan` or a stutter,
   under the mapping `active <- Executing`, `outcome <- Outcome`.

**DecisionsProofs.** A step of the sum is a step of the part it is in (`ProofPart`,
`ConfigPart`, `LedgerPart`), and each part has an inductive invariant of its own.

- *GateConfig*. The sets the code builds are closed under `dependsOn`: the closure of a
  selection (`ConfigClosureIsClosed`), what the stage leaves of it, what the scope leaves of
  that. From a closed set `spread` makes groups that are closed as well
  (`ConfigGroupsAreSound`). `PlansSound` follows: each plan handed to `schedule()` satisfies
  `SchedulerAssumption`, so the theorems above apply to it. The inductive invariant adds
  that a call under way still agrees with what it read (`gcCalls`) and that the receipts on
  disk are those of the calls that ended (`gcWritten`); `ProofsRan` and
  `CompleteRunsAreProofs` follow from it and the rules of `verify`.
- *ProofScope* (`MainStaysProven`, from `psIInv`). A commit is sound when every check passed
  on what it reads there. The head of the main branch and the fetched reference are sound,
  and what `verify` accepted is too unless it lacks some of the main branch, and then it
  cannot land (`psLands`); of the receipt, what passed was run (`psRecorded`); a commit
  carries its ancestors (`psHistory`). What was left out is the heart of it: a check that
  nothing blocks reads at the head what it reads at the reference, which is one of the merge
  bases when the branch contains it (`ProofBaseIsReference`, `ProofDispensedChangesNothing`,
  `ProofLeftOutReadsTheSame`), and the reference is sound. `MainIsProven` alone is not
  inductive: it says nothing of a receipt that is not verified yet, nor of the fetched
  reference it was judged by.
- *Ledger* (`LedgerWordIsKept`, from `lgIInv`). As long as nobody writes under a command that
  has read (`~overlap`): what each command has established where it is (`lgCommandOK`), what each
  commit made of the one before it (`lgHistoryOK`), what the working copy is against `HEAD`
  or an edit by hand (`lgCopyOK`), and that one mockup is named, the one in the file
  (`lgMockupOK`, which gives `MockupIsTheOneNamed`). The plan is checked on a commit and
  carried out several steps later on the files, so the invariant has to say, at each of
  these steps, that `HEAD` and the files are still those of the plan.

**LeaseLockProofs**, under `Punctual` (3.1; `TypeCorrect` without it), hence for processes that
may be suspended or die with an empty file in their hands. Besides `LockTypeOK` and `Shape`,
what the control point of a process says of it:

- `Sections`: the mutex directory is there while somebody is in the section; it is judged
  abandoned only after its maker died there, by a process that is then alone.
- `Tokens`, `Owned`: a token is one process's, and says whose file it is and until when.
- `Judgements`: what was judged stale stays stale until it is replaced, because leases are
  not renewed once over and the dead stay dead; a written record that was judged is not taken for
  another.
- `Rechecked`: between the second read and the act the file does not change, except that an empty
  one may be written. This is where the section matters, and why the first judgement alone would
  not do.
- `Kept`: a lease not over, of a lock neither forced away nor `cleared`, is the one in the file.

`SectionExclusion`, `ActsOnWhatItJudged`, `HolderOwnsFile` and `MutualExclusion` follow, and
`NeverStolen`, an action property: only a release, a forced one, or the takeover of an empty file
removes a live lease.

**RunStateProofs.** The inductive invariant `IInv` is `TypeOK`,
`FinishedWorkIsAccounted`, `RunningIsJustified` and `PausedIsUnfinished` together: the second is
needed by the third, since a silent replacement of a commit is only noticed
when the finished task had one. `NextAgreesWithSet` follows from the definitions for every
typed state. `WavesHaveWork` uses that `dependsOn` is acyclic: among the unfinished tasks there is
one whose dependencies are all finished, and that one is to be launched, integrated
for, resumed or decided of, or has a skipped dependency.

**RunStoreProofs**, with no hypothesis on time: leases end whenever they like. Without a late
write, `UpToDate` (what the holder of the lease read is still the file) and `Behind` (what is
committed is no newer than the file) are inductive, with `Absent`; `NoLostUpdate` and
`CommitsMoveForward` follow. `Implements`: until the first late write, a rename is a step of
`RunState` (`ChangeIsAStep`), everything else a stutter. A late write loses an update but not what
`RunState` promises of a state: `AllSound` says it of every content, of the file or read by a
command, since the head only grows and an old content stays sound; so
`FileKeepsItsPromises` holds whatever is written and by whom. The lemmas are those of
`RunStateProofs`, through an instance.

**GateRunProofs.** The parts are: `Calls` (what each control point of a call has
established), `Identifiers` (distinct, ranked by birth), `OneSuite` (the queue is held by a
living call, the one whose suite runs), `OnCode` (HEAD and the tree are those recorded as long as
nobody changed the worktree), `Proofs` (`ProofIsGenuine`, of the receipts on disk and not only of
what a reading reports), `RelaunchOnSameCode`, `Order` (of two receipts of a gate
written by suites the later one started later: suites do not overlap, and this is what
lets `verify` order by the start), `Retention` and `Found` (a reading has all the receipts of a run
or none). `Retention`: a run whose removal is decided or begun leaves `KeepRuns` newer runs that are
whole; removals go on while others publish, so it is kept by counting, and the step of
`PruneStore` needs that a finite set of natural numbers has a maximum (`FiniteMax`, proved by
induction on finite sets through the functions of the library).

**CommandsProofs.** A step of the sum is a step of the part it is in (`QueueStep`,
`LockedStep`, ...), so each part has an inductive invariant of its own.

- *RunProcess* (`TasksEndClean`): children of the group are there only between the start of
  the command and what follows its exit.
- *SuiteQueue* (`SuitesStopTheirOwn`): starts are given once, so a listed process is
  either still one the suite may stop or its pid has another start (`ListsStayRight`);
  without a lapsed lease the lease is that of the one suite between load and end
  (`OneSuiteStep`).
- *LockQueue* (`NobodyIsOvertaken`): who is ahead of a caller about to try has the lock or
  died with it. The theorem supposes owners that differ (`DistinctOwners`); finding 2
  is what happens otherwise.
- *RunLocked* (`LockedCommandsTold`), however deep calls are nested. Of a chain of nested calls
  one command runs at most (`OneLeaf`, from `Line`, the calls a call is part of). A command that
  runs without the lock above it is either that of a stray, and strays are no more than the
  mishaps so far (only a mishap leads one astray, and one only: `StraysStep`), or below a
  nested call that is over and never handled a signal (`LockedLeft`); and nobody but a mishap or
  a signal to a nested call leaves a command behind. Without that exception the property is
  false: LeftBehind.
- *FileWatch* (`TextsAreFound`): what is kept of the file between two looks is its last bytes, one
  fewer than the text, so what a look searches has the text exactly when all that was read
  has it (`LookFinds`), for every chunk, text and size of the file.

**ServersProofs.** A step of the sum is a step of the part it is in, as above.

- *StackMerge* (`StacksMergeAsVerified`, from `smInv`): what the merges brought to the target
  stays there (`smLanded`), what is reported is merged in the target (`smReported`), a merge not
  reported yet is that of the pull request at hand (`smNamed`), and between the comparison and
  the merge nothing of the stack lands (`smCompared`): others may push, which is all
  `--match-head-commit` leaves open.
- *IdleStacks* (`StacksLongUses`, from `isInv`): the record is read and written back without a
  lock, so the invariant is of every copy of it: each that a watcher, a user or the file has
  says of the use that lasted that it was over long enough ago, or before `free`, or that it
  goes beyond the gap after the last observation (`isSound`); a pass writes within the gap of
  its reading.
- *Preview* (`ServersAccounted`, from `pvInv`): until a lease lapses one call is between the
  taking and the release of the lock (`pvAlone`), and the record is the one it read, then that
  of a server it stopped, then its own (`pvRead`). A step forgets no server; a mishap forgets
  one (`pvKeeps`, `pvLosesOne`), so the servers forgotten are no more than the mishaps.
- *BatchMerge*, the lots (`OnlyProvenLots`, from `bmInv`): what is merged is a beginning of the
  lot that passed (`bmDone`, `Place`); what GitHub did for the batch is in the report or is the
  member at hand (`bmCaused`); the target begins with the report, but for the last merge at most
  (`bmPrefix`, `bmLanded`). Each step does to the target nothing, a push or one arrival
  (`bmRemote`), and to the report nothing or one member (`bmMoves`); the combinations are the
  proof. *The bisection* (`BatchTruthful`, from `bmInv` and `bmExact`): while the suite tells
  the truth and each set that breaks it is one pull request, the members of the list of a call
  that break it are those the call has found, those of the call inside it, and those of the
  halves it has left (`bmCallFound`), for every depth of the stack.
- *Rhythm* (`RhythmSuites`, from `rhInv`): an execution still at home has its state there, and
  when that checkout is on `main`, no commit and nobody else has a copy of it (`rhHome`,
  `rhLone`). So `locateRunState` finds it, however many copies the commits spread
  (`RhythmLocated`). What a command has read stays true while it is under way (`rhSole`,
  `rhDue`, `rhOver`) because a write keeps an override once it is journaled (`rhStill`), and a
  suite that ran outside its step was overridden.

**Only model-checked.** Liveness (`EventuallyFinishes`, `EveryWaiterServed`, `BatchEnds`,
and what `RunProcess` and `RunLocked` promise will happen) is out of the prover's reach, as
are ENABLED and induction over data. The modules that use a recursive operator (`Specs`,
`Guards`, `Readiness`) cannot be reasoned about in it; what they compute is compared
with a reference on the instances above. Of `MCDecisions`, `ChecksSeeTheSchema`,
`ReviewsMissNothing`, `GuardsJudgeRight`, `SpecMeansWhatItSays` and `AuditsAreHonest` are
checked on the instances only.

## 5. What is not modelled

- *In the modelled components*: the audit log, durations and names of resources of the
  lock; texts, dates, migrations, notes of confidence of the execution state and the
  review steps in `Rhythm`; retention by age, the flock variant of a lock, an unreadable
  `SuiteMode` (taken as final); drafts and what a configuration of a pull request
  may change (one set `unfit`) in a batch; default names, the tokenizer of SQL, the types,
  the rules on names, the live database; the tokenizer of the shell, its subshells and pipes; URL
  and HTML parsing, languages, JSON-LD, `llms.txt`; `--url`, `--production` and the disabled queue of
  a web audit, and a suite killed while it audits; the words of names and how they are joined; the idle analyses
  `stoppedSince` and `lastLeaseEvent`; the words, exposure, lane and project type of a
  specification; the V2 location of the ledger. A stack's copy under `--stacks` is one value.
- *Pure input and output, and rendering*: the command line, onboarding, quota, reports.
- *Pure functions over documents without state or control a model would add to*: the
  schemas of `domain/`, `knowledge/`, the functions nothing calls (`validateQa`,
  `validateSemanticReview`, `validateBootstrapCoverage`, `taskOrder`).
- *The code of others*: git, GitHub, the browser, PostgreSQL and the kernel are what the
  code relies on, stated as external definitions.

## 6. The plan

Done, in this order: the scheduler and its abstract plan, with proofs; the lease lock and
its queue; the execution state, with proofs, and its concurrent store; the batch; gate runs,
receipts, verification; commands, suites, processes and waits under locks; previews, idle stacks
and merges; configuration, proofs of a change, schema, reviews, waves, ledger,
specifications, hook, audits, rhythm, moves; the proofs of the lease, of the store, of the gate run,
of the commands, of the servers, and of the configuration, the scope and the ledger.

Left: proofs of the components of `MCDecisions` without a recursive operator that are not in
`Decisions` (`WebAudit`, `Wave`, `Reviews`, `DbSchema`, `Structure`), in the same way; an
abstract lease that `LeaseLock` refines.
