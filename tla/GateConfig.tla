------------------------------ MODULE GateConfig ------------------------------
(***************************************************************************)
(* From the configuration of the checks to the plans schedule() is given,  *)
(* and from their receipts back to the proof of a commit: the loader and   *)
(* its rules (src/config/load.ts), the options of `apv gates run`, the     *)
(* choice of the checks, those the scope of the change leaves out, the     *)
(* copies a suite is spread over (src/gates/run.ts, spread.ts), and what   *)
(* `apv gates verify` asks of a commit (verify.ts).                        *)
(*                                                                         *)
(* A configuration is edited and committed while calls are under way.  The *)
(* rules without effect on the choice of the checks (ports, globs, regular *)
(* expressions, placeholders) are one fact of a document, `sound`; whether *)
(* a change concerns a check is chosen freely (ProofScope has that), and   *)
(* so is the success of a command (GateScheduler, GateRun).                *)
(***************************************************************************)
EXTENDS Naturals, FiniteSets, Sequences, Functions

CONSTANTS
  Id,          \* identifiers of checks
  Command,     \* what a check runs
  Document,    \* the configuration files somebody may write
  Nothing,     \* no file
  Stack,       \* the declared stacks
  Call,        \* the calls of `apv gates run`
  Options,     \* what they may be asked
  MaxCommits   \* bound: commits

(* A check as declared; `stack` says whether its lock is that of a stack,   *)
(* and whether it receives the variables that select one.                   *)
Check ==
  [id : Id, command : Command, dependsOn : Seq(Id), stage : {"task", "full"},
   affected : BOOLEAN, skips : BOOLEAN, stack : {"none", "blind", "told"}]

(* The configuration read: the one of --config, .apv/config.json, or the    *)
(* one of version 2.                                                        *)
File == {"given", "current", "legacy"}

GateConfigAssumption ==
  /\ Document \subseteq [valid : BOOLEAN, sound : BOOLEAN, gates : Seq(Check)]
  /\ Nothing \notin Document
  /\ Options \subseteq
       [explicit : BOOLEAN, only : SUBSET Id, stage : {"task", "full"},
        base : Nat, anyway : BOOLEAN, stacks : Seq(Stack)]
  /\ IsFiniteSet(Call)
  /\ MaxCommits \in Nat \ {0}

VARIABLES
  head,       \* the commit of the worktree, by its number on the branch
  modified,   \* whether the worktree has changes that are not committed
  call,       \* the calls
  receipts    \* the receipts written

vars == <<head, modified, call, receipts>>
-----------------------------------------------------------------------------
Ids(gates) == {g.id : g \in Range(gates)}
Declared(gates, i) == CHOOSE g \in Range(gates) : g.id = i
Deps(gates, i) == Range(Declared(gates, i).dependsOn)

(* validateDag: every dependency is one of the checks, and no cycle: in     *)
(* every set of checks one depends on none of the set.                      *)
ValidDag(gates, set) ==
  /\ \A i \in set : Deps(gates, i) \subseteq set
  /\ \A cycle \in SUBSET set :
       cycle # {} => \E i \in cycle : Deps(gates, i) \cap cycle = {}

Distinct(gates) ==
  /\ IsInjective([k \in DOMAIN gates |-> gates[k].id])
  /\ \A g \in Range(gates) : IsInjective(g.dependsOn)

KnownDependencies(gates) ==
  \A g \in Range(gates) : Range(g.dependsOn) \subseteq Ids(gates)

(* A check of a task never waits for one of the full suite.                 *)
TaskNeedsTask(gates) ==
  \A g, t \in Range(gates) :
    g.stage = "task" /\ t.id \in Range(g.dependsOn) => t.stage = "task"

(* Mutated form of TargetedRuns: only the stage of the check itself is      *)
(* looked at.                                                               *)
TargetedIsFull(gates) ==
  \A g \in Range(gates) : g.affected => g.stage = "full"

(* The targeted variant is that of a check of the full suite, and all it    *)
(* depends on runs with a task too.                                         *)
TargetedRuns(gates) ==
  \A g \in Range(gates) :
    g.affected =>
      /\ g.stage = "full"
      /\ \A t \in Range(gates) :
           t.id \in Range(g.dependsOn) => t.stage = "task" \/ t.affected

(* configIssues finds nothing.                                              *)
Accepted(d) ==
  /\ d.valid /\ d.sound
  /\ Distinct(d.gates) /\ KnownDependencies(d.gates)
  /\ TaskNeedsTask(d.gates) /\ TargetedRuns(d.gates)
  /\ ValidDag(d.gates, Ids(d.gates))

Configurations == {d \in Document : Accepted(d)}

(* The file of --config when given, then the current one, then the old one. *)
ConfigFile(files, explicit) ==
  IF explicit THEN "given"
  ELSE IF files["current"] # Nothing THEN "current" ELSE "legacy"

LoadConfig(files, explicit) == files[ConfigFile(files, explicit)]
-----------------------------------------------------------------------------
(* The smallest set that holds `chosen` and what its checks depend on.      *)
Closure(gates, chosen) ==
  {i \in Ids(gates) :
     \A set \in SUBSET Ids(gates) :
       chosen \subseteq set /\ (\A j \in set : Deps(gates, j) \subseteq set) => i \in set}

SelectGates(gates, only) ==
  IF only = {} THEN Ids(gates) ELSE Closure(gates, only)

(* What a stage leaves to the full suite, and what it runs, of which some   *)
(* through their targeted command.                                          *)
Reserved(gates, set, stage) ==
  {i \in set : stage = "task" /\ Declared(gates, i).stage = "full" /\ ~Declared(gates, i).affected}
StageGates(gates, set, stage) == set \ Reserved(gates, set, stage)
Targeted(gates, set, stage) ==
  {i \in set : stage = "task" /\ Declared(gates, i).stage = "full" /\ Declared(gates, i).affected}

IsFullSuite(gates, set, stage) ==
  stage = "full" /\ \E i \in set : Declared(gates, i).stage = "full"

Scoped(gates, set, stage) ==
  {i \in set : stage = "full" /\ Declared(gates, i).skips}

(* Mutated form of NotRequired: what depends on a check is not looked at.   *)
NotConcerned(gates, unconcerned) == unconcerned

(* Of the checks the change does not concern, those nothing that runs       *)
(* depends on.                                                              *)
NotRequired(gates, unconcerned) ==
  {i \in unconcerned :
     \A j \in Ids(gates) : i \in Closure(gates, {j}) => j \in unconcerned}

(* planSpread: the place of a check among the declared ones, whether it may *)
(* leave the copy of the suite, and the stack it gets, in turn.             *)
Place(gates, i) == CHOOSE k \in DOMAIN gates : gates[k].id = i
OnStack(gates, set) == {i \in set : Declared(gates, i).stack # "none"}
Movable(gates, set) ==
  {i \in OnStack(gates, set) :
     Deps(gates, i) = {} /\ \A j \in set : i \notin Deps(gates, j)}
Turn(gates, set, i) ==
  Cardinality({j \in Movable(gates, set) : Place(gates, j) < Place(gates, i)})
StackOf(gates, set, stacks, i) ==
  IF i \in Movable(gates, set) THEN stacks[(Turn(gates, set, i) % Len(stacks)) + 1]
  ELSE stacks[1]
InCopy(gates, set, stacks, s) ==
  {i \in OnStack(gates, set) : s # stacks[1] /\ StackOf(gates, set, stacks, i) = s}
Copies(gates, set, stacks) ==
  {s \in Range(stacks) : InCopy(gates, set, stacks, s) # {}}
Groups(gates, set, stacks) ==
  ({InCopy(gates, set, stacks, s) : s \in Copies(gates, set, stacks)}
   \cup {set \ UNION {InCopy(gates, set, stacks, s) : s \in Range(stacks)}}) \ {{}}
-----------------------------------------------------------------------------
(* Mutated form of SameChecks: any receipt of the commit.                   *)
AnyChecks(r, gates) == TRUE

SameChecks(r, gates) == r.gates = gates

(* The receipts verifyGates counts for a check of a configuration, at a     *)
(* commit, for a stage and from a base: those of these checks, on a clean   *)
(* tree, targeted only if the check is and from a base that covers.         *)
Counted(gates, commit, stage, base, i) ==
  {r \in receipts :
     /\ r.id = i /\ r.commit = commit
     /\ SameChecks(r, gates) /\ ~r.dirty
     /\ r.targeted => /\ i \in Targeted(gates, Ids(gates), stage)
                      /\ r.base \in 1..base}

(* For each check the stage requires, the latest one counted passed; that   *)
(* it was not required is recomputed (ProofScope), if it still declares it. *)
Verified(gates, commit, stage, base) ==
  LET required == StageGates(gates, Ids(gates), stage)
  IN /\ required # {}
     /\ Targeted(gates, Ids(gates), stage) # {} => base # 0
     /\ \A i \in required :
          \E r \in Counted(gates, commit, stage, base, i) :
            /\ \A q \in Counted(gates, commit, stage, base, i) : q.at <= r.at
            /\ \/ r.status = "passed"
               \/ r.status = "not_required" /\ Declared(gates, i).skips
-----------------------------------------------------------------------------
NoCall ==
  [pc |-> "idle", options |-> Nothing, gates |-> <<>>, commit |-> 0, dirty |-> FALSE,
   skipped |-> {}, groups |-> {}, lost |-> {}, passed |-> {}, at |-> 0]

Init ==
  /\ head = 1 /\ modified = FALSE
  /\ call = [c \in Call |-> NoCall]
  /\ receipts = {}

Set(c, fields) == call' = [call EXCEPT ![c] = fields]

(* What the call was asked, what it selects and what it runs.               *)
Opt(c) == call[c].options
Selected(c) ==
  StageGates(call[c].gates, SelectGates(call[c].gates, Opt(c).only), Opt(c).stage)
Runnable(c) == Selected(c) \ call[c].skipped

(* What the command line and the configuration must be.                     *)
Usage(o, gates) ==
  /\ o.stacks # <<>> =>
       Len(o.stacks) >= 2 /\ IsInjective(o.stacks) /\ o.stage = "full"
  /\ o.only \subseteq Ids(gates) /\ gates # <<>>
  /\ Scoped(gates, SelectGates(gates, o.only), o.stage) # {} => o.base # 0

(* The configuration files are anybody's to edit, some of them out of Git's *)
(* sight: a call finds any.                                                 *)
Start(c) ==
  /\ call[c].pc = "idle"
  /\ \E o \in Options :
       \E d \in {LoadConfig(files, o.explicit) : files \in [File -> Document \cup {Nothing}]} :
         /\ d \in Configurations /\ Usage(o, d.gates)
         /\ Set(c, [call[c] EXCEPT !.pc = "loaded", !.options = o, !.gates = d.gates])
  /\ UNCHANGED <<head, modified, receipts>>

(* runGates, before the queue: the commit and the state of the tree, the    *)
(* refusals, and the checks the change does not require.                    *)
Plan(c) ==
  LET gates == call[c].gates
      scoped == Scoped(gates, Selected(c), Opt(c).stage)
      asked == IsFullSuite(gates, Selected(c), Opt(c).stage)
  IN /\ call[c].pc = "loaded"
     /\ Selected(c) # {} /\ Opt(c).base <= head
     /\ Opt(c).stacks # <<>> => asked
     /\ asked /\ modified => Opt(c).anyway
     /\ scoped # {} => Opt(c).base < head
     /\ \E unconcerned \in SUBSET {i \in Ids(gates) : Declared(gates, i).skips} :
          /\ modified => unconcerned = {}
          /\ Set(c, [call[c] EXCEPT
                       !.pc = "planned", !.commit = head, !.dirty = modified,
                       !.skipped = scoped \cap NotRequired(gates, unconcerned)])
     /\ UNCHANGED <<head, modified, receipts>>

(* The suite is dealt to the stacks; the copies that cannot be prepared     *)
(* lose their checks.                                                       *)
Deal(c) ==
  LET gates == call[c].gates
      stacks == Opt(c).stacks
      groups == IF stacks = <<>> THEN {Runnable(c)} \ {{}} ELSE Groups(gates, Runnable(c), stacks)
  IN /\ call[c].pc = "planned"
     /\ stacks # <<>> =>
          \A i \in OnStack(gates, Runnable(c)) : Declared(gates, i).stack = "told"
     /\ \E failed \in SUBSET (IF stacks = <<>> THEN {} ELSE Copies(gates, Runnable(c), stacks)) :
          Set(c, [call[c] EXCEPT
                   !.pc = "dealt", !.groups = groups,
                   !.lost = UNION {InCopy(gates, Runnable(c), stacks, s) : s \in failed}])
     /\ UNCHANGED <<head, modified, receipts>>

(* A refusal: the call ends with nothing written, and may be made again.    *)
Refuse(c) ==
  /\ call[c].pc \in {"loaded", "planned"}
  /\ Set(c, NoCall)
  /\ UNCHANGED <<head, modified, receipts>>

Receipt(c, i, status, at) ==
  [id |-> i, gates |-> call[c].gates, commit |-> call[c].commit, dirty |-> call[c].dirty,
   targeted |-> i \in Targeted(call[c].gates, Selected(c), Opt(c).stage),
   base |-> Opt(c).base, status |-> status, at |-> at]

Ended == {c \in Call : call[c].pc = "ended"}

(* schedule() for each group, with validateDag first (which would throw):   *)
(* nothing runs that depends on a check that did not pass, or in a copy     *)
(* that is not there.  The checks of a call count as started together.      *)
Schedule(c) ==
  /\ call[c].pc = "dealt"
  /\ \A set \in call[c].groups : ValidDag(call[c].gates, set)
  /\ \E passed \in SUBSET (Runnable(c) \ call[c].lost) :
       LET at == Cardinality(Ended) + 1
       IN /\ \A i \in passed : Deps(call[c].gates, i) \subseteq passed
          /\ Set(c, [call[c] EXCEPT !.pc = "ended", !.passed = passed,
                                      !.groups = {}, !.lost = {}, !.at = at])
          /\ receipts' = receipts
               \cup {Receipt(c, i, "passed", at) : i \in passed}
               \cup {Receipt(c, i, "failed", at) : i \in Runnable(c) \ passed}
               \cup {Receipt(c, i, "not_required", at) : i \in call[c].skipped}
  /\ UNCHANGED <<head, modified>>

(* Anybody edits files of the worktree, and commits them.                   *)
Edit ==
  /\ modified' = TRUE
  /\ UNCHANGED <<head, call, receipts>>

CommitAll ==
  /\ modified /\ head < MaxCommits
  /\ head' = head + 1 /\ modified' = FALSE
  /\ UNCHANGED <<call, receipts>>

Next ==
  \/ Edit \/ CommitAll
  \/ \E c \in Call : Start(c) \/ Plan(c) \/ Deal(c) \/ Refuse(c) \/ Schedule(c)

Spec == Init /\ [][Next]_vars
-----------------------------------------------------------------------------
CallRecord ==
  [pc : {"idle", "loaded", "planned", "dealt", "ended"}, options : Options \cup {Nothing},
   gates : Seq(Check), commit : Nat, dirty : BOOLEAN, skipped : SUBSET Id,
   groups : SUBSET SUBSET Id, lost : SUBSET Id, passed : SUBSET Id, at : Nat]

TypeOK ==
  /\ head \in 1..MaxCommits /\ modified \in BOOLEAN
  /\ call \in [Call -> CallRecord]

(* Whatever configuration was accepted, whatever was asked and left out:    *)
(* each plan given to schedule() is one validateDag accepts, the plans hold *)
(* each check to run exactly once, a check asked for runs unless it may be  *)
(* left out or belongs to the full suite.                                   *)
PlansAreSound ==
  \A c \in Call :
    call[c].pc = "dealt" =>
      /\ \A set \in call[c].groups : ValidDag(call[c].gates, set)
      /\ UNION call[c].groups = Runnable(c)
      /\ \A set, other \in call[c].groups : set = other \/ set \cap other = {}
      /\ Opt(c).only # {} => Opt(c).only \subseteq Runnable(c) \cup call[c].skipped
                               \cup Reserved(call[c].gates, Opt(c).only, Opt(c).stage)
      /\ \A i \in call[c].skipped : Declared(call[c].gates, i).skips

(* A check ran in a call, with the command the configuration declares, on   *)
(* the commit alone; in full, or as the targeted one from that base on.     *)
Ran(check, commit, stage, base) ==
  \E c \in Ended :
    /\ check \in Range(call[c].gates) /\ check.id \in call[c].passed
    /\ call[c].commit = commit /\ ~call[c].dirty
    /\ \/ check.stage = "task" \/ Opt(c).stage = "full"
       \/ stage = "task" /\ check.affected /\ Opt(c).base \in 1..base

Waived(check, commit) ==
  \E c \in Ended :
    /\ check \in Range(call[c].gates) /\ check.id \in call[c].skipped
    /\ call[c].commit = commit /\ ~call[c].dirty

(* What a configuration declares of a stage and `verify` finds proven at a  *)
(* commit did run and pass there, as declared, or the check may be left out *)
(* and was: a run of other checks, of some of them, with another file, on a *)
(* modified tree or of a part of the tests never counts for it.             *)
ProvenRan ==
  \A d \in Configurations : \A commit \in 1..head, stage \in {"task", "full"} :
    \A base \in 0..commit :
      Verified(d.gates, commit, stage, base) =>
        \A check \in Range(d.gates) :
          \/ stage = "task" /\ check.stage = "full" /\ ~check.affected
          \/ Ran(check, commit, stage, base)
          \/ check.skips /\ Waived(check, commit)

(* The other way: a call that was asked for nothing in particular and whose *)
(* checks all passed or were not required proves its commit for `verify`,   *)
(* with the same checks, stage and base, until another call runs there.     *)
CompleteRunsProve ==
  \A c \in Ended :
    /\ Opt(c).only = {} /\ ~call[c].dirty
    /\ call[c].passed = Runnable(c)
    /\ Targeted(call[c].gates, Selected(c), Opt(c).stage) # {} => Opt(c).base # 0
    /\ \A k \in Ended : call[k].commit = call[c].commit => call[k].at <= call[c].at
    => Verified(call[c].gates, call[c].commit, Opt(c).stage, Opt(c).base)
=============================================================================
