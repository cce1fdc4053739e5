------------------------------ MODULE Servers -------------------------------
(* Five parts that do not interact, side by side: the preview server       *)
(* (Preview), the stacks stopped when idle (IdleStacks), a batch and a     *)
(* stack of pull requests (BatchMerge, StackMerge) and the rhythm of the   *)
(* full suite (Rhythm).  A behaviour is one of the part chosen at the      *)
(* start; the variables of the others keep the value Idle.                 *)
EXTENDS Naturals, Sequences, FiniteSets

CONSTANTS
  Nobody,                                                          \* of several parts
  Call, Updates, Repo, Commit, Foreign, MaxMishaps,                \* Preview
  Watcher, Starter, User, After, MaxGap, MaxTime,                  \* IdleStacks
  PR, Batch, Clash, Other, Bisect, Merge, Breaks, MaxOutside,      \* BatchMerge
  N, MaxOthers,                                                    \* StackMerge
  Id, Checkout, MainCheckout, Branch, OnFirst, ModeAt, MaxMoves, MaxCommits \* Rhythm

VARIABLES
  part,
  lock, record, pc, seen, target, proven, moves,
  copy, server, port, shown, ready, mishaps, lapsed,
  now, since, noteAgo, longAgo, stop,
  odd, unfit, whole, calls, culprits, interaction, merged, stopped, accepted,
  aborted, base, state, moved, queued, breaks, faithful, passed,
  prs, others, opts, i, plan, coherent, pr, compared, journal, report,
  merges,
  on, spot, head, commits, files, home, cmd

pvOnly == <<copy, server, port, shown, ready, mishaps, lapsed>>
isOnly == <<now, since, noteAgo, longAgo, stop>>
bmOnly == <<odd, unfit, whole, calls, culprits, interaction, merged, stopped,
            accepted, aborted, base, state, moved, queued, breaks, faithful,
            passed>>
smOnly == <<prs, others, opts, i, plan, coherent, pr, compared, journal,
            report, merges>>
rhOnly == <<on, spot, head, commits, files, home, cmd>>
common == <<lock, record, pc, seen, target, proven, moves>>
vars == <<part, common, pvOnly, isOnly, bmOnly, smOnly, rhOnly>>
-----------------------------------------------------------------------------
PV == INSTANCE Preview
IS == INSTANCE IdleStacks
BM == INSTANCE BatchMerge WITH MaxMoves <- MaxOutside
SM == INSTANCE StackMerge
RH == INSTANCE Rhythm

ASSUME ServersAssumption ==
  /\ PV!PreviewAssumption /\ IS!IdleStacksAssumption /\ BM!BatchAssumption
  /\ SM!StackAssumption /\ RH!RhythmAssumption
-----------------------------------------------------------------------------
Idle == "idle"
pvIdle ==
  /\ copy = Idle /\ server = Idle /\ port = Idle /\ shown = Idle
  /\ ready = Idle /\ mishaps = Idle /\ lapsed = Idle
isIdle ==
  /\ now = Idle /\ since = Idle /\ noteAgo = Idle /\ longAgo = Idle
  /\ stop = Idle
bmIdle ==
  /\ odd = Idle /\ unfit = Idle /\ whole = Idle /\ calls = Idle /\ culprits = Idle
  /\ interaction = Idle /\ merged = Idle /\ stopped = Idle
  /\ accepted = Idle /\ aborted = Idle /\ base = Idle /\ state = Idle
  /\ moved = Idle /\ queued = Idle /\ breaks = Idle /\ faithful = Idle
  /\ passed = Idle
smIdle ==
  /\ prs = Idle /\ others = Idle /\ opts = Idle /\ i = Idle
  /\ plan = Idle /\ coherent = Idle /\ pr = Idle /\ compared = Idle
  /\ journal = Idle /\ report = Idle /\ merges = Idle
rhIdle ==
  /\ on = Idle /\ spot = Idle /\ head = Idle /\ commits = Idle
  /\ files = Idle /\ home = Idle /\ cmd = Idle

Init ==
  \/ /\ part = "preview" /\ PV!Init
     /\ proven = Idle /\ moves = Idle /\ isIdle /\ bmIdle
     /\ smIdle /\ rhIdle
  \/ /\ part = "stacks" /\ IS!Init
     /\ target = Idle /\ proven = Idle /\ moves = Idle /\ pvIdle
     /\ bmIdle /\ smIdle /\ rhIdle
  \/ /\ part = "batch" /\ BM!Init
     /\ lock = Idle /\ record = Idle /\ pvIdle /\ isIdle /\ smIdle
     /\ rhIdle
  \/ /\ part = "merge" /\ SM!Init
     /\ lock = Idle /\ record = Idle /\ seen = Idle /\ proven = Idle
     /\ moves = Idle /\ pvIdle /\ isIdle /\ bmIdle /\ rhIdle
  \/ /\ part = "rhythm" /\ RH!Init
     /\ lock = Idle /\ record = Idle /\ pc = Idle /\ seen = Idle
     /\ target = Idle /\ pvIdle /\ isIdle /\ bmIdle /\ smIdle

StepPV ==
  /\ part = "preview" /\ PV!Next
  /\ UNCHANGED <<part, proven, moves, isOnly, bmOnly, smOnly, rhOnly>>
StepIS ==
  /\ part = "stacks" /\ IS!Next
  /\ UNCHANGED <<part, target, proven, moves, pvOnly, bmOnly, smOnly,
                  rhOnly>>
StepBM ==
  /\ part = "batch" /\ BM!Next
  /\ UNCHANGED <<part, lock, record, pvOnly, isOnly, smOnly, rhOnly>>
StepSM ==
  /\ part = "merge" /\ SM!Next
  /\ UNCHANGED <<part, lock, record, seen, proven, moves, pvOnly, isOnly,
                  bmOnly, rhOnly>>
StepRH ==
  /\ part = "rhythm" /\ RH!Next
  /\ UNCHANGED <<part, lock, record, pc, seen, target, pvOnly, isOnly,
                  bmOnly, smOnly>>

Next ==
  StepPV \/ StepIS \/ StepBM \/ StepSM \/ StepRH

(* The fairness of BatchMerge; nothing is assumed of the other parts.      *)
bmVars == <<pc, seen, target, proven, bmOnly>>
Fairness == WF_bmVars(part = "batch" /\ BM!BatchStep) /\ WF_bmVars(part = "batch" /\ BM!GitHub)

Spec == Init /\ [][Next]_vars /\ Fairness
-----------------------------------------------------------------------------
(* Preview: a server that runs is in the record of its worktree or in the  *)
(* hands of a call; each one in neither has a killed call or a group that  *)
(* survives SIGKILL as its cause, while no lease ran out.  Between         *)
(* two calls the record names the last commit reported ready, its server   *)
(* runs from a copy of that commit, and what was reported ready was the    *)
(* server of that call.                                                    *)
ServersAreAccounted == part = "preview" => PV!NoServerForgotten /\ PV!RecordIsTruthful

(* IdleStacks: whatever notes are lost or late and whichever watchers      *)
(* overlap, a stop never runs under a user, and never less than the idle   *)
(* delay after a use longer than the gap allowed between two observations. *)
LongUsesRespected == part = "stacks" => IS!LongUsesRespected

(* BatchMerge: what is merged passed a full suite as a lot, in the order   *)
(* of the merges, and holds nobody the bisection isolated or whose change  *)
(* a lot cannot prove; one that lands on a content nobody proved is the    *)
(* last, and the batch ends stopped.                                       *)
OnlyProvenLotsLand == part = "batch" => BM!OnlyProvenLotsLand /\ BM!AStrayMergeIsTheLast

(* BatchMerge: a merge the report names was made; one the batch caused and *)
(* does not name is that of the pull request it stopped at; a batch that   *)
(* is done merged its whole lot. The bisection isolates exactly the faulty *)
(* pull requests, when each breaks the suite alone, the target holds none  *)
(* of them and the suite says the same every time.                         *)
BatchIsTruthful == part = "batch" => BM!ReportIsHonest /\ BM!BisectionIsExact

(* BatchMerge: the batch ends, whatever the verdicts and whatever others   *)
(* do.                                                                     *)
BatchEnds == part = "batch" => <>(part = "batch" => BM!Ended)

(* StackMerge: every merge is of the head whose checks were read, on a     *)
(* target that had what the earlier merges brought; a head that lacked     *)
(* changes of the target is in the journal. The report names a prefix of   *)
(* the stack, each pull request of it merged into the target; a merge that *)
(* could not be established, or went to another branch, is the last one.   *)
MergedAsVerified == part = "merge" => SM!MergedAsVerified /\ SM!ReportIsHonest

(* Rhythm: an execution started in one checkout, which still holds it, is  *)
(* judged by that state, whatever copies the commits brought to the        *)
(* others: when it expects the level of a task, a full suite of one of its *)
(* branches starts only with its override in that very state, and no       *)
(* execution of a branch goes unseen.                                      *)
SuitesInRhythm == part = "rhythm" => RH!SuitesInRhythm
=============================================================================
