------------------------------- MODULE RunState -------------------------------
(***************************************************************************)
(* The state of one execution of a spec, src/run/state.ts: the statuses of *)
(* its steps, tasks and reviews, moved by `apv run set` (applySet), its    *)
(* quota pause (applyPause, applyResume) and what `apv run next`           *)
(* (computeNext) reads in it.  Each action is one call on the state of the *)
(* previous one; RunStore says how concurrent callers come to that.        *)
(*                                                                         *)
(* Titles, branches, worktrees, agents, dates and texts are left out; a    *)
(* note is given or not.  Of the journal two facts per task are kept,      *)
(* `forced` and `disturbed`.  applyFullSuiteOverride only adds an event    *)
(* that neither fact depends on: it is a stuttering step here.             *)
(***************************************************************************)
EXTENDS Naturals, Sequences

CONSTANTS
  Task,      \* the tasks of the spec
  Deps,      \* Deps[t]: its dependsOn
  Steps,     \* STEPS, in order; an instance may leave some of them out
  Review,    \* REVIEWS, likewise
  Commit,    \* the commits callers name
  NoCommit   \* no commit recorded or given

Step == {Steps[i] : i \in DOMAIN Steps}
Target == Task \cup Step \cup Review
Status == {"pending", "running", "done", "failed", "skipped"}

(* computeWaves refuses an unknown dependency or a cycle when the execution *)
(* is created.                                                             *)
ASSUME RunAssumption ==
  /\ Deps \in [Task -> SUBSET Task]
  /\ \A S \in SUBSET Task : S # {} => \E t \in S : Deps[t] \cap S = {}
  /\ Steps \in Seq(Step) /\ "integration" \in Step
  /\ Task \cap Step = {} /\ Task \cap Review = {} /\ Step \cap Review = {}
  /\ {"waves", "none"} \cap Step = {}
  /\ NoCommit \notin Commit

VARIABLES
  run,   \* the state file
  head   \* the commits in the ancestry of the integration head

vars == <<run, head>>

RunType ==
  [status : [Target -> Status],
   commit : [Target -> Commit \cup {NoCommit}],
   rated  : SUBSET Target,             \* targets with a confidence noted
   paused : BOOLEAN,
   forced : [Task -> SUBSET Task],     \* `unintegrated` of its last start
   disturbed : [Task -> SUBSET Task]]  \* dependencies reopened or recommitted,
                                       \* with a note, since its last start

\* mutated form of Fresh
FreshWithoutSteps ==
  [status |-> [t \in Task \cup Review |-> "pending"],
   commit |-> [t \in Target |-> NoCommit],
   rated |-> {}, paused |-> FALSE,
   forced |-> [t \in Task |-> {}],
   disturbed |-> [t \in Task |-> {}]]

Fresh ==
  [status |-> [t \in Target |-> "pending"],
   commit |-> [t \in Target |-> NoCommit],
   rated |-> {}, paused |-> FALSE,
   forced |-> [t \in Task |-> {}],
   disturbed |-> [t \in Task |-> {}]]
-----------------------------------------------------------------------------
(* What a call gives: --note, --commit, --confidence, --force-unintegrated *)
Options ==
  [to : Status, note : BOOLEAN, commit : Commit \cup {NoCommit},
   rating : BOOLEAN, force : BOOLEAN]

Transitions ==
  [pending |-> {"running", "done", "skipped", "failed"},
   running |-> {"done", "failed", "pending", "skipped"},
   failed  |-> {"pending", "running", "skipped"},
   skipped |-> {"pending", "running"},
   done    |-> {"running", "pending"}]

Rateable == Task \cup (Step \cap {"fixes"})

(* dependencyGaps                                                          *)
NotDone(r, t) == {d \in Deps[t] : r.status[d] # "done"}
NotIntegrated(r, h, t) == {d \in Deps[t] : r.status[d] = "done" /\ r.commit[d] \notin h}

Starts(r, t, o) == t \in Task /\ o.to = "running" /\ r.status[t] # "running"
Recommits(r, t, o) ==
  /\ r.status[t] = "done" /\ o.to = "done"
  /\ NoCommit \notin {o.commit, r.commit[t]} /\ o.commit # r.commit[t]

\* mutated form of Disturbs
DisturbsOnlyByReopening(r, t, o) == r.status[t] = "done" /\ o.to # "done"

(* The changes of finished work, which need a note.                        *)
Disturbs(r, t, o) ==
  \/ r.status[t] = "done" /\ o.to # "done"
  \/ Recommits(r, t, o)

\* mutated form of Accepts
AcceptsDoneWithoutCommit(r, h, t, o) ==
  /\ o.to = r.status[t] \/ o.to \in Transitions[r.status[t]]
  /\ Disturbs(r, t, o) => o.note
  /\ t \in Task /\ o.to = "running" => NotDone(r, t) = {}

Accepts(r, h, t, o) ==
  LET from == r.status[t] IN
  /\ o.to = from \/ o.to \in Transitions[from]
  /\ ~(t = "securite" /\ o.to = "skipped")
  /\ t \in Review /\ o.to = "skipped" /\ from # "skipped" => o.note
  /\ Disturbs(r, t, o) => o.note
  /\ t \in Task /\ o.to = "running" => NotDone(r, t) = {}
  /\ Starts(r, t, o) /\ NotIntegrated(r, h, t) # {} => o.force /\ o.note
  /\ t \in Task /\ o.to = "done" => o.commit # NoCommit
  /\ o.rating => t \in Rateable /\ o.to = "done"

\* mutated form of AfterSet
AfterSetKeepingPause(r, h, t, o) ==
  [r EXCEPT !.status[t] = o.to, !.commit[t] = IF o.commit = NoCommit THEN @ ELSE o.commit]

(* The state written by an accepted call; any call ends an open pause.     *)
AfterSet(r, h, t, o) ==
  [status |-> [r.status EXCEPT ![t] = o.to],
   commit |-> IF o.commit = NoCommit THEN r.commit ELSE [r.commit EXCEPT ![t] = o.commit],
   rated |-> IF o.to # "done" THEN r.rated \ {t}
             ELSE IF o.rating THEN r.rated \cup {t} ELSE r.rated,
   paused |-> FALSE,
   forced |-> IF Starts(r, t, o)
              THEN [r.forced EXCEPT ![t] = NotIntegrated(r, h, t)] ELSE r.forced,
   disturbed |-> [x \in Task |->
     IF x = t /\ Starts(r, t, o) THEN {}
     ELSE IF t \in Deps[x] /\ Disturbs(r, t, o)
          THEN r.disturbed[x] \cup {t} ELSE r.disturbed[x]]]

-----------------------------------------------------------------------------
(* computeNext                                                             *)
Finished(r, t) == r.status[t] \in {"done", "skipped"}
UnfinishedTasks(r) == {t \in Task : ~Finished(r, t)}

(* The first unfinished step, with the waves before the integration.       *)
OpenSteps(r) ==
  {i \in DOMAIN Steps :
     ~Finished(r, Steps[i]) \/ (Steps[i] = "integration" /\ UnfinishedTasks(r) # {})}

First(S) == CHOOSE i \in S : \A j \in S : i <= j

CurrentStep(r) ==
  IF OpenSteps(r) = {} THEN "none"
  ELSE LET i == First(OpenSteps(r))
       IN IF Steps[i] = "integration" /\ UnfinishedTasks(r) # {} THEN "waves" ELSE Steps[i]

Pending(r) == {t \in Task : r.status[t] = "pending"}
Blocked(r) == {t \in Pending(r) : NotDone(r, t) # {}}

Ready(r, h) == {t \in Pending(r) \ Blocked(r) : NotIntegrated(r, h, t) = {}}
Awaiting(r, h) == {t \in Pending(r) \ Blocked(r) : NotIntegrated(r, h, t) # {}}
UnderWay(r) == {t \in Task : r.status[t] = "running"}   \* to resume or relaunch

\* mutated form of ToDecide
NothingToDecide(r) == {}

ToDecide(r) == {t \in Task : r.status[t] = "failed"}

ReviewsToLaunch(r) ==
  IF UnfinishedTasks(r) = {} /\ Finished(r, "integration")
  THEN {d \in Review : r.status[d] \in {"pending", "failed"}} ELSE {}

(* What `apv run next` lists, whatever the step: the pause, the work under *)
(* way, the failures.                                                      *)
StandingActions(r) ==
  {[do |-> "resume the run", of |-> x] : x \in {y \in {"none"} : r.paused}}
  \cup {[do |-> "take up", of |-> t] : t \in UnderWay(r)}
  \cup {[do |-> "decide", of |-> t] : t \in ToDecide(r)}

ToIntegrate(r, h) == UNION {NotIntegrated(r, h, t) : t \in Awaiting(r, h)}
NoTaskToName(r, h) == Ready(r, h) \cup ToIntegrate(r, h) \cup UnderWay(r) \cup ToDecide(r) = {}

\* mutated form of WaveActions
WaveActionsAwaiting(r, h) ==
  {[do |-> "launch", of |-> t] : t \in Ready(r, h)}
  \cup {[do |-> "integrate", of |-> t] : t \in Awaiting(r, h)}
  \cup {[do |-> "check dependencies", of |-> x] : x \in {y \in {"none"} : NoTaskToName(r, h)}}

(* Every ready task now, whatever its wave, and what others wait for.      *)
WaveActions(r, h) ==
  {[do |-> "launch", of |-> t] : t \in Ready(r, h)}
  \cup {[do |-> "integrate", of |-> d] : d \in ToIntegrate(r, h)}
  \cup {[do |-> "check dependencies", of |-> x] : x \in {y \in {"none"} : NoTaskToName(r, h)}}

(* What the current step adds.                                             *)
StepActions(r, h) ==
  LET step == CurrentStep(r) IN
  IF step = "none" THEN {[do |-> "over", of |-> step]}
  ELSE IF step = "waves" THEN WaveActions(r, h)
  ELSE IF step = "reviews" /\ ReviewsToLaunch(r) # {}
       THEN {[do |-> "launch", of |-> d] : d \in ReviewsToLaunch(r)}
       ELSE {[do |-> "finish", of |-> step]}

Actions(r, h) == StandingActions(r) \cup StepActions(r, h)
-----------------------------------------------------------------------------
Init == run = Fresh /\ head \in SUBSET Commit

Set(t, o) ==
  /\ Accepts(run, head, t, o)
  /\ run' = AfterSet(run, head, t, o)
  /\ UNCHANGED head

(* applyPause: a second pause extends the first.                           *)
Pause ==
  /\ CurrentStep(run) # "none"
  /\ run' = [run EXCEPT !.paused = TRUE]
  /\ UNCHANGED head

Resume ==
  /\ run.paused
  /\ run' = [run EXCEPT !.paused = FALSE]
  /\ UNCHANGED head

(* A commit is integrated in the branch of the spec: by git, outside of    *)
(* the tool.                                                               *)
Integrate(c) ==
  /\ head' = head \cup {c}
  /\ UNCHANGED run

Next ==
  \/ \E t \in Target, o \in Options : Set(t, o)
  \/ Pause \/ Resume
  \/ \E c \in Commit : Integrate(c)

Spec == Init /\ [][Next]_vars
-----------------------------------------------------------------------------
(* The values every variable may take.                                     *)
TypeOK == run \in RunType /\ head \in SUBSET Commit

(* A task runs only on finished and integrated dependencies; where it does *)
(* not, the journal says so: the start was forced over that dependency, or *)
(* the dependency was reopened or recommitted, with a note, since.         *)
Justified(r, h) ==
  \A t \in Task : r.status[t] = "running" =>
    \A d \in Deps[t] :
      \/ d \in r.disturbed[t]
      \/ r.status[d] = "done" /\ (r.commit[d] \in h \/ d \in r.forced[t])
RunningIsJustified == Justified(run, head)

(* What finished work rests on: a task done names its commit, whichever    *)
(* way it got there, and a confidence speaks of work that is done now.     *)
Accounted(r) ==
  /\ \A t \in Task : r.status[t] = "done" => r.commit[t] # NoCommit
  /\ \A t \in r.rated : r.status[t] = "done"
FinishedWorkIsAccounted == Accounted(run)

(* No execution ends paused: `apv run next` would hide that it is over.    *)
PausedIsUnfinished == run.paused => CurrentStep(run) # "none"

Plain == [to |-> "running", note |-> FALSE, commit |-> NoCommit, rating |-> FALSE, force |-> FALSE]
Forced == [Plain EXCEPT !.note = TRUE, !.force = TRUE]

(* `Meme regle que set`: what `apv run next` calls ready, awaiting an      *)
(* integration or blocked is what `apv run set running` accepts, accepts   *)
(* by force only, or refuses; what it lists to launch, a task or a review, *)
(* may be launched; and once the commits it lists to integrate are in the  *)
(* head, every task that waited is ready and nothing is left to integrate. *)
NextAgreesWithSet ==
  /\ \A t \in Pending(run) :
       /\ t \in Ready(run, head) <=> Accepts(run, head, t, Plain)
       /\ t \in Awaiting(run, head) <=>
            ~Accepts(run, head, t, Plain) /\ Accepts(run, head, t, Forced)
       /\ t \in Blocked(run) <=> ~Accepts(run, head, t, Forced)
  /\ \A x \in Actions(run, head) : x.do = "launch" => Accepts(run, head, x.of, Plain)
  /\ LET listed == {x \in WaveActions(run, head) : x.do = "integrate"}
         after == head \cup {run.commit[x.of] : x \in listed}
     IN Awaiting(run, after) = {} /\ Ready(run, after) = Pending(run) \ Blocked(run)

(* While tasks remain, `apv run next` names one to launch, to integrate,   *)
(* to take up or to decide of; it only says to check the dependencies when *)
(* a skipped one is in the way.                                            *)
HasWork(r, h) ==
  \/ CurrentStep(r) # "waves"
  \/ \E x \in Actions(r, h) : x.do \in {"launch", "integrate", "take up", "decide"}
  \/ \E t \in Pending(r) : \E d \in Deps[t] : r.status[d] = "skipped"
WavesHaveWork == HasWork(run, head)
=============================================================================
