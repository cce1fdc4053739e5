---------------------------- MODULE RunStateProofs ----------------------------
(***************************************************************************)
(* Theorems about RunState for every set of tasks, every acyclic           *)
(* dependsOn, every list of steps and reviews, and every set of commits.   *)
(*                                                                         *)
(* The inductive invariant adds to the properties what applySet relies on  *)
(* without checking: a task that is done has a commit to compare the next  *)
(* one with, so that a silent replacement is always noticed.               *)
(***************************************************************************)
EXTENDS RunState, WellFoundedInduction, TLAPS

IInv ==
  /\ TypeOK
  /\ FinishedWorkIsAccounted
  /\ RunningIsJustified
  /\ PausedIsUnfinished

(* The parts of RunAssumption the proofs cite.                             *)
LEMMA RunTypes ==
  /\ \A t \in Task : Deps[t] \subseteq Task
  /\ Task \subseteq Target /\ Review \subseteq Target
  /\ NoCommit \notin Commit
BY RunAssumption DEF RunAssumption, Target

(* A state that start creates has every field, and nothing in it.          *)
LEMMA FreshType == Fresh \in RunType
BY DEF Fresh, RunType, Status

(* applySet keeps the shape of the state.                                  *)
LEMMA AfterSetType ==
  ASSUME NEW r \in RunType, NEW h, NEW t \in Target, NEW o \in Options
  PROVE  AfterSet(r, h, t, o) \in RunType
<1>1. NotIntegrated(r, h, t) \in SUBSET Task \/ t \notin Task
  BY RunTypes DEF NotIntegrated
<1>2. [r.status EXCEPT ![t] = o.to] \in [Target -> Status]
  BY DEF RunType, Options
<1>3. (IF o.commit = NoCommit THEN r.commit ELSE [r.commit EXCEPT ![t] = o.commit])
        \in [Target -> Commit \cup {NoCommit}]
  BY DEF RunType, Options
<1>4. (IF o.to # "done" THEN r.rated \ {t}
       ELSE IF o.rating THEN r.rated \cup {t} ELSE r.rated) \in SUBSET Target
  BY DEF RunType
<1>5. (IF Starts(r, t, o) THEN [r.forced EXCEPT ![t] = NotIntegrated(r, h, t)]
       ELSE r.forced) \in [Task -> SUBSET Task]
  BY <1>1 DEF RunType, Starts
<1>6. [x \in Task |-> IF x = t /\ Starts(r, t, o) THEN {}
                      ELSE IF t \in Deps[x] /\ Disturbs(r, t, o)
                           THEN r.disturbed[x] \cup {t} ELSE r.disturbed[x]]
        \in [Task -> SUBSET Task]
  BY RunTypes DEF RunType
<1> QED
  BY <1>2, <1>3, <1>4, <1>5, <1>6 DEF AfterSet, RunType

(* Every value the state file takes has the shape of RunType.              *)
LEMMA TypeStep == TypeOK /\ [Next]_vars => TypeOK'
<1> SUFFICES ASSUME TypeOK, [Next]_vars PROVE TypeOK'
  OBVIOUS
<1>1. ASSUME NEW t \in Target, NEW o \in Options, Set(t, o) PROVE TypeOK'
  BY <1>1, AfterSetType DEF TypeOK, Set
<1>2. CASE Pause
  BY <1>2 DEF TypeOK, Pause, RunType
<1>3. CASE Resume
  BY <1>3 DEF TypeOK, Resume, RunType
<1>4. ASSUME NEW c \in Commit, Integrate(c) PROVE TypeOK'
  BY <1>4 DEF TypeOK, Integrate
<1>5. CASE UNCHANGED vars
  BY <1>5 DEF TypeOK, vars
<1> QED
  BY <1>1, <1>2, <1>3, <1>4, <1>5 DEF Next

(* applySet keeps the account of finished work.                            *)
LEMMA SetAccounted ==
  ASSUME NEW r \in RunType, NEW h, NEW t \in Target, NEW o \in Options,
         Accounted(r), Accepts(r, h, t, o)
  PROVE  Accounted(AfterSet(r, h, t, o))
<1> DEFINE q == AfterSet(r, h, t, o)
<1>1. q = AfterSet(r, h, t, o) /\ Accepts(r, h, t, o) /\ Accounted(r)
  OBVIOUS
<1> HIDE DEF q
<1> USE DEF Accounted
<1>2. q.status = [r.status EXCEPT ![t] = o.to]
  BY <1>1 DEF AfterSet
<1>3. q.commit = IF o.commit = NoCommit THEN r.commit
                    ELSE [r.commit EXCEPT ![t] = o.commit]
  BY <1>1 DEF AfterSet
<1>4. q.rated = IF o.to # "done" THEN r.rated \ {t}
                   ELSE IF o.rating THEN r.rated \cup {t} ELSE r.rated
  BY <1>1 DEF AfterSet
<1>5. ASSUME NEW x \in Task, q.status[x] = "done" PROVE q.commit[x] # NoCommit
  <2>1. CASE x = t
    BY <1>1, <1>2, <1>3, <1>5, <2>1, RunTypes DEF RunType, Accepts, Options
  <2>2. CASE x # t
    BY <1>2, <1>3, <1>5, <2>2, RunTypes DEF RunType
  <2> QED
    BY <2>1, <2>2
<1>6. ASSUME NEW x \in q.rated PROVE q.status[x] = "done"
  BY <1>2, <1>4, <1>6 DEF RunType
<1> QED
  BY <1>1, <1>5, <1>6

(* So does every step.                                                     *)
LEMMA FinishedStep ==
  ASSUME TypeOK, FinishedWorkIsAccounted, [Next]_vars
  PROVE  FinishedWorkIsAccounted'
<1> USE DEF FinishedWorkIsAccounted
<1>1. ASSUME NEW t \in Target, NEW o \in Options, Set(t, o)
      PROVE FinishedWorkIsAccounted'
  BY <1>1, SetAccounted DEF Set, TypeOK
<1>2. CASE Pause
  BY <1>2 DEF Accounted, Pause, TypeOK, RunType
<1>3. CASE Resume
  BY <1>3 DEF Accounted, Resume, TypeOK, RunType
<1>4. ASSUME NEW c \in Commit, Integrate(c) PROVE FinishedWorkIsAccounted'
  BY <1>4 DEF Integrate
<1>5. CASE UNCHANGED vars
  BY <1>5 DEF vars
<1> QED
  BY <1>1, <1>2, <1>3, <1>4, <1>5 DEF Next

(* What justifies a running task outlives every call: a call that takes a  *)
(* dependency away needs a note, and is journaled.                         *)
LEMMA SetJustified ==
  ASSUME NEW r \in RunType, NEW h, NEW t \in Target, NEW o \in Options,
         Accounted(r), Justified(r, h), Accepts(r, h, t, o)
  PROVE  Justified(AfterSet(r, h, t, o), h)
<1> DEFINE q == AfterSet(r, h, t, o)
<1>1. q = AfterSet(r, h, t, o) /\ Accepts(r, h, t, o)
  OBVIOUS
<1> HIDE DEF q
<1> SUFFICES ASSUME NEW x \in Task, q.status[x] = "running", NEW d \in Deps[x]
             PROVE  \/ d \in q.disturbed[x]
                    \/ /\ q.status[d] = "done"
                       /\ q.commit[d] \in h \/ d \in q.forced[x]
  BY <1>1 DEF Justified
<1>2. q.status = [r.status EXCEPT ![t] = o.to]
  BY <1>1 DEF AfterSet
<1>3. q.commit = IF o.commit = NoCommit THEN r.commit
                    ELSE [r.commit EXCEPT ![t] = o.commit]
  BY <1>1 DEF AfterSet
<1>4. q.forced = IF Starts(r, t, o)
                    THEN [r.forced EXCEPT ![t] = NotIntegrated(r, h, t)]
                    ELSE r.forced
  BY <1>1 DEF AfterSet
<1>5. q.disturbed[x] = IF x = t /\ Starts(r, t, o) THEN {}
                          ELSE IF t \in Deps[x] /\ Disturbs(r, t, o)
                               THEN r.disturbed[x] \cup {t} ELSE r.disturbed[x]
  BY <1>1 DEF AfterSet
<1>6. d \in Task /\ d \in Target /\ x \in Target
  BY RunTypes
<1>7. CASE x = t /\ Starts(r, t, o)
  <2>1. NotDone(r, x) = {} /\ d # x
    <3>1. NotDone(r, x) = {}
      BY <1>1, <1>7 DEF Accepts, Starts
    <3>2. r.status[x] # "running"
      BY <1>7 DEF Starts
    <3>3. {x} \in SUBSET Task /\ {x} # {}
      OBVIOUS
    <3>4. x \notin Deps[x]
      BY <3>3, RunAssumption DEF RunAssumption
    <3> QED
      BY <3>1, <3>4
  <2>2. r.status[d] = "done"
    BY <2>1 DEF NotDone
  <2>3. q.status[d] = "done" /\ q.commit[d] = r.commit[d]
    BY <1>2, <1>3, <1>6, <1>7, <2>1, <2>2 DEF RunType
  <2>4. r.commit[d] \in h \/ d \in NotIntegrated(r, h, x)
    BY <2>2 DEF NotIntegrated
  <2>5. q.forced[x] = NotIntegrated(r, h, x)
    BY <1>4, <1>7 DEF RunType
  <2> QED
    BY <1>1, <2>3, <2>4, <2>5
<1>8. CASE ~(x = t /\ Starts(r, t, o))
  <2>1. r.status[x] = "running"
    BY <1>2, <1>6, <1>8 DEF Starts, RunType
  <2>2. q.forced[x] = r.forced[x]
    BY <1>4, <1>8 DEF RunType
  <2>3. r.disturbed[x] \subseteq q.disturbed[x]
    BY <1>5, <1>8
  <2>4. CASE d \in r.disturbed[x]
    BY <2>3, <2>4
  <2>5. CASE r.status[d] = "done" /\ (r.commit[d] \in h \/ d \in r.forced[x])
    <3>1. CASE d = t /\ Disturbs(r, t, o)
      BY <1>5, <1>8, <3>1
    <3>2. CASE d = t /\ ~Disturbs(r, t, o)
      <4>1. o.to = "done"
        BY <2>5, <3>2 DEF Disturbs
      <4>2. r.commit[d] # NoCommit
        BY <1>6, <2>5 DEF Accounted
      <4>3. o.commit = NoCommit \/ o.commit = r.commit[d]
        BY <2>5, <3>2, <4>1, <4>2 DEF Disturbs, Recommits
      <4>4. q.status[d] = "done" /\ q.commit[d] = r.commit[d]
        BY <1>2, <1>3, <1>6, <3>2, <4>1, <4>3 DEF RunType
      <4> QED
        BY <1>1, <2>2, <2>5, <4>4
    <3>3. CASE d # t
      <4>1. q.status[d] = "done" /\ q.commit[d] = r.commit[d]
        BY <1>2, <1>3, <1>6, <2>5, <3>3 DEF RunType
      <4> QED
        BY <1>1, <2>2, <2>5, <4>1
    <3> QED
      BY <3>1, <3>2, <3>3
  <2> QED
    BY <2>1, <2>4, <2>5 DEF Justified
<1> QED
  BY <1>7, <1>8

(* A commit more in the head takes nothing away.                           *)
LEMMA HeadGrows == \A r, h, c : Justified(r, h) => Justified(r, h \cup {c})
BY DEF Justified

(* So a running task stays justified whatever the step.                    *)
LEMMA JustifiedStep ==
  ASSUME TypeOK, FinishedWorkIsAccounted, RunningIsJustified, [Next]_vars
  PROVE  RunningIsJustified'
<1> USE DEF RunningIsJustified
<1>1. ASSUME NEW t \in Target, NEW o \in Options, Set(t, o)
      PROVE RunningIsJustified'
  BY <1>1, SetJustified DEF Set, TypeOK, FinishedWorkIsAccounted
<1>2. CASE Pause
  BY <1>2 DEF Pause, Justified, TypeOK, RunType
<1>3. CASE Resume
  BY <1>3 DEF Resume, Justified, TypeOK, RunType
<1>4. ASSUME NEW c \in Commit, Integrate(c) PROVE RunningIsJustified'
  BY <1>4, HeadGrows DEF Integrate
<1>5. CASE UNCHANGED vars
  BY <1>5 DEF vars
<1> QED
  BY <1>1, <1>2, <1>3, <1>4, <1>5 DEF Next

(* Where the execution stands does not depend on the pause.                *)
LEMMA PauseKeepsStep ==
  ASSUME NEW r \in RunType, NEW b \in BOOLEAN
  PROVE  CurrentStep([r EXCEPT !.paused = b]) = CurrentStep(r)
<1> DEFINE q == [r EXCEPT !.paused = b]
<1>1. q.status = r.status
  BY DEF RunType
<1>2. \A t : Finished(q, t) <=> Finished(r, t)
  BY <1>1 DEF Finished
<1>3. UnfinishedTasks(q) = UnfinishedTasks(r)
  BY <1>2 DEF UnfinishedTasks
<1>4. OpenSteps(q) = OpenSteps(r)
  BY <1>2, <1>3 DEF OpenSteps
<1> HIDE DEF q
<1>5. CurrentStep(q) = CurrentStep(r)
  BY <1>3, <1>4 DEF CurrentStep
<1> QED
  BY <1>5 DEF q

(* A transition ends the pause, and only an unfinished execution pauses.   *)
LEMMA PausedStep ==
  ASSUME TypeOK, PausedIsUnfinished, [Next]_vars
  PROVE  PausedIsUnfinished'
<1>1. ASSUME NEW t \in Target, NEW o \in Options, Set(t, o)
      PROVE PausedIsUnfinished'
  BY <1>1 DEF Set, AfterSet, PausedIsUnfinished
<1>2. CASE Pause
  BY <1>2, PauseKeepsStep DEF Pause, PausedIsUnfinished, TypeOK
<1>3. CASE Resume
  BY <1>3 DEF Resume, PausedIsUnfinished, TypeOK, RunType
<1>4. ASSUME NEW c \in Commit, Integrate(c) PROVE PausedIsUnfinished'
  BY <1>4 DEF Integrate, PausedIsUnfinished
<1>5. CASE UNCHANGED vars
  BY <1>5 DEF vars, PausedIsUnfinished
<1> QED
  BY <1>1, <1>2, <1>3, <1>4, <1>5 DEF Next

(* The inductive invariant holds of every reachable state.                 *)
THEOREM InvariantHolds == Spec => []IInv
<1>1. Init => IInv
  <2> SUFFICES ASSUME Init PROVE IInv
    OBVIOUS
  <2>1. TypeOK
    BY FreshType DEF Init, TypeOK
  <2>2. FinishedWorkIsAccounted /\ RunningIsJustified /\ PausedIsUnfinished
    BY RunTypes
    DEF Init, Fresh, FinishedWorkIsAccounted, Accounted, RunningIsJustified, Justified,
        PausedIsUnfinished
  <2> QED
    BY <2>1, <2>2 DEF IInv
<1>2. IInv /\ [Next]_vars => IInv'
  BY TypeStep, FinishedStep, JustifiedStep, PausedStep DEF IInv
<1> QED
  BY <1>1, <1>2, PTL DEF Spec

(* Every value of the state file has the shape of the schema.              *)
THEOREM TypeCorrect == Spec => []TypeOK
BY InvariantHolds, PTL DEF IInv

(* A task runs on finished, integrated dependencies, or the journal says   *)
(* which one it does without.                                              *)
THEOREM RunningIsJustifiedCorrect == Spec => []RunningIsJustified
BY InvariantHolds, PTL DEF IInv

(* A task done names its commit, and only finished work is rated.          *)
THEOREM FinishedWorkCorrect == Spec => []FinishedWorkIsAccounted
BY InvariantHolds, PTL DEF IInv

(* An execution that is over is never paused.                              *)
THEOREM PausedIsUnfinishedCorrect == Spec => []PausedIsUnfinished
BY InvariantHolds, PTL DEF IInv

(* What computeNext calls ready, awaiting or blocked is what applySet      *)
(* accepts, accepts by force or refuses, in every well-shaped state.       *)
LEMMA NextAgrees == TypeOK => NextAgreesWithSet
<1> SUFFICES ASSUME TypeOK PROVE NextAgreesWithSet
  OBVIOUS
<1>1. ASSUME NEW t \in Pending(run)
      PROVE  /\ Accepts(run, head, t, Plain) <=> NotDone(run, t) = {} /\ NotIntegrated(run, head, t) = {}
             /\ Accepts(run, head, t, Forced) <=> NotDone(run, t) = {}
  <2>1. t \in Task /\ t \notin Review /\ run.status[t] = "pending"
    BY RunAssumption DEF Pending, RunAssumption
  <2>2. "running" \in Transitions["pending"]
    BY DEF Transitions
  <2>3. /\ Plain.to = "running" /\ ~Plain.note /\ Plain.commit = NoCommit
        /\ ~Plain.rating /\ ~Plain.force
        /\ Forced.to = "running" /\ Forced.note /\ Forced.commit = NoCommit
        /\ ~Forced.rating /\ Forced.force
    BY DEF Plain, Forced
  <2>4. /\ ~Disturbs(run, t, Plain) /\ ~Disturbs(run, t, Forced)
        /\ Starts(run, t, Plain) /\ Starts(run, t, Forced)
    BY <2>1, <2>3 DEF Disturbs, Recommits, Starts
  <2>5. Accepts(run, head, t, Plain) <=> NotDone(run, t) = {} /\ NotIntegrated(run, head, t) = {}
    BY <2>1, <2>2, <2>3, <2>4 DEF Accepts
  <2>6. Accepts(run, head, t, Forced) <=> NotDone(run, t) = {}
    BY <2>1, <2>2, <2>3, <2>4 DEF Accepts
  <2> QED
    BY <2>5, <2>6
<1>2. ASSUME NEW d \in ReviewsToLaunch(run) PROVE Accepts(run, head, d, Plain)
  <2>1. d \in Review /\ d \notin Task /\ run.status[d] \in {"pending", "failed"}
    BY RunAssumption DEF ReviewsToLaunch, RunAssumption
  <2>2. "running" \in Transitions["pending"] /\ "running" \in Transitions["failed"]
    BY DEF Transitions
  <2>3. Plain.to = "running" /\ ~Plain.rating
    BY DEF Plain
  <2> QED
    BY <2>1, <2>2, <2>3 DEF Accepts, Disturbs, Recommits, Starts
<1>3. ASSUME NEW x \in Actions(run, head), x.do = "launch"
      PROVE  Accepts(run, head, x.of, Plain)
  <2>1. x.of \in Ready(run, head) \/ x.of \in ReviewsToLaunch(run)
    <3>1. \A y \in StandingActions(run) : y.do # "launch"
      <4>1. \A z : [do |-> "resume the run", of |-> z].do # "launch"
        OBVIOUS
      <4>2. \A z : [do |-> "take up", of |-> z].do # "launch" /\ [do |-> "decide", of |-> z].do # "launch"
        OBVIOUS
      <4> QED
        BY <4>1, <4>2, Zenon DEF StandingActions
    <3>2. x \in StepActions(run, head)
      BY <1>3, <3>1 DEF Actions
    <3>3. \A z : /\ [do |-> "integrate", of |-> z].do # "launch" /\ [do |-> "check dependencies", of |-> z].do # "launch"
                  /\ [do |-> "over", of |-> z].do # "launch" /\ [do |-> "finish", of |-> z].do # "launch"
                  /\ [do |-> "launch", of |-> z].of = z
      OBVIOUS
    <3>4. CASE x \in WaveActions(run, head)
      BY <1>3, <3>3, <3>4, ZenonT(30) DEF WaveActions
    <3>5. CASE x \in {[do |-> "launch", of |-> d] : d \in ReviewsToLaunch(run)}
      BY <3>3, <3>5, Zenon
    <3> QED
      BY <1>3, <3>2, <3>3, <3>4, <3>5, Zenon DEF StepActions
  <2>2. CASE x.of \in Ready(run, head)
    <3>1. x.of \in Pending(run) /\ NotDone(run, x.of) = {} /\ NotIntegrated(run, head, x.of) = {}
      BY <2>2 DEF Ready, Blocked
    <3> QED
      BY <1>1, <3>1
  <2> QED
    BY <1>2, <2>1, <2>2
<1>4. LET listed == {x \in WaveActions(run, head) : x.do = "integrate"}
          after == head \cup {run.commit[x.of] : x \in listed}
      IN Awaiting(run, after) = {} /\ Ready(run, after) = Pending(run) \ Blocked(run)
  <2> DEFINE listed == {x \in WaveActions(run, head) : x.do = "integrate"}
             after == head \cup {run.commit[x.of] : x \in listed}
  <2>1. ASSUME NEW t \in Pending(run) \ Blocked(run) PROVE NotIntegrated(run, after, t) = {}
    <3> SUFFICES ASSUME NEW d \in Deps[t], run.status[d] = "done", run.commit[d] \notin head
                 PROVE  run.commit[d] \in after
      BY DEF NotIntegrated
    <3>1. d \in NotIntegrated(run, head, t)
      BY DEF NotIntegrated
    <3>2. d \in ToIntegrate(run, head)
      BY <3>1 DEF ToIntegrate, Awaiting
    <3> DEFINE item == [do |-> "integrate", of |-> d]
    <3>3. item \in listed /\ item.of = d
      BY <3>2 DEF WaveActions
    <3> QED
      BY <3>3
  <2> QED
    BY <2>1 DEF Awaiting, Ready
<1> QED
  BY <1>1, <1>2, <1>3, <1>4 DEF NextAgreesWithSet, Ready, Awaiting, Blocked

(* `apv run next` and `apv run set` follow the same rule in every          *)
(* reachable state.                                                        *)
THEOREM NextAgreesWithSetCorrect == Spec => []NextAgreesWithSet
BY TypeCorrect, NextAgrees, PTL

(* The waves are the current step only while a task is unfinished.         *)
LEMMA WavesAreUnfinished == \A r : CurrentStep(r) = "waves" => UnfinishedTasks(r) # {}
<1> SUFFICES ASSUME NEW r, CurrentStep(r) = "waves", UnfinishedTasks(r) = {} PROVE FALSE
  OBVIOUS
<1> DEFINE S == OpenSteps(r)
<1>1. S # {}
  BY DEF CurrentStep
<1>2. S \subseteq Nat /\ S \subseteq DOMAIN Steps
  BY RunAssumption DEF OpenSteps, RunAssumption
<1>3. \E i \in S : \A j \in S : i <= j
  <2> DEFINE R == OpToRel(<, Nat)
  <2>1. PICK i \in S : \A j \in S : <<j, i>> \notin R
    <3> HIDE DEF S, R
    <3> QED
      BY <1>1, <1>2, WFMin, NatLessThanWellFounded DEF R
  <2>2. \A j \in S : <<j, i>> \in R <=> j < i
    BY <1>2 DEF OpToRel
  <2> HIDE DEF S, R
  <2>3. \A j \in S : ~(j < i)
    BY <2>1, <2>2
  <2>4. \A j \in S : j \in Nat
    BY <1>2
  <2>5. \A j \in S : i <= j
    BY <2>3, <2>4
  <2> QED
    BY <2>5
<1>4. First(S) \in DOMAIN Steps
  BY <1>2, <1>3 DEF First
<1>5. CurrentStep(r) = Steps[First(S)]
  BY <1>1 DEF CurrentStep
<1>6. Steps[First(S)] \in Step
  BY <1>4 DEF Step
<1> QED
  BY <1>5, <1>6, RunAssumption DEF RunAssumption

(* In every well-shaped state whose waves are open there is work to name,  *)
(* or a skipped dependency: an unfinished task with no unfinished          *)
(* dependency exists because dependsOn is acyclic.                         *)
LEMMA WavesNameTasks ==
  ASSUME NEW r \in RunType, NEW h, CurrentStep(r) = "waves"
  PROVE  \/ Ready(r, h) \cup Awaiting(r, h) \cup UnderWay(r) \cup ToDecide(r) # {}
         \/ \E t \in Pending(r) : \E d \in Deps[t] : r.status[d] = "skipped"
<1>1. UnfinishedTasks(r) # {} /\ UnfinishedTasks(r) \in SUBSET Task
  BY WavesAreUnfinished DEF UnfinishedTasks
<1>2. PICK t \in UnfinishedTasks(r) : Deps[t] \cap UnfinishedTasks(r) = {}
  BY <1>1, RunAssumption DEF RunAssumption
<1>3. t \in Task /\ Deps[t] \subseteq Task /\ t \in Target
  BY <1>2, RunTypes DEF UnfinishedTasks
<1>4. r.status[t] \in {"pending", "running", "failed"}
  BY <1>2, <1>3 DEF RunType, Status, UnfinishedTasks, Finished
<1>5. CASE r.status[t] = "running"
  BY <1>3, <1>5 DEF UnderWay
<1>6. CASE r.status[t] = "failed"
  BY <1>3, <1>6 DEF ToDecide
<1>7. CASE r.status[t] = "pending"
  <2>1. t \in Pending(r)
    BY <1>3, <1>7 DEF Pending
  <2>2. \A d \in Deps[t] : r.status[d] \in {"done", "skipped"}
    BY <1>2, <1>3 DEF UnfinishedTasks, Finished
  <2>3. CASE NotDone(r, t) = {}
    BY <2>1, <2>3 DEF Ready, Awaiting, Blocked
  <2>4. CASE NotDone(r, t) # {}
    BY <2>1, <2>2, <2>4 DEF NotDone
  <2> QED
    BY <2>3, <2>4
<1> QED
  BY <1>4, <1>5, <1>6, <1>7

(* What the lists name, `apv run next` tells.                              *)
LEMMA WavesWork == ASSUME NEW r \in RunType, NEW h PROVE HasWork(r, h)
<1> SUFFICES ASSUME CurrentStep(r) = "waves",
                    ~ \E t \in Pending(r) : \E d \in Deps[t] : r.status[d] = "skipped"
             PROVE  \E x \in Actions(r, h) : x.do \in {"launch", "integrate", "take up", "decide"}
  BY DEF HasWork
<1> DEFINE item(what, t) == [do |-> what, of |-> t]
<1>1. CASE Ready(r, h) # {}
  <2>1. PICK t \in Ready(r, h) : TRUE
    BY <1>1
  <2>2. item("launch", t) \in Actions(r, h)
    BY <2>1 DEF Actions, StepActions, WaveActions
  <2> QED
    BY <2>2
<1>2. CASE Awaiting(r, h) # {}
  <2>1. PICK t \in Awaiting(r, h) : TRUE
    BY <1>2
  <2>2. PICK d \in NotIntegrated(r, h, t) : TRUE
    BY <2>1 DEF Awaiting
  <2>3. d \in ToIntegrate(r, h)
    BY <2>1, <2>2 DEF ToIntegrate
  <2>4. item("integrate", d) \in Actions(r, h)
    BY <2>3 DEF Actions, StepActions, WaveActions
  <2> QED
    BY <2>4
<1>3. CASE UnderWay(r) # {}
  <2>1. PICK t \in UnderWay(r) : TRUE
    BY <1>3
  <2>2. item("take up", t) \in Actions(r, h)
    BY <2>1 DEF Actions, StandingActions
  <2> QED
    BY <2>2
<1>4. CASE ToDecide(r) # {}
  <2>1. PICK t \in ToDecide(r) : TRUE
    BY <1>4
  <2>2. item("decide", t) \in Actions(r, h)
    BY <2>1 DEF Actions, StandingActions
  <2> QED
    BY <2>2
<1> QED
  BY <1>1, <1>2, <1>3, <1>4, WavesNameTasks

(* While the waves are open, `apv run next` names work in every reachable  *)
(* state.                                                                  *)
THEOREM WavesHaveWorkCorrect == Spec => []WavesHaveWork
<1>1. TypeOK => WavesHaveWork
  BY WavesWork DEF TypeOK, WavesHaveWork
<1> QED
  BY <1>1, TypeCorrect, PTL
=============================================================================
