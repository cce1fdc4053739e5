--------------------------------- MODULE Wave --------------------------------
(***************************************************************************)
(* A wave of implementers (workflows/vague.js): one agent per task, in a   *)
(* worktree of its own, reports what it did; the workflow sorts the        *)
(* reports and compares the three copies of the commit each one gives.     *)
(* A commit is a full identifier; an abbreviated one is its beginning.     *)
(***************************************************************************)
EXTENDS Naturals, FiniteSets

CONSTANTS Task, MaxCommits \* bound: commits of an agent

WaveAssumption == Task # {} /\ MaxCommits \in Nat

VARIABLES
  agent,   \* working, over, dead
  head,    \* commits made on the branch of the task
  printed, \* what git rev-parse HEAD and git log last printed to the agent
  report,  \* what it returned
  sorted   \* the result of the workflow

vars == <<agent, head, printed, report, sorted>>

None == [kind |-> "none"]
Real(t, n) == [of |-> t, start |-> n, rest |-> "real"]
\* The beginning copied, the rest typed from memory.
Invented(t, n) == [of |-> t, start |-> n, rest |-> "invented"]
Short(t, n) == [of |-> t, start |-> n, rest |-> "none"]
Start(c) == <<c.of, c.start>>
Levels == {"prouve", "probable", "suppose"}                 \* CONFIDENCE

Init ==
  /\ agent = [t \in Task |-> "working"]
  /\ head = [t \in Task |-> 0]
  /\ printed = [t \in Task |-> [rev |-> None, log |-> None]]
  /\ report = [t \in Task |-> None]
  /\ sorted = None

Commit(t) ==
  /\ agent[t] = "working" /\ head[t] < MaxCommits
  /\ head' = [head EXCEPT ![t] = @ + 1]
  /\ UNCHANGED <<agent, printed, report, sorted>>

\* git rev-parse HEAD, or git log --oneline -1, in the worktree.
Prints(t) ==
  /\ agent[t] = "working"
  /\ \E what \in {"rev", "log"} :
       printed' = [printed EXCEPT ![t][what] =
                     IF what = "rev" THEN Real(t, head[t]) ELSE Short(t, head[t])]
  /\ UNCHANGED <<agent, head, report, sorted>>

\* The outputs are pasted as printed, or left out; the commit is copied from
\* the first, or written from the second.
Claims(t) ==
  {printed[t].rev} \cup
  (IF printed[t].log = None THEN {} ELSE {printed[t].log, Invented(t, head[t])})
Report(t) ==
  /\ agent[t] = "working" /\ agent' = [agent EXCEPT ![t] = "over"]
  /\ \E commit \in Claims(t), level \in Levels \cup {"absent"}, evidence \in BOOLEAN :
       report' = [report EXCEPT ![t] =
         [kind |-> "report", commit |-> commit, rev |-> printed[t].rev, log |-> printed[t].log,
          confidence |-> level, evidence |-> evidence]]
  /\ UNCHANGED <<head, printed, sorted>>

Dies(t) ==
  /\ agent[t] = "working" /\ agent' = [agent EXCEPT ![t] = "dead"]
  /\ UNCHANGED <<head, printed, report, sorted>>

Claim(r) == r.confidence \in Levels /\ r.evidence            \* claimProblems
Full(c) == c # None /\ c.rest # "none"
AgreesWithLog(r) ==                                \* mutated form of Agrees
  Full(r.commit) /\ r.log # None /\ Start(r.log) = Start(r.commit)
Agrees(r) ==                                                 \* commitProblems
  /\ Full(r.commit)
  /\ r.rev = r.commit
  /\ r.log # None /\ Start(r.log) = Start(r.commit)
\* The workflow waits for every agent.
Sort ==
  /\ sorted = None /\ \A t \in Task : agent[t] # "working"
  /\ LET answered == {t \in Task : report[t] # None}
         returned == {t \in answered : Claim(report[t])}
     IN sorted' = [kind |-> "result", reports |-> returned, refused |-> answered \ returned,
                   lost |-> Task \ answered,
                   verify |-> {t \in returned : report[t].confidence = "probable"},
                   operator |-> {t \in returned : report[t].confidence = "suppose"},
                   doubtful |-> {t \in answered : ~Agrees(report[t])}]
  /\ UNCHANGED <<agent, head, printed, report>>

Next == Sort \/ \E t \in Task : Commit(t) \/ Prints(t) \/ Report(t) \/ Dies(t)

Spec == Init /\ [][Next]_vars
-----------------------------------------------------------------------------
(* A task whose commit the workflow does not doubt has a commit that the   *)
(* branch of the task did have; work that is on no report is told as lost, *)
(* refused or doubtful, never among the reports (the result of vague.js).  *)
UndoubtedCommitsExist ==
  sorted # None =>
    /\ \A t \in (sorted.reports \cup sorted.refused) \ sorted.doubtful :
         \E n \in 0..head[t] : report[t].commit = Real(t, n)
    /\ \A t \in Task : agent[t] = "dead" <=> t \in sorted.lost
    /\ \A t \in sorted.reports : report[t].evidence
    /\ \A t \in sorted.reports \ (sorted.verify \cup sorted.operator) :
         report[t].confidence = "prouve"
=============================================================================
