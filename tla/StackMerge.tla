----------------------------- MODULE StackMerge -----------------------------
(***************************************************************************)
(* `apv stack plan` and `apv stack merge` (stack/github.ts,                *)
(* commands/stack.ts): a stack of pull requests is read, checked, and      *)
(* merged in order into one target branch through calls to GitHub, while   *)
(* others push, close, retarget and merge on GitHub.                       *)
(*                                                                         *)
(* A branch is the set of the commits it contains.  A read that keeps      *)
(* waiting for GitHub to settle is its last read: the steps of the others  *)
(* stand before it.  A call that fails may have been applied.              *)
(***************************************************************************)
EXTENDS Naturals, Sequences, SequencesExt

CONSTANTS N,            \* the stack is the pull requests 1..N, in order
          MaxOthers     \* bound: steps of the others

StackAssumption == N \in Nat \ {0} /\ MaxOthers \in Nat

VARIABLES prs,      \* GitHub: the pull requests
          target,   \* GitHub: the commits of the target branch
          others,   \* steps the others have made
          opts,     \* the options of the command
          pc, i,    \* where the command is, and on which pull request
          plan,     \* what planStack read, Unread for a failed read
          coherent, \* plan.ok so far
          pr,       \* the pull request as last read
          compared, \* the commits of the target the last comparison saw
          journal,  \* .apv/state/stack.log
          report,   \* report.merged
          merges    \* every merge the command's calls made, in order (history)

vars == <<prs, target, others, opts, pc, i, plan, coherent, pr, compared,
          journal, report, merges>>
github == <<prs, target, others>>

Pull == 1..N
Unread == [state |-> "UNREAD"]
Own(n) == <<"own", n>>
MergeCommit(n) == <<"merge", n>>
Outsider(k) == <<"other", k>>

\* One pull request per step of the stack, each built on the one below; the
\* target may already have a commit the stack lacks.
Init ==
  /\ prs \in [Pull -> [state : {"OPEN"}, base : {"target", "previous"},
                     head : SUBSET {Own(n) : n \in Pull}, clean : {TRUE},
                     draft : BOOLEAN]]
  /\ \A n \in Pull : /\ prs[n].base = IF n = 1 THEN "target" ELSE "previous"
                   /\ prs[n].head = {Own(k) : k \in 1..n}
  /\ target \in {{}, {Outsider(0)}}
  /\ others = 0
  /\ opts \in [method : {"merge", "squash"}, ready : BOOLEAN,
               allowBehind : BOOLEAN]
  /\ pc = "read" /\ i = 1
  /\ plan = <<>> /\ coherent = TRUE
  /\ pr = Unread /\ compared = {}
  /\ journal = {} /\ report = <<>> /\ merges = <<>>

-----------------------------------------------------------------------------
(* What a read shows.                                                       *)

\* Reasons not to merge a pull request onto base now.
Anomalies(p, base, allowDraft) ==
  {r \in {"closed", "base", "draft", "unclean"} :
     CASE r = "closed"  -> p.state # "OPEN"
       [] r = "base"    -> p.base # base
       [] r = "draft"   -> p.draft /\ ~allowDraft
       [] r = "unclean" -> ~p.clean}

\* Does head contain base?  Missing commits that are all merge commits
\* change nothing.
Freshness(head, base) ==
  LET missing == base \ head
  IN  IF missing = {} THEN "up_to_date"
      ELSE IF \A c \in missing : c[1] = "merge" THEN "same_content"
      ELSE "behind"

MayPass(fresh) == fresh # "behind" \/ opts.allowBehind

\* The branch a pull request of the plan is expected to land on.
ExpectedBase(n) == IF n = 1 THEN "target" ELSE "previous"
BaseCommits(n) == IF n = 1 THEN target ELSE prs[n - 1].head

-----------------------------------------------------------------------------
(* planStack: every pull request read, then each compared with its base.    *)

PlanRead ==
  /\ pc = "read"
  /\ \E p \in {prs[i], Unread} :
       /\ plan' = Append(plan, p)
       /\ coherent' = (coherent /\ p # Unread)
  /\ i' = IF i < N THEN i + 1 ELSE 1
  /\ pc' = IF i < N THEN "read" ELSE "planning"
  /\ UNCHANGED <<github, opts, pr, compared, journal, report, merges>>

\* The base of a pull request above one that was not read is unknown.
PlanCompare ==
  /\ pc = "planning"
  /\ \E answered \in BOOLEAN : \* the first anomaly found refuses the whole plan
       coherent' =
         (/\ coherent
          /\ Anomalies(plan[i], ExpectedBase(i), opts.ready) = {}
          /\ answered
          /\ MayPass(Freshness(plan[i].head, BaseCommits(i))))
  /\ i' = IF i < N /\ coherent' THEN i + 1 ELSE 1
  /\ pc' = IF ~coherent' THEN "stopped" ELSE IF i < N THEN "planning" ELSE "view"
  /\ UNCHANGED <<github, opts, plan, pr, compared, journal, report, merges>>

-----------------------------------------------------------------------------
(* mergeStack, one pull request at a time.                                  *)

tool == <<opts, i, plan, coherent, journal, report, merges>>

Stop == pc' = "stopped" /\ UNCHANGED <<github, tool, pr, compared>>

\* The read before everything: a pull request above the first is retargeted
\* unless its base already is the target.
View ==
  /\ pc = "view"
  /\ \/ Stop
     \/ LET p == prs[i] IN
        /\ \/ /\ i = 1 \/ p.base = "target"
              /\ pc' = "settle"
           \/ /\ i > 1 /\ p.base = "previous"
              /\ pc' = "retarget"
        /\ pr' = p
        /\ UNCHANGED <<github, tool, compared>>

\* The PATCH of the base, and the read that alone proves it.
Retarget ==
  /\ pc = "retarget"
  /\ \E applied \in BOOLEAN, ok \in BOOLEAN :
       /\ prs' = IF applied /\ prs[i].state = "OPEN"
                 THEN [prs EXCEPT ![i].base = "target"] ELSE prs
       /\ pc' = IF ok THEN "reread" ELSE "stopped"
  /\ UNCHANGED <<target, others, tool, pr, compared>>

Reread ==
  /\ pc = "reread"
  /\ \/ Stop
     \/ /\ prs[i].base = "target"
        /\ pr' = prs[i] /\ pc' = "settle"
        /\ UNCHANGED <<github, tool, compared>>

\* The checks, and again after the draft status was removed.
Settle ==
  /\ pc \in {"settle", "settleReady"}
  /\ \/ Stop
     \/ /\ Anomalies(prs[i], "target", opts.ready /\ pc = "settle") = {}
        /\ pr' = prs[i]
        /\ pc' = IF prs[i].draft THEN "ready" ELSE "compare"
        /\ UNCHANGED <<github, tool, compared>>

Ready ==
  /\ pc = "ready"
  /\ \E applied \in BOOLEAN :
       prs' = IF applied THEN [prs EXCEPT ![i].draft = FALSE] ELSE prs
  /\ pc' = "settleReady"
  /\ UNCHANGED <<target, others, tool, pr, compared>>

\* Mutated form of Seen: the target as the plan was made.
SeenByPlan == target \ UNION {merges[j].landed : j \in DOMAIN merges}

\* The target as it is now, after the merge of the pull request below.
Seen == target

\* Freshness last.  A waiver is in the journal before the merge it allows.
Compare ==
  /\ pc = "compare"
  /\ \/ Stop
     \/ LET fresh == Freshness(pr.head, Seen) IN
        /\ MayPass(fresh)
        /\ compared' = Seen
        /\ journal' = IF fresh = "behind" THEN journal \union {<<i, pr.head>>}
                                          ELSE journal
        /\ pc' = "merge"
        /\ UNCHANGED <<github, opts, i, plan, coherent, pr, report, merges>>

\* What a merge puts on the target.
Landed(n, head) == IF opts.method = "merge" THEN head \union {MergeCommit(n)}
                                            ELSE {<<"squash", n>>}

\* Mutated form of HeadMatches: no --match-head-commit.
AnyHead == TRUE

\* --match-head-commit: GitHub refuses a head that moved.
HeadMatches == prs[i].head = pr.head

MergeNext ==
  /\ pc = "merge"
  /\ \/ /\ prs[i].state = "OPEN" /\ ~prs[i].draft
        /\ HeadMatches
        /\ LET landed == Landed(i, prs[i].head)
               base == prs[i].base
           IN  /\ target' = IF base = "target" THEN target \union landed ELSE target
               /\ merges' = Append(merges, [pr |-> i, head |-> prs[i].head,
                                            seen |-> pr.head, base |-> base,
                                            landed |-> landed,
                                            compared |-> compared])
        /\ prs' = [prs EXCEPT ![i].state = "MERGED"]
     \/ UNCHANGED <<prs, target, merges>>
  /\ pc' = "after"
  /\ UNCHANGED <<others, opts, i, plan, coherent, pr, compared, journal, report>>

\* Mutated form of Constated: the base is not read again.
ConstatedAnywhere(p) == p.state = "MERGED"

\* Only a merge read on GitHub, on the target, is reported.
Constated(p) == p.state = "MERGED" /\ p.base = "target"

AfterMerge ==
  /\ pc = "after"
  /\ \/ Stop
     \/ /\ Constated(prs[i])
        /\ report' = Append(report, i)
        /\ i' = IF i < N THEN i + 1 ELSE i
        /\ pc' = IF i < N THEN "view" ELSE "merged"
        /\ UNCHANGED <<github, opts, plan, coherent, pr, compared, journal, merges>>

-----------------------------------------------------------------------------
(* The others, on GitHub.                                                   *)

Others ==
  /\ others < MaxOthers
  /\ others' = others + 1
  /\ LET c == Outsider(others + 1) IN
     \/ target' = target \union {c} /\ UNCHANGED prs
     \/ \E n \in Pull :
          /\ prs[n].state = "OPEN"
          /\ \/ /\ \E clean \in BOOLEAN :
                     prs' = [prs EXCEPT ![n].head = @ \union {c}, ![n].clean = clean]
                /\ UNCHANGED target
             \/ /\ \E base \in {"target", "previous", "elsewhere"} :
                     prs' = [prs EXCEPT ![n].base = base]
                /\ UNCHANGED target
             \/ prs' = [prs EXCEPT ![n].state = "CLOSED"] /\ UNCHANGED target
             \/ prs' = [prs EXCEPT ![n].clean = ~@] /\ UNCHANGED target
             \/ /\ prs[n].base = "target" \* a merge by hand
                /\ prs' = [prs EXCEPT ![n].state = "MERGED"]
                /\ target' = target \union prs[n].head \union {MergeCommit(n)}
  /\ UNCHANGED <<opts, pc, i, plan, coherent, pr, compared, journal, report, merges>>

Finished == pc \in {"stopped", "merged"} /\ UNCHANGED vars

Next == \/ PlanRead \/ PlanCompare \/ View \/ Retarget \/ Reread
        \/ Settle \/ Ready \/ Compare \/ MergeNext \/ AfterMerge \/ Others \/ Finished

Spec == Init /\ [][Next]_vars

-----------------------------------------------------------------------------
Changes(commits) == {c \in commits : c[1] # "merge"}

\* Every merge the command makes is of the head whose checks it read; the
\* target it compared with that head already had all that its own earlier
\* merges brought; and a head that lacked changes of the target then is in
\* the journal, with that head (freshness read last, --match-head-commit,
\* the waiver journaled first).
MergedAsVerified ==
  \A j \in DOMAIN merges : LET m == merges[j] IN
    /\ m.head = m.seen
    /\ \A k \in 1..j - 1 : merges[k].base = "target" => merges[k].landed \subseteq m.compared
    /\ Changes(m.compared) \ m.head # {} => <<m.pr, m.head>> \in journal

\* The report names a prefix of the stack, each pull request of it merged
\* into the target; a merge the command made and could not establish, or
\* that went to another branch, is its last.
ReportIsHonest ==
  /\ \A j \in DOMAIN report :
       report[j] = j /\ prs[j].state = "MERGED" /\ prs[j].base = "target"
  /\ \A j \in DOMAIN merges :
       \/ merges[j].pr \in ToSet(report)
       \/ j = Len(merges) /\ merges[j].pr = Len(report) + 1
=============================================================================
