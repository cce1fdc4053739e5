----------------------------- MODULE BatchMerge ------------------------------
(***************************************************************************)
(* batchSteps() of src/stack/batch.ts: the pull requests are read and      *)
(* vetted, one full suite is run for all of them, a failed one bisected,   *)
(* and they are merged on GitHub, each checked by content before and       *)
(* after.  Everybody else may push to the target, move a head, merge or    *)
(* close a pull request at any time, and a signal may come.                *)
(*                                                                         *)
(* A tree is the sequence of what was merged on the base of the batch:     *)
(* pull requests at the head the batch read, or Other.  The lists of the   *)
(* batch keep the order of the request, so each is the set of its members. *)
(* Worktrees, branches, drafts and the text of the report are left out.    *)
(***************************************************************************)
EXTENDS Naturals, Sequences, FiniteSets

CONSTANTS
  PR,          \* the pull requests asked for
  Batch,       \* their order, without a repetition
  Clash,       \* pairs whose second is in conflict with the first
  Other,       \* any other content: a push, a head that moved
  Nobody,      \* no pull request
  Bisect,      \* options.bisect
  Merge,       \* options.merge
  Breaks,      \* the families of sets of pull requests that break the suite together
  MaxMoves     \* bound of what others do

BatchAssumption ==
  /\ Batch \in Seq(PR) /\ Batch # <<>> /\ PR = {Batch[i] : i \in DOMAIN Batch}
  /\ \A i, j \in DOMAIN Batch : Batch[i] = Batch[j] => i = j
  /\ Clash \subseteq SUBSET PR /\ \A p \in PR : {p} \notin Clash
  /\ Other \notin PR /\ Nobody \notin PR
  /\ Bisect \in BOOLEAN /\ Merge \in BOOLEAN
  /\ Breaks \subseteq SUBSET SUBSET PR
  /\ MaxMoves \in Nat

VARIABLES
  \* the batch
  pc,           \* the step it is at
  seen,         \* how many pull requests it has read
  odd,          \* the first that has an anomaly, or Nobody
  unfit,        \* those a batch cannot prove
  whole,        \* the members of the first lot
  calls,        \* the calls of culprits() under way, the outermost first
  culprits,     \* report.culprits
  interaction,  \* report.interaction
  proven,       \* the members of report.proven, {} without one
  merged,       \* report.merged
  stopped,      \* report.stopped.pr, Nobody for null
  accepted,     \* `gh pr merge` exited 0
  aborted,      \* options.signal.aborted
  \* GitHub
  base,         \* the pull requests merged when the batch read its target
  target,       \* what was merged in the target since the batch read it
  state,        \* state of each pull request
  moved,        \* those whose head is no longer the one the batch read
  queued,       \* merges GitHub accepted and has not done yet
  \* the suite
  breaks,       \* which sets of pull requests break it
  faithful,     \* every verdict so far was the one `breaks` says
  passed,       \* the lots that passed it
  moves         \* what others did so far

reading == <<seen, odd, unfit>>
batchVars == <<pc, reading, whole, calls, culprits, interaction, proven, merged, stopped, accepted>>
remoteVars == <<base, target, state, moved, queued, moves>>
suiteVars == <<breaks, faithful, passed>>
vars == <<batchVars, aborted, remoteVars, suiteVars>>

Init ==
  /\ pc = "read" /\ seen = 0 /\ odd = Nobody /\ unfit = {}
  /\ whole = {} /\ calls = <<>> /\ culprits = {} /\ interaction = FALSE
  /\ proven = {} /\ merged = <<>> /\ stopped = Nobody /\ accepted = FALSE
  /\ aborted = FALSE
  /\ base = {} /\ target = <<>> /\ state = [p \in PR |-> "open"] /\ moved = {} /\ queued = {}
  /\ breaks \in Breaks /\ faithful = TRUE /\ passed = {} /\ moves = 0

Stop(p) == pc' = "stopped" /\ stopped' = p
-----------------------------------------------------------------------------
unread == UNCHANGED <<whole, calls, culprits, interaction, proven, merged, accepted, aborted,
                      remoteVars, suiteVars>>

(* A pull request is read until GitHub has settled: it must be open, on    *)
(* the target, without conflict or check in failure.                       *)
ReadPullRequest ==
  /\ pc = "read"
  /\ \/ state[Batch[seen + 1]] = "open" /\ UNCHANGED odd
     \/ odd' = IF odd = Nobody THEN Batch[seen + 1] ELSE odd
  /\ seen' = seen + 1
  /\ pc' = IF seen' = Len(Batch) THEN "base" ELSE "read"
  /\ UNCHANGED <<unfit, stopped>> /\ unread

(* The head of the target, which only a first pull request that could not  *)
(* be read leaves unknown.                                                 *)
ReadBase ==
  /\ pc = "base"
  /\ \/ odd = Nobody /\ pc' = "fetch" /\ UNCHANGED stopped
     \/ odd # Nobody /\ Stop(odd)
     \/ odd \in {Nobody, Batch[1]} /\ Stop(Nobody)
  /\ UNCHANGED reading /\ unread

(* The head of each pull request, as it was read: under its reference or   *)
(* by its name; or GitHub has it no more.                                  *)
FetchHeads ==
  /\ pc = "fetch"
  /\ \/ pc' = "vet" /\ UNCHANGED stopped
     \/ \E p \in PR : Stop(p)
  /\ UNCHANGED reading /\ unread

\* mutated form of Vet
VetTheFirst ==
  /\ pc = "vet"
  /\ unfit' \in SUBSET PR
  /\ IF Batch[1] \in unfit' THEN Stop(Batch[1]) ELSE pc' = "whole" /\ UNCHANGED stopped
  /\ UNCHANGED <<seen, odd>> /\ unread

(* One that changes the checks, else one that changes more tests than may  *)
(* be repeated, cannot be proven in a batch.  Then the identity the merges *)
(* of the lot need.                                                        *)
Vet ==
  /\ pc = "vet"
  /\ \/ unfit' \in (SUBSET PR) \ {{}} /\ \E p \in unfit' : Stop(p)
     \/ unfit' = {} /\ (Stop(Nobody) \/ (pc' = "whole" /\ UNCHANGED stopped))
  /\ UNCHANGED <<seen, odd>> /\ unread
-----------------------------------------------------------------------------
Place(p) == CHOOSE i \in DOMAIN Batch : Batch[i] = p

Fits(lot, p) == \A q \in base \cup {r \in lot : Place(r) < Place(p)} : {q, p} \notin Clash

(* buildLot: a pull request in conflict with the previous ones is left out.*)
(* The set of what it may build from a list, of one element.               *)
Built(list) == {lot \in SUBSET list : \A p \in list : p \in lot <=> Fits(lot, p)}

Truth(lot) == IF \E B \in breaks : B \subseteq base \cup lot THEN "failed" ELSE "passed"

(* options.prove: `failed` covers a lot nobody is in, a suite that a signal *)
(* cancels and a proof that throws, `refused` the ceilings of the          *)
(* repetition of the tests.                                                *)
Verdict(lot, v) ==
  /\ v \in {"passed", "failed", "refused"} /\ (lot = {} => v = "failed")
  /\ faithful' = (faithful /\ v \in {Truth(lot), "refused"})
  /\ passed' = IF v = "passed" THEN passed \cup {lot} ELSE passed
  /\ UNCHANGED <<breaks, aborted, remoteVars>>

Adopt(lot) ==
  /\ proven' = lot
  /\ pc' = IF Merge THEN "recheck" ELSE "done"
  /\ UNCHANGED stopped

Half(list) == (Cardinality(list) + 1) \div 2
Start(list, n) == {p \in list : Cardinality({q \in list : Place(q) < Place(p)}) < n}

\* mutated form of Halves
HalvesDroppingTheMiddle(list) ==
  <<Start(list, Cardinality(list) \div 2), list \ Start(list, Half(list))>>

Halves(list) == <<Start(list, Half(list)), list \ Start(list, Half(list))>>

Called(list) == [list |-> list, next |-> 1, found |-> {}, failed |-> FALSE]
Bisectable(lot) == Bisect /\ Cardinality(lot) > 1

ProveWhole ==
  /\ pc = "whole"
  /\ \E lot \in Built(PR), v \in {"passed", "failed", "refused"} :
       /\ whole' = lot /\ Verdict(lot, v)
       /\ \/ /\ ~aborted /\ v = "passed"
             /\ Adopt(lot) /\ UNCHANGED calls
          \/ /\ ~aborted /\ v = "failed" /\ Bisectable(lot)
             /\ pc' = "bisect" /\ calls' = <<Called(lot)>>
             /\ UNCHANGED <<stopped, proven>>
          \/ /\ aborted \/ v = "refused" \/ (v = "failed" /\ ~Bisectable(lot))
             /\ Stop(Nobody) /\ UNCHANGED <<calls, proven>>
  /\ UNCHANGED <<reading, culprits, interaction, merged, accepted>>

(* The innermost call of culprits(), and those around it.                  *)
Inner == calls[Len(calls)]
Outer == SubSeq(calls, 1, Len(calls) - 1)

(* The next half of the innermost call.  A failed half of one pull request *)
(* is a culprit; another is bisected in turn.                              *)
ProveHalf ==
  /\ pc = "bisect" /\ Inner.next <= 2
  /\ \E lot \in Built(Halves(Inner.list)[Inner.next]), v \in {"passed", "failed", "refused"} :
       LET rest == [Inner EXCEPT !.next = @ + 1, !.failed = @ \/ v = "failed"]
       IN
       /\ Verdict(lot, v)
       /\ \/ /\ v = "passed"
             /\ calls' = Append(Outer, rest)
             /\ UNCHANGED <<pc, stopped, culprits, interaction>>
          \/ /\ v = "failed" /\ Cardinality(lot) <= 1
             /\ calls' = Append(Outer, [rest EXCEPT !.found = @ \cup lot])
             /\ UNCHANGED <<pc, stopped, culprits, interaction>>
          \/ /\ v = "failed" /\ Cardinality(lot) > 1
             /\ calls' = Append(Append(Outer, rest), Called(lot))
             /\ UNCHANGED <<pc, stopped, culprits, interaction>>
          \/ /\ v = "refused"
             /\ Stop(Nobody)
             /\ calls' = <<>> /\ culprits' = {} /\ interaction' = FALSE
  /\ UNCHANGED <<reading, whole, proven, merged, accepted>>

(* A call of culprits() returns: what its halves found, or, when neither   *)
(* failed, its whole list and `interaction`.                               *)
Return ==
  /\ pc = "bisect" /\ Inner.next > 2
  /\ LET result == IF Inner.failed THEN Inner.found ELSE Inner.list
     IN
     /\ interaction' = (interaction \/ ~Inner.failed)
     /\ \/ /\ Outer # <<>>
           /\ calls' = [Outer EXCEPT ![Len(Outer)].found = @ \cup result]
           /\ UNCHANGED <<pc, culprits>>
        \/ /\ Outer = <<>>
           /\ calls' = <<>> /\ culprits' = result /\ pc' = "bisected"
  /\ UNCHANGED <<reading, whole, proven, merged, stopped, accepted, aborted, remoteVars, suiteVars>>

Rest == whole \ culprits

Conclude ==
  /\ pc = "bisected"
  /\ \/ /\ ~aborted /\ ~interaction /\ Rest # {}
        /\ pc' = "final" /\ UNCHANGED stopped
     \/ /\ aborted \/ interaction \/ Rest = {}
        /\ Stop(Nobody)
  /\ UNCHANGED <<reading, whole, calls, culprits, interaction, proven, merged, accepted, aborted,
                 remoteVars, suiteVars>>

\* mutated form of ProveFinal
FinalWithoutProof ==
  /\ pc = "final"
  /\ \E lot \in Built(Rest) : Adopt(lot)
  /\ UNCHANGED <<reading, whole, calls, culprits, interaction, merged, accepted, aborted,
                 remoteVars, suiteVars>>

ProveFinal ==
  /\ pc = "final"
  /\ \E lot \in Built(Rest), v \in {"passed", "failed", "refused"} :
       /\ Verdict(lot, v)
       /\ \/ ~aborted /\ v = "passed" /\ Adopt(lot)
          \/ (aborted \/ v # "passed") /\ Stop(Nobody) /\ UNCHANGED proven
  /\ UNCHANGED <<reading, whole, calls, culprits, interaction, merged, accepted>>
-----------------------------------------------------------------------------
(***************************************************************************)
(* The merges.  The member at hand is the first of the lot that is not one *)
(* of `merged`, or the last of those once its merge has been seen.         *)
(***************************************************************************)
unchangedMerging == UNCHANGED <<reading, whole, calls, culprits, interaction, proven, aborted, suiteVars>>

Merged == {merged[i] : i \in DOMAIN merged}
Member(p) == p \in proven \ Merged /\ \A q \in proven \ Merged : Place(p) <= Place(q)
LastMember == merged[Len(merged)]

Content(t) == [i \in DOMAIN t |-> t[i].pr]

(* The pull request is read again.  A reading that fails, a draft, a check *)
(* in failure are the stop without a reason here.                          *)
Recheck(p) ==
  /\ pc = "recheck" /\ Member(p)
  /\ \/ /\ ~aborted /\ state[p] = "open" /\ p \notin moved
        /\ pc' = "target" /\ UNCHANGED stopped
     \/ Stop(p)
  /\ UNCHANGED <<merged, accepted, remoteVars>> /\ unchangedMerging

(* The target must have the tree of the lot after the previous member.     *)
ReadTarget(p) ==
  /\ pc = "target" /\ Member(p)
  /\ \/ /\ Content(target) = merged
        /\ pc' = "call" /\ UNCHANGED stopped
     \/ Stop(p)
  /\ UNCHANGED <<merged, accepted, remoteVars>> /\ unchangedMerging

(* The last look at the signal, then `gh pr merge` is started.             *)
CallMerge(p) ==
  /\ pc = "call" /\ Member(p)
  /\ \/ ~aborted /\ pc' = "called" /\ UNCHANGED stopped
     \/ aborted /\ Stop(p)
  /\ UNCHANGED <<merged, accepted, remoteVars>> /\ unchangedMerging

\* Before the batch reads its target, what lands there is part of its base.
Early == pc \in {"read", "base"}
Grows(e) == target' = IF Early THEN target ELSE Append(target, e)

Lands(p, ours) ==
  /\ state[p] = "open"
  /\ Grows([pr |-> IF p \in moved THEN Other ELSE p, ours |-> ours])
  /\ base' = IF Early /\ p \notin moved THEN base \cup {p} ELSE base
  /\ state' = [state EXCEPT ![p] = "merged"]
  /\ queued' = queued \ {p}

(* GitHub merges the head it was given, and the answer may be lost; or     *)
(* accepts and merges later; or refuses.                                   *)
GitHubMerges(p) ==
  /\ pc = "called" /\ Member(p) /\ p \notin moved
  /\ Lands(p, TRUE)
  /\ accepted' \in BOOLEAN /\ pc' = "look"
  /\ UNCHANGED <<merged, stopped, moved, moves>> /\ unchangedMerging

GitHubQueues(p) ==
  /\ pc = "called" /\ Member(p) /\ p \notin moved /\ state[p] = "open"
  /\ queued' = queued \cup {p}
  /\ accepted' = TRUE /\ pc' = "look"
  /\ UNCHANGED <<merged, stopped, base, target, state, moved, moves>> /\ unchangedMerging

GitHubRefuses ==
  /\ pc = "called"
  /\ accepted' = FALSE /\ pc' = "look"
  /\ UNCHANGED <<merged, stopped, remoteVars>> /\ unchangedMerging

QueueLands(p) ==
  /\ p \in queued /\ p \notin moved
  /\ Lands(p, TRUE)
  /\ UNCHANGED <<batchVars, aborted, suiteVars, moved, moves>>

\* mutated forms of Look
LookAtTheExitCode(p) ==
  /\ pc = "look" /\ Member(p)
  /\ \/ accepted /\ merged' = Append(merged, p) /\ pc' = "landed" /\ UNCHANGED stopped
     \/ ~accepted /\ Stop(p) /\ UNCHANGED merged
  /\ UNCHANGED <<accepted, remoteVars>> /\ unchangedMerging

LookUntilMerged(p) ==
  /\ pc = "look" /\ Member(p)
  /\ \/ state[p] = "merged" /\ merged' = Append(merged, p) /\ pc' = "landed" /\ UNCHANGED stopped
     \/ ~accepted /\ Stop(p) /\ UNCHANGED merged
  /\ UNCHANGED <<accepted, remoteVars>> /\ unchangedMerging

(* The merge is observed in the state of the pull request, whatever `gh`   *)
(* answered.  Polling an open one is no step; giving up is.                *)
Look(p) ==
  /\ pc = "look" /\ Member(p)
  /\ \/ state[p] = "merged" /\ merged' = Append(merged, p) /\ pc' = "landed" /\ UNCHANGED stopped
     \/ Stop(p) /\ UNCHANGED merged
  /\ UNCHANGED <<accepted, remoteVars>> /\ unchangedMerging

(* The tree after the merge must be that of the lot after its member; it   *)
(* may be unreadable, or the journal impossible to write.                  *)
ReadLanded ==
  /\ pc = "landed"
  /\ \/ /\ Content(target) = merged
        /\ pc' = IF Merged = proven THEN "finish" ELSE "recheck"
        /\ UNCHANGED stopped
     \/ Stop(LastMember)
  /\ UNCHANGED <<merged, accepted, remoteVars>> /\ unchangedMerging

Finish ==
  /\ pc = "finish"
  /\ \/ Content(target) = merged /\ pc' = "done" /\ UNCHANGED stopped
     \/ Stop(Nobody)
  /\ UNCHANGED <<merged, accepted, remoteVars>> /\ unchangedMerging

(* A Git failure nothing foresaw: the catch of batchMerge.                 *)
Fails ==
  /\ pc \in {"fetch", "vet", "whole", "bisect", "final"}
  /\ Stop(Nobody)
  /\ UNCHANGED <<reading, whole, calls, culprits, interaction, proven, merged, accepted, aborted,
                 remoteVars, suiteVars>>

Ended == pc \in {"done", "stopped"}

Abort ==
  /\ ~aborted /\ ~Ended
  /\ aborted' = TRUE
  /\ UNCHANGED <<batchVars, remoteVars, suiteVars>>

(* Everybody else.                                                         *)
Outside ==
  /\ moves < MaxMoves /\ moves' = moves + 1
  /\ \/ /\ Grows([pr |-> Other, ours |-> FALSE])
        /\ UNCHANGED <<base, state, moved, queued>>
     \/ \E p \in PR \ moved :
          /\ state[p] = "open" /\ p \in {Batch[i] : i \in 1..seen}
          /\ moved' = moved \cup {p}
          /\ UNCHANGED <<base, target, state, queued>>
     \/ \E p \in PR : Lands(p, FALSE) /\ UNCHANGED moved
     \/ \E p \in PR :
          /\ state[p] = "open" /\ state' = [state EXCEPT ![p] = "closed"]
          /\ UNCHANGED <<base, target, moved, queued>>
  /\ UNCHANGED <<batchVars, aborted, suiteVars>>

Merging(p) == Recheck(p) \/ ReadTarget(p) \/ CallMerge(p) \/ Look(p)

BatchStep ==
  \/ ReadPullRequest \/ ReadBase \/ FetchHeads \/ Vet
  \/ ProveWhole \/ ProveHalf \/ Return \/ Conclude \/ ProveFinal \/ Fails
  \/ ReadLanded \/ Finish
  \/ \E p \in PR : Merging(p)

GitHub == GitHubRefuses \/ \E p \in PR : GitHubMerges(p) \/ GitHubQueues(p)

Next ==
  \/ BatchStep \/ GitHub \/ Abort \/ Outside
  \/ \E p \in PR : QueueLands(p)

(* Every process the batch starts ends, and so does its polling: the       *)
(* attempts are counted.                                                   *)
Fairness == WF_vars(BatchStep) /\ WF_vars(GitHub)

Spec == Init /\ [][Next]_vars
FairSpec == Spec /\ Fairness
-----------------------------------------------------------------------------
(* The values every variable may take (batch.ts 91-112).                   *)
TypeOK ==
  /\ pc \in {"read", "base", "fetch", "vet", "whole", "bisect", "bisected", "final", "recheck", "target", "call",
             "called", "look", "landed", "finish", "done", "stopped"}
  /\ seen \in 0..Len(Batch) /\ odd \in PR \cup {Nobody} /\ unfit \subseteq PR
  /\ whole \subseteq PR /\ culprits \subseteq PR /\ interaction \in BOOLEAN
  /\ calls \in Seq([list : SUBSET PR, next : 1..3, found : SUBSET PR, failed : BOOLEAN])
  /\ proven \subseteq PR /\ merged \in Seq(PR)
  /\ stopped \in PR \cup {Nobody}
  /\ accepted \in BOOLEAN /\ aborted \in BOOLEAN
  /\ base \subseteq PR /\ target \in Seq([pr : PR \cup {Other}, ours : BOOLEAN])
  /\ state \in [PR -> {"open", "merged", "closed"}]
  /\ moved \subseteq PR /\ queued \subseteq PR

Ours == {i \in DOMAIN target : target[i].ours}

(* What `gh pr merge` was called for passed a full suite as a lot, in the  *)
(* order of the merges, and holds nobody the bisection isolated or whose   *)
(* change a lot cannot prove, that of the checks for instance: `merge`     *)
(* follows the proof of the very lot that is merged (test `a failed batch  *)
(* is not merged; --bisect isolates the faulty pull request`).             *)
OnlyProvenLotsLand ==
  Ours # {} =>
    /\ proven \in passed
    /\ proven \cap (culprits \cup unfit) = {}
    /\ \A i \in Ours : target[i].pr \in proven
    /\ \A i, j \in Ours : i < j => Place(target[i].pr) < Place(target[j].pr)

(* `Each merge is checked by content`: others may change the target        *)
(* between the last look at it and the merge, but then that merge is the   *)
(* last one, and the batch ends stopped.                                   *)
AsProven(i) ==
  /\ \A j \in 1..i : target[j].pr \in proven
  /\ \A j, k \in 1..i : j < k => Place(target[j].pr) < Place(target[k].pr)
  /\ \A p \in proven : Place(p) < Place(target[i].pr) => \E j \in 1..i : target[j].pr = p

AStrayMergeIsTheLast ==
  \A i \in Ours : ~AsProven(i) =>
    /\ \A j \in Ours : j <= i
    /\ pc # "done"

(* The report tells what happened on GitHub: a merge it names was made;    *)
(* one the batch caused and it does not name is that of the pull request   *)
(* it stopped at; and a batch that is done merged its whole lot.           *)
ReportIsHonest ==
  /\ \A p \in Merged : state[p] = "merged"
  /\ pc = "stopped" => \A i \in Ours : target[i].pr \in Merged \cup {stopped}
  /\ pc = "done" /\ Merge => Merged = proven

(* The bisection isolates exactly the faulty pull requests, when each      *)
(* breaks the suite alone, none is already in the target and the suite     *)
(* says the same thing every time.                                         *)
BisectionIsExact ==
  /\ pc = "bisected" /\ faithful /\ base = {}
  /\ \A B \in breaks : \E p \in PR : B = {p}
  => /\ culprits = {p \in whole : {p} \in breaks}
     /\ ~interaction

(* The batch ends, whatever the verdicts and whatever others do.           *)
BatchEnds == <>Ended

(* `The whole failed while every half passed: the failure comes from their *)
(* combination`, when the bisection is over and the suite says the same    *)
(* thing every time.                                                       *)
InteractionIsOfTheWhole ==
  pc = "bisected" /\ faithful /\ interaction =>
    {Halves(whole)[1], Halves(whole)[2]} \subseteq passed
=============================================================================
