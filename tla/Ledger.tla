-------------------------------- MODULE Ledger -------------------------------
(***************************************************************************)
(* The ledger of decisions (lifecycle/ledger-update.ts) and the validated  *)
(* mockup it names (design/registry.ts): commands of several users on one  *)
(* copy, step by step, with the hand edits and commits of the operator and *)
(* the death of a command.                                                 *)
(*                                                                         *)
(* A ledger is a set of decisions; its file and the text rendered from it  *)
(* (json, md) are two ledgers.  The content of a mockup is a number, and   *)
(* so is the digest a decision gives of it; zero for other decisions.      *)
(***************************************************************************)
EXTENDS Naturals, Sequences, FiniteSets, SequencesExt, FiniteSetsExt

CONSTANTS
  User, Teams,   \* users; the sets of them who may register the mockups
  Updates,       \* updates users may write: sets of decisions
  Contents,      \* contents of a mockup
  MaxCommits     \* bound: commits of the copy

Decisions(ids, shas) ==
  [id : ids, source : {"operator", "derived"}, status : {"confirmed", "proposed"},
   quote : BOOLEAN, supersedes : SUBSET ids, sha : shas]
\* No update names a mockup (these are registered), nor what an edit by hand leaves.
LedgerAssumption ==
  /\ Contents \subseteq Nat \ {0} /\ MaxCommits \in Nat /\ IsFiniteSet(User) /\ Teams \subseteq SUBSET User
  /\ \A update \in Updates : \A d \in update :
       d.id[1] \notin {"mockup", "hand"} /\ \A i \in d.supersedes : i[1] # "mockup"

VARIABLES
  designers, \* the users who register mockups; the others apply updates
  commits,  \* the history of the branch: the two files, and the plan a commit applied
  tree,     \* the two files of the working copy
  file,     \* the mockup of the working copy
  cmd,      \* the command of each user, and where it is
  reviewed, \* the hash of the last plan each user read
  byHand,   \* the ledger of the working copy was edited by hand
  overlap,  \* a command or the operator wrote under a command that had read
  loose     \* a registration of a mockup was killed, or its ledger thrown away

vars == <<designers, commits, tree, file, cmd, reviewed, byHand, overlap, loose>>

NoPlan == [base |-> 0, update |-> {}]
Idle == [pc |-> "idle", kind |-> "none", plan |-> NoPlan, hash |-> NoPlan, commit |-> FALSE,
         content |-> 0, previous |-> 0]
\* What an edit by hand leaves.
Hand == [id |-> <<"hand", 1>>, source |-> "derived", status |-> "proposed", quote |-> FALSE,
         supersedes |-> {}, sha |-> 0]
HEAD == Last(commits)

Init ==
  /\ designers \in Teams
  /\ commits = <<[json |-> {}, md |-> {}, plan |-> NoPlan]>>
  /\ tree = [json |-> {}, md |-> {}]
  /\ file = 0
  /\ cmd = [u \in User |-> Idle]
  /\ reviewed = [u \in User |-> NoPlan]
  /\ byHand = FALSE /\ overlap = FALSE /\ loose = FALSE
-----------------------------------------------------------------------------
Ids(ledger) == {d.id : d \in ledger}
Superseded(update) == UNION {d.supersedes : d \in update}
Weighty(d) == d.source = "operator" /\ d.status = "confirmed"      \* or ambiguous

\* decisionLedgerRuleIssues: identifiers once, operator decisions with a quote.
Valid(ledger) ==
  /\ Cardinality(Ids(ledger)) = Cardinality(ledger)
  /\ \A d \in ledger : d.id \notin d.supersedes /\ (Weighty(d) => d.quote)

Result(ledger, update) == {d \in ledger : d.id \notin Superseded(update)} \cup update
Accepted(ledger, update) ==
  /\ \A d \in update :
       /\ d.id \notin Ids(ledger) /\ d.supersedes \subseteq Ids(ledger)
       /\ (\E old \in ledger : old.id \in d.supersedes /\ Weighty(old)) =>
            d.source = "operator" /\ d.quote
  /\ Valid(Result(ledger, update))

\* What somebody else writes under a command between its checks and its end.
Exposed(u) ==
  \/ cmd[u].pc \in {"status", "json", "md", "commit"}
  \/ cmd[u].pc # "idle" /\ cmd[u].kind = "register"
Writes(u) == overlap' = (overlap \/ \E v \in User \ {u} : Exposed(v))
Goto(u, pc) == cmd' = [cmd EXCEPT ![u].pc = pc]
Ends(u) == cmd' = [cmd EXCEPT ![u] = Idle]

\* planLedgerUpdate on HEAD: the working copy has its ledger, and the rules accept it.
Plan(update, base) == [base |-> base, update |-> update]
Planned(plan) == tree.json = commits[plan.base].json /\ Accepted(commits[plan.base].json, plan.update)

\* apv ledger plan: the user reads what the update makes of the ledger, and its hash.
ReadPlan(u) ==
  /\ cmd[u].pc = "idle" /\ u \notin designers
  /\ \E update \in Updates :
       LET plan == Plan(update, Len(commits))
       IN Planned(plan) /\ reviewed' = [reviewed EXCEPT ![u] = plan]
  /\ UNCHANGED <<commits, tree, file, cmd, byHand, overlap, loose>>

\* apv ledger apply: the file of the update may have changed since the plan.
StartApply(u) ==
  /\ cmd[u].pc = "idle" /\ reviewed[u] # NoPlan
  /\ \E update \in Updates, commit \in BOOLEAN :
       cmd' = [cmd EXCEPT ![u] = [Idle EXCEPT !.pc = "working", !.kind = "apply", !.commit = commit,
                                    !.plan = Plan(update, Len(commits)), !.hash = reviewed[u]]]
  /\ UNCHANGED <<commits, tree, file, reviewed, byHand, overlap, loose>>

\* The confirmed decisions of the mockup in the working copy; the newest is active.
Mockups(ledger) == {d \in ledger : d.id[1] = "mockup" /\ d.status = "confirmed"}
Active(ledger) == {d \in Mockups(ledger) : \A e \in Mockups(ledger) : e.id[2] <= d.id[2]}
Registration(content) ==
  LET active == Active(tree.json)
  IN [id |-> <<"mockup", Max({d.id[2] : d \in active} \cup {0}) + 1>>, source |-> "operator",
      status |-> "confirmed", quote |-> TRUE, supersedes |-> Ids(active), sha |-> content]

\* apv design register: the decision, the plan of its update, then the copy.
Register(u) ==
  /\ cmd[u].pc = "idle" /\ u \in designers
  /\ \E content \in Contents :
       LET plan == Plan({Registration(content)}, Len(commits))
       IN /\ ~\E d \in Active(tree.json) : d.sha = content /\ file = content    \* unchanged
          /\ Planned(plan)
          /\ cmd' = [cmd EXCEPT ![u] = [Idle EXCEPT !.pc = "copy", !.kind = "register",
                                       !.hash = plan, !.content = content]]
  /\ UNCHANGED <<commits, tree, file, reviewed, byHand, overlap, loose>>
Copy(u) ==
  /\ cmd[u].pc = "copy" /\ Writes(u)
  /\ file' = cmd[u].content
  /\ cmd' = [cmd EXCEPT ![u].pc = "working", ![u].previous = file,
                         ![u].plan = Plan(cmd[u].hash.update, Len(commits))]
  /\ UNCHANGED <<commits, tree, reviewed, byHand, loose>>

\* The next step, or a refusal: a registration puts the mockup back.
Proceeds(u, ok, pc) ==
  LET back == ~ok /\ cmd[u].kind = "register" IN
  /\ IF ok THEN Goto(u, pc) ELSE Ends(u)
  /\ IF back THEN file' = cmd[u].previous /\ Writes(u) ELSE UNCHANGED <<file, overlap>>

\* applyLedgerUpdate plans again.
HashOfUpdate(plan) == plan.update                    \* mutated form of Hash
Hash(plan) == plan
ReadWorking(u) ==
  /\ cmd[u].pc = "working"
  /\ Proceeds(u, Planned(cmd[u].plan) /\ Hash(cmd[u].plan) = Hash(cmd[u].hash), "status")
  /\ reviewed' = [reviewed EXCEPT ![u] = NoPlan]           \* a new plan for another apply
  /\ UNCHANGED <<commits, tree, byHand, loose>>

\* git status on the two files.
Dirty == tree # [json |-> HEAD.json, md |-> HEAD.md]
Status(u) ==
  /\ cmd[u].pc = "status" /\ Proceeds(u, ~Dirty, "json")
  /\ UNCHANGED <<commits, tree, reviewed, byHand, loose>>

Content(u) == Result(commits[cmd[u].plan.base].json, cmd[u].plan.update)
WriteJson(u) ==
  /\ cmd[u].pc = "json" /\ Goto(u, "md") /\ Writes(u)
  /\ tree' = [tree EXCEPT !.json = Content(u)]
  /\ UNCHANGED <<commits, file, reviewed, byHand, loose>>
WriteMd(u) ==
  /\ cmd[u].pc = "md" /\ Writes(u)
  /\ tree' = [tree EXCEPT !.md = Content(u)]
  /\ IF cmd[u].commit THEN Goto(u, "commit") ELSE Ends(u)
  /\ UNCHANGED <<commits, file, reviewed, byHand, loose>>

\* The two files as they are in the working copy; nothing to commit is an error.
Commit(u) ==
  /\ cmd[u].pc = "commit" /\ Ends(u)
  /\ IF Dirty /\ Len(commits) < MaxCommits
     THEN /\ commits' = Append(commits, [json |-> tree.json, md |-> tree.md, plan |-> cmd[u].hash])
          /\ Writes(u)
     ELSE UNCHANGED <<commits, overlap>>
  /\ UNCHANGED <<tree, file, reviewed, byHand, loose>>

Kill(u) ==
  /\ cmd[u].pc # "idle" /\ Ends(u)
  /\ loose' = (loose \/ cmd[u].kind = "register")
  /\ UNCHANGED <<commits, tree, file, reviewed, byHand, overlap>>
-----------------------------------------------------------------------------
\* The operator: an edit of the ledger, thrown away; a commit of what an apply
\* without --commit left, or of something else.
ByOperator == overlap' = (overlap \/ \E v \in User : Exposed(v))
HandEdit ==
  /\ ~byHand /\ ~Dirty /\ byHand' = TRUE /\ ByOperator
  /\ \E f \in {"json", "md"} : tree' = [tree EXCEPT ![f] = {Hand}]
  /\ UNCHANGED <<commits, file, cmd, reviewed, loose>>
Discard ==
  /\ Dirty /\ tree' = [json |-> HEAD.json, md |-> HEAD.md] /\ byHand' = FALSE /\ ByOperator
  /\ loose' = (loose \/ Active(tree.json) # Active(HEAD.json))
  /\ UNCHANGED <<commits, file, cmd, reviewed>>
HandCommit ==
  /\ ~byHand /\ Len(commits) < MaxCommits /\ ByOperator
  /\ \E what \in {[json |-> tree.json, md |-> tree.md], [json |-> HEAD.json, md |-> HEAD.md]} :
       commits' = Append(commits, [json |-> what.json, md |-> what.md, plan |-> NoPlan])
  /\ UNCHANGED <<tree, file, cmd, reviewed, byHand, loose>>

\* Bound: nothing is said of what follows an overlap, and it is not explored.
Next ==
  /\ ~overlap /\ UNCHANGED designers
  /\ \/ HandEdit \/ Discard \/ HandCommit
     \/ \E u \in User :
          \/ ReadPlan(u) \/ StartApply(u) \/ Register(u) \/ Copy(u) \/ ReadWorking(u)
          \/ Status(u) \/ WriteJson(u) \/ WriteMd(u)
          \/ Commit(u) \/ Kill(u)

Spec == Init /\ [][Next]_vars
-----------------------------------------------------------------------------
(* As long as nobody writes under a command that has read the ledger, a    *)
(* decision leaves the ledger of a commit only superseded by a decision    *)
(* that enters with it, a confirmed one of the operator only by another of *)
(* the operator, with a quote; a commit of the tool is the plan the user   *)
(* read, on the ledger he read it of, the text with the file; and an edit  *)
(* made by hand is neither overwritten nor committed (applyLedgerUpdate).  *)
LedgerKeepsItsWord ==
  ~overlap =>
    /\ \A k \in 2..Len(commits) :
         LET old == commits[k - 1].json
             new == commits[k].json
             plan == commits[k].plan
         IN /\ Valid(new)
            /\ \A d \in old \ new :
                 \E n \in new \ old : /\ d.id \in n.supersedes
                                      /\ Weighty(d) => n.source = "operator" /\ n.quote
            /\ plan # NoPlan => /\ commits[plan.base].json = old /\ new = Result(old, plan.update)
                                /\ commits[k].md = new
            /\ Hand \notin new \cup commits[k].md
    /\ byHand => Hand \in tree.json \cup tree.md

(* The mockup the working copy names is the one in its file, unless its    *)
(* ledger was discarded or edited, or a registration was killed; a refused *)
(* registration leaves the file as it was (registerMockup).                *)
MockupIsTheOneNamed ==
  ~overlap /\ ~loose /\ ~byHand /\ (\A u \in User : cmd[u].pc = "idle") =>
    file \in {d.sha : d \in Active(tree.json)} \cup (IF Active(tree.json) = {} THEN {0} ELSE {})
=============================================================================
