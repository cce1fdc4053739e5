-------------------------------- MODULE Rhythm --------------------------------
(***************************************************************************)
(* Executions side by side, each in a checkout of its own, and the rhythm  *)
(* of the full suite (run/rhythm.ts, commands/gates.ts, commands/run.ts):  *)
(* which copy of a state apv gates run judges by, what it refuses, and the *)
(* override it journals. Copies of a state travel with the commits.        *)
(***************************************************************************)
EXTENDS Naturals, Sequences, FiniteSets

CONSTANTS
  Id,          \* executions, as the words of their name: <<"a">>, <<"a", "b">>
  Checkout, MainCheckout,
  Branch,      \* names of branches: <<"main">>, <<"apv", "a">>, <<"apv", "a", "b">>
  OnFirst,     \* checkout -> the branch it is on at first, or <<"gone">>
  ModeAt,      \* run.fullSuite of a checkout: "final", "each-integration", "unreadable"
  MaxMoves, MaxCommits   \* bounds: what is done around the suite, commits

Steps == {"waves", "integration", "fixes", "delivery"}   \* the reviews, where nothing is expected, left out
Gone == <<"gone">>           \* a checkout that is not there
Detached == <<"detached">>   \* a head on no branch
NoFile == [step |-> "none", over |-> FALSE]
Unreadable == [step |-> "broken", over |-> FALSE]
NoId == <<>>
Nowhere == "nowhere"
Unknown == "unknown"   \* started twice, or its checkout is gone or on another branch

RhythmAssumption ==
  /\ IsFiniteSet(Checkout) /\ Checkout \cap {Nowhere, Unknown} = {} /\ MainCheckout \in Checkout
  /\ Branch \subseteq Seq(STRING) \ {Gone, Detached} /\ <<"main">> \in Branch
  /\ Id \subseteq Seq(STRING) \ {NoId} /\ \A id \in Id : <<"apv">> \o id \in Branch
  /\ OnFirst \in [Checkout -> Branch \cup {Gone, Detached}] /\ OnFirst[MainCheckout] = <<"main">>
  /\ \A c, d \in Checkout : OnFirst[c] = OnFirst[d] /\ OnFirst[c] \in Branch => c = d
  /\ MaxMoves \in Nat /\ MaxCommits \in Nat

VARIABLES
  on,       \* checkout -> the branch it is on, Detached or Gone
  spot,     \* checkout -> the commit of its head
  head,     \* branch -> its commit, 0 before it is created
  commits,  \* the state files of each commit
  files,    \* the state files of each checkout
  home,     \* execution -> the checkout where it was started, Nowhere, or Unknown
  proven,   \* the commits the full suite proved
  cmd,      \* the apv gates run of a full suite, and what it has read
  moves

vars == <<on, spot, head, commits, files, home, proven, cmd, moves>>
tree == <<on, spot, head, commits>>

-----------------------------------------------------------------------------
Present == {c \in Checkout : on[c] # Gone}
Dirty(c) == files[c] # commits[spot[c]]
Own(id) == <<"apv">> \o id

\* Mutated form of Located: the main checkout first.
LocatedMainFirst(id) ==
  LET holders == {c \in Present : files[c][id] # NoFile}
  IN IF Cardinality(holders) <= 1 THEN holders
     ELSE IF MainCheckout \in holders THEN {MainCheckout} ELSE Checkout

(* locateRunState: a single copy; the one of the checkout on the branch of *)
(* the execution; the one of the main checkout.  The set of what it finds, *)
(* Checkout standing for a refusal.                                        *)
Located(id) ==
  LET holders == {c \in Present : files[c][id] # NoFile}
      own == {c \in holders : on[c] = Own(id)}
  IN IF Cardinality(holders) <= 1 THEN holders
     ELSE IF Cardinality(own) = 1 THEN own
     ELSE IF own = {} /\ MainCheckout \in holders THEN {MainCheckout}
     ELSE Checkout

Ambiguous(found) == found = Checkout /\ Cardinality(Checkout) > 1

\* branchSpecIds: the executions a branch may belong to.
BranchSpecIds(b) == {id \in Id : Len(id) < Len(b) /\ SubSeq(b, 1, Len(id) + 1) = Own(id)}

\* findRun, from the branch: those that a checkout has a state of, and the one of the longest name.
Known(c) == {id \in BranchSpecIds(on[c]) : Located(id) # {}}
FoundByBranch(c) == {id \in Known(c) : \A other \in Known(c) : Len(other) <= Len(id)}

\* suiteMode: the configuration of the checkout that holds the state.
SuiteMode(c) == IF ModeAt[c] = "unreadable" THEN "final" ELSE ModeAt[c]

\* computeNext, suite.level: what the step expects to be run.
Level(step, mode) == IF step \in {"waves", "fixes"} /\ mode = "final" THEN "task" ELSE "full"

\* expectedLevel
Expected(c, id) == Level(files[c][id].step, SuiteMode(c))

-----------------------------------------------------------------------------
Idle == [pc |-> "idle", at |-> MainCheckout, named |-> FALSE, id |-> NoId, holder |-> MainCheckout,
         sole |-> {}, due |-> "unknown", missed |-> FALSE, clean |-> FALSE]
NoStates == [id \in Id |-> NoFile]

Init ==
  /\ on = OnFirst
  /\ spot = [c \in Checkout |-> 1]
  /\ head = [b \in Branch |-> IF \E c \in Checkout : on[c] = b THEN 1 ELSE 0]
  /\ commits = <<NoStates>>
  /\ files = [c \in Checkout |-> NoStates]
  /\ home = [id \in Id |-> Nowhere]
  /\ proven = {} /\ cmd = Idle /\ moves = 0

Move == moves' = moves + 1 /\ UNCHANGED <<proven, cmd>>

\* apv run start looks for a state in its own checkout only.
Start(c, id) ==
  /\ Move /\ files[c][id] = NoFile
  /\ files' = [files EXCEPT ![c][id] = [step |-> "waves", over |-> FALSE]]
  /\ home' = [home EXCEPT ![id] = IF @ = Nowhere THEN c ELSE Unknown]
  /\ UNCHANGED tree

CommitAs(c, content) ==
  /\ Len(commits) < MaxCommits /\ commits' = Append(commits, content)
  /\ spot' = [spot EXCEPT ![c] = Len(commits')]
  /\ head' = IF on[c] = Detached THEN head ELSE [head EXCEPT ![on[c]] = Len(commits')]
  /\ UNCHANGED on

\* commitRunState: the file of the execution only, on its branch or one of its tasks.
CommitState(c, id, state) ==
  IF Len(on[c]) > Len(id) /\ SubSeq(on[c], 1, Len(id) + 1) = Own(id) /\ commits[spot[c]][id] # state
    THEN CommitAs(c, [commits[spot[c]] EXCEPT ![id] = state])
    ELSE UNCHANGED tree

\* stateCheckout: the copy of the current checkout, or the one of the execution.
StateCheckout(c, id) == IF files[c][id] # NoFile THEN {c} ELSE Located(id)

\* apv run set, which commits the state at the delivery, and apv run save.
Set(c, id, step) ==
  /\ Move /\ ~Ambiguous(StateCheckout(c, id))
  /\ \E h \in StateCheckout(c, id) :
       /\ files[h][id] # Unreadable /\ files[h][id].step # step
       /\ files' = [files EXCEPT ![h][id].step = step]
       /\ IF step = "delivery" THEN CommitState(h, id, files'[h][id]) ELSE UNCHANGED tree
  /\ UNCHANGED home

Save(c, id) ==
  /\ Move /\ ~Ambiguous(StateCheckout(c, id))
  /\ \E h \in StateCheckout(c, id) : files[h][id] # Unreadable /\ CommitState(h, id, files[h][id])
  /\ UNCHANGED <<files, home>>

\* Git: a worktree, on a branch nobody is on or on none, at the branch or from another checkout.
AddWorktree(c, b, from) ==
  LET at == IF b # Detached /\ head[b] # 0 THEN head[b] ELSE spot[from]
  IN /\ Move
     /\ \A d \in Checkout : b # Detached => on[d] # b
     /\ on' = [on EXCEPT ![c] = b] /\ spot' = [spot EXCEPT ![c] = at]
     /\ head' = IF b = Detached THEN head ELSE [head EXCEPT ![b] = at]
     /\ files' = [files EXCEPT ![c] = commits[at]]
     /\ UNCHANGED <<commits, home>>

Leave(c) == home' = [id \in Id |-> IF home[id] = c THEN Unknown ELSE home[id]]

RemoveWorktree(c) ==
  /\ Move /\ c \in Present \ {MainCheckout} /\ cmd.at # c
  /\ on' = [on EXCEPT ![c] = Gone] /\ files' = [files EXCEPT ![c] = NoStates] /\ Leave(c)
  /\ UNCHANGED <<spot, head, commits>>

\* A checkout goes to another branch; its executions are no more at home there.
Switch(c, b) ==
  /\ Move /\ ~Dirty(c) /\ \A d \in Checkout : on[d] # b
  /\ cmd.pc = "idle" \/ cmd.at # c
  /\ on' = [on EXCEPT ![c] = b]
  /\ head' = IF head[b] = 0 THEN [head EXCEPT ![b] = spot[c]] ELSE head
  /\ spot' = [spot EXCEPT ![c] = head'[b]]
  /\ files' = [files EXCEPT ![c] = commits[head'[b]]] /\ Leave(c)
  /\ UNCHANGED commits

\* A delivered branch is merged and the main checkout updated: the states of the branch come with it.
Deliver(b) ==
  LET merged == [id \in Id |-> IF commits[head[b]][id] # NoFile THEN commits[head[b]][id]
                               ELSE commits[spot[MainCheckout]][id]]
  IN /\ Move /\ on[MainCheckout] = <<"main">> /\ ~Dirty(MainCheckout)
     /\ head[b] # 0 /\ merged # commits[spot[MainCheckout]]
     /\ CommitAs(MainCheckout, merged)
     /\ files' = [files EXCEPT ![MainCheckout] = merged]
     /\ UNCHANGED home

\* A state edited by hand, or left with the marks of a conflict.
Spoil(c, id) ==
  /\ Move /\ files[c][id] \notin {NoFile, Unreadable}
  /\ files' = [files EXCEPT ![c][id] = Unreadable]
  /\ UNCHANGED <<tree, home>>

-----------------------------------------------------------------------------
Suite == <<tree, home, moves>>
Goto(pc) == cmd' = [cmd EXCEPT !.pc = pc]

Refuse == cmd' = Idle
ProvenFull(c) == ~Dirty(c) /\ spot[c] \in proven

(* apv gates run --stage full, in a checkout: its options are chosen where *)
(* they are used.  What is proven is not run again with --skip-proven.     *)
GatesRun(c, skip) ==
  /\ cmd.pc = "idle" /\ c \in Present /\ ~(skip /\ ProvenFull(c))
  /\ cmd' = [Idle EXCEPT !.pc = "find", !.at = c]
  /\ UNCHANGED <<Suite, files, proven>>

(* The home the rhythm can know: where the execution was started, on its   *)
(* branch or in the main checkout on the main branch.                      *)
Home(id) == {c \in Present : home[id] = c /\ on[c] \in {Own(id), IF c = MainCheckout THEN <<"main">> ELSE Own(id)}}

(* findRun, with --run or from the branch.  Beside what it finds, the      *)
(* model notes the home of the execution, and one that it does not see.    *)
FindRun(option) ==
  /\ cmd.pc = "find"
  /\ \/ /\ option = NoId /\ Known(cmd.at) = {}
        /\ cmd' = [cmd EXCEPT !.pc = "go", !.missed = \E id \in BranchSpecIds(on[cmd.at]) : Home(id) # {}]
     \/ \E id \in IF option = NoId THEN FoundByBranch(cmd.at) ELSE {option} :
          LET found == Located(id)
          IN IF found = {} \/ Ambiguous(found) THEN Refuse
             ELSE \E h \in found :
                    cmd' = [cmd EXCEPT !.pc = "judge", !.named = option # NoId, !.id = id,
                                       !.holder = h, !.sole = Home(id)]
  /\ UNCHANGED <<Suite, files, proven>>

\* expectedLevel, read without the lock, and the refusal.  Due is what the home of the execution says.
Judge(reason) ==
  LET state == files[cmd.holder][cmd.id]
      true == {c \in cmd.sole \cap Home(cmd.id) : files[c][cmd.id] # Unreadable}
      due == IF \E c \in true : Expected(c, cmd.id) = "task" THEN "task" ELSE "unknown"
      Goes(pc) == cmd' = [cmd EXCEPT !.pc = pc, !.due = due]
  IN /\ cmd.pc = "judge"
     /\ IF state \in {NoFile, Unreadable} THEN (IF cmd.named THEN Refuse ELSE Goes("go"))
        ELSE IF Expected(cmd.holder, cmd.id) # "task" THEN Goes("go")
        ELSE IF reason THEN Goes("clean") ELSE Refuse
     /\ UNCHANGED <<Suite, files, proven>>

\* cleanTree, before an override: it must not be written in the copy of the suite.
CleanForOverride(allowDirty) ==
  /\ cmd.pc = "clean"
  /\ IF allowDirty \/ (~Dirty(cmd.at) /\ cmd.holder # cmd.at) THEN Goto("journal") ELSE Refuse
  /\ UNCHANGED <<Suite, files, proven>>

\* applyFullSuiteOverride, under the lock of the execution: on the state read again.
JournalOverride ==
  /\ cmd.pc = "journal"
  /\ IF files[cmd.holder][cmd.id] \in {NoFile, Unreadable}
       THEN Refuse /\ UNCHANGED files
       ELSE Goto("start") /\ files' = [files EXCEPT ![cmd.holder][cmd.id].over = TRUE]
  /\ UNCHANGED <<Suite, proven>>

\* cleanTree, unless it was already; runGates reads the tree again: a dirty one proves nothing.
StartSuite(allowDirty) ==
  /\ cmd.pc \in {"go", "start"}
  /\ IF cmd.pc = "go" /\ ~allowDirty /\ Dirty(cmd.at) THEN Refuse
     ELSE cmd' = [cmd EXCEPT !.pc = "running", !.clean = ~Dirty(cmd.at)]
  /\ UNCHANGED <<Suite, files, proven>>

EndSuite(ok) ==
  /\ cmd.pc = "running" /\ cmd' = Idle
  /\ proven' = IF ok /\ cmd.clean /\ ~Dirty(cmd.at) THEN proven \cup {spot[cmd.at]} ELSE proven
  /\ UNCHANGED <<Suite, files>>

Suites ==
  \/ JournalOverride
  \/ \E yes \in BOOLEAN : Judge(yes) \/ CleanForOverride(yes) \/ StartSuite(yes) \/ EndSuite(yes)
  \/ \E option \in Id \cup {NoId} : FindRun(option)
  \/ \E c \in Present : GatesRun(c, TRUE) \/ GatesRun(c, FALSE)

Moves ==
  \/ \E c \in Present : RemoveWorktree(c)
  \/ \E c \in Present, id \in Id : Start(c, id) \/ Save(c, id) \/ Spoil(c, id)
  \/ \E c \in Present, id \in Id, step \in Steps : Set(c, id, step)
  \/ \E c \in Checkout \ Present, from \in Present, b \in Branch \cup {Detached} : AddWorktree(c, b, from)
  \/ \E c \in Present, b \in Branch : Switch(c, b)
  \/ \E b \in Branch : Deliver(b)

Next == Suites \/ (moves < MaxMoves /\ Moves)

-----------------------------------------------------------------------------
(* An execution started in one checkout, which still holds it, is judged   *)
(* by that state, whatever copies the commits brought to the others: when  *)
(* it expects the level of a task, a full suite of one of its branches     *)
(* starts only with its override in the journal of that very state, which  *)
(* a set or a pause made meanwhile keeps; and no execution of a branch     *)
(* goes unseen.                                                            *)
SuitesInRhythm ==
  /\ ~cmd.missed
  /\ cmd.pc = "running" /\ cmd.due = "task" =>
       \A c \in cmd.sole \cap Home(cmd.id) : files[c][cmd.id] # Unreadable => files[c][cmd.id].over
=============================================================================
