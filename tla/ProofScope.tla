----------------------------- MODULE ProofScope -----------------------------
(***************************************************************************)
(* What a full run may leave out and what `apv gates verify` accepts in    *)
(* its place: the scope of a check (skipWhenOnly, gates/proof-scope.ts)    *)
(* and the repetition of the changed test files (repeatChanged,            *)
(* gates/repeat.ts), decided when the checks run (gates/run.ts) and        *)
(* recomputed from the commit when they are verified (gates/verify.ts),    *)
(* while the branch, the main branch and the local copy of the reference   *)
(* move.                                                                   *)
(*                                                                         *)
(* A check is a program that reads files: every file its declared list     *)
(* does not dispense, and a dispensed one that such a file names or that   *)
(* is not a plain file (link, executable).  What it proves is the contents *)
(* it read when it ran and passed.                                         *)
(***************************************************************************)
EXTENDS Naturals, Sequences, FiniteSets

CONSTANTS Gate,           \* the checks that declare skipWhenOnly
          DependsOn,      \* [Gate -> SUBSET Gate]
          Lists,          \* [Gate -> [Contents of "conf" -> SUBSET File]]
          MaxCommits,     \* bound: commits on all branches
          MaxAhead        \* bound: commits of the branch the main one lacks

VARIABLES commits,    \* Git: [tree, anc] by number, anc with the commit itself
          branch,     \* the head of the branch of the task
          main,       \* the branch the change goes to
          fetched,    \* the local reference (origin/main), 0 when unresolved
          receipt,    \* what the latest full run of the branch recorded
          verified,   \* the last commit `apv gates verify` accepted, or 0
          proven,     \* <<check, contents read>> of the runs that passed
          repeated    \* contents of the test file that passed the repetition

vars == <<commits, branch, main, fetched, receipt, verified, proven, repeated>>

None == [commit |-> 0]

\* doc and note may be dispensed; code may name note; test is a test file
\* under repeatChanged; conf is the configuration of the checks.
File == {"doc", "note", "code", "test", "conf"}
Contents(f) == CASE f = "doc"  -> {0, 1, 9} \* 9: a link or an executable
                 [] OTHER      -> {0, 1}

\* A file whose names count is never dispensed.
ProofScopeAssumption ==
  /\ IsFiniteSet(Gate) /\ Gate # {}
  /\ DependsOn \in [Gate -> SUBSET Gate]
  /\ \A g \in Gate : Lists[g] \in [Contents("conf") -> SUBSET (File \ {"code"})]

Tree(c) == commits[c].tree
Anc(c) == commits[c].anc

Init ==
  /\ commits = <<[tree |-> [f \in File |-> 0], anc |-> {1}]>>
  /\ branch = 1 /\ main = 1
  /\ fetched \in {0, 1}
  /\ receipt = None /\ verified = 0
  /\ proven = {}
  /\ repeated = {0}

-----------------------------------------------------------------------------
(* What a file of a tree is to a check.                                     *)

Odd(tree, f) == tree[f] = 9

\* Named, or under a folder named, by a tracked file that is not dispensed.
Named(tree) == IF tree["code"] = 1 THEN {"note"} ELSE {}

\* What the check reads: the ground truth.
Reads(g, tree) ==
  LET read == (File \ Lists[g][tree["conf"]]) \union Named(tree)
                 \union {f \in File : Odd(tree, f)}
  IN  [f \in read |-> tree[f]]

-----------------------------------------------------------------------------
(* Git.                                                                     *)

\* The commit common to both that every other one is behind.
MergeBase(a, b) ==
  LET common == Anc(a) \intersect Anc(b)
  IN  CHOOSE c \in common : common \subseteq Anc(c)

Changed(from, to) == {f \in File : Tree(from)[f] # Tree(to)[f]}

-----------------------------------------------------------------------------
(* planScope: is the check required, from the base and the reference?       *)

\* Mutated form of Bases: the reference only gives the lists.
BaseOnly(base, ref, head) == {MergeBase(base, head)}

\* Both merge bases count: a base chosen too close hides nothing.
Bases(base, ref, head) == {MergeBase(base, head), MergeBase(ref, head)}

\* The files other files name, searched at the head.
Mentioned(head) == Named(Tree(head))

Touched(bases, head) == UNION {Changed(from, head) : from \in bases}

\* No list dispenses what every check needs, nor a link or an executable on either side.
Always(bases, head) ==
  LET trees == {Tree(c) : c \in bases \union {head}}
  IN  {"conf", "test"} \* ALWAYS_REQUIRED
        \union {f \in File : \E tree \in trees : Odd(tree, f)} \union Mentioned(head)

\* The lists are those of the reference, never of the change.
Alone(g, files, always, ref) == ~(files \subseteq Lists[g][Tree(ref)["conf"]] \ always)

\* A required check makes its dependencies required, through any others.
WithDependencies(alone) ==
  {g \in Gate : \A set \in SUBSET Gate :
     alone \subseteq set /\ (\A h \in set : DependsOn[h] \subseteq set) => g \in set}

RequiredFor(bases, ref, head, files, always) ==
  WithDependencies({g \in Gate : head \in bases \/ Alone(g, files, always, ref)})

Required(bases, ref, head) ==
  RequiredFor(bases, ref, head, Touched(bases, head), Always(bases, head))

-----------------------------------------------------------------------------
(* planRepeat: the test files added or modified since the merge bases.      *)

ToRepeat(bases, head) == {"test"} \intersect Touched(bases, head)

-----------------------------------------------------------------------------
(* Runs and verifications.                                                  *)

\* A full run on a clean tree: refused without a base strictly below the
\* head or with an unresolved reference.  Each required check runs; one that
\* passes has repeated the changed test files.
RunOn(base, ran, files) ==
  \E passed \in {ran, {}} : \* a check that fails fails the run
    /\ receipt' = [commit |-> branch, base |-> base, files |-> files,
                   status |-> [g \in Gate |-> IF g \in passed THEN "passed"
                                              ELSE IF g \in ran THEN "failed"
                                              ELSE "not_required"]]
    /\ proven' = proven \union {<<g, Reads(g, Tree(branch))>> : g \in passed}
    /\ repeated' = IF passed # {} /\ files # {}
                   THEN repeated \union {Tree(branch)["test"]} ELSE repeated

RunFrom(base, bases) ==
  RunOn(base, Required(bases, fetched, branch), ToRepeat(bases, branch))

Run ==
  /\ fetched # 0
  /\ \E base \in Anc(branch) \ {branch} : RunFrom(base, Bases(base, fetched, branch))
  /\ UNCHANGED <<commits, branch, main, fetched, verified>>

\* repeatGap: the files are counted again, from the base of the run and from
\* the reference as it is now.
Repeated(r, head) == ToRepeat(Bases(r.base, fetched, head), head) \subseteq r.files

\* scopeGap: a check not required is so again, as recomputed now.
Evidence(g, r, head) ==
  CASE r.status[g] = "passed"       -> fetched # 0 /\ Repeated(r, head)
    [] r.status[g] = "failed"       -> FALSE
    [] r.status[g] = "not_required" -> fetched # 0 /\ g \notin Required(Bases(r.base, fetched, head), fetched, head)

Verify ==
  /\ receipt # None /\ receipt.commit = branch
  /\ \A g \in Gate : Evidence(g, receipt, branch)
  /\ verified' = branch
  /\ UNCHANGED <<commits, branch, main, fetched, receipt, proven, repeated>>

-----------------------------------------------------------------------------
(* The branches.                                                            *)

New(tree, anc) ==
  commits' = Append(commits, [tree |-> tree, anc |-> anc \union {Len(commits) + 1}])

Commit ==
  /\ Len(commits) < MaxCommits /\ Cardinality(Anc(branch) \ Anc(main)) < MaxAhead
  /\ \E f \in File, v \in {0, 1, 9} : \* a file of the task
       /\ v \in Contents(f) \ {Tree(branch)[f]}
       /\ New([Tree(branch) EXCEPT ![f] = v], Anc(branch))
  /\ branch' = Len(commits) + 1 /\ receipt' = None
  /\ UNCHANGED <<main, fetched, verified, proven, repeated>>

\* The main branch merged into the branch of the task.
MergeMain ==
  /\ Len(commits) < MaxCommits
  /\ main \notin Anc(branch)
  /\ LET from == Tree(MergeBase(main, branch))
         mine == Tree(branch)
     IN  New([f \in File |-> IF mine[f] = from[f] THEN Tree(main)[f] ELSE mine[f]],
             Anc(branch) \union Anc(main))
  /\ branch' = Len(commits) + 1 /\ receipt' = None
  /\ UNCHANGED <<main, fetched, verified, proven, repeated>>

\* Another branch lands on main, proven by its own complete run.
OtherLands ==
  /\ Len(commits) < MaxCommits
  /\ \E f \in File \ {"test"}, v \in {0, 1} :
       /\ v # Tree(main)[f]
       /\ New([Tree(main) EXCEPT ![f] = v], Anc(main))
       /\ proven' = proven \union {<<g, Reads(g, [Tree(main) EXCEPT ![f] = v])>> : g \in Gate}
  /\ main' = Len(commits) + 1
  /\ UNCHANGED <<branch, fetched, receipt, verified, repeated>>

Fetch == fetched' = main
         /\ UNCHANGED <<commits, branch, main, receipt, verified, proven, repeated>>

\* The verified head lands when it contains the target (StackMerge).
Land ==
  /\ verified = branch /\ main \in Anc(branch)
  /\ main' = branch
  /\ UNCHANGED <<commits, branch, fetched, receipt, verified, proven, repeated>>

Next == Run \/ Verify \/ Commit \/ MergeMain \/ OtherLands \/ Fetch \/ Land

Spec == Init /\ [][Next]_vars

-----------------------------------------------------------------------------
\* For every check, what it would read on the main branch was read by a run
\* of it that passed (or was there at the start), whatever the runs left out
\* as not required, the base they were given, and the reference they saw.
MainIsProven ==
  \A g \in Gate : \/ Reads(g, Tree(main)) = Reads(g, Tree(1))
                  \/ <<g, Reads(g, Tree(main))>> \in proven

\* Every content of the test file that lands on main passed the repetition.
LandedTestsWereRepeated == Tree(main)["test"] \in repeated

\* A check that runs never runs without what it depends on.
NeverWithoutDependencies ==
  receipt # None =>
    \A g \in Gate : receipt.status[g] # "not_required" =>
      \A h \in DependsOn[g] : receipt.status[h] # "not_required"
=============================================================================
