---------------------------- MODULE DecisionsProofs ----------------------------
(***************************************************************************)
(* Theorems about the parts of Decisions, for every value of the           *)
(* constants: what the main branch holds is proven whatever the runs left  *)
(* out (ProofScope); a plan is one the scheduler takes, and a proof says   *)
(* that what the configuration declares ran (GateConfig); the ledger keeps *)
(* its word and names the mockup of the copy (Ledger).                     *)
(*                                                                         *)
(* Each part has its invariant (psIInv, gcIInv, lgIInv), shown to hold at  *)
(* first and to be kept by every action; the theorems are at the end.      *)
(***************************************************************************)
EXTENDS Decisions, FiniteSetTheorems, TLAPS

(* The part does not change.                                               *)
LEMMA PartStays == [Next]_vars => part' = part
BY DEF Next, StepPS, StepGC, StepLG, vars

(* A step of the whole is one of ProofScope, or leaves it alone.           *)
LEMMA ProofPart == part = "proof" /\ [Next]_vars => PS!Next \/ UNCHANGED PS!vars
BY DEF Next, StepPS, StepGC, StepLG, vars, psOnly, PS!vars

(* The same for GateConfig.                                                *)
LEMMA ConfigPart == part = "config" /\ [Next]_vars => GC!Next \/ UNCHANGED GC!vars
BY DEF Next, StepPS, StepGC, StepLG, vars, gcOnly, GC!vars

(* The same for Ledger.                                                    *)
LEMMA LedgerPart == part = "ledger" /\ [Next]_vars => LG!Next \/ UNCHANGED LG!vars
BY DEF Next, StepPS, StepGC, StepLG, vars, lgOnly, LG!vars
-----------------------------------------------------------------------------
(***************************************************************************)
(* ProofScope.                                                             *)
(***************************************************************************)
(* A required check makes what it depends on required, through any others. *)
LEMMA ProofClosureIsClosed ==
  ASSUME PS!ProofScopeAssumption, NEW alone \in SUBSET ScopeGates
  PROVE  /\ PS!WithDependencies(alone) \subseteq ScopeGates
         /\ alone \subseteq PS!WithDependencies(alone)
         /\ \A g \in PS!WithDependencies(alone) : ScopeDependsOn[g] \subseteq PS!WithDependencies(alone)
<1>1. ASSUME NEW g \in PS!WithDependencies(alone), NEW h \in ScopeDependsOn[g]
      PROVE  h \in PS!WithDependencies(alone)
  <2>1. g \in ScopeGates /\ h \in ScopeGates
    BY DEF PS!WithDependencies, PS!ProofScopeAssumption
  <2> QED
    BY <1>1, <2>1 DEF PS!WithDependencies
<1> QED
  BY <1>1 DEF PS!WithDependencies

psTreeOK == {t \in [PS!File -> {0, 1, 9}] : t["conf"] \in {0, 1}}

(* What a check reads is the same in two trees that differ only in files   *)
(* its list dispenses and nothing else makes it read.                      *)
LEMMA ProofDispensedChangesNothing ==
  ASSUME PS!ProofScopeAssumption, NEW g \in ScopeGates, NEW from \in psTreeOK, NEW to \in psTreeOK,
         {f \in PS!File : from[f] # to[f]} \subseteq
           ScopeLists[g][from["conf"]] \ ({"conf", "test"} \cup {f \in PS!File : PS!Odd(from, f) \/ PS!Odd(to, f)} \cup PS!Named(to))
  PROVE  PS!Reads(g, from) = PS!Reads(g, to)
<1> DEFINE L == ScopeLists[g][from["conf"]]
<1>1. /\ from["conf"] = to["conf"] /\ "code" \notin L /\ from["code"] = to["code"]
  BY DEF PS!ProofScopeAssumption, PS!Contents, PS!File, psTreeOK
<1>2. PS!Named(from) = PS!Named(to) /\ ScopeLists[g][to["conf"]] = L
  BY <1>1 DEF PS!Named
<1>3. \A f \in PS!File : PS!Odd(from, f) <=> PS!Odd(to, f)
  BY DEF PS!Odd
<1>4. {f \in PS!File : PS!Odd(from, f)} = {f \in PS!File : PS!Odd(to, f)}
  BY <1>3
<1> DEFINE read == (PS!File \ L) \cup PS!Named(from) \cup {f \in PS!File : PS!Odd(from, f)}
<1>5. \A f \in read : f \in PS!File /\ from[f] = to[f]
  BY <1>2, <1>3 DEF PS!Named, PS!File
<1>6. PS!Reads(g, from) = [f \in read |-> from[f]] /\ PS!Reads(g, to) = [f \in read |-> to[f]]
  BY <1>2, <1>4 DEF PS!Reads
<1> HIDE DEF read
<1> QED
  BY <1>5, <1>6
-----------------------------------------------------------------------------
psCommitRecord == [tree : psTreeOK, anc : SUBSET Nat]
psStatus == {"passed", "failed", "not_required"}
psTypeOK ==
  /\ commits \in Seq(psCommitRecord)
  /\ branch \in 1..Len(commits) /\ main \in 1..Len(commits)
  /\ fetched \in 0..Len(commits) /\ verified \in 0..Len(commits)
  /\ \/ receipt = PS!None
     \/ receipt \in [commit : Nat, base : Nat, files : SUBSET {"test"}, status : [ScopeGates -> psStatus]]

(* Git: a commit is after its ancestors, which are those of each of them.  *)
psHistory ==
  \A c \in 1..Len(commits) :
    c \in PS!Anc(c) /\ PS!Anc(c) \subseteq 1..c /\ \A d \in PS!Anc(c) : PS!Anc(d) \subseteq PS!Anc(c)

psProven(c) ==
  \A g \in ScopeGates : \/ PS!Reads(g, PS!Tree(c)) = PS!Reads(g, PS!Tree(1))
                        \/ <<g, PS!Reads(g, PS!Tree(c))>> \in proven
psSound(c) == psProven(c) /\ PS!Tree(c)["test"] \in repeated

(* What lands is proven; so was the reference, once the main branch.  What *)
(* was verified is proven unless it lacks some of the main branch.         *)
psLands ==
  /\ psSound(main)
  /\ fetched # 0 => fetched \in PS!Anc(main) /\ psSound(fetched)
  /\ verified # 0 => psSound(verified) \/ ~(PS!Anc(main) \subseteq PS!Anc(verified))

(* A receipt is that of the branch, and of checks that ran there.          *)
psRecorded ==
  receipt # PS!None =>
    /\ receipt.commit = branch
    /\ \A g \in ScopeGates : receipt.status[g] = "passed" =>
         /\ <<g, PS!Reads(g, PS!Tree(branch))>> \in proven
         /\ receipt.files # {} => PS!Tree(branch)["test"] \in repeated

psIInv == psTypeOK /\ psHistory /\ psLands /\ psRecorded /\ PS!NeverWithoutDependencies

(* A commit leaves the others as they are.                                 *)
LEMMA ProofNewCommit ==
  ASSUME psTypeOK, psHistory, NEW its \in psTreeOK, NEW anc, PS!New(its, anc),
         anc \subseteq 1..Len(commits), \A d \in anc : PS!Anc(d) \subseteq anc
  PROVE  /\ commits' \in Seq(psCommitRecord) /\ Len(commits') = Len(commits) + 1
         /\ \A c \in 1..Len(commits) : PS!Tree(c)' = PS!Tree(c) /\ PS!Anc(c)' = PS!Anc(c)
         /\ commits'[Len(commits) + 1].tree = its
         /\ commits'[Len(commits) + 1].anc = anc \cup {Len(commits) + 1}
         /\ psHistory'
<1> DEFINE n == Len(commits)
           new == [tree |-> its, anc |-> anc \cup {n + 1}]
<1>1. commits \in Seq(psCommitRecord) /\ n \in Nat
  BY DEF psTypeOK
<1>2. new \in psCommitRecord
  <2>1. anc \cup {n + 1} \in SUBSET Nat
    <3>1. n + 1 \in Nat
      BY <1>1
    <3>2. \A x \in 1..n : x \in Nat
      BY <1>1
    <3> QED
      BY <3>1, <3>2
  <2> QED
    BY <2>1 DEF psCommitRecord
<1>3. commits' = Append(commits, new)
  BY DEF PS!New
<1>4. /\ commits' \in Seq(psCommitRecord) /\ Len(commits') = n + 1
      /\ \A c \in 1..n : commits'[c] = commits[c]
      /\ commits'[n + 1] = new
  BY <1>1, <1>2, <1>3
<1>5. \A c \in 1..n : PS!Tree(c)' = PS!Tree(c) /\ PS!Anc(c)' = PS!Anc(c)
  BY <1>4 DEF PS!Tree, PS!Anc
<1>6. \A c : c = n + 1 => PS!Anc(c)' = anc \cup {n + 1}
  BY <1>4 DEF PS!Anc
<1>7. psHistory'
  <2> SUFFICES ASSUME NEW c \in 1..(n + 1)
               PROVE  c \in PS!Anc(c)' /\ PS!Anc(c)' \subseteq 1..c /\ \A d \in PS!Anc(c)' : PS!Anc(d)' \subseteq PS!Anc(c)'
    BY <1>4, Zenon DEF psHistory
  <2>1. CASE c \in 1..n
    <3>1. c \in PS!Anc(c) /\ PS!Anc(c) \subseteq 1..c /\ \A d \in PS!Anc(c) : PS!Anc(d) \subseteq PS!Anc(c)
      BY <2>1 DEF psHistory
    <3>2. 1..c \subseteq 1..n
      BY <2>1, <1>1
    <3> QED
      BY <2>1, <3>1, <3>2, <1>5
  <2>2. CASE c = n + 1
    <3>1. anc \subseteq 1..(n + 1)
      BY <1>1
    <3>2. \A d \in anc : PS!Anc(d)' \subseteq anc
      BY <1>5
    <3>3. c \in 1..c
      BY <2>2, <1>1
    <3> QED
      BY <2>2, <1>6, <3>1, <3>2, <3>3
  <2> QED
    BY <1>1, <2>1, <2>2
<1> QED
  BY <1>4, <1>5, <1>7

(* The reference, when the branch has it, is the merge base.               *)
LEMMA ProofBaseIsReference ==
  ASSUME psTypeOK, psHistory, NEW c \in 1..Len(commits), NEW d \in PS!Anc(c)
  PROVE  PS!MergeBase(d, c) = d
<1>1. d \in 1..Len(commits) /\ PS!Anc(d) \subseteq PS!Anc(c) /\ d \in PS!Anc(d) /\ PS!Anc(d) \subseteq 1..d
  <2>1. d \in 1..c /\ Len(commits) \in Nat
    BY DEF psHistory, psTypeOK
  <2>2. d \in 1..Len(commits)
    BY <2>1
  <2> QED
    BY <2>2 DEF psHistory
<1>2. PS!Anc(d) \cap PS!Anc(c) = PS!Anc(d)
  BY <1>1
<1>3. \A e \in PS!Anc(d) : PS!Anc(d) \subseteq PS!Anc(e) => e = d
  <2> TAKE e \in PS!Anc(d)
  <2> HAVE PS!Anc(d) \subseteq PS!Anc(e)
  <2>1. e \in 1..d /\ d \in PS!Anc(e) /\ d \in Nat /\ Len(commits) \in Nat
    BY <1>1 DEF psTypeOK
  <2>2. e \in 1..Len(commits)
    BY <2>1, <1>1
  <2>3. d \in 1..e
    BY <2>1, <2>2 DEF psHistory
  <2> QED
    BY <2>1, <2>2, <2>3
<1>4. PS!MergeBase(d, c) = CHOOSE e \in PS!Anc(d) : PS!Anc(d) \subseteq PS!Anc(e)
  BY <1>2, Zenon DEF PS!MergeBase
<1> QED
  BY <1>1, <1>3, <1>4, Zenon

(* What was proven stays so.                                               *)
LEMMA ProofProvenStays ==
  ASSUME proven \subseteq proven', repeated \subseteq repeated',
         NEW c, PS!Tree(c)' = PS!Tree(c), PS!Tree(1)' = PS!Tree(1), psSound(c)
  PROVE  psSound(c)'
<1>1. \A g : PS!Reads(g, PS!Tree(c))' = PS!Reads(g, PS!Tree(c)) /\ PS!Reads(g, PS!Tree(1))' = PS!Reads(g, PS!Tree(1))
  BY DEF PS!Reads, PS!Named, PS!Odd, PS!File
<1> QED
  BY <1>1 DEF psSound, psProven

(* Two branches of which one contains the other: the reference the branch  *)
(* has is its merge base with it.                                          *)
LEMMA ProofAncestors ==
  ASSUME psTypeOK, psHistory, NEW c \in 1..Len(commits), NEW d \in PS!Anc(c)
  PROVE  d \in 1..Len(commits) /\ d \in PS!Anc(d) /\ PS!Anc(d) \subseteq PS!Anc(c) /\ PS!Anc(c) \subseteq 1..Len(commits)
<1>1. d \in 1..c /\ Len(commits) \in Nat /\ PS!Anc(c) \subseteq 1..c
  BY DEF psHistory, psTypeOK
<1>2. 1..c \subseteq 1..Len(commits)
  BY <1>1
<1> QED
  BY <1>1, <1>2 DEF psHistory

(* The tree of a commit is one of the trees.                               *)
LEMMA ProofTreesAreTrees ==
  ASSUME psTypeOK, NEW c \in 1..Len(commits)
  PROVE  PS!Tree(c) \in psTreeOK
<1>1. commits[c] \in psCommitRecord
  BY DEF psTypeOK
<1> QED
  BY <1>1 DEF PS!Tree, psCommitRecord

(* The checks not required from a base and a reference the branch contains *)
(* read there what they would read on the reference.                       *)
LEMMA ProofLeftOutReadsTheSame ==
  ASSUME PS!ProofScopeAssumption, psTypeOK, psHistory, NEW ref \in PS!Anc(branch), NEW base, NEW g \in ScopeGates,
         g \notin PS!Required(PS!Bases(base, ref, branch), ref, branch)
  PROVE  /\ PS!Reads(g, PS!Tree(branch)) = PS!Reads(g, PS!Tree(ref))
         /\ PS!Tree(branch)["test"] = PS!Tree(ref)["test"]
<1> DEFINE bases == PS!Bases(base, ref, branch)
           files == PS!Touched(bases, branch)
           always == PS!Always(bases, branch)
           alone == {h \in ScopeGates : branch \in bases \/ PS!Alone(h, files, always, ref)}
           from == PS!Tree(ref)
           to == PS!Tree(branch)
<1>1. branch \in 1..Len(commits) /\ ref \in 1..Len(commits) /\ from \in psTreeOK /\ to \in psTreeOK
  BY ProofAncestors, ProofTreesAreTrees DEF psTypeOK
<1>2. ref \in bases
  BY <1>1, ProofBaseIsReference DEF PS!Bases
<1>3. g \notin alone
  <2>1. alone \subseteq PS!WithDependencies(alone)
    BY ProofClosureIsClosed
  <2> QED
    BY <2>1 DEF PS!Required, PS!RequiredFor
<1>4. files \subseteq ScopeLists[g][from["conf"]] \ always
  BY <1>3 DEF PS!Alone
<1>5. {f \in PS!File : from[f] # to[f]} \subseteq files
  BY <1>2 DEF PS!Touched, PS!Changed
<1>6. {"conf", "test"} \cup {f \in PS!File : PS!Odd(from, f) \/ PS!Odd(to, f)} \cup PS!Named(to) \subseteq always
  BY <1>2 DEF PS!Always, PS!Mentioned
<1>7. {f \in PS!File : from[f] # to[f]} \subseteq
        ScopeLists[g][from["conf"]] \ ({"conf", "test"} \cup {f \in PS!File : PS!Odd(from, f) \/ PS!Odd(to, f)} \cup PS!Named(to))
  BY <1>4, <1>5, <1>6
<1>8. from["test"] = to["test"]
  BY <1>7 DEF PS!File
<1> HIDE DEF from, to
<1>9. PS!Reads(g, from) = PS!Reads(g, to)
  BY <1>1, <1>7, ProofDispensedChangesNothing
<1> QED
  BY <1>8, <1>9 DEF from, to
-----------------------------------------------------------------------------
(* A full run records what it ran.                                         *)
LEMMA ProofRunStep ==
  ASSUME PS!ProofScopeAssumption, psIInv, PS!Run
  PROVE  psIInv'
<1> USE DEF psIInv
<1>1. PICK base \in PS!Anc(branch) \ {branch} : PS!RunFrom(base, PS!Bases(base, fetched, branch))
  BY DEF PS!Run
<1> DEFINE ran == PS!Required(PS!Bases(base, fetched, branch), fetched, branch)
           files == PS!ToRepeat(PS!Bases(base, fetched, branch), branch)
<1>2. PICK passed \in {ran, {}} :
        /\ receipt' = [commit |-> branch, base |-> base, files |-> files,
                       status |-> [g \in ScopeGates |-> IF g \in passed THEN "passed"
                                                        ELSE IF g \in ran THEN "failed"
                                                        ELSE "not_required"]]
        /\ proven' = proven \union {<<g, PS!Reads(g, PS!Tree(branch))>> : g \in passed}
        /\ repeated' = IF passed # {} /\ files # {}
                       THEN repeated \union {PS!Tree(branch)["test"]} ELSE repeated
  BY <1>1, Zenon DEF PS!RunFrom, PS!RunOn
<1>3. UNCHANGED <<commits, branch, main, fetched, verified>>
  BY DEF PS!Run
<1>4. /\ ran \subseteq ScopeGates
      /\ \A g \in ran : ScopeDependsOn[g] \subseteq ran
  <2> DEFINE alone == {g \in ScopeGates : branch \in PS!Bases(base, fetched, branch) \/
                         PS!Alone(g, PS!Touched(PS!Bases(base, fetched, branch), branch),
                                  PS!Always(PS!Bases(base, fetched, branch), branch), fetched)}
  <2>1. ran = PS!WithDependencies(alone) /\ alone \in SUBSET ScopeGates
    BY DEF PS!Required, PS!RequiredFor
  <2> HIDE DEF alone, ran
  <2> QED
    BY <2>1, ProofClosureIsClosed
<1> HIDE DEF ran
<1>5. files \in SUBSET {"test"} /\ base \in Nat /\ branch \in Nat
  <2>1. files \in SUBSET {"test"}
    BY DEF PS!ToRepeat
  <2>2. branch \in 1..Len(commits) /\ Len(commits) \in Nat
    BY DEF psTypeOK
  <2>3. base \in 1..Len(commits)
    BY <2>2, <1>1, ProofAncestors
  <2> QED
    BY <2>1, <2>2, <2>3
<1> HIDE DEF files
<1>6. /\ receipt'.commit = branch /\ receipt'.files = files
      /\ receipt' \in [commit : Nat, base : Nat, files : SUBSET {"test"}, status : [ScopeGates -> psStatus]]
      /\ \A g \in ScopeGates : receipt'.status[g] = IF g \in passed THEN "passed"
                                                    ELSE IF g \in ran THEN "failed" ELSE "not_required"
  BY <1>2, <1>5 DEF psStatus
<1>7. psTypeOK' /\ psHistory'
  BY <1>3, <1>6 DEF psTypeOK, psHistory, PS!Anc
<1>8. /\ \A c : PS!Tree(c)' = PS!Tree(c) /\ PS!Anc(c)' = PS!Anc(c)
      /\ proven \subseteq proven' /\ repeated \subseteq repeated'
  BY <1>2, <1>3 DEF PS!Tree, PS!Anc
<1>9. \A c : psSound(c) => psSound(c)'
  BY <1>8, ProofProvenStays
<1>10. psLands'
  BY <1>3, <1>8, <1>9 DEF psLands
<1>11. psRecorded'
  <2> SUFFICES ASSUME NEW g \in ScopeGates, receipt'.status[g] = "passed"
               PROVE  /\ <<g, PS!Reads(g, PS!Tree(branch))'>> \in proven'
                      /\ receipt'.files # {} => PS!Tree(branch)'["test"] \in repeated'
    BY <1>3, <1>6 DEF psRecorded
  <2>1. g \in passed
    BY <1>6
  <2>2. PS!Reads(g, PS!Tree(branch))' = PS!Reads(g, PS!Tree(branch)) /\ PS!Tree(branch)' = PS!Tree(branch)
    BY <1>3, <1>8 DEF PS!Reads, PS!Named, PS!Odd, PS!File
  <2> QED
    BY <2>1, <2>2, <1>2, <1>6
<1>12. PS!NeverWithoutDependencies'
  <2> SUFFICES ASSUME NEW g \in ScopeGates, receipt'.status[g] # "not_required", NEW h \in ScopeDependsOn[g]
               PROVE  receipt'.status[h] # "not_required"
    BY DEF PS!NeverWithoutDependencies
  <2>1. g \in passed \/ g \in ran
    BY <1>6
  <2>2. g \in ran /\ h \in ran /\ h \in ScopeGates
    BY <2>1, <1>4
  <2> QED
    BY <2>2, <1>6
<1> QED
  BY <1>7, <1>10, <1>11, <1>12

(* What is accepted is proven, or lacks some of the main branch: the       *)
(* reference it was judged against.                                        *)
LEMMA ProofVerifyStep ==
  ASSUME PS!ProofScopeAssumption, psIInv, PS!Verify
  PROVE  psIInv'
<1> USE DEF psIInv
<1>1. /\ receipt # PS!None /\ receipt.commit = branch /\ verified' = branch
      /\ \A g \in ScopeGates : PS!Evidence(g, receipt, branch)
      /\ UNCHANGED <<commits, branch, main, fetched, receipt, proven, repeated>>
  BY DEF PS!Verify
<1>2. branch \in 1..Len(commits) /\ main \in 1..Len(commits) /\ Len(commits) \in Nat
  BY DEF psTypeOK
<1>3. psTypeOK' /\ psHistory' /\ psRecorded' /\ PS!NeverWithoutDependencies'
  <2>1. psTypeOK' /\ psHistory'
    BY <1>1, <1>2 DEF psTypeOK, psHistory, PS!Anc
  <2>2. psRecorded' /\ PS!NeverWithoutDependencies'
    BY <1>1
    DEF psRecorded, PS!NeverWithoutDependencies, PS!Reads, PS!Tree, PS!Named,
        PS!Odd
  <2> QED
    BY <2>1, <2>2
<1>4. receipt.status \in [ScopeGates -> psStatus] /\ receipt.files \subseteq {"test"}
  BY <1>1 DEF psTypeOK
<1>5. \A g \in ScopeGates :
        \/ receipt.status[g] = "passed" /\ fetched # 0 /\ PS!Repeated(receipt, branch)
        \/ receipt.status[g] = "not_required" /\ fetched # 0
           /\ g \notin PS!Required(PS!Bases(receipt.base, fetched, branch), fetched, branch)
  BY <1>1, <1>4 DEF PS!Evidence, psStatus
<1>6. CASE fetched \in PS!Anc(branch)
  <2>1. fetched # 0 /\ psSound(fetched)
    <3>1. fetched \in 1..Len(commits) /\ 0 \notin 1..Len(commits)
      BY <1>2, <1>6, ProofAncestors
    <3> QED
      BY <3>1 DEF psLands
  <2>2. psProven(branch)
    <3> SUFFICES ASSUME NEW g \in ScopeGates
                 PROVE  \/ PS!Reads(g, PS!Tree(branch)) = PS!Reads(g, PS!Tree(1))
                        \/ <<g, PS!Reads(g, PS!Tree(branch))>> \in proven
      BY DEF psProven
    <3>1. CASE receipt.status[g] = "passed"
      BY <1>1, <3>1 DEF psRecorded
    <3>2. CASE g \notin PS!Required(PS!Bases(receipt.base, fetched, branch), fetched, branch)
      BY <1>6, <2>1, <3>2, ProofLeftOutReadsTheSame DEF psSound, psProven
    <3> QED
      BY <1>5, <3>1, <3>2
  <2>3. PS!Tree(branch)["test"] \in repeated
    <3>1. PICK g \in ScopeGates : TRUE
      BY DEF PS!ProofScopeAssumption
    <3>2. CASE g \notin PS!Required(PS!Bases(receipt.base, fetched, branch), fetched, branch)
      BY <1>6, <2>1, <3>2, ProofLeftOutReadsTheSame DEF psSound
    <3>3. CASE receipt.status[g] = "passed" /\ PS!Repeated(receipt, branch)
      <4>1. CASE receipt.files # {}
        BY <1>1, <3>3, <4>1 DEF psRecorded
      <4>2. CASE receipt.files = {}
        <5>1. fetched \in PS!Bases(receipt.base, fetched, branch)
          BY <1>2, <1>6, ProofBaseIsReference DEF PS!Bases
        <5>2. "test" \notin PS!Touched(PS!Bases(receipt.base, fetched, branch), branch)
          BY <3>3, <4>2 DEF PS!Repeated, PS!ToRepeat
        <5>3. PS!Tree(fetched)["test"] = PS!Tree(branch)["test"]
          BY <5>1, <5>2 DEF PS!Touched, PS!Changed, PS!File
        <5> QED
          BY <2>1, <5>3 DEF psSound
      <4> QED
        BY <4>1, <4>2
    <3> QED
      BY <1>5, <3>2, <3>3
  <2>4. psSound(branch)
    BY <2>2, <2>3 DEF psSound
  <2>5. \A c : psSound(c) => psSound(c)'
    BY <1>1, ProofProvenStays DEF PS!Tree
  <2>6. psLands'
    BY <1>1, <2>4, <2>5 DEF psLands, PS!Anc
  <2> QED
    BY <1>3, <2>6
<1>7. CASE fetched \notin PS!Anc(branch)
  <2>1. PICK g \in ScopeGates : TRUE
    BY DEF PS!ProofScopeAssumption
  <2>2. fetched # 0 /\ fetched \in PS!Anc(main)
    BY <1>5, <2>1 DEF psLands
  <2>3. \A c : psSound(c) => psSound(c)'
    BY <1>1, ProofProvenStays DEF PS!Tree
  <2>4. psLands'
    BY <1>1, <1>7, <2>2, <2>3 DEF psLands, PS!Anc
  <2> QED
    BY <1>3, <2>4
<1> QED
  BY <1>6, <1>7

(* A new commit: what was proven stays, and the branches keep theirs.      *)
LEMMA ProofCommitKeeps ==
  ASSUME psTypeOK, psHistory, NEW its \in psTreeOK, NEW anc, PS!New(its, anc),
         anc \subseteq 1..Len(commits), \A d \in anc : PS!Anc(d) \subseteq anc,
         proven \subseteq proven', repeated \subseteq repeated'
  PROVE  \A c \in 1..Len(commits) : PS!Anc(c)' = PS!Anc(c) /\ (psSound(c) => psSound(c)')
<1>1. \A c \in 1..Len(commits) : PS!Anc(c)' = PS!Anc(c) /\ PS!Tree(c)' = PS!Tree(c)
  BY ProofNewCommit
<1>2. 1 \in 1..Len(commits)
  BY DEF psTypeOK
<1>3. \A c \in 1..Len(commits) : psSound(c) => psSound(c)'
  BY <1>1, <1>2, ProofProvenStays
<1> QED
  BY <1>1, <1>3

(* The branch gets a commit: nothing is said of it yet.                    *)
LEMMA ProofBranchMoves ==
  ASSUME PS!ProofScopeAssumption, psIInv, NEW its \in psTreeOK, NEW anc, PS!New(its, anc),
         anc \subseteq 1..Len(commits), \A d \in anc : PS!Anc(d) \subseteq anc,
         branch' = Len(commits) + 1, receipt' = PS!None,
         UNCHANGED <<main, fetched, verified, proven, repeated>>
  PROVE  psIInv'
<1> USE DEF psIInv
<1>1. commits' \in Seq(psCommitRecord) /\ Len(commits') = Len(commits) + 1 /\ psHistory'
  BY ProofNewCommit
<1>2. \A c \in 1..Len(commits) : PS!Anc(c)' = PS!Anc(c) /\ (psSound(c) => psSound(c)')
  BY ProofCommitKeeps
<1>3. psTypeOK'
  <2>1. Len(commits) \in Nat
    BY DEF psTypeOK
  <2> QED
    BY <1>1, <2>1 DEF psTypeOK
<1>4. main \in 1..Len(commits) /\ (fetched # 0 => fetched \in 1..Len(commits))
      /\ (verified # 0 => verified \in 1..Len(commits))
  BY DEF psTypeOK
<1>5. psLands'
  BY <1>2, <1>4 DEF psLands
<1> QED
  BY <1>1, <1>3, <1>5 DEF psRecorded, PS!NeverWithoutDependencies

(* A commit on the branch: nothing lands, nothing is recorded there.       *)
LEMMA ProofCommitStep ==
  ASSUME PS!ProofScopeAssumption, psIInv, PS!Commit
  PROVE  psIInv'
<1> USE DEF psIInv
<1>1. PICK f \in PS!File, v \in {0, 1, 9} :
        /\ v \in PS!Contents(f)
        /\ PS!New([PS!Tree(branch) EXCEPT ![f] = v], PS!Anc(branch))
  BY DEF PS!Commit
<1>2. branch \in 1..Len(commits)
  BY DEF psTypeOK
<1>3. [PS!Tree(branch) EXCEPT ![f] = v] \in psTreeOK
  BY <1>1, <1>2, ProofTreesAreTrees DEF psTreeOK, PS!Contents, PS!File
<1>4. PS!Anc(branch) \subseteq 1..Len(commits) /\ \A d \in PS!Anc(branch) : PS!Anc(d) \subseteq PS!Anc(branch)
  BY <1>2, ProofAncestors
<1>5. branch' = Len(commits) + 1 /\ receipt' = PS!None /\ UNCHANGED <<main, fetched, verified, proven, repeated>>
  BY DEF PS!Commit
<1> QED
  BY <1>1, <1>3, <1>4, <1>5, ProofBranchMoves

(* The main branch merged into the branch: the same.                       *)
LEMMA ProofMergeStep ==
  ASSUME PS!ProofScopeAssumption, psIInv, PS!MergeMain
  PROVE  psIInv'
<1> USE DEF psIInv
<1> DEFINE from == PS!Tree(PS!MergeBase(main, branch))
           mine == PS!Tree(branch)
           its == [f \in PS!File |-> IF mine[f] = from[f] THEN PS!Tree(main)[f] ELSE mine[f]]
           anc == PS!Anc(branch) \union PS!Anc(main)
<1>1. PS!New(its, anc)
  BY DEF PS!MergeMain
<1>2. branch \in 1..Len(commits) /\ main \in 1..Len(commits)
  BY DEF psTypeOK
<1>3. its \in psTreeOK
  <2>1. mine \in psTreeOK /\ PS!Tree(main) \in psTreeOK
    BY <1>2, ProofTreesAreTrees
  <2> HIDE DEF mine, from
  <2> QED
    BY <2>1 DEF psTreeOK, PS!File
<1>4. anc \subseteq 1..Len(commits) /\ \A d \in anc : PS!Anc(d) \subseteq anc
  BY <1>2, ProofAncestors
<1>5. branch' = Len(commits) + 1 /\ receipt' = PS!None /\ UNCHANGED <<main, fetched, verified, proven, repeated>>
  BY DEF PS!MergeMain
<1> HIDE DEF its, anc
<1> QED
  BY <1>1, <1>3, <1>4, <1>5, ProofBranchMoves

(* The main branch gets a proven commit, after those it had.               *)
LEMMA ProofOtherStep ==
  ASSUME PS!ProofScopeAssumption, psIInv, PS!OtherLands
  PROVE  psIInv'
<1> USE DEF psIInv
<1>1. PICK f \in PS!File \ {"test"}, v \in {0, 1} :
        /\ PS!New([PS!Tree(main) EXCEPT ![f] = v], PS!Anc(main))
        /\ proven' = proven \union {<<g, PS!Reads(g, [PS!Tree(main) EXCEPT ![f] = v])>> : g \in ScopeGates}
  BY DEF PS!OtherLands
<1> DEFINE its == [PS!Tree(main) EXCEPT ![f] = v]
           n == Len(commits)
<1>2. /\ branch \in 1..n /\ main \in 1..n /\ n \in Nat
      /\ (fetched # 0 => fetched \in 1..n) /\ (verified # 0 => verified \in 1..n)
  BY DEF psTypeOK
<1>3. its \in psTreeOK /\ its["test"] = PS!Tree(main)["test"]
  BY <1>2, ProofTreesAreTrees DEF psTreeOK, PS!File
<1>4. PS!Anc(main) \subseteq 1..n /\ \A d \in PS!Anc(main) : PS!Anc(d) \subseteq PS!Anc(main)
  BY <1>2, ProofAncestors
<1>5. main' = n + 1 /\ UNCHANGED <<branch, fetched, receipt, verified, repeated>>
  BY DEF PS!OtherLands
<1> HIDE DEF its
<1>6. PS!New(its, PS!Anc(main)) /\ proven' = proven \union {<<g, PS!Reads(g, its)>> : g \in ScopeGates}
  BY <1>1 DEF its
<1>7. /\ commits' \in Seq(psCommitRecord) /\ Len(commits') = n + 1 /\ psHistory'
      /\ commits'[n + 1].tree = its /\ commits'[n + 1].anc = PS!Anc(main) \cup {n + 1}
      /\ \A c \in 1..n : PS!Tree(c)' = PS!Tree(c) /\ PS!Anc(c)' = PS!Anc(c)
  BY <1>3, <1>4, <1>6, ProofNewCommit
<1>8. \A c \in 1..n : psSound(c) => psSound(c)'
  BY <1>3, <1>4, <1>5, <1>6, ProofCommitKeeps
<1>9. psTypeOK'
  BY <1>2, <1>5, <1>7 DEF psTypeOK
<1>10. PS!Tree(main)' = its /\ PS!Anc(main)' = PS!Anc(main) \cup {n + 1}
  BY <1>5, <1>7 DEF PS!Tree, PS!Anc
<1>11. psSound(main)'
  <2>1. \A g \in ScopeGates : PS!Reads(g, its) = PS!Reads(g, PS!Tree(main))'
    BY <1>10 DEF PS!Reads, PS!Named, PS!Odd, PS!File
  <2> QED
    BY <1>3, <1>5, <1>6, <1>10, <2>1 DEF psLands, psSound, psProven
<1>12. psLands'
  <2>1. fetched' # 0 => fetched' \in PS!Anc(main)' /\ psSound(fetched)'
    BY <1>2, <1>5, <1>8, <1>10 DEF psLands, psSound
  <2>2. verified' # 0 => psSound(verified)' \/ ~(PS!Anc(main)' \subseteq PS!Anc(verified)')
    BY <1>2, <1>5, <1>7, <1>8, <1>10 DEF psLands, psSound
  <2> QED
    BY <1>11, <2>1, <2>2 DEF psLands
<1>13. psRecorded'
  <2>1. PS!Tree(branch)' = PS!Tree(branch)
    BY <1>2, <1>5, <1>7 DEF PS!Tree
  <2>2. \A g \in ScopeGates : PS!Reads(g, PS!Tree(branch))' = PS!Reads(g, PS!Tree(branch))
    BY <2>1 DEF PS!Reads, PS!Named, PS!Odd, PS!File
  <2> QED
    BY <1>5, <1>6, <2>1, <2>2 DEF psRecorded
<1>14. PS!NeverWithoutDependencies'
  BY <1>5 DEF PS!NeverWithoutDependencies
<1> QED
  BY <1>7, <1>9, <1>12, <1>13, <1>14

(* The reference takes the main branch, or the main branch the branch.     *)
LEMMA ProofMoveStep ==
  ASSUME PS!ProofScopeAssumption, psIInv, PS!Fetch \/ PS!Land \/ UNCHANGED PS!vars
  PROVE  psIInv'
<1> USE DEF psIInv
<1>1. UNCHANGED <<commits, branch, receipt, verified, proven, repeated>>
  BY DEF PS!Fetch, PS!Land, PS!vars
<1>2. \A c : PS!Tree(c)' = PS!Tree(c) /\ PS!Anc(c)' = PS!Anc(c) /\ (psSound(c) => psSound(c)')
  BY <1>1, ProofProvenStays DEF PS!Tree, PS!Anc
<1>3. branch \in 1..Len(commits) /\ main \in 1..Len(commits) /\ Len(commits) \in Nat
  BY DEF psTypeOK
<1>4. main' \in {main, branch} /\ fetched' \in {fetched, main}
  BY DEF PS!Fetch, PS!Land, PS!vars
<1>5. psTypeOK' /\ psHistory' /\ psRecorded' /\ PS!NeverWithoutDependencies'
  <2>1. psTypeOK' /\ psHistory'
    BY <1>1, <1>3, <1>4 DEF psTypeOK, psHistory, PS!Anc
  <2>2. psRecorded' /\ PS!NeverWithoutDependencies'
    BY <1>1
    DEF psRecorded, PS!NeverWithoutDependencies, PS!Reads, PS!Tree, PS!Named,
        PS!Odd
  <2> QED
    BY <2>1, <2>2
<1>6. psSound(main)' /\ PS!Anc(main) \subseteq PS!Anc(main)'
  <2>1. CASE PS!Land
    <3>1. verified = branch /\ main \in PS!Anc(branch) /\ main' = branch
      BY <2>1 DEF PS!Land
    <3>2. PS!Anc(main) \subseteq PS!Anc(branch) /\ verified # 0
      BY <1>3, <3>1, ProofAncestors
    <3>3. psSound(branch)
      BY <3>1, <3>2 DEF psLands
    <3> QED
      BY <1>1, <1>2, <3>1, <3>2, <3>3 DEF psSound, psProven, PS!Anc
  <2>2. CASE PS!Fetch \/ UNCHANGED PS!vars
    <3>1. main' = main
      BY <2>2 DEF PS!Fetch, PS!vars
    <3> QED
      BY <1>1, <1>2, <3>1 DEF psLands, psSound, psProven, PS!Anc
  <2> QED
    BY <2>1, <2>2
<1>7. fetched' # 0 => fetched' \in PS!Anc(main)' /\ psSound(fetched)'
  <2>1. CASE fetched' = fetched
    BY <1>1, <1>2, <1>6, <2>1 DEF psLands, psSound, psProven
  <2>2. CASE fetched' = main /\ PS!Fetch
    <3>1. main \in PS!Anc(main)
      BY <1>3 DEF psHistory
    <3> QED
      BY <1>1, <1>2, <1>6, <2>2, <3>1 DEF psLands, psSound, psProven
  <2> QED
    BY <1>4, <2>1, <2>2 DEF PS!Land, PS!Fetch, PS!vars
<1>8. verified' # 0 => psSound(verified)' \/ ~(PS!Anc(main)' \subseteq PS!Anc(verified)')
  BY <1>1, <1>2, <1>6 DEF psLands, psSound, psProven, PS!Anc
<1> QED
  BY <1>5, <1>6, <1>7, <1>8 DEF psLands

(* At first the main branch is what it is compared with.                   *)
LEMMA ProofInitHolds ==
  ASSUME PS!ProofScopeAssumption, PS!Init
  PROVE  psIInv
<1> USE DEF PS!Init
<1>1. /\ commits = <<[tree |-> [f \in PS!File |-> 0], anc |-> {1}]>>
      /\ branch = 1 /\ main = 1 /\ fetched \in {0, 1} /\ receipt = PS!None /\ verified = 0 /\ repeated = {0}
  OBVIOUS
<1>2. [f \in PS!File |-> 0] \in psTreeOK /\ {1} \in SUBSET Nat
  BY DEF psTreeOK, PS!File
<1>3. commits \in Seq(psCommitRecord) /\ Len(commits) = 1 /\ commits[1] = [tree |-> [f \in PS!File |-> 0], anc |-> {1}]
  <2>1. [tree |-> [f \in PS!File |-> 0], anc |-> {1}] \in psCommitRecord
    BY <1>2 DEF psCommitRecord
  <2> QED
    BY <1>1, <2>1
<1>4. psTypeOK
  BY <1>1, <1>3 DEF psTypeOK
<1>5. PS!Anc(1) = {1} /\ PS!Tree(1)["test"] = 0
  BY <1>3 DEF PS!Anc, PS!Tree, PS!File
<1>6. psHistory
  BY <1>3, <1>5 DEF psHistory
<1>7. psLands
  BY <1>1, <1>5 DEF psLands, psSound, psProven
<1> QED
  BY <1>1, <1>4, <1>6, <1>7 DEF psIInv, psRecorded, PS!NeverWithoutDependencies

(* Every step of ProofScope keeps its invariant.                           *)
LEMMA ProofStepHolds ==
  ASSUME PS!ProofScopeAssumption, psIInv, PS!Next \/ UNCHANGED PS!vars
  PROVE  psIInv'
BY ProofRunStep, ProofVerifyStep, ProofCommitStep, ProofMergeStep,
   ProofOtherStep, ProofMoveStep DEF PS!Next
-----------------------------------------------------------------------------
(***************************************************************************)
(* GateConfig.  First the operators: the closure of a selection, what a    *)
(* stage, a scope and a spreading leave of it.  Then the calls: gcIInv     *)
(* holds what a call has decided so far (gcCalls) and says that the        *)
(* receipts on disk are those of the calls that ended, all of them         *)
(* (gcWritten).                                                            *)
(***************************************************************************)
(* The checks of an accepted configuration.                                *)
gcGood(gates) == gates \in {d.gates : d \in GC!Configurations}

(* What configIssues established of them.                                  *)
LEMMA ConfigLoaded ==
  ASSUME GC!GateConfigAssumption, NEW gates, gcGood(gates)
  PROVE  /\ gates \in Seq(GC!Check)
         /\ GC!Distinct(gates) /\ GC!KnownDependencies(gates)
         /\ GC!TaskNeedsTask(gates) /\ GC!TargetedRuns(gates)
         /\ GC!ValidDag(gates, GC!Ids(gates))
BY DEF GC!GateConfigAssumption, gcGood, GC!Configurations, GC!Accepted

(* A check is found by its identifier.                                     *)
LEMMA ConfigFound ==
  ASSUME GC!GateConfigAssumption, NEW gates, gcGood(gates)
  PROVE  /\ \A i \in GC!Ids(gates) :
              GC!Declared(gates, i) \in GC!Range(gates) /\ GC!Declared(gates, i).id = i
         /\ \A g \in GC!Range(gates) : g.id \in GC!Ids(gates) /\ GC!Declared(gates, g.id) = g
         /\ \A g \in GC!Range(gates) : g \in GC!Check
         /\ GC!Ids(gates) \subseteq ConfigChecks
<1>1. \A i \in GC!Ids(gates) :
        GC!Declared(gates, i) \in GC!Range(gates) /\ GC!Declared(gates, i).id = i
  BY DEF GC!Ids, GC!Declared
<1>2. \A g \in GC!Range(gates) : g.id \in GC!Ids(gates)
  BY DEF GC!Ids
<1>3. \A g, h \in GC!Range(gates) : g.id = h.id => g = h
  <2>1. \A j, k \in DOMAIN gates : gates[j].id = gates[k].id => j = k
    BY ConfigLoaded DEF GC!Distinct, GC!IsInjective
  <2> QED
    BY <2>1 DEF GC!Range
<1>4. \A g \in GC!Range(gates) : g \in GC!Check
  BY ConfigLoaded DEF GC!Range
<1> QED
  BY <1>1, <1>2, <1>3, <1>4 DEF GC!Check, GC!Ids

(* What a check depends on is declared.                                    *)
LEMMA ConfigDepsDeclared ==
  ASSUME GC!GateConfigAssumption, NEW gates, gcGood(gates), NEW i \in GC!Ids(gates)
  PROVE  GC!Deps(gates, i) \subseteq GC!Ids(gates)
BY ConfigLoaded, ConfigFound DEF GC!Deps, GC!KnownDependencies

(* A set of checks that holds what they depend on.                         *)
gcClosed(gates, set) == \A i \in set : GC!Deps(gates, i) \subseteq set

(* The selection: what was asked for, with all it depends on.              *)
LEMMA ConfigClosureIsClosed ==
  ASSUME GC!GateConfigAssumption, NEW gates, gcGood(gates), NEW chosen \in SUBSET GC!Ids(gates)
  PROVE  /\ chosen \subseteq GC!Closure(gates, chosen)
         /\ GC!Closure(gates, chosen) \subseteq GC!Ids(gates)
         /\ gcClosed(gates, GC!Closure(gates, chosen))
<1>1. ASSUME NEW j \in GC!Closure(gates, chosen), NEW i \in GC!Deps(gates, j)
      PROVE  i \in GC!Closure(gates, chosen)
  BY <1>1, ConfigDepsDeclared DEF GC!Closure
<1> QED
  BY <1>1 DEF GC!Closure, gcClosed

(* selectGates: declared checks, with what they depend on.                 *)
LEMMA ConfigSelectionIsClosed ==
  ASSUME GC!GateConfigAssumption, NEW gates, gcGood(gates), NEW only \in SUBSET GC!Ids(gates)
  PROVE  /\ only \subseteq GC!SelectGates(gates, only)
         /\ GC!SelectGates(gates, only) \subseteq GC!Ids(gates)
         /\ gcClosed(gates, GC!SelectGates(gates, only))
BY ConfigClosureIsClosed, ConfigDepsDeclared DEF GC!SelectGates, gcClosed

(* What a stage runs holds what it depends on: the two rules of the loader *)
(* about stages.                                                           *)
LEMMA ConfigStageIsClosed ==
  ASSUME GC!GateConfigAssumption, NEW gates, gcGood(gates), NEW set \in SUBSET GC!Ids(gates),
         gcClosed(gates, set), NEW stage
  PROVE  gcClosed(gates, GC!StageGates(gates, set, stage))
<1> SUFFICES ASSUME NEW j \in GC!StageGates(gates, set, stage), NEW i \in GC!Deps(gates, j)
             PROVE  i \in GC!StageGates(gates, set, stage)
  BY DEF gcClosed
<1> DEFINE t == GC!Declared(gates, j)
           d == GC!Declared(gates, i)
<1>1. j \in set /\ i \in set /\ i \in GC!Ids(gates) /\ j \in GC!Ids(gates)
  BY DEF GC!StageGates, gcClosed
<1>2. /\ t \in GC!Range(gates) /\ t.id = j /\ d \in GC!Range(gates) /\ d.id = i
      /\ d.id \in GC!Range(t.dependsOn)
      /\ t.stage \in {"task", "full"} /\ t.affected \in BOOLEAN
      /\ d.stage \in {"task", "full"} /\ d.affected \in BOOLEAN
  BY <1>1, ConfigFound DEF GC!Deps, GC!Check
<1>3. stage = "task" => t.stage = "task" \/ t.affected
  BY <1>2 DEF GC!StageGates, GC!Reserved
<1>4. stage = "task" => d.stage = "task" \/ d.affected
  BY <1>2, <1>3, ConfigLoaded DEF GC!TaskNeedsTask, GC!TargetedRuns
<1> QED
  BY <1>1, <1>2, <1>4 DEF GC!StageGates, GC!Reserved

(* What the scope leaves out is needed by nothing that runs.               *)
LEMMA ConfigScopeLeavesClosed ==
  ASSUME GC!GateConfigAssumption, NEW gates, gcGood(gates), NEW set \in SUBSET GC!Ids(gates),
         gcClosed(gates, set), NEW stage,
         NEW unconcerned \in SUBSET {i \in GC!Ids(gates) : GC!Declared(gates, i).skips}
  PROVE  gcClosed(gates, set \ (GC!Scoped(gates, set, stage) \cap GC!NotRequired(gates, unconcerned)))
<1> DEFINE left == GC!Scoped(gates, set, stage) \cap GC!NotRequired(gates, unconcerned)
<1> SUFFICES ASSUME NEW j \in set \ left, NEW i \in GC!Deps(gates, j), i \in left
             PROVE  FALSE
  BY DEF gcClosed
<1>1. j \in GC!Ids(gates) /\ i \in set /\ i \in GC!Ids(gates)
  BY DEF gcClosed
<1>2. \A k \in GC!Ids(gates) : j \in GC!Closure(gates, {k}) => i \in GC!Closure(gates, {k})
  BY ConfigClosureIsClosed DEF gcClosed
<1>3. i \in GC!Closure(gates, {j})
  BY <1>1, <1>2, ConfigClosureIsClosed
<1>4. \A k \in GC!Ids(gates) : i \in GC!Closure(gates, {k}) => k \in unconcerned
  BY DEF GC!NotRequired
<1>5. j \in unconcerned
  BY <1>1, <1>3, <1>4
<1>6. j \in GC!NotRequired(gates, unconcerned)
  BY <1>2, <1>4, <1>5 DEF GC!NotRequired
<1>7. j \in GC!Scoped(gates, set, stage)
  BY <1>5 DEF GC!Scoped
<1> QED
  BY <1>6, <1>7

(* A closed set of checks of an accepted configuration is a plan.          *)
LEMMA ConfigClosedIsValid ==
  ASSUME GC!GateConfigAssumption, NEW gates, gcGood(gates), NEW set \in SUBSET GC!Ids(gates),
         gcClosed(gates, set)
  PROVE  GC!ValidDag(gates, set)
BY ConfigLoaded DEF GC!ValidDag, gcClosed

(* planSpread moves a check alone: it needs no other, no other needs it.   *)
LEMMA ConfigCopiesAreMovable ==
  ASSUME NEW gates, NEW set, NEW stacks, NEW s
  PROVE  /\ GC!InCopy(gates, set, stacks, s) \subseteq GC!Movable(gates, set)
         /\ GC!Movable(gates, set) \subseteq set
BY DEF GC!InCopy, GC!StackOf, GC!Movable, GC!OnStack

(* The suite dealt to the stacks: every check in one group, with what it   *)
(* depends on.                                                             *)
LEMMA ConfigGroupsAreSound ==
  ASSUME NEW gates, NEW set, gcClosed(gates, set), NEW stacks
  PROVE  /\ \A group \in GC!Groups(gates, set, stacks) : group \subseteq set /\ gcClosed(gates, group)
         /\ UNION GC!Groups(gates, set, stacks) = set
         /\ \A x, y \in GC!Groups(gates, set, stacks) : x = y \/ x \cap y = {}
<1> DEFINE Part(s) == GC!InCopy(gates, set, stacks, s)
           rest == set \ UNION {Part(s) : s \in GC!Range(stacks)}
<1>1. \A s : Part(s) \subseteq GC!Movable(gates, set) /\ Part(s) \subseteq set
  BY ConfigCopiesAreMovable
<1>2. \A group \in GC!Groups(gates, set, stacks) :
        group = rest \/ \E s \in GC!Range(stacks) : group = Part(s)
  BY DEF GC!Groups, GC!Copies
<1>3. \A s, t : s # t => Part(s) \cap Part(t) = {}
  BY DEF GC!InCopy
<1>4. ASSUME NEW s PROVE gcClosed(gates, Part(s))
  BY <1>1 DEF gcClosed, GC!Movable
<1>5. gcClosed(gates, rest)
  <2> SUFFICES ASSUME NEW j \in rest, NEW i \in GC!Deps(gates, j),
                      NEW s \in GC!Range(stacks), i \in Part(s)
               PROVE  FALSE
    BY DEF gcClosed
  <2>1. i \in GC!Movable(gates, set) /\ j \in set
    BY <1>1
  <2> QED
    BY <2>1 DEF GC!Movable
<1>6. \A group \in GC!Groups(gates, set, stacks) : group \subseteq set /\ gcClosed(gates, group)
  BY <1>1, <1>2, <1>4, <1>5
<1>7. set \subseteq UNION GC!Groups(gates, set, stacks)
  <2> SUFFICES ASSUME NEW i \in set PROVE \E group \in GC!Groups(gates, set, stacks) : i \in group
    OBVIOUS
  <2>1. CASE i \in rest
    BY <2>1 DEF GC!Groups
  <2>2. CASE \E s \in GC!Range(stacks) : i \in Part(s)
    <3>1. PICK s \in GC!Range(stacks) : i \in Part(s)
      BY <2>2
    <3>2. s \in GC!Copies(gates, set, stacks) /\ Part(s) # {}
      BY <3>1 DEF GC!Copies
    <3> QED
      BY <3>1, <3>2 DEF GC!Groups
  <2> QED
    BY <2>1, <2>2
<1>8. \A s \in GC!Range(stacks) : Part(s) \cap rest = {}
  OBVIOUS
<1>9. \A x, y \in GC!Groups(gates, set, stacks) : x = y \/ x \cap y = {}
  <2> TAKE x, y \in GC!Groups(gates, set, stacks)
  <2>1. CASE x = rest \/ y = rest
    BY <2>1, <1>2, <1>8
  <2>2. CASE x # rest /\ y # rest
    <3>1. PICK s \in GC!Range(stacks) : x = Part(s)
      BY <2>2, <1>2
    <3>2. PICK t \in GC!Range(stacks) : y = Part(t)
      BY <2>2, <1>2
    <3> QED
      BY <3>1, <3>2, <1>3
  <2> QED
    BY <2>1, <2>2
<1> QED
  BY <1>6, <1>7, <1>9
-----------------------------------------------------------------------------
(* What a call has decided: at each point, from an accepted configuration  *)
(* and options the command line takes.                                     *)
gcChosen(c) ==
  /\ gcGood(call[c].gates) /\ GC!Opt(c) \in ConfigOptions
  /\ GC!Opt(c).only \subseteq GC!Ids(call[c].gates)

gcPlanned(c) ==
  /\ GC!Selected(c) # {} /\ call[c].commit \in Nat
  /\ \E unconcerned \in SUBSET {i \in GC!Ids(call[c].gates) : GC!Declared(call[c].gates, i).skips} :
       call[c].skipped =
         GC!Scoped(call[c].gates, GC!Selected(c), GC!Opt(c).stage)
           \cap GC!NotRequired(call[c].gates, unconcerned)

gcDealt(c) ==
  call[c].groups = IF GC!Opt(c).stacks = <<>> THEN {GC!Runnable(c)} \ {{}}
                   ELSE GC!Groups(call[c].gates, GC!Runnable(c), GC!Opt(c).stacks)

gcConsistent(c) ==
  /\ call[c].pc # "idle" => gcChosen(c)
  /\ call[c].pc \in {"planned", "dealt", "ended"} => gcPlanned(c)
  /\ call[c].pc = "dealt" => gcDealt(c)
  /\ call[c].pc = "ended" => call[c].passed \subseteq GC!Runnable(c)

gcCalls == \A c \in ConfigCalls : gcConsistent(c)

(* The receipts of a call, once it has ended.                              *)
gcReceiptsOf(c) ==
  {GC!Receipt(c, i, "passed", call[c].at) : i \in call[c].passed}
    \cup {GC!Receipt(c, i, "failed", call[c].at) : i \in GC!Runnable(c) \ call[c].passed}
    \cup {GC!Receipt(c, i, "not_required", call[c].at) : i \in call[c].skipped}

(* A receipt on disk was written by a call that ended, and all of its are. *)
gcWritten == receipts = UNION {gcReceiptsOf(c) : c \in GC!Ended}

gcIInv == GC!TypeOK /\ gcCalls /\ gcWritten

(* What an accepted configuration and a usable command line select.        *)
LEMMA ConfigSelectedIsClosed ==
  ASSUME GC!GateConfigAssumption, NEW c, gcChosen(c)
  PROVE  /\ GC!Selected(c) \subseteq GC!Ids(call[c].gates) /\ GC!Selected(c) \subseteq ConfigChecks
         /\ gcClosed(call[c].gates, GC!Selected(c))
<1> DEFINE gates == call[c].gates
           all == GC!SelectGates(gates, GC!Opt(c).only)
<1>1. all \subseteq GC!Ids(gates) /\ gcClosed(gates, all)
  BY ConfigSelectionIsClosed DEF gcChosen
<1>2. gcClosed(gates, GC!Selected(c))
  BY <1>1, ConfigStageIsClosed DEF gcChosen, GC!Selected
<1>3. GC!Selected(c) \subseteq GC!Ids(gates)
  BY <1>1 DEF GC!Selected, GC!StageGates
<1> QED
  BY <1>2, <1>3, ConfigFound DEF gcChosen

(* What it runs once the scope has been counted.                           *)
LEMMA ConfigRunnableIsClosed ==
  ASSUME GC!GateConfigAssumption, NEW c, gcChosen(c), gcPlanned(c)
  PROVE  /\ GC!Runnable(c) \subseteq GC!Selected(c)
         /\ call[c].skipped \subseteq GC!Selected(c)
         /\ \A i \in call[c].skipped : GC!Declared(call[c].gates, i).skips
         /\ gcClosed(call[c].gates, GC!Runnable(c))
<1> DEFINE gates == call[c].gates
<1>1. PICK unconcerned \in SUBSET {i \in GC!Ids(gates) : GC!Declared(gates, i).skips} :
        call[c].skipped = GC!Scoped(gates, GC!Selected(c), GC!Opt(c).stage)
                            \cap GC!NotRequired(gates, unconcerned)
  BY DEF gcPlanned
<1>2. gcClosed(gates, GC!Selected(c) \ (GC!Scoped(gates, GC!Selected(c), GC!Opt(c).stage)
                                         \cap GC!NotRequired(gates, unconcerned)))
  BY ConfigSelectedIsClosed, ConfigScopeLeavesClosed DEF gcChosen
<1>3. gcClosed(gates, GC!Runnable(c))
  BY <1>1, <1>2 DEF GC!Runnable
<1> QED
  BY <1>1, <1>3 DEF GC!Runnable, GC!Scoped

(* A call that has not changed decides the same.                           *)
LEMMA ConfigUnmoved ==
  ASSUME NEW k, call'[k] = call[k]
  PROVE  /\ gcChosen(k)' <=> gcChosen(k)
         /\ gcPlanned(k)' <=> gcPlanned(k)
         /\ gcDealt(k)' <=> gcDealt(k)
         /\ GC!Runnable(k)' = GC!Runnable(k)
         /\ gcReceiptsOf(k)' = gcReceiptsOf(k)
BY DEF gcChosen, gcPlanned, gcDealt, GC!Runnable, gcReceiptsOf, GC!Receipt,
       GC!Selected, GC!Opt

(* Nor does one that keeps its configuration and its options.              *)
LEMMA ConfigSameChoice ==
  ASSUME NEW c, call'[c].gates = call[c].gates, call'[c].options = call[c].options
  PROVE  /\ gcChosen(c)' <=> gcChosen(c)
         /\ GC!Selected(c)' = GC!Selected(c) /\ GC!Opt(c)' = GC!Opt(c)
BY DEF gcChosen, GC!Selected, GC!Opt

(* What each action makes of its call.                                     *)
LEMMA ConfigStartEffect ==
  ASSUME GC!GateConfigAssumption, GC!TypeOK, NEW c \in ConfigCalls, GC!Start(c)
  PROVE  \E o \in ConfigOptions, d \in GC!Configurations :
           /\ GC!Usage(o, d.gates)
           /\ call' = [call EXCEPT ![c] = [call[c] EXCEPT !.pc = "loaded", !.options = o,
                                                         !.gates = d.gates]]
           /\ UNCHANGED <<head, modified, receipts>>
BY DEF GC!Start, GC!Set

(* A call with other fields in the types is in the types.                  *)
LEMMA ConfigTypeOfSet ==
  ASSUME GC!TypeOK, UNCHANGED <<head, modified>>, NEW c \in ConfigCalls,
         NEW new \in GC!CallRecord,
         call' = [call EXCEPT ![c] = new]
  PROVE  /\ GC!TypeOK' /\ call'[c] = new
         /\ \A k \in ConfigCalls : k # c => call'[k] = call[k]
BY DEF GC!TypeOK

(* The calls are consistent when the one that moved is.                    *)
LEMMA ConfigKeepsCalls ==
  ASSUME gcCalls, NEW c \in ConfigCalls, gcConsistent(c)',
         \A k \in ConfigCalls : k # c => call'[k] = call[k]
  PROVE  gcCalls'
<1>1. ASSUME NEW k \in ConfigCalls, k # c PROVE gcConsistent(k)'
  BY <1>1, ConfigUnmoved DEF gcCalls, gcConsistent
<1> QED
  BY <1>1 DEF gcCalls

(* A call that has not ended and does not end keeps the others' receipts.  *)
LEMMA ConfigKeepsWritten ==
  ASSUME gcWritten, UNCHANGED receipts, NEW c \in ConfigCalls,
         call[c].pc # "ended", call'[c].pc # "ended",
         \A k \in ConfigCalls : k # c => call'[k] = call[k]
  PROVE  gcWritten'
<1>1. GC!Ended' = GC!Ended
  BY DEF GC!Ended
<1>2. \A k \in GC!Ended : gcReceiptsOf(k)' = gcReceiptsOf(k)
  BY ConfigUnmoved DEF GC!Ended
<1>3. UNION {gcReceiptsOf(k) : k \in GC!Ended}' = UNION {gcReceiptsOf(k) : k \in GC!Ended}
  BY <1>1, <1>2
<1> QED
  BY <1>3 DEF gcWritten

(* Start: an accepted configuration and usable options.                    *)
LEMMA ConfigStartStep ==
  ASSUME GC!GateConfigAssumption, gcIInv, NEW c \in ConfigCalls, GC!Start(c)
  PROVE  gcIInv'
<1> USE DEF gcIInv
<1>1. PICK o \in ConfigOptions, d \in GC!Configurations :
        /\ GC!Usage(o, d.gates)
        /\ call' = [call EXCEPT ![c] = [call[c] EXCEPT !.pc = "loaded", !.options = o,
                                                      !.gates = d.gates]]
        /\ UNCHANGED <<head, modified, receipts>>
  BY ConfigStartEffect
<1> DEFINE new == [call[c] EXCEPT !.pc = "loaded", !.options = o, !.gates = d.gates]
<1>2. gcGood(d.gates) /\ d.gates \in Seq(GC!Check)
  BY ConfigLoaded DEF gcGood
<1>3. GC!TypeOK' /\ call'[c] = new /\ \A k \in ConfigCalls : k # c => call'[k] = call[k]
  <2>1. new \in GC!CallRecord
    BY ZenonT(60), <1>2 DEF GC!TypeOK, GC!CallRecord
  <2> QED
    BY <1>1, <2>1, ConfigTypeOfSet
<1>4. call'[c].pc = "loaded" /\ call'[c].gates = d.gates /\ call'[c].options = o
  BY <1>3 DEF GC!TypeOK
<1>5. gcChosen(c)'
  BY <1>1, <1>2, <1>4 DEF gcChosen, GC!Opt, GC!Usage, gcGood
<1>6. gcCalls'
  BY <1>3, <1>4, <1>5, ConfigKeepsCalls DEF gcConsistent
<1>7. gcWritten'
  BY <1>1, <1>3, <1>4, ConfigKeepsWritten DEF GC!Start
<1> QED
  BY <1>3, <1>6, <1>7

(* runGates, before the queue.                                             *)
LEMMA ConfigPlanStep ==
  ASSUME GC!GateConfigAssumption, gcIInv, NEW c \in ConfigCalls, GC!Plan(c)
  PROVE  gcIInv'
<1> USE DEF gcIInv
<1> DEFINE gates == call[c].gates
           left(u) == GC!Scoped(gates, GC!Selected(c), GC!Opt(c).stage) \cap GC!NotRequired(gates, u)
<1>1. PICK u \in SUBSET {i \in GC!Ids(gates) : GC!Declared(gates, i).skips} :
        call' = [call EXCEPT ![c] = [call[c] EXCEPT !.pc = "planned", !.commit = head,
                                                   !.dirty = modified, !.skipped = left(u)]]
  BY DEF GC!Plan, GC!Set
<1>2. /\ call[c].pc = "loaded" /\ GC!Selected(c) # {}
      /\ UNCHANGED <<head, modified, receipts>>
  BY DEF GC!Plan
<1>3. gcChosen(c)
  BY <1>2 DEF gcCalls, gcConsistent
<1> DEFINE new == [call[c] EXCEPT !.pc = "planned", !.commit = head, !.dirty = modified,
                                  !.skipped = left(u)]
<1>4. left(u) \subseteq ConfigChecks
  BY <1>3, ConfigSelectedIsClosed DEF GC!Scoped
<1>5. GC!TypeOK' /\ call'[c] = new /\ \A k \in ConfigCalls : k # c => call'[k] = call[k]
  <2>1. new \in GC!CallRecord
    <3>1. head \in Nat /\ modified \in BOOLEAN /\ call[c] \in GC!CallRecord
      BY DEF GC!TypeOK, GC!GateConfigAssumption
    <3>2. left(u) \in SUBSET ConfigChecks
      BY <1>4
    <3> HIDE DEF left
    <3> QED
      BY <3>1, <3>2 DEF GC!CallRecord
  <2> QED
    BY <1>1, <1>2, <2>1, ConfigTypeOfSet
<1>6. /\ call'[c].pc = "planned" /\ call'[c].gates = gates
      /\ call'[c].options = call[c].options
      /\ call'[c].skipped = left(u) /\ call'[c].commit = head
  <2> HIDE DEF left
  <2> QED
    BY <1>5 DEF GC!TypeOK
<1>7. gcChosen(c)' /\ GC!Selected(c)' = GC!Selected(c) /\ GC!Opt(c)' = GC!Opt(c)
  BY <1>3, <1>6, ConfigSameChoice
<1>8. gcPlanned(c)'
  <2>1. call'[c].commit \in Nat
    BY <1>6 DEF GC!TypeOK
  <2> QED
    BY <1>2, <1>6, <1>7, <2>1 DEF gcPlanned
<1>9. gcCalls'
  BY <1>5, <1>6, <1>7, <1>8, ConfigKeepsCalls DEF gcConsistent
<1>10. gcWritten'
  BY <1>2, <1>5, <1>6, ConfigKeepsWritten
<1> QED
  BY <1>5, <1>9, <1>10

(* planSpread and prepareCopies.                                           *)
LEMMA ConfigDealStep ==
  ASSUME GC!GateConfigAssumption, gcIInv, NEW c \in ConfigCalls, GC!Deal(c)
  PROVE  gcIInv'
<1> USE DEF gcIInv
<1> DEFINE gates == call[c].gates
           stacks == GC!Opt(c).stacks
           groups == IF stacks = <<>> THEN {GC!Runnable(c)} \ {{}}
                     ELSE GC!Groups(gates, GC!Runnable(c), stacks)
           lost(failed) == UNION {GC!InCopy(gates, GC!Runnable(c), stacks, s) : s \in failed}
<1>1. PICK failed :
        call' = [call EXCEPT ![c] = [call[c] EXCEPT !.pc = "dealt", !.groups = groups,
                                                   !.lost = lost(failed)]]
  BY DEF GC!Deal, GC!Set
<1>2. call[c].pc = "planned" /\ UNCHANGED <<head, modified, receipts>>
  BY DEF GC!Deal
<1>3. gcChosen(c) /\ gcPlanned(c)
  BY <1>2 DEF gcCalls, gcConsistent
<1>4. /\ GC!Runnable(c) \subseteq ConfigChecks /\ gcClosed(gates, GC!Runnable(c))
  BY <1>3, ConfigSelectedIsClosed, ConfigRunnableIsClosed
<1>5. groups \in SUBSET SUBSET ConfigChecks
  BY <1>4, ConfigGroupsAreSound
<1>6. lost(failed) \in SUBSET ConfigChecks
  BY <1>4, ConfigCopiesAreMovable
<1> DEFINE new == [call[c] EXCEPT !.pc = "dealt", !.groups = groups, !.lost = lost(failed)]
<1>7. GC!TypeOK' /\ call'[c] = new /\ \A k \in ConfigCalls : k # c => call'[k] = call[k]
  <2>1. new \in GC!CallRecord
    <3>1. call[c] \in GC!CallRecord
      BY DEF GC!TypeOK
    <3> HIDE DEF groups, lost
    <3> QED
      BY <1>5, <1>6, <3>1 DEF GC!CallRecord
  <2> QED
    BY <1>1, <1>2, <2>1, ConfigTypeOfSet
<1>8. /\ call'[c].pc = "dealt" /\ call'[c].gates = gates
      /\ call'[c].options = call[c].options /\ call'[c].skipped = call[c].skipped
      /\ call'[c].commit = call[c].commit /\ call'[c].groups = groups
  <2> HIDE DEF groups, lost
  <2> QED
    BY <1>7 DEF GC!TypeOK
<1>9. /\ gcChosen(c)' /\ GC!Selected(c)' = GC!Selected(c) /\ GC!Opt(c)' = GC!Opt(c)
      /\ GC!Runnable(c)' = GC!Runnable(c)
  BY <1>3, <1>8, ConfigSameChoice DEF GC!Runnable
<1>10. gcPlanned(c)'
  BY <1>3, <1>8, <1>9 DEF gcPlanned
<1>11. gcDealt(c)'
  BY <1>8, <1>9 DEF gcDealt
<1>12. gcCalls'
  BY <1>7, <1>8, <1>9, <1>10, <1>11, ConfigKeepsCalls DEF gcConsistent
<1>13. gcWritten'
  BY <1>2, <1>7, <1>8, ConfigKeepsWritten
<1> QED
  BY <1>7, <1>12, <1>13

(* A refusal forgets what the call had decided.                            *)
LEMMA ConfigRefuseStep ==
  ASSUME GC!GateConfigAssumption, gcIInv, NEW c \in ConfigCalls, GC!Refuse(c)
  PROVE  gcIInv'
<1> USE DEF gcIInv
<1>1. GC!TypeOK' /\ call'[c] = GC!NoCall /\ \A k \in ConfigCalls : k # c => call'[k] = call[k]
  <2>1. GC!NoCall \in GC!CallRecord
    BY DEF GC!NoCall, GC!CallRecord
  <2> QED
    BY <2>1, ConfigTypeOfSet DEF GC!Refuse, GC!Set
<1>2. call'[c].pc = "idle"
  BY <1>1 DEF GC!NoCall
<1>3. gcCalls'
  BY <1>1, <1>2, ConfigKeepsCalls DEF gcConsistent
<1>4. gcWritten'
  BY <1>1, <1>2, ConfigKeepsWritten DEF GC!Refuse
<1> QED
  BY <1>1, <1>3, <1>4

(* The receipts a call writes, started at a time.                          *)
gcWrote(c, passed, at) ==
  {GC!Receipt(c, i, "passed", at) : i \in passed}
    \cup {GC!Receipt(c, i, "failed", at) : i \in GC!Runnable(c) \ passed}
    \cup {GC!Receipt(c, i, "not_required", at) : i \in call[c].skipped}

(* What the end of a call makes of it, and of the receipts.                *)
LEMMA ConfigScheduleEffect ==
  ASSUME GC!GateConfigAssumption, NEW c \in ConfigCalls, GC!Schedule(c)
  PROVE  \E at \in Nat, passed \in SUBSET (GC!Runnable(c) \ call[c].lost) :
           /\ call' = [call EXCEPT ![c] = [call[c] EXCEPT !.pc = "ended", !.passed = passed,
                                                         !.groups = {}, !.lost = {}, !.at = at]]
           /\ receipts' = receipts \cup gcWrote(c, passed, at)
<1>1. GC!Cardinality(GC!Ended) + 1 \in Nat
  <2>1. IsFiniteSet(ConfigCalls)
    BY DEF GC!GateConfigAssumption, GC!IsFiniteSet, IsFiniteSet
  <2>2. IsFiniteSet(GC!Ended)
    BY <2>1, FS_Subset DEF GC!Ended
  <2>3. GC!Cardinality(GC!Ended) = Cardinality(GC!Ended)
    BY DEF GC!Cardinality, Cardinality, GC!IsFiniteSet, IsFiniteSet
  <2> QED
    BY <2>2, <2>3, FS_CardinalityType
<1>2. PICK passed \in SUBSET (GC!Runnable(c) \ call[c].lost) :
        LET at == GC!Cardinality(GC!Ended) + 1
        IN /\ call' = [call EXCEPT ![c] = [call[c] EXCEPT !.pc = "ended", !.passed = passed,
                                                         !.groups = {}, !.lost = {}, !.at = at]]
           /\ receipts' = receipts
                \cup {GC!Receipt(c, i, "passed", at) : i \in passed}
                \cup {GC!Receipt(c, i, "failed", at) : i \in GC!Runnable(c) \ passed}
                \cup {GC!Receipt(c, i, "not_required", at) : i \in call[c].skipped}
  BY DEF GC!Schedule, GC!Set
<1>3. receipts' = receipts \cup gcWrote(c, passed, GC!Cardinality(GC!Ended) + 1)
  BY <1>2 DEF gcWrote
<1> QED
  BY <1>1, <1>2, <1>3

(* The run: each result of the call is a receipt, and nothing else is.     *)
LEMMA ConfigScheduleStep ==
  ASSUME GC!GateConfigAssumption, gcIInv, NEW c \in ConfigCalls, GC!Schedule(c)
  PROVE  gcIInv'
<1> USE DEF gcIInv
<1>1. PICK at \in Nat, passed \in SUBSET (GC!Runnable(c) \ call[c].lost) :
        /\ call' = [call EXCEPT ![c] = [call[c] EXCEPT !.pc = "ended", !.passed = passed,
                                                       !.groups = {}, !.lost = {}, !.at = at]]
        /\ receipts' = receipts \cup gcWrote(c, passed, at)
  BY ConfigScheduleEffect
<1>2. call[c].pc = "dealt" /\ UNCHANGED <<head, modified>>
  BY DEF GC!Schedule
<1>3. gcChosen(c) /\ gcPlanned(c)
  BY <1>2 DEF gcCalls, gcConsistent
<1>4. GC!Runnable(c) \subseteq ConfigChecks /\ passed \subseteq GC!Runnable(c)
  BY <1>3, ConfigSelectedIsClosed, ConfigRunnableIsClosed
<1> DEFINE new == [call[c] EXCEPT !.pc = "ended", !.passed = passed,
                                  !.groups = {}, !.lost = {}, !.at = at]
<1>6. GC!TypeOK' /\ call'[c] = new /\ \A k \in ConfigCalls : k # c => call'[k] = call[k]
  <2>1. call[c] \in GC!CallRecord /\ passed \in SUBSET ConfigChecks
    BY <1>4 DEF GC!TypeOK
  <2>2. new \in GC!CallRecord
    BY <2>1 DEF GC!CallRecord
  <2> QED
    BY <1>1, <1>2, <2>2, ConfigTypeOfSet
<1>7. /\ call'[c].pc = "ended" /\ call'[c].gates = call[c].gates
      /\ call'[c].options = call[c].options /\ call'[c].skipped = call[c].skipped
      /\ call'[c].commit = call[c].commit /\ call'[c].dirty = call[c].dirty
      /\ call'[c].passed = passed /\ call'[c].at = at
  <2>1. call[c] \in GC!CallRecord
    BY DEF GC!TypeOK
  <2> QED
    BY <1>6, <2>1 DEF GC!CallRecord
<1>8. /\ gcChosen(c)' /\ GC!Selected(c)' = GC!Selected(c) /\ GC!Opt(c)' = GC!Opt(c)
      /\ GC!Runnable(c)' = GC!Runnable(c)
  BY <1>3, <1>7, ConfigSameChoice DEF GC!Runnable
<1>9. gcPlanned(c)'
  BY <1>3, <1>7, <1>8 DEF gcPlanned
<1>10. gcCalls'
  <2>1. (call[c].passed \subseteq GC!Runnable(c))'
    BY <1>4, <1>7, <1>8
  <2>2. gcConsistent(c)'
    BY <1>7, <1>8, <1>9, <2>1 DEF gcConsistent
  <2> QED
    BY <1>6, <2>2, ConfigKeepsCalls
<1>11. gcReceiptsOf(c)' = gcWrote(c, passed, at)
  <2>1. \A i, status : GC!Receipt(c, i, status, at)' = GC!Receipt(c, i, status, at)
    BY <1>7, <1>8 DEF GC!Receipt
  <2> QED
    BY <1>7, <1>8, <2>1 DEF gcReceiptsOf, gcWrote
<1>12. gcWritten'
  <2>1. GC!Ended' = GC!Ended \cup {c}
    BY <1>6, <1>7 DEF GC!Ended
  <2>2. \A k \in GC!Ended : gcReceiptsOf(k)' = gcReceiptsOf(k)
    BY <1>2, <1>6, ConfigUnmoved DEF GC!Ended
  <2>3. ASSUME NEW x
        PROVE  (\E k \in GC!Ended' : x \in gcReceiptsOf(k)')
                 <=> (\E k \in GC!Ended : x \in gcReceiptsOf(k)) \/ x \in gcWrote(c, passed, at)
    BY <1>11, <2>1, <2>2
  <2>4. \A x : x \in receipts <=> \E k \in GC!Ended : x \in gcReceiptsOf(k)
    BY DEF gcWritten
  <2>5. \A x : x \in receipts' <=> \E k \in GC!Ended' : x \in gcReceiptsOf(k)'
    BY <1>1, <2>3, <2>4
  <2> QED
    BY <2>5 DEF gcWritten
<1> QED
  BY <1>6, <1>10, <1>12

(* A step of the worktree leaves the calls and the receipts.               *)
LEMMA ConfigWorktreeStep ==
  ASSUME GC!GateConfigAssumption, gcIInv, GC!Edit \/ GC!CommitAll
  PROVE  gcIInv'
<1>1. UNCHANGED <<call, receipts>>
  BY DEF GC!Edit, GC!CommitAll
<1>2. GC!TypeOK'
  <2>1. ConfigCommits \in Nat
    BY DEF GC!GateConfigAssumption
  <2>2. /\ head \in 1..ConfigCommits /\ call' \in [ConfigCalls -> GC!CallRecord]
        /\ modified' \in BOOLEAN /\ (head' = head \/ (head < ConfigCommits /\ head' = head + 1))
    BY <1>1 DEF gcIInv, GC!TypeOK, GC!Edit, GC!CommitAll
  <2> QED
    BY <2>1, <2>2 DEF GC!TypeOK
<1>3. \A c : gcConsistent(c)' <=> gcConsistent(c)
  BY <1>1, ConfigUnmoved DEF gcConsistent
<1>4. gcCalls'
  BY <1>3 DEF gcIInv, gcCalls
<1>5. GC!Ended' = GC!Ended /\ \A c : gcReceiptsOf(c)' = gcReceiptsOf(c)
  BY <1>1, ConfigUnmoved DEF GC!Ended
<1>6. gcWritten'
  BY <1>1, <1>5 DEF gcIInv, gcWritten
<1> QED
  BY <1>2, <1>4, <1>6 DEF gcIInv

(* From the start and at every step: the calls decide from an accepted     *)
(* configuration, and the receipts are those of the calls that ended.      *)
LEMMA ConfigInvariantHolds ==
  ASSUME GC!GateConfigAssumption
  PROVE  (GC!Init => gcIInv) /\ (gcIInv /\ (GC!Next \/ UNCHANGED GC!vars) => gcIInv')
<1>1. GC!Init => gcIInv
  <2> SUFFICES ASSUME GC!Init PROVE gcIInv
    OBVIOUS
  <2>1. GC!TypeOK
    <3>1. GC!NoCall \in GC!CallRecord
      BY DEF GC!NoCall, GC!CallRecord
    <3>2. ConfigCommits \in Nat \ {0}
      BY DEF GC!GateConfigAssumption
    <3>3. modified \in BOOLEAN
      BY DEF GC!Init
    <3>4. head \in 1..ConfigCommits /\ call \in [ConfigCalls -> GC!CallRecord]
      BY <3>1, <3>2 DEF GC!Init
    <3> QED
      BY <3>3, <3>4 DEF GC!TypeOK
  <2>2. \A c \in ConfigCalls : call[c].pc = "idle"
    BY DEF GC!Init, GC!NoCall
  <2>3. gcCalls
    BY <2>2 DEF gcCalls, gcConsistent
  <2>4. gcWritten
    BY <2>2 DEF GC!Init, gcWritten, GC!Ended
  <2> QED
    BY <2>1, <2>3, <2>4 DEF gcIInv
<1>2. gcIInv /\ (GC!Next \/ UNCHANGED GC!vars) => gcIInv'
  <2> SUFFICES ASSUME gcIInv, GC!Next \/ UNCHANGED GC!vars PROVE gcIInv'
    OBVIOUS
  <2>1. CASE GC!Edit \/ GC!CommitAll
    BY <2>1, ConfigWorktreeStep
  <2>2. ASSUME NEW c \in ConfigCalls, GC!Start(c) PROVE gcIInv'
    BY <2>2, ConfigStartStep
  <2>3. ASSUME NEW c \in ConfigCalls, GC!Plan(c) PROVE gcIInv'
    BY <2>3, ConfigPlanStep
  <2>4. ASSUME NEW c \in ConfigCalls, GC!Deal(c) PROVE gcIInv'
    BY <2>4, ConfigDealStep
  <2>5. ASSUME NEW c \in ConfigCalls, GC!Refuse(c) PROVE gcIInv'
    BY <2>5, ConfigRefuseStep
  <2>6. ASSUME NEW c \in ConfigCalls, GC!Schedule(c) PROVE gcIInv'
    BY <2>6, ConfigScheduleStep
  <2>7. CASE UNCHANGED GC!vars
    <3>1. \A c : gcConsistent(c)' <=> gcConsistent(c)
      BY <2>7, ConfigUnmoved DEF gcConsistent, GC!vars
    <3>2. GC!Ended' = GC!Ended /\ \A c : gcReceiptsOf(c)' = gcReceiptsOf(c)
      BY <2>7, ConfigUnmoved DEF GC!Ended, GC!vars
    <3>3. GC!TypeOK' /\ gcCalls'
      BY <2>7, <3>1 DEF gcIInv, GC!TypeOK, gcCalls, GC!vars
    <3>4. gcWritten'
      BY <2>7, <3>2 DEF gcIInv, gcWritten, GC!vars
    <3> QED
      BY <3>3, <3>4 DEF gcIInv
  <2> QED
    BY <2>1, <2>2, <2>3, <2>4, <2>5, <2>6, <2>7 DEF GC!Next
<1> QED
  BY <1>1, <1>2
-----------------------------------------------------------------------------
(* Every plan made from an accepted configuration is acyclic and complete, *)
(* whatever was asked, left out or spread: the scheduler takes it.         *)
LEMMA ConfigPlansSound ==
  ASSUME GC!GateConfigAssumption
  PROVE  gcIInv => GC!PlansAreSound
<1>1. gcIInv => GC!PlansAreSound
  <2> SUFFICES ASSUME gcIInv, NEW c \in ConfigCalls, call[c].pc = "dealt"
               PROVE  /\ \A set \in call[c].groups : GC!ValidDag(call[c].gates, set)
                      /\ UNION call[c].groups = GC!Runnable(c)
                      /\ \A set, other \in call[c].groups : set = other \/ set \cap other = {}
                      /\ GC!Opt(c).only # {} =>
                           GC!Opt(c).only \subseteq GC!Runnable(c) \cup call[c].skipped
                             \cup GC!Reserved(call[c].gates, GC!Opt(c).only, GC!Opt(c).stage)
                      /\ \A i \in call[c].skipped : GC!Declared(call[c].gates, i).skips
    BY DEF GC!PlansAreSound
  <2> DEFINE gates == call[c].gates
  <2>1. gcChosen(c) /\ gcPlanned(c) /\ gcDealt(c)
    BY DEF gcIInv, gcCalls, gcConsistent
  <2>2. /\ GC!Runnable(c) \subseteq GC!Ids(gates) /\ gcClosed(gates, GC!Runnable(c))
        /\ \A i \in call[c].skipped : GC!Declared(gates, i).skips
    BY <2>1, ConfigSelectedIsClosed, ConfigRunnableIsClosed
  <2>3. /\ \A group \in call[c].groups : group \subseteq GC!Runnable(c) /\ gcClosed(gates, group)
        /\ UNION call[c].groups = GC!Runnable(c)
        /\ \A x, y \in call[c].groups : x = y \/ x \cap y = {}
    <3>1. CASE GC!Opt(c).stacks = <<>>
      BY <2>1, <2>2, <3>1 DEF gcDealt
    <3>2. CASE GC!Opt(c).stacks # <<>>
      <4>1. call[c].groups = GC!Groups(gates, GC!Runnable(c), GC!Opt(c).stacks)
        BY <2>1, <3>2 DEF gcDealt
      <4> QED
        BY <2>2, <4>1, ConfigGroupsAreSound
    <3> QED
      BY <3>1, <3>2
  <2>4. \A set \in call[c].groups : GC!ValidDag(gates, set)
    BY <2>1, <2>2, <2>3, ConfigClosedIsValid DEF gcChosen
  <2>5. ASSUME NEW i \in GC!Opt(c).only
        PROVE  i \in GC!Runnable(c) \cup call[c].skipped \cup GC!Reserved(gates, GC!Opt(c).only, GC!Opt(c).stage)
    <3>1. i \in GC!SelectGates(gates, GC!Opt(c).only)
      BY <2>1, ConfigSelectionIsClosed DEF gcChosen
    <3> QED
      BY <3>1 DEF GC!Runnable, GC!Selected, GC!StageGates, GC!Reserved
  <2> QED
    BY <2>2, <2>3, <2>4, <2>5
<1> QED
  BY <1>1

(* What is found proven at a commit ran there, as declared, or was left    *)
(* out by a check that may be.                                             *)
LEMMA ConfigProofsRan ==
  ASSUME GC!GateConfigAssumption
  PROVE  gcIInv => GC!ProvenRan
<1>1. gcIInv => GC!ProvenRan
  <2> SUFFICES ASSUME gcIInv, NEW d \in GC!Configurations, NEW commit \in 1..head,
                      NEW stage \in {"task", "full"}, NEW base \in 0..commit,
                      GC!Verified(d.gates, commit, stage, base),
                      NEW check \in GC!Range(d.gates),
                      ~(stage = "task" /\ check.stage = "full" /\ ~check.affected)
               PROVE  GC!Ran(check, commit, stage, base) \/ (check.skips /\ GC!Waived(check, commit))
    BY DEF GC!ProvenRan
  <2> DEFINE gates == d.gates
             i == check.id
  <2>1. /\ gcGood(gates) /\ i \in GC!Ids(gates) /\ GC!Declared(gates, i) = check
        /\ check.stage \in {"task", "full"}
    BY ConfigFound DEF gcGood, GC!Check
  <2>2. i \in GC!StageGates(gates, GC!Ids(gates), stage)
    BY <2>1 DEF GC!StageGates, GC!Reserved
  <2>3. PICK r \in GC!Counted(gates, commit, stage, base, i) :
          r.status = "passed" \/ (r.status = "not_required" /\ check.skips)
    BY <2>1, <2>2 DEF GC!Verified
  <2>4. /\ r \in receipts /\ r.id = i /\ r.commit = commit /\ r.gates = gates /\ ~r.dirty
        /\ r.targeted => i \in GC!Targeted(gates, GC!Ids(gates), stage) /\ r.base \in 1..base
    BY DEF GC!Counted, GC!SameChecks
  <2>5. PICK c \in GC!Ended : r \in gcReceiptsOf(c)
    BY <2>4 DEF gcIInv, gcWritten
  <2>6. gcChosen(c) /\ gcPlanned(c)
    BY DEF gcIInv, gcCalls, gcConsistent, GC!Ended
  <2>7. PICK j, status : r = GC!Receipt(c, j, status, call[c].at)
    BY <2>5 DEF gcReceiptsOf
  <2>8. /\ call[c].gates = gates /\ call[c].commit = commit /\ ~call[c].dirty
        /\ GC!Opt(c).base = r.base
        /\ r.targeted <=> i \in GC!Targeted(gates, GC!Selected(c), GC!Opt(c).stage)
    <3>1. /\ call[c].gates = gates /\ call[c].commit = commit /\ r.id = j
          /\ r.dirty = call[c].dirty /\ r.base = GC!Opt(c).base
      BY <2>4, <2>7 DEF GC!Receipt
    <3>2. r.targeted = (j \in GC!Targeted(call[c].gates, GC!Selected(c), GC!Opt(c).stage))
      BY <2>7, Zenon DEF GC!Receipt
    <3> QED
      BY <2>4, <3>1, <3>2
  <2>9. CASE r.status = "passed"
    <3>1. i \in call[c].passed /\ i \in GC!Selected(c)
      <4>1. i \in call[c].passed
        BY <2>4, <2>5, <2>9 DEF gcReceiptsOf, GC!Receipt
      <4> QED
        BY <2>6, <4>1, ConfigRunnableIsClosed
        DEF gcIInv, gcCalls, gcConsistent, GC!Ended
    <3>2. CASE r.targeted
      BY <2>1, <2>4, <2>8, <3>1, <3>2 DEF GC!Ran, GC!Targeted
    <3>3. CASE ~r.targeted
      <4>1. GC!Opt(c).stage = "task" => check.stage = "task"
        BY <2>1, <2>8, <3>1, <3>3
        DEF GC!Targeted, GC!Selected, GC!StageGates, GC!Reserved
      <4>2. GC!Opt(c).stage \in {"task", "full"}
        BY <2>6 DEF gcChosen, GC!GateConfigAssumption
      <4> QED
        BY <2>8, <3>1, <4>1, <4>2 DEF GC!Ran
    <3> QED
      BY <3>2, <3>3
  <2>10. CASE r.status = "not_required" /\ check.skips
    <3>1. i \in call[c].skipped
      BY <2>4, <2>5, <2>10 DEF gcReceiptsOf, GC!Receipt
    <3> QED
      BY <2>8, <2>10, <3>1 DEF GC!Waived
  <2> QED
    BY <2>3, <2>9, <2>10
<1> QED
  BY <1>1

(* A complete run on a clean tree whose checks passed or were not required *)
(* proves its commit, until another run ends there.                        *)
LEMMA ConfigCompleteRunsAreProofs ==
  ASSUME GC!GateConfigAssumption
  PROVE  gcIInv => GC!CompleteRunsProve
<1>1. gcIInv => GC!CompleteRunsProve
  <2> SUFFICES ASSUME gcIInv, NEW c \in GC!Ended,
                      GC!Opt(c).only = {}, ~call[c].dirty, call[c].passed = GC!Runnable(c),
                      GC!Targeted(call[c].gates, GC!Selected(c), GC!Opt(c).stage) # {} => GC!Opt(c).base # 0,
                      \A k \in GC!Ended : call[k].commit = call[c].commit => call[k].at <= call[c].at
               PROVE  GC!Verified(call[c].gates, call[c].commit, GC!Opt(c).stage, GC!Opt(c).base)
    BY DEF GC!CompleteRunsProve
  <2> DEFINE gates == call[c].gates
             stage == GC!Opt(c).stage
             base == GC!Opt(c).base
  <2>1. gcChosen(c) /\ gcPlanned(c) /\ base \in Nat
    BY DEF gcIInv, gcCalls, gcConsistent, GC!Ended, gcChosen,
           GC!GateConfigAssumption
  <2>2. GC!Selected(c) = GC!StageGates(gates, GC!Ids(gates), stage) /\ GC!Selected(c) # {}
    BY <2>1 DEF GC!Selected, GC!SelectGates, gcPlanned
  <2>3. GC!Targeted(gates, GC!Selected(c), stage) = GC!Targeted(gates, GC!Ids(gates), stage)
    BY <2>2 DEF GC!Targeted, GC!StageGates, GC!Reserved
  <2>4. ASSUME NEW i \in GC!Selected(c)
        PROVE  \E r \in GC!Counted(gates, call[c].commit, stage, base, i) :
                 /\ \A q \in GC!Counted(gates, call[c].commit, stage, base, i) : q.at <= r.at
                 /\ \/ r.status = "passed"
                    \/ r.status = "not_required" /\ GC!Declared(gates, i).skips
    <3>1. PICK status \in {"passed", "not_required"} :
            /\ GC!Receipt(c, i, status, call[c].at) \in gcReceiptsOf(c)
            /\ status = "not_required" => i \in call[c].skipped
      BY <2>1 DEF gcReceiptsOf, GC!Runnable
    <3> DEFINE r == GC!Receipt(c, i, status, call[c].at)
    <3>2. r \in receipts
      BY <3>1 DEF gcIInv, gcWritten
    <3>3. /\ r.id = i /\ r.commit = call[c].commit /\ r.gates = gates /\ ~r.dirty
          /\ r.base = base /\ r.status = status /\ r.at = call[c].at
      BY DEF GC!Receipt
    <3>4. r.targeted = (i \in GC!Targeted(gates, GC!Selected(c), stage))
      BY Zenon DEF GC!Receipt
    <3>5. r.targeted => i \in GC!Targeted(gates, GC!Ids(gates), stage) /\ r.base \in 1..base
      <4>1. r.targeted => i \in GC!Targeted(gates, GC!Selected(c), stage)
        BY <3>4, Zenon
      <4>2. i \in GC!Targeted(gates, GC!Selected(c), stage) => base \in 1..base
        BY <2>1
      <4> HIDE DEF r
      <4> QED
        BY <2>3, <3>3, <4>1, <4>2
    <3> HIDE DEF r
    <3>6. r \in GC!Counted(gates, call[c].commit, stage, base, i)
      BY <3>2, <3>3, <3>5 DEF GC!Counted, GC!SameChecks
    <3>7. ASSUME NEW q \in GC!Counted(gates, call[c].commit, stage, base, i)
          PROVE  q.at <= r.at
      <4>1. q \in receipts /\ q.commit = call[c].commit
        BY DEF GC!Counted
      <4>2. PICK k \in GC!Ended : q \in gcReceiptsOf(k)
        BY <4>1 DEF gcIInv, gcWritten
      <4>3. q.at = call[k].at /\ q.commit = call[k].commit
        BY <4>2 DEF gcReceiptsOf, GC!Receipt
      <4> QED
        BY <3>3, <4>1, <4>3
    <3>8. status = "not_required" => GC!Declared(gates, i).skips
      BY <2>1, <3>1, ConfigRunnableIsClosed
    <3> QED
      BY <3>3, <3>6, <3>7, <3>8
  <2> QED
    BY <2>2, <2>3, <2>4 DEF GC!Verified
<1> QED
  BY <1>1
-----------------------------------------------------------------------------
(***************************************************************************)
(* Ledger.                                                                 *)
(***************************************************************************)

(* The decisions a ledger may hold: those of the updates, the mockups, and *)
(* what an edit by hand leaves.                                            *)
lgMockupId == {"mockup"} \X Nat
lgMockup == [id : lgMockupId, source : {"operator"}, status : {"confirmed"}, quote : {TRUE},
             supersedes : SUBSET lgMockupId, sha : Nat]
lgDecision == (UNION LedgerUpdates) \cup lgMockup \cup {LG!Hand}
lgPlanRecord == [base : Nat, update : SUBSET lgDecision]
lgCommitRecord == [json : SUBSET lgDecision, md : SUBSET lgDecision, plan : lgPlanRecord]
lgCommandRecord ==
  [pc : {"idle", "copy", "working", "status", "json", "md", "commit"},
   kind : {"none", "apply", "register"}, plan : lgPlanRecord, hash : lgPlanRecord,
   commit : BOOLEAN, content : Nat, previous : Nat]

lgTypeOK ==
  /\ commits \in Seq(lgCommitRecord) /\ Len(commits) # 0
  /\ tree \in [json : SUBSET lgDecision, md : SUBSET lgDecision]
  /\ file \in Nat /\ cmd \in [LedgerUsers -> lgCommandRecord] /\ reviewed \in [LedgerUsers -> lgPlanRecord]
  /\ byHand \in BOOLEAN /\ overlap \in BOOLEAN /\ loose \in BOOLEAN

(* A decision about a mockup is a registration.                            *)
LEMMA LedgerMockupsAreMockups ==
  ASSUME LG!LedgerAssumption, NEW d \in lgDecision
  PROVE  /\ d.id[1] = "mockup" <=> d \in lgMockup
         /\ d = LG!Hand => d.id[1] = "hand"
         /\ d \in lgMockup => d.status = "confirmed" /\ d.id[2] \in Nat /\ d # LG!Hand
<1>1. LG!Hand.id[1] = "hand"
  BY DEF LG!Hand
<1>2. ASSUME NEW x \in lgMockup
      PROVE  x.id[1] = "mockup" /\ x.status = "confirmed" /\ x.id[2] \in Nat
  BY DEF lgMockup, lgMockupId
<1>3. ASSUME NEW update \in LedgerUpdates, NEW x \in update
      PROVE  x.id[1] # "mockup" /\ x.id[1] # "hand"
  BY DEF LG!LedgerAssumption
<1>4. CASE d \in lgMockup
  BY <1>1, <1>2, <1>4
<1>5. CASE d = LG!Hand
  BY <1>1, <1>2, <1>5
<1>6. CASE d \in UNION LedgerUpdates
  BY <1>1, <1>2, <1>3, <1>6
<1> QED
  BY <1>4, <1>5, <1>6 DEF lgDecision

(* One mockup at most is validated: the newest is that one.                *)
lgOneMockup(ledger) == \A d, e \in LG!Mockups(ledger) : d = e

(* With one mockup in the ledger, it is the active one.                    *)
LEMMA LedgerOneIsActive ==
  ASSUME LG!LedgerAssumption, NEW ledger \in SUBSET lgDecision, lgOneMockup(ledger)
  PROVE  LG!Active(ledger) = LG!Mockups(ledger)
<1>1. \A d \in LG!Mockups(ledger) : d.id[2] \in Nat
  BY LedgerMockupsAreMockups DEF LG!Mockups
<1> QED
  BY <1>1 DEF LG!Active, lgOneMockup

(* A registration is a mockup, that replaces the active one.               *)
LEMMA LedgerRegistrationIsMockup ==
  ASSUME LG!LedgerAssumption, lgTypeOK, lgOneMockup(tree.json), NEW content \in LedgerContents
  PROVE  /\ LG!Registration(content) \in lgMockup
         /\ LG!Registration(content).sha = content
         /\ LG!Registration(content).supersedes = LG!Ids(LG!Active(tree.json))
<1> DEFINE active == LG!Active(tree.json)
           numbers == {d.id[2] : d \in active} \cup {0}
<1>1. tree.json \in SUBSET lgDecision
  BY DEF lgTypeOK
<1>2. active = LG!Mockups(tree.json) /\ \A d \in active : d \in lgMockup
  BY <1>1, LedgerOneIsActive, LedgerMockupsAreMockups DEF LG!Mockups
<1>3. \A d \in active : d.id \in lgMockupId /\ d.id[2] \in Nat
  BY <1>2 DEF lgMockup, lgMockupId
<1>4. LG!Ids(active) \subseteq lgMockupId
  BY <1>3 DEF LG!Ids
<1>5. \E x \in numbers : \A y \in numbers : x >= y
  <2>1. CASE active = {}
    BY <2>1
  <2>2. CASE active # {}
    <3>1. PICK d \in active : TRUE
      BY <2>2
    <3>2. \A e \in active : e = d
      BY <1>2 DEF lgOneMockup
    <3> QED
      BY <1>3, <3>1, <3>2
  <2> QED
    BY <2>1, <2>2
<1>6. LG!Max(numbers) \in numbers
  BY <1>5 DEF LG!Max
<1>7. LG!Max(numbers) \in Nat
  BY <1>3, <1>6
<1> HIDE DEF active, numbers
<1>8. LG!Registration(content) =
        [id |-> <<"mockup", LG!Max(numbers) + 1>>, source |-> "operator", status |-> "confirmed",
         quote |-> TRUE, supersedes |-> LG!Ids(active), sha |-> content]
  BY DEF LG!Registration, active, numbers
<1>9. content \in Nat /\ LG!Ids(active) \in SUBSET lgMockupId /\ <<"mockup", LG!Max(numbers) + 1>> \in lgMockupId
  BY <1>4, <1>7 DEF LG!LedgerAssumption, lgMockupId
<1> QED
  BY <1>8, <1>9 DEF lgMockup, active
-----------------------------------------------------------------------------
(* Every decision that leaves is superseded by one that enters, one of the *)
(* operator by another of the operator.                                    *)
lgSupersedes(old, new) ==
  \A d \in old \ new :
    \E n \in new \ old : d.id \in n.supersedes /\ (LG!Weighty(d) => n.source = "operator" /\ n.quote)

(* What an accepted update takes away, it supersedes as the rules say.     *)
LEMMA LedgerAcceptedSupersedes ==
  ASSUME NEW ledger, NEW update, LG!Accepted(ledger, update)
  PROVE  LG!Valid(LG!Result(ledger, update)) /\ lgSupersedes(ledger, LG!Result(ledger, update))
<1> SUFFICES ASSUME NEW d \in ledger \ LG!Result(ledger, update)
             PROVE  \E n \in LG!Result(ledger, update) \ ledger :
                      d.id \in n.supersedes /\ (LG!Weighty(d) => n.source = "operator" /\ n.quote)
  BY DEF LG!Accepted, lgSupersedes
<1>1. PICK n \in update : d.id \in n.supersedes
  BY DEF LG!Result, LG!Superseded
<1>2. n \in LG!Result(ledger, update) /\ n \notin ledger
  BY DEF LG!Result, LG!Accepted, LG!Ids
<1> QED
  BY <1>1, <1>2 DEF LG!Accepted

(* What an update makes of a ledger holds decisions.                       *)
LEMMA LedgerResultIsLedger ==
  ASSUME NEW ledger \in SUBSET lgDecision, NEW update \in SUBSET lgDecision
  PROVE  LG!Result(ledger, update) \in SUBSET lgDecision
BY DEF LG!Result

(* An update of the ledger leaves the mockups as they are.                 *)
LEMMA LedgerUpdateKeepsMockups ==
  ASSUME LG!LedgerAssumption, NEW ledger \in SUBSET lgDecision, NEW update \in LedgerUpdates
  PROVE  /\ LG!Mockups(LG!Result(ledger, update)) = LG!Mockups(ledger)
         /\ LG!Hand \notin ledger => LG!Hand \notin LG!Result(ledger, update)
<1>1. \A d \in update : d.id[1] # "mockup" /\ d # LG!Hand /\ \A i \in d.supersedes : i[1] # "mockup"
  BY DEF LG!LedgerAssumption, LG!Hand
<1> QED
  BY <1>1 DEF LG!Mockups, LG!Result, LG!Superseded

(* A registration puts its mockup in the place of the validated one.       *)
LEMMA LedgerRegistrationReplaces ==
  ASSUME LG!LedgerAssumption, NEW ledger \in SUBSET lgDecision, lgOneMockup(ledger),
         NEW r \in lgMockup, r.supersedes = LG!Ids(LG!Active(ledger))
  PROVE  /\ LG!Mockups(LG!Result(ledger, {r})) = {r}
         /\ LG!Hand \notin ledger => LG!Hand \notin LG!Result(ledger, {r})
<1>1. r.id[1] = "mockup" /\ r.status = "confirmed" /\ r # LG!Hand
  <2>1. r \in lgDecision
    BY DEF lgDecision
  <2> QED
    BY <2>1, LedgerMockupsAreMockups
<1>2. \A d \in LG!Mockups(ledger) : d.id \in LG!Superseded({r})
  BY LedgerOneIsActive DEF LG!Ids, LG!Superseded
<1> QED
  BY <1>1, <1>2 DEF LG!Mockups, LG!Result
-----------------------------------------------------------------------------
(* A registration under way: the decision that replaces the validated one. *)
lgRegisters(u) ==
  LET plan == cmd[u].hash IN
  /\ plan.base \in 1..Len(commits)
  /\ \E r \in lgMockup :
       /\ plan.update = {r} /\ r.sha = cmd[u].content
       /\ r.supersedes = LG!Ids(LG!Active(commits[plan.base].json))

(* Where a command is, and what it knows.  Once it has planned again, its  *)
(* plan is the one its user read, and the ledger it read is still there.   *)
lgCommandOK(u) ==
  LET c == cmd[u]
      ledger == commits[c.plan.base].json
  IN /\ c.pc # "idle" => c.kind \in {"apply", "register"}
     /\ c.pc = "copy" => c.kind = "register"
     /\ c.pc # "idle" /\ c.kind = "apply" => c.plan.update \in LedgerUpdates
     /\ c.pc # "idle" /\ c.kind = "register" => lgRegisters(u)
     /\ c.pc \notin {"idle", "copy"} => c.plan.base \in 1..Len(commits)
     /\ c.pc \notin {"idle", "copy"} /\ c.kind = "register" => c.plan.update = c.hash.update
     /\ c.pc \in {"status", "json", "md", "commit"} => c.plan = c.hash /\ LG!Accepted(ledger, c.plan.update)
     /\ c.pc \in {"status", "json"} => tree.json = ledger
     /\ c.pc = "json" => ~LG!Dirty
     /\ c.pc \in {"md", "commit"} => ~byHand /\ ledger = LG!HEAD.json /\ tree.json = LG!Content(u)
     /\ c.pc = "commit" => tree.md = LG!Content(u)

(* The ledger of a commit, and what a commit makes of the one before.      *)
lgLedgerOK(k) == LG!Valid(commits[k].json) /\ lgOneMockup(commits[k].json) /\ LG!Hand \notin commits[k].json \cup commits[k].md
lgStepOK(k) ==
  LET old == commits[k - 1].json
      plan == commits[k].plan
  IN /\ lgSupersedes(old, commits[k].json)
     /\ plan # LG!NoPlan => /\ plan.base \in 1..Len(commits) /\ commits[plan.base].json = old
                            /\ commits[k].json = LG!Result(old, plan.update)
                            /\ commits[k].md = commits[k].json
lgHistoryOK ==
  /\ \A k \in 1..Len(commits) : lgLedgerOK(k)
  /\ \A k \in 2..Len(commits) : lgStepOK(k)

(* The working copy: the ledger of the last commit or an accepted update   *)
(* of it, unless it was edited by hand.                                    *)
lgCopyOK ==
  /\ lgOneMockup(tree.json)
  /\ byHand => LG!Hand \in tree.json \cup tree.md
  /\ ~byHand => /\ LG!Hand \notin tree.json \cup tree.md
                /\ \/ tree.json = LG!HEAD.json
                   \/ \E update \in SUBSET lgDecision :
                        LG!Accepted(LG!HEAD.json, update) /\ tree.json = LG!Result(LG!HEAD.json, update)

(* The ledger that names the mockup: an edit by hand is thrown away.       *)
lgBase == IF byHand THEN LG!HEAD.json ELSE tree.json
lgNamed(x) == x \in {d.sha : d \in LG!Active(lgBase)} \cup (IF LG!Active(lgBase) = {} THEN {0} ELSE {})

(* A registration that has copied its mockup and not written the ledger.   *)
lgMoved(u) == cmd[u].kind = "register" /\ cmd[u].pc \in {"working", "status", "json"}
lgMockupOK ==
  ~loose =>
    /\ (\A u \in LedgerUsers : ~lgMoved(u)) => lgNamed(file)
    /\ \A u \in LedgerUsers : lgMoved(u) =>
         /\ file = cmd[u].content /\ lgNamed(cmd[u].previous)
         /\ \A v \in LedgerUsers : lgMoved(v) => v = u

lgGood == (\A u \in LedgerUsers : lgCommandOK(u)) /\ lgHistoryOK /\ lgCopyOK /\ lgMockupOK

\* Nothing is said once somebody wrote under a command that had read.
lgIInv == lgTypeOK /\ (~overlap => lgGood)

(* Only this user is at a point where another's write would be unseen.     *)
lgAlone(u) == \A v \in LedgerUsers \ {u} : ~LG!Exposed(v)

(* The last commit is one of the history.                                  *)
LEMMA LedgerHeadType ==
  ASSUME lgTypeOK
  PROVE  /\ Len(commits) \in Nat \ {0} /\ Len(commits) \in 1..Len(commits) /\ LG!HEAD = commits[Len(commits)]
         /\ \A k \in 1..Len(commits) : commits[k] \in lgCommitRecord
         /\ \A k \in 1..Len(commits) : commits[k].json \in SUBSET lgDecision /\ commits[k].md \in SUBSET lgDecision
<1>1. Len(commits) \in Nat /\ Len(commits) # 0
  BY DEF lgTypeOK
<1>2. \A k \in 1..Len(commits) : commits[k] \in lgCommitRecord
  BY DEF lgTypeOK
<1>3. \A k \in 1..Len(commits) : commits[k].json \in SUBSET lgDecision /\ commits[k].md \in SUBSET lgDecision
  BY <1>2 DEF lgCommitRecord
<1>4. Len(commits) \in 1..Len(commits)
  BY <1>1
<1> QED
  BY <1>1, <1>2, <1>3, <1>4 DEF LG!HEAD, LG!Last

(* Another's command, when nothing it relies on is written.                *)
LEMMA LedgerOtherCommand ==
  ASSUME lgTypeOK, NEW v \in LedgerUsers, lgCommandOK(v), cmd'[v] = cmd[v],
         Len(commits') \in Nat, Len(commits) <= Len(commits'), \A k \in 1..Len(commits) : commits'[k] = commits[k],
         ~LG!Exposed(v) \/ (LG!HEAD' = LG!HEAD /\ tree' = tree /\ byHand' = byHand)
  PROVE  lgCommandOK(v)'
<1>1. \A k \in 1..Len(commits) : k \in 1..Len(commits')
  BY DEF lgTypeOK
<1>2. cmd[v].pc # "idle" /\ cmd[v].kind = "register" => lgRegisters(v)'
  <2> SUFFICES ASSUME lgRegisters(v) PROVE lgRegisters(v)'
    BY DEF lgCommandOK
  <2>1. cmd[v].hash.base \in 1..Len(commits)
    BY DEF lgRegisters
  <2>2. commits'[cmd[v].hash.base] = commits[cmd[v].hash.base]
    BY <2>1
  <2> QED
    BY <1>1, <2>1, <2>2 DEF lgRegisters
<1>3. CASE ~LG!Exposed(v)
  <2>1. cmd[v].pc \in {"idle", "copy", "working"}
    BY <1>3 DEF LG!Exposed, lgTypeOK, lgCommandRecord
  <2> QED
    BY <1>1, <1>2, <2>1 DEF lgCommandOK
<1>4. CASE LG!HEAD' = LG!HEAD /\ tree' = tree /\ byHand' = byHand
  <2>1. CASE cmd[v].pc \in {"idle", "copy"}
    BY <1>2, <2>1 DEF lgCommandOK
  <2>2. CASE cmd[v].pc \notin {"idle", "copy"}
    <3>1. cmd[v].plan.base \in 1..Len(commits)
      BY <2>2 DEF lgCommandOK
    <3>2. commits'[cmd[v].plan.base] = commits[cmd[v].plan.base]
      BY <3>1
    <3>3. LG!Content(v)' = LG!Content(v)
      BY <3>2 DEF LG!Content
    <3>4. LG!Dirty' = LG!Dirty
      BY <1>4 DEF LG!Dirty
    <3> QED
      BY <1>1, <1>2, <1>4, <3>1, <3>2, <3>3, <3>4 DEF lgCommandOK
  <2> QED
    BY <2>1, <2>2
<1> QED
  BY <1>3, <1>4

(* Plans are in their type.                                                *)
LEMMA LedgerPlanType ==
  ASSUME LG!LedgerAssumption, lgTypeOK
  PROVE  /\ \A update \in LedgerUpdates : LG!Plan(update, Len(commits)) \in lgPlanRecord
         /\ LG!NoPlan \in lgPlanRecord /\ LG!Idle \in lgCommandRecord
         /\ \A update : LG!Plan(update, Len(commits)).base = Len(commits)
                        /\ LG!Plan(update, Len(commits)).update = update
<1>1. Len(commits) \in Nat
  BY LedgerHeadType
<1>2. \A update \in LedgerUpdates : update \in SUBSET lgDecision
  BY DEF lgDecision
<1>3. LG!NoPlan \in lgPlanRecord
  BY DEF LG!NoPlan, lgPlanRecord
<1>4. LG!Idle \in lgCommandRecord
  BY <1>3 DEF LG!Idle, lgCommandRecord
<1> QED
  BY <1>1, <1>2, <1>3, <1>4 DEF LG!Plan, lgPlanRecord

(* A step that writes nothing leaves what the ledger says.                 *)
LEMMA LedgerNothingWritten ==
  ASSUME UNCHANGED <<commits, tree, byHand>>
  PROVE  /\ lgHistoryOK' <=> lgHistoryOK
         /\ lgCopyOK' <=> lgCopyOK
         /\ lgBase' = lgBase /\ \A x : lgNamed(x)' <=> lgNamed(x)
         /\ LG!HEAD' = LG!HEAD
BY DEF lgHistoryOK, lgCopyOK, lgLedgerOK, lgStepOK, LG!HEAD, lgBase, lgNamed,
       LG!Active, LG!Mockups

(* One user's command moves and nothing is written.                        *)
LEMMA LedgerCommandMoves ==
  ASSUME lgTypeOK, lgGood, NEW u \in LedgerUsers, UNCHANGED <<commits, tree, byHand>>,
         \A v \in LedgerUsers : v # u => cmd'[v] = cmd[v],
         lgCommandOK(u)', lgMockupOK'
  PROVE  lgGood'
<1>1. \A v \in LedgerUsers : v # u => lgCommandOK(v)'
  <2> SUFFICES ASSUME NEW v \in LedgerUsers, v # u PROVE lgCommandOK(v)'
    OBVIOUS
  <2>1. lgCommandOK(v) /\ Len(commits) \in Nat
    BY LedgerHeadType DEF lgGood
  <2> QED
    BY <2>1, LedgerNothingWritten, LedgerOtherCommand
<1> QED
  BY <1>1, LedgerNothingWritten DEF lgGood

(* The mockup, when no registration passes the copy of it.                 *)
LEMMA LedgerMockupFrame ==
  ASSUME lgMockupOK, UNCHANGED <<commits, tree, byHand, file>>, loose' = FALSE => loose = FALSE, loose \in BOOLEAN,
         loose' \in BOOLEAN,
         \A v \in LedgerUsers : lgMoved(v)' <=> lgMoved(v),
         \A v \in LedgerUsers : lgMoved(v) => cmd'[v].content = cmd[v].content /\ cmd'[v].previous = cmd[v].previous
  PROVE  lgMockupOK'
<1> SUFFICES ASSUME ~loose' PROVE lgMockupOK'
  BY DEF lgMockupOK
<1>1. \A x : lgNamed(x)' <=> lgNamed(x)
  BY LedgerNothingWritten
<1>2. ~loose
  OBVIOUS
<1>3. (\A v \in LedgerUsers : ~lgMoved(v)') => lgNamed(file)'
  BY <1>1, <1>2 DEF lgMockupOK, lgNamed
<1>4. ASSUME NEW v \in LedgerUsers, lgMoved(v)'
      PROVE  /\ file' = cmd'[v].content /\ lgNamed(cmd[v].previous)'
             /\ \A w \in LedgerUsers : lgMoved(w)' => w = v
  <2>1. lgMoved(v) /\ cmd'[v].previous = cmd[v].previous
    BY <1>4
  <2>2. lgNamed(cmd[v].previous) /\ file = cmd[v].content
    BY <1>2, <2>1 DEF lgMockupOK
  <2> QED
    BY <1>1, <1>2, <2>1, <2>2 DEF lgMockupOK, lgNamed, lgBase
<1> QED
  BY <1>3, <1>4 DEF lgMockupOK
-----------------------------------------------------------------------------
(* apv ledger plan: the reader writes nothing.                             *)
LEMMA LedgerReadPlanStep ==
  ASSUME LG!LedgerAssumption, lgIInv, ~overlap, NEW u \in LedgerUsers, LG!ReadPlan(u)
  PROVE  lgIInv'
<1> USE DEF lgIInv
<1>1. UNCHANGED <<commits, tree, file, cmd, byHand, overlap, loose>>
  BY DEF LG!ReadPlan
<1>2. reviewed' \in [LedgerUsers -> lgPlanRecord]
  <2>1. PICK update \in LedgerUpdates : reviewed' = [reviewed EXCEPT ![u] = LG!Plan(update, Len(commits))]
    BY DEF LG!ReadPlan
  <2> QED
    BY <2>1, LedgerPlanType DEF lgTypeOK
<1>3. lgTypeOK'
  BY <1>1, <1>2 DEF lgTypeOK
<1>4. lgMockupOK'
  <2>1. \A v \in LedgerUsers : lgMoved(v)' <=> lgMoved(v)
    BY <1>1 DEF lgMoved
  <2> QED
    BY <1>1, <2>1, LedgerMockupFrame DEF lgTypeOK, lgGood
<1>5. lgCommandOK(u)'
  BY <1>1, LedgerNothingWritten, LedgerOtherCommand, LedgerHeadType DEF lgGood
<1>6. lgGood'
  BY <1>1, <1>4, <1>5, LedgerCommandMoves
<1> QED
  BY <1>3, <1>6

(* apv ledger apply begins.                                                *)
LEMMA LedgerStartApplyStep ==
  ASSUME LG!LedgerAssumption, lgIInv, ~overlap, NEW u \in LedgerUsers, LG!StartApply(u)
  PROVE  lgIInv'
<1> USE DEF lgIInv
<1>1. /\ UNCHANGED <<commits, tree, file, reviewed, byHand, overlap, loose>>
      /\ cmd[u].pc = "idle"
  BY DEF LG!StartApply
<1>2. PICK update \in LedgerUpdates, commit \in BOOLEAN :
       cmd' = [cmd EXCEPT ![u] = [LG!Idle EXCEPT !.pc = "working", !.kind = "apply", !.commit = commit,
                                    !.plan = LG!Plan(update, Len(commits)), !.hash = reviewed[u]]]
  BY DEF LG!StartApply
<1> DEFINE new == [LG!Idle EXCEPT !.pc = "working", !.kind = "apply", !.commit = commit,
                                 !.plan = LG!Plan(update, Len(commits)), !.hash = reviewed[u]]
<1>3. /\ new \in lgCommandRecord
      /\ new.pc = "working" /\ new.kind = "apply" /\ new.plan = LG!Plan(update, Len(commits))
  <2>1. LG!Plan(update, Len(commits)) \in lgPlanRecord /\ reviewed[u] \in lgPlanRecord
    BY LedgerPlanType DEF lgTypeOK
  <2> QED
    BY <2>1, LedgerPlanType DEF LG!Idle, lgCommandRecord
<1> HIDE DEF new
<1>4. cmd'[u] = new /\ \A v \in LedgerUsers : v # u => cmd'[v] = cmd[v]
  BY <1>2 DEF lgTypeOK, new
<1>5. lgTypeOK'
  BY <1>1, <1>2, <1>3 DEF lgTypeOK, new
<1>6. lgCommandOK(u)'
  BY <1>1, <1>3, <1>4, LedgerPlanType, LedgerHeadType DEF lgCommandOK
<1>7. lgMockupOK'
  <2>1. \A v \in LedgerUsers : lgMoved(v)' <=> lgMoved(v)
    BY <1>1, <1>3, <1>4 DEF lgMoved
  <2>2. \A v \in LedgerUsers : lgMoved(v) => v # u
    BY <1>1 DEF lgMoved
  <2> QED
    BY <1>1, <1>4, <2>1, <2>2, LedgerMockupFrame DEF lgTypeOK, lgGood
<1>8. lgGood'
  BY <1>1, <1>4, <1>6, <1>7, LedgerCommandMoves
<1> QED
  BY <1>5, <1>8

(* apv design register, until the copy.                                    *)
LEMMA LedgerRegisterStep ==
  ASSUME LG!LedgerAssumption, lgIInv, ~overlap, NEW u \in LedgerUsers, LG!Register(u)
  PROVE  lgIInv'
<1> USE DEF lgIInv
<1>1. /\ UNCHANGED <<commits, tree, file, reviewed, byHand, overlap, loose>>
      /\ cmd[u].pc = "idle"
  BY DEF LG!Register
<1>2. PICK content \in LedgerContents :
        /\ LG!Planned(LG!Plan({LG!Registration(content)}, Len(commits)))
        /\ cmd' = [cmd EXCEPT ![u] = [LG!Idle EXCEPT !.pc = "copy", !.kind = "register",
                                 !.hash = LG!Plan({LG!Registration(content)}, Len(commits)), !.content = content]]
  BY DEF LG!Register
<1> DEFINE r == LG!Registration(content)
           plan == LG!Plan({r}, Len(commits))
           new == [LG!Idle EXCEPT !.pc = "copy", !.kind = "register", !.hash = plan, !.content = content]
<1>3. r \in lgMockup /\ r.sha = content /\ r.supersedes = LG!Ids(LG!Active(tree.json))
  BY LedgerRegistrationIsMockup DEF lgGood, lgCopyOK
<1>4. plan.base = Len(commits) /\ plan.update = {r}
  BY LedgerPlanType
<1>5. plan \in lgPlanRecord
  <2>1. r \in lgDecision
    BY <1>3 DEF lgDecision
  <2> QED
    BY <2>1, LedgerHeadType DEF LG!Plan, lgPlanRecord
<1>6. tree.json = commits[Len(commits)].json
  BY <1>2, <1>4 DEF LG!Planned
<1> HIDE DEF r, plan
<1>7. new \in lgCommandRecord /\ new.pc = "copy" /\ new.kind = "register" /\ new.hash = plan /\ new.content = content
  <2>1. content \in Nat
    BY DEF LG!LedgerAssumption
  <2> QED
    BY <1>5, <2>1, LedgerPlanType DEF LG!Idle, lgCommandRecord
<1>8. cmd' = [cmd EXCEPT ![u] = new]
  BY <1>2 DEF r, plan
<1> HIDE DEF new
<1>9. cmd'[u] = new /\ \A v \in LedgerUsers : v # u => cmd'[v] = cmd[v]
  BY <1>8 DEF lgTypeOK
<1>10. lgTypeOK'
  BY <1>1, <1>7, <1>8 DEF lgTypeOK
<1>11. lgCommandOK(u)'
  <2>1. lgRegisters(u)'
    BY <1>1, <1>3, <1>4, <1>6, <1>7, <1>9, LedgerHeadType DEF lgRegisters
  <2> QED
    BY <1>7, <1>9, <2>1 DEF lgCommandOK
<1>12. lgMockupOK'
  <2>1. \A v \in LedgerUsers : lgMoved(v)' <=> lgMoved(v)
    BY <1>1, <1>7, <1>9 DEF lgMoved
  <2>2. \A v \in LedgerUsers : lgMoved(v) => v # u
    BY <1>1 DEF lgMoved
  <2> QED
    BY <1>1, <1>9, <2>1, <2>2, LedgerMockupFrame DEF lgTypeOK, lgGood
<1>13. lgGood'
  BY <1>1, <1>9, <1>11, <1>12, LedgerCommandMoves
<1> QED
  BY <1>10, <1>13

(* A registration is seen by whoever writes.                               *)
LEMMA LedgerMovedIsExposed ==
  ASSUME NEW v, lgMoved(v)
  PROVE  LG!Exposed(v)
BY DEF lgMoved, LG!Exposed

(* Its mockup is copied: what it was is kept.                              *)
LEMMA LedgerCopyStep ==
  ASSUME LG!LedgerAssumption, lgIInv, ~overlap, NEW u \in LedgerUsers, LG!Copy(u)
  PROVE  lgIInv'
<1> USE DEF lgIInv
<1>1. /\ UNCHANGED <<commits, tree, reviewed, byHand, loose>>
      /\ cmd[u].pc = "copy" /\ file' = cmd[u].content
      /\ overlap' = (overlap \/ \E v \in LedgerUsers \ {u} : LG!Exposed(v))
      /\ cmd' = [cmd EXCEPT ![u].pc = "working", ![u].previous = file,
                         ![u].plan = LG!Plan(cmd[u].hash.update, Len(commits))]
  BY DEF LG!Copy, LG!Writes
<1> DEFINE plan == LG!Plan(cmd[u].hash.update, Len(commits))
<1>2. cmd[u] \in lgCommandRecord /\ file \in Nat
  BY DEF lgTypeOK
<1>3. plan \in lgPlanRecord /\ plan.base = Len(commits) /\ plan.update = cmd[u].hash.update
  BY <1>2, LedgerHeadType DEF LG!Plan, lgPlanRecord, lgCommandRecord
<1> HIDE DEF plan
<1>4. /\ cmd'[u] = [cmd[u] EXCEPT !.pc = "working", !.previous = file, !.plan = plan]
      /\ cmd' \in [LedgerUsers -> lgCommandRecord]
      /\ \A v \in LedgerUsers : v # u => cmd'[v] = cmd[v]
  <2>1. [cmd[u] EXCEPT !.pc = "working", !.previous = file, !.plan = plan] \in lgCommandRecord
    BY <1>2, <1>3 DEF lgCommandRecord
  <2>2. cmd' = [cmd EXCEPT ![u] = [cmd[u] EXCEPT !.pc = "working", !.previous = file, !.plan = plan]]
    BY <1>1 DEF plan, lgTypeOK
  <2> QED
    BY <2>1, <2>2 DEF lgTypeOK
<1>5. /\ cmd'[u].pc = "working" /\ cmd'[u].plan = plan /\ cmd'[u].previous = file
      /\ cmd'[u].hash = cmd[u].hash /\ cmd'[u].kind = cmd[u].kind /\ cmd'[u].content = cmd[u].content
  BY <1>2, <1>4 DEF lgCommandRecord
<1>6. lgTypeOK'
  BY <1>1, <1>2, <1>4 DEF lgTypeOK, lgCommandRecord
<1>7. ASSUME ~overlap' PROVE lgGood'
  <2>1. \A v \in LedgerUsers : v # u => ~LG!Exposed(v)
    BY <1>1, <1>7
  <2>2. cmd[u].kind = "register" /\ lgRegisters(u)
    BY <1>1 DEF lgGood, lgCommandOK
  <2>3. lgCommandOK(u)'
    <3>1. lgRegisters(u)'
      BY <1>1, <1>5, <2>2 DEF lgRegisters
    <3> QED
      BY <1>1, <1>3, <1>5, <2>2, <3>1, LedgerHeadType DEF lgCommandOK
  <2>4. lgMockupOK'
    <3> SUFFICES ASSUME ~loose PROVE lgMockupOK'
      BY <1>1 DEF lgMockupOK
    <3>1. \A v \in LedgerUsers : ~lgMoved(v)
      BY <1>1, <2>1, LedgerMovedIsExposed DEF lgMoved
    <3>2. lgNamed(file)
      BY <3>1 DEF lgGood, lgMockupOK
    <3>3. lgNamed(cmd'[u].previous)
      BY <1>5, <3>2
    <3>4. lgNamed(cmd[u].previous)'
      BY <1>1, <3>3 DEF lgNamed, lgBase, LG!Active, LG!Mockups, LG!HEAD
    <3>5. \A v \in LedgerUsers : lgMoved(v)' <=> v = u
      BY <1>4, <1>5, <2>2, <3>1 DEF lgMoved
    <3>6. file' = cmd'[u].content
      BY <1>1, <1>5
    <3> QED
      BY <3>4, <3>5, <3>6 DEF lgMockupOK
  <2> QED
    BY <1>1, <1>4, <2>3, <2>4, LedgerCommandMoves
<1> QED
  BY <1>6, <1>7

(* A command that goes on writes nothing.                                  *)
LEMMA LedgerGoesOn ==
  ASSUME LG!LedgerAssumption, lgIInv, ~overlap, NEW u \in LedgerUsers, NEW pc,
         LG!Goto(u, pc), pc \in {"status", "json"}, cmd[u].pc \in {"working", "status"},
         UNCHANGED <<commits, tree, file, byHand, overlap, loose>>,
         reviewed' \in [LedgerUsers -> lgPlanRecord],
         cmd[u].plan = cmd[u].hash, LG!Planned(cmd[u].plan) \/ cmd[u].pc = "status",
         pc = "json" => ~LG!Dirty
  PROVE  lgIInv'
<1> USE DEF lgIInv
<1>1. cmd' = [cmd EXCEPT ![u].pc = pc] /\ cmd[u] \in lgCommandRecord
  BY DEF LG!Goto, lgTypeOK
<1>2. /\ cmd'[u] = [cmd[u] EXCEPT !.pc = pc] /\ cmd' \in [LedgerUsers -> lgCommandRecord]
      /\ \A v \in LedgerUsers : v # u => cmd'[v] = cmd[v]
  BY <1>1 DEF lgTypeOK, lgCommandRecord
<1>3. /\ cmd'[u].pc = pc /\ cmd'[u].plan = cmd[u].plan /\ cmd'[u].previous = cmd[u].previous
      /\ cmd'[u].hash = cmd[u].hash /\ cmd'[u].kind = cmd[u].kind /\ cmd'[u].content = cmd[u].content
  BY <1>1, <1>2 DEF lgCommandRecord
<1>4. lgTypeOK'
  BY <1>2 DEF lgTypeOK
<1>5. lgCommandOK(u)'
  <2>1. lgCommandOK(u) /\ cmd[u].plan.base \in 1..Len(commits)
    BY DEF lgGood, lgCommandOK
  <2>2. tree.json = commits[cmd[u].plan.base].json /\ LG!Accepted(commits[cmd[u].plan.base].json, cmd[u].plan.update)
    BY <2>1 DEF lgCommandOK, LG!Planned
  <2>3. lgRegisters(u)' <=> lgRegisters(u)
    BY <1>3 DEF lgRegisters
  <2>4. LG!Dirty' = LG!Dirty
    BY DEF LG!Dirty, LG!HEAD
  <2> QED
    BY <1>3, <2>1, <2>2, <2>3, <2>4 DEF lgCommandOK
<1>6. lgMockupOK'
  <2>1. \A v \in LedgerUsers : lgMoved(v)' <=> lgMoved(v)
    BY <1>2, <1>3 DEF lgMoved
  <2> QED
    BY <1>2, <1>3, <2>1, LedgerMockupFrame DEF lgTypeOK, lgGood
<1>7. lgGood'
  BY <1>2, <1>5, <1>6, LedgerCommandMoves
<1> QED
  BY <1>4, <1>7

(* A command that ends before it writes the ledger: a registration that is *)
(* refused puts its mockup back; one that is killed does not.              *)
LEMMA LedgerEndsBefore ==
  ASSUME LG!LedgerAssumption, lgIInv, ~overlap, NEW u \in LedgerUsers, LG!Ends(u), cmd[u].pc # "idle",
         UNCHANGED <<commits, tree, byHand>>,
         loose' \in BOOLEAN, loose' = FALSE => loose = FALSE,
         reviewed' \in [LedgerUsers -> lgPlanRecord],
         \/ /\ cmd[u].kind = "register" /\ cmd[u].pc \in {"working", "status"}
            /\ file' = cmd[u].previous /\ LG!Writes(u)
         \/ /\ cmd[u].kind = "register" => loose'
            /\ UNCHANGED <<file, overlap>>
  PROVE  lgIInv'
<1> USE DEF lgIInv
<1>1. cmd' = [cmd EXCEPT ![u] = LG!Idle] /\ cmd[u] \in lgCommandRecord
  BY DEF LG!Ends, lgTypeOK
<1>2. /\ cmd'[u] = LG!Idle /\ cmd' \in [LedgerUsers -> lgCommandRecord]
      /\ \A v \in LedgerUsers : v # u => cmd'[v] = cmd[v]
  BY <1>1, LedgerPlanType DEF lgTypeOK
<1>3. cmd'[u].pc = "idle" /\ cmd'[u].kind = "none"
  BY <1>2 DEF LG!Idle
<1>4. lgTypeOK'
  <2>1. file' \in Nat /\ overlap' \in BOOLEAN
    BY <1>1 DEF LG!Writes, lgTypeOK, lgCommandRecord
  <2> QED
    BY <1>2, <2>1 DEF lgTypeOK
<1>5. lgCommandOK(u)'
  BY <1>3 DEF lgCommandOK
<1>6. lgMockupOK'
  <2> SUFFICES ASSUME ~loose', ~loose PROVE lgMockupOK'
    BY DEF lgMockupOK
  <2>1. \A x : lgNamed(x)' <=> lgNamed(x)
    BY LedgerNothingWritten
  <2>2. \A v \in LedgerUsers : lgMoved(v)' <=> (lgMoved(v) /\ v # u)
    BY <1>2, <1>3 DEF lgMoved
  <2>3. CASE lgMoved(u) /\ file' = cmd[u].previous
    <3>1. lgNamed(cmd[u].previous) /\ \A v \in LedgerUsers : ~lgMoved(v)'
      BY <2>2, <2>3 DEF lgGood, lgMockupOK
    <3>2. lgNamed(file')
      BY <2>3, <3>1
    <3>3. lgNamed(file)'
      BY <3>2, LedgerNothingWritten DEF lgNamed
    <3> QED
      BY <3>1, <3>3 DEF lgMockupOK
  <2>4. CASE ~lgMoved(u) /\ UNCHANGED file
    <3>1. \A v \in LedgerUsers : lgMoved(v)' <=> lgMoved(v)
      BY <2>2, <2>4
    <3> QED
      BY <1>2, <2>4, <3>1, LedgerMockupFrame DEF lgTypeOK, lgGood
  <2> QED
    BY <2>3, <2>4 DEF lgMoved
<1>7. lgGood'
  BY <1>2, <1>5, <1>6, LedgerCommandMoves
<1> QED
  BY <1>4, <1>7

(* applyLedgerUpdate plans again, and asks Git about the two files.        *)
LEMMA LedgerReadStep ==
  ASSUME LG!LedgerAssumption, lgIInv, ~overlap, NEW u \in LedgerUsers, LG!ReadWorking(u) \/ LG!Status(u)
  PROVE  lgIInv'
<1> USE DEF lgIInv
<1>1. UNCHANGED <<commits, tree, byHand, loose>> /\ reviewed' \in [LedgerUsers -> lgPlanRecord]
  BY LedgerPlanType DEF LG!ReadWorking, LG!Status, lgTypeOK
<1>2. CASE LG!ReadWorking(u)
  <2> DEFINE ok == LG!Planned(cmd[u].plan) /\ LG!Hash(cmd[u].plan) = LG!Hash(cmd[u].hash)
  <2>1. cmd[u].pc = "working" /\ LG!Proceeds(u, ok, "status")
    BY <1>2 DEF LG!ReadWorking
  <2>2. CASE ok
    BY <1>1, <2>1, <2>2, LedgerGoesOn DEF LG!Proceeds, LG!Hash
  <2>3. CASE ~ok
    <3>1. LG!Ends(u) /\ IF cmd[u].kind = "register" THEN file' = cmd[u].previous /\ LG!Writes(u) ELSE UNCHANGED <<file, overlap>>
      BY <2>1, <2>3 DEF LG!Proceeds
    <3> QED
      BY <1>1, <2>1, <3>1, LedgerEndsBefore DEF lgTypeOK
  <2> QED
    BY <2>2, <2>3
<1>3. CASE LG!Status(u)
  <2>1. cmd[u].pc = "status" /\ LG!Proceeds(u, ~LG!Dirty, "json")
    BY <1>3 DEF LG!Status
  <2>2. CASE ~LG!Dirty
    BY <1>1, <2>1, <2>2, LedgerGoesOn DEF LG!Proceeds, lgGood, lgCommandOK
  <2>3. CASE LG!Dirty
    <3>1. LG!Ends(u) /\ IF cmd[u].kind = "register" THEN file' = cmd[u].previous /\ LG!Writes(u) ELSE UNCHANGED <<file, overlap>>
      BY <2>1, <2>3 DEF LG!Proceeds
    <3> QED
      BY <1>1, <2>1, <3>1, LedgerEndsBefore DEF lgTypeOK
  <2> QED
    BY <2>2, <2>3
<1> QED
  BY <1>2, <1>3

(* The death of a command.                                                 *)
LEMMA LedgerKillStep ==
  ASSUME LG!LedgerAssumption, lgIInv, ~overlap, NEW u \in LedgerUsers, LG!Kill(u)
  PROVE  lgIInv'
<1>1. /\ cmd[u].pc # "idle" /\ LG!Ends(u) /\ loose' = (loose \/ cmd[u].kind = "register")
      /\ UNCHANGED <<commits, tree, file, reviewed, byHand, overlap>>
  BY DEF LG!Kill
<1> QED
  BY <1>1, LedgerEndsBefore DEF lgIInv, lgTypeOK
-----------------------------------------------------------------------------
(* Those who are not at a point where a write would be unseen go on.       *)
LEMMA LedgerOthersGoOn ==
  ASSUME lgTypeOK, lgGood, NEW S \in SUBSET LedgerUsers,
         \A v \in S : ~LG!Exposed(v) /\ cmd'[v] = cmd[v],
         Len(commits') \in Nat, Len(commits) <= Len(commits'), \A k \in 1..Len(commits) : commits'[k] = commits[k]
  PROVE  \A v \in S : lgCommandOK(v)' /\ ~lgMoved(v) /\ ~lgMoved(v)'
<1> SUFFICES ASSUME NEW v \in S PROVE lgCommandOK(v)' /\ ~lgMoved(v) /\ ~lgMoved(v)'
  OBVIOUS
<1>1. lgCommandOK(v)'
  BY LedgerOtherCommand DEF lgGood
<1>2. ~lgMoved(v)
  BY LedgerMovedIsExposed
<1> QED
  BY <1>1, <1>2 DEF lgMoved

(* A command before it writes: the working copy is that of the last commit.*)
LEMMA LedgerBeforeTheWrite ==
  ASSUME lgTypeOK, lgGood, ~LG!Dirty
  PROVE  tree.json = LG!HEAD.json /\ tree.md = LG!HEAD.md /\ byHand = FALSE
<1>1. tree.json = LG!HEAD.json /\ tree.md = LG!HEAD.md
  BY DEF LG!Dirty
<1>2. LG!Hand \notin LG!HEAD.json \cup LG!HEAD.md
  BY LedgerHeadType DEF lgGood, lgHistoryOK, lgLedgerOK
<1> QED
  BY <1>1, <1>2 DEF lgGood, lgCopyOK, lgTypeOK

(* The validated mockup of a ledger, and its name.                         *)
LEMMA LedgerSameMockups ==
  ASSUME LG!LedgerAssumption, NEW one \in SUBSET lgDecision, NEW two \in SUBSET lgDecision,
         LG!Mockups(one) = LG!Mockups(two), lgOneMockup(one)
  PROVE  lgOneMockup(two) /\ LG!Active(one) = LG!Active(two)
BY LedgerOneIsActive DEF lgOneMockup

(* What a command writes in the ledger.                                    *)
LEMMA LedgerContentOfUpdate ==
  ASSUME LG!LedgerAssumption, lgIInv, ~overlap, NEW u \in LedgerUsers, cmd[u].pc \in {"json", "md", "commit"}
  PROVE  /\ cmd[u].plan = cmd[u].hash /\ cmd[u].plan \in lgPlanRecord
         /\ cmd[u].plan.base \in 1..Len(commits) /\ commits[cmd[u].plan.base].json = LG!HEAD.json
         /\ LG!Content(u) = LG!Result(LG!HEAD.json, cmd[u].plan.update) /\ LG!Accepted(LG!HEAD.json, cmd[u].plan.update)
         /\ LG!Content(u) \in SUBSET lgDecision /\ LG!Hand \notin LG!Content(u)
         /\ lgOneMockup(LG!Content(u)) /\ LG!Valid(LG!Content(u))
         /\ cmd[u].kind = "apply" => LG!Active(LG!Content(u)) = LG!Active(LG!HEAD.json)
         /\ cmd[u].kind = "register" => \E r : LG!Active(LG!Content(u)) = {r} /\ r.sha = cmd[u].content
         /\ cmd[u].kind \in {"apply", "register"}
<1> USE DEF lgIInv
<1>1. /\ lgCommandOK(u) /\ cmd[u].plan \in lgPlanRecord
      /\ LG!HEAD.json \in SUBSET lgDecision /\ lgOneMockup(LG!HEAD.json) /\ LG!Hand \notin LG!HEAD.json
  BY LedgerHeadType DEF lgGood, lgHistoryOK, lgLedgerOK, lgTypeOK, lgCommandRecord
<1>2. commits[cmd[u].plan.base].json = LG!HEAD.json
  <2>1. CASE cmd[u].pc = "json"
    <3>1. ~LG!Dirty /\ tree.json = commits[cmd[u].plan.base].json
      BY <1>1, <2>1 DEF lgCommandOK
    <3> QED
      BY <3>1, LedgerBeforeTheWrite
  <2>2. CASE cmd[u].pc \in {"md", "commit"}
    BY <1>1, <2>2 DEF lgCommandOK
  <2> QED
    BY <2>1, <2>2
<1>3. /\ cmd[u].plan = cmd[u].hash /\ LG!Accepted(LG!HEAD.json, cmd[u].plan.update)
      /\ cmd[u].plan.base \in 1..Len(commits) /\ cmd[u].kind \in {"apply", "register"}
  BY <1>1, <1>2 DEF lgCommandOK
<1>4. LG!Content(u) = LG!Result(LG!HEAD.json, cmd[u].plan.update)
  BY <1>2 DEF LG!Content
<1>5. LG!Content(u) \in SUBSET lgDecision
  BY <1>1, <1>4, LedgerResultIsLedger DEF lgPlanRecord
<1>6. LG!Valid(LG!Content(u))
  BY <1>3, <1>4, LedgerAcceptedSupersedes
<1>7. CASE cmd[u].kind = "apply"
  <2>1. cmd[u].plan.update \in LedgerUpdates
    BY <1>1, <1>7 DEF lgCommandOK
  <2>2. LG!Mockups(LG!Content(u)) = LG!Mockups(LG!HEAD.json) /\ LG!Hand \notin LG!Content(u)
    BY <1>1, <1>4, <2>1, LedgerUpdateKeepsMockups
  <2>3. lgOneMockup(LG!Content(u)) /\ LG!Active(LG!Content(u)) = LG!Active(LG!HEAD.json)
    BY <1>1, <1>5, <2>2, LedgerSameMockups
  <2> QED
    BY <1>2, <1>3, <1>4, <1>5, <1>6, <1>7, <1>1, <2>2, <2>3
<1>8. CASE cmd[u].kind = "register"
  <2>1. lgRegisters(u)
    BY <1>1, <1>8 DEF lgCommandOK
  <2>2. PICK r \in lgMockup :
          /\ cmd[u].plan.update = {r} /\ r.sha = cmd[u].content /\ r.supersedes = LG!Ids(LG!Active(LG!HEAD.json))
    BY <1>2, <1>3, <2>1 DEF lgRegisters
  <2>3. LG!Mockups(LG!Content(u)) = {r} /\ LG!Hand \notin LG!Content(u)
    BY <1>1, <1>4, <2>2, LedgerRegistrationReplaces
  <2>4. lgOneMockup(LG!Content(u))
    BY <2>3 DEF lgOneMockup
  <2>5. LG!Active(LG!Content(u)) = {r}
    BY <1>5, <2>3, <2>4, LedgerOneIsActive
  <2> QED
    BY <1>2, <1>3, <1>4, <1>5, <1>6, <1>8, <1>1, <2>2, <2>3, <2>4, <2>5
<1> QED
  BY <1>3, <1>7, <1>8

(* The ledger is written: the plan that was accepted, on the last commit.  *)
LEMMA LedgerWriteJsonStep ==
  ASSUME LG!LedgerAssumption, lgIInv, ~overlap, NEW u \in LedgerUsers, LG!WriteJson(u)
  PROVE  lgIInv'
<1> USE DEF lgIInv
<1>1. /\ cmd[u].pc = "json" /\ cmd' = [cmd EXCEPT ![u].pc = "md"]
      /\ overlap' = (overlap \/ \E v \in LedgerUsers \ {u} : LG!Exposed(v))
      /\ tree' = [tree EXCEPT !.json = LG!Content(u)]
      /\ UNCHANGED <<commits, file, reviewed, byHand, loose>>
  BY DEF LG!WriteJson, LG!Goto, LG!Writes
<1>2. ~LG!Dirty /\ tree.json = LG!HEAD.json /\ tree.md = LG!HEAD.md /\ byHand = FALSE
  BY <1>1, LedgerBeforeTheWrite DEF lgGood, lgCommandOK
<1> DEFINE new == LG!Content(u)
<1>3. /\ new \in SUBSET lgDecision /\ LG!Hand \notin new /\ lgOneMockup(new)
      /\ new = LG!Result(LG!HEAD.json, cmd[u].plan.update) /\ LG!Accepted(LG!HEAD.json, cmd[u].plan.update)
      /\ commits[cmd[u].plan.base].json = LG!HEAD.json /\ cmd[u].plan.update \in SUBSET lgDecision
      /\ cmd[u].kind = "apply" => LG!Active(new) = LG!Active(LG!HEAD.json)
      /\ cmd[u].kind = "register" => \E r : LG!Active(new) = {r} /\ r.sha = cmd[u].content
      /\ cmd[u].kind \in {"apply", "register"}
  BY <1>1, LedgerContentOfUpdate DEF lgPlanRecord
<1>4. tree'.json = new /\ tree'.md = tree.md /\ tree' \in [json : SUBSET lgDecision, md : SUBSET lgDecision]
  BY <1>1, <1>3 DEF lgTypeOK
<1>5. /\ cmd'[u] = [cmd[u] EXCEPT !.pc = "md"] /\ cmd' \in [LedgerUsers -> lgCommandRecord]
      /\ \A v \in LedgerUsers : v # u => cmd'[v] = cmd[v]
  BY <1>1 DEF lgTypeOK, lgCommandRecord
<1>6. /\ cmd'[u].pc = "md" /\ cmd'[u].plan = cmd[u].plan /\ cmd'[u].hash = cmd[u].hash
      /\ cmd'[u].kind = cmd[u].kind /\ cmd'[u].content = cmd[u].content
  <2>1. cmd[u] \in lgCommandRecord
    BY DEF lgTypeOK
  <2> QED
    BY <1>5, <2>1 DEF lgCommandRecord
<1>7. lgTypeOK'
  BY <1>1, <1>4, <1>5 DEF lgTypeOK
<1>8. new' = new
  BY <1>1, <1>6 DEF LG!Content
<1> HIDE DEF new
<1>9. ASSUME ~overlap' PROVE lgGood'
  <2>1. \A v \in LedgerUsers : v # u => lgCommandOK(v)' /\ ~lgMoved(v) /\ ~lgMoved(v)'
    <3>1. \A v \in LedgerUsers \ {u} : ~LG!Exposed(v) /\ cmd'[v] = cmd[v]
      BY <1>1, <1>5, <1>9
    <3>2. Len(commits') \in Nat /\ Len(commits) <= Len(commits') /\ \A k \in 1..Len(commits) : commits'[k] = commits[k]
      BY <1>1, LedgerHeadType
    <3> QED
      BY <3>1, <3>2, LedgerOthersGoOn
  <2>2. LG!HEAD' = LG!HEAD
    BY <1>1 DEF LG!HEAD
  <2>3. lgCommandOK(u)'
    <3>1. lgCommandOK(u)
      BY DEF lgGood
    <3>2. lgRegisters(u)' <=> lgRegisters(u)
      BY <1>1, <1>6 DEF lgRegisters
    <3> QED
      BY <1>1, <1>2, <1>3, <1>4, <1>6, <1>8, <2>2, <3>1, <3>2 DEF lgCommandOK, new
  <2>4. lgHistoryOK'
    BY <1>1 DEF lgGood, lgHistoryOK, lgLedgerOK, lgStepOK
  <2>5. lgCopyOK'
    <3>1. LG!Hand \notin tree.md
      BY <1>2 DEF lgGood, lgCopyOK
    <3> QED
      BY <1>1, <1>2, <1>3, <1>4, <2>2, <3>1 DEF lgCopyOK
  <2>6. lgMockupOK'
    <3> SUFFICES ASSUME ~loose PROVE lgMockupOK'
      BY <1>1 DEF lgMockupOK
    <3>1. \A v \in LedgerUsers : ~lgMoved(v)'
      BY <1>6, <2>1 DEF lgMoved
    <3>2. lgBase' = new /\ lgBase = LG!HEAD.json
      BY <1>1, <1>2, <1>4 DEF lgBase
    <3>3. lgNamed(file)'
      <4>1. CASE cmd[u].kind = "apply"
        <5>1. lgNamed(file)
          BY <2>1, <4>1 DEF lgGood, lgMockupOK, lgMoved
        <5>2. LG!Active(lgBase') = LG!Active(lgBase)
          BY <1>3, <3>2, <4>1
        <5>3. LG!Active(lgBase)' = LG!Active(lgBase')
          BY DEF LG!Active, LG!Mockups
        <5> QED
          BY <1>1, <5>1, <5>2, <5>3 DEF lgNamed
      <4>2. CASE cmd[u].kind = "register"
        <5>1. file = cmd[u].content
          BY <1>1, <4>2 DEF lgGood, lgMockupOK, lgMoved
        <5>2. LG!Active(lgBase)' = LG!Active(lgBase')
          BY DEF LG!Active, LG!Mockups
        <5> QED
          BY <1>1, <1>3, <3>2, <4>2, <5>1, <5>2 DEF lgNamed
      <4> QED
        BY <1>3, <4>1, <4>2
    <3> QED
      BY <3>1, <3>3 DEF lgMockupOK
  <2> QED
    BY <2>1, <2>3, <2>4, <2>5, <2>6 DEF lgGood
<1> QED
  BY <1>7, <1>9

(* The text is written after the file.                                     *)
LEMMA LedgerWriteMdStep ==
  ASSUME LG!LedgerAssumption, lgIInv, ~overlap, NEW u \in LedgerUsers, LG!WriteMd(u)
  PROVE  lgIInv'
<1> USE DEF lgIInv
<1>1. /\ cmd[u].pc = "md" /\ tree' = [tree EXCEPT !.md = LG!Content(u)]
      /\ overlap' = (overlap \/ \E v \in LedgerUsers \ {u} : LG!Exposed(v))
      /\ IF cmd[u].commit THEN cmd' = [cmd EXCEPT ![u].pc = "commit"] ELSE cmd' = [cmd EXCEPT ![u] = LG!Idle]
      /\ UNCHANGED <<commits, file, reviewed, byHand, loose>>
  BY DEF LG!WriteMd, LG!Goto, LG!Ends, LG!Writes
<1> DEFINE new == LG!Content(u)
<1>2. /\ new \in SUBSET lgDecision /\ LG!Hand \notin new
      /\ new = LG!Result(LG!HEAD.json, cmd[u].plan.update) /\ LG!Accepted(LG!HEAD.json, cmd[u].plan.update)
      /\ commits[cmd[u].plan.base].json = LG!HEAD.json /\ cmd[u].plan.update \in SUBSET lgDecision
  BY <1>1, LedgerContentOfUpdate DEF lgPlanRecord
<1>3. lgCommandOK(u) /\ byHand = FALSE /\ tree.json = new
  BY <1>1 DEF lgGood, lgCommandOK, lgTypeOK
<1>4. tree'.json = tree.json /\ tree'.md = new /\ tree' \in [json : SUBSET lgDecision, md : SUBSET lgDecision]
  BY <1>1, <1>2 DEF lgTypeOK
<1>5. /\ cmd' \in [LedgerUsers -> lgCommandRecord]
      /\ \A v \in LedgerUsers : v # u => cmd'[v] = cmd[v]
      /\ \/ cmd'[u] = LG!Idle
         \/ cmd'[u] = [cmd[u] EXCEPT !.pc = "commit"]
  <2>1. CASE cmd' = [cmd EXCEPT ![u].pc = "commit"]
    <3>1. [cmd[u] EXCEPT !.pc = "commit"] \in lgCommandRecord
      BY DEF lgTypeOK, lgCommandRecord
    <3>2. cmd' = [cmd EXCEPT ![u] = [cmd[u] EXCEPT !.pc = "commit"]]
      BY <2>1 DEF lgTypeOK
    <3> QED
      BY <3>1, <3>2 DEF lgTypeOK
  <2>2. CASE cmd' = [cmd EXCEPT ![u] = LG!Idle]
    BY <2>2, LedgerPlanType DEF lgTypeOK
  <2> QED
    BY <1>1, <2>1, <2>2
<1>6. \/ cmd'[u].pc = "idle" /\ cmd'[u].kind = "none"
      \/ /\ cmd'[u].pc = "commit" /\ cmd'[u].plan = cmd[u].plan /\ cmd'[u].hash = cmd[u].hash
         /\ cmd'[u].kind = cmd[u].kind /\ cmd'[u].content = cmd[u].content
  <2>1. cmd[u] \in lgCommandRecord
    BY DEF lgTypeOK
  <2> QED
    BY <1>5, <2>1 DEF lgCommandRecord, LG!Idle
<1>7. lgTypeOK'
  BY <1>1, <1>4, <1>5 DEF lgTypeOK
<1>8. cmd'[u].pc = "commit" => new' = new
  BY <1>1, <1>6 DEF LG!Content
<1> HIDE DEF new
<1>9. ASSUME ~overlap' PROVE lgGood'
  <2>1. \A v \in LedgerUsers : v # u => lgCommandOK(v)' /\ ~lgMoved(v) /\ ~lgMoved(v)'
    <3>1. \A v \in LedgerUsers \ {u} : ~LG!Exposed(v) /\ cmd'[v] = cmd[v]
      BY <1>1, <1>5, <1>9
    <3>2. Len(commits') \in Nat /\ Len(commits) <= Len(commits') /\ \A k \in 1..Len(commits) : commits'[k] = commits[k]
      BY <1>1, LedgerHeadType
    <3> QED
      BY <3>1, <3>2, LedgerOthersGoOn
  <2>2. LG!HEAD' = LG!HEAD
    BY <1>1 DEF LG!HEAD
  <2>3. lgCommandOK(u)'
    <3>1. CASE cmd'[u].pc = "commit"
      <4>1. lgRegisters(u)' <=> lgRegisters(u)
        BY <1>1, <1>6, <3>1 DEF lgRegisters
      <4> QED
        BY <1>1, <1>2, <1>3, <1>4, <1>6, <1>8, <2>2, <3>1, <4>1 DEF lgCommandOK, new
    <3>2. CASE cmd'[u].pc = "idle"
      BY <3>2 DEF lgCommandOK
    <3> QED
      BY <1>6, <3>1, <3>2
  <2>4. lgHistoryOK'
    BY <1>1 DEF lgGood, lgHistoryOK, lgLedgerOK, lgStepOK
  <2>5. lgCopyOK'
    BY <1>1, <1>2, <1>3, <1>4, <2>2 DEF lgGood, lgCopyOK
  <2>6. lgMockupOK'
    <3> SUFFICES ASSUME ~loose PROVE lgMockupOK'
      BY <1>1 DEF lgMockupOK
    <3>1. \A v \in LedgerUsers : ~lgMoved(v)' /\ ~lgMoved(v)
      BY <1>1, <1>6, <2>1 DEF lgMoved
    <3>2. lgBase' = lgBase
      BY <1>1, <1>3, <1>4 DEF lgBase
    <3>3. lgNamed(file)'
      BY <1>1, <3>1, <3>2 DEF lgGood, lgMockupOK, lgNamed, LG!Active, LG!Mockups
    <3> QED
      BY <3>1, <3>3 DEF lgMockupOK
  <2> QED
    BY <2>1, <2>3, <2>4, <2>5, <2>6 DEF lgGood
<1> QED
  BY <1>7, <1>9

(* A commit that is well made continues the history.                       *)
LEMMA LedgerHistoryGrows ==
  ASSUME lgTypeOK, lgHistoryOK, NEW new \in lgCommitRecord, commits' = Append(commits, new),
         LG!Valid(new.json), lgOneMockup(new.json), LG!Hand \notin new.json \cup new.md,
         lgSupersedes(LG!HEAD.json, new.json),
         new.plan # LG!NoPlan => /\ new.plan.base \in 1..Len(commits) /\ commits[new.plan.base].json = LG!HEAD.json
                                 /\ new.json = LG!Result(LG!HEAD.json, new.plan.update) /\ new.md = new.json
  PROVE  /\ lgHistoryOK' /\ commits' \in Seq(lgCommitRecord) /\ Len(commits') = Len(commits) + 1
         /\ \A k \in 1..Len(commits) : commits'[k] = commits[k]
         /\ LG!HEAD' = new
<1> DEFINE n == Len(commits)
<1>1. /\ n \in Nat /\ n # 0 /\ commits' \in Seq(lgCommitRecord) /\ Len(commits') = n + 1
      /\ \A k \in 1..n : commits'[k] = commits[k]
      /\ commits'[n + 1] = new
  BY DEF lgTypeOK
<1>2. LG!HEAD' = new /\ LG!HEAD = commits[n]
  BY <1>1 DEF LG!HEAD, LG!Last
<1> HIDE DEF n
<1>3. \A k \in 1..(n + 1) : lgLedgerOK(k)'
  <2> TAKE k \in 1..(n + 1)
  <2>1. CASE k \in 1..n
    BY <1>1, <2>1 DEF lgHistoryOK, lgLedgerOK, n
  <2>2. CASE k = n + 1
    BY <1>1, <2>2 DEF lgLedgerOK
  <2> QED
    BY <1>1, <2>1, <2>2
<1>4. \A k \in 2..(n + 1) : lgStepOK(k)'
  <2> TAKE k \in 2..(n + 1)
  <2>1. CASE k \in 2..n
    <3>1. k \in 1..n /\ k - 1 \in 1..n /\ \A b \in 1..n : b \in 1..(n + 1)
      BY <1>1, <2>1
    <3>2. lgStepOK(k) /\ commits'[k] = commits[k] /\ commits'[k - 1] = commits[k - 1]
      BY <1>1, <2>1, <3>1 DEF lgHistoryOK, n
    <3> QED
      BY <1>1, <3>1, <3>2 DEF lgStepOK, n
  <2>2. CASE k = n + 1
    <3>1. k - 1 = n /\ n \in 1..n /\ \A b \in 1..n : b \in 1..(n + 1)
      BY <1>1, <2>2
    <3>2. commits'[k] = new /\ commits'[k - 1] = LG!HEAD
      BY <1>1, <1>2, <2>2, <3>1
    <3> QED
      BY <1>1, <3>1, <3>2 DEF lgStepOK, n
  <2> QED
    BY <1>1, <2>1, <2>2
<1> QED
  BY <1>1, <1>2, <1>3, <1>4 DEF lgHistoryOK, n

(* The commit of the tool: the plan its user read.                         *)
LEMMA LedgerCommitStep ==
  ASSUME LG!LedgerAssumption, lgIInv, ~overlap, NEW u \in LedgerUsers, LG!Commit(u)
  PROVE  lgIInv'
<1> USE DEF lgIInv
<1>1. /\ cmd[u].pc = "commit" /\ cmd' = [cmd EXCEPT ![u] = LG!Idle]
      /\ \/ UNCHANGED <<commits, overlap>>
         \/ /\ commits' = Append(commits, [json |-> tree.json, md |-> tree.md, plan |-> cmd[u].hash])
            /\ overlap' = (overlap \/ \E v \in LedgerUsers \ {u} : LG!Exposed(v))
      /\ UNCHANGED <<tree, file, reviewed, byHand, loose>>
  BY DEF LG!Commit, LG!Ends, LG!Writes
<1>2. /\ cmd' \in [LedgerUsers -> lgCommandRecord] /\ cmd'[u] = LG!Idle
      /\ \A v \in LedgerUsers : v # u => cmd'[v] = cmd[v]
      /\ cmd'[u].pc = "idle" /\ cmd'[u].kind = "none"
  BY <1>1, LedgerPlanType DEF lgTypeOK, LG!Idle
<1> DEFINE new == [json |-> tree.json, md |-> tree.md, plan |-> cmd[u].hash]
<1>3. new \in lgCommitRecord /\ new.json = tree.json /\ new.md = tree.md /\ new.plan = cmd[u].hash
  BY DEF lgTypeOK, lgCommitRecord, lgCommandRecord
<1>4. lgCommandOK(u)' /\ ~lgMoved(u) /\ ~lgMoved(u)'
  BY <1>1, <1>2 DEF lgCommandOK, lgMoved
<1>5. CASE UNCHANGED <<commits, overlap>>
  <2>1. lgMockupOK'
    <3>1. \A v \in LedgerUsers : lgMoved(v)' <=> lgMoved(v)
      BY <1>2, <1>4 DEF lgMoved
    <3> QED
      BY <1>1, <1>2, <1>4, <1>5, <3>1, LedgerMockupFrame DEF lgTypeOK, lgGood
  <2>2. lgGood'
    BY <1>1, <1>2, <1>4, <1>5, <2>1, LedgerCommandMoves
  <2> QED
    BY <1>1, <1>2, <1>5, <2>2 DEF lgTypeOK
<1>6. CASE commits' = Append(commits, new) /\ overlap' = (overlap \/ \E v \in LedgerUsers \ {u} : LG!Exposed(v))
  <2>1. /\ byHand = FALSE /\ tree.json = LG!Content(u) /\ tree.md = LG!Content(u)
    BY <1>1 DEF lgGood, lgCommandOK, lgTypeOK
  <2>2. /\ cmd[u].plan = cmd[u].hash
        /\ cmd[u].plan.base \in 1..Len(commits) /\ commits[cmd[u].plan.base].json = LG!HEAD.json
        /\ tree.json = LG!Result(LG!HEAD.json, cmd[u].plan.update) /\ LG!Accepted(LG!HEAD.json, cmd[u].plan.update)
        /\ LG!Hand \notin tree.json /\ lgOneMockup(tree.json) /\ LG!Valid(tree.json)
    BY <1>1, <2>1, LedgerContentOfUpdate
  <2>3. lgSupersedes(LG!HEAD.json, tree.json)
    BY <2>2, LedgerAcceptedSupersedes
  <2> HIDE DEF new
  <2>4. /\ lgHistoryOK' /\ commits' \in Seq(lgCommitRecord) /\ Len(commits') = Len(commits) + 1
        /\ \A k \in 1..Len(commits) : commits'[k] = commits[k]
        /\ LG!HEAD' = new
    BY <1>3, <1>6, <2>1, <2>2, <2>3, LedgerHistoryGrows DEF lgGood
  <2>5. Len(commits) \in Nat /\ Len(commits') \in Nat /\ Len(commits) <= Len(commits') /\ Len(commits') # 0
    BY <2>4, LedgerHeadType
  <2>6. lgTypeOK'
    BY <1>1, <1>2, <1>6, <2>4, <2>5 DEF lgTypeOK
  <2>7. ASSUME ~overlap' PROVE lgGood'
    <3>1. \A v \in LedgerUsers : v # u => lgCommandOK(v)' /\ ~lgMoved(v) /\ ~lgMoved(v)'
      <4>1. \A v \in LedgerUsers \ {u} : ~LG!Exposed(v) /\ cmd'[v] = cmd[v]
        BY <1>2, <1>6, <2>7
      <4> QED
        BY <2>4, <2>5, <4>1, LedgerOthersGoOn
    <3>2. lgCopyOK'
      BY <1>1, <1>3, <2>1, <2>2, <2>4 DEF lgCopyOK
    <3>3. lgMockupOK'
      <4> SUFFICES ASSUME ~loose PROVE lgMockupOK'
        BY <1>1 DEF lgMockupOK
      <4>1. \A v \in LedgerUsers : ~lgMoved(v)' /\ ~lgMoved(v)
        BY <1>4, <3>1
      <4>2. lgBase' = lgBase
        BY <1>1, <2>1 DEF lgBase
      <4>3. lgNamed(file)'
        BY <1>1, <4>1, <4>2 DEF lgGood, lgMockupOK, lgNamed, LG!Active, LG!Mockups
      <4> QED
        BY <4>1, <4>3 DEF lgMockupOK
    <3> QED
      BY <1>4, <2>4, <3>1, <3>2, <3>3 DEF lgGood
  <2> QED
    BY <2>6, <2>7
<1> QED
  BY <1>1, <1>5, <1>6
-----------------------------------------------------------------------------
(* The operator writes when no command is at a point where it would be     *)
(* unseen, or nothing is said of what follows.                             *)
LEMMA LedgerOperatorWrites ==
  ASSUME LG!LedgerAssumption, lgIInv, ~overlap, LG!ByOperator, UNCHANGED <<file, cmd, reviewed>>,
         tree' \in [json : SUBSET lgDecision, md : SUBSET lgDecision],
         commits' \in Seq(lgCommitRecord), Len(commits) <= Len(commits'),
         \A k \in 1..Len(commits) : commits'[k] = commits[k],
         byHand' \in BOOLEAN, loose' \in BOOLEAN, loose' = FALSE => loose = FALSE,
         ~overlap' => lgHistoryOK' /\ lgCopyOK',
         ~loose' => LG!Active(lgBase)' = LG!Active(lgBase)
  PROVE  lgIInv'
<1> USE DEF lgIInv
<1>1. Len(commits) \in Nat /\ Len(commits) # 0 /\ Len(commits') \in Nat
  BY DEF lgTypeOK
<1>2. overlap' = (overlap \/ \E v \in LedgerUsers : LG!Exposed(v))
  BY DEF LG!ByOperator
<1>3. lgTypeOK'
  BY <1>1, <1>2 DEF lgTypeOK
<1>4. ASSUME ~overlap' PROVE lgGood'
  <2>1. \A v \in LedgerUsers : ~LG!Exposed(v)
    BY <1>2, <1>4
  <2>2. \A v \in LedgerUsers : lgCommandOK(v)' /\ ~lgMoved(v) /\ ~lgMoved(v)'
    BY <1>1, <2>1, LedgerOthersGoOn
  <2>3. lgMockupOK'
    <3> SUFFICES ASSUME ~loose', ~loose PROVE lgMockupOK'
      BY DEF lgMockupOK
    <3>1. lgNamed(file)
      BY <2>2 DEF lgGood, lgMockupOK
    <3>2. lgNamed(file)'
      BY <3>1 DEF lgNamed
    <3> QED
      BY <2>2, <3>2 DEF lgMockupOK
  <2> QED
    BY <1>4, <2>2, <2>3 DEF lgGood
<1> QED
  BY <1>3, <1>4

(* An edit by hand.                                                        *)
LEMMA LedgerHandEditStep ==
  ASSUME LG!LedgerAssumption, lgIInv, ~overlap, LG!HandEdit
  PROVE  lgIInv'
<1> USE DEF lgIInv
<1>1. /\ ~byHand /\ ~LG!Dirty /\ byHand' = TRUE /\ LG!ByOperator
      /\ UNCHANGED <<commits, file, cmd, reviewed, loose>>
  BY DEF LG!HandEdit
<1>2. PICK f \in {"json", "md"} : tree' = [tree EXCEPT ![f] = {LG!Hand}]
  BY DEF LG!HandEdit
<1>3. {LG!Hand} \in SUBSET lgDecision
  BY DEF lgDecision
<1>4. /\ tree' \in [json : SUBSET lgDecision, md : SUBSET lgDecision]
      /\ \/ tree'.json = {LG!Hand} \/ (tree'.json = tree.json /\ tree'.md = {LG!Hand})
  BY <1>2, <1>3 DEF lgTypeOK
<1>5. tree.json = LG!HEAD.json
  BY <1>1, LedgerBeforeTheWrite
<1>6. lgHistoryOK' /\ LG!HEAD' = LG!HEAD
  BY <1>1 DEF lgGood, lgHistoryOK, lgLedgerOK, lgStepOK, LG!HEAD
<1>7. lgCopyOK'
  <2>1. lgOneMockup({LG!Hand})
    BY DEF lgOneMockup, LG!Mockups
  <2>2. LG!Hand \in tree'.json \cup tree'.md
    BY <1>4
  <2>3. lgOneMockup(tree.json)
    BY DEF lgGood, lgCopyOK
  <2>4. lgOneMockup(tree'.json)
    BY <1>4, <2>1, <2>3
  <2>5. lgOneMockup(tree.json)'
    BY <2>4 DEF lgOneMockup, LG!Mockups
  <2> QED
    BY <1>1, <2>2, <2>5 DEF lgCopyOK
<1>8. LG!Active(lgBase)' = LG!Active(lgBase)
  <2>1. lgBase' = lgBase
    BY <1>1, <1>5, <1>6 DEF lgBase
  <2> QED
    BY <2>1 DEF LG!Active, LG!Mockups
<1>9. /\ commits' \in Seq(lgCommitRecord) /\ Len(commits) <= Len(commits')
      /\ \A k \in 1..Len(commits) : commits'[k] = commits[k]
  BY <1>1, LedgerHeadType DEF lgTypeOK
<1> QED
  BY <1>1, <1>4, <1>6, <1>7, <1>8, <1>9, LedgerOperatorWrites DEF lgTypeOK

(* The changes of the two files thrown away.                               *)
LEMMA LedgerDiscardStep ==
  ASSUME LG!LedgerAssumption, lgIInv, ~overlap, LG!Discard
  PROVE  lgIInv'
<1> USE DEF lgIInv
<1>1. /\ tree' = [json |-> LG!HEAD.json, md |-> LG!HEAD.md] /\ byHand' = FALSE /\ LG!ByOperator
      /\ loose' = (loose \/ LG!Active(tree.json) # LG!Active(LG!HEAD.json))
      /\ UNCHANGED <<commits, file, cmd, reviewed>>
  BY DEF LG!Discard
<1>2. tree' \in [json : SUBSET lgDecision, md : SUBSET lgDecision] /\ tree'.json = LG!HEAD.json /\ tree'.md = LG!HEAD.md
  BY <1>1, LedgerHeadType
<1>3. lgHistoryOK' /\ LG!HEAD' = LG!HEAD
  BY <1>1 DEF lgGood, lgHistoryOK, lgLedgerOK, lgStepOK, LG!HEAD
<1>4. lgCopyOK'
  <2>1. lgOneMockup(LG!HEAD.json) /\ LG!Hand \notin LG!HEAD.json \cup LG!HEAD.md
    BY LedgerHeadType DEF lgGood, lgHistoryOK, lgLedgerOK
  <2>2. lgOneMockup(tree.json)'
    BY <1>2, <2>1 DEF lgOneMockup, LG!Mockups
  <2> QED
    BY <1>1, <1>2, <1>3, <2>1, <2>2 DEF lgCopyOK
<1>5. ASSUME ~loose' PROVE LG!Active(lgBase)' = LG!Active(lgBase)
  <2>1. lgBase' = LG!HEAD.json /\ LG!Active(tree.json) = LG!Active(LG!HEAD.json)
    BY <1>1, <1>2, <1>5 DEF lgBase
  <2>2. LG!Active(lgBase) = LG!Active(LG!HEAD.json)
    BY <2>1 DEF lgBase
  <2> QED
    BY <2>1, <2>2 DEF LG!Active, LG!Mockups
<1>6. loose' \in BOOLEAN /\ (loose' = FALSE => loose = FALSE)
  BY <1>1 DEF lgTypeOK
<1>7. /\ commits' \in Seq(lgCommitRecord) /\ Len(commits) <= Len(commits')
      /\ \A k \in 1..Len(commits) : commits'[k] = commits[k]
  BY <1>1, LedgerHeadType DEF lgTypeOK
<1> QED
  BY <1>1, <1>2, <1>3, <1>4, <1>5, <1>6, <1>7, LedgerOperatorWrites DEF lgTypeOK

(* A commit by hand.                                                       *)
LEMMA LedgerHandCommitStep ==
  ASSUME LG!LedgerAssumption, lgIInv, ~overlap, LG!HandCommit
  PROVE  lgIInv'
<1> USE DEF lgIInv
<1>1. /\ ~byHand /\ LG!ByOperator
      /\ UNCHANGED <<tree, file, cmd, reviewed, byHand, loose>>
  BY DEF LG!HandCommit
<1>2. PICK what \in {[json |-> tree.json, md |-> tree.md], [json |-> LG!HEAD.json, md |-> LG!HEAD.md]} :
        commits' = Append(commits, [json |-> what.json, md |-> what.md, plan |-> LG!NoPlan])
  BY DEF LG!HandCommit
<1> DEFINE new == [json |-> what.json, md |-> what.md, plan |-> LG!NoPlan]
<1>3. LG!HEAD.json \in SUBSET lgDecision /\ LG!HEAD.md \in SUBSET lgDecision /\ lgLedgerOK(Len(commits)) /\ LG!HEAD = commits[Len(commits)]
  BY LedgerHeadType DEF lgGood, lgHistoryOK
<1>4. /\ new \in lgCommitRecord /\ new.json = what.json /\ new.md = what.md /\ new.plan = LG!NoPlan
      /\ what.json \in {LG!HEAD.json, tree.json}
      /\ what.json = LG!HEAD.json \/ what.json = tree.json
  BY <1>3, LedgerPlanType DEF lgTypeOK, lgCommitRecord
<1>5. LG!Valid(LG!HEAD.json) /\ lgOneMockup(LG!HEAD.json) /\ lgSupersedes(LG!HEAD.json, LG!HEAD.json)
  BY <1>3 DEF lgLedgerOK, lgSupersedes
<1>6. LG!Valid(tree.json) /\ lgOneMockup(tree.json) /\ lgSupersedes(LG!HEAD.json, tree.json)
  <2>1. lgOneMockup(tree.json)
    BY DEF lgGood, lgCopyOK
  <2>2. CASE tree.json = LG!HEAD.json
    BY <1>5, <2>1, <2>2
  <2>3. ASSUME NEW update \in SUBSET lgDecision, LG!Accepted(LG!HEAD.json, update), tree.json = LG!Result(LG!HEAD.json, update)
        PROVE  LG!Valid(tree.json) /\ lgSupersedes(LG!HEAD.json, tree.json)
    BY <2>3, LedgerAcceptedSupersedes
  <2> QED
    BY <1>1, <2>1, <2>2, <2>3 DEF lgGood, lgCopyOK
<1>7. LG!Hand \notin what.json \cup what.md
  BY <1>1, <1>3 DEF lgGood, lgCopyOK, lgLedgerOK
<1> HIDE DEF new
<1>8. /\ lgHistoryOK' /\ commits' \in Seq(lgCommitRecord) /\ Len(commits') = Len(commits) + 1
      /\ \A k \in 1..Len(commits) : commits'[k] = commits[k]
      /\ LG!HEAD' = new
  <2>1. commits' = Append(commits, new)
    BY <1>2 DEF new
  <2> QED
    BY <2>1, <1>4, <1>5, <1>6, <1>7, LedgerHistoryGrows DEF lgGood
<1>9. lgCopyOK'
  <2>1. tree.json = LG!HEAD.json \/ \E update \in SUBSET lgDecision :
            LG!Accepted(LG!HEAD.json, update) /\ tree.json = LG!Result(LG!HEAD.json, update)
    BY <1>1 DEF lgGood, lgCopyOK
  <2>2. LG!HEAD'.json = LG!HEAD.json \/ LG!HEAD'.json = tree.json
    BY <1>4, <1>8
  <2>3. /\ lgOneMockup(tree.json)' /\ LG!Hand \notin tree'.json \cup tree'.md
    BY <1>1, <1>6 DEF lgGood, lgCopyOK, lgOneMockup, LG!Mockups
  <2> QED
    BY <1>1, <2>1, <2>2, <2>3 DEF lgCopyOK
<1>10. LG!Active(lgBase)' = LG!Active(lgBase)
  <2>1. lgBase' = lgBase
    BY <1>1 DEF lgBase
  <2> QED
    BY <2>1 DEF LG!Active, LG!Mockups
<1>11. Len(commits) <= Len(commits')
  BY <1>8, LedgerHeadType
<1> QED
  BY <1>1, <1>8, <1>9, <1>10, <1>11, LedgerOperatorWrites DEF lgTypeOK

(* At first the ledger is empty.                                           *)
LEMMA LedgerInitHolds ==
  ASSUME LG!LedgerAssumption, LG!Init
  PROVE  lgIInv
<1> DEFINE first == [json |-> {}, md |-> {}, plan |-> LG!NoPlan]
<1>1. /\ commits = <<first>> /\ tree = [json |-> {}, md |-> {}] /\ file = 0
      /\ cmd = [u \in LedgerUsers |-> LG!Idle] /\ reviewed = [u \in LedgerUsers |-> LG!NoPlan]
      /\ byHand = FALSE /\ overlap = FALSE /\ loose = FALSE
  BY DEF LG!Init
<1>2. LG!NoPlan \in lgPlanRecord
  BY DEF LG!NoPlan, lgPlanRecord
<1>3. LG!Idle \in lgCommandRecord /\ LG!Idle.pc = "idle" /\ LG!Idle.kind = "none"
  BY <1>2 DEF LG!Idle, lgCommandRecord
<1>4. first \in lgCommitRecord
  BY <1>2 DEF lgCommitRecord
<1>5. commits \in Seq(lgCommitRecord) /\ Len(commits) = 1 /\ commits[1] = first /\ LG!HEAD = first
  BY <1>1, <1>4 DEF LG!HEAD, LG!Last
<1>6. lgTypeOK
  <2>1. cmd \in [LedgerUsers -> lgCommandRecord] /\ reviewed \in [LedgerUsers -> lgPlanRecord]
    BY <1>1, <1>2, <1>3
  <2>2. tree \in [json : SUBSET lgDecision, md : SUBSET lgDecision]
    BY <1>1
  <2>3. file \in Nat /\ byHand \in BOOLEAN /\ overlap \in BOOLEAN /\ loose \in BOOLEAN
    BY <1>1
  <2>4. commits \in Seq(lgCommitRecord) /\ Len(commits) # 0
    BY <1>5
  <2> QED
    BY <2>1, <2>2, <2>3, <2>4 DEF lgTypeOK
<1>7. lgLedgerOK(1)
  <2>1. LG!Ids({}) = {} /\ Cardinality({}) = 0
    BY FS_EmptySet DEF LG!Ids
  <2>2. LG!Valid({})
    BY <2>1 DEF LG!Valid
  <2> QED
    BY <1>5, <2>2 DEF lgLedgerOK, lgOneMockup, LG!Mockups
<1>8. lgHistoryOK
  BY <1>5, <1>7 DEF lgHistoryOK
<1>9. lgCopyOK
  BY <1>1, <1>5 DEF lgCopyOK, lgOneMockup, LG!Mockups
<1>10. \A u \in LedgerUsers : lgCommandOK(u) /\ ~lgMoved(u)
  BY <1>1, <1>3 DEF lgCommandOK, lgMoved
<1>11. lgMockupOK
  <2>1. LG!Active({}) = {}
    BY DEF LG!Active, LG!Mockups
  <2>2. lgNamed(file)
    BY <1>1, <2>1 DEF lgNamed, lgBase
  <2> QED
    BY <1>10, <2>2 DEF lgMockupOK
<1> QED
  BY <1>6, <1>8, <1>9, <1>10, <1>11 DEF lgIInv, lgGood

(* Every step of Ledger keeps its invariant.                               *)
LEMMA LedgerStepHolds ==
  ASSUME LG!LedgerAssumption, lgIInv, LG!Next \/ UNCHANGED LG!vars
  PROVE  lgIInv'
<1>1. CASE LG!Next
  BY <1>1, LedgerHandEditStep, LedgerDiscardStep, LedgerHandCommitStep,
     LedgerReadPlanStep, LedgerStartApplyStep, LedgerRegisterStep,
     LedgerCopyStep, LedgerReadStep, LedgerWriteJsonStep, LedgerWriteMdStep, LedgerCommitStep, LedgerKillStep DEF LG!Next
<1>2. CASE UNCHANGED LG!vars
  <2>1. /\ lgTypeOK' <=> lgTypeOK
        /\ \A u \in LedgerUsers : (lgCommandOK(u)' <=> lgCommandOK(u)) /\ (lgMoved(u)' <=> lgMoved(u))
    BY <1>2
    DEF LG!vars, lgTypeOK, lgCommandOK, lgRegisters, LG!Dirty, LG!HEAD,
        LG!Content, lgMoved
  <2>2. lgMockupOK' <=> lgMockupOK
    BY <1>2, <2>1
    DEF LG!vars, lgMockupOK, lgNamed, lgBase, LG!HEAD, LG!Active, LG!Mockups
  <2> QED
    BY <1>2, <2>1, <2>2, LedgerNothingWritten DEF LG!vars, lgIInv, lgGood
<1> QED
  BY <1>1, <1>2

(* What the invariant says of a history, a copy and a mockup at rest.      *)
LEMMA LedgerInvariantSays ==
  ASSUME LG!LedgerAssumption, lgIInv
  PROVE  LG!LedgerKeepsItsWord /\ LG!MockupIsTheOneNamed
<1> USE DEF lgIInv
<1>1. LG!LedgerKeepsItsWord
  <2> SUFFICES ASSUME ~overlap PROVE LG!LedgerKeepsItsWord
    BY DEF LG!LedgerKeepsItsWord
  <2>1. ASSUME NEW k \in 2..Len(commits)
        PROVE  /\ lgLedgerOK(k) /\ lgStepOK(k)
    <3>1. k \in 1..Len(commits)
      BY LedgerHeadType
    <3> QED
      BY <3>1 DEF lgGood, lgHistoryOK
  <2> QED
    BY <2>1
    DEF lgGood, lgCopyOK, LG!LedgerKeepsItsWord, lgLedgerOK, lgStepOK,
        lgSupersedes
<1>2. LG!MockupIsTheOneNamed
  <2> SUFFICES ASSUME ~overlap, ~loose, ~byHand, \A u \in LedgerUsers : cmd[u].pc = "idle"
               PROVE  lgNamed(file) /\ lgBase = tree.json
    BY DEF LG!MockupIsTheOneNamed, lgNamed
  <2>1. \A u \in LedgerUsers : ~lgMoved(u)
    BY DEF lgMoved
  <2> QED
    BY <2>1 DEF lgGood, lgMockupOK, lgBase
<1> QED
  BY <1>1, <1>2
-----------------------------------------------------------------------------
(* What lands on the main branch was proven and its tests repeated, at     *)
(* every step of the commits, the runs and the verifications: psIInv.      *)
THEOREM ScopeHolds == Spec => [](part = "proof" => psIInv)
<1> USE DecisionsAssumption
<1> DEFINE Inv == part = "proof" => psIInv
<1>1. Init => Inv
  BY ProofInitHolds DEF Init, DecisionsAssumption
<1>2. Inv /\ [Next]_vars => Inv'
  BY ProofStepHolds, ProofPart, PartStays DEF DecisionsAssumption
<1> QED
  BY <1>1, <1>2, PTL DEF Spec

(* From the start and at every step: the calls decide from an accepted     *)
(* configuration, and the receipts are those of the calls that ended.      *)
THEOREM ConfigHolds == Spec => [](part = "config" => gcIInv)
<1> USE DecisionsAssumption
<1> DEFINE Inv == part = "config" => gcIInv
<1>1. Init => Inv
  BY ConfigInvariantHolds DEF Init, DecisionsAssumption
<1>2. Inv /\ [Next]_vars => Inv'
  BY ConfigInvariantHolds, ConfigPart, PartStays DEF DecisionsAssumption
<1> QED
  BY <1>1, <1>2, PTL DEF Spec

(* The history, the commands under way, the copy and the mockup agree as   *)
(* long as nobody writes under a command that has read: lgIInv.            *)
THEOREM LedgerHolds == Spec => [](part = "ledger" => lgIInv)
<1> USE DecisionsAssumption
<1> DEFINE Inv == part = "ledger" => lgIInv
<1>1. Init => Inv
  BY LedgerInitHolds DEF Init, DecisionsAssumption
<1>2. Inv /\ [Next]_vars => Inv'
  BY LedgerStepHolds, LedgerPart, PartStays DEF DecisionsAssumption
<1> QED
  BY <1>1, <1>2, PTL DEF Spec

(* Every plan made from an accepted configuration is acyclic and complete, *)
(* whatever was asked, left out or spread: the scheduler takes it.         *)
THEOREM PlansSound == Spec => [](part = "config" => GC!PlansAreSound)
<1>1. (part = "config" => gcIInv) => (part = "config" => GC!PlansAreSound)
  BY DecisionsAssumption, ConfigPlansSound DEF DecisionsAssumption
<1> QED
  BY <1>1, ConfigHolds, PTL

(* What is found proven at a commit ran there, as declared, or was left    *)
(* out by a check that may be.                                             *)
THEOREM ProofsRan == Spec => [](part = "config" => GC!ProvenRan)
<1>1. (part = "config" => gcIInv) => (part = "config" => GC!ProvenRan)
  BY DecisionsAssumption, ConfigProofsRan DEF DecisionsAssumption
<1> QED
  BY <1>1, ConfigHolds, PTL

(* A complete run on a clean tree whose checks passed or were not required *)
(* proves its commit, until another run ends there.                        *)
THEOREM CompleteRunsAreProofs == Spec => [](part = "config" => GC!CompleteRunsProve)
<1>1. (part = "config" => gcIInv) => (part = "config" => GC!CompleteRunsProve)
  BY DecisionsAssumption, ConfigCompleteRunsAreProofs DEF DecisionsAssumption
<1> QED
  BY <1>1, ConfigHolds, PTL

(* MainIsProven of Decisions: the main branch holds nothing a check would  *)
(* read differently from a run of it that passed, no test file that was    *)
(* not repeated; no check runs without what it depends on; and the plans   *)
(* and the proofs of the configurations are what they say.                 *)
THEOREM MainStaysProven == Spec => []MainIsProven
<1>1. (part = "proof" => psIInv) => (part = "proof" => PS!MainIsProven /\ PS!LandedTestsWereRepeated
                                                        /\ PS!NeverWithoutDependencies)
  BY DEF psIInv, psLands, psSound, psProven, PS!MainIsProven,
         PS!LandedTestsWereRepeated
<1> QED
  BY <1>1, ScopeHolds, PlansSound, ProofsRan, CompleteRunsAreProofs, PTL
  DEF MainIsProven

(* LedgerKeepsItsWord of Decisions: nothing leaves the ledger of a commit  *)
(* but superseded as the rules say, a commit of the tool is the plan that  *)
(* was read, no edit by hand is lost, and the mockup it names is its file. *)
THEOREM LedgerWordIsKept == Spec => []LedgerKeepsItsWord
<1>1. (part = "ledger" => lgIInv) => LedgerKeepsItsWord
  BY DecisionsAssumption, LedgerInvariantSays
  DEF LedgerKeepsItsWord, DecisionsAssumption
<1> QED
  BY <1>1, LedgerHolds, PTL
=============================================================================
