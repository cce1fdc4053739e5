---------------------------- MODULE GateRunProofs ----------------------------
(***************************************************************************)
(* Theorems about GateRun for every finite set of calls, every set of      *)
(* worktrees and gates, every retention and every number of changes and    *)
(* deaths.                                                                 *)
(*                                                                         *)
(* The inductive invariant has one part per argument: what a call keeps in *)
(* step (Calls, Identifiers), the queue and the lock (OneSuite), the code  *)
(* under the commands (OnCode) and the proofs they leave (Proofs), the     *)
(* order of the suites (Order), the retention of the shared store          *)
(* (Retention) and what a reading has found so far (Found).                *)
(***************************************************************************)
EXTENDS GateRun, FiniteSetTheorems, TLAPS

Opened(r) == born[r] # 0

(* A call has receipts, a gate in progress and a copy only once it is      *)
(* open, a gate in progress only while it runs, and all the receipts of    *)
(* the gates it selected when it copies them.                              *)
InStep(r) ==
  /\ pc[r] \in {"idle", "queued"} => ~Opened(r)
  /\ Executing(r) => Opened(r)
  /\ pc[r] # "idle" => home[r] \in Worktrees /\ stage[r] \in {"task", "full"}
  /\ pc[r] = "queued" => Suite(r)
  /\ check[r].phase = "none" <=> check[r].gate = None
  /\ check[r].gate # None =>
       pc[r] = "running" /\ check[r].gate \in Selected(r) \ Receipts(r)
  /\ Receipts(r) \subseteq Selected(r)
  /\ ~Opened(r) => Receipts(r) = {} /\ shared[r] = {}
  /\ pc[r] \in {"copying", "pruning", "removing"} => Receipts(r) = Selected(r)
  /\ shared[r] # {} => /\ pc[r] \in {"pruning", "removing", "over"}
                       /\ Receipts(r) = Selected(r) /\ shared[r] \subseteq Files(r)
  /\ \A q \in doomed[r] : Opened(q)
Calls == \A r \in Runs : InStep(r)

(* Identifiers count the calls.                                            *)
Opening == {r \in Runs : Opened(r)}
Identifiers ==
  /\ \A r \in Runs : born[r] <= Cardinality(Opening)
  /\ \A r, q \in Runs : born[r] = born[q] /\ Opened(r) => r = q

(* One suite at a time.                                                    *)
OneSuite ==
  /\ HeldByTheLiving
  /\ \A r \in Runs : Suite(r) /\ Executing(r) => queue = r

(* A commit that was left is never checked out again; in a worktree that   *)
(* is left alone the code stays what the call read.                        *)
OnCode ==
  /\ \A w \in Worktrees : tip[w] <= changes + 1
  /\ \A r \in Runs :
       /\ sha[r] <= changes + 1
       /\ check[r].phase \in {"first", "retry", "repeat"} =>
            check[r].faithful \/ ~OnCandidate(r)
       /\ Executing(r) /\ home[r] \notin Restless => Code(r) = <<sha[r], seen[r]>>

(* The successes that count come from commands that ran on their commit.   *)
Proofs ==
  \A r \in Runs, g \in Gates :
    /\ home[r] \notin Restless /\ ~dirty(r) /\ ~Targeted(r, g)
    /\ g \in Receipts(r) /\ success(receipts[r][g])
    => <<r, g>> \in genuine

(* Of two suites the one that wrote its receipt later started it later.    *)
WrittenBy(g) == {q \in Runs : written[q][g] # 0}
Order ==
  /\ \A r \in Runs, g \in Gates :
       /\ written[r][g] = 0 <=> g \notin Receipts(r)
       /\ written[r][g] <= Cardinality(WrittenBy(g))
  /\ \A r, q \in Runs, g \in Gates :
       Suite(r) /\ Suite(q) /\ g \in Receipts(r) =>
         /\ g \in Receipts(q) /\ written[r][g] < written[q][g] =>
              receipts[r][g].startedAt < receipts[q][g].startedAt
         /\ check[q].gate = g /\ r # q => receipts[r][g].startedAt < check[q].startedAt

(* Whoever was judged in excess, or has lost a file, leaves KeepRuns whole *)
(* copies of more recent runs.                                             *)
Successors(r) == {q \in Runs : Whole(q) /\ born[q] > born[r]}
Retention ==
  /\ \A r \in sharedRunIds : Whole(r) \/ Cardinality(Successors(r)) >= KeepRuns
  /\ \A r \in Runs : \A q \in doomed[r] : Cardinality(Successors(q)) >= KeepRuns

(* A reading has all the receipts of the runs it went through, or none;    *)
(* none only of those that have lost a file, or are of another commit.     *)
Found ==
  verify.pc = "reading" =>
    /\ verify.left \subseteq verify.listed /\ verify.listed \cap verify.local = {}
    /\ verify.run # None =>
         verify.run \in verify.listed \ verify.left /\ sha[verify.run] = verify.commit
    /\ \A r \in verify.listed : /\ pc[r] \in {"pruning", "removing", "over"}
                                /\ Opened(r) /\ Receipts(r) = Selected(r)
    /\ \A e \in verify.found : e[2] \in Receipts(e[1])
    /\ \A r \in Runs \ verify.local :
         \/ \A e \in verify.found : e[1] # r
         \/ r \in verify.listed /\ Evidence({r}) \subseteq verify.found
    /\ \A r \in verify.listed \ (verify.left \cup {verify.run}) :
         Whole(r) /\ sha[r] = verify.commit => Evidence({r}) \subseteq verify.found

IInv ==
  /\ GateRunTypeOK /\ Calls /\ Identifiers /\ OneSuite /\ OnCode /\ Proofs /\ RelaunchOnSameCode
  /\ Order /\ Retention /\ Found

-----------------------------------------------------------------------------
(* Facts about finite sets of numbers.                                     *)

(* A finite set of numbers has a greatest one.                             *)
LEMMA FiniteMax ==
  ASSUME NEW S \in SUBSET Nat, IsFiniteSet(S), S # {}
  PROVE  \E m \in S : \A n \in S : n <= m
<1> DEFINE Bad == {T \in SUBSET S : T # {} /\ \A m \in T : \E n \in T : ~(n <= m)}
<1> SUFFICES ASSUME Bad # {} PROVE FALSE
  OBVIOUS
<1>1. Bad \subseteq FiniteSubsetsOf(S)
  BY FS_FiniteSubsetsOfFinite
<1>2. PICK T \in Bad : \A U \in Bad : ~(<<U, T>> \in StrictSubsetOrdering(S))
  <2> HIDE DEF Bad
  <2> QED
    BY <1>1, FS_StrictSubsetOrderingWellFounded, WFMin
<1>3. PICK x \in T : TRUE
  OBVIOUS
<1>4. T \ {x} \notin Bad
  BY <1>2, <1>3 DEF StrictSubsetOrdering
<1>5. CASE T \ {x} = {}
  BY <1>3, <1>5
<1>6. CASE T \ {x} # {}
  <2>1. PICK m \in T \ {x} : \A n \in T \ {x} : n <= m
    BY <1>4, <1>6
  <2>2. x \in Nat /\ m \in Nat
    OBVIOUS
  <2>3. CASE x <= m
    BY <2>1, <2>3
  <2>4. CASE ~(x <= m)
    BY <2>1, <2>2, <2>4
  <2> QED
    BY <2>3, <2>4
<1> QED
  BY <1>5, <1>6

(* Max is that number.                                                     *)
LEMMA MaxNat ==
  ASSUME NEW S \in SUBSET Nat, IsFiniteSet(S), S # {}
  PROVE  Max(S) \in S /\ \A n \in S : n <= Max(S)
<1>1. \E m \in S : \A n \in S : m >= n
  BY FiniteMax
<1> QED
  BY <1>1 DEF Max

(* The values of a function on a finite set are finitely many.             *)
LEMMA FiniteRange ==
  ASSUME NEW A, IsFiniteSet(A), NEW B, NEW f \in [A -> B]
  PROVE  IsFiniteSet({f[x] : x \in A})
<1>1. f \in Surjection(A, {f[x] : x \in A})
  BY DEF Surjection
<1> QED
  BY <1>1, FS_Surjection

(* The parts of GateRunAssumption the proofs cite.                         *)
LEMMA Given ==
  /\ IsFiniteSet(Runs) /\ Manifest \notin Gates
  /\ FullGates \subseteq Gates /\ Affected \subseteq FullGates
  /\ KeepRuns \in Nat \ {0} /\ MaxChanges \in Nat /\ MaxCrashes \in Nat
  /\ Reader \in Worktrees /\ None \notin Runs \cup Gates
BY GateRunAssumption DEF GateRunAssumption

(* A set of calls is finite, and a larger one does not have fewer.         *)
LEMMA Counting ==
  ASSUME NEW A \in SUBSET Runs, NEW B \in SUBSET Runs, A \subseteq B
  PROVE  /\ IsFiniteSet(A) /\ Cardinality(A) \in Nat /\ Cardinality(B) \in Nat
         /\ Cardinality(A) <= Cardinality(B)
<1>1. IsFiniteSet(B)
  BY Given, FS_Subset
<1> QED
  BY <1>1, FS_Subset, FS_CardinalityType

(* One more call counts for one more.                                      *)
LEMMA CountOneMore ==
  ASSUME NEW A \in SUBSET Runs, NEW r \in Runs, r \notin A
  PROVE  Cardinality(A \cup {r}) = Cardinality(A) + 1 /\ Cardinality(A) \in Nat
BY Given, FS_Subset, FS_AddElement, FS_CardinalityType

(* The gates of a call are gates.                                          *)
LEMMA SelectedGates == \A r : Selected(r) \subseteq Gates
BY Given DEF Selected

(* The values a call begins with.                                         *)
LEMMA Constants ==
  /\ NoReceipt \in Receipt /\ NoReceipt.status = "none" /\ NoReceipt.startedAt = 0
  /\ NoCheck \in Check /\ NoCheck.gate = None /\ NoCheck.phase = "none"
  /\ NoCheck.startedAt = 0 /\ NoCheck.faithful /\ NoCheck.before \in Nat \X Nat
BY DEF NoReceipt, NoCheck, Receipt, Check, Clean

(* A gate starts after all the starts of that gate that can be seen.       *)
LEMMA StartsLast ==
  ASSUME GateRunTypeOK, NEW g \in Gates
  PROVE  /\ StartTime(g) \in Nat
         /\ \A r \in Runs : /\ receipts[r][g].startedAt < StartTime(g)
                            /\ check[r].gate = g => check[r].startedAt < StartTime(g)
<1> DEFINE f == [r \in Runs |-> receipts[r][g].startedAt]
           D == {q \in Runs : check[q].gate = g}
           h == [r \in D |-> check[r].startedAt]
           A == {f[r] : r \in Runs}
           B == {h[r] : r \in D}
           All == {0} \cup A \cup B
<1>1. f \in [Runs -> Nat] /\ h \in [D -> Nat]
  BY DEF GateRunTypeOK, Receipt, Check
<1>2. IsFiniteSet(Runs) /\ IsFiniteSet(D)
  BY Given, FS_Subset
<1>3. IsFiniteSet(A) /\ A \subseteq Nat
  <2> HIDE DEF f
  <2> QED
    BY ZenonT(60), <1>1, <1>2, FiniteRange
<1>4. IsFiniteSet(B) /\ B \subseteq Nat
  <2> HIDE DEF h, D
  <2> QED
    BY <1>1, <1>2, FiniteRange
<1>5. IsFiniteSet(All) /\ All \subseteq Nat /\ All # {}
  <2> HIDE DEF A, B
  <2>1. IsFiniteSet({0})
    BY FS_Singleton
  <2>2. IsFiniteSet({0} \cup A)
    BY <1>3, <2>1, FS_Union
  <2>3. IsFiniteSet({0} \cup A \cup B)
    BY <1>4, <2>2, FS_Union
  <2> QED
    BY <1>3, <1>4, <2>3
<1>6. Max(All) \in Nat /\ \A n \in All : n <= Max(All)
  <2> HIDE DEF All
  <2> QED
    BY <1>5, MaxNat
<1>7. A = {receipts[r][g].startedAt : r \in Runs} /\ B = {check[r].startedAt : r \in D}
  OBVIOUS
<1>8. StartTime(g) = Max(All) + 1
  BY <1>7 DEF StartTime
<1>9. \A r \in Runs : /\ receipts[r][g].startedAt \in A
                      /\ check[r].gate = g => check[r].startedAt \in B
  BY <1>7
<1>10. (\A n \in A : n \in All) /\ (\A n \in B : n \in All)
  OBVIOUS
<1>11. \A r \in Runs : receipts[r][g].startedAt \in Nat /\ check[r].startedAt \in Nat
  BY DEF GateRunTypeOK, Receipt, Check
<1> HIDE DEF A, B, All
<1> QED
  BY <1>6, <1>8, <1>9, <1>10, <1>11

-----------------------------------------------------------------------------
(* What the steps do, call by call.                                        *)

USE DEF world, call, store, history, KeepTheRest, KeepAllButVerify

(* What a call selects, and what counts of it, depends on its stage.       *)
LEMMA SameStage ==
  ASSUME NEW r, stage'[r] = stage[r]
  PROVE  /\ Selected(r)' = Selected(r) /\ Files(r)' = Files(r) /\ Suite(r)' = Suite(r)
         /\ \A g : Targeted(r, g)' = Targeted(r, g)
BY DEF Selected, Files, Suite, Targeted, Manifest

(* Receipts that stay as they are.                                         *)
LEMMA SameReceipts ==
  ASSUME UNCHANGED receipts
  PROVE  /\ \A r : Receipts(r)' = Receipts(r)
         /\ \A R : Evidence(R)' = Evidence(R)
BY DEF Receipts, Evidence, NoReceipt

(* The evidence of a call is its receipts.                                 *)
LEMMA EvidenceOf ==
  \A R : /\ Evidence(R) = {e \in R \X Gates : e[2] \in Receipts(e[1])}
         /\ Evidence(R)' = {e \in R \X Gates : e[2] \in Receipts(e[1])'}
BY DEF Receipts, Evidence, NoReceipt

(* The receipt of gate g of call r is written: it started at time `at`.    *)
Receives(r, g, status, at) ==
  /\ g \in Selected(r) \ Receipts(r)
  /\ receipts' = [receipts EXCEPT ![r][g] = [status |-> status, startedAt |-> at]]
  /\ Stamp(r, g)

(* Only that receipt changes, and it is the last of its gate.              *)
LEMMA Received ==
  ASSUME GateRunTypeOK, NEW r \in Runs, NEW g \in Gates, NEW status \in {"passed", "failed"},
         NEW at \in Nat, Receives(r, g, status, at)
  PROVE  /\ receipts' \in [Runs -> [Gates -> Receipt]]
         /\ written' \in [Runs -> [Gates -> Nat]]
         /\ Receipts(r)' = Receipts(r) \cup {g}
         /\ receipts'[r][g].status = status /\ receipts'[r][g].startedAt = at
         /\ written'[r][g] = Cardinality(WrittenBy(g)) + 1
         /\ Cardinality(WrittenBy(g)) \in Nat
         /\ \A q \in Runs : q # r => Receipts(q)' = Receipts(q)
         /\ \A q \in Runs, h \in Gates :
              q # r \/ h # g => /\ receipts'[q][h] = receipts[q][h]
                                /\ written'[q][h] = written[q][h]
<1>1. Cardinality(WrittenBy(g)) \in Nat
  BY Counting DEF WrittenBy
<1>2. written' = [written EXCEPT ![r][g] = Cardinality(WrittenBy(g)) + 1]
  BY DEF Receives, Stamp, WrittenBy
<1>3. receipts' = [receipts EXCEPT ![r][g] = [status |-> status, startedAt |-> at]]
  BY DEF Receives
<1>4. receipts' \in [Runs -> [Gates -> Receipt]]
  BY <1>3 DEF GateRunTypeOK, Receipt
<1> QED
  BY <1>1, <1>2, <1>3, <1>4 DEF GateRunTypeOK, Receipts, NoReceipt, Receipt

(* The gate g of call r starts, or gets the lock it waited for.            *)
Starts(r, g) ==
  /\ UNCHANGED <<receipts, history>> /\ KeepTheRest
  /\ pc[r] = "running" /\ g \in Selected(r) \ Receipts(r)
  /\ check[r].gate \in {None, g}
  /\ check'[r].gate = g /\ check'[r].phase \in {"waiting", "first"}
  /\ check'[r].startedAt = IF check[r].gate = None THEN StartTime(g) ELSE check[r].startedAt
  /\ check'[r].phase = "first" => check'[r].faithful = OnCandidate(r)
  /\ \A q \in Runs : q # r => check'[q] = check[q]
  /\ check' \in [Runs -> Check]
  /\ lock' = lock \/ (lock' = r /\ g \in Locked)

(* What Execute and GetLock have in common.                                *)
LEMMA Starting ==
  ASSUME GateRunTypeOK, Calls, NEW r \in Runs, (\E g \in Gates : Execute(r, g)) \/ GetLock(r)
  PROVE  \E g \in Gates : Starts(r, g)
<1>1. OnCandidate(r) \in BOOLEAN /\ Code(r) = <<tip[home[r]], tree[home[r]]>>
  BY DEF OnCandidate, Code
<1>2. ASSUME pc[r] = "running" PROVE Code(r) \in Nat \X Nat
  BY <1>1, <1>2 DEF GateRunTypeOK, Calls, InStep
<1>3. ASSUME NEW g \in Gates, NEW n \in Nat, pc[r] = "running", Launch(r, g, n)
      PROVE  /\ check'[r].gate = g /\ check'[r].phase = "first" /\ check'[r].startedAt = n
             /\ check'[r].faithful = OnCandidate(r)
             /\ \A q \in Runs : q # r => check'[q] = check[q]
             /\ check' \in [Runs -> Check]
             /\ lock' = lock \/ (lock' = r /\ g \in Locked)
  <2> DEFINE c == [gate |-> g, phase |-> "first", startedAt |-> n,
                   before |-> IF g \in Repeats THEN Code(r) ELSE NoCheck.before,
                   faithful |-> OnCandidate(r)]
  <2>1. c \in Check
    BY <1>1, <1>2, <1>3, Constants DEF Check
  <2>2. check' = [check EXCEPT ![r] = c] /\ lock' = IF g \in Locked THEN r ELSE lock
    BY <1>3 DEF Launch
  <2>3. /\ c.gate = g /\ c.phase = "first" /\ c.startedAt = n
        /\ c.faithful = OnCandidate(r)
    OBVIOUS
  <2>4. check \in [Runs -> Check]
    BY DEF GateRunTypeOK
  <2> HIDE DEF c
  <2> QED
    BY <2>1, <2>2, <2>3, <2>4
<1>4. ASSUME NEW g \in Gates, Execute(r, g) PROVE Starts(r, g)
  <2>1. StartTime(g) \in Nat /\ check[r].gate = None /\ pc[r] = "running"
    BY <1>4, StartsLast, Constants DEF Execute, Idle
  <2>2. /\ UNCHANGED <<receipts, history>> /\ KeepTheRest
        /\ g \in Selected(r) \ Receipts(r)
    BY <1>4 DEF Execute
  <2>3. CASE Launch(r, g, StartTime(g))
    BY <1>3, <2>1, <2>2, <2>3 DEF Starts
  <2>4. CASE ~Launch(r, g, StartTime(g))
    <3> DEFINE c == [NoCheck EXCEPT !.gate = g, !.phase = "waiting",
                                    !.startedAt = StartTime(g)]
    <3>1. check' = [check EXCEPT ![r] = c] /\ lock' = lock
      BY <1>4, <2>4 DEF Execute
    <3>2. c \in Check /\ c.gate = g /\ c.phase = "waiting" /\ c.startedAt = StartTime(g)
      BY <2>1 DEF NoCheck, Check, Clean
    <3>3. check \in [Runs -> Check]
      BY DEF GateRunTypeOK
    <3> HIDE DEF c
    <3> QED
      BY <2>1, <2>2, <3>1, <3>2, <3>3 DEF Starts
  <2> QED
    BY <2>3, <2>4
<1>5. ASSUME GetLock(r) PROVE Starts(r, check[r].gate) /\ check[r].gate \in Gates
  <2>1. pc[r] = "running" /\ check[r].phase = "waiting"
    BY <1>5 DEF GetLock, Waiting
  <2>2. /\ check[r].gate # None /\ check[r].startedAt \in Nat
        /\ check[r].gate \in Selected(r) \ Receipts(r) /\ check[r].gate \in Gates
    BY <2>1 DEF GateRunTypeOK, Check, Calls, InStep
  <2>3. Launch(r, check[r].gate, check[r].startedAt)
    BY <1>5 DEF GetLock
  <2> QED
    BY <1>3, <1>5, <2>1, <2>2, <2>3 DEF GetLock, Starts
<1> QED
  BY <1>4, <1>5

(* The gate in progress goes on with a relaunch or a repetition.           *)
GoesOn(r) ==
  /\ UNCHANGED <<receipts, lock, history>> /\ KeepTheRest
  /\ pc[r] = "running" /\ check[r].phase \in {"first", "retry"}
  /\ check'[r].gate = check[r].gate /\ check'[r].startedAt = check[r].startedAt
  /\ check'[r].phase \in {"retry", "repeat"}
  /\ check'[r].phase = "retry" => SameCode(r)
  /\ check'[r].faithful = (check[r].faithful /\ OnCandidate(r))
  /\ \A q \in Runs : q # r => check'[q] = check[q]
  /\ check' \in [Runs -> Check]

(* The gate in progress ends with its receipt.                             *)
Ends(r, status) ==
  /\ KeepTheRest
  /\ pc[r] = "running" /\ check[r].phase # "none"
  /\ check[r].gate \in Gates /\ check[r].startedAt \in Nat
  /\ Receives(r, check[r].gate, status, check[r].startedAt)
  /\ check'[r].gate = None /\ check'[r].phase = "none"
  /\ \A q \in Runs : q # r => check'[q] = check[q]
  /\ check' \in [Runs -> Check]
  /\ lock' = IF lock = r THEN None ELSE lock
  /\ genuine \subseteq genuine' /\ genuine' \subseteq Runs \X Gates
  /\ status = "passed" /\ check[r].faithful /\ OnCandidate(r)
       /\ ~Targeted(r, check[r].gate)
     => <<r, check[r].gate>> \in genuine'
  /\ status = "passed" => check[r].phase \in {"first", "retry", "repeat"}

(* What the ends of a command, and of the wait for its lock, do.           *)
LEMMA Ending ==
  ASSUME GateRunTypeOK, Calls, NEW r \in Runs,
         EndFirst(r) \/ EndRetry(r) \/ EndRepeat(r) \/ LockRefused(r)
  PROVE  GoesOn(r) \/ \E status \in {"passed", "failed"} : Ends(r, status)
<1>1. /\ KeepTheRest /\ pc[r] = "running"
      /\ check[r].phase \in {"waiting", "first", "retry", "repeat"}
  BY DEF EndFirst, EndRetry, EndRepeat, LockRefused, Waiting
<1>2. /\ check[r] \in Check /\ check[r].gate \in Gates /\ check[r].startedAt \in Nat
      /\ check[r].gate \in Selected(r) \ Receipts(r)
  BY <1>1 DEF GateRunTypeOK, Check, Calls, InStep
<1>3. ASSUME NEW status \in {"passed", "failed"}, Write(r, status),
             status = "passed" => check[r].phase # "waiting"
      PROVE  Ends(r, status)
  <2>1. check' = [check EXCEPT ![r] = NoCheck]
    BY <1>3 DEF Write
  <2>2. Receives(r, check[r].gate, status, check[r].startedAt)
    BY <1>2, <1>3 DEF Write, Receives
  <2>3. /\ genuine \subseteq genuine' /\ genuine' \subseteq Runs \X Gates
        /\ status = "passed" /\ check[r].faithful /\ OnCandidate(r)
             /\ ~Targeted(r, check[r].gate)
           => <<r, check[r].gate>> \in genuine'
    BY <1>2, <1>3 DEF Write, GateRunTypeOK
  <2>4. lock' = IF lock = r THEN None ELSE lock
    BY <1>3 DEF Write
  <2> QED
    BY <1>1, <1>2, <1>3, <2>1, <2>2, <2>3, <2>4, Constants DEF Ends, GateRunTypeOK
<1>4. ASSUME NEW p \in {"retry", "repeat"}, p = "retry" => SameCode(r),
             check[r].phase \in {"first", "retry"},
             check' = [check EXCEPT ![r].phase = p, ![r].faithful = @ /\ OnCandidate(r)],
             UNCHANGED <<receipts, lock, history>>
      PROVE  GoesOn(r)
  <2> DEFINE c == [check[r] EXCEPT !.phase = p, !.faithful = @ /\ OnCandidate(r)]
  <2>1. check' = [check EXCEPT ![r] = c]
    BY <1>4 DEF GateRunTypeOK
  <2>2. /\ c \in Check /\ c.gate = check[r].gate /\ c.startedAt = check[r].startedAt
        /\ c.phase = p /\ c.faithful = (check[r].faithful /\ OnCandidate(r))
    BY <1>2, Zenon DEF Check
  <2>3. check \in [Runs -> Check]
    BY DEF GateRunTypeOK
  <2> HIDE DEF c
  <2> QED
    BY ZenonT(60), <1>1, <1>4, <2>1, <2>2, <2>3 DEF GoesOn
<1>5. ASSUME NEW outcome \in Outcomes, AfterMain(r, outcome),
             check[r].phase \in {"first", "retry"}
      PROVE  GoesOn(r) \/ \E status \in {"passed", "failed"} : Ends(r, status)
  BY <1>3, <1>4, <1>5 DEF AfterMain
<1>6. CASE EndFirst(r)
  <2>1. PICK outcome \in Outcomes :
          IF outcome = "failed" /\ check[r].gate \in Retries
          THEN IF SameCode(r)
               THEN /\ check' = [check EXCEPT ![r].phase = "retry",
                                   ![r].faithful = @ /\ OnCandidate(r)]
                    /\ UNCHANGED <<receipts, lock, history>>
               ELSE AfterMain(r, "failed")
          ELSE AfterMain(r, outcome)
    BY <1>6 DEF EndFirst
  <2>2. check[r].phase \in {"first", "retry"} /\ "failed" \in Outcomes
    BY <1>6 DEF EndFirst, Outcomes
  <2> QED
    BY <1>4, <1>5, <2>1, <2>2
<1>7. CASE EndRetry(r)
  BY <1>5, <1>7 DEF EndRetry
<1>8. CASE EndRepeat(r)
  BY <1>3, <1>8 DEF EndRepeat
<1>9. CASE LockRefused(r)
  BY <1>3, <1>9 DEF LockRefused
<1> QED
  BY <1>6, <1>7, <1>8, <1>9

(* A gate that will not run gets its receipt.                              *)
LEMMA Blocking ==
  ASSUME GateRunTypeOK, NEW r \in Runs, NEW g \in Gates, Block(r, g)
  PROVE  /\ UNCHANGED <<check, lock, genuine>> /\ KeepTheRest /\ pc[r] = "running"
         /\ check[r].gate = None /\ StartTime(g) \in Nat
         /\ Receives(r, g, "failed", StartTime(g))
BY StartsLast, Constants DEF Block, Receives, Idle

-----------------------------------------------------------------------------
(* The values of the variables, and what a call keeps in step.             *)

(* A reading ends or goes on with values of its kinds.                     *)
LEMMA ReadingStep ==
  ASSUME GateRunTypeOK, (\E c \in {sha[r] : r \in Runs} \ {0} : StartReading(c))
                   \/ OpenManifest \/ ReadFiles \/ Report
  PROVE  KeepAllButVerify /\ verify' \in Reading
<1>1. KeepAllButVerify
  BY DEF StartReading, OpenManifest, ReadFiles, Report
<1>2. ASSUME NEW c \in {sha[r] : r \in Runs} \ {0}, StartReading(c)
      PROVE  verify' \in Reading
  <2>1. c \in Nat
    BY DEF GateRunTypeOK
  <2>2. Evidence(LocalRuns) \in SUBSET (Runs \X Gates)
    BY DEF Evidence, LocalRuns
  <2>3. LocalRuns \in SUBSET Runs /\ sharedRunIds \in SUBSET Runs
    BY DEF LocalRuns, sharedRunIds
  <2> QED
    BY <1>2, <2>1, <2>2, <2>3 DEF StartReading, Reading
<1>3. CASE OpenManifest
  <2>1. verify \in Reading
    BY DEF GateRunTypeOK
  <2>2. PICK r \in verify.left, u \in Runs \cup {None} :
          verify' = [verify EXCEPT !.left = @ \ {r}, !.run = u]
    BY <1>3 DEF OpenManifest, GateRunTypeOK, Reading
  <2> QED
    BY <1>1, <2>1, <2>2 DEF Reading
<1>4. CASE ReadFiles
  <2>1. verify \in Reading /\ verify.run \in Runs
    BY <1>4 DEF ReadFiles, GateRunTypeOK, Reading
  <2>2. {e \in Evidence({verify.run}) : e[2] \in shared[verify.run]} \in SUBSET (Runs \X Gates)
    BY <2>1 DEF Evidence
  <2> QED
    BY <1>4, <2>1, <2>2 DEF ReadFiles, Reading
<1>5. CASE Report
  BY <1>5 DEF Report, NotReading, Reading
<1> QED
  BY <1>1, <1>2, <1>3, <1>4, <1>5

(* Every step gives every variable a value of its kind.                    *)
LEMMA TypeStep ==
  ASSUME GateRunTypeOK, Calls, [GateRunNext]_gateRunVars
  PROVE  GateRunTypeOK'
<1>1. Cardinality({q \in Runs : born[q] # 0}) + 1 \in Nat
  BY Counting
<1>2. ASSUME NEW w \in Worktrees, Edit(w) \/ CommitAll(w) PROVE GateRunTypeOK'
  <2>1. changes' \in 0..MaxChanges /\ changes' = changes + 1 /\ changes \in Nat
    BY <1>2, Given DEF Edit, CommitAll, MayChange, GateRunTypeOK
  <2>2. changes' \in Nat /\ changes' + 1 \in Nat \ {0}
    BY <2>1
  <2>3. tip \in [Worktrees -> Nat \ {0}] /\ tree \in [Worktrees -> Nat]
    BY DEF GateRunTypeOK
  <2>4. \/ tip' = tip /\ tree' = [tree EXCEPT ![w] = changes']
        \/ tip' = [tip EXCEPT ![w] = changes' + 1] /\ tree' = [tree EXCEPT ![w] = 0]
    BY <1>2 DEF Edit, CommitAll, Clean
  <2>5. tip' \in [Worktrees -> Nat \ {0}] /\ tree' \in [Worktrees -> Nat]
    BY <2>2, <2>3, <2>4
  <2> QED
    BY <1>2, <2>1, <2>5 DEF Edit, CommitAll, GateRunTypeOK
<1>3. ASSUME NEW r \in Runs, NEW w \in Worktrees, NEW s \in {"task", "full"},
             NEW allow \in BOOLEAN, Start(r, w, s, allow)
      PROVE  GateRunTypeOK'
  <2>1. /\ home' \in [Runs -> Worktrees \cup {None}]
        /\ stage' \in [Runs -> {"task", "full", None}] /\ sha' \in [Runs -> Nat]
    BY <1>3 DEF Start, GateRunTypeOK
  <2>2. /\ pc' \in [Runs -> Stages] /\ allowDirty' \in [Runs -> BOOLEAN]
        /\ seen' \in [Runs -> Nat] /\ born' \in [Runs -> Nat]
        /\ queue' \in Runs \cup {None}
    <3>1. CASE Open(r, w) /\ queue' \in {queue, r}
      BY <1>1, <3>1 DEF Open, GateRunTypeOK, Stages
    <3>2. CASE Refuse(r)
      BY <3>2 DEF Refuse, GateRunTypeOK, Stages
    <3>3. CASE Take(r, w, allow) /\ queue # None
      <4>1. allowDirty' = [allowDirty EXCEPT ![r] = allow] /\ allowDirty \in [Runs -> BOOLEAN]
        BY <3>3 DEF Take, GateRunTypeOK
      <4>2. allowDirty' \in [Runs -> BOOLEAN]
        BY <4>1, Zenon
      <4> QED
        BY <3>3, <4>2 DEF Take, GateRunTypeOK, Stages
    <3> QED
      BY <1>3, <3>1, <3>2, <3>3 DEF Start, Take
  <2> QED
    BY <1>3, <2>1, <2>2 DEF Start, GateRunTypeOK
<1>4. ASSUME NEW r \in Runs, Enter(r) PROVE GateRunTypeOK'
  <2>1. home[r] \in Worktrees
    BY <1>4 DEF Enter, Calls, InStep
  <2>2. CASE Refuse(r)
    BY <1>4, <2>2 DEF Enter, Refuse, GateRunTypeOK, Stages
  <2>3. CASE Open(r, home[r]) /\ queue' = r
    <3>1. /\ pc' \in [Runs -> Stages] /\ allowDirty' \in [Runs -> BOOLEAN]
          /\ seen' \in [Runs -> Nat] /\ born' \in [Runs -> Nat]
      BY <1>1, <2>1, <2>3 DEF Open, GateRunTypeOK, Stages
    <3> QED
      BY <1>4, <2>3, <3>1 DEF Enter, GateRunTypeOK
  <2> QED
    BY <1>4, <2>2, <2>3 DEF Enter
<1>5. ASSUME NEW r \in Runs,
             QueueTimeout(r) \/ Finish(r) \/ CopyFails(r) \/ EndPrune(r)
      PROVE  GateRunTypeOK'
  BY <1>5 DEF QueueTimeout, Finish, CopyFails, EndPrune, Leave, GateRunTypeOK, Stages
<1>6. ASSUME NEW r \in Runs, NEW g \in Gates, Starts(r, g) PROVE GateRunTypeOK'
  BY <1>6 DEF Starts, GateRunTypeOK
<1>7. ASSUME NEW r \in Runs, GoesOn(r) PROVE GateRunTypeOK'
  BY <1>7 DEF GoesOn, GateRunTypeOK
<1>8. ASSUME NEW r \in Runs, NEW status \in {"passed", "failed"}, Ends(r, status)
      PROVE  GateRunTypeOK'
  <2>1. /\ receipts' \in [Runs -> [Gates -> Receipt]]
        /\ written' \in [Runs -> [Gates -> Nat]]
    BY <1>8, Received DEF Ends
  <2> QED
    BY <1>8, <2>1 DEF Ends, GateRunTypeOK
<1>9. ASSUME NEW r \in Runs, NEW g \in Gates, Block(r, g) PROVE GateRunTypeOK'
  <2>1. /\ receipts' \in [Runs -> [Gates -> Receipt]]
        /\ written' \in [Runs -> [Gates -> Nat]]
    BY <1>9, Blocking, Received
  <2> QED
    BY <1>9, <2>1, Blocking DEF GateRunTypeOK
<1>10. ASSUME NEW r \in Runs, Publish(r) PROVE GateRunTypeOK'
  <2>1. Files(r) \in SUBSET (Gates \cup {Manifest})
    BY SelectedGates DEF Files
  <2> QED
    BY <1>10, <2>1 DEF Publish, GateRunTypeOK, Stages
<1>11. ASSUME NEW r \in Runs, PruneStore(r) PROVE GateRunTypeOK'
  <2>1. Excess \in SUBSET Runs
    BY DEF Excess, sharedRunIds
  <2> QED
    BY <1>11, <2>1 DEF PruneStore, GateRunTypeOK, Stages
<1>12. ASSUME NEW r \in Runs, Remove(r) PROVE GateRunTypeOK'
  BY <1>12 DEF Remove, GateRunTypeOK
<1>13. ASSUME NEW r \in Runs, Crash(r) PROVE GateRunTypeOK'
  <2>1. check' \in [Runs -> Check]
    BY <1>13, Constants DEF Crash, GateRunTypeOK
  <2> QED
    BY <1>13, <2>1, Given DEF Crash, GateRunTypeOK, Stages
<1>14. ASSUME (\E c \in {sha[r] : r \in Runs} \ {0} : StartReading(c))
                \/ OpenManifest \/ ReadFiles \/ Report
       PROVE  GateRunTypeOK'
  BY <1>14, ReadingStep DEF GateRunTypeOK
<1>15. CASE UNCHANGED gateRunVars
  BY <1>15 DEF gateRunVars, GateRunTypeOK
<1> QED
  BY <1>2, <1>3, <1>4, <1>5, <1>6, <1>7, <1>8, <1>9, <1>10, <1>11, <1>12, <1>13,
     <1>14,
     <1>15, Starting, Ending DEF GateRunNext


-----------------------------------------------------------------------------
(* What a call keeps in step.                                              *)

(* Call r starts in worktree w, or leaves the queue there.                 *)
Comes(r, w) ==
  /\ UNCHANGED <<world, check, receipts, lock, store, crashes, verify, history>>
  /\ pc[r] \in {"idle", "queued"}
  /\ home'[r] = w /\ stage'[r] \in {"task", "full"}
  /\ \A q \in Runs : q # r => /\ pc'[q] = pc[q] /\ home'[q] = home[q]
                              /\ stage'[q] = stage[q] /\ sha'[q] = sha[q]
                              /\ seen'[q] = seen[q] /\ born'[q] = born[q]
  /\ \/ /\ pc'[r] = "running"
        /\ sha'[r] = tip[w] /\ seen'[r] = tree[w]
        /\ born'[r] = Cardinality(Opening) + 1
        /\ IF stage'[r] = "full" THEN queue = None /\ queue' = r ELSE queue' = queue
     \/ /\ pc'[r] \in {"queued", "over"} /\ stage'[r] = "full"
        /\ sha'[r] \in {sha[r], tip[w]}
        /\ born'[r] = born[r] /\ queue' = queue

(* A call that starts comes.                                               *)
LEMMA StartComes ==
  ASSUME GateRunTypeOK, NEW r \in Runs, NEW w \in Worktrees, NEW s \in {"task", "full"},
         NEW allow \in BOOLEAN, Start(r, w, s, allow)
  PROVE  Comes(r, w)
<1>1. {q \in Runs : born[q] # 0} = Opening
  BY DEF Opening, Opened
<1>2. /\ UNCHANGED <<world, check, receipts, lock, store, crashes, verify, history>>
      /\ pc[r] = "idle" /\ home'[r] = w /\ stage'[r] = s /\ sha'[r] = tip[w]
      /\ \A q \in Runs : q # r => /\ home'[q] = home[q] /\ stage'[q] = stage[q]
                                  /\ sha'[q] = sha[q]
  BY DEF Start, GateRunTypeOK
<1>3. CASE /\ Open(r, w)
           /\ s = "full" => queue = None /\ queue' = r
           /\ s = "task" => queue' = queue
  BY <1>1, <1>2, <1>3 DEF Open, GateRunTypeOK, Comes
<1>4. CASE Refuse(r) /\ s = "full"
  BY <1>2, <1>4 DEF Refuse, GateRunTypeOK, Comes
<1>5. CASE Take(r, w, allow) /\ queue # None /\ s = "full"
  BY <1>2, <1>5 DEF Take, GateRunTypeOK, Comes
<1> QED
  BY <1>3, <1>4, <1>5 DEF Start, Take

(* A call that leaves the queue comes.                                     *)
LEMMA EnterComes ==
  ASSUME GateRunTypeOK, Calls, NEW r \in Runs, Enter(r)
  PROVE  home[r] \in Worktrees /\ Comes(r, home[r])
<1>1. {q \in Runs : born[q] # 0} = Opening
  BY DEF Opening, Opened
<1>2. home[r] \in Worktrees /\ stage[r] = "full" /\ pc[r] = "queued"
  BY DEF Enter, Calls, InStep, Suite
<1>3. CASE Refuse(r)
  BY <1>2, <1>3 DEF Enter, Refuse, GateRunTypeOK, Comes
<1>4. CASE ~ChangedMeanwhile(r) /\ Open(r, home[r]) /\ queue' = r
  BY <1>1, <1>2, <1>4 DEF Enter, Open, ChangedMeanwhile, GateRunTypeOK, Comes
<1> QED
  BY <1>2, <1>3, <1>4 DEF Enter

(* A call that comes had left nothing, and opens once.                     *)
LEMMA ComesNew ==
  ASSUME GateRunTypeOK, Calls, NEW r \in Runs, NEW w \in Worktrees, Comes(r, w)
  PROVE  /\ ~Opened(r) /\ Receipts(r) = {} /\ shared[r] = {} /\ doomed[r] \subseteq Opening
         /\ check[r].gate = None /\ check[r].phase = "none"
         /\ \A q \in Runs : Receipts(q)' = Receipts(q) /\ (Opened(q) => Opened(q)')
         /\ \A q \in Runs : q # r => /\ Opened(q)' = Opened(q) /\ Selected(q)' = Selected(q)
                                     /\ Files(q)' = Files(q) /\ Suite(q)' = Suite(q)
         /\ Executing(r)' <=> pc'[r] = "running"
         /\ pc'[r] = "running" => Opened(r)'
         /\ pc'[r] # "running" => ~Opened(r)'
<1>1. Cardinality(Opening) \in Nat
  BY Counting DEF Opening
<1>2. \A q \in Runs : Receipts(q)' = Receipts(q)
  BY SameReceipts DEF Comes
<1>3. \A q \in Runs : q # r => /\ Selected(q)' = Selected(q)
                               /\ Files(q)' = Files(q) /\ Suite(q)' = Suite(q)
  BY SameStage DEF Comes
<1>4. InStep(r) /\ doomed[r] \in SUBSET Runs
  BY DEF Calls, GateRunTypeOK
<1> QED
  BY <1>1, <1>2, <1>3, <1>4 DEF Comes, InStep, Opened, Opening, Executing

(* A call that nothing of which changes stays in step.                     *)
LEMMA StaysInStep ==
  ASSUME NEW q \in Runs, InStep(q), pc'[q] = pc[q], home'[q] = home[q], stage'[q] = stage[q],
         check'[q] = check[q], Receipts(q)' = Receipts(q), shared'[q] = shared[q],
         doomed'[q] = doomed[q], born'[q] = born[q],
         \A x \in doomed[q] : Opened(x) => Opened(x)'
  PROVE  InStep(q)'
BY SameStage DEF InStep, Opened, Executing

(* Every step keeps the calls in step.                                     *)
LEMMA CallsStep ==
  ASSUME GateRunTypeOK, Calls, [GateRunNext]_gateRunVars
  PROVE  Calls'
<1> SUFFICES ASSUME NEW q \in Runs PROVE InStep(q)'
  BY DEF Calls
<1>1. InStep(q) /\ doomed[q] \in SUBSET Runs
  BY DEF Calls, GateRunTypeOK
<1>2. CASE UNCHANGED <<pc, home, stage, check, receipts, shared, doomed, born>>
  BY <1>1, <1>2, SameReceipts, StaysInStep DEF Opened
<1>3. ASSUME NEW r \in Runs, NEW w \in Worktrees, Comes(r, w) PROVE InStep(q)'
  <2>1. CASE q = r
    <3>1. /\ shared'[r] = {} /\ doomed'[r] = doomed[r] /\ check'[r] = check[r]
          /\ pc'[r] \in {"queued", "running", "over"}
          /\ pc'[r] = "queued" => Suite(r)'
          /\ home'[r] \in Worktrees /\ stage'[r] \in {"task", "full"}
      BY <1>3, ComesNew DEF Comes, Suite
    <3>2. \A x \in doomed[r] : Opened(x)'
      BY <1>3, ComesNew DEF Opening
    <3> QED
      BY <1>3, <2>1, <3>1, <3>2, ComesNew DEF InStep
  <2>2. CASE q # r
    BY <1>1, <1>3, <2>2, ComesNew, StaysInStep DEF Comes
  <2> QED
    BY <2>1, <2>2
<1>4. ASSUME NEW r \in Runs, QueueTimeout(r) \/ Finish(r) \/ CopyFails(r) PROVE InStep(q)'
  <2>1. /\ UNCHANGED <<home, stage, check, receipts, shared, doomed, born>>
        /\ \A x \in Runs : x # r => pc'[x] = pc[x]
        /\ \/ pc[r] \in {"queued", "copying"} /\ pc'[r] = "over"
           \/ /\ pc[r] = "running" /\ pc'[r] = "copying"
              /\ Receipts(r) = Selected(r) /\ check[r].gate = None
    BY <1>4, Constants DEF QueueTimeout, Finish, CopyFails, Leave, Idle, GateRunTypeOK
  <2>2. CASE q = r
    BY <1>1, <2>1, <2>2, SameReceipts, SameStage DEF InStep, Opened, Executing
  <2>3. CASE q # r
    BY <1>1, <2>1, <2>3, SameReceipts, StaysInStep DEF Opened
  <2> QED
    BY <2>2, <2>3
<1>5. ASSUME NEW r \in Runs, NEW g \in Gates, Starts(r, g) PROVE InStep(q)'
  <2>1. CASE q = r
    BY <1>1, <1>5, <2>1, Given, SameReceipts, SameStage
       DEF Starts, InStep, Opened, Executing
  <2>2. CASE q # r
    BY <1>1, <1>5, <2>2, SameReceipts, StaysInStep DEF Starts, Opened
  <2> QED
    BY <2>1, <2>2
<1>6. ASSUME NEW r \in Runs, GoesOn(r) PROVE InStep(q)'
  <2>1. CASE q = r
    BY <1>1, <1>6, <2>1, SameReceipts, SameStage
    DEF GoesOn, InStep, Opened, Executing
  <2>2. CASE q # r
    BY <1>1, <1>6, <2>2, SameReceipts, StaysInStep DEF GoesOn, Opened
  <2> QED
    BY <2>1, <2>2
<1>7. ASSUME NEW r \in Runs, NEW g \in Gates, NEW status \in {"passed", "failed"},
             NEW at \in Nat, Receives(r, g, status, at), KeepTheRest, pc[r] = "running",
             check'[r].gate = None, check'[r].phase = "none",
             \A x \in Runs : x # r => check'[x] = check[x]
      PROVE  InStep(q)'
  <2>1. CASE q = r
    <3>1. Receipts(r)' = Receipts(r) \cup {g} /\ g \in Selected(r)
      BY <1>7, Received DEF Receives
    <3> QED
      BY <1>1, <1>7, <2>1, <3>1, SameStage DEF InStep, Opened, Executing
  <2>2. CASE q # r
    BY <1>1, <1>7, <2>2, Received, StaysInStep DEF Opened
  <2> QED
    BY <2>1, <2>2
<1>8. ASSUME NEW r \in Runs, NEW status \in {"passed", "failed"}, Ends(r, status)
      PROVE  InStep(q)'
  BY <1>7, <1>8 DEF Ends
<1>9. ASSUME NEW r \in Runs, NEW g \in Gates, Block(r, g) PROVE InStep(q)'
  <2>1. InStep(r)
    BY DEF Calls
  <2> QED
    BY <1>7, <1>9, <2>1, Blocking DEF InStep
<1>10. ASSUME NEW r \in Runs, Publish(r) PROVE InStep(q)'
  <2>1. CASE q = r
    BY <1>1, <1>10, <2>1, SameReceipts, SameStage
       DEF Publish, InStep, Opened, Executing, GateRunTypeOK
  <2>2. CASE q # r
    BY <1>1, <1>10, <2>2, SameReceipts, StaysInStep DEF Publish, Opened, GateRunTypeOK
  <2> QED
    BY <2>1, <2>2
<1>11. ASSUME NEW r \in Runs, PruneStore(r) PROVE InStep(q)'
  <2>1. CASE q = r
    <3>1. \A x \in Excess : Opened(x) /\ x \in Runs
      BY DEF Excess, sharedRunIds, Calls, InStep
    <3> QED
      BY <1>1, <1>11, <2>1, <3>1, SameReceipts, SameStage
         DEF PruneStore, InStep, Opened, Executing, GateRunTypeOK
  <2>2. CASE q # r
    BY <1>1, <1>11, <2>2, SameReceipts, StaysInStep DEF PruneStore, Opened, GateRunTypeOK
  <2> QED
    BY <2>1, <2>2
<1>12. ASSUME NEW r \in Runs, Remove(r) PROVE InStep(q)'
  <2>1. /\ UNCHANGED <<pc, home, stage, check, receipts, doomed, born>>
        /\ shared'[q] \subseteq shared[q]
    BY <1>12 DEF Remove, GateRunTypeOK
  <2> QED
    BY <1>1, <2>1, SameReceipts, SameStage DEF InStep, Opened, Executing
<1>13. ASSUME NEW r \in Runs, EndPrune(r) \/ Crash(r) PROVE InStep(q)'
  <2>1. /\ UNCHANGED <<home, stage, receipts, shared, born>>
        /\ pc[r] \in {"queued", "running", "copying", "pruning", "removing"}
        /\ pc'[r] = "over" /\ doomed'[r] = {}
        /\ check'[r].gate = None /\ check'[r].phase = "none"
        /\ \A x \in Runs : x # r => /\ pc'[x] = pc[x] /\ check'[x] = check[x]
                                    /\ doomed'[x] = doomed[x]
    BY <1>13, Constants DEF EndPrune, Crash, Leave, GateRunTypeOK, Calls, InStep
  <2>2. CASE q = r
    BY <1>1, <2>1, <2>2, SameReceipts, SameStage DEF InStep, Opened, Executing
  <2>3. CASE q # r
    BY <1>1, <2>1, <2>3, SameReceipts, StaysInStep DEF Opened
  <2> QED
    BY <2>2, <2>3
<1>14. ASSUME NEW w \in Worktrees, Edit(w) \/ CommitAll(w)
       PROVE  UNCHANGED <<pc, home, stage, check, receipts, shared, doomed, born>>
  BY <1>14 DEF Edit, CommitAll
<1>15. ASSUME (\E c \in {sha[r] : r \in Runs} \ {0} : StartReading(c))
                \/ OpenManifest \/ ReadFiles \/ Report
       PROVE  UNCHANGED <<pc, home, stage, check, receipts, shared, doomed, born>>
  BY <1>15, ReadingStep
<1>16. CASE UNCHANGED gateRunVars
  BY <1>2, <1>16 DEF gateRunVars
<1> QED
  BY <1>2, <1>3, <1>4, <1>5, <1>6, <1>8, <1>9, <1>10, <1>11, <1>12, <1>13,
     <1>14, <1>15,
     <1>16, Starting, Ending, StartComes, EnterComes DEF GateRunNext

-----------------------------------------------------------------------------
(* Identifiers, the queue and the lock.                                    *)

(* What a call is made of changes only when it comes.                      *)
LEMMA OnlyComing ==
  ASSUME GateRunTypeOK, Calls, [GateRunNext]_gateRunVars
  PROVE  \/ UNCHANGED <<home, stage, sha, seen, born>>
         \/ \E r \in Runs, w \in Worktrees : Comes(r, w)
<1>1. ASSUME NEW r \in Runs,
             \/ QueueTimeout(r) \/ Finish(r) \/ Publish(r) \/ CopyFails(r) \/ PruneStore(r)
             \/ Remove(r) \/ EndPrune(r) \/ Crash(r)
      PROVE  UNCHANGED <<home, stage, sha, seen, born>>
  BY <1>1
  DEF QueueTimeout, Finish, Publish, CopyFails, PruneStore, Remove, EndPrune,
      Crash
<1>2. ASSUME NEW r \in Runs,
             \/ \E g \in Gates : Execute(r, g) \/ Block(r, g)
             \/ GetLock(r) \/ LockRefused(r) \/ EndFirst(r) \/ EndRetry(r) \/ EndRepeat(r)
      PROVE  UNCHANGED <<home, stage, sha, seen, born>>
  BY <1>2 DEF Execute, Block, GetLock, LockRefused, EndFirst, EndRetry, EndRepeat
<1>3. ASSUME NEW w \in Worktrees, Edit(w) \/ CommitAll(w)
      PROVE  UNCHANGED <<home, stage, sha, seen, born>>
  BY <1>3 DEF Edit, CommitAll
<1>4. ASSUME (\E c \in {sha[r] : r \in Runs} \ {0} : StartReading(c))
               \/ OpenManifest \/ ReadFiles \/ Report
      PROVE  UNCHANGED <<home, stage, sha, seen, born>>
  BY <1>4, ReadingStep
<1>5. CASE UNCHANGED gateRunVars
  BY <1>5 DEF gateRunVars
<1> QED
  BY <1>1, <1>2, <1>3, <1>4, <1>5, StartComes, EnterComes DEF GateRunNext

(* Every step keeps the identifiers apart.                                 *)
LEMMA IdentifiersStep ==
  ASSUME GateRunTypeOK, Calls, Identifiers, [GateRunNext]_gateRunVars
  PROVE  Identifiers'
<1>1. CASE UNCHANGED <<home, stage, sha, seen, born>>
  BY <1>1 DEF Identifiers, Opening, Opened
<1>2. ASSUME NEW r \in Runs, NEW w \in Worktrees, Comes(r, w) PROVE Identifiers'
  <2>1. CASE pc'[r] = "running"
    <3>1. Opening' = Opening \cup {r} /\ r \notin Opening /\ Opening \in SUBSET Runs
      BY <1>2, <2>1, ComesNew DEF Opening
    <3>2. Cardinality(Opening') = Cardinality(Opening) + 1 /\ Cardinality(Opening) \in Nat
      BY <3>1, CountOneMore
    <3>3. /\ born'[r] = Cardinality(Opening) + 1
          /\ \A q \in Runs : q # r => born'[q] = born[q]
      BY <1>2, <2>1 DEF Comes
    <3>4. born \in [Runs -> Nat]
      BY DEF GateRunTypeOK
    <3> QED
      BY <3>2, <3>3, <3>4 DEF Identifiers, Opened
  <2>2. CASE pc'[r] # "running"
    <3>1. \A q \in Runs : born'[q] = born[q]
      BY <1>2, <2>2 DEF Comes
    <3>2. Opening' = Opening
      BY <3>1 DEF Opening, Opened
    <3> QED
      BY <3>1, <3>2 DEF Identifiers, Opened
  <2> QED
    BY <2>1, <2>2
<1> QED
  BY <1>1, <1>2, OnlyComing

(* Every way out of a gate and of a call gives back what it held.          *)
LEMMA OneSuiteStep ==
  ASSUME GateRunTypeOK, Calls, OneSuite, [GateRunNext]_gateRunVars
  PROVE  OneSuite'
<1>1. queue \in Runs \cup {None} /\ lock \in Runs \cup {None} /\ None \notin Runs \cup Gates
  BY Given DEF GateRunTypeOK
<1>2. CASE UNCHANGED <<queue, lock, stage, pc, check>>
  BY <1>2, SameStage DEF OneSuite, HeldByTheLiving, Executing
<1>3. ASSUME NEW r \in Runs, NEW w \in Worktrees, Comes(r, w) PROVE OneSuite'
  <2>1. lock # r /\ queue # r
    BY <1>1, <1>3 DEF Comes, OneSuite, HeldByTheLiving, Executing
  <2>2. \A q \in Runs : q # r => /\ Suite(q)' = Suite(q) /\ pc'[q] = pc[q]
                                 /\ Executing(q)' = Executing(q) /\ check'[q] = check[q]
    BY <1>3, ComesNew DEF Comes, Executing
  <2>3. /\ lock' = lock /\ Executing(r)' <=> pc'[r] = "running"
        /\ Suite(r)' <=> stage'[r] = "full"
        /\ \/ queue' = queue /\ ~(Executing(r)' /\ Suite(r)')
           \/ queue = None /\ queue' = r /\ Executing(r)' /\ Suite(r)'
    BY <1>3, ComesNew DEF Comes, Suite
  <2>4. HeldByTheLiving'
    <3>1. queue' # None => Suite(queue)' /\ Executing(queue)'
      BY <1>1, <1>3, <2>1, <2>2, <2>3
      DEF OneSuite, HeldByTheLiving, Suite, Executing, Comes
    <3>2. lock' # None => check'[lock'].gate \in Locked /\ pc'[lock'] = "running"
      <4>1. lock # None => check[lock].gate \in Locked /\ pc[lock] = "running"
        BY DEF OneSuite, HeldByTheLiving
      <4> QED
        BY <1>1, <1>3, <2>1, <4>1 DEF Comes
    <3> QED
      BY <3>1, <3>2 DEF HeldByTheLiving
  <2> QED
    BY <1>1, <2>1, <2>2, <2>3, <2>4 DEF OneSuite
<1>4. ASSUME NEW r \in Runs,
             \/ QueueTimeout(r) \/ Finish(r) \/ Publish(r) \/ CopyFails(r) \/ PruneStore(r)
             \/ EndPrune(r) \/ Crash(r)
      PROVE  OneSuite'
  <2>1. /\ UNCHANGED stage
        /\ \A q \in Runs : q # r => pc'[q] = pc[q] /\ check'[q] = check[q]
        /\ \/ Executing(r)' /\ Executing(r) /\ queue' = queue
           \/ ~Executing(r)' /\ queue' = IF queue = r THEN None ELSE queue
        /\ \/ pc[r] # "running" /\ lock' = lock
           \/ check[r].gate = None /\ lock' = lock
           \/ lock' = IF lock = r THEN None ELSE lock
    <3>1. CASE QueueTimeout(r)
      <4>1. queue # r
        BY <3>1 DEF QueueTimeout, OneSuite, HeldByTheLiving, Executing
      <4> QED
        BY <3>1, <4>1 DEF QueueTimeout, GateRunTypeOK, Executing
    <3>2. CASE Finish(r)
      BY <3>2, Constants DEF Finish, Idle, GateRunTypeOK, Executing
    <3>3. CASE Publish(r) \/ PruneStore(r)
      BY <3>3 DEF Publish, PruneStore, GateRunTypeOK, Executing
    <3>4. CASE CopyFails(r) \/ EndPrune(r)
      BY <3>4 DEF CopyFails, EndPrune, Leave, GateRunTypeOK, Executing
    <3>5. CASE Crash(r)
      BY <3>5 DEF Crash, GateRunTypeOK, Executing
    <3> QED
      BY <1>4, <3>1, <3>2, <3>3, <3>4, <3>5
  <2>2. \A q \in Runs : /\ Suite(q)' = Suite(q)
                        /\ q # r => Executing(q)' = Executing(q)
    BY <2>1, SameStage DEF Executing
  <2>3. Locked \subseteq Gates
    BY GateRunAssumption DEF GateRunAssumption
  <2>4. lock' # r /\ (lock' # None => lock' = lock)
    BY <1>1, <2>1, <2>3 DEF OneSuite, HeldByTheLiving
  <2>5. HeldByTheLiving'
    BY <1>1, <2>1, <2>2, <2>4 DEF OneSuite, HeldByTheLiving
  <2> QED
    BY <1>1, <2>1, <2>2, <2>5 DEF OneSuite
<1>5. ASSUME NEW r \in Runs, NEW g \in Gates, Starts(r, g) PROVE OneSuite'
  <2>1. \A q \in Runs : Suite(q)' = Suite(q) /\ Executing(q)' = Executing(q)
    BY <1>5, SameStage DEF Starts, Executing
  <2>2. lock' # None => check'[lock'].gate \in Locked /\ pc'[lock'] = "running"
    <3>1. lock # None => check[lock].gate \in Locked /\ pc[lock] = "running"
      BY DEF OneSuite, HeldByTheLiving
    <3>2. CASE lock' = r /\ g \in Locked
      BY <1>5, <3>2 DEF Starts
    <3>3. CASE lock' = lock /\ lock # r
      BY <1>1, <1>5, <3>1, <3>3 DEF Starts
    <3>4. CASE lock' = lock /\ lock = r
      BY <1>1, <1>5, <3>1, <3>4, GateRunAssumption DEF Starts, GateRunAssumption
    <3> QED
      BY <1>5, <3>2, <3>3, <3>4 DEF Starts
  <2>3. queue' = queue
    BY <1>5 DEF Starts
  <2> QED
    BY <1>1, <2>1, <2>2, <2>3 DEF OneSuite, HeldByTheLiving
<1>6. ASSUME NEW r \in Runs, GoesOn(r) PROVE OneSuite'
  BY <1>1, <1>6, SameStage DEF GoesOn, OneSuite, HeldByTheLiving, Executing
<1>7. ASSUME NEW r \in Runs, NEW status \in {"passed", "failed"}, Ends(r, status)
      PROVE  OneSuite'
  BY <1>1, <1>7, SameStage DEF Ends, OneSuite, HeldByTheLiving, Executing
<1>8. ASSUME NEW r \in Runs, NEW g \in Gates, Block(r, g)
      PROVE  UNCHANGED <<queue, lock, stage, pc, check>>
  BY <1>8 DEF Block
<1>9. ASSUME NEW r \in Runs, Remove(r) PROVE UNCHANGED <<queue, lock, stage, pc, check>>
  BY <1>9 DEF Remove
<1>10. ASSUME NEW w \in Worktrees, Edit(w) \/ CommitAll(w)
       PROVE  UNCHANGED <<queue, lock, stage, pc, check>>
  BY <1>10 DEF Edit, CommitAll
<1>11. ASSUME (\E c \in {sha[r] : r \in Runs} \ {0} : StartReading(c))
                \/ OpenManifest \/ ReadFiles \/ Report
       PROVE  UNCHANGED <<queue, lock, stage, pc, check>>
  BY <1>11, ReadingStep
<1>12. CASE UNCHANGED gateRunVars
  BY <1>2, <1>12 DEF gateRunVars
<1> QED
  BY <1>2, <1>3, <1>4, <1>5, <1>6, <1>7, <1>8, <1>9, <1>10, <1>11, <1>12,
     Starting, Ending,
     StartComes, EnterComes DEF GateRunNext

-----------------------------------------------------------------------------
(* The code under the commands, and the proofs they leave.                 *)

(* The code of a call depends on its worktree and its commit only.         *)
LEMMA CodeStays ==
  ASSUME NEW q, tip' = tip, tree' = tree, home'[q] = home[q], sha'[q] = sha[q]
  PROVE  Code(q)' = Code(q) /\ OnCandidate(q)' = OnCandidate(q)
BY DEF Code, OnCandidate, Clean

(* No step brings back a commit that was left.                             *)
LEMMA OnCodeStep ==
  ASSUME GateRunTypeOK, Calls, OnCode, [GateRunNext]_gateRunVars
  PROVE  OnCode'
<1>1. /\ changes \in Nat /\ tip \in [Worktrees -> Nat \ {0}] /\ tree \in [Worktrees -> Nat]
      /\ sha \in [Runs -> Nat] /\ seen \in [Runs -> Nat]
  BY DEF GateRunTypeOK
<1>2. ASSUME UNCHANGED <<tip, tree, changes, home, stage, sha, seen, born>>,
             \A q \in Runs : Executing(q)' => Executing(q),
             \A q \in Runs : check'[q].phase \in {"first", "retry", "repeat"} =>
               \/ check'[q].phase = check[q].phase /\ check'[q].faithful = check[q].faithful
               \/ check'[q].faithful \/ ~OnCandidate(q)
      PROVE  OnCode'
  <2>1. \A q \in Runs : Code(q)' = Code(q) /\ OnCandidate(q)' = OnCandidate(q)
    BY <1>2, CodeStays
  <2> QED
    BY <1>2, <2>1 DEF OnCode
<1>3. ASSUME NEW w \in Worktrees, Edit(w) \/ CommitAll(w) PROVE OnCode'
  <2>1. /\ UNCHANGED <<pc, home, sha, seen, check>> /\ changes' = changes + 1
        /\ w \in Restless \/ \A r \in Runs : home[r] = w => ~Executing(r)
        /\ \A v \in Worktrees : v # w => tip'[v] = tip[v] /\ tree'[v] = tree[v]
        /\ \/ tip'[w] = tip[w] /\ tree'[w] = changes + 1
           \/ tip'[w] = changes + 2
    BY <1>1, <1>3 DEF Edit, CommitAll, MayChange
  <2>2. \A v \in Worktrees : tip'[v] <= changes' + 1
    BY <1>1, <2>1 DEF OnCode
  <2>3. ASSUME NEW q \in Runs
        PROVE  /\ sha'[q] <= changes' + 1
               /\ check'[q].phase \in {"first", "retry", "repeat"} =>
                    check'[q].faithful \/ ~OnCandidate(q)'
               /\ Executing(q)' /\ home'[q] \notin Restless
                    => Code(q)' = <<sha'[q], seen'[q]>>
    <3>1. sha[q] \in Nat /\ sha[q] <= changes + 1 /\ sha'[q] = sha[q] /\ home'[q] = home[q]
      BY <1>1, <2>1 DEF OnCode
    <3>2. Executing(q)' <=> Executing(q)
      BY <2>1 DEF Executing
    <3>3. CASE home[q] = w
      <4>1. ~OnCandidate(q)'
        BY <1>1, <2>1, <3>1, <3>3 DEF OnCandidate, Code, Clean
      <4> QED
        BY <1>1, <2>1, <3>1, <3>2, <3>3, <4>1
    <3>4. CASE home[q] # w /\ home[q] \in Worktrees
      <4>1. Code(q)' = Code(q) /\ OnCandidate(q)' = OnCandidate(q)
        BY <2>1, <3>1, <3>4 DEF Code, OnCandidate, Clean
      <4> QED
        BY <1>1, <2>1, <3>1, <3>2, <4>1 DEF OnCode
    <3>5. CASE home[q] \notin Worktrees
      <4>1. ~Executing(q) /\ check[q].phase = "none"
        BY <3>5 DEF Calls, InStep, Executing
      <4> QED
        BY <1>1, <2>1, <3>1, <3>2, <4>1
    <3> QED
      BY <3>3, <3>4, <3>5
  <2> QED
    BY <2>2, <2>3 DEF OnCode
<1>4. ASSUME NEW r \in Runs, NEW w \in Worktrees, Comes(r, w) PROVE OnCode'
  <2>1. UNCHANGED <<tip, tree, changes, check>> /\ check[r].phase = "none" /\ home'[r] = w
    BY <1>4, ComesNew DEF Comes
  <2>2. ASSUME NEW q \in Runs, q # r
        PROVE  /\ sha'[q] = sha[q] /\ seen'[q] = seen[q] /\ home'[q] = home[q]
               /\ Executing(q)' = Executing(q)
               /\ Code(q)' = Code(q) /\ OnCandidate(q)' = OnCandidate(q)
    BY <1>4, <2>2, CodeStays DEF Comes, Executing
  <2>3. sha'[r] <= changes + 1
    BY <1>1, <1>4 DEF Comes, OnCode
  <2>4. Executing(r)' => Code(r)' = <<sha'[r], seen'[r]>>
    BY <1>4, <2>1, ComesNew DEF Comes, Code
  <2> QED
    BY <2>1, <2>2, <2>3, <2>4 DEF OnCode
<1>5. ASSUME NEW r \in Runs,
             \/ QueueTimeout(r) \/ Finish(r) \/ Publish(r) \/ CopyFails(r) \/ PruneStore(r)
             \/ EndPrune(r) \/ Crash(r) \/ Remove(r)
      PROVE  OnCode'
  <2>1. /\ UNCHANGED <<tip, tree, changes, home, stage, sha, seen, born>>
        /\ \A q \in Runs : check'[q] = check[q] \/ check'[q].phase = "none"
    BY <1>5, Constants
    DEF QueueTimeout, Finish, Publish, CopyFails, PruneStore, EndPrune,
       Crash, Remove, GateRunTypeOK
  <2>2. \A q \in Runs : Executing(q)' => Executing(q)
    BY <1>5
    DEF QueueTimeout, Finish, Publish, CopyFails, PruneStore, EndPrune, Crash,
        Remove,
       Leave, Idle, GateRunTypeOK, Executing
  <2> QED
    BY <1>2, <2>1, <2>2
<1>6. ASSUME NEW r \in Runs, NEW g \in Gates, Starts(r, g) PROVE OnCode'
  <2>1. /\ UNCHANGED <<tip, tree, changes, home, stage, sha, seen, born>>
        /\ \A q \in Runs : Executing(q)' => Executing(q)
    BY <1>6 DEF Starts, Executing
  <2> QED
    BY <1>2, <1>6, <2>1 DEF Starts
<1>7. ASSUME NEW r \in Runs, GoesOn(r) PROVE OnCode'
  <2>1. /\ UNCHANGED <<tip, tree, changes, home, stage, sha, seen, born>>
        /\ \A q \in Runs : Executing(q)' => Executing(q)
    BY <1>7 DEF GoesOn, Executing
  <2>2. check'[r].faithful \/ ~OnCandidate(r)
    BY <1>7 DEF GoesOn, OnCode
  <2> QED
    BY <1>2, <1>7, <2>1, <2>2 DEF GoesOn
<1>8. ASSUME NEW r \in Runs, NEW status \in {"passed", "failed"}, Ends(r, status)
      PROVE  OnCode'
  <2>1. /\ UNCHANGED <<tip, tree, changes, home, stage, sha, seen, born>>
        /\ \A q \in Runs : Executing(q)' => Executing(q)
    BY <1>8 DEF Ends, Executing
  <2> QED
    BY <1>2, <1>8, <2>1 DEF Ends
<1>9. ASSUME UNCHANGED <<tip, tree, changes, home, stage, sha, seen, born, pc, check>>
      PROVE  OnCode'
  <2>1. \A q \in Runs : Executing(q)' = Executing(q)
    BY <1>9 DEF Executing
  <2> QED
    BY <1>2, <1>9, <2>1
<1>10. ASSUME NEW r \in Runs, NEW g \in Gates, Block(r, g) PROVE OnCode'
  BY <1>9, <1>10 DEF Block
<1>11. ASSUME (\E c \in {sha[r] : r \in Runs} \ {0} : StartReading(c))
                \/ OpenManifest \/ ReadFiles \/ Report
       PROVE  OnCode'
  BY <1>9, <1>11, ReadingStep
<1>12. CASE UNCHANGED gateRunVars
  BY <1>9, <1>12 DEF gateRunVars
<1> QED
  BY <1>3, <1>4, <1>5, <1>6, <1>7, <1>8, <1>10, <1>11, <1>12, Starting, Ending,
     StartComes, EnterComes DEF GateRunNext

(* A gate in progress changes phase only by its own steps.                 *)
LEMMA OnlyGates ==
  ASSUME GateRunTypeOK, Calls, [GateRunNext]_gateRunVars
  PROVE  \/ \A q \in Runs : check'[q] = check[q] \/ check'[q].phase = "none"
         \/ \E r \in Runs : GoesOn(r) \/ \E g \in Gates : Starts(r, g)
<1>1. ASSUME NEW r \in Runs,
             \/ QueueTimeout(r) \/ Finish(r) \/ Publish(r) \/ CopyFails(r) \/ PruneStore(r)
             \/ Remove(r) \/ EndPrune(r) \/ Crash(r) \/ \E g \in Gates : Block(r, g)
      PROVE  \A q \in Runs : check'[q] = check[q] \/ check'[q].phase = "none"
  BY <1>1, Constants
  DEF QueueTimeout, Finish, Publish, CopyFails, PruneStore, Remove, EndPrune,
     Crash, Block, GateRunTypeOK
<1>2. ASSUME NEW w \in Worktrees, Edit(w) \/ CommitAll(w) PROVE check' = check
  BY <1>2 DEF Edit, CommitAll
<1>3. ASSUME (\E c \in {sha[r] : r \in Runs} \ {0} : StartReading(c))
               \/ OpenManifest \/ ReadFiles \/ Report
      PROVE  check' = check
  BY <1>3, ReadingStep
<1>4. ASSUME NEW r \in Runs, NEW w \in Worktrees, Comes(r, w) PROVE check' = check
  BY <1>4 DEF Comes
<1>5. ASSUME NEW r \in Runs, NEW status \in {"passed", "failed"}, Ends(r, status)
      PROVE  \A q \in Runs : check'[q] = check[q] \/ check'[q].phase = "none"
  BY <1>5 DEF Ends
<1>6. CASE UNCHANGED gateRunVars
  BY <1>6 DEF gateRunVars
<1> QED
  BY <1>1, <1>2, <1>3, <1>4, <1>5, <1>6, Starting, Ending, StartComes,
     EnterComes DEF GateRunNext

(* A relaunch finds the commit and the tree of the launch.                 *)
LEMMA RelaunchStep ==
  ASSUME GateRunTypeOK, Calls, OnCode, RelaunchOnSameCode, [GateRunNext]_gateRunVars
  PROVE  RelaunchOnSameCode'
<1> SUFFICES ASSUME NEW q \in Runs, check'[q].phase = "retry", seen'[q] = Clean
             PROVE  check'[q].faithful
  BY DEF RelaunchOnSameCode, dirty, Clean
<1>1. CASE check'[q] = check[q]
  <2>1. seen'[q] = seen[q]
    <3>1. ASSUME NEW r \in Runs, NEW w \in Worktrees, Comes(r, w) PROVE seen'[q] = seen[q]
      BY <1>1, <3>1, ComesNew DEF Comes
    <3> QED
      BY <3>1, OnlyComing
  <2> QED
    BY <1>1, <2>1 DEF RelaunchOnSameCode, dirty
<1>2. ASSUME GoesOn(q) PROVE check'[q].faithful
  <2>1. SameCode(q) /\ seen[q] = Clean /\ check[q].phase \in {"first", "retry"}
    BY <1>2 DEF GoesOn
  <2>2. OnCandidate(q)
    BY <2>1 DEF SameCode, OnCandidate
  <2> QED
    BY <1>2, <2>1, <2>2 DEF OnCode, GoesOn
<1> QED
  BY <1>1, <1>2, OnlyGates DEF GoesOn, Starts

(* What a receipt says changes only when it is written.                    *)
LEMMA OnlyReceipts ==
  ASSUME GateRunTypeOK, Calls, [GateRunNext]_gateRunVars
  PROVE  \/ UNCHANGED <<receipts, history>>
         \/ \E r \in Runs, status \in {"passed", "failed"} : Ends(r, status)
         \/ \E r \in Runs, g \in Gates : Block(r, g)
<1>1. ASSUME NEW r \in Runs,
             \/ QueueTimeout(r) \/ Finish(r) \/ Publish(r) \/ CopyFails(r) \/ PruneStore(r)
             \/ Remove(r) \/ EndPrune(r) \/ Crash(r)
      PROVE  UNCHANGED <<receipts, history>>
  BY <1>1
  DEF QueueTimeout, Finish, Publish, CopyFails, PruneStore, Remove, EndPrune,
      Crash
<1>2. ASSUME NEW r \in Runs, (\E g \in Gates : Execute(r, g)) \/ GetLock(r)
      PROVE  UNCHANGED <<receipts, history>>
  BY <1>2 DEF Execute, GetLock
<1>3. ASSUME NEW r \in Runs, GoesOn(r) PROVE UNCHANGED <<receipts, history>>
  BY <1>3 DEF GoesOn
<1>4. ASSUME NEW w \in Worktrees, Edit(w) \/ CommitAll(w) PROVE UNCHANGED <<receipts, history>>
  BY <1>4 DEF Edit, CommitAll
<1>5. ASSUME (\E c \in {sha[r] : r \in Runs} \ {0} : StartReading(c))
               \/ OpenManifest \/ ReadFiles \/ Report
      PROVE  UNCHANGED <<receipts, history>>
  BY <1>5, ReadingStep
<1>6. ASSUME NEW r \in Runs, NEW w \in Worktrees, Comes(r, w)
      PROVE  UNCHANGED <<receipts, history>>
  BY <1>6 DEF Comes
<1>7. CASE UNCHANGED gateRunVars
  BY <1>7 DEF gateRunVars
<1> QED
  BY <1>1, <1>2, <1>3, <1>4, <1>5, <1>6, <1>7, Ending, StartComes, EnterComes
  DEF GateRunNext

(* A receipt that is written leaves its call the one it was.               *)
LEMMA WritingStays ==
  ASSUME NEW r, (\E status : Ends(r, status)) \/ (\E g : Block(r, g))
  PROVE  UNCHANGED <<home, stage, sha, seen, born, pc, shared, doomed, verify>>
BY DEF Ends, Block

(* A success that counts was written on the commit its command ran on.     *)
LEMMA ProofsStep ==
  ASSUME GateRunTypeOK, Calls, OnCode, Proofs, [GateRunNext]_gateRunVars
  PROVE  Proofs'
<1> SUFFICES ASSUME NEW q \in Runs, NEW h \in Gates,
                    home'[q] \notin Restless, seen'[q] = Clean, ~Targeted(q, h)',
                    h \in Receipts(q)', receipts'[q][h].status = "passed"
             PROVE  <<q, h>> \in genuine'
  BY DEF Proofs, dirty, success, Clean
<1>1. ASSUME home'[q] = home[q], stage'[q] = stage[q], seen'[q] = seen[q], h \in Receipts(q),
             receipts'[q][h] = receipts[q][h], genuine \subseteq genuine'
      PROVE  <<q, h>> \in genuine'
  BY <1>1, SameStage DEF Proofs, dirty, success
<1>2. CASE UNCHANGED <<receipts, history>>
  <2>1. h \in Receipts(q)
    BY <1>2, SameReceipts
  <2>2. ASSUME NEW r \in Runs, NEW w \in Worktrees, Comes(r, w)
        PROVE  home'[q] = home[q] /\ stage'[q] = stage[q] /\ seen'[q] = seen[q]
    BY <2>1, <2>2, ComesNew DEF Comes
  <2> QED
    BY <1>1, <1>2, <2>1, <2>2, OnlyComing
<1>3. ASSUME NEW r \in Runs, NEW status \in {"passed", "failed"}, Ends(r, status)
      PROVE  <<q, h>> \in genuine'
  <2> DEFINE g == check[r].gate
  <2>1. /\ g \in Gates /\ check[r].startedAt \in Nat
        /\ Receives(r, g, status, check[r].startedAt) /\ genuine \subseteq genuine'
        /\ UNCHANGED <<home, stage, seen>>
    BY <1>3 DEF Ends
  <2>2. CASE q = r /\ h = g
    <3>1. status = "passed"
      BY <2>1, <2>2, Received
    <3>2. pc[r] = "running" /\ check[r].phase \in {"first", "retry", "repeat"}
      BY <1>3, <3>1 DEF Ends
    <3>3. OnCandidate(r)
      BY <2>1, <2>2, <3>2 DEF OnCode, Executing, OnCandidate, Clean
    <3>4. check[r].faithful
      BY <3>2, <3>3 DEF OnCode
    <3>5. ~Targeted(r, g)
      BY <2>1, <2>2, SameStage
    <3> QED
      BY <1>3, <2>2, <3>1, <3>3, <3>4, <3>5 DEF Ends
  <2>3. CASE ~(q = r /\ h = g)
    <3>1. receipts'[q][h] = receipts[q][h] /\ h \in Receipts(q)
      BY <2>1, <2>3, Received
    <3> QED
      BY <1>1, <2>1, <3>1
  <2> QED
    BY <2>2, <2>3
<1>4. ASSUME NEW r \in Runs, NEW g \in Gates, Block(r, g) PROVE <<q, h>> \in genuine'
  <2>1. /\ Receives(r, g, "failed", StartTime(g)) /\ StartTime(g) \in Nat
        /\ UNCHANGED <<home, stage, seen, genuine>>
    BY <1>4, Blocking
  <2>2. ~(q = r /\ h = g)
    BY <2>1, Received
  <2>3. receipts'[q][h] = receipts[q][h] /\ h \in Receipts(q)
    BY <2>1, <2>2, Received
  <2> QED
    BY <1>1, <2>1, <2>3
<1> QED
  BY <1>2, <1>3, <1>4, OnlyReceipts

-----------------------------------------------------------------------------
(* The order of the suites.                                                *)

(* The suite that runs is the only one.                                    *)
LEMMA OnlySuite ==
  ASSUME Calls, OneSuite, NEW r \in Runs, NEW q \in Runs, Suite(r), Suite(q),
         pc[r] = "running", check[q].gate # None
  PROVE  q = r
BY DEF Calls, InStep, OneSuite, Executing

(* A receipt whose start comes after those of the other suites keeps their *)
(* order.                                                                  *)
LEMMA OrderedReceipt ==
  ASSUME GateRunTypeOK, Calls, OneSuite, Order,
         NEW r \in Runs, NEW g \in Gates, NEW status \in {"passed", "failed"}, NEW at \in Nat,
         Receives(r, g, status, at), pc[r] = "running", UNCHANGED stage,
         check'[r].gate = None, \A x \in Runs : x # r => check'[x] = check[x],
         \A x \in Runs : x # r /\ Suite(x) /\ Suite(r) /\ g \in Receipts(x)
                           => receipts[x][g].startedAt < at
  PROVE  Order'
<1>1. g \notin Receipts(r) /\ r \notin WrittenBy(g) /\ WrittenBy(g) \in SUBSET Runs
  BY DEF Receives, Order, WrittenBy
<1>2. written \in [Runs -> [Gates -> Nat]] /\ receipts \in [Runs -> [Gates -> Receipt]]
  BY DEF GateRunTypeOK
<1>3. /\ WrittenBy(g)' = WrittenBy(g) \cup {r}
      /\ \A h \in Gates : h # g => WrittenBy(h)' = WrittenBy(h)
  <2>1. /\ written'[r][g] # 0 /\ \A q \in Runs : q # r => written'[q][g] = written[q][g]
        /\ \A q \in Runs, h \in Gates : h # g => written'[q][h] = written[q][h]
    BY Received
  <2> QED
    BY <2>1 DEF WrittenBy
<1>4. Cardinality(WrittenBy(g)') = Cardinality(WrittenBy(g)) + 1
  BY <1>1, <1>3, CountOneMore
<1>5. /\ written'[r][g] = Cardinality(WrittenBy(g)) + 1 /\ Cardinality(WrittenBy(g)) \in Nat
      /\ Receipts(r)' = Receipts(r) \cup {g} /\ receipts'[r][g].startedAt = at
      /\ \A q \in Runs : q # r => Receipts(q)' = Receipts(q)
      /\ \A q \in Runs, h \in Gates :
           q # r \/ h # g => receipts'[q][h] = receipts[q][h] /\ written'[q][h] = written[q][h]
  BY Received
<1>6. ASSUME NEW q \in Runs, NEW h \in Gates
      PROVE  /\ written'[q][h] = 0 <=> h \notin Receipts(q)'
             /\ written'[q][h] <= Cardinality(WrittenBy(h)')
  <2>1. CASE h = g /\ q = r
    BY <1>4, <1>5, <2>1
  <2>2. CASE h = g /\ q # r
    BY <1>2, <1>4, <1>5, <2>2 DEF Order
  <2>3. CASE h # g
    BY <1>2, <1>3, <1>5, <2>3 DEF Order
  <2> QED
    BY <2>1, <2>2, <2>3
<1>7. \A q \in Runs : Suite(q)' = Suite(q)
  BY SameStage
<1>8. ASSUME NEW x \in Runs, NEW q \in Runs, NEW h \in Gates, Suite(x), Suite(q),
             h \in Receipts(x)', h \in Receipts(q)', written'[x][h] < written'[q][h]
      PROVE  receipts'[x][h].startedAt < receipts'[q][h].startedAt
  <2>1. written[x][h] \in Nat /\ written[q][h] \in Nat
    BY <1>2
  <2>2. CASE h # g \/ (x # r /\ q # r)
    BY <1>5, <1>8, <2>2 DEF Order
  <2>3. CASE h = g /\ x = r
    <3>1. q # r /\ written[q][g] <= Cardinality(WrittenBy(g)) /\ written'[q][g] = written[q][g]
      BY <1>5, <1>8, <2>1, <2>3 DEF Order
    <3> QED
      BY <1>5, <1>8, <2>1, <2>3, <3>1
  <2>4. CASE h = g /\ x # r /\ q = r
    BY <1>5, <1>8, <2>4
  <2> QED
    BY <2>2, <2>3, <2>4
<1>9. ASSUME NEW x \in Runs, NEW q \in Runs, NEW h \in Gates, Suite(x), Suite(q),
             h \in Receipts(x)', check'[q].gate = h, x # q
      PROVE  receipts'[x][h].startedAt < check'[q].startedAt
  <2>1. q # r /\ check[q].gate = h /\ check'[q] = check[q] /\ h # None
    BY <1>9, Given
  <2>2. x # r
    BY <1>9, <2>1, OnlySuite
  <2> QED
    BY <1>5, <1>9, <2>1, <2>2 DEF Order
<1> QED
  BY <1>6, <1>7, <1>8, <1>9 DEF Order

(* Every step keeps the order of the suites.                               *)
LEMMA OrderStep ==
  ASSUME GateRunTypeOK, Calls, OneSuite, Order, [GateRunNext]_gateRunVars
  PROVE  Order'
<1>1. ASSUME UNCHANGED <<receipts, history>>,
             \A q \in Runs : Receipts(q) # {} => Suite(q)' = Suite(q),
             \A x, q \in Runs, g \in Gates :
               Suite(x) /\ Suite(q)' /\ g \in Receipts(x) /\ check'[q].gate = g /\ x # q
                 => receipts[x][g].startedAt < check'[q].startedAt
      PROVE  Order'
  <2>1. \A q \in Runs : Receipts(q)' = Receipts(q)
    BY <1>1, SameReceipts
  <2>2. \A g : WrittenBy(g)' = WrittenBy(g)
    BY <1>1 DEF WrittenBy
  <2> QED
    BY <1>1, <2>1, <2>2 DEF Order
<1>2. ASSUME NEW r \in Runs, NEW w \in Worktrees, Comes(r, w) PROVE Order'
  <2>1. \A q \in Runs : Receipts(q) # {} => Suite(q)' = Suite(q)
    BY <1>2, ComesNew
  <2>2. UNCHANGED <<receipts, history, check>> /\ check[r].gate = None
    BY <1>2, ComesNew DEF Comes
  <2>3. \A q \in Runs : q # r => Suite(q)' = Suite(q)
    BY <1>2, ComesNew
  <2>4. \A x, q \in Runs, g \in Gates :
          Suite(x) /\ Suite(q)' /\ g \in Receipts(x) /\ check'[q].gate = g /\ x # q
            => receipts[x][g].startedAt < check'[q].startedAt
    BY <2>2, <2>3, Given DEF Order
  <2> QED
    BY <1>1, <2>1, <2>2, <2>4
<1>3. ASSUME NEW r \in Runs, NEW g \in Gates, Starts(r, g) PROVE Order'
  <2>1. UNCHANGED <<receipts, history>> /\ \A q \in Runs : Suite(q)' = Suite(q)
    BY <1>3, SameStage DEF Starts
  <2>2. ASSUME NEW x \in Runs, NEW q \in Runs, NEW h \in Gates, Suite(x), Suite(q),
               h \in Receipts(x), check'[q].gate = h, x # q
        PROVE  receipts[x][h].startedAt < check'[q].startedAt
    <3>1. CASE q # r \/ check[r].gate = g
      BY <1>3, <2>2, <3>1, Given DEF Starts, Order
    <3>2. CASE q = r /\ check[r].gate = None
      BY <1>3, <2>2, <3>2, StartsLast DEF Starts
    <3> QED
      BY <1>3, <3>1, <3>2 DEF Starts
  <2> QED
    BY <1>1, <2>1, <2>2
<1>4. ASSUME NEW r \in Runs, GoesOn(r) PROVE Order'
  <2>1. /\ UNCHANGED <<receipts, history>>
        /\ \A q \in Runs : /\ Suite(q)' = Suite(q) /\ check'[q].gate = check[q].gate
                           /\ check'[q].startedAt = check[q].startedAt
    BY <1>4, SameStage DEF GoesOn
  <2> QED
    BY <1>1, <2>1 DEF Order
<1>5. ASSUME NEW r \in Runs, NEW status \in {"passed", "failed"}, Ends(r, status)
      PROVE  Order'
  <2>1. /\ check[r].gate \in Gates /\ check[r].startedAt \in Nat /\ pc[r] = "running"
        /\ Receives(r, check[r].gate, status, check[r].startedAt) /\ UNCHANGED stage
        /\ check'[r].gate = None
        /\ \A x \in Runs : x # r => check'[x] = check[x]
    BY <1>5 DEF Ends
  <2>2. \A x \in Runs : x # r /\ Suite(x) /\ Suite(r) /\ check[r].gate \in Receipts(x)
                          => receipts[x][check[r].gate].startedAt < check[r].startedAt
    BY <2>1 DEF Order
  <2> QED
    BY <2>1, <2>2, OrderedReceipt
<1>6. ASSUME NEW r \in Runs, NEW g \in Gates, Block(r, g) PROVE Order'
  BY <1>6, Blocking, StartsLast, OrderedReceipt
<1>7. CASE UNCHANGED <<receipts, history, stage>>
           /\ \A q \in Runs : check'[q] = check[q] \/ check'[q].phase = "none"
  <2>1. \A q \in Runs : Suite(q)' = Suite(q)
    BY <1>7, SameStage
  <2>2. Calls'
    BY CallsStep
  <2>3. \A q \in Runs : check'[q] = check[q] \/ check'[q].gate = None
    BY <1>7, <2>2 DEF Calls, InStep
  <2> QED
    BY <1>1, <1>7, <2>1, <2>3, Given DEF Order
<1> QED
  BY <1>2, <1>3, <1>4, <1>5, <1>6, <1>7, OnlyComing, OnlyGates, OnlyReceipts

-----------------------------------------------------------------------------
(* The shared store.                                                       *)

(* The store changes by the steps of the copies only.                      *)
LEMMA OnlyCopies ==
  ASSUME GateRunTypeOK, Calls, [GateRunNext]_gateRunVars
  PROVE  \/ UNCHANGED store
         \/ \E r \in Runs : Publish(r) \/ PruneStore(r) \/ Remove(r) \/ EndPrune(r) \/ Crash(r)
<1>1. ASSUME NEW r \in Runs, NEW w \in Worktrees, Comes(r, w) PROVE UNCHANGED store
  BY <1>1 DEF Comes
<1>2. ASSUME NEW r \in Runs,
             \/ QueueTimeout(r) \/ Finish(r) \/ CopyFails(r)
             \/ \E g \in Gates : Execute(r, g) \/ Block(r, g)
             \/ GetLock(r) \/ LockRefused(r) \/ EndFirst(r) \/ EndRetry(r) \/ EndRepeat(r)
      PROVE  UNCHANGED store
  BY <1>2
  DEF QueueTimeout, Finish, CopyFails, Execute, Block, GetLock, LockRefused,
      EndFirst,
     EndRetry, EndRepeat
<1>3. ASSUME NEW w \in Worktrees, Edit(w) \/ CommitAll(w) PROVE UNCHANGED store
  BY <1>3 DEF Edit, CommitAll
<1>4. ASSUME (\E c \in {sha[r] : r \in Runs} \ {0} : StartReading(c))
               \/ OpenManifest \/ ReadFiles \/ Report
      PROVE  UNCHANGED store
  BY <1>4, ReadingStep
<1>5. CASE UNCHANGED gateRunVars
  BY <1>5 DEF gateRunVars
<1> QED
  BY <1>1, <1>2, <1>3, <1>4, <1>5, StartComes, EnterComes DEF GateRunNext

(* No copy is whole before its call is open, and a whole one is there.     *)
LEMMA WholeCopies ==
  ASSUME Calls, NEW r \in Runs, Whole(r)
  PROVE  r \in sharedRunIds /\ Opened(r)
BY DEF Whole, Files, sharedRunIds, Calls, InStep

(* Who is judged in excess has KeepRuns whole successors: each of the more *)
(* recent runs is whole, or has as many successors that are.               *)
LEMMA ExcessHasSuccessors ==
  ASSUME GateRunTypeOK, Retention, NEW q \in Excess
  PROVE  Cardinality(Successors(q)) >= KeepRuns
<1>1. /\ q \in Runs /\ Cardinality(Newer(q)) >= KeepRuns
      /\ Newer(q) \in SUBSET Runs /\ Newer(q) \subseteq sharedRunIds
  BY DEF Excess, sharedRunIds, Newer
<1>2. \A r \in Runs : Successors(r) \in SUBSET Runs
  BY DEF Successors
<1>3. KeepRuns \in Nat
  BY Given
<1>4. CASE \A r \in Newer(q) : Whole(r)
  <2>1. Newer(q) \subseteq Successors(q)
    BY <1>1, <1>4 DEF Newer, Successors
  <2>2. /\ Cardinality(Newer(q)) <= Cardinality(Successors(q))
        /\ Cardinality(Newer(q)) \in Nat /\ Cardinality(Successors(q)) \in Nat
    BY <1>1, <1>2, <2>1, Counting
  <2> QED
    BY <1>1, <1>3, <2>2
<1>5. ASSUME NEW r \in Newer(q), ~Whole(r) PROVE Cardinality(Successors(q)) >= KeepRuns
  <2>1. Cardinality(Successors(r)) >= KeepRuns
    BY <1>1, <1>5 DEF Retention
  <2>2. born[r] \in Nat /\ born[q] \in Nat /\ born[r] > born[q] /\ r \in Runs
    BY <1>1 DEF Newer, GateRunTypeOK
  <2>3. Successors(r) \subseteq Successors(q)
    BY <2>2 DEF Successors, GateRunTypeOK
  <2>4. /\ Cardinality(Successors(r)) <= Cardinality(Successors(q))
        /\ Cardinality(Successors(r)) \in Nat /\ Cardinality(Successors(q)) \in Nat
    BY <1>1, <1>2, <2>2, <2>3, Counting
  <2> QED
    BY <1>3, <2>1, <2>4
<1> QED
  BY <1>4, <1>5

(* Nobody loses successors, but one who keeps enough of them.              *)
LEMMA RetentionKept ==
  ASSUME GateRunTypeOK, Calls, Retention,
         \A r \in Runs : \/ Successors(r) \subseteq Successors(r)'
                         \/ Cardinality(Successors(r)') >= KeepRuns,
         \A r \in sharedRunIds' : \/ Whole(r)'
                                  \/ r \in sharedRunIds /\ ~Whole(r)
                                  \/ Cardinality(Successors(r)') >= KeepRuns,
         \A r \in Runs : \A q \in doomed'[r] : q \in doomed[r] \/ (q \in Excess /\ q \in Runs)
  PROVE  Retention'
<1>1. KeepRuns \in Nat
  BY Given
<1>2. \A r \in Runs : Successors(r) \in SUBSET Runs /\ Successors(r)' \in SUBSET Runs
  BY DEF Successors
<1>3. ASSUME NEW r \in Runs, Cardinality(Successors(r)) >= KeepRuns
      PROVE  Cardinality(Successors(r)') >= KeepRuns
  <2>1. CASE Successors(r) \subseteq Successors(r)'
    <3>1. /\ Cardinality(Successors(r)) <= Cardinality(Successors(r)')
          /\ Cardinality(Successors(r)) \in Nat /\ Cardinality(Successors(r)') \in Nat
      BY <1>2, <2>1, Counting
    <3> QED
      BY <1>1, <1>3, <3>1
  <2> QED
    BY <2>1
<1>4. \A r \in sharedRunIds' : Whole(r)' \/ Cardinality(Successors(r)') >= KeepRuns
  BY <1>3 DEF Retention, sharedRunIds
<1>5. ASSUME NEW r \in Runs, NEW q \in doomed'[r]
      PROVE  Cardinality(Successors(q)') >= KeepRuns
  <2>1. q \in Runs /\ Cardinality(Successors(q)) >= KeepRuns
    BY <1>5, ExcessHasSuccessors DEF Retention, GateRunTypeOK
  <2> QED
    BY <1>3, <2>1
<1> QED
  BY <1>4, <1>5 DEF Retention

(* Every step keeps the retention.                                         *)
LEMMA RetentionStep ==
  ASSUME GateRunTypeOK, Calls, Retention, [GateRunNext]_gateRunVars
  PROVE  Retention'
<1>1. shared \in [Runs -> SUBSET (Gates \cup {Manifest})] /\ doomed \in [Runs -> SUBSET Runs]
  BY DEF GateRunTypeOK
<1>2. CASE UNCHANGED <<shared, doomed>> /\ UNCHANGED <<home, stage, sha, seen, born>>
  <2>1. \A r : Files(r)' = Files(r)
    BY <1>2, SameStage
  <2>2. \A r \in Runs : Whole(r)' = Whole(r) /\ born'[r] = born[r]
    BY <1>2, <2>1 DEF Whole
  <2>3. \A r \in Runs : Successors(r)' = Successors(r)
    BY <2>2 DEF Successors
  <2>4. sharedRunIds' = sharedRunIds
    BY <1>2 DEF sharedRunIds
  <2>5. /\ \A r \in Runs : Successors(r) \subseteq Successors(r)'
        /\ \A r \in sharedRunIds' : Whole(r)' \/ (r \in sharedRunIds /\ ~Whole(r))
    BY <2>2, <2>3, <2>4 DEF sharedRunIds
  <2> QED
    BY <1>2, <2>5, RetentionKept
<1>3. ASSUME NEW r \in Runs, NEW w \in Worktrees, Comes(r, w) PROVE Retention'
  <2>1. UNCHANGED store /\ shared[r] = {}
    BY <1>3, ComesNew DEF Comes
  <2>2. \A q \in Runs : Whole(q)' = Whole(q)
    BY <1>3, <2>1, ComesNew DEF Whole, Files, Manifest
  <2>3. /\ sharedRunIds' = sharedRunIds
        /\ \A q \in Runs : Whole(q) => q # r
    BY <2>1, WholeCopies DEF sharedRunIds
  <2>4. \A q \in Runs : q # r => born'[q] = born[q]
    BY <1>3 DEF Comes
  <2>5. \A q \in Runs : q # r => Successors(q)' = Successors(q)
    BY <2>2, <2>3, <2>4 DEF Successors
  <2>6. r \notin sharedRunIds /\ \A q \in Runs : r \notin doomed[q]
    BY <1>3, <2>1, ComesNew DEF sharedRunIds, Calls, InStep
  <2> QED
    BY <1>1, <2>1, <2>2, <2>3, <2>5, <2>6 DEF Retention, sharedRunIds
<1>4. ASSUME NEW r \in Runs, Publish(r) PROVE Retention'
  <2>1. \A q \in Runs : Files(q)' = Files(q) /\ born'[q] = born[q]
    BY <1>4, SameStage DEF Publish
  <2>2. shared' = [shared EXCEPT ![r] = Files(r)] /\ doomed' = doomed
    BY <1>4 DEF Publish
  <2>3. \A q \in Runs : (Whole(q) => Whole(q)') /\ (q = r => Whole(q)')
    BY <1>1, <2>1, <2>2 DEF Whole
  <2>4. \A q \in Runs : Successors(q) \subseteq Successors(q)'
    BY <2>1, <2>3 DEF Successors
  <2>5. \A q \in sharedRunIds' : Whole(q)' \/ (q \in sharedRunIds /\ ~Whole(q))
    BY <1>1, <2>2, <2>3 DEF sharedRunIds
  <2> QED
    BY <2>2, <2>4, <2>5, RetentionKept
<1>5. ASSUME NEW r \in Runs, PruneStore(r) \/ EndPrune(r) \/ Crash(r) PROVE Retention'
  <2>1. \A q \in Runs : Files(q)' = Files(q) /\ born'[q] = born[q]
    BY <1>5, SameStage DEF PruneStore, EndPrune, Crash
  <2>2. shared' = shared
    BY <1>5 DEF PruneStore, EndPrune, Crash
  <2>3. \A q \in Runs : Whole(q)' = Whole(q)
    BY <2>1, <2>2 DEF Whole
  <2>4. \A q \in Runs : Successors(q)' = Successors(q)
    BY <2>1, <2>3 DEF Successors
  <2>5. sharedRunIds' = sharedRunIds
    BY <2>2 DEF sharedRunIds
  <2>6. \A x \in Runs : \A q \in doomed'[x] : q \in doomed[x] \/ (q \in Excess /\ q \in Runs)
    BY <1>1, <1>5 DEF PruneStore, EndPrune, Crash, Excess, sharedRunIds
  <2> QED
    BY <2>3, <2>4, <2>5, <2>6, RetentionKept DEF sharedRunIds
<1>6. ASSUME NEW r \in Runs, Remove(r) PROVE Retention'
  <2>1. PICK q \in doomed[r] : \E f \in shared[q] : shared' = [shared EXCEPT ![q] = @ \ {f}]
    BY <1>6 DEF Remove
  <2>2. /\ UNCHANGED <<doomed, born, stage>> /\ q \in Runs /\ born \in [Runs -> Nat]
        /\ \A x \in Runs : x # q => shared'[x] = shared[x]
        /\ shared'[q] \subseteq shared[q] /\ shared'[q] # shared[q]
    BY <1>1, <1>6, <2>1 DEF Remove, GateRunTypeOK
  <2>3. \A x \in Runs : Files(x)' = Files(x)
    BY <2>2, SameStage
  <2>4. /\ ~Whole(q)' /\ \A x \in Runs : x # q => Whole(x)' = Whole(x)
    <3>1. shared[q] \subseteq Files(q)
      BY <2>1, <2>2 DEF Calls, InStep
    <3> QED
      BY <2>2, <2>3, <3>1 DEF Whole
  <2>5. Cardinality(Successors(q)) >= KeepRuns
    BY <2>1 DEF Retention
  <2>6. q \notin Successors(q) /\ Successors(q) \subseteq Successors(q)'
    BY <2>2, <2>4 DEF Successors
  <2>7. \A x \in Runs : Successors(x) \in SUBSET Runs /\ Successors(x)' \in SUBSET Runs
    BY DEF Successors
  <2>8. /\ Cardinality(Successors(q)) \in Nat /\ Cardinality(Successors(q)') \in Nat
        /\ Cardinality(Successors(q)') >= KeepRuns
    <3>1. /\ Cardinality(Successors(q)) <= Cardinality(Successors(q)')
          /\ Cardinality(Successors(q)) \in Nat /\ Cardinality(Successors(q)') \in Nat
      BY <2>2, <2>6, <2>7, Counting
    <3> QED
      BY <2>5, <3>1, Given
  <2>9. ASSUME NEW x \in Runs
        PROVE  \/ Successors(x) \subseteq Successors(x)'
               \/ Cardinality(Successors(x)') >= KeepRuns
    <3>1. CASE q \notin Successors(x)
      BY <2>2, <2>4, <3>1 DEF Successors
    <3>2. CASE q \in Successors(x)
      <4>1. Successors(q)' \subseteq Successors(x)'
        <5>1. born[q] > born[x] /\ born[q] \in Nat /\ born[x] \in Nat
          BY <2>2, <3>2 DEF Successors
        <5>2. \A y \in Runs : born[y] > born[q] => born[y] > born[x]
          BY <2>2, <5>1
        <5> QED
          BY <2>2, <5>2 DEF Successors
      <4>2. /\ Cardinality(Successors(q)') <= Cardinality(Successors(x)')
            /\ Cardinality(Successors(x)') \in Nat
        BY <2>2, <2>7, <4>1, Counting
      <4> QED
        BY <2>8, <4>2, Given
    <3> QED
      BY <3>1, <3>2
  <2>10. \A x \in sharedRunIds' : \/ Whole(x)' \/ (x \in sharedRunIds /\ ~Whole(x))
                                  \/ Cardinality(Successors(x)') >= KeepRuns
    BY <2>2, <2>4, <2>8 DEF sharedRunIds
  <2> QED
    BY <2>2, <2>9, <2>10, RetentionKept
<1>7. CASE UNCHANGED store
  BY <1>2, <1>3, <1>7, OnlyComing
<1> QED
  BY <1>4, <1>5, <1>6, <1>7, OnlyCopies

-----------------------------------------------------------------------------
(* What a reading has found.                                               *)

(* A call that has published has nothing more to write, and its copy can   *)
(* only lose files.                                                        *)
Published(q) == pc[q] \in {"pruning", "removing", "over"} /\ Opened(q)
LEMMA PublishedStays ==
  ASSUME GateRunTypeOK, Calls, GateRunNext, NEW q \in Runs, Published(q)
  PROVE  /\ Published(q)' /\ Selected(q)' = Selected(q) /\ sha'[q] = sha[q]
         /\ Receipts(q)' = Receipts(q) /\ Evidence({q})' = Evidence({q})
         /\ Whole(q)' => Whole(q)
<1>1. sha'[q] = sha[q] /\ stage'[q] = stage[q] /\ born'[q] = born[q]
  BY OnlyComing DEF Comes, Published
<1>2. Selected(q)' = Selected(q) /\ Files(q)' = Files(q)
  BY <1>1, SameStage
<1>3. Receipts(q)' = Receipts(q)
  <2>1. ASSUME NEW r \in Runs, NEW status \in {"passed", "failed"}, Ends(r, status)
        PROVE  Receipts(q)' = Receipts(q)
    BY <2>1, Received DEF Ends, Published
  <2>2. ASSUME NEW r \in Runs, NEW g \in Gates, Block(r, g) PROVE Receipts(q)' = Receipts(q)
    BY <2>2, Blocking, Received DEF Published
  <2> QED
    BY <2>1, <2>2, OnlyReceipts, SameReceipts
<1>4. Evidence({q})' = Evidence({q})
  BY <1>3, EvidenceOf
<1>5. shared'[q] \subseteq shared[q]
  BY OnlyCopies DEF Publish, PruneStore, Remove, EndPrune, Crash, Published, GateRunTypeOK
<1>6. Whole(q)' => Whole(q)
  <2>1. shared[q] \subseteq Files(q)
    BY DEF Calls, InStep
  <2> QED
    BY <1>2, <1>5, <2>1 DEF Whole
<1>7. pc'[q] \in {"pruning", "removing", "over"}
  <2>1. ASSUME NEW r \in Runs,
               \/ QueueTimeout(r) \/ Finish(r) \/ Publish(r) \/ CopyFails(r) \/ PruneStore(r)
               \/ Remove(r) \/ EndPrune(r) \/ Crash(r)
        PROVE  pc'[q] \in {"pruning", "removing", "over"}
    BY <2>1
    DEF QueueTimeout, Finish, Publish, CopyFails, PruneStore, Remove, EndPrune,
        Crash,
       Leave, Idle, GateRunTypeOK, Published
  <2>2. ASSUME NEW r \in Runs,
               \/ \E g \in Gates : Execute(r, g) \/ Block(r, g)
               \/ GetLock(r) \/ LockRefused(r) \/ EndFirst(r) \/ EndRetry(r) \/ EndRepeat(r)
        PROVE  pc' = pc
    BY <2>2 DEF Execute, Block, GetLock, LockRefused, EndFirst, EndRetry, EndRepeat
  <2>3. ASSUME NEW w \in Worktrees, Edit(w) \/ CommitAll(w) PROVE pc' = pc
    BY <2>3 DEF Edit, CommitAll
  <2>4. ASSUME (\E c \in {sha[r] : r \in Runs} \ {0} : StartReading(c))
                 \/ OpenManifest \/ ReadFiles \/ Report
        PROVE  pc' = pc
    BY <2>4, ReadingStep
  <2>5. ASSUME NEW r \in Runs, NEW w \in Worktrees, Comes(r, w) PROVE pc'[q] = pc[q]
    BY <2>5 DEF Comes, Published
  <2> QED
    BY <2>1, <2>2, <2>3, <2>4, <2>5, StartComes, EnterComes DEF GateRunNext, Published
<1> QED
  BY <1>1, <1>2, <1>3, <1>4, <1>6, <1>7 DEF Published, Opened

(* Receipts are never lost.                                                *)
LEMMA ReceiptsStay ==
  ASSUME GateRunTypeOK, Calls, [GateRunNext]_gateRunVars
  PROVE  \A q \in Runs : Receipts(q) \subseteq Receipts(q)'
<1>1. ASSUME NEW r \in Runs, NEW status \in {"passed", "failed"}, Ends(r, status)
      PROVE  \A q \in Runs : Receipts(q) \subseteq Receipts(q)'
  BY SMTT(30), <1>1, Received DEF Ends
<1>2. ASSUME NEW r \in Runs, NEW g \in Gates, Block(r, g)
      PROVE  \A q \in Runs : Receipts(q) \subseteq Receipts(q)'
  BY <1>2, Blocking, Received
<1> QED
  BY <1>1, <1>2, OnlyReceipts, SameReceipts

(* Whoever lists a run of the store finds it published.                    *)
LEMMA ListedArePublished ==
  ASSUME Calls, NEW r \in sharedRunIds
  PROVE  r \in Runs /\ Published(r) /\ Receipts(r) = Selected(r)
BY DEF sharedRunIds, Calls, InStep, Published

(* Reading an intact copy yields all its receipts; a whole one is intact.  *)
LEMMA IntactIsAll ==
  ASSUME NEW r \in Runs, Receipts(r) = Selected(r)
  PROVE  /\ Whole(r) => Intact(r) /\ Manifest \in shared[r]
         /\ Intact(r) => {e \in Evidence({r}) : e[2] \in shared[r]} = Evidence({r})
<1>1. Manifest \notin Selected(r)
  BY Given, SelectedGates
<1>2. Whole(r) => Intact(r) /\ Manifest \in shared[r]
  BY DEF Whole, Intact, Files
<1>3. ASSUME Intact(r), NEW e \in Evidence({r}) PROVE e[2] \in shared[r]
  <2>1. e[2] \in Selected(r)
    BY EvidenceOf
  <2> QED
    BY <1>1, <1>3, <2>1 DEF Intact, Files
<1> QED
  BY <1>2, <1>3

(* Every step keeps what a reading has found true.                         *)
LEMMA FoundStep ==
  ASSUME GateRunTypeOK, Calls, Found, [GateRunNext]_gateRunVars
  PROVE  Found'
<1>1. ASSUME UNCHANGED verify, GateRunNext PROVE Found'
  <2> SUFFICES ASSUME verify.pc = "reading" PROVE Found'
    BY <1>1 DEF Found
  <2>1. verify \in Reading
    BY DEF GateRunTypeOK
  <2>2. ASSUME NEW r \in verify.listed
        PROVE  /\ r \in Runs /\ Published(r)' /\ Selected(r)' = Selected(r)
               /\ sha'[r] = sha[r] /\ Receipts(r)' = Receipts(r)
               /\ Evidence({r})' = Evidence({r})
               /\ Whole(r)' => Whole(r)
    <3>1. r \in Runs /\ Published(r)
      BY <2>1 DEF Found, Published, Reading
    <3> QED
      BY <1>1, <3>1, PublishedStays
  <2>3. \A e \in verify.found : e[2] \in Receipts(e[1])'
    BY <2>1, ReceiptsStay DEF Found, Reading
  <2>4. verify' = verify /\ verify.pc = "reading"
    BY <1>1
  <2>5. /\ verify.left \subseteq verify.listed /\ verify.listed \cap verify.local = {}
        /\ verify.run # None =>
             verify.run \in verify.listed \ verify.left /\ sha'[verify.run] = verify.commit
        /\ \A r \in verify.listed : /\ pc'[r] \in {"pruning", "removing", "over"}
                                    /\ Opened(r)' /\ Receipts(r)' = Selected(r)'
    BY ZenonT(60), <2>2 DEF Found, Published
  <2>6. \A r \in Runs \ verify.local :
          \/ \A e \in verify.found : e[1] # r
          \/ r \in verify.listed /\ Evidence({r})' \subseteq verify.found
    BY <2>2 DEF Found
  <2>7. \A r \in verify.listed \ (verify.left \cup {verify.run}) :
          Whole(r)' /\ sha'[r] = verify.commit => Evidence({r})' \subseteq verify.found
    BY <2>2 DEF Found
  <2> QED
    BY <2>3, <2>4, <2>5, <2>6, <2>7 DEF Found
<1>2. ASSUME NEW c \in {sha[r] : r \in Runs} \ {0}, StartReading(c) PROVE Found'
  <2>1. /\ verify'.pc = "reading" /\ verify'.commit = c /\ verify'.local = LocalRuns
        /\ verify'.listed = sharedRunIds \ LocalRuns /\ verify'.left = sharedRunIds \ LocalRuns
        /\ verify'.run = None /\ verify'.found = Evidence(LocalRuns)
    BY <1>2 DEF StartReading
  <2>2. /\ UNCHANGED <<pc, stage, receipts, born>>
        /\ \A r : Receipts(r)' = Receipts(r) /\ Selected(r)' = Selected(r)
    BY <1>2, SameReceipts, SameStage DEF StartReading
  <2>3. \A e \in Evidence(LocalRuns) : e[1] \in LocalRuns /\ e[2] \in Receipts(e[1])
    BY EvidenceOf
  <2> QED
    BY <2>1, <2>2, <2>3, ListedArePublished DEF Found, Published, Opened
<1>3. ASSUME UNCHANGED <<pc, stage, sha, receipts, born, shared>>,
             verify.pc = "reading", verify'.pc = "reading",
             verify'.commit = verify.commit, verify'.local = verify.local,
             verify'.listed = verify.listed, verify'.left \subseteq verify.left,
             verify'.run # None =>
               verify'.run \in verify.left \ verify'.left /\ sha[verify'.run] = verify.commit,
             verify.found \subseteq verify'.found,
             \/ verify'.found = verify.found
             \/ /\ verify.run # None
                /\ verify'.found = verify.found \cup Evidence({verify.run}),
             \A r \in (verify.left \cup {verify.run}) \ (verify'.left \cup {verify'.run}) :
               r # None /\ Whole(r) /\ sha[r] = verify.commit
                 => Evidence({r}) \subseteq verify'.found
      PROVE  Found'
  <2>1. /\ \A r : Receipts(r)' = Receipts(r) /\ Evidence({r})' = Evidence({r})
        /\ \A r : Selected(r)' = Selected(r) /\ Whole(r)' = Whole(r)
    BY <1>3, SameReceipts, SameStage DEF Whole
  <2>2. \A r : \A e \in Evidence({r}) : e[1] = r /\ e[2] \in Receipts(r)
    BY EvidenceOf
  <2>3. \A r \in verify.listed : r \in Runs /\ r # None
    BY Given DEF GateRunTypeOK, Reading
  <2>4. /\ verify'.left \subseteq verify'.listed /\ verify'.listed \cap verify'.local = {}
        /\ verify'.run # None =>
             verify'.run \in verify'.listed \ verify'.left /\ sha'[verify'.run] = verify'.commit
        /\ \A r \in verify'.listed : /\ pc'[r] \in {"pruning", "removing", "over"}
                                     /\ Opened(r)' /\ Receipts(r)' = Selected(r)'
    BY <1>3, <2>1 DEF Found, Opened
  <2>5. \A e \in verify'.found : e[2] \in Receipts(e[1])'
    BY <1>3, <2>1, <2>2 DEF Found
  <2>6. \A r \in Runs \ verify'.local :
          \/ \A e \in verify'.found : e[1] # r
          \/ r \in verify'.listed /\ Evidence({r})' \subseteq verify'.found
    <3> SUFFICES ASSUME NEW r \in Runs \ verify.local
                 PROVE  \/ \A e \in verify'.found : e[1] # r
                        \/ r \in verify.listed /\ Evidence({r}) \subseteq verify'.found
      BY <1>3, <2>1
    <3>1. \/ \A e \in verify.found : e[1] # r
          \/ r \in verify.listed /\ Evidence({r}) \subseteq verify.found
      BY <1>3 DEF Found
    <3>2. verify.run # None => verify.run \in verify.listed
      BY <1>3 DEF Found
    <3>3. \A e \in Evidence({verify.run}) : e[1] = verify.run
      BY <2>2
    <3> QED
      BY <1>3, <3>1, <3>2, <3>3
  <2>7. \A r \in verify'.listed \ (verify'.left \cup {verify'.run}) :
          Whole(r)' /\ sha'[r] = verify'.commit => Evidence({r})' \subseteq verify'.found
    <3> verify'.listed = verify.listed /\ verify'.commit = verify.commit /\ sha' = sha
      BY <1>3
    <3> SUFFICES ASSUME NEW r \in verify.listed \ (verify'.left \cup {verify'.run}),
                        Whole(r), sha[r] = verify.commit
                 PROVE  Evidence({r}) \subseteq verify'.found
      BY <2>1
    <3>1. CASE r \in verify.left \cup {verify.run}
      BY <1>3, <2>3, <3>1
    <3>2. CASE r \notin verify.left \cup {verify.run}
      BY <1>3, <3>2 DEF Found
    <3> QED
      BY <3>1, <3>2
  <2> QED
    BY <2>4, <2>5, <2>6, <2>7 DEF Found
<1>4. CASE OpenManifest
  <2>1. PICK r \in verify.left :
          verify' = [verify EXCEPT !.left = @ \ {r},
            !.run = IF Manifest \in shared[r] /\ sha[r] = verify.commit THEN r ELSE None]
    BY <1>4 DEF OpenManifest
  <2>2. /\ verify.pc = "reading" /\ verify.run = None
        /\ UNCHANGED <<pc, stage, sha, receipts, born, shared>>
    BY <1>4 DEF OpenManifest
  <2>3. verify \in Reading
    BY DEF GateRunTypeOK
  <2>4. /\ verify'.pc = "reading" /\ verify'.commit = verify.commit
        /\ verify'.local = verify.local /\ verify'.listed = verify.listed
        /\ verify'.left = verify.left \ {r} /\ verify'.found = verify.found
        /\ verify'.run =
             IF Manifest \in shared[r] /\ sha[r] = verify.commit THEN r ELSE None
    BY <2>1, <2>2, <2>3 DEF Reading
  <2>5. Whole(r) => Manifest \in shared[r]
    BY DEF Whole, Files
  <2> QED
    BY <1>3, <2>2, <2>4, <2>5
<1>5. CASE ReadFiles
  <2> DEFINE r == verify.run
  <2>1. /\ verify.pc = "reading" /\ r # None
        /\ UNCHANGED <<pc, stage, sha, receipts, born, shared>>
        /\ verify' = [verify EXCEPT
             !.run = None,
             !.found = @ \cup IF Intact(r) THEN {e \in Evidence({r}) : e[2] \in shared[r]}
                              ELSE {}]
    BY <1>5 DEF ReadFiles
  <2>2. verify \in Reading
    BY DEF GateRunTypeOK
  <2>3. /\ verify'.pc = "reading" /\ verify'.commit = verify.commit
        /\ verify'.local = verify.local /\ verify'.listed = verify.listed
        /\ verify'.left = verify.left /\ verify'.run = None
        /\ verify'.found = verify.found \cup
             IF Intact(r) THEN {e \in Evidence({r}) : e[2] \in shared[r]} ELSE {}
    BY <2>1, <2>2 DEF Reading
  <2>4. r \in Runs /\ Receipts(r) = Selected(r)
    BY <2>1, <2>2 DEF Found, Reading
  <2>5. /\ Whole(r) => Intact(r)
        /\ Intact(r) => {e \in Evidence({r}) : e[2] \in shared[r]} = Evidence({r})
    BY <2>4, IntactIsAll
  <2>6. /\ Whole(r) => Evidence({r}) \subseteq verify'.found
        /\ verify.found \subseteq verify'.found
        /\ \/ verify'.found = verify.found
           \/ verify'.found = verify.found \cup Evidence({r})
    BY <2>3, <2>5
  <2> QED
    BY <1>3, <2>1, <2>3, <2>6
<1>6. CASE Report
  BY <1>6 DEF Report, NotReading, Found
<1>7. CASE UNCHANGED gateRunVars
  <2>1. UNCHANGED <<verify, pc, stage, sha, receipts, born, shared>>
    BY <1>7 DEF gateRunVars
  <2>2. /\ \A r : Receipts(r)' = Receipts(r) /\ Evidence({r})' = Evidence({r})
        /\ \A r : Selected(r)' = Selected(r) /\ Whole(r)' = Whole(r)
    BY <2>1, SameReceipts, SameStage DEF Whole
  <2> QED
    BY ZenonT(60), <2>1, <2>2 DEF Found, Opened
<1>8. ASSUME NEW r \in Runs,
             \/ QueueTimeout(r) \/ Finish(r) \/ Publish(r) \/ CopyFails(r) \/ PruneStore(r)
             \/ Remove(r) \/ EndPrune(r) \/ Crash(r)
             \/ \E g \in Gates : Execute(r, g) \/ Block(r, g)
             \/ GetLock(r) \/ LockRefused(r) \/ EndFirst(r) \/ EndRetry(r) \/ EndRepeat(r)
      PROVE  UNCHANGED verify
  BY <1>8
  DEF QueueTimeout, Finish, Publish, CopyFails, PruneStore, Remove, EndPrune,
      Crash,
     Execute, Block, GetLock, LockRefused, EndFirst, EndRetry, EndRepeat
<1>9. ASSUME NEW w \in Worktrees, Edit(w) \/ CommitAll(w) PROVE UNCHANGED verify
  BY <1>9 DEF Edit, CommitAll
<1>10. ASSUME NEW r \in Runs, NEW w \in Worktrees, Comes(r, w) PROVE UNCHANGED verify
  BY <1>10 DEF Comes
<1> QED
  BY <1>1, <1>2, <1>4, <1>5, <1>6, <1>7, <1>8, <1>9, <1>10, StartComes,
     EnterComes DEF GateRunNext

-----------------------------------------------------------------------------
(* The theorems.                                                           *)

(* Among the receipts that count there is a latest.                        *)
LEMMA LatestCounts ==
  ASSUME GateRunTypeOK, Calls, Identifiers, Found, verify.pc = "reading",
         NEW g \in Gates, Counted(g) # {}
  PROVE  /\ latest(Counted(g)) \in Counted(g)
         /\ \A f \in Counted(g) : f = latest(Counted(g)) \/ Before(f, latest(Counted(g)))
<1> DEFINE at(r) == receipts[r][g].startedAt
           R == {r \in Runs : <<r, g>> \in Counted(g)}
           A == [r \in R |-> at(r)]
<1>1. \A e \in Counted(g) : e[1] \in R /\ e = <<e[1], g>>
  <2>1. \A e \in Counted(g) : e \in Runs \X Gates /\ e[2] = g
    BY DEF Counted, GateRunTypeOK, Reading
  <2>2. \A e \in Counted(g) : e[1] \in Runs /\ e = <<e[1], g>>
    BY <2>1
  <2> QED
    BY <2>2
<1>2. R \in SUBSET Runs /\ IsFiniteSet(R) /\ R # {}
  BY <1>1, Counting
<1>3. \A r \in R : at(r) \in Nat /\ born[r] \in Nat
  BY <1>2 DEF GateRunTypeOK, Receipt
<1>4. \A r \in R : Opened(r)
  BY DEF Found, Counted, Calls, InStep
<1>5. PICK m \in R : \A r \in R : at(r) <= at(m)
  <2>1. A \in [R -> Nat]
    BY <1>3
  <2> HIDE DEF A
  <2>2. IsFiniteSet({A[r] : r \in R}) /\ {A[r] : r \in R} \in SUBSET Nat /\ {A[r] : r \in R} # {}
    BY <1>2, <2>1, FiniteRange
  <2>3. \E n \in {A[r] : r \in R} : \A k \in {A[r] : r \in R} : k <= n
    BY <2>2, FiniteMax
  <2>4. \E n \in R : \A r \in R : A[r] <= A[n]
    BY <2>3
  <2> QED
    BY <2>4 DEF A
<1> DEFINE Q == {r \in R : at(r) = at(m)}
           B == [r \in Q |-> born[r]]
<1>6. Q \in SUBSET Runs /\ IsFiniteSet(Q) /\ m \in Q
  BY <1>2, <1>5, Counting
<1>7. PICK n \in Q : \A r \in Q : born[r] <= born[n]
  <2>1. B \in [Q -> Nat]
    BY <1>3
  <2> HIDE DEF B
  <2>2. IsFiniteSet({B[r] : r \in Q}) /\ {B[r] : r \in Q} \in SUBSET Nat /\ {B[r] : r \in Q} # {}
    <3> HIDE DEF Q
    <3> QED
      BY <1>6, <2>1, FiniteRange
  <2>3. \E k \in {B[r] : r \in Q} : \A l \in {B[r] : r \in Q} : l <= k
    BY <2>2, FiniteMax
  <2>4. \E k \in Q : \A r \in Q : B[r] <= B[k]
    BY <2>3
  <2> QED
    BY <2>4 DEF B
<1>8. <<n, g>> \in Counted(g)
  BY <1>7
<1>9. ASSUME NEW f \in Counted(g), f # <<n, g>> PROVE Before(f, <<n, g>>)
  <2>1. f[1] \in R /\ f = <<f[1], g>> /\ f[1] # n /\ n \in R
    BY <1>1, <1>7, <1>9
  <2>2. at(f[1]) \in Nat /\ at(n) \in Nat /\ born[f[1]] \in Nat /\ born[n] \in Nat
    BY <1>3, <2>1
  <2>3. at(f[1]) <= at(n) /\ at(n) = at(m)
    BY <1>5, <1>7, <2>1
  <2>4. CASE at(f[1]) = at(n)
    <3>1. born[f[1]] <= born[n]
      BY <1>7, <2>1, <2>3, <2>4
    <3>2. born[f[1]] # born[n]
      BY <1>2, <1>4, <2>1 DEF Identifiers
    <3> QED
      BY <2>1, <2>2, <2>4, <3>1, <3>2 DEF Before, receipt
  <2>5. CASE at(f[1]) # at(n)
    BY <2>1, <2>2, <2>3, <2>5 DEF Before, receipt
  <2> QED
    BY <2>4, <2>5
<1>10. \E e \in Counted(g) : \A f \in Counted(g) : f = e \/ Before(f, e)
  BY <1>8, <1>9
<1> QED
  BY <1>10 DEF latest

(* The invariant holds in the initial state.                               *)
LEMMA InitIInv ==
  ASSUME GateRunInit
  PROVE  IInv
<1> USE DEF GateRunInit
<1>1. GateRunTypeOK
  <2>1. check \in [Runs -> Check] /\ verify \in Reading
    BY Constants DEF NotReading, Reading
  <2>2. receipts \in [Runs -> [Gates -> Receipt]]
    BY Constants
  <2> QED
    BY <2>1, <2>2, Given DEF GateRunTypeOK, Clean, Stages
<1>2. \A r \in Runs : Receipts(r) = {} /\ ~Opened(r) /\ ~Executing(r)
  BY DEF Receipts, Opened, Executing
<1>3. Calls
  BY <1>2, Constants DEF Calls, InStep
<1>4. Identifiers
  <2>1. Cardinality(Opening) \in Nat
    BY Counting DEF Opening
  <2> QED
    BY <1>2, <2>1 DEF Identifiers, Opened
<1>5. OneSuite
  BY <1>2 DEF OneSuite, HeldByTheLiving
<1>6. OnCode /\ RelaunchOnSameCode
  BY <1>2, Constants DEF OnCode, RelaunchOnSameCode
<1>7. Proofs
  BY <1>2 DEF Proofs
<1>8. Order
  <2>1. \A g : Cardinality(WrittenBy(g)) \in Nat
    BY Counting DEF WrittenBy
  <2> QED
    BY <1>2, <2>1 DEF Order
<1>9. Retention
  BY DEF Retention, sharedRunIds
<1>10. Found
  BY DEF Found, NotReading
<1> QED
  BY <1>1, <1>3, <1>4, <1>5, <1>6, <1>7, <1>8, <1>9, <1>10 DEF IInv

(* Every step keeps the invariant.                                         *)
LEMMA NextIInv ==
  ASSUME IInv, [GateRunNext]_gateRunVars
  PROVE  IInv'
BY TypeStep, CallsStep, IdentifiersStep, OneSuiteStep, OnCodeStep, RelaunchStep,
   ProofsStep,
   OrderStep, RetentionStep, FoundStep DEF IInv

(* The invariant holds in every reachable state.                           *)
THEOREM InvariantHolds == GateRunSpec => []IInv
BY InitIInv, NextIInv, PTL DEF GateRunSpec

(* Every variable keeps to its values.                                     *)
THEOREM TypeCorrect == GateRunSpec => []GateRunTypeOK
<1>1. IInv => GateRunTypeOK
  BY DEF IInv
<1> QED
  BY <1>1, InvariantHolds, PTL

(* The queue of the suites and the lock of the gates are held by calls     *)
(* that are still at work, whoever crashes or waits in vain.               *)
THEOREM HeldByLiving == GateRunSpec => []HeldByTheLiving
<1>1. IInv => HeldByTheLiving
  BY DEF IInv, OneSuite
<1> QED
  BY <1>1, InvariantHolds, PTL

(* What `gates verify` reports as passed passed on the commit it names.    *)
THEOREM ReportedIsGenuine == GateRunSpec => []ProofIsGenuine
<1>1. ASSUME IInv PROVE ProofIsGenuine
  <2> SUFFICES ASSUME Verdict, NEW g \in Gates, Proven(g)
               PROVE  \/ home[latest(Counted(g))[1]] \in Restless
                      \/ latest(Counted(g)) \in genuine
    BY DEF ProofIsGenuine
  <2> DEFINE e == latest(Counted(g))
  <2>1. e \in Counted(g) /\ success(receipt(e))
    BY <1>1, LatestCounts DEF IInv, Verdict, Proven
  <2>2. /\ e \in verify.found /\ e[2] = g /\ ~Targeted(e[1], g) /\ ~dirty(e[1])
        /\ e[1] \in Runs /\ e = <<e[1], g>> /\ g \in Receipts(e[1])
    BY <1>1, <2>1 DEF IInv, Found, Verdict, Counted, GateRunTypeOK, Reading
  <2> QED
    BY <1>1, <2>1, <2>2 DEF IInv, Proofs, receipt
<1> QED
  BY <1>1, InvariantHolds, PTL

(* A relaunch is one on the commit and the tree of the failure.            *)
THEOREM RelaunchedOnSameCode == GateRunSpec => []RelaunchOnSameCode
<1>1. IInv => RelaunchOnSameCode
  BY DEF IInv
<1> QED
  BY <1>1, InvariantHolds, PTL

(* The success of a suite hides no failure that was written after it.      *)
THEOREM NoHiddenFailure == GateRunSpec => []SuiteFailureNotHidden
<1>1. ASSUME IInv PROVE SuiteFailureNotHidden
  <2> SUFFICES ASSUME Verdict, NEW g \in FullGates, Proven(g),
                      NEW f \in HiddenFailures(latest(Counted(g)))
               PROVE  FALSE
    BY DEF SuiteFailureNotHidden
  <2> DEFINE e == latest(Counted(g))
  <2>1. g \in Gates /\ verify \in Reading /\ verify.pc = "reading"
    BY <1>1, Given DEF IInv, Verdict, GateRunTypeOK
  <2>2. /\ e \in Counted(g) /\ success(receipt(e))
        /\ \A x \in Counted(g) : x = e \/ Before(x, e)
    BY <1>1, <2>1, LatestCounts DEF IInv, Proven
  <2>3. /\ e[2] = g /\ ~Targeted(e[1], g) /\ ~dirty(e[1])
        /\ e[1] \in Runs /\ g \in Receipts(e[1])
    BY <1>1, <2>1, <2>2 DEF IInv, Found, Counted, Reading
  <2> HIDE DEF e
  <2>4. /\ f \in verify.found \cup Evidence(verify.listed)
        /\ f[2] = g /\ sha[f[1]] = verify.commit /\ ~Targeted(f[1], g) /\ ~dirty(f[1])
        /\ ~success(receipt(f)) /\ written[f[1]][g] > written[e[1]][g]
        /\ f[1] \in verify.local \/ Whole(f[1])
    BY <2>3 DEF HiddenFailures, e
  <2>5. f \in verify.found
    <3>1. CASE f \in Evidence(verify.listed)
      <4>1. f[1] \in verify.listed /\ f \in Evidence({f[1]}) /\ f[1] # None
        BY <2>1, <3>1, EvidenceOf, Given DEF Reading
      <4>2. verify.listed \cap verify.local = {} /\ verify.left = {} /\ verify.run = None
        BY <1>1, <2>1 DEF IInv, Found, Verdict
      <4> QED
        BY <1>1, <2>1, <2>4, <4>1, <4>2 DEF IInv, Found
    <3> QED
      BY <2>4, <3>1
  <2>6. f[1] \in Runs /\ g \in Receipts(f[1]) /\ f \in Counted(g)
    BY <1>1, <2>1, <2>4, <2>5 DEF IInv, Found, Counted, Reading
  <2>7. Suite(e[1]) /\ Suite(f[1])
    BY <2>3, <2>4 DEF Targeted
  <2>8. receipts[e[1]][g].startedAt < receipts[f[1]][g].startedAt
    <3>1. written[e[1]][g] < written[f[1]][g]
      <4>1. written[e[1]][g] \in Nat /\ written[f[1]][g] \in Nat
        BY <1>1, <2>1, <2>3, <2>6 DEF IInv, GateRunTypeOK
      <4> QED
        BY <2>4, <4>1
    <3> QED
      BY <1>1, <2>1, <2>3, <2>6, <2>7, <3>1 DEF IInv, Order
  <2>9. f # e /\ Before(f, e)
    BY <2>2, <2>4, <2>6
  <2>10. receipts[e[1]][g].startedAt \in Nat /\ receipts[f[1]][g].startedAt \in Nat
    BY <1>1, <2>1, <2>3, <2>6 DEF IInv, GateRunTypeOK, Receipt
  <2> QED
    BY <2>3, <2>4, <2>8, <2>9, <2>10 DEF Before, receipt
<1> QED
  BY <1>1, InvariantHolds, PTL

(* The shared store gives a run whole or not at all, and loses one only    *)
(* to KeepRuns more recent ones.                                           *)
THEOREM StoreKeeps == GateRunSpec => []StoreKeepsWholeRuns
<1>1. ASSUME IInv PROVE StoreKeepsWholeRuns
  <2>1. Verdict => \A r \in Runs \ verify.local :
                     \/ \A e \in verify.found : e[1] # r
                     \/ Evidence({r}) \subseteq verify.found
    BY <1>1 DEF IInv, Found, Verdict
  <2>2. \A r \in sharedRunIds : ~Whole(r) =>
          Cardinality({q \in Runs : Whole(q) /\ born[q] > born[r]}) >= KeepRuns
    BY <1>1 DEF IInv, Retention, Successors
  <2> QED
    BY <2>1, <2>2 DEF StoreKeepsWholeRuns
<1> QED
  BY <1>1, InvariantHolds, PTL
=============================================================================
