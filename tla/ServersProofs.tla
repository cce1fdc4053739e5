--------------------------- MODULE ServersProofs -----------------------------
(* Proofs of the safety properties of Servers, for every value of the      *)
(* constants.  A behaviour is one of the part chosen at the start: the     *)
(* first lemmas say what a step is, seen from each part.                   *)
EXTENDS Servers, FiniteSetTheorems, SequenceTheorems, TLAPS

pvVars == <<lock, record, pc, seen, target, pvOnly>>
isVars == <<lock, record, pc, seen, isOnly>>
smVars == <<pc, target, smOnly>>
rhVars == <<proven, moves, rhOnly>>

(* The part does not change.                                               *)
LEMMA PartStays == [Next]_vars => part' = part
BY DEF Next, StepPV, StepIS, StepBM, StepSM, StepRH, vars

(* A step of the whole is one of Preview, or leaves it alone.              *)
LEMMA PreviewStep == part = "preview" /\ [Next]_vars => PV!Next \/ UNCHANGED pvVars
BY DEF Next, StepPV, StepIS, StepBM, StepSM, StepRH, vars, common, pvVars

(* The same for IdleStacks.                                                *)
LEMMA StacksStep == part = "stacks" /\ [Next]_vars => IS!Next \/ UNCHANGED isVars
BY DEF Next, StepPV, StepIS, StepBM, StepSM, StepRH, vars, common, isVars

(* The same for BatchMerge.                                                *)
LEMMA BatchStep == part = "batch" /\ [Next]_vars => BM!Next \/ UNCHANGED bmVars
BY DEF Next, StepPV, StepIS, StepBM, StepSM, StepRH, vars, common, bmVars

(* The same for StackMerge.                                                *)
LEMMA MergeStep == part = "merge" /\ [Next]_vars => SM!Next \/ UNCHANGED smVars
BY DEF Next, StepPV, StepIS, StepBM, StepSM, StepRH, vars, common, smVars

(* The same for Rhythm.                                                    *)
LEMMA RhythmStep == part = "rhythm" /\ [Next]_vars => RH!Next \/ UNCHANGED rhVars
BY DEF Next, StepPV, StepIS, StepBM, StepSM, StepRH, vars, common, rhVars
-----------------------------------------------------------------------------
(* A sequence of whatever it holds.                                        *)
IsSeq(s) == \E T : s \in Seq(T)

(* What is appended to a sequence is its last element, and the rest stays. *)
LEMMA Appended ==
  ASSUME NEW s, IsSeq(s), NEW e
  PROVE  /\ IsSeq(Append(s, e)) /\ Len(s) \in Nat /\ Len(Append(s, e)) = Len(s) + 1
         /\ DOMAIN s = 1..Len(s) /\ DOMAIN Append(s, e) = 1..Len(s) + 1
         /\ \A k \in 1..Len(s) : Append(s, e)[k] = s[k]
         /\ Append(s, e)[Len(s) + 1] = e
<1>1. PICK T : s \in Seq(T)
  BY DEF IsSeq
<1>2. s \in Seq(T \cup {e}) /\ e \in T \cup {e}
  BY <1>1
<1>3. Append(s, e) \in Seq(T \cup {e})
  BY <1>2
<1>4. IsSeq(Append(s, e))
  BY <1>3 DEF IsSeq
<1> QED
  BY <1>2, <1>3, <1>4
-----------------------------------------------------------------------------
(* StackMerge.  What the merges brought to the target stays there; between *)
(* the comparison and the merge nothing of ours lands; a merge the report  *)
(* does not name yet is that of the pull request at hand.                  *)
smPlaces == {"read", "planning", "view", "retarget", "reread", "settle", "settleReady",
             "ready", "compare", "merge", "after", "stopped", "merged"}
smShape(p) == {"state", "base", "head", "clean", "draft"} \subseteq DOMAIN p
smTypes ==
  /\ pc \in smPlaces /\ i \in 1..N
  /\ IsSeq(report) /\ IsSeq(merges)
  /\ DOMAIN prs = 1..N /\ \A n \in 1..N : smShape(prs[n])

smPlan == pc \in {"read", "planning"} => report = <<>> /\ merges = <<>>
smPrefix ==
  /\ \A n \in DOMAIN report : report[n] = n /\ n <= N
  /\ pc \notin {"stopped", "merged"} => Len(report) < i
  /\ pc \notin {"stopped", "merged", "read", "planning"} => Len(report) + 1 = i
smReported ==
  \A n \in DOMAIN report : prs[n].state = "MERGED" /\ prs[n].base = "target"
smNamed ==
  \A k \in DOMAIN merges :
    \/ merges[k].pr \in 1..Len(report)
    \/ k = Len(merges) /\ merges[k].pr = Len(report) + 1 /\ pc \in {"after", "stopped"}
smLanded ==
  \A k \in DOMAIN merges :
    merges[k].base = "target" =>
      /\ merges[k].landed \subseteq target
      /\ pc = "merge" => merges[k].landed \subseteq compared
smCompared ==
  pc = "merge" /\ SM!Changes(compared) \ pr.head # {} => <<i, pr.head>> \in journal

smInv ==
  /\ smTypes /\ smPlan /\ smPrefix /\ smReported /\ smNamed /\ smLanded /\ smCompared
  /\ SM!MergedAsVerified

(* The steps of StackMerge that merge nothing and report nothing.          *)
smQuiet ==
  \/ SM!PlanRead \/ SM!PlanCompare \/ SM!View \/ SM!Retarget \/ SM!Reread \/ SM!Settle
  \/ SM!Ready \/ SM!Compare \/ SM!Others \/ UNCHANGED smVars

(* A pull request with another state, base, head, check or draft status.   *)
LEMMA Reshaped ==
  ASSUME NEW p, smShape(p), NEW q,
         \/ \E v : q = [p EXCEPT !.state = v]
         \/ \E v : q = [p EXCEPT !.base = v]
         \/ \E v : q = [p EXCEPT !.clean = v]
         \/ \E v : q = [p EXCEPT !.draft = v]
         \/ \E v, w : q = [p EXCEPT !.head = v, !.clean = w]
  PROVE  smShape(q)
BY DEF smShape

(* What they change: a pull request that is no longer open stays as it is, *)
(* the target and the journal only grow.                                   *)
LEMMA QuietEffect ==
  ASSUME ServersAssumption, smTypes, smQuiet
  PROVE  /\ UNCHANGED <<report, merges>>
         /\ target \subseteq target' /\ journal \subseteq journal'
         /\ DOMAIN prs' = 1..N
         /\ \A n \in 1..N :
              /\ smShape(prs'[n])
              /\ prs[n].state = "MERGED" =>
                   prs'[n].state = "MERGED" /\ prs'[n].base = prs[n].base
<1> USE DEF smTypes
<1>1. CASE SM!PlanRead \/ SM!PlanCompare \/ SM!View \/ SM!Reread \/ SM!Settle
  <2>1. UNCHANGED <<report, merges, target, journal, prs>>
    BY <1>1
    DEF SM!PlanRead, SM!PlanCompare, SM!View, SM!Reread, SM!Settle, SM!Stop,
        SM!tool, SM!github
  <2> QED
    BY <2>1
<1>2. CASE SM!Retarget \/ SM!Ready
  <2>1. UNCHANGED <<report, merges, target, journal>>
    BY <1>2 DEF SM!Retarget, SM!Ready, SM!tool
  <2>2. \/ prs' = prs
        \/ prs[i].state = "OPEN" /\ prs' = [prs EXCEPT ![i].base = "target"]
        \/ prs' = [prs EXCEPT ![i].draft = FALSE]
    BY <1>2 DEF SM!Retarget, SM!Ready
  <2>3. DOMAIN prs' = 1..N /\ \A n \in 1..N \ {i} : prs'[n] = prs[n]
    BY <2>2
  <2>4. /\ smShape(prs'[i])
        /\ prs[i].state = "MERGED" => prs'[i].state = "MERGED" /\ prs'[i].base = prs[i].base
    <3>1. \/ prs' = prs
          \/ prs[i].state = "OPEN" /\ prs'[i] = [prs[i] EXCEPT !.base = "target"]
          \/ prs'[i] = [prs[i] EXCEPT !.draft = FALSE]
      BY <2>2
    <3>2. smShape(prs[i])
      OBVIOUS
    <3>3. ASSUME NEW q, q = [prs[i] EXCEPT !.draft = FALSE]
          PROVE  smShape(q) /\ q.state = prs[i].state /\ q.base = prs[i].base
      BY <3>2, <3>3, Reshaped DEF smShape
    <3>4. ASSUME NEW q, q = [prs[i] EXCEPT !.base = "target"]
          PROVE  smShape(q) /\ q.state = prs[i].state
      BY <3>2, <3>4, Reshaped DEF smShape
    <3> QED
      BY <3>1, <3>2, <3>3, <3>4
  <2> QED
    BY <2>1, <2>3, <2>4
<1>3. CASE SM!Compare
  BY <1>3 DEF SM!Compare, SM!Stop, SM!tool, SM!github
<1>4. CASE SM!Others
  <2>1. UNCHANGED <<report, merges, journal>>
    BY <1>4 DEF SM!Others
  <2>2. target \subseteq target'
    BY <1>4 DEF SM!Others
  <2>3. \/ prs' = prs
        \/ \E n \in 1..N :
             /\ prs[n].state = "OPEN"
             /\ \/ \E c, clean : prs' = [prs EXCEPT ![n].head = c, ![n].clean = clean]
                \/ \E b : prs' = [prs EXCEPT ![n].base = b]
                \/ prs' = [prs EXCEPT ![n].state = "CLOSED"]
                \/ \E clean : prs' = [prs EXCEPT ![n].clean = clean]
                \/ prs' = [prs EXCEPT ![n].state = "MERGED"]
    BY <1>4 DEF SM!Others, SM!Pull
  <2>4. CASE prs' = prs
    BY <2>1, <2>2, <2>4
  <2>5. ASSUME NEW n \in 1..N, prs[n].state = "OPEN",
               \/ \E c, clean : prs' = [prs EXCEPT ![n].head = c, ![n].clean = clean]
               \/ \E b : prs' = [prs EXCEPT ![n].base = b]
               \/ prs' = [prs EXCEPT ![n].state = "CLOSED"]
               \/ \E clean : prs' = [prs EXCEPT ![n].clean = clean]
               \/ prs' = [prs EXCEPT ![n].state = "MERGED"]
        PROVE  /\ DOMAIN prs' = 1..N
               /\ \A m \in 1..N :
                    /\ smShape(prs'[m])
                    /\ prs[m].state = "MERGED" => prs'[m] = prs[m]
    <3>1. DOMAIN prs' = 1..N /\ \A m \in 1..N \ {n} : prs'[m] = prs[m]
      BY <2>5
    <3>2. \/ \E c, clean : prs'[n] = [prs[n] EXCEPT !.head = c, !.clean = clean]
          \/ \E b : prs'[n] = [prs[n] EXCEPT !.base = b]
          \/ \E clean : prs'[n] = [prs[n] EXCEPT !.clean = clean]
          \/ \E what : prs'[n] = [prs[n] EXCEPT !.state = what]
      <4>1. CASE \E c, clean : prs' = [prs EXCEPT ![n].head = c, ![n].clean = clean]
        <5>1. PICK c, clean : prs' = [prs EXCEPT ![n].head = c, ![n].clean = clean]
          BY <4>1
        <5>2. prs'[n] = [prs[n] EXCEPT !.head = c, !.clean = clean]
          BY <5>1
        <5> QED
          BY <5>2
      <4>2. CASE \E b : prs' = [prs EXCEPT ![n].base = b]
        BY <4>2
      <4>3. CASE \E clean : prs' = [prs EXCEPT ![n].clean = clean]
        BY <4>3
      <4>4. CASE prs' = [prs EXCEPT ![n].state = "CLOSED"] \/ prs' = [prs EXCEPT ![n].state = "MERGED"]
        BY <4>4
      <4> QED
        BY <2>5, <4>1, <4>2, <4>3, <4>4
    <3>3. smShape(prs'[n])
      <4>1. smShape(prs[n])
        OBVIOUS
      <4>2. PICK q : q = prs'[n]
        OBVIOUS
      <4>3. \/ \E c, clean : q = [prs[n] EXCEPT !.head = c, !.clean = clean]
            \/ \E b : q = [prs[n] EXCEPT !.base = b]
            \/ \E clean : q = [prs[n] EXCEPT !.clean = clean]
            \/ \E what : q = [prs[n] EXCEPT !.state = what]
        BY <3>2, <4>2
      <4>4. smShape(q)
        BY <4>1, <4>3, Reshaped
      <4> QED
        BY <4>2, <4>4
    <3> QED
      BY <2>5, <3>1, <3>3
  <2> QED
    BY <2>1, <2>2, <2>3, <2>4, <2>5
<1>5. CASE UNCHANGED smVars
  BY <1>5 DEF smVars, smOnly
<1> QED
  BY <1>1, <1>2, <1>3, <1>4, <1>5 DEF smQuiet

(* Where they go.                                                          *)
LEMMA QuietPlaces ==
  ASSUME ServersAssumption, smTypes, smQuiet
  PROVE  /\ pc' \in smPlaces /\ i' \in 1..N
         /\ \/ pc' = pc /\ UNCHANGED <<i, pr, compared>>
            \/ pc = "read" /\ pc' \in {"read", "planning"}
            \/ pc = "planning" /\ pc' \in {"planning", "stopped"}
            \/ pc = "planning" /\ pc' = "view" /\ i' = 1
            \/ pc \notin {"read", "planning"} /\ pc' = "stopped" /\ i' = i
            \/ /\ pc \in {"view", "retarget", "reread", "settle", "settleReady", "ready", "compare"}
               /\ pc' \in {"view", "retarget", "reread", "settle", "settleReady", "ready", "compare"}
               /\ i' = i
            \/ pc = "compare" /\ pc' = "merge" /\ i' = i /\ SM!Compare
<1> USE DEF smTypes, smPlaces
<1>0. N \in Nat \ {0}
  BY DEF ServersAssumption, SM!StackAssumption
<1>1. CASE SM!PlanRead
  BY <1>0, <1>1 DEF SM!PlanRead
<1>2. CASE SM!PlanCompare
  BY <1>0, <1>2 DEF SM!PlanCompare
<1>3. CASE SM!View \/ SM!Retarget \/ SM!Reread
  BY <1>3 DEF SM!View, SM!Retarget, SM!Reread, SM!Stop, SM!tool
<1>4. CASE SM!Settle \/ SM!Ready
  BY <1>4 DEF SM!Settle, SM!Ready, SM!Stop, SM!tool
<1>5. CASE SM!Compare
  BY <1>5 DEF SM!Compare, SM!Stop, SM!tool
<1>6. CASE SM!Others
  BY <1>6 DEF SM!Others
<1>7. CASE UNCHANGED smVars
  BY <1>7 DEF smVars, smOnly
<1> QED
  BY <1>1, <1>2, <1>3, <1>4, <1>5, <1>6, <1>7 DEF smQuiet

(* They keep the invariant.                                                *)
LEMMA QuietKeeps ==
  ASSUME ServersAssumption, smInv, smQuiet
  PROVE  smInv'
<1> USE DEF smInv
<1>1. smTypes'
  BY QuietEffect, QuietPlaces DEF smTypes
<1>2. smPlan' /\ smPrefix' /\ smNamed'
  <2>1. pc \in {"read", "planning"} => report = <<>> /\ merges = <<>> /\ Len(report) = 0
    BY DEF smPlan
  <2>2. Len(report) \in Nat
    BY Appended DEF smTypes
  <2>3. smPlan'
    BY QuietEffect, QuietPlaces DEF smPlan
  <2>4. smPrefix'
    BY <2>1, <2>2, QuietEffect, QuietPlaces DEF smPrefix, smTypes
  <2>5. smNamed'
    BY <2>1, QuietEffect, QuietPlaces DEF smNamed
  <2> QED
    BY <2>3, <2>4, <2>5
<1>3. smReported'
  <2>1. DOMAIN report \subseteq 1..N
    BY Appended DEF smPrefix, smTypes
  <2> QED
    BY <2>1, QuietEffect DEF smReported
<1>4. smLanded' /\ smCompared'
  <2>1. CASE SM!Compare /\ pc' = "merge"
    <3>1. /\ compared' = target /\ target' = target /\ pr' = pr /\ i' = i /\ merges' = merges
          /\ LET fresh == SM!Freshness(pr.head, target)
             IN  journal' = IF fresh = "behind" THEN journal \union {<<i, pr.head>>} ELSE journal
      BY <2>1 DEF SM!Compare, SM!Seen, SM!Stop, SM!github
    <3>2. smLanded'
      BY <3>1 DEF smLanded
    <3>3. SM!Changes(target) \ pr.head # {} => SM!Freshness(pr.head, target) = "behind"
      BY DEF SM!Changes, SM!Freshness
    <3> QED
      BY <3>1, <3>2, <3>3 DEF smCompared, SM!Changes
  <2>2. CASE ~(SM!Compare /\ pc' = "merge")
    <3>1. pc' = "merge" => pc = "merge" /\ UNCHANGED <<i, pr, compared>>
      BY <2>2, QuietPlaces
    <3> QED
      BY <3>1, QuietEffect DEF smLanded, smCompared, SM!Changes
  <2> QED
    BY <2>1, <2>2
<1>5. SM!MergedAsVerified'
  BY QuietEffect DEF SM!MergedAsVerified, SM!Changes
<1> QED
  BY <1>1, <1>2, <1>3, <1>4, <1>5

(* A merge is of the head whose checks were read, after the comparison.    *)
LEMMA MergeKeeps ==
  ASSUME ServersAssumption, smInv, SM!MergeNext
  PROVE  smInv'
<1> USE DEF smInv
<1>0. pc = "merge" /\ pc' = "after" /\ UNCHANGED <<i, pr, compared, journal, report>>
  BY DEF SM!MergeNext
<1>a. Len(report) \in Nat /\ Len(merges) \in Nat /\ DOMAIN merges = 1..Len(merges)
      /\ Len(report) + 1 = i /\ DOMAIN report = 1..Len(report)
  BY <1>0, Appended DEF smTypes, smPrefix
<1>1. CASE UNCHANGED <<prs, target, merges>>
  <2>1. smTypes' /\ smPlan' /\ smPrefix' /\ smReported' /\ smNamed'
    BY <1>0, <1>1, <1>a DEF smTypes, smPlaces, smPlan, smPrefix, smReported, smNamed
  <2>2. smLanded' /\ smCompared' /\ SM!MergedAsVerified'
    BY <1>0, <1>1 DEF smLanded, smCompared, SM!MergedAsVerified, SM!Changes
  <2> QED
    BY <2>1, <2>2
<1>2. CASE ~UNCHANGED <<prs, target, merges>>
  <2>1. PICK m :
          /\ merges' = Append(merges, m)
          /\ m.pr = i /\ m.head = prs[i].head /\ m.seen = pr.head /\ m.base = prs[i].base
          /\ m.compared = compared
          /\ target' = IF prs[i].base = "target" THEN target \union m.landed ELSE target
    <3>1. SM!MergeNext => 
            /\ merges' = Append(merges, [pr |-> i, head |-> prs[i].head, seen |-> pr.head,
                                         base |-> prs[i].base,
                                         landed |-> SM!Landed(i, prs[i].head),
                                         compared |-> compared])
            /\ target' = IF prs[i].base = "target"
                         THEN target \union SM!Landed(i, prs[i].head) ELSE target
      BY <1>2 DEF SM!MergeNext
    <3> QED
      BY <3>1
  <2>2. prs[i].head = pr.head /\ prs' = [prs EXCEPT ![i].state = "MERGED"]
    BY <1>2 DEF SM!MergeNext, SM!HeadMatches
  <2>3. /\ IsSeq(merges') /\ Len(merges') = Len(merges) + 1 /\ DOMAIN merges' = 1..Len(merges) + 1
        /\ \A k \in 1..Len(merges) : merges'[k] = merges[k]
        /\ merges'[Len(merges) + 1] = m
    BY <2>1, Appended DEF smTypes
  <2>4. smTypes' /\ smPlan' /\ smPrefix'
    <3>1. DOMAIN prs' = 1..N /\ \A n \in 1..N : smShape(prs'[n])
      BY <2>2 DEF smTypes, smShape
    <3> QED
      BY <1>0, <1>a, <2>3, <3>1 DEF smTypes, smPlaces, smPlan, smPrefix
  <2>5. smReported'
    BY <1>0, <1>a, <2>2 DEF smReported, smTypes, smPrefix
  <2>6. smNamed'
    BY <1>0, <1>a, <2>1, <2>3 DEF smNamed
  <2>7. smLanded' /\ smCompared'
    BY <1>0, <1>a, <2>1, <2>3 DEF smLanded, smCompared
  <2>8. SM!MergedAsVerified'
    <3>1. ASSUME NEW k \in 1..Len(merges)
          PROVE  /\ merges'[k] = merges[k]
                 /\ merges[k].head = merges[k].seen
                 /\ \A l \in 1..k - 1 :
                      merges[l].base = "target" => merges[l].landed \subseteq merges[k].compared
                 /\ SM!Changes(merges[k].compared) \ merges[k].head # {} =>
                      <<merges[k].pr, merges[k].head>> \in journal
      BY <1>a, <2>3 DEF SM!MergedAsVerified
    <3>2. /\ m.head = m.seen
          /\ \A l \in 1..Len(merges) :
               merges[l].base = "target" => merges[l].landed \subseteq m.compared
          /\ SM!Changes(m.compared) \ m.head # {} => <<m.pr, m.head>> \in journal
      BY <1>0, <1>a, <2>1, <2>2 DEF smLanded, smCompared
    <3>3. ASSUME NEW k \in DOMAIN merges'
          PROVE  /\ merges'[k].head = merges'[k].seen
                 /\ \A l \in 1..k - 1 :
                      merges'[l].base = "target" => merges'[l].landed \subseteq merges'[k].compared
                 /\ SM!Changes(merges'[k].compared) \ merges'[k].head # {} =>
                      <<merges'[k].pr, merges'[k].head>> \in journal
      <4>1. CASE k \in 1..Len(merges)
        <5>1. \A l \in 1..k - 1 : merges'[l] = merges[l]
          BY <1>a, <2>3, <4>1
        <5> QED
          BY <3>1, <4>1, <5>1
      <4>2. CASE k = Len(merges) + 1
        <5>1. \A l \in 1..k - 1 : merges'[l] = merges[l] /\ l \in 1..Len(merges)
          BY <1>a, <2>3, <4>2
        <5> QED
          BY <3>2, <2>3, <4>2, <5>1
      <4> QED
        BY <1>a, <2>3, <4>1, <4>2
    <3>4. \A c : SM!Changes(c)' = SM!Changes(c')
      BY DEF SM!Changes
    <3> QED
      BY <1>0, <3>3 DEF SM!MergedAsVerified, SM!Changes
  <2> QED
    BY <2>4, <2>5, <2>6, <2>7, <2>8
<1> QED
  BY <1>1, <1>2

(* A merge is reported once it was read on GitHub, on the target.          *)
LEMMA AfterKeeps ==
  ASSUME ServersAssumption, smInv, SM!AfterMerge
  PROVE  smInv'
<1> USE DEF smInv
<1>0. pc = "after" /\ UNCHANGED <<prs, target, pr, compared, journal, merges>>
  BY DEF SM!AfterMerge, SM!Stop, SM!tool, SM!github
<1>a. Len(report) \in Nat /\ Len(report) + 1 = i /\ DOMAIN report = 1..Len(report) /\ i \in 1..N /\ N \in Nat
  BY <1>0, Appended DEF smTypes, smPrefix, ServersAssumption, SM!StackAssumption
<1>1. smLanded' /\ smCompared' /\ SM!MergedAsVerified'
  <2>1. pc' # "merge"
    BY DEF SM!AfterMerge, SM!Stop
  <2> QED
    BY <1>0, <2>1 DEF smLanded, smCompared, SM!MergedAsVerified, SM!Changes
<1>2. CASE pc' = "stopped" /\ UNCHANGED <<report, i>>
  BY <1>0, <1>1, <1>2, <1>a
  DEF smTypes, smPlaces, smPlan, smPrefix, smReported, smNamed
<1>3. CASE ~(pc' = "stopped" /\ UNCHANGED <<report, i>>)
  <2>1. /\ prs[i].state = "MERGED" /\ prs[i].base = "target"
        /\ report' = Append(report, i)
        /\ i' = IF i < N THEN i + 1 ELSE i
        /\ pc' = IF i < N THEN "view" ELSE "merged"
    BY <1>3 DEF SM!AfterMerge, SM!Stop, SM!tool, SM!Constated
  <2>2. /\ IsSeq(report') /\ Len(report') = Len(report) + 1 /\ DOMAIN report' = 1..Len(report) + 1
        /\ \A n \in 1..Len(report) : report'[n] = report[n]
        /\ report'[Len(report) + 1] = i
    BY <2>1, Appended DEF smTypes
  <2>3. smTypes' /\ smPlan'
    BY <1>0, <1>a, <2>1, <2>2 DEF smTypes, smPlaces, smPlan
  <2>4. smPrefix' /\ smReported'
    BY <1>0, <1>a, <2>1, <2>2 DEF smPrefix, smReported
  <2>5. smNamed'
    BY <1>0, <1>a, <2>1, <2>2 DEF smNamed
  <2> QED
    BY <1>1, <2>3, <2>4, <2>5
<1> QED
  BY <1>2, <1>3

(* mergeStack: every merge is of the head whose checks were read, on a     *)
(* target that had what the earlier merges brought; a head that lacked     *)
(* changes of the target is in the journal; and the report names a prefix  *)
(* of the stack, merged into the target.                                   *)
THEOREM StacksMergeAsVerified == Spec => []MergedAsVerified
<1> DEFINE I == part = "merge" => smInv
<1>1. Init => I
  <2> SUFFICES ASSUME SM!Init
               PROVE  smInv
    BY DEF Init
  <2>1. N \in Nat \ {0} /\ pc = "read" /\ i = 1 /\ report = <<>> /\ merges = <<>>
    BY ServersAssumption DEF ServersAssumption, SM!StackAssumption, SM!Init
  <2>2. IsSeq(report) /\ IsSeq(merges) /\ DOMAIN report = {} /\ DOMAIN merges = {} /\ Len(report) = 0
    BY <2>1 DEF IsSeq
  <2>3. DOMAIN prs = 1..N /\ \A n \in 1..N : smShape(prs[n])
    BY DEF SM!Init, SM!Pull, smShape
  <2>4. smTypes
    BY <2>1, <2>2, <2>3 DEF smTypes, smPlaces
  <2> QED
    BY <2>1, <2>2, <2>4
    DEF smInv, smPlan, smPrefix, smReported, smNamed, smLanded, smCompared,
                            SM!MergedAsVerified
<1>2. I /\ [Next]_vars => I'
  <2>1. SM!Next \/ UNCHANGED smVars => smQuiet \/ SM!MergeNext \/ SM!AfterMerge
    BY DEF SM!Next, smQuiet, SM!Finished, SM!vars, smVars, smOnly
  <2> QED
    BY <2>1, PartStays, MergeStep, QuietKeeps, MergeKeeps, AfterKeeps,
       ServersAssumption
<1>3. I => MergedAsVerified
  <2> SUFFICES ASSUME smInv
               PROVE  SM!MergedAsVerified /\ SM!ReportIsHonest
    BY DEF MergedAsVerified
  <2>1. Len(report) \in Nat /\ DOMAIN report = 1..Len(report)
    BY Appended DEF smInv, smTypes
  <2>2. \A n \in 1..Len(report) : n \in SM!ToSet(report)
    BY <2>1 DEF smInv, smPrefix, SM!ToSet
  <2> QED
    BY <2>1, <2>2 DEF smInv, smPrefix, smReported, smNamed, SM!ReportIsHonest
<1> QED
  BY <1>1, <1>2, <1>3, PTL DEF Spec
-----------------------------------------------------------------------------
(* IdleStacks.  The use that lasted ended at now - longAgo, at the latest; *)
(* what a pass writes is from what it read within the same unit of time.   *)
isRecord == [observed : Nat, used : Nat, free : Nat, stopped : Nat, started : Nat]
isTypes ==
  /\ now \in Nat /\ longAgo \in Nat /\ longAgo <= After
  /\ lock \in IS!Process \cup {Nobody}
  /\ DOMAIN pc = IS!Process
  /\ seen \in [IS!Process -> isRecord] /\ since \in [IS!Process -> Nat]

(* The times of a record are in the past, and a use that lasted, not less  *)
(* than the delay ago, was over before the record says free, or began      *)
(* after the last observation and goes beyond the gap.                     *)
isSound(r) ==
  /\ r \in isRecord /\ r.observed <= now /\ r.used <= now /\ r.free <= now
  /\ r.free # 0 => \/ longAgo >= After
                   \/ longAgo + r.free >= now
                   \/ now > longAgo + r.observed + MaxGap
isHeld ==
  /\ \A p \in IS!Process : pc[p] \in {"using", "stopping", "starting"} <=> lock = p
  /\ \A u \in User : pc[u] \in {"idle", "using", "mark", "mark write"}
  /\ \A w \in Watcher : pc[w] \notin {"using", "mark", "mark write"}
isUsed == record.free # 0 /\ lock \in User => since[lock] >= record.observed
isPasses ==
  /\ isSound(record)
  /\ \A p \in IS!Process : pc[p] \in {"observe", "mark write"} => isSound(seen[p])
  /\ \A p \in IS!Process : pc[p] = "observe" => since[p] = now
  /\ \A p \in IS!Process : pc[p] = "stop" => longAgo >= After
isInv == isTypes /\ isHeld /\ isUsed /\ isPasses /\ IS!LongUsesRespected

(* The clock goes on while nobody is between a reading and a writing.      *)
LEMMA TickKeeps ==
  ASSUME ServersAssumption, isInv, IS!Tick
  PROVE  isInv'
<1> USE DEF isInv
<1>0. After \in Nat \ {0} /\ MaxGap \in Nat \ {0} /\ Nobody \notin User
  BY DEF ServersAssumption, IS!IdleStacksAssumption
<1>1. /\ UNCHANGED <<record, lock, pc, seen, since, stop>>
      /\ now' = now + 1
      /\ \A p \in IS!Process : pc[p] \in {"idle", "using", "stopping", "starting"}
      /\ \/ lock \in User /\ now' - since[lock] > MaxGap /\ longAgo' = 0
         \/ ~(lock \in User /\ now' - since[lock] > MaxGap) /\ longAgo' = longAgo + 1 /\ longAgo + 1 <= After
         \/ ~(lock \in User /\ now' - since[lock] > MaxGap) /\ longAgo' = After /\ longAgo + 1 > After
  <2>1. longAgo + 1 \in Nat
    BY DEF isTypes
  <2> QED
    BY <1>0, <2>1 DEF IS!Tick, IS!Lesser
<1>2. now' \in Nat /\ longAgo' \in Nat /\ longAgo' <= After
  BY <1>0, <1>1 DEF isTypes
<1>3. isTypes' /\ isHeld' /\ isUsed' /\ IS!LongUsesRespected'
  BY <1>1, <1>2 DEF isTypes, isHeld, isUsed, IS!LongUsesRespected
<1>4. isSound(record)'
  <2> DEFINE o == record.observed
             f == record.free
  <2>1. /\ o \in Nat /\ f \in Nat /\ now \in Nat /\ longAgo \in Nat /\ record \in isRecord
        /\ o <= now /\ record.used <= now /\ record.used \in Nat /\ f <= now
        /\ f # 0 => longAgo >= After \/ longAgo + f >= now \/ now > longAgo + o + MaxGap
    BY DEF isPasses, isSound, isTypes, isRecord
  <2>2. f # 0 /\ lock \in User => since[lock] \in Nat /\ since[lock] >= o
    BY DEF isUsed, isTypes, IS!Process
  <2>3. o <= now' /\ record.used <= now' /\ f <= now'
    BY <1>1, <2>1
  <2>4. f # 0 => longAgo' >= After \/ longAgo' + f >= now' \/ now' > longAgo' + o + MaxGap
    <3> SUFFICES ASSUME f # 0
                 PROVE  longAgo' >= After \/ longAgo' + f >= now' \/ now' > longAgo' + o + MaxGap
      OBVIOUS
    <3> HIDE DEF o, f
    <3>1. CASE lock \in User /\ now' - since[lock] > MaxGap /\ longAgo' = 0
      BY <1>0, <1>1, <2>1, <2>2, <3>1
    <3>2. CASE longAgo' = After
      BY <1>0, <3>2
    <3>3. CASE longAgo' = longAgo + 1
      BY <1>0, <1>1, <2>1, <3>3
    <3> QED
      BY <1>1, <3>1, <3>2, <3>3
  <2> QED
    BY <1>1, <2>1, <2>3, <2>4 DEF isSound
<1>5. isPasses'
  BY <1>1, <1>4 DEF isPasses
<1> QED
  BY <1>3, <1>5

(* A record of a stack in use, or just used, just started, just stopped.   *)
LEMMA NotFree ==
  ASSUME NEW r, isSound(r), isTypes, UNCHANGED <<now, longAgo>>, NEW q,
         \/ q = [r EXCEPT !.used = now, !.free = 0]
         \/ q = [r EXCEPT !.stopped = now, !.free = 0]
         \/ q = [r EXCEPT !.started = now, !.used = now, !.free = 0]
         \/ q = [r EXCEPT !.observed = now, !.used = now, !.free = 0]
  PROVE  isSound(q)' /\ q.free = 0
<1>1. now \in Nat /\ r \in isRecord /\ r.observed <= now /\ r.used <= now
  BY DEF isSound, isTypes
<1>2. /\ r = [observed |-> r.observed, used |-> r.used, free |-> r.free, stopped |-> r.stopped,
              started |-> r.started]
      /\ r.observed \in Nat /\ r.used \in Nat /\ r.stopped \in Nat /\ r.started \in Nat
  BY <1>1 DEF isRecord
<1>3. PICK o, u, st, go :
        /\ q = [observed |-> o, used |-> u, free |-> 0, stopped |-> st, started |-> go]
        /\ o \in {now, r.observed} /\ u \in {now, r.used}
        /\ st \in {now, r.stopped} /\ go \in {now, r.started}
  <2>1. CASE q = [r EXCEPT !.used = now, !.free = 0]
    BY <1>2, <2>1
  <2>2. CASE q = [r EXCEPT !.stopped = now, !.free = 0]
    BY <1>2, <2>2
  <2>3. CASE q = [r EXCEPT !.started = now, !.used = now, !.free = 0]
    BY <1>2, <2>3
  <2>4. CASE q = [r EXCEPT !.observed = now, !.used = now, !.free = 0]
    BY <1>2, <2>4
  <2> QED
    BY <2>1, <2>2, <2>3, <2>4
<1>4. q \in isRecord /\ q.free = 0 /\ q.observed <= now /\ q.used <= now
  BY <1>1, <1>2, <1>3 DEF isRecord
<1> QED
  BY <1>1, <1>4 DEF isSound

(* Who holds the lock is where it is held, and nobody else.                *)
isTakes(p) ==
  \/ lock' = lock /\ (pc'[p] \in {"using", "stopping", "starting"} <=> pc[p] \in {"using", "stopping", "starting"})
  \/ lock = Nobody /\ lock' = p /\ pc'[p] \in {"using", "stopping", "starting"}
  \/ lock' = Nobody /\ pc[p] \in {"using", "stopping", "starting"} /\ pc'[p] \notin {"using", "stopping", "starting"}

(* Where a process may go, for a user, for a watcher, and after what.      *)
isGoes(p) ==
  /\ p \in User => pc'[p] \in {"idle", "using", "mark", "mark write"}
  /\ p \in Watcher => pc'[p] \notin {"using", "mark", "mark write"}
  /\ pc'[p] \in {"observe", "mark write"} => isSound(seen[p])'
  /\ pc'[p] = "observe" => since'[p] = now
  /\ pc'[p] = "stop" => longAgo >= After

(* A step of one process keeps the invariant, if it does for its own part. *)
LEMMA ActorKeeps ==
  ASSUME ServersAssumption, isInv, NEW p \in IS!Process, isTypes', UNCHANGED <<now, longAgo>>,
         \A q \in IS!Process \ {p} : pc'[q] = pc[q] /\ seen'[q] = seen[q] /\ since'[q] = since[q],
         isTakes(p), isGoes(p), isSound(record)', isUsed', IS!LongUsesRespected'
  PROVE  isInv'
<1>0. Nobody \notin IS!Process /\ User \subseteq IS!Process /\ Watcher \subseteq IS!Process
  BY DEF ServersAssumption, IS!IdleStacksAssumption, IS!Process
<1>1. \A q \in IS!Process \ {p} :
        /\ pc'[q] \in {"observe", "mark write"} => isSound(seen[q])'
        /\ pc'[q] = "observe" => since'[q] = now'
        /\ pc'[q] = "stop" => longAgo' >= After
  BY DEF isInv, isPasses, isSound
<1>2. isPasses'
  BY <1>1 DEF isPasses, isGoes
<1>3. \A q \in IS!Process : pc'[q] \in {"using", "stopping", "starting"} <=> lock' = q
  <2>1. \A q \in IS!Process : pc[q] \in {"using", "stopping", "starting"} <=> lock = q
    BY DEF isInv, isHeld
  <2> QED
    BY <1>0, <2>1 DEF isTakes
<1>4. isHeld'
  BY <1>0, <1>3 DEF isInv, isHeld, isGoes
<1> QED
  BY <1>2, <1>4 DEF isInv

(* The steps of those that use a stack.                                    *)
LEMMA UsesKeep ==
  ASSUME ServersAssumption, isInv, NEW u \in User,
         IS!Use(u) \/ IS!EndUse(u) \/ IS!MarkReads(u) \/ IS!MarkWrites(u)
  PROVE  isInv'
<1> USE DEF isInv, IS!Goto, IS!Reads, IS!Forgets
<1>0. /\ u \in IS!Process /\ u # Nobody /\ u \notin Watcher /\ Nobody \notin User
      /\ UNCHANGED <<now, longAgo, stop>>
      /\ isSound(record) /\ record \in isRecord /\ record.observed <= now /\ now \in Nat
      /\ IS!NoRecord \in isRecord
  BY DEF IS!Process, IS!Use, IS!EndUse, IS!MarkReads, IS!MarkWrites,
         ServersAssumption,
         IS!IdleStacksAssumption, isPasses, isSound, isTypes, IS!NoRecord, isRecord
<1>1. CASE IS!Use(u)
  <2>1. isTypes'
    BY <1>0, <1>1 DEF IS!Use, isTypes
  <2>2. \A q \in IS!Process \ {u} : pc'[q] = pc[q] /\ seen'[q] = seen[q] /\ since'[q] = since[q]
    BY <1>0, <1>1 DEF IS!Use, isTypes
  <2>3. isTakes(u)
    BY <1>0, <1>1 DEF IS!Use, isTakes, isTypes
  <2>4. isSound(record)'
    BY <1>0, <1>1 DEF IS!Use, isSound
  <2>5. isGoes(u)
    BY <1>0, <1>1 DEF IS!Use, isGoes, isTypes
  <2>6. isUsed'
    BY <1>0, <1>1 DEF IS!Use, isUsed, isTypes
  <2>7. IS!LongUsesRespected'
    BY <1>0, <1>1 DEF IS!Use, IS!LongUsesRespected
  <2> QED
    BY <1>0, <2>1, <2>2, <2>3, <2>4, <2>5, <2>6, <2>7, ActorKeeps
<1>2. CASE IS!EndUse(u)
  <2>1. isTypes'
    BY <1>0, <1>2 DEF IS!EndUse, isTypes
  <2>2. \A q \in IS!Process \ {u} : pc'[q] = pc[q] /\ seen'[q] = seen[q] /\ since'[q] = since[q]
    BY <1>0, <1>2 DEF IS!EndUse, isTypes
  <2>3. isTakes(u)
    BY <1>0, <1>2 DEF IS!EndUse, isTakes, isTypes
  <2>4. isSound(record)'
    BY <1>0, <1>2 DEF IS!EndUse, isSound
  <2>5. isGoes(u)
    BY <1>0, <1>2 DEF IS!EndUse, isGoes, isTypes
  <2>6. isUsed'
    BY <1>0, <1>2 DEF IS!EndUse, isUsed, isTypes
  <2>7. IS!LongUsesRespected'
    BY <1>0, <1>2 DEF IS!EndUse, IS!LongUsesRespected
  <2> QED
    BY <1>0, <2>1, <2>2, <2>3, <2>4, <2>5, <2>6, <2>7, ActorKeeps
<1>3. CASE IS!MarkReads(u)
  <2>1. isTypes'
    BY <1>0, <1>3 DEF IS!MarkReads, isTypes
  <2>2. \A q \in IS!Process \ {u} : pc'[q] = pc[q] /\ seen'[q] = seen[q] /\ since'[q] = since[q]
    BY <1>0, <1>3 DEF IS!MarkReads, isTypes
  <2>3. isTakes(u)
    BY <1>0, <1>3 DEF IS!MarkReads, isTakes, isTypes
  <2>4. isSound(record)'
    BY <1>0, <1>3 DEF IS!MarkReads, isSound
  <2>5. isGoes(u)
    BY <1>0, <1>3 DEF IS!MarkReads, isGoes, isTypes, isSound
  <2>6. isUsed'
    BY <1>0, <1>3 DEF IS!MarkReads, isUsed, isHeld, isTypes
  <2>7. IS!LongUsesRespected'
    BY <1>0, <1>3 DEF IS!MarkReads, IS!LongUsesRespected
  <2> QED
    BY <1>0, <2>1, <2>2, <2>3, <2>4, <2>5, <2>6, <2>7, ActorKeeps
<1>4. CASE IS!MarkWrites(u)
  <2>1. isTypes'
    BY <1>0, <1>4 DEF IS!MarkWrites, isTypes
  <2>2. \A q \in IS!Process \ {u} : pc'[q] = pc[q] /\ seen'[q] = seen[q] /\ since'[q] = since[q]
    BY <1>0, <1>4 DEF IS!MarkWrites, isTypes
  <2>3. isTakes(u)
    BY <1>0, <1>4 DEF IS!MarkWrites, isTakes, isTypes
  <2>4. isSound(record)' /\ record'.free = 0
    <3>1. isSound(seen[u]) /\ record' = [seen[u] EXCEPT !.used = now, !.free = 0]
      BY <1>0, <1>4 DEF IS!MarkWrites, isPasses
    <3> QED
      BY <1>0, <3>1, NotFree
  <2>5. isGoes(u)
    BY <1>0, <1>4 DEF IS!MarkWrites, isGoes, isTypes
  <2>6. isUsed'
    BY <2>4 DEF isUsed
  <2>7. IS!LongUsesRespected'
    BY <1>0, <1>4 DEF IS!MarkWrites, IS!LongUsesRespected
  <2> QED
    BY <1>0, <2>1, <2>2, <2>3, <2>4, <2>5, <2>6, <2>7, ActorKeeps
<1> QED
  BY <1>1, <1>2, <1>3, <1>4

(* A pass: what it writes is sound, and it stops only what was idle for    *)
(* the delay.                                                              *)
LEMMA ObserveKeeps ==
  ASSUME ServersAssumption, isInv, NEW w \in Watcher, IS!Observe(w)
  PROVE  isInv'
<1> USE DEF isInv, IS!Goto, IS!Forgets
<1>0. /\ w \in IS!Process /\ w \notin User /\ UNCHANGED <<now, longAgo, stop, lock>>
      /\ pc[w] = "observe" /\ since[w] = now /\ isSound(seen[w])
      /\ After \in Nat \ {0} /\ MaxGap \in Nat \ {0} /\ Nobody \notin User
      /\ IS!NoRecord \in isRecord
  BY DEF IS!Process, IS!Observe, ServersAssumption, IS!IdleStacksAssumption,
         isPasses,
         IS!NoRecord, isRecord
<1>1. /\ isSound(record)' /\ (lock = Nobody \/ record'.free = 0)
      /\ \/ pc' = [pc EXCEPT ![w] = "idle"]
         \/ pc' = [pc EXCEPT ![w] = "stop"] /\ longAgo >= After
  <2>1. CASE lock # Nobody
    <3>1. /\ record' = [seen[w] EXCEPT !.observed = now, !.used = now, !.free = 0]
          /\ pc' = [pc EXCEPT ![w] = "idle"]
      BY <1>0, <2>1 DEF IS!Observe
    <3> QED
      BY <1>0, <3>1, NotFree
  <2>2. CASE lock = Nobody
    <3> DEFINE r == seen[w]
               f == IS!FreeSince(w)
    <3>1. /\ record' = [r EXCEPT !.observed = now, !.free = f]
          /\ \/ pc' = [pc EXCEPT ![w] = "idle"]
             \/ /\ pc' = [pc EXCEPT ![w] = "stop"]
                /\ now - [r EXCEPT !.observed = now, !.free = f].free >= After
      BY <1>0, <2>2 DEF IS!Observe, IS!MayStop
    <3>2. /\ r \in isRecord /\ r.observed \in Nat /\ r.free \in Nat /\ r.used \in Nat
          /\ r.free <= now /\ r.observed <= now /\ now \in Nat /\ longAgo \in Nat
          /\ r.free # 0 => longAgo >= After \/ longAgo + r.free >= now \/ now > longAgo + r.observed + MaxGap
      BY <1>0 DEF isSound, isRecord, isTypes
    <3>3. \/ f = now
          \/ r.free # 0 /\ now - r.observed <= MaxGap /\ f \in {r.free, r.used} /\ f >= r.free /\ f <= now
      BY <1>0, <3>2 DEF IS!FreeSince, IS!Continuous, IS!Lesser
    <3>4. f \in Nat /\ f <= now /\ (longAgo >= After \/ longAgo + f >= now)
      <4> HIDE DEF r, f
      <4> QED
        BY <1>0, <3>2, <3>3
    <3>5. /\ record' \in isRecord /\ record'.observed = now /\ record'.free = f /\ record'.used = r.used
      <4> HIDE DEF r, f
      <4> QED
        BY <3>1, <3>2, <3>4 DEF isRecord
    <3>6. isSound(record)'
      BY <1>0, <3>2, <3>4, <3>5 DEF isSound
    <3>7. pc' = [pc EXCEPT ![w] = "stop"] => pc' = [pc EXCEPT ![w] = "idle"] \/ longAgo >= After
      <4>1. [r EXCEPT !.observed = now, !.free = f].free = record'.free
        BY <3>1
      <4> HIDE DEF r, f
      <4> QED
        BY <1>0, <3>1, <3>2, <3>4, <3>5, <4>1
    <3>8. \/ pc' = [pc EXCEPT ![w] = "idle"]
          \/ pc' = [pc EXCEPT ![w] = "stop"] /\ longAgo >= After
      BY <3>1, <3>7
    <3> QED
      BY <2>2, <3>6, <3>8
  <2> QED
    BY <2>1, <2>2
<1>2. isTypes'
  BY <1>0, <1>1 DEF IS!Observe, isTypes, isSound
<1>3. \A q \in IS!Process \ {w} : pc'[q] = pc[q] /\ seen'[q] = seen[q] /\ since'[q] = since[q]
  BY <1>0, <1>1 DEF IS!Observe, isTypes
<1>4. isTakes(w) /\ isGoes(w)
  BY <1>0, <1>1 DEF isTakes, isGoes, isTypes
<1>5. isUsed' /\ IS!LongUsesRespected'
  BY <1>0, <1>1 DEF isUsed, IS!LongUsesRespected
<1> QED
  BY <1>0, <1>1, <1>2, <1>3, <1>4, <1>5, ActorKeeps

(* The other steps of a watcher.                                           *)
LEMMA WatchKeeps ==
  ASSUME ServersAssumption, isInv, NEW w \in Watcher,
         \/ IS!Pass(w) \/ IS!InUse(w) \/ IS!RunCommand(w) \/ IS!CommandEnds(w) \/ IS!Recorded(w)
         \/ IS!Start(w)
  PROVE  isInv'
<1> USE DEF isInv, IS!Goto, IS!Reads, IS!Forgets
<1>0. /\ w \in IS!Process /\ w # Nobody /\ w \notin User /\ Nobody \notin User
      /\ UNCHANGED <<now, longAgo>> /\ isSound(record) /\ record \in isRecord
  BY DEF IS!Process, IS!Pass, IS!InUse, IS!RunCommand, IS!CommandEnds,
         IS!Recorded, IS!Start,
         ServersAssumption, IS!IdleStacksAssumption, isPasses, isSound
<1>1. CASE IS!Pass(w)
  <2>1. isTypes'
    BY <1>0, <1>1 DEF IS!Pass, isTypes
  <2>2. \A q \in IS!Process \ {w} : pc'[q] = pc[q] /\ seen'[q] = seen[q] /\ since'[q] = since[q]
    BY <1>0, <1>1 DEF IS!Pass, isTypes
  <2>3. isTakes(w)
    BY <1>0, <1>1 DEF IS!Pass, isTakes, isTypes
  <2>4. isSound(record)'
    BY <1>0, <1>1 DEF IS!Pass, isSound
  <2>5. isGoes(w)
    BY <1>0, <1>1 DEF IS!Pass, isGoes, isTypes, isSound
  <2>6. isUsed'
    BY <1>0, <1>1 DEF IS!Pass, isUsed, isTypes
  <2>7. IS!LongUsesRespected'
    BY <1>0, <1>1 DEF IS!Pass, IS!LongUsesRespected
  <2> QED
    BY <1>0, <2>1, <2>2, <2>3, <2>4, <2>5, <2>6, <2>7, ActorKeeps
<1>2. CASE IS!InUse(w)
  <2>1. isTypes'
    BY <1>0, <1>2 DEF IS!InUse, isTypes
  <2>2. \A q \in IS!Process \ {w} : pc'[q] = pc[q] /\ seen'[q] = seen[q] /\ since'[q] = since[q]
    BY <1>0, <1>2 DEF IS!InUse, isTypes
  <2>3. isTakes(w)
    BY <1>0, <1>2 DEF IS!InUse, isTakes, isTypes
  <2>4. isSound(record)' /\ (record' = record \/ record'.free = 0)
    <3>1. record' = record \/ record' = [record EXCEPT !.used = now, !.free = 0]
      BY <1>2 DEF IS!InUse
    <3>2. record' = record => isSound(record)'
      BY <1>0 DEF isSound
    <3> QED
      BY <1>0, <3>1, <3>2, NotFree
  <2>5. isGoes(w)
    BY <1>0, <1>2 DEF IS!InUse, isGoes, isTypes
  <2>6. isUsed'
    BY <1>2, <2>4 DEF IS!InUse, isUsed
  <2>7. IS!LongUsesRespected'
    BY <1>0, <1>2 DEF IS!InUse, IS!LongUsesRespected
  <2> QED
    BY <1>0, <2>1, <2>2, <2>3, <2>4, <2>5, <2>6, <2>7, ActorKeeps
<1>3. CASE IS!RunCommand(w)
  <2>1. isTypes'
    BY <1>0, <1>3 DEF IS!RunCommand, isTypes
  <2>2. \A q \in IS!Process \ {w} : pc'[q] = pc[q] /\ seen'[q] = seen[q] /\ since'[q] = since[q]
    BY <1>0, <1>3 DEF IS!RunCommand, isTypes
  <2>3. isTakes(w)
    BY <1>0, <1>3 DEF IS!RunCommand, isTakes, isTypes, IS!Available
  <2>4. isSound(record)'
    BY <1>0, <1>3 DEF IS!RunCommand, isSound
  <2>5. isGoes(w)
    BY <1>0, <1>3 DEF IS!RunCommand, isGoes, isTypes
  <2>6. isUsed'
    BY <1>0, <1>3 DEF IS!RunCommand, isUsed, isTypes
  <2>7. IS!LongUsesRespected'
    <3>1. CASE pc[w] = "start"
      BY <1>3, <3>1 DEF IS!RunCommand, IS!LongUsesRespected
    <3>2. CASE pc[w] # "start"
      <4>1. pc[w] = "stop" /\ lock = Nobody /\ stop'.under = lock /\ stop'.long = longAgo
        BY <1>3, <3>2 DEF IS!RunCommand, IS!Available
      <4> QED
        BY <1>0, <4>1 DEF IS!LongUsesRespected, isPasses
    <3> QED
      BY <3>1, <3>2
  <2> QED
    BY <1>0, <2>1, <2>2, <2>3, <2>4, <2>5, <2>6, <2>7, ActorKeeps
<1>4. CASE IS!CommandEnds(w)
  <2>1. isTypes'
    BY <1>0, <1>4 DEF IS!CommandEnds, isTypes
  <2>2. \A q \in IS!Process \ {w} : pc'[q] = pc[q] /\ seen'[q] = seen[q] /\ since'[q] = since[q]
    BY <1>0, <1>4 DEF IS!CommandEnds, isTypes
  <2>3. isTakes(w)
    BY <1>0, <1>4 DEF IS!CommandEnds, isTakes, isTypes
  <2>4. isSound(record)'
    BY <1>0, <1>4 DEF IS!CommandEnds, isSound
  <2>5. isGoes(w)
    BY <1>0, <1>4 DEF IS!CommandEnds, isGoes, isTypes
  <2>6. isUsed'
    BY <1>0, <1>4 DEF IS!CommandEnds, isUsed, isTypes
  <2>7. IS!LongUsesRespected'
    BY <1>0, <1>4 DEF IS!CommandEnds, IS!LongUsesRespected
  <2> QED
    BY <1>0, <2>1, <2>2, <2>3, <2>4, <2>5, <2>6, <2>7, ActorKeeps
<1>5. CASE IS!Recorded(w)
  <2>1. isTypes'
    BY <1>0, <1>5 DEF IS!Recorded, isTypes
  <2>2. \A q \in IS!Process \ {w} : pc'[q] = pc[q] /\ seen'[q] = seen[q] /\ since'[q] = since[q]
    BY <1>0, <1>5 DEF IS!Recorded, isTypes
  <2>3. isTakes(w)
    BY <1>0, <1>5 DEF IS!Recorded, isTakes, isTypes
  <2>4. isSound(record)' /\ record'.free = 0
    <3>1. \/ record' = [record EXCEPT !.stopped = now, !.free = 0]
          \/ record' = [record EXCEPT !.started = now, !.used = now, !.free = 0]
      BY <1>5 DEF IS!Recorded
    <3> QED
      BY <1>0, <3>1, NotFree
  <2>5. isGoes(w)
    BY <1>0, <1>5 DEF IS!Recorded, isGoes, isTypes
  <2>6. isUsed'
    BY <2>4 DEF isUsed
  <2>7. IS!LongUsesRespected'
    BY <1>0, <1>5 DEF IS!Recorded, IS!LongUsesRespected
  <2> QED
    BY <1>0, <2>1, <2>2, <2>3, <2>4, <2>5, <2>6, <2>7, ActorKeeps
<1>6. CASE IS!Start(w)
  <2>1. isTypes'
    BY <1>0, <1>6 DEF IS!Start, isTypes
  <2>2. \A q \in IS!Process \ {w} : pc'[q] = pc[q] /\ seen'[q] = seen[q] /\ since'[q] = since[q]
    BY <1>0, <1>6 DEF IS!Start, isTypes
  <2>3. isTakes(w)
    BY <1>0, <1>6 DEF IS!Start, isTakes, isTypes
  <2>4. isSound(record)'
    BY <1>0, <1>6 DEF IS!Start, isSound
  <2>5. isGoes(w)
    BY <1>0, <1>6 DEF IS!Start, isGoes, isTypes
  <2>6. isUsed'
    BY <1>0, <1>6 DEF IS!Start, isUsed, isTypes
  <2>7. IS!LongUsesRespected'
    BY <1>0, <1>6 DEF IS!Start, IS!LongUsesRespected
  <2> QED
    BY <1>0, <2>1, <2>2, <2>3, <2>4, <2>5, <2>6, <2>7, ActorKeeps
<1> QED
  BY <1>1, <1>2, <1>3, <1>4, <1>5, <1>6

(* idle-stop: whatever notes are lost or late and whichever watchers       *)
(* overlap, a stack is never stopped under a user, and never less than the *)
(* idle delay after a use longer than the gap allowed between two          *)
(* observations.                                                           *)
THEOREM StacksLongUses == Spec => []LongUsesRespected
<1> DEFINE I == part = "stacks" => isInv
<1>1. Init => I
  <2> SUFFICES ASSUME IS!Init
               PROVE  isInv
    BY DEF Init
  <2>0. After \in Nat \ {0} /\ MaxGap \in Nat \ {0} /\ Nobody \notin IS!Process
    BY ServersAssumption DEF ServersAssumption, IS!IdleStacksAssumption, IS!Process
  <2>1. IS!NoRecord \in isRecord /\ IS!NoRecord.free = 0 /\ IS!NoRecord.observed = 0 /\ IS!NoRecord.used = 0
    BY DEF IS!NoRecord, isRecord
  <2>2. isTypes /\ isHeld
    BY <2>0, <2>1 DEF IS!Init, isTypes, isHeld, IS!Process
  <2>3. isUsed /\ isPasses
    BY <2>0, <2>1 DEF IS!Init, isUsed, isPasses, isSound, isTypes
  <2>4. IS!LongUsesRespected
    BY <2>0 DEF IS!Init, IS!NoStop, IS!LongUsesRespected
  <2> QED
    BY <2>2, <2>3, <2>4 DEF isInv
<1>2. I /\ [Next]_vars => I'
  <2>1. ASSUME isInv, UNCHANGED isVars
        PROVE  isInv'
    BY <2>1
    DEF isVars, isOnly, isInv, isTypes, isHeld, isUsed, isPasses, isSound,
        IS!LongUsesRespected
  <2>2. ASSUME isInv, IS!Next
        PROVE  isInv'
    BY <2>2, TickKeeps, UsesKeep, ObserveKeeps, WatchKeeps, ServersAssumption
    DEF IS!Next
  <2> QED
    BY <2>1, <2>2, PartStays, StacksStep
<1>3. I => LongUsesRespected
  BY DEF LongUsesRespected, isInv
<1> QED
  BY <1>1, <1>2, <1>3, PTL DEF Spec
-----------------------------------------------------------------------------
(* Preview.  While no lease ran out, one call at a time is between the     *)
(* taking and the release of the lock; the record is the one it read, then *)
(* that of a server which is gone, then its own.                           *)
pvPlaces ==
  {"off", "begin", "stopping", "port", "copy", "build", "record", "health", "unhealthy", "end",
   "over", "dead"}
pvLater == {"health", "unhealthy", "end", "over", "dead"}
pvInside(c) == pc[c] \notin {"off", "over", "dead"}
pvRecord == [server : Call \cup {Nobody}, commit : Commit \cup {Nobody}]
pvNamed(r, w) == r.server \in Call => Repo[r.server] = w /\ pc[r.server] \in pvLater

pvLockType == lock \in [holder : Call \cup {Nobody}, live : BOOLEAN] /\ lapsed \in BOOLEAN
pvFileType ==
  /\ record \in [PV!Worktree -> pvRecord] /\ seen \in [Call -> pvRecord]
  /\ target \in [Call -> Commit \cup {Nobody}]
  /\ DOMAIN copy = PV!Worktree /\ DOMAIN shown = PV!Worktree /\ DOMAIN ready = Call
pvCallType == pc \in [Call -> pvPlaces] /\ mishaps \in Nat
pvServerType ==
  /\ server \in [Call -> {"none", "booting", "up", "gone"}]
  /\ port \in Call \cup {Nobody, Foreign}
pvTypes == pvLockType /\ pvFileType /\ pvCallType /\ pvServerType
pvNone ==
  \A c \in Call :
    pc[c] \in {"off", "begin", "stopping", "port", "copy", "build"} => server[c] = "none"
pvFiles ==
  /\ \A w \in PV!Worktree : pvNamed(record[w], w)
  /\ \A c \in Call : pvNamed(seen[c], Repo[c])
pvHands == \A c \in Call : pc[c] = "stopping" => seen[c].server \in Call
pvBlame == mishaps = 0 => ~lapsed /\ \A c \in Call : pc[c] # "dead"
pvOrder == pvNone /\ pvFiles /\ pvHands /\ pvBlame
pvAlone == lapsed \/ \A c \in Call : pvInside(c) => lock.holder = c /\ lock.live
pvRead ==
  lapsed \/
    \A c \in Call :
      /\ pc[c] = "stopping" => record[Repo[c]] = seen[c]
      /\ pc[c] \in {"port", "copy", "build", "record"} => ~PV!Alive(record[Repo[c]].server)
      /\ pc[c] \in {"health", "unhealthy"} => record[Repo[c]] = PV!Started(c)

(* Without a mishap, the record is that of what was shown, but while a new *)
(* server is waited for; a server that waits for the port is in the hands  *)
(* of its call, and nobody else takes the port of a call that builds.      *)
pvShown ==
  mishaps = 0 =>
    /\ \A w \in PV!Worktree :
         \/ record[w].commit = shown[w]
         \/ \E c \in Call : Repo[c] = w /\ pc[c] \in {"health", "unhealthy"}
    /\ \A c \in Call :
         pc[c] \in {"stopping", "port", "copy", "build", "record", "health", "unhealthy"} =>
           seen[c].commit = shown[Repo[c]]
pvCopied ==
  mishaps = 0 =>
    /\ \A w \in PV!Worktree : PV!Alive(record[w].server) => copy[w] = record[w].commit
    /\ \A c \in Call : pc[c] \in {"build", "record"} => copy[Repo[c]] = target[c]
pvPort ==
  mishaps = 0 =>
    \A c \in Call :
      /\ port = c <=> server[c] = "up"
      /\ server[c] = "booting" => pc[c] \in {"record", "health", "unhealthy"}
      /\ PV!Building(c) => port \in {Nobody, c}
      /\ ready[c] \in {Nobody, c}
pvForgotten == lapsed \/ (IsFiniteSet(PV!Forgotten) /\ Cardinality(PV!Forgotten) <= mishaps)
pvInv ==
  /\ pvTypes /\ pvOrder /\ pvAlone /\ pvRead /\ pvShown /\ pvCopied /\ pvPort /\ pvForgotten

(* Every step keeps the types.                                             *)
LEMMA PreviewTypes ==
  ASSUME ServersAssumption, pvInv, PV!Next \/ UNCHANGED pvVars
  PROVE  /\ pvLockType'
         /\ pvFileType'
         /\ pvCallType'
         /\ pvServerType'
<1> USE DEF PV!Goto, PV!Writes
<1>1. /\ Nobody \notin Call /\ \A c \in Call : Repo[c] \in PV!Worktree
      /\ pvLockType /\ pvFileType /\ pvCallType /\ pvServerType
  BY DEF ServersAssumption, PV!PreviewAssumption, PV!Worktree, pvInv, pvTypes
<1>2. /\ \A r \in pvRecord : PV!Stopped(r) \in pvRecord
      /\ \A c \in Call : PV!Started(c) \in pvRecord
  BY <1>1 DEF pvRecord, PV!Stopped, PV!Started, pvFileType
<1>3. ASSUME NEW c \in Call, PV!Begin(c)
      PROVE  /\ pvLockType'
             /\ pvFileType'
             /\ pvCallType'
             /\ pvServerType'
  <2>1. pvLockType'
    <3>1. lock' = [holder |-> c, live |-> TRUE] \/ lock' = lock
      BY <1>3 DEF PV!Begin
    <3>2. [holder |-> c, live |-> TRUE] \in [holder : Call \cup {Nobody}, live : BOOLEAN]
      OBVIOUS
    <3> QED
      BY <1>1, <1>3, <3>1, <3>2 DEF PV!Begin, pvLockType
  <2>2. pvFileType'
    BY <1>1, <1>2, <1>3 DEF PV!Begin, PV!Held, pvFileType
  <2>3. pvCallType'
    BY <1>1, <1>2, <1>3 DEF PV!Begin, PV!Held, pvCallType, pvPlaces
  <2>4. pvServerType'
    BY <1>1, <1>2, <1>3 DEF PV!Begin, PV!Held, pvServerType
  <2> QED
    BY <2>1, <2>2, <2>3, <2>4
<1>4. ASSUME NEW c \in Call, PV!Renew(c)
      PROVE  /\ pvLockType'
             /\ pvFileType'
             /\ pvCallType'
             /\ pvServerType'
  <2>1. pvLockType'
    BY <1>1, <1>2, <1>4 DEF PV!Renew, pvLockType
  <2>2. pvFileType'
    BY <1>1, <1>2, <1>4 DEF PV!Renew, pvFileType
  <2>3. pvCallType'
    BY <1>1, <1>2, <1>4 DEF PV!Renew, pvCallType, pvPlaces
  <2>4. pvServerType'
    BY <1>1, <1>2, <1>4 DEF PV!Renew, pvServerType
  <2> QED
    BY <2>1, <2>2, <2>3, <2>4
<1>5. ASSUME NEW c \in Call, PV!Release(c)
      PROVE  /\ pvLockType'
             /\ pvFileType'
             /\ pvCallType'
             /\ pvServerType'
  <2>1. pvLockType'
    BY <1>1, <1>2, <1>5 DEF PV!Release, pvLockType
  <2>2. pvFileType'
    BY <1>1, <1>2, <1>5 DEF PV!Release, pvFileType
  <2>3. pvCallType'
    BY <1>1, <1>2, <1>5 DEF PV!Release, pvCallType, pvPlaces
  <2>4. pvServerType'
    BY <1>1, <1>2, <1>5 DEF PV!Release, pvServerType
  <2> QED
    BY <2>1, <2>2, <2>3, <2>4
<1>6. ASSUME NEW c \in Call, PV!Update(c)
      PROVE  /\ pvLockType'
             /\ pvFileType'
             /\ pvCallType'
             /\ pvServerType'
  <2>1. pvLockType'
    BY <1>1, <1>2, <1>6 DEF PV!Update, PV!Fail, PV!OurServer, pvLockType
  <2>2. pvFileType'
    BY <1>1, <1>2, <1>6 DEF PV!Update, PV!Fail, PV!OurServer, pvFileType
  <2>3. pvCallType'
    BY <1>1, <1>2, <1>6 DEF PV!Update, PV!Fail, PV!OurServer, pvCallType, pvPlaces
  <2>4. pvServerType'
    BY <1>1, <1>2, <1>6 DEF PV!Update, PV!Fail, PV!OurServer, pvServerType
  <2> QED
    BY <2>1, <2>2, <2>3, <2>4
<1>7. ASSUME NEW c \in Call, PV!Stop(c)
      PROVE  /\ pvLockType'
             /\ pvFileType'
             /\ pvCallType'
             /\ pvServerType'
  <2>1. pvLockType'
    BY <1>1, <1>2, <1>7 DEF PV!Stop, PV!OurServer, pvLockType
  <2>2. pvFileType'
    BY <1>1, <1>2, <1>7 DEF PV!Stop, PV!OurServer, pvFileType
  <2>3. pvCallType'
    BY <1>1, <1>2, <1>7 DEF PV!Stop, PV!OurServer, pvCallType, pvPlaces
  <2>4. pvServerType'
    BY <1>1, <1>2, <1>7 DEF PV!Stop, PV!OurServer, pvServerType
  <2> QED
    BY <2>1, <2>2, <2>3, <2>4
<1>8. ASSUME NEW c \in Call, PV!StopEnds(c)
      PROVE  /\ pvLockType'
             /\ pvFileType'
             /\ pvCallType'
             /\ pvServerType'
  <2>1. pvLockType'
    BY <1>1, <1>2, <1>8 DEF PV!StopEnds, PV!Ends, pvLockType
  <2>2. pvFileType'
    BY <1>1, <1>2, <1>8 DEF PV!StopEnds, PV!Ends, pvFileType
  <2>3. pvCallType'
    BY <1>1, <1>2, <1>8 DEF PV!StopEnds, PV!Ends, pvCallType, pvPlaces
  <2>4. pvServerType'
    BY <1>1, <1>2, <1>8 DEF PV!StopEnds, PV!Ends, pvServerType
  <2> QED
    BY <2>1, <2>2, <2>3, <2>4
<1>9. ASSUME NEW c \in Call, PV!StopFails(c)
      PROVE  /\ pvLockType'
             /\ pvFileType'
             /\ pvCallType'
             /\ pvServerType'
  <2>1. pvLockType'
    BY <1>1, <1>2, <1>9 DEF PV!StopFails, PV!Fail, PV!OurServer, pvLockType
  <2>2. pvFileType'
    BY <1>1, <1>2, <1>9 DEF PV!StopFails, PV!Fail, PV!OurServer, pvFileType
  <2>3. pvCallType'
    BY <1>1, <1>2, <1>9
    DEF PV!StopFails, PV!Fail, PV!OurServer, pvCallType, pvPlaces
  <2>4. pvServerType'
    BY <1>1, <1>2, <1>9 DEF PV!StopFails, PV!Fail, PV!OurServer, pvServerType
  <2> QED
    BY <2>1, <2>2, <2>3, <2>4
<1>10. ASSUME NEW c \in Call, PV!CheckPort(c)
      PROVE  /\ pvLockType'
             /\ pvFileType'
             /\ pvCallType'
             /\ pvServerType'
  <2>1. pvLockType'
    BY <1>1, <1>2, <1>10 DEF PV!CheckPort, PV!Fail, PV!OurServer, pvLockType
  <2>2. pvFileType'
    BY <1>1, <1>2, <1>10 DEF PV!CheckPort, PV!Fail, PV!OurServer, pvFileType
  <2>3. pvCallType'
    BY <1>1, <1>2, <1>10
    DEF PV!CheckPort, PV!Fail, PV!OurServer, pvCallType, pvPlaces
  <2>4. pvServerType'
    BY <1>1, <1>2, <1>10 DEF PV!CheckPort, PV!Fail, PV!OurServer, pvServerType
  <2> QED
    BY <2>1, <2>2, <2>3, <2>4
<1>11. ASSUME NEW c \in Call, PV!Copy(c)
      PROVE  /\ pvLockType'
             /\ pvFileType'
             /\ pvCallType'
             /\ pvServerType'
  <2>1. pvLockType'
    BY <1>1, <1>2, <1>11 DEF PV!Copy, PV!Fail, PV!OurServer, pvLockType
  <2>2. pvFileType'
    BY <1>1, <1>2, <1>11 DEF PV!Copy, PV!Fail, PV!OurServer, pvFileType
  <2>3. pvCallType'
    BY <1>1, <1>2, <1>11 DEF PV!Copy, PV!Fail, PV!OurServer, pvCallType, pvPlaces
  <2>4. pvServerType'
    BY <1>1, <1>2, <1>11 DEF PV!Copy, PV!Fail, PV!OurServer, pvServerType
  <2> QED
    BY <2>1, <2>2, <2>3, <2>4
<1>12. ASSUME NEW c \in Call, PV!Build(c)
      PROVE  /\ pvLockType'
             /\ pvFileType'
             /\ pvCallType'
             /\ pvServerType'
  <2>1. pvLockType'
    BY <1>1, <1>2, <1>12 DEF PV!Build, PV!Fail, PV!OurServer, pvLockType
  <2>2. pvFileType'
    BY <1>1, <1>2, <1>12 DEF PV!Build, PV!Fail, PV!OurServer, pvFileType
  <2>3. pvCallType'
    BY <1>1, <1>2, <1>12 DEF PV!Build, PV!Fail, PV!OurServer, pvCallType, pvPlaces
  <2>4. pvServerType'
    BY <1>1, <1>2, <1>12 DEF PV!Build, PV!Fail, PV!OurServer, pvServerType
  <2> QED
    BY <2>1, <2>2, <2>3, <2>4
<1>13. ASSUME NEW c \in Call, PV!Record(c)
      PROVE  /\ pvLockType'
             /\ pvFileType'
             /\ pvCallType'
             /\ pvServerType'
  <2>1. pvLockType'
    BY <1>1, <1>2, <1>13 DEF PV!Record, pvLockType
  <2>2. pvFileType'
    BY <1>1, <1>2, <1>13 DEF PV!Record, pvFileType
  <2>3. pvCallType'
    BY <1>1, <1>2, <1>13 DEF PV!Record, pvCallType, pvPlaces
  <2>4. pvServerType'
    BY <1>1, <1>2, <1>13 DEF PV!Record, pvServerType
  <2> QED
    BY <2>1, <2>2, <2>3, <2>4
<1>14. ASSUME NEW c \in Call, PV!Healthy(c)
      PROVE  /\ pvLockType'
             /\ pvFileType'
             /\ pvCallType'
             /\ pvServerType'
  <2>1. pvLockType'
    BY <1>1, <1>2, <1>14 DEF PV!Healthy, pvLockType
  <2>2. pvFileType'
    BY <1>1, <1>2, <1>14 DEF PV!Healthy, pvFileType
  <2>3. pvCallType'
    BY <1>1, <1>2, <1>14 DEF PV!Healthy, pvCallType, pvPlaces
  <2>4. pvServerType'
    BY <1>1, <1>2, <1>14 DEF PV!Healthy, pvServerType
  <2> QED
    BY <2>1, <2>2, <2>3, <2>4
<1>15. ASSUME NEW c \in Call, PV!Unhealthy(c)
      PROVE  /\ pvLockType'
             /\ pvFileType'
             /\ pvCallType'
             /\ pvServerType'
  <2>1. pvLockType'
    BY <1>1, <1>2, <1>15 DEF PV!Unhealthy, pvLockType
  <2>2. pvFileType'
    BY <1>1, <1>2, <1>15 DEF PV!Unhealthy, pvFileType
  <2>3. pvCallType'
    BY <1>1, <1>2, <1>15 DEF PV!Unhealthy, pvCallType, pvPlaces
  <2>4. pvServerType'
    BY <1>1, <1>2, <1>15 DEF PV!Unhealthy, pvServerType
  <2> QED
    BY <2>1, <2>2, <2>3, <2>4
<1>16. ASSUME NEW c \in Call, PV!Restore(c)
      PROVE  /\ pvLockType'
             /\ pvFileType'
             /\ pvCallType'
             /\ pvServerType'
  <2>1. pvLockType'
    BY <1>1, <1>2, <1>16 DEF PV!Restore, PV!Restored, PV!Ends, pvLockType
  <2>2. pvFileType'
    BY <1>1, <1>2, <1>16 DEF PV!Restore, PV!Restored, PV!Ends, pvFileType
  <2>3. pvCallType'
    BY <1>1, <1>2, <1>16 DEF PV!Restore, PV!Restored, PV!Ends, pvCallType, pvPlaces
  <2>4. pvServerType'
    BY <1>1, <1>2, <1>16 DEF PV!Restore, PV!Restored, PV!Ends, pvServerType
  <2> QED
    BY <2>1, <2>2, <2>3, <2>4
<1>17. ASSUME NEW c \in Call, PV!Server(c)
      PROVE  /\ pvLockType'
             /\ pvFileType'
             /\ pvCallType'
             /\ pvServerType'
  <2>1. pvLockType'
    BY <1>1, <1>2, <1>17 DEF PV!Server, PV!Ends, pvLockType
  <2>2. pvFileType'
    BY <1>1, <1>2, <1>17 DEF PV!Server, PV!Ends, pvFileType
  <2>3. pvCallType'
    BY <1>1, <1>2, <1>17 DEF PV!Server, PV!Ends, pvCallType, pvPlaces
  <2>4. pvServerType'
    BY <1>1, <1>2, <1>17 DEF PV!Server, PV!Ends, pvServerType
  <2> QED
    BY <2>1, <2>2, <2>3, <2>4
<1>18. CASE PV!Others
  <2>1. pvLockType'
    BY <1>1, <1>2, <1>18 DEF PV!Others, pvLockType
  <2>2. pvFileType'
    BY <1>1, <1>2, <1>18 DEF PV!Others, pvFileType
  <2>3. pvCallType'
    BY <1>1, <1>2, <1>18 DEF PV!Others, pvCallType, pvPlaces
  <2>4. pvServerType'
    BY <1>1, <1>2, <1>18 DEF PV!Others, pvServerType
  <2> QED
    BY <2>1, <2>2, <2>3, <2>4
<1>19. CASE PV!Mishap
  <2>1. pvLockType'
    BY <1>1, <1>2, <1>19 DEF PV!Mishap, pvLockType
  <2>2. pvFileType'
    BY <1>1, <1>2, <1>19 DEF PV!Mishap, pvFileType
  <2>3. pvCallType'
    BY <1>1, <1>2, <1>19 DEF PV!Mishap, pvCallType, pvPlaces
  <2>4. pvServerType'
    BY <1>1, <1>2, <1>19 DEF PV!Mishap, pvServerType
  <2> QED
    BY <2>1, <2>2, <2>3, <2>4
<1>20. CASE UNCHANGED pvVars
  <2>1. pvLockType'
    BY <1>1, <1>2, <1>20 DEF pvVars, pvOnly, pvLockType
  <2>2. pvFileType'
    BY <1>1, <1>2, <1>20 DEF pvVars, pvOnly, pvFileType
  <2>3. pvCallType'
    BY <1>1, <1>2, <1>20 DEF pvVars, pvOnly, pvCallType, pvPlaces
  <2>4. pvServerType'
    BY <1>1, <1>2, <1>20 DEF pvVars, pvOnly, pvServerType
  <2> QED
    BY <2>1, <2>2, <2>3, <2>4
<1> QED
  BY <1>3, <1>4, <1>5, <1>6, <1>7, <1>8, <1>9, <1>10, <1>11, <1>12, <1>13,
     <1>14, <1>15, <1>16, <1>17, <1>18, <1>19, <1>20 DEF PV!Next

(* A call that recorded its server does not start another.                 *)
LEMMA PreviewLater ==
  ASSUME ServersAssumption, pvInv, PV!Next \/ UNCHANGED pvVars
  PROVE  \A d \in Call : pc[d] \in pvLater => pc'[d] \in pvLater
<1> USE DEF PV!Goto, PV!Writes
<1>1. /\ Nobody \notin Call /\ \A c \in Call : Repo[c] \in PV!Worktree
      /\ pvTypes /\ pvNone /\ pvFiles /\ pvHands /\ pvBlame
  BY DEF ServersAssumption, PV!PreviewAssumption, PV!Worktree, pvInv, pvOrder
<1>2. DOMAIN pc = Call /\ DOMAIN seen = Call /\ DOMAIN record = PV!Worktree /\ DOMAIN server = Call
      /\ mishaps \in Nat
  BY <1>1 DEF pvTypes, pvFileType, pvCallType, pvServerType
<1>3. ASSUME NEW c \in Call, PV!Begin(c)
      PROVE  \A d \in Call : pc[d] \in pvLater => pc'[d] \in pvLater
  BY <1>1, <1>2, <1>3 DEF PV!Begin, PV!Held, pvLater
<1>4. ASSUME NEW c \in Call, PV!Renew(c)
      PROVE  \A d \in Call : pc[d] \in pvLater => pc'[d] \in pvLater
  BY <1>1, <1>2, <1>4 DEF PV!Renew, pvLater
<1>5. ASSUME NEW c \in Call, PV!Release(c)
      PROVE  \A d \in Call : pc[d] \in pvLater => pc'[d] \in pvLater
  BY <1>1, <1>2, <1>5 DEF PV!Release, pvLater
<1>6. ASSUME NEW c \in Call, PV!Update(c)
      PROVE  \A d \in Call : pc[d] \in pvLater => pc'[d] \in pvLater
  BY <1>1, <1>2, <1>6 DEF PV!Update, PV!Fail, PV!OurServer, pvLater
<1>7. ASSUME NEW c \in Call, PV!Stop(c)
      PROVE  \A d \in Call : pc[d] \in pvLater => pc'[d] \in pvLater
  BY <1>1, <1>2, <1>7 DEF PV!Stop, PV!OurServer, pvLater
<1>8. ASSUME NEW c \in Call, PV!StopEnds(c)
      PROVE  \A d \in Call : pc[d] \in pvLater => pc'[d] \in pvLater
  BY <1>1, <1>2, <1>8 DEF PV!StopEnds, PV!Ends, pvLater
<1>9. ASSUME NEW c \in Call, PV!StopFails(c)
      PROVE  \A d \in Call : pc[d] \in pvLater => pc'[d] \in pvLater
  BY <1>1, <1>2, <1>9 DEF PV!StopFails, PV!Fail, PV!OurServer, pvLater
<1>10. ASSUME NEW c \in Call, PV!CheckPort(c)
      PROVE  \A d \in Call : pc[d] \in pvLater => pc'[d] \in pvLater
  BY <1>1, <1>2, <1>10 DEF PV!CheckPort, PV!Fail, PV!OurServer, pvLater
<1>11. ASSUME NEW c \in Call, PV!Copy(c)
      PROVE  \A d \in Call : pc[d] \in pvLater => pc'[d] \in pvLater
  BY <1>1, <1>2, <1>11 DEF PV!Copy, PV!Fail, PV!OurServer, pvLater
<1>12. ASSUME NEW c \in Call, PV!Build(c)
      PROVE  \A d \in Call : pc[d] \in pvLater => pc'[d] \in pvLater
  BY <1>1, <1>2, <1>12 DEF PV!Build, PV!Fail, PV!OurServer, pvLater
<1>13. ASSUME NEW c \in Call, PV!Record(c)
      PROVE  \A d \in Call : pc[d] \in pvLater => pc'[d] \in pvLater
  BY <1>1, <1>2, <1>13 DEF PV!Record, pvLater
<1>14. ASSUME NEW c \in Call, PV!Healthy(c)
      PROVE  \A d \in Call : pc[d] \in pvLater => pc'[d] \in pvLater
  BY <1>1, <1>2, <1>14 DEF PV!Healthy, pvLater
<1>15. ASSUME NEW c \in Call, PV!Unhealthy(c)
      PROVE  \A d \in Call : pc[d] \in pvLater => pc'[d] \in pvLater
  BY <1>1, <1>2, <1>15 DEF PV!Unhealthy, pvLater
<1>16. ASSUME NEW c \in Call, PV!Restore(c)
      PROVE  \A d \in Call : pc[d] \in pvLater => pc'[d] \in pvLater
  BY <1>1, <1>2, <1>16 DEF PV!Restore, PV!Restored, PV!Ends, pvLater
<1>17. ASSUME NEW c \in Call, PV!Server(c)
      PROVE  \A d \in Call : pc[d] \in pvLater => pc'[d] \in pvLater
  BY <1>1, <1>2, <1>17 DEF PV!Server, PV!Ends, pvLater
<1>18. CASE PV!Others
  BY <1>1, <1>2, <1>18 DEF PV!Others, pvLater
<1>19. CASE PV!Mishap
  BY <1>1, <1>2, <1>19 DEF PV!Mishap, pvLater
<1>20. CASE UNCHANGED pvVars
  BY <1>1, <1>2, <1>20 DEF pvVars, pvOnly, pvLater
<1> QED
  BY <1>3, <1>4, <1>5, <1>6, <1>7, <1>8, <1>9, <1>10, <1>11, <1>12, <1>13,
     <1>14, <1>15, <1>16, <1>17, <1>18, <1>19, <1>20 DEF PV!Next

(* A server runs only after its call started it, and is recorded by it.     *)
LEMMA PreviewOrder ==
  ASSUME ServersAssumption, pvInv, PV!Next \/ UNCHANGED pvVars
  PROVE  /\ pvNone'
         /\ pvFiles'
         /\ pvHands'
         /\ pvBlame'
<1> USE DEF PV!Goto, PV!Writes
<1>1. /\ Nobody \notin Call /\ \A c \in Call : Repo[c] \in PV!Worktree
      /\ pvTypes /\ pvNone /\ pvFiles /\ pvHands /\ pvBlame
  BY DEF ServersAssumption, PV!PreviewAssumption, PV!Worktree, pvInv, pvOrder
<1>2. DOMAIN pc = Call /\ DOMAIN seen = Call /\ DOMAIN record = PV!Worktree /\ DOMAIN server = Call
      /\ mishaps \in Nat
  BY <1>1 DEF pvTypes, pvFileType, pvCallType, pvServerType
<1>3. \A d \in Call : pc[d] \in pvLater => pc'[d] \in pvLater
  BY PreviewLater
<1>4. ASSUME NEW c \in Call, PV!Begin(c)
      PROVE  /\ pvNone'
             /\ pvFiles'
             /\ pvHands'
             /\ pvBlame'
  <2>1. pvNone'
    BY <1>1, <1>2, <1>3, <1>4
    DEF PV!Begin, PV!Held, pvNone, pvFiles, pvHands, pvNamed, pvLater
  <2>2. pvFiles'
    BY <1>1, <1>2, <1>3, <1>4
    DEF PV!Begin, PV!Held, pvFiles, pvNamed, PV!Stopped, PV!Started, pvLater
  <2>3. pvHands'
    BY <1>1, <1>2, <1>3, <1>4 DEF PV!Begin, PV!Held, pvHands, PV!Alive
  <2>4. pvBlame'
    BY <1>1, <1>2, <1>3, <1>4 DEF PV!Begin, PV!Held, pvBlame
  <2> QED
    BY <2>1, <2>2, <2>3, <2>4
<1>5. ASSUME NEW c \in Call, PV!Renew(c)
      PROVE  /\ pvNone'
             /\ pvFiles'
             /\ pvHands'
             /\ pvBlame'
  <2>1. pvNone'
    BY <1>1, <1>2, <1>3, <1>5
    DEF PV!Renew, pvNone, pvFiles, pvHands, pvNamed, pvLater
  <2>2. pvFiles'
    BY <1>1, <1>2, <1>3, <1>5
    DEF PV!Renew, pvFiles, pvNamed, PV!Stopped, PV!Started, pvLater
  <2>3. pvHands'
    BY <1>1, <1>2, <1>3, <1>5 DEF PV!Renew, pvHands, PV!Alive
  <2>4. pvBlame'
    BY <1>1, <1>2, <1>3, <1>5 DEF PV!Renew, pvBlame
  <2> QED
    BY <2>1, <2>2, <2>3, <2>4
<1>6. ASSUME NEW c \in Call, PV!Release(c)
      PROVE  /\ pvNone'
             /\ pvFiles'
             /\ pvHands'
             /\ pvBlame'
  <2>1. pvNone'
    BY <1>1, <1>2, <1>3, <1>6
    DEF PV!Release, pvNone, pvFiles, pvHands, pvNamed, pvLater
  <2>2. pvFiles'
    BY <1>1, <1>2, <1>3, <1>6
    DEF PV!Release, pvFiles, pvNamed, PV!Stopped, PV!Started, pvLater
  <2>3. pvHands'
    BY <1>1, <1>2, <1>3, <1>6 DEF PV!Release, pvHands, PV!Alive
  <2>4. pvBlame'
    BY <1>1, <1>2, <1>3, <1>6 DEF PV!Release, pvBlame
  <2> QED
    BY <2>1, <2>2, <2>3, <2>4
<1>7. ASSUME NEW c \in Call, PV!Update(c)
      PROVE  /\ pvNone'
             /\ pvFiles'
             /\ pvHands'
             /\ pvBlame'
  <2>1. pvNone'
    BY <1>1, <1>2, <1>3, <1>7
    DEF PV!Update, PV!Fail, PV!OurServer, pvNone, pvFiles, pvHands, pvNamed,
        pvLater
  <2>2. pvFiles'
    <3>1. /\ record'[Repo[c]] \in {record[Repo[c]], PV!Stopped(record[Repo[c]])}
          /\ \A w \in PV!Worktree \ {Repo[c]} : record'[w] = record[w]
      BY <1>1, <1>2, <1>7 DEF PV!Update, PV!Fail, PV!OurServer
    <3>2. seen'[c] \in {seen[c], record[Repo[c]]} /\ \A d \in Call \ {c} : seen'[d] = seen[d]
      BY <1>1, <1>2, <1>7 DEF PV!Update
    <3>3. PV!Stopped(record[Repo[c]]).server = Nobody
      BY <1>1 DEF PV!Stopped, pvTypes, pvFileType, pvRecord
    <3> QED
      BY <1>1, <1>3, <3>1, <3>2, <3>3 DEF pvFiles, pvNamed
  <2>3. pvHands'
    BY <1>1, <1>2, <1>3, <1>7
    DEF PV!Update, PV!Fail, PV!OurServer, pvHands, PV!Alive
  <2>4. pvBlame'
    BY <1>1, <1>2, <1>3, <1>7 DEF PV!Update, PV!Fail, PV!OurServer, pvBlame
  <2> QED
    BY <2>1, <2>2, <2>3, <2>4
<1>8. ASSUME NEW c \in Call, PV!Stop(c)
      PROVE  /\ pvNone'
             /\ pvFiles'
             /\ pvHands'
             /\ pvBlame'
  <2>1. pvNone'
    BY <1>1, <1>2, <1>3, <1>8
    DEF PV!Stop, PV!OurServer, pvNone, pvFiles, pvHands, pvNamed, pvLater
  <2>2. pvFiles'
    <3>1. /\ record'[Repo[c]] \in {record[Repo[c]], PV!Stopped(record[Repo[c]])}
          /\ \A w \in PV!Worktree \ {Repo[c]} : record'[w] = record[w]
      BY <1>1, <1>2, <1>8 DEF PV!Stop, PV!OurServer
    <3>2. seen'[c] \in {seen[c], record[Repo[c]]} /\ \A d \in Call \ {c} : seen'[d] = seen[d]
      BY <1>1, <1>2, <1>8 DEF PV!Stop
    <3>3. PV!Stopped(record[Repo[c]]).server = Nobody
      BY <1>1 DEF PV!Stopped, pvTypes, pvFileType, pvRecord
    <3> QED
      BY <1>1, <1>3, <3>1, <3>2, <3>3 DEF pvFiles, pvNamed
  <2>3. pvHands'
    BY <1>1, <1>2, <1>3, <1>8 DEF PV!Stop, PV!OurServer, pvHands, PV!Alive
  <2>4. pvBlame'
    BY <1>1, <1>2, <1>3, <1>8 DEF PV!Stop, PV!OurServer, pvBlame
  <2> QED
    BY <2>1, <2>2, <2>3, <2>4
<1>9. ASSUME NEW c \in Call, PV!StopEnds(c)
      PROVE  /\ pvNone'
             /\ pvFiles'
             /\ pvHands'
             /\ pvBlame'
  <2>1. pvNone'
    BY <1>1, <1>2, <1>3, <1>9
    DEF PV!StopEnds, PV!Ends, pvNone, pvFiles, pvHands, pvNamed, pvLater
  <2>2. pvFiles'
    BY <1>1, <1>2, <1>3, <1>9
    DEF PV!StopEnds, PV!Ends, pvFiles, pvNamed, PV!Stopped, PV!Started, pvLater
  <2>3. pvHands'
    BY <1>1, <1>2, <1>3, <1>9 DEF PV!StopEnds, PV!Ends, pvHands, PV!Alive
  <2>4. pvBlame'
    BY <1>1, <1>2, <1>3, <1>9 DEF PV!StopEnds, PV!Ends, pvBlame
  <2> QED
    BY <2>1, <2>2, <2>3, <2>4
<1>10. ASSUME NEW c \in Call, PV!StopFails(c)
      PROVE  /\ pvNone'
             /\ pvFiles'
             /\ pvHands'
             /\ pvBlame'
  <2>1. pvNone'
    BY <1>1, <1>2, <1>3, <1>10
    DEF PV!StopFails, PV!Fail, PV!OurServer, pvNone, pvFiles, pvHands, pvNamed,
        pvLater
  <2>2. pvFiles'
    <3>1. /\ record'[Repo[c]] \in {record[Repo[c]], PV!Stopped(record[Repo[c]])}
          /\ \A w \in PV!Worktree \ {Repo[c]} : record'[w] = record[w]
      BY <1>1, <1>2, <1>10 DEF PV!StopFails, PV!Fail, PV!OurServer
    <3>2. seen'[c] \in {seen[c], record[Repo[c]]} /\ \A d \in Call \ {c} : seen'[d] = seen[d]
      BY <1>1, <1>2, <1>10 DEF PV!StopFails
    <3>3. PV!Stopped(record[Repo[c]]).server = Nobody
      BY <1>1 DEF PV!Stopped, pvTypes, pvFileType, pvRecord
    <3> QED
      BY <1>1, <1>3, <3>1, <3>2, <3>3 DEF pvFiles, pvNamed
  <2>3. pvHands'
    BY <1>1, <1>2, <1>3, <1>10
    DEF PV!StopFails, PV!Fail, PV!OurServer, pvHands, PV!Alive
  <2>4. pvBlame'
    BY <1>1, <1>2, <1>3, <1>10 DEF PV!StopFails, PV!Fail, PV!OurServer, pvBlame
  <2> QED
    BY <2>1, <2>2, <2>3, <2>4
<1>11. ASSUME NEW c \in Call, PV!CheckPort(c)
      PROVE  /\ pvNone'
             /\ pvFiles'
             /\ pvHands'
             /\ pvBlame'
  <2>1. pvNone'
    BY <1>1, <1>2, <1>3, <1>11
    DEF PV!CheckPort, PV!Fail, PV!OurServer, pvNone, pvFiles, pvHands, pvNamed,
        pvLater
  <2>2. pvFiles'
    <3>1. /\ record'[Repo[c]] \in {record[Repo[c]], PV!Stopped(record[Repo[c]])}
          /\ \A w \in PV!Worktree \ {Repo[c]} : record'[w] = record[w]
      BY <1>1, <1>2, <1>11 DEF PV!CheckPort, PV!Fail, PV!OurServer
    <3>2. seen'[c] \in {seen[c], record[Repo[c]]} /\ \A d \in Call \ {c} : seen'[d] = seen[d]
      BY <1>1, <1>2, <1>11 DEF PV!CheckPort
    <3>3. PV!Stopped(record[Repo[c]]).server = Nobody
      BY <1>1 DEF PV!Stopped, pvTypes, pvFileType, pvRecord
    <3> QED
      BY <1>1, <1>3, <3>1, <3>2, <3>3 DEF pvFiles, pvNamed
  <2>3. pvHands'
    BY <1>1, <1>2, <1>3, <1>11
    DEF PV!CheckPort, PV!Fail, PV!OurServer, pvHands, PV!Alive
  <2>4. pvBlame'
    BY <1>1, <1>2, <1>3, <1>11 DEF PV!CheckPort, PV!Fail, PV!OurServer, pvBlame
  <2> QED
    BY <2>1, <2>2, <2>3, <2>4
<1>12. ASSUME NEW c \in Call, PV!Copy(c)
      PROVE  /\ pvNone'
             /\ pvFiles'
             /\ pvHands'
             /\ pvBlame'
  <2>1. pvNone'
    BY <1>1, <1>2, <1>3, <1>12
    DEF PV!Copy, PV!Fail, PV!OurServer, pvNone, pvFiles, pvHands, pvNamed,
        pvLater
  <2>2. pvFiles'
    <3>1. /\ record'[Repo[c]] \in {record[Repo[c]], PV!Stopped(record[Repo[c]])}
          /\ \A w \in PV!Worktree \ {Repo[c]} : record'[w] = record[w]
      BY <1>1, <1>2, <1>12 DEF PV!Copy, PV!Fail, PV!OurServer
    <3>2. seen'[c] \in {seen[c], record[Repo[c]]} /\ \A d \in Call \ {c} : seen'[d] = seen[d]
      BY <1>1, <1>2, <1>12 DEF PV!Copy
    <3>3. PV!Stopped(record[Repo[c]]).server = Nobody
      BY <1>1 DEF PV!Stopped, pvTypes, pvFileType, pvRecord
    <3> QED
      BY <1>1, <1>3, <3>1, <3>2, <3>3 DEF pvFiles, pvNamed
  <2>3. pvHands'
    BY <1>1, <1>2, <1>3, <1>12 DEF PV!Copy, PV!Fail, PV!OurServer, pvHands, PV!Alive
  <2>4. pvBlame'
    BY <1>1, <1>2, <1>3, <1>12 DEF PV!Copy, PV!Fail, PV!OurServer, pvBlame
  <2> QED
    BY <2>1, <2>2, <2>3, <2>4
<1>13. ASSUME NEW c \in Call, PV!Build(c)
      PROVE  /\ pvNone'
             /\ pvFiles'
             /\ pvHands'
             /\ pvBlame'
  <2>1. pvNone'
    BY <1>1, <1>2, <1>3, <1>13
    DEF PV!Build, PV!Fail, PV!OurServer, pvNone, pvFiles, pvHands, pvNamed,
        pvLater
  <2>2. pvFiles'
    <3>1. /\ record'[Repo[c]] \in {record[Repo[c]], PV!Stopped(record[Repo[c]])}
          /\ \A w \in PV!Worktree \ {Repo[c]} : record'[w] = record[w]
      BY <1>1, <1>2, <1>13 DEF PV!Build, PV!Fail, PV!OurServer
    <3>2. seen'[c] \in {seen[c], record[Repo[c]]} /\ \A d \in Call \ {c} : seen'[d] = seen[d]
      BY <1>1, <1>2, <1>13 DEF PV!Build
    <3>3. PV!Stopped(record[Repo[c]]).server = Nobody
      BY <1>1 DEF PV!Stopped, pvTypes, pvFileType, pvRecord
    <3> QED
      BY <1>1, <1>3, <3>1, <3>2, <3>3 DEF pvFiles, pvNamed
  <2>3. pvHands'
    BY <1>1, <1>2, <1>3, <1>13
    DEF PV!Build, PV!Fail, PV!OurServer, pvHands, PV!Alive
  <2>4. pvBlame'
    BY <1>1, <1>2, <1>3, <1>13 DEF PV!Build, PV!Fail, PV!OurServer, pvBlame
  <2> QED
    BY <2>1, <2>2, <2>3, <2>4
<1>14. ASSUME NEW c \in Call, PV!Record(c)
      PROVE  /\ pvNone'
             /\ pvFiles'
             /\ pvHands'
             /\ pvBlame'
  <2>1. pvNone'
    BY <1>1, <1>2, <1>3, <1>14
    DEF PV!Record, pvNone, pvFiles, pvHands, pvNamed, pvLater
  <2>2. pvFiles'
    BY <1>1, <1>2, <1>3, <1>14
    DEF PV!Record, pvFiles, pvNamed, PV!Stopped, PV!Started, pvLater
  <2>3. pvHands'
    BY <1>1, <1>2, <1>3, <1>14 DEF PV!Record, pvHands, PV!Alive
  <2>4. pvBlame'
    BY <1>1, <1>2, <1>3, <1>14 DEF PV!Record, pvBlame
  <2> QED
    BY <2>1, <2>2, <2>3, <2>4
<1>15. ASSUME NEW c \in Call, PV!Healthy(c)
      PROVE  /\ pvNone'
             /\ pvFiles'
             /\ pvHands'
             /\ pvBlame'
  <2>1. pvNone'
    BY <1>1, <1>2, <1>3, <1>15
    DEF PV!Healthy, pvNone, pvFiles, pvHands, pvNamed, pvLater
  <2>2. pvFiles'
    BY <1>1, <1>2, <1>3, <1>15
    DEF PV!Healthy, pvFiles, pvNamed, PV!Stopped, PV!Started, pvLater
  <2>3. pvHands'
    BY <1>1, <1>2, <1>3, <1>15 DEF PV!Healthy, pvHands, PV!Alive
  <2>4. pvBlame'
    BY <1>1, <1>2, <1>3, <1>15 DEF PV!Healthy, pvBlame
  <2> QED
    BY <2>1, <2>2, <2>3, <2>4
<1>16. ASSUME NEW c \in Call, PV!Unhealthy(c)
      PROVE  /\ pvNone'
             /\ pvFiles'
             /\ pvHands'
             /\ pvBlame'
  <2>1. pvNone'
    BY <1>1, <1>2, <1>3, <1>16
    DEF PV!Unhealthy, pvNone, pvFiles, pvHands, pvNamed, pvLater
  <2>2. pvFiles'
    BY <1>1, <1>2, <1>3, <1>16
    DEF PV!Unhealthy, pvFiles, pvNamed, PV!Stopped, PV!Started, pvLater
  <2>3. pvHands'
    BY <1>1, <1>2, <1>3, <1>16 DEF PV!Unhealthy, pvHands, PV!Alive
  <2>4. pvBlame'
    BY <1>1, <1>2, <1>3, <1>16 DEF PV!Unhealthy, pvBlame
  <2> QED
    BY <2>1, <2>2, <2>3, <2>4
<1>17. ASSUME NEW c \in Call, PV!Restore(c)
      PROVE  /\ pvNone'
             /\ pvFiles'
             /\ pvHands'
             /\ pvBlame'
  <2>1. pvNone'
    BY <1>1, <1>2, <1>3, <1>17
    DEF PV!Restore, PV!Restored, PV!Ends, pvNone, pvFiles, pvHands, pvNamed,
        pvLater
  <2>2. pvFiles'
    BY <1>1, <1>2, <1>3, <1>17
    DEF PV!Restore, PV!Restored, PV!Ends, pvFiles, pvNamed, PV!Stopped,
        PV!Started, pvLater
  <2>3. pvHands'
    BY <1>1, <1>2, <1>3, <1>17
    DEF PV!Restore, PV!Restored, PV!Ends, pvHands, PV!Alive
  <2>4. pvBlame'
    BY <1>1, <1>2, <1>3, <1>17 DEF PV!Restore, PV!Restored, PV!Ends, pvBlame
  <2> QED
    BY <2>1, <2>2, <2>3, <2>4
<1>18. ASSUME NEW c \in Call, PV!Server(c)
      PROVE  /\ pvNone'
             /\ pvFiles'
             /\ pvHands'
             /\ pvBlame'
  <2>1. pvNone'
    BY <1>1, <1>2, <1>3, <1>18
    DEF PV!Server, PV!Ends, pvNone, pvFiles, pvHands, pvNamed, pvLater, PV!Alive
  <2>2. pvFiles'
    BY <1>1, <1>2, <1>3, <1>18
    DEF PV!Server, PV!Ends, pvFiles, pvNamed, PV!Stopped, PV!Started, pvLater
  <2>3. pvHands'
    BY <1>1, <1>2, <1>3, <1>18 DEF PV!Server, PV!Ends, pvHands, PV!Alive
  <2>4. pvBlame'
    BY <1>1, <1>2, <1>3, <1>18 DEF PV!Server, PV!Ends, pvBlame
  <2> QED
    BY <2>1, <2>2, <2>3, <2>4
<1>19. CASE PV!Others
  <2>1. pvNone'
    BY <1>1, <1>2, <1>3, <1>19
    DEF PV!Others, pvNone, pvFiles, pvHands, pvNamed, pvLater
  <2>2. pvFiles'
    BY <1>1, <1>2, <1>3, <1>19
    DEF PV!Others, pvFiles, pvNamed, PV!Stopped, PV!Started, pvLater
  <2>3. pvHands'
    BY <1>1, <1>2, <1>3, <1>19 DEF PV!Others, pvHands, PV!Alive
  <2>4. pvBlame'
    BY <1>1, <1>2, <1>3, <1>19 DEF PV!Others, pvBlame
  <2> QED
    BY <2>1, <2>2, <2>3, <2>4
<1>20. CASE PV!Mishap
  <2>1. pvNone'
    BY <1>1, <1>2, <1>3, <1>20
    DEF PV!Mishap, pvNone, pvFiles, pvHands, pvNamed, pvLater
  <2>2. pvFiles'
    BY <1>1, <1>2, <1>3, <1>20
    DEF PV!Mishap, pvFiles, pvNamed, PV!Stopped, PV!Started, pvLater
  <2>3. pvHands'
    BY <1>1, <1>2, <1>3, <1>20 DEF PV!Mishap, pvHands, PV!Alive
  <2>4. pvBlame'
    BY <1>1, <1>2, <1>3, <1>20 DEF PV!Mishap, pvBlame
  <2> QED
    BY <2>1, <2>2, <2>3, <2>4
<1>21. CASE UNCHANGED pvVars
  <2>1. pvNone'
    BY <1>1, <1>2, <1>3, <1>21
    DEF pvVars, pvOnly, pvNone, pvFiles, pvHands, pvNamed, pvLater
  <2>2. pvFiles'
    BY <1>1, <1>2, <1>3, <1>21
    DEF pvVars, pvOnly, pvFiles, pvNamed, PV!Stopped, PV!Started, pvLater
  <2>3. pvHands'
    BY <1>1, <1>2, <1>3, <1>21 DEF pvVars, pvOnly, pvHands, PV!Alive
  <2>4. pvBlame'
    BY <1>1, <1>2, <1>3, <1>21 DEF pvVars, pvOnly, pvBlame
  <2> QED
    BY <2>1, <2>2, <2>3, <2>4
<1> QED
  BY <1>4, <1>5, <1>6, <1>7, <1>8, <1>9, <1>10, <1>11, <1>12, <1>13, <1>14,
     <1>15, <1>16, <1>17, <1>18, <1>19, <1>20, <1>21 DEF PV!Next
(* While no lease ran out, one call is between the taking and the release. *)
LEMMA PreviewAlone ==
  ASSUME ServersAssumption, pvInv, PV!Next \/ UNCHANGED pvVars
  PROVE  pvAlone'
<1> USE DEF PV!Goto, PV!Writes
<1>1. /\ Nobody \notin Call /\ \A c \in Call : Repo[c] \in PV!Worktree
      /\ DOMAIN pc = Call /\ DOMAIN seen = Call /\ DOMAIN record = PV!Worktree /\ DOMAIN server = Call
      /\ DOMAIN target = Call /\ DOMAIN ready = Call /\ DOMAIN copy = PV!Worktree /\ DOMAIN shown = PV!Worktree
      /\ mishaps \in Nat
  BY DEF ServersAssumption, PV!PreviewAssumption, PV!Worktree, pvInv, pvTypes,
         pvFileType,
         pvCallType, pvServerType
<1>2. pvFiles /\ pvNone /\ pvHands /\ pvBlame /\ pvAlone /\ pvRead
  BY DEF pvInv, pvOrder
<1>3. lapsed \/ \A c, d \in Call : pvInside(c) /\ pvInside(d) => c = d
  BY <1>2 DEF pvAlone
<1>4. ASSUME NEW c \in Call, PV!Begin(c)
      PROVE  pvAlone'
  BY <1>1, <1>2, <1>3, <1>4 DEF PV!Begin, PV!Held, pvAlone, pvInside
<1>5. ASSUME NEW c \in Call, PV!Renew(c)
      PROVE  pvAlone'
  BY <1>1, <1>2, <1>3, <1>5 DEF PV!Renew, pvAlone, pvInside
<1>6. ASSUME NEW c \in Call, PV!Release(c)
      PROVE  pvAlone'
  BY <1>1, <1>2, <1>3, <1>6 DEF PV!Release, pvAlone, pvInside
<1>7. ASSUME NEW c \in Call, PV!Update(c)
      PROVE  pvAlone'
  BY <1>1, <1>2, <1>3, <1>7 DEF PV!Update, PV!Fail, PV!OurServer, pvAlone, pvInside
<1>8. ASSUME NEW c \in Call, PV!Stop(c)
      PROVE  pvAlone'
  BY <1>1, <1>2, <1>3, <1>8 DEF PV!Stop, PV!OurServer, pvAlone, pvInside
<1>9. ASSUME NEW c \in Call, PV!StopEnds(c)
      PROVE  pvAlone'
  BY <1>1, <1>2, <1>3, <1>9 DEF PV!StopEnds, PV!Ends, pvAlone, pvInside
<1>10. ASSUME NEW c \in Call, PV!StopFails(c)
      PROVE  pvAlone'
  BY <1>1, <1>2, <1>3, <1>10
  DEF PV!StopFails, PV!Fail, PV!OurServer, pvAlone, pvInside
<1>11. ASSUME NEW c \in Call, PV!CheckPort(c)
      PROVE  pvAlone'
  BY <1>1, <1>2, <1>3, <1>11
  DEF PV!CheckPort, PV!Fail, PV!OurServer, pvAlone, pvInside
<1>12. ASSUME NEW c \in Call, PV!Copy(c)
      PROVE  pvAlone'
  BY <1>1, <1>2, <1>3, <1>12 DEF PV!Copy, PV!Fail, PV!OurServer, pvAlone, pvInside
<1>13. ASSUME NEW c \in Call, PV!Build(c)
      PROVE  pvAlone'
  BY <1>1, <1>2, <1>3, <1>13 DEF PV!Build, PV!Fail, PV!OurServer, pvAlone, pvInside
<1>14. ASSUME NEW c \in Call, PV!Record(c)
      PROVE  pvAlone'
  BY <1>1, <1>2, <1>3, <1>14 DEF PV!Record, pvAlone, pvInside
<1>15. ASSUME NEW c \in Call, PV!Healthy(c)
      PROVE  pvAlone'
  BY <1>1, <1>2, <1>3, <1>15 DEF PV!Healthy, pvAlone, pvInside
<1>16. ASSUME NEW c \in Call, PV!Unhealthy(c)
      PROVE  pvAlone'
  BY <1>1, <1>2, <1>3, <1>16 DEF PV!Unhealthy, pvAlone, pvInside
<1>17. ASSUME NEW c \in Call, PV!Restore(c)
      PROVE  pvAlone'
  BY <1>1, <1>2, <1>3, <1>17 DEF PV!Restore, PV!Restored, PV!Ends, pvAlone, pvInside
<1>18. ASSUME NEW c \in Call, PV!Server(c)
      PROVE  pvAlone'
  BY <1>1, <1>2, <1>3, <1>18 DEF PV!Server, PV!Ends, pvAlone, pvInside
<1>19. CASE PV!Others
  BY <1>1, <1>2, <1>3, <1>19 DEF PV!Others, pvAlone, pvInside
<1>20. CASE PV!Mishap
  BY <1>1, <1>2, <1>3, <1>20 DEF PV!Mishap, pvAlone, pvInside
<1>21. CASE UNCHANGED pvVars
  BY <1>1, <1>2, <1>3, <1>21 DEF pvVars, pvOnly, pvAlone, pvInside
<1> QED
  BY <1>4, <1>5, <1>6, <1>7, <1>8, <1>9, <1>10, <1>11, <1>12, <1>13, <1>14,
     <1>15, <1>16, <1>17, <1>18, <1>19, <1>20, <1>21 DEF PV!Next

(* Then what it read still holds.                                          *)
LEMMA PreviewRead ==
  ASSUME ServersAssumption, pvInv, PV!Next \/ UNCHANGED pvVars
  PROVE  pvRead'
<1> USE DEF PV!Goto, PV!Writes
<1>1. /\ Nobody \notin Call /\ \A c \in Call : Repo[c] \in PV!Worktree
      /\ DOMAIN pc = Call /\ DOMAIN seen = Call /\ DOMAIN record = PV!Worktree /\ DOMAIN server = Call
      /\ DOMAIN target = Call /\ DOMAIN ready = Call /\ DOMAIN copy = PV!Worktree /\ DOMAIN shown = PV!Worktree
      /\ mishaps \in Nat
  BY DEF ServersAssumption, PV!PreviewAssumption, PV!Worktree, pvInv, pvTypes,
         pvFileType,
         pvCallType, pvServerType
<1>2. pvFiles /\ pvNone /\ pvHands /\ pvBlame /\ pvAlone /\ pvRead
  BY DEF pvInv, pvOrder
<1>3. lapsed \/ \A c, d \in Call : pvInside(c) /\ pvInside(d) => c = d
  BY <1>2 DEF pvAlone
<1>4. ASSUME NEW c \in Call, PV!Begin(c)
      PROVE  pvRead'
  BY <1>1, <1>2, <1>3, <1>4
  DEF PV!Begin, PV!Held, pvRead, pvInside, PV!Alive, PV!Started, PV!Stopped
<1>5. ASSUME NEW c \in Call, PV!Renew(c)
      PROVE  pvRead'
  BY <1>1, <1>2, <1>3, <1>5
  DEF PV!Renew, pvRead, pvInside, PV!Alive, PV!Started, PV!Stopped
<1>6. ASSUME NEW c \in Call, PV!Release(c)
      PROVE  pvRead'
  BY <1>1, <1>2, <1>3, <1>6
  DEF PV!Release, pvRead, pvInside, PV!Alive, PV!Started, PV!Stopped
<1>7. ASSUME NEW c \in Call, PV!Update(c)
      PROVE  pvRead'
  BY <1>1, <1>2, <1>3, <1>7
  DEF PV!Update, PV!Fail, PV!OurServer, pvRead, pvInside, PV!Alive, PV!Started,
      PV!Stopped
<1>8. ASSUME NEW c \in Call, PV!Stop(c)
      PROVE  pvRead'
  BY <1>1, <1>2, <1>3, <1>8
  DEF PV!Stop, PV!OurServer, pvRead, pvInside, PV!Alive, PV!Started, PV!Stopped
<1>9. ASSUME NEW c \in Call, PV!StopEnds(c)
      PROVE  pvRead'
  BY <1>1, <1>2, <1>3, <1>9
  DEF PV!StopEnds, PV!Ends, pvRead, pvInside, PV!Alive, PV!Started, PV!Stopped
<1>10. ASSUME NEW c \in Call, PV!StopFails(c)
      PROVE  pvRead'
  BY <1>1, <1>2, <1>3, <1>10
  DEF PV!StopFails, PV!Fail, PV!OurServer, pvRead, pvInside, PV!Alive,
      PV!Started, PV!Stopped
<1>11. ASSUME NEW c \in Call, PV!CheckPort(c)
      PROVE  pvRead'
  BY <1>1, <1>2, <1>3, <1>11
  DEF PV!CheckPort, PV!Fail, PV!OurServer, pvRead, pvInside, PV!Alive,
      PV!Started, PV!Stopped
<1>12. ASSUME NEW c \in Call, PV!Copy(c)
      PROVE  pvRead'
  BY <1>1, <1>2, <1>3, <1>12
  DEF PV!Copy, PV!Fail, PV!OurServer, pvRead, pvInside, PV!Alive, PV!Started,
      PV!Stopped
<1>13. ASSUME NEW c \in Call, PV!Build(c)
      PROVE  pvRead'
  <2>1. CASE lapsed
    BY <2>1, <1>13 DEF PV!Build, pvRead
  <2>2. CASE ~lapsed
    <3>1. \A d \in Call \ {c} : ~pvInside(d)
      BY <1>3, <2>2, <1>13 DEF PV!Build, pvInside
    <3>2. /\ record[Repo[c]].server # c /\ ~PV!Alive(record[Repo[c]].server)
      BY <1>1, <1>2, <2>2, <1>13 DEF PV!Build, pvFiles, pvNamed, pvLater, pvRead
    <3>3. CASE pc'[c] = "end"
      BY <1>1, <2>2, <1>13, <3>1, <3>3 DEF PV!Build, PV!Fail, pvRead, pvInside
    <3>4. CASE pc'[c] = "record" /\ record' = record
      <4>1. ~PV!Alive(record[Repo[c]].server)'
        BY <1>1, <1>13, <3>2, <3>4 DEF PV!Build, PV!Alive
      <4>2. pc' = [pc EXCEPT ![c] = "record"] /\ seen' = seen /\ lapsed' = lapsed
        BY <1>1, <1>13, <3>4 DEF PV!Build, PV!Fail
      <4> SUFFICES ASSUME NEW d \in Call,
                          pc'[d] \in {"stopping", "port", "copy", "build", "record", "health", "unhealthy"}
                   PROVE  pc'[d] = "record" /\ d = c
        BY <2>2, <4>1 DEF pvRead, PV!Alive
      <4> QED
        BY <1>1, <3>1, <4>2 DEF pvInside
    <3> QED
      BY <1>1, <1>13, <3>3, <3>4 DEF PV!Build, PV!Fail
  <2> QED
    BY <2>1, <2>2
<1>14. ASSUME NEW c \in Call, PV!Record(c)
      PROVE  pvRead'
  BY <1>1, <1>2, <1>3, <1>14
  DEF PV!Record, pvRead, pvInside, PV!Alive, PV!Started, PV!Stopped
<1>15. ASSUME NEW c \in Call, PV!Healthy(c)
      PROVE  pvRead'
  BY <1>1, <1>2, <1>3, <1>15
  DEF PV!Healthy, pvRead, pvInside, PV!Alive, PV!Started, PV!Stopped
<1>16. ASSUME NEW c \in Call, PV!Unhealthy(c)
      PROVE  pvRead'
  BY <1>1, <1>2, <1>3, <1>16
  DEF PV!Unhealthy, pvRead, pvInside, PV!Alive, PV!Started, PV!Stopped
<1>17. ASSUME NEW c \in Call, PV!Restore(c)
      PROVE  pvRead'
  BY <1>1, <1>2, <1>3, <1>17
  DEF PV!Restore, PV!Restored, PV!Ends, pvRead, pvInside, PV!Alive, PV!Started,
      PV!Stopped
<1>18. ASSUME NEW c \in Call, PV!Server(c)
      PROVE  pvRead'
  BY <1>1, <1>2, <1>3, <1>18
  DEF PV!Server, PV!Ends, pvRead, pvInside, PV!Alive, PV!Started, PV!Stopped
<1>19. CASE PV!Others
  BY <1>1, <1>2, <1>3, <1>19
  DEF PV!Others, pvRead, pvInside, PV!Alive, PV!Started, PV!Stopped
<1>20. CASE PV!Mishap
  BY <1>1, <1>2, <1>3, <1>20
  DEF PV!Mishap, pvRead, pvInside, PV!Alive, PV!Started, PV!Stopped
<1>21. CASE UNCHANGED pvVars
  BY <1>1, <1>2, <1>3, <1>21
  DEF pvVars, pvOnly, pvRead, pvInside, PV!Alive, PV!Started, PV!Stopped
<1> QED
  BY <1>4, <1>5, <1>6, <1>7, <1>8, <1>9, <1>10, <1>11, <1>12, <1>13, <1>14,
     <1>15, <1>16, <1>17, <1>18, <1>19, <1>20, <1>21 DEF PV!Next

(* Without a mishap, the record names what was shown.                      *)
LEMMA PreviewShown ==
  ASSUME ServersAssumption, pvInv, PV!Next \/ UNCHANGED pvVars, mishaps = 0, mishaps' = 0
  PROVE  pvShown'
<1> USE DEF PV!Goto, PV!Writes
<1>1. /\ Nobody \notin Call /\ Foreign \notin Call /\ Nobody # Foreign
      /\ \A c \in Call : Repo[c] \in PV!Worktree
      /\ DOMAIN pc = Call /\ DOMAIN seen = Call /\ DOMAIN record = PV!Worktree /\ DOMAIN server = Call
      /\ DOMAIN target = Call /\ DOMAIN ready = Call /\ DOMAIN copy = PV!Worktree /\ DOMAIN shown = PV!Worktree
      /\ mishaps \in Nat /\ \A c \in Call : record[Repo[c]] \in pvRecord /\ seen[c] \in pvRecord
  BY DEF ServersAssumption, PV!PreviewAssumption, PV!Worktree, pvInv, pvTypes,
         pvFileType,
         pvCallType, pvServerType
<1>2. /\ ~lapsed /\ \A c \in Call : pc[c] # "dead"
      /\ \A c, d \in Call : pvInside(c) /\ pvInside(d) => c = d
  BY DEF pvInv, pvOrder, pvBlame, pvAlone
<1>3. pvRead /\ ~lapsed
  BY <1>2 DEF pvInv
<1>4. \A r \in pvRecord : PV!Stopped(r).server = Nobody /\ PV!Stopped(r).commit = r.commit
  BY DEF pvRecord, PV!Stopped
<1>5. pvShown
  BY DEF pvInv
<1>6. ASSUME NEW c \in Call, PV!Begin(c)
      PROVE  pvShown'
  BY <1>1, <1>2, <1>3, <1>4, <1>5, <1>6
  DEF PV!Begin, PV!Held, pvShown, pvRead, pvInside, PV!Started
<1>7. ASSUME NEW c \in Call, PV!Renew(c)
      PROVE  pvShown'
  BY <1>1, <1>2, <1>3, <1>4, <1>5, <1>7
  DEF PV!Renew, pvShown, pvRead, pvInside, PV!Started
<1>8. ASSUME NEW c \in Call, PV!Release(c)
      PROVE  pvShown'
  BY <1>1, <1>2, <1>3, <1>4, <1>5, <1>8
  DEF PV!Release, pvShown, pvRead, pvInside, PV!Started
<1>9. ASSUME NEW c \in Call, PV!Update(c)
      PROVE  pvShown'
  BY <1>1, <1>2, <1>3, <1>4, <1>5, <1>9
  DEF PV!Update, PV!Fail, PV!OurServer, pvShown, pvRead, pvInside, PV!Started
<1>10. ASSUME NEW c \in Call, PV!Stop(c)
      PROVE  pvShown'
  BY <1>1, <1>2, <1>3, <1>4, <1>5, <1>10
  DEF PV!Stop, PV!OurServer, pvShown, pvRead, pvInside, PV!Started
<1>11. ASSUME NEW c \in Call, PV!StopEnds(c)
      PROVE  pvShown'
  BY <1>1, <1>2, <1>3, <1>4, <1>5, <1>11
  DEF PV!StopEnds, PV!Ends, pvShown, pvRead, pvInside, PV!Started
<1>12. ASSUME NEW c \in Call, PV!StopFails(c)
      PROVE  pvShown'
  BY <1>1, <1>2, <1>3, <1>4, <1>5, <1>12
  DEF PV!StopFails, PV!Fail, PV!OurServer, pvShown, pvRead, pvInside, PV!Started
<1>13. ASSUME NEW c \in Call, PV!CheckPort(c)
      PROVE  pvShown'
  BY <1>1, <1>2, <1>3, <1>4, <1>5, <1>13
  DEF PV!CheckPort, PV!Fail, PV!OurServer, pvShown, pvRead, pvInside, PV!Started
<1>14. ASSUME NEW c \in Call, PV!Copy(c)
      PROVE  pvShown'
  BY <1>1, <1>2, <1>3, <1>4, <1>5, <1>14
  DEF PV!Copy, PV!Fail, PV!OurServer, pvShown, pvRead, pvInside, PV!Started
<1>15. ASSUME NEW c \in Call, PV!Build(c)
      PROVE  pvShown'
  BY <1>1, <1>2, <1>3, <1>4, <1>5, <1>15
  DEF PV!Build, PV!Fail, PV!OurServer, pvShown, pvRead, pvInside, PV!Started
<1>16. ASSUME NEW c \in Call, PV!Record(c)
      PROVE  pvShown'
  BY <1>1, <1>2, <1>3, <1>4, <1>5, <1>16
  DEF PV!Record, pvShown, pvRead, pvInside, PV!Started
<1>17. ASSUME NEW c \in Call, PV!Healthy(c)
      PROVE  pvShown'
  BY <1>1, <1>2, <1>3, <1>4, <1>5, <1>17
  DEF PV!Healthy, pvShown, pvRead, pvInside, PV!Started
<1>18. ASSUME NEW c \in Call, PV!Unhealthy(c)
      PROVE  pvShown'
  BY <1>1, <1>2, <1>3, <1>4, <1>5, <1>18
  DEF PV!Unhealthy, pvShown, pvRead, pvInside, PV!Started
<1>19. ASSUME NEW c \in Call, PV!Restore(c)
      PROVE  pvShown'
  BY <1>1, <1>2, <1>3, <1>4, <1>5, <1>19
  DEF PV!Restore, PV!Restored, PV!Ends, pvShown, pvRead, pvInside, PV!Started
<1>20. ASSUME NEW c \in Call, PV!Server(c)
      PROVE  pvShown'
  BY <1>1, <1>2, <1>3, <1>4, <1>5, <1>20
  DEF PV!Server, PV!Ends, pvShown, pvRead, pvInside, PV!Started
<1>21. CASE PV!Others
  BY <1>1, <1>2, <1>3, <1>4, <1>5, <1>21
  DEF PV!Others, pvShown, pvRead, pvInside, PV!Started
<1>22. CASE PV!Mishap
  BY <1>1, <1>2, <1>3, <1>4, <1>5, <1>22
  DEF PV!Mishap, pvShown, pvRead, pvInside, PV!Started
<1>23. CASE UNCHANGED pvVars
  BY <1>1, <1>2, <1>3, <1>4, <1>5, <1>23
  DEF pvVars, pvOnly, pvShown, pvRead, pvInside, PV!Started
<1> QED
  BY <1>6, <1>7, <1>8, <1>9, <1>10, <1>11, <1>12, <1>13, <1>14, <1>15, <1>16,
     <1>17, <1>18, <1>19, <1>20, <1>21, <1>22, <1>23 DEF PV!Next

(* And its server runs from a copy of it.                                  *)
LEMMA PreviewCopied ==
  ASSUME ServersAssumption, pvInv, PV!Next \/ UNCHANGED pvVars, mishaps = 0, mishaps' = 0
  PROVE  pvCopied'
<1> USE DEF PV!Goto, PV!Writes
<1>1. /\ Nobody \notin Call /\ Foreign \notin Call /\ Nobody # Foreign
      /\ \A c \in Call : Repo[c] \in PV!Worktree
      /\ DOMAIN pc = Call /\ DOMAIN seen = Call /\ DOMAIN record = PV!Worktree /\ DOMAIN server = Call
      /\ DOMAIN target = Call /\ DOMAIN ready = Call /\ DOMAIN copy = PV!Worktree /\ DOMAIN shown = PV!Worktree
      /\ mishaps \in Nat /\ \A c \in Call : record[Repo[c]] \in pvRecord /\ seen[c] \in pvRecord
  BY DEF ServersAssumption, PV!PreviewAssumption, PV!Worktree, pvInv, pvTypes,
         pvFileType,
         pvCallType, pvServerType
<1>2. /\ ~lapsed /\ \A c \in Call : pc[c] # "dead"
      /\ \A c, d \in Call : pvInside(c) /\ pvInside(d) => c = d
  BY DEF pvInv, pvOrder, pvBlame, pvAlone
<1>3. pvRead /\ ~lapsed
  BY <1>2 DEF pvInv
<1>4. \A r \in pvRecord : PV!Stopped(r).server = Nobody /\ PV!Stopped(r).commit = r.commit
  BY DEF pvRecord, PV!Stopped
<1>5. pvCopied /\ pvFiles
  BY DEF pvInv, pvOrder
<1>6. ASSUME NEW c \in Call, PV!Begin(c)
      PROVE  pvCopied'
  BY <1>1, <1>2, <1>3, <1>4, <1>5, <1>6
  DEF PV!Begin, PV!Held, pvCopied, pvRead, pvInside, PV!Started, PV!Alive
<1>7. ASSUME NEW c \in Call, PV!Renew(c)
      PROVE  pvCopied'
  BY <1>1, <1>2, <1>3, <1>4, <1>5, <1>7
  DEF PV!Renew, pvCopied, pvRead, pvInside, PV!Started, PV!Alive
<1>8. ASSUME NEW c \in Call, PV!Release(c)
      PROVE  pvCopied'
  BY <1>1, <1>2, <1>3, <1>4, <1>5, <1>8
  DEF PV!Release, pvCopied, pvRead, pvInside, PV!Started, PV!Alive
<1>9. ASSUME NEW c \in Call, PV!Update(c)
      PROVE  pvCopied'
  BY <1>1, <1>2, <1>3, <1>4, <1>5, <1>9
  DEF PV!Update, PV!Fail, PV!OurServer, pvCopied, pvRead, pvInside, PV!Started,
      PV!Alive
<1>10. ASSUME NEW c \in Call, PV!Stop(c)
      PROVE  pvCopied'
  BY <1>1, <1>2, <1>3, <1>4, <1>5, <1>10
  DEF PV!Stop, PV!OurServer, pvCopied, pvRead, pvInside, PV!Started, PV!Alive
<1>11. ASSUME NEW c \in Call, PV!StopEnds(c)
      PROVE  pvCopied'
  BY <1>1, <1>2, <1>3, <1>4, <1>5, <1>11
  DEF PV!StopEnds, PV!Ends, pvCopied, pvRead, pvInside, PV!Started, PV!Alive
<1>12. ASSUME NEW c \in Call, PV!StopFails(c)
      PROVE  pvCopied'
  BY <1>1, <1>2, <1>3, <1>4, <1>5, <1>12
  DEF PV!StopFails, PV!Fail, PV!OurServer, pvCopied, pvRead, pvInside,
      PV!Started, PV!Alive
<1>13. ASSUME NEW c \in Call, PV!CheckPort(c)
      PROVE  pvCopied'
  BY <1>1, <1>2, <1>3, <1>4, <1>5, <1>13
  DEF PV!CheckPort, PV!Fail, PV!OurServer, pvCopied, pvRead, pvInside,
      PV!Started, PV!Alive
<1>14. ASSUME NEW c \in Call, PV!Copy(c)
      PROVE  pvCopied'
  <2>1. ~PV!Alive(record[Repo[c]].server) /\ pvInside(c)
    BY <1>14, <1>3 DEF PV!Copy, pvRead, pvInside
  <2>2. /\ \A w \in PV!Worktree \ {Repo[c]} : record'[w] = record[w] /\ copy'[w] = copy[w]
        /\ record'[Repo[c]] \in {record[Repo[c]], PV!Stopped(record[Repo[c]])}
        /\ server' = server /\ target' = target
    BY <1>1, <1>14 DEF PV!Copy, PV!Fail
  <2>3. \A w \in PV!Worktree : PV!Alive(record[w].server)' => copy'[w] = record'[w].commit
    BY <1>1, <1>4, <1>5, <2>1, <2>2 DEF pvCopied, PV!Alive
  <2>4. \A d \in Call : pc'[d] \in {"build", "record"} => d = c /\ copy' = [copy EXCEPT ![Repo[c]] = target[c]]
    BY <1>1, <1>2, <1>14, <2>1 DEF PV!Copy, PV!Fail, pvInside
  <2> QED
    BY <1>1, <2>2, <2>3, <2>4 DEF pvCopied
<1>15. ASSUME NEW c \in Call, PV!Build(c)
      PROVE  pvCopied'
  <2>1. \A w \in PV!Worktree : record[w].server # c
    BY <1>15, <1>5 DEF PV!Build, pvFiles, pvNamed, pvLater
  <2>2. \A w \in PV!Worktree : record'[w] \in {record[w], PV!Stopped(record[w])}
    BY <1>1, <1>15 DEF PV!Build, PV!Fail
  <2>3. \A w \in PV!Worktree : PV!Alive(record[w].server)' =>
               PV!Alive(record[w].server) /\ record'[w].commit = record[w].commit
    <3> SUFFICES ASSUME NEW w \in PV!Worktree, PV!Alive(record[w].server)'
                 PROVE  PV!Alive(record[w].server) /\ record'[w].commit = record[w].commit
      OBVIOUS
    <3>1. record[w] \in pvRecord
      BY DEF pvInv, pvTypes, pvFileType
    <3>2. record'[w] = record[w]
      BY <1>1, <1>4, <2>2, <3>1 DEF PV!Alive
    <3> QED
      BY <1>1, <1>15, <2>1, <3>2 DEF PV!Build, PV!Alive
  <2>4. copy' = copy /\ target' = target
    BY <1>15 DEF PV!Build
  <2>5. \A d \in Call : pc'[d] \in {"build", "record"} => pc[d] \in {"build", "record"}
    BY <1>1, <1>15 DEF PV!Build, PV!Fail
  <2> QED
    BY <1>1, <1>5, <2>3, <2>4, <2>5 DEF pvCopied
<1>16. ASSUME NEW c \in Call, PV!Record(c)
      PROVE  pvCopied'
  BY <1>1, <1>2, <1>3, <1>4, <1>5, <1>16
  DEF PV!Record, pvCopied, pvRead, pvInside, PV!Started, PV!Alive
<1>17. ASSUME NEW c \in Call, PV!Healthy(c)
      PROVE  pvCopied'
  BY <1>1, <1>2, <1>3, <1>4, <1>5, <1>17
  DEF PV!Healthy, pvCopied, pvRead, pvInside, PV!Started, PV!Alive
<1>18. ASSUME NEW c \in Call, PV!Unhealthy(c)
      PROVE  pvCopied'
  BY <1>1, <1>2, <1>3, <1>4, <1>5, <1>18
  DEF PV!Unhealthy, pvCopied, pvRead, pvInside, PV!Started, PV!Alive
<1>19. ASSUME NEW c \in Call, PV!Restore(c)
      PROVE  pvCopied'
  BY <1>1, <1>2, <1>3, <1>4, <1>5, <1>19
  DEF PV!Restore, PV!Restored, PV!Ends, pvCopied, pvRead, pvInside, PV!Started,
      PV!Alive
<1>20. ASSUME NEW c \in Call, PV!Server(c)
      PROVE  pvCopied'
  BY <1>1, <1>2, <1>3, <1>4, <1>5, <1>20
  DEF PV!Server, PV!Ends, pvCopied, pvRead, pvInside, PV!Started, PV!Alive
<1>21. CASE PV!Others
  BY <1>1, <1>2, <1>3, <1>4, <1>5, <1>21
  DEF PV!Others, pvCopied, pvRead, pvInside, PV!Started, PV!Alive
<1>22. CASE PV!Mishap
  BY <1>1, <1>2, <1>3, <1>4, <1>5, <1>22
  DEF PV!Mishap, pvCopied, pvRead, pvInside, PV!Started, PV!Alive
<1>23. CASE UNCHANGED pvVars
  BY <1>1, <1>2, <1>3, <1>4, <1>5, <1>23
  DEF pvVars, pvOnly, pvCopied, pvRead, pvInside, PV!Started, PV!Alive
<1> QED
  BY <1>6, <1>7, <1>8, <1>9, <1>10, <1>11, <1>12, <1>13, <1>14, <1>15, <1>16,
     <1>17, <1>18, <1>19, <1>20, <1>21, <1>22, <1>23 DEF PV!Next

(* The port is that of the server that is up.                              *)
LEMMA PreviewPort ==
  ASSUME ServersAssumption, pvInv, PV!Next \/ UNCHANGED pvVars, mishaps = 0, mishaps' = 0
  PROVE  pvPort'
<1> USE DEF PV!Goto, PV!Writes
<1>1. /\ Nobody \notin Call /\ Foreign \notin Call /\ Nobody # Foreign
      /\ \A c \in Call : Repo[c] \in PV!Worktree
      /\ DOMAIN pc = Call /\ DOMAIN seen = Call /\ DOMAIN record = PV!Worktree /\ DOMAIN server = Call
      /\ DOMAIN target = Call /\ DOMAIN ready = Call /\ DOMAIN copy = PV!Worktree /\ DOMAIN shown = PV!Worktree
      /\ mishaps \in Nat /\ \A c \in Call : record[Repo[c]] \in pvRecord /\ seen[c] \in pvRecord
  BY DEF ServersAssumption, PV!PreviewAssumption, PV!Worktree, pvInv, pvTypes,
         pvFileType,
         pvCallType, pvServerType
<1>2. /\ ~lapsed /\ \A c \in Call : pc[c] # "dead"
      /\ \A c, d \in Call : pvInside(c) /\ pvInside(d) => c = d
  BY DEF pvInv, pvOrder, pvBlame, pvAlone
<1>3. pvRead /\ ~lapsed
  BY <1>2 DEF pvInv
<1>4. pvPort /\ pvNone /\ pvHands
  BY DEF pvInv, pvOrder
<1>5. ASSUME NEW c \in Call, PV!Begin(c)
      PROVE  pvPort'
  BY <1>1, <1>2, <1>3, <1>4, <1>5
  DEF PV!Begin, PV!Held, pvPort, pvRead, pvInside, PV!Alive, PV!Building, pvNone
<1>6. ASSUME NEW c \in Call, PV!Renew(c)
      PROVE  pvPort'
  BY <1>1, <1>2, <1>3, <1>4, <1>6
  DEF PV!Renew, pvPort, pvRead, pvInside, PV!Alive, PV!Building, pvNone
<1>7. ASSUME NEW c \in Call, PV!Release(c)
      PROVE  pvPort'
  BY <1>1, <1>2, <1>3, <1>4, <1>7
  DEF PV!Release, pvPort, pvRead, pvInside, PV!Alive, PV!Building, pvNone
<1>8. ASSUME NEW c \in Call, PV!Update(c)
      PROVE  pvPort'
  BY <1>1, <1>2, <1>3, <1>4, <1>8
  DEF PV!Update, PV!Fail, PV!OurServer, pvPort, pvRead, pvInside, PV!Alive,
      PV!Building, pvNone
<1>9. ASSUME NEW c \in Call, PV!Stop(c)
      PROVE  pvPort'
  BY <1>1, <1>2, <1>3, <1>4, <1>9
  DEF PV!Stop, PV!OurServer, pvPort, pvRead, pvInside, PV!Alive, PV!Building,
      pvNone
<1>10. ASSUME NEW c \in Call, PV!StopEnds(c)
      PROVE  pvPort'
  BY <1>1, <1>2, <1>3, <1>4, <1>10
  DEF PV!StopEnds, PV!Ends, pvPort, pvRead, pvInside, PV!Alive, PV!Building,
      pvNone
<1>11. ASSUME NEW c \in Call, PV!StopFails(c)
      PROVE  pvPort'
  BY <1>1, <1>2, <1>3, <1>4, <1>11
  DEF PV!StopFails, PV!Fail, PV!OurServer, pvPort, pvRead, pvInside, PV!Alive,
      PV!Building, pvNone
<1>12. ASSUME NEW c \in Call, PV!CheckPort(c)
      PROVE  pvPort'
  BY <1>1, <1>2, <1>3, <1>4, <1>12
  DEF PV!CheckPort, PV!Fail, PV!OurServer, pvPort, pvRead, pvInside, PV!Alive,
      PV!Building, pvNone
<1>13. ASSUME NEW c \in Call, PV!Copy(c)
      PROVE  pvPort'
  BY <1>1, <1>2, <1>3, <1>4, <1>13
  DEF PV!Copy, PV!Fail, PV!OurServer, pvPort, pvRead, pvInside, PV!Alive,
      PV!Building, pvNone
<1>14. ASSUME NEW c \in Call, PV!Build(c)
      PROVE  pvPort'
  BY <1>1, <1>2, <1>3, <1>4, <1>14
  DEF PV!Build, PV!Fail, PV!OurServer, pvPort, pvRead, pvInside, PV!Alive,
      PV!Building, pvNone
<1>15. ASSUME NEW c \in Call, PV!Record(c)
      PROVE  pvPort'
  BY <1>1, <1>2, <1>3, <1>4, <1>15
  DEF PV!Record, pvPort, pvRead, pvInside, PV!Alive, PV!Building, pvNone
<1>16. ASSUME NEW c \in Call, PV!Healthy(c)
      PROVE  pvPort'
  BY <1>1, <1>2, <1>3, <1>4, <1>16
  DEF PV!Healthy, pvPort, pvRead, pvInside, PV!Alive, PV!Building, pvNone
<1>17. ASSUME NEW c \in Call, PV!Unhealthy(c)
      PROVE  pvPort'
  BY <1>1, <1>2, <1>3, <1>4, <1>17
  DEF PV!Unhealthy, pvPort, pvRead, pvInside, PV!Alive, PV!Building, pvNone
<1>18. ASSUME NEW c \in Call, PV!Restore(c)
      PROVE  pvPort'
  BY <1>1, <1>2, <1>3, <1>4, <1>18
  DEF PV!Restore, PV!Restored, PV!Ends, pvPort, pvRead, pvInside, PV!Alive,
      PV!Building, pvNone
<1>19. ASSUME NEW c \in Call, PV!Server(c)
      PROVE  pvPort'
  BY <1>1, <1>2, <1>3, <1>4, <1>19
  DEF PV!Server, PV!Ends, pvPort, pvRead, pvInside, PV!Alive, PV!Building,
      pvNone
<1>20. CASE PV!Others
  BY <1>1, <1>2, <1>3, <1>4, <1>20
  DEF PV!Others, pvPort, pvRead, pvInside, PV!Alive, PV!Building, pvNone
<1>21. CASE PV!Mishap
  BY <1>1, <1>2, <1>3, <1>4, <1>21
  DEF PV!Mishap, pvPort, pvRead, pvInside, PV!Alive, PV!Building, pvNone
<1>22. CASE UNCHANGED pvVars
  BY <1>1, <1>2, <1>3, <1>4, <1>22
  DEF pvVars, pvOnly, pvPort, pvRead, pvInside, PV!Alive, PV!Building, pvNone
<1> QED
  BY <1>5, <1>6, <1>7, <1>8, <1>9, <1>10, <1>11, <1>12, <1>13, <1>14, <1>15,
     <1>16, <1>17, <1>18, <1>19, <1>20, <1>21, <1>22 DEF PV!Next

(* A server in neither a record nor the hands of a call.                   *)
pvLost(x) == PV!Alive(x) /\ record[Repo[x]].server # x /\ ~PV!InHands(x)

(* A step forgets no server; with a mishap, one.                           *)
pvKeeps == mishaps' = mishaps /\ \A x \in Call : pvLost(x)' => pvLost(x)
pvLosesOne ==
  mishaps' = mishaps + 1 /\ \E d \in Call : \A x \in Call \ {d} : pvLost(x)' => pvLost(x)

(* A set is no larger than one it lies in, and one more element is one more. *)
LEMMA FewerOnes ==
  ASSUME NEW F, NEW G, NEW m \in Nat, IsFiniteSet(F), Cardinality(F) <= m, G \subseteq F
  PROVE  IsFiniteSet(G) /\ Cardinality(G) <= m
<1>1. IsFiniteSet(G) /\ Cardinality(G) <= Cardinality(F)
  BY FS_Subset
<1>2. Cardinality(G) \in Nat /\ Cardinality(F) \in Nat
  BY <1>1, FS_CardinalityType
<1> QED
  BY <1>1, <1>2

(* One more blamed makes one more to count.                                *)
LEMMA OneMore ==
  ASSUME NEW F, NEW G, NEW x, NEW m \in Nat, IsFiniteSet(F), Cardinality(F) <= m, G \subseteq F \cup {x}
  PROVE  IsFiniteSet(G) /\ Cardinality(G) <= m + 1
<1>1. Cardinality(F) \in Nat
  BY FS_CardinalityType
<1>2. IsFiniteSet(F \cup {x}) /\ Cardinality(F \cup {x}) <= m + 1
  BY <1>1, FS_AddElement
<1> QED
  BY <1>2, FewerOnes

(* While no lease ran out, a step without a mishap forgets no server, one  *)
(* with a mishap one at most.                                              *)
LEMMA PreviewLoses ==
  ASSUME ServersAssumption, pvInv, PV!Next \/ UNCHANGED pvVars, ~lapsed, ~lapsed'
  PROVE  pvKeeps \/ pvLosesOne
<1> USE DEF PV!Goto, PV!Writes
<1>1. /\ Nobody \notin Call /\ Foreign \notin Call /\ Nobody # Foreign
      /\ \A c \in Call : Repo[c] \in PV!Worktree
      /\ DOMAIN pc = Call /\ DOMAIN seen = Call /\ DOMAIN record = PV!Worktree /\ DOMAIN server = Call
      /\ DOMAIN target = Call /\ DOMAIN ready = Call /\ DOMAIN copy = PV!Worktree /\ DOMAIN shown = PV!Worktree
      /\ mishaps \in Nat /\ \A c \in Call : record[Repo[c]] \in pvRecord /\ seen[c] \in pvRecord
  BY DEF ServersAssumption, PV!PreviewAssumption, PV!Worktree, pvInv, pvTypes,
         pvFileType,
         pvCallType, pvServerType
<1>2. \A c, d \in Call : pvInside(c) /\ pvInside(d) => c = d
  BY DEF pvInv, pvAlone
<1>3. pvRead /\ pvFiles /\ pvNone /\ pvHands
  BY DEF pvInv, pvOrder
<1>4. \A r \in pvRecord : PV!Stopped(r).server = Nobody /\ PV!Stopped(r).commit = r.commit
  BY DEF pvRecord, PV!Stopped
<1>5. ASSUME NEW c \in Call, PV!Begin(c)
      PROVE  pvKeeps \/ pvLosesOne
  BY <1>1, <1>2, <1>3, <1>4, <1>5
  DEF PV!Begin, PV!Held, pvKeeps, pvLosesOne, pvLost, PV!Alive, PV!InHands,
      pvInside, pvRead, PV!Stopped, PV!Started
<1>6. ASSUME NEW c \in Call, PV!Renew(c)
      PROVE  pvKeeps \/ pvLosesOne
  BY <1>1, <1>2, <1>3, <1>4, <1>6
  DEF PV!Renew, pvKeeps, pvLosesOne, pvLost, PV!Alive, PV!InHands, pvInside,
      pvRead, PV!Stopped, PV!Started
<1>7. ASSUME NEW c \in Call, PV!Release(c)
      PROVE  pvKeeps \/ pvLosesOne
  BY <1>1, <1>2, <1>3, <1>4, <1>7
  DEF PV!Release, pvKeeps, pvLosesOne, pvLost, PV!Alive, PV!InHands, pvInside,
      pvRead, PV!Stopped, PV!Started
<1>8. ASSUME NEW c \in Call, PV!Update(c)
      PROVE  pvKeeps \/ pvLosesOne
  <2>1. SUFFICES ASSUME NEW x \in Call, pvLost(x)' PROVE pvLost(x)
    BY <1>8 DEF PV!Update, pvKeeps
  <2>2. PV!Alive(x)
    BY <1>1, <1>8, <2>1 DEF PV!Update, PV!Alive, pvLost
  <2>3. record[Repo[x]].server # x
    BY <1>1, <1>2, <1>3, <1>4, <1>8, <2>1, <2>2
    DEF PV!Update, PV!Fail, PV!OurServer, PV!Alive, pvLost
  <2>4. ~PV!InHands(x)
    BY <1>1, <1>2, <1>3, <1>8, <2>1, <2>2
    DEF PV!Update, PV!Fail, PV!Alive, PV!InHands, pvLost
  <2> QED
    BY <2>2, <2>3, <2>4 DEF pvLost
<1>9. ASSUME NEW c \in Call, PV!Stop(c)
      PROVE  pvKeeps \/ pvLosesOne
  <2>1. SUFFICES ASSUME NEW x \in Call, pvLost(x)' PROVE pvLost(x)
    BY <1>9 DEF PV!Stop, pvKeeps
  <2>2. PV!Alive(x)
    BY <1>1, <1>9, <2>1 DEF PV!Stop, PV!Alive, pvLost
  <2>3. record[Repo[x]].server # x
    BY <1>1, <1>2, <1>3, <1>4, <1>9, <2>1, <2>2
    DEF PV!Stop, PV!OurServer, PV!Alive, pvLost
  <2>4. ~PV!InHands(x)
    BY <1>1, <1>2, <1>3, <1>9, <2>1, <2>2 DEF PV!Stop, PV!Alive, PV!InHands, pvLost
  <2> QED
    BY <2>2, <2>3, <2>4 DEF pvLost
<1>10. ASSUME NEW c \in Call, PV!StopEnds(c)
      PROVE  pvKeeps \/ pvLosesOne
  <2>1. SUFFICES ASSUME NEW x \in Call, pvLost(x)' PROVE pvLost(x)
    BY <1>10 DEF PV!StopEnds, pvKeeps
  <2>2. PV!Alive(x)
    BY <1>1, <1>10, <2>1 DEF PV!StopEnds, PV!Ends, PV!Alive, pvLost
  <2>3. record[Repo[x]].server # x
    BY <1>1, <1>2, <1>3, <1>4, <1>10, <2>1, <2>2
    DEF PV!StopEnds, PV!Ends, pvRead, pvInside, PV!Alive, pvLost
  <2>4. ~PV!InHands(x)
    BY <1>1, <1>2, <1>3, <1>10, <2>1, <2>2
    DEF PV!StopEnds, PV!Ends, PV!Alive, PV!InHands, pvLost
  <2> QED
    BY <2>2, <2>3, <2>4 DEF pvLost
<1>11. ASSUME NEW c \in Call, PV!StopFails(c)
      PROVE  pvKeeps \/ pvLosesOne
  BY <1>1, <1>2, <1>3, <1>4, <1>11
  DEF PV!StopFails, PV!Fail, PV!OurServer, pvKeeps, pvLosesOne, pvLost,
      PV!Alive, PV!InHands, pvInside, pvRead, PV!Stopped, PV!Started
<1>12. ASSUME NEW c \in Call, PV!CheckPort(c)
      PROVE  pvKeeps \/ pvLosesOne
  BY <1>1, <1>2, <1>3, <1>4, <1>12
  DEF PV!CheckPort, PV!Fail, PV!OurServer, pvKeeps, pvLosesOne, pvLost,
      PV!Alive, PV!InHands, pvInside, pvRead, PV!Stopped, PV!Started
<1>13. ASSUME NEW c \in Call, PV!Copy(c)
      PROVE  pvKeeps \/ pvLosesOne
  BY <1>1, <1>2, <1>3, <1>4, <1>13
  DEF PV!Copy, PV!Fail, PV!OurServer, pvKeeps, pvLosesOne, pvLost, PV!Alive,
      PV!InHands, pvInside, pvRead, PV!Stopped, PV!Started
<1>14. ASSUME NEW c \in Call, PV!Build(c)
      PROVE  pvKeeps \/ pvLosesOne
  BY <1>1, <1>2, <1>3, <1>4, <1>14
  DEF PV!Build, PV!Fail, PV!OurServer, pvKeeps, pvLosesOne, pvLost, PV!Alive,
      PV!InHands, pvInside, pvRead, PV!Stopped, PV!Started
<1>15. ASSUME NEW c \in Call, PV!Record(c)
      PROVE  pvKeeps \/ pvLosesOne
  BY <1>1, <1>2, <1>3, <1>4, <1>15
  DEF PV!Record, pvKeeps, pvLosesOne, pvLost, PV!Alive, PV!InHands, pvInside,
      pvRead, PV!Stopped, PV!Started
<1>16. ASSUME NEW c \in Call, PV!Healthy(c)
      PROVE  pvKeeps \/ pvLosesOne
  BY <1>1, <1>2, <1>3, <1>4, <1>16
  DEF PV!Healthy, pvKeeps, pvLosesOne, pvLost, PV!Alive, PV!InHands, pvInside,
      pvRead, PV!Stopped, PV!Started
<1>17. ASSUME NEW c \in Call, PV!Unhealthy(c)
      PROVE  pvKeeps \/ pvLosesOne
  BY <1>1, <1>2, <1>3, <1>4, <1>17
  DEF PV!Unhealthy, pvKeeps, pvLosesOne, pvLost, PV!Alive, PV!InHands, pvInside,
      pvRead, PV!Stopped, PV!Started
<1>18. ASSUME NEW c \in Call, PV!Restore(c)
      PROVE  pvKeeps \/ pvLosesOne
  <2>a. record[Repo[c]].server = c /\ pc[c] # "stopping"
    <3>1. pc[c] = "unhealthy"
      BY <1>18 DEF PV!Restore
    <3>2. record[Repo[c]] = PV!Started(c)
      BY <1>3, <3>1 DEF pvRead
    <3> QED
      BY <3>1, <3>2 DEF PV!Started
  <2>b. /\ seen' = seen /\ pc' = [pc EXCEPT ![c] = "end"]
        /\ record' = [record EXCEPT ![Repo[c]] = PV!Restored(c)]
        /\ server' \in {server, [server EXCEPT ![c] = "gone"]}
    BY <1>18 DEF PV!Restore, PV!Ends
  <2>1. \A x \in Call \ {c} : /\ server'[x] = server[x] /\ pc'[x] = pc[x] /\ seen'[x] = seen[x]
                              /\ Repo[x] # Repo[c] => record'[Repo[x]] = record[Repo[x]]
    BY <1>1, <2>b
  <2>2. ASSUME NEW x \in Call \ {c}, pvLost(x)' PROVE pvLost(x)
    <3>1. PV!Alive(x)
      BY <2>1, <2>2 DEF pvLost, PV!Alive
    <3>2. record[Repo[x]].server # x
      BY <2>a, <2>1, <2>2 DEF pvLost
    <3>3. ~PV!InHands(x)
      BY <2>a, <2>1, <2>2 DEF pvLost, PV!InHands
    <3> QED
      BY <3>1, <3>2, <3>3 DEF pvLost
  <2>3. CASE PV!Ends(c) /\ mishaps' = mishaps
    BY <1>1, <2>2, <2>3 DEF PV!Ends, pvKeeps, pvLost, PV!Alive
  <2>4. CASE mishaps' = mishaps + 1
    BY <2>2, <2>4 DEF pvLosesOne
  <2> QED
    BY <1>18, <2>3, <2>4 DEF PV!Restore
<1>19. ASSUME NEW c \in Call, PV!Server(c)
      PROVE  pvKeeps \/ pvLosesOne
  BY <1>1, <1>2, <1>3, <1>4, <1>19
  DEF PV!Server, PV!Ends, pvKeeps, pvLosesOne, pvLost, PV!Alive, PV!InHands,
      pvInside, pvRead, PV!Stopped, PV!Started
<1>20. CASE PV!Others
  BY <1>1, <1>2, <1>3, <1>4, <1>20
  DEF PV!Others, pvKeeps, pvLosesOne, pvLost, PV!Alive, PV!InHands, pvInside,
      pvRead, PV!Stopped, PV!Started
<1>21. CASE PV!Mishap
  BY <1>1, <1>2, <1>3, <1>4, <1>21
  DEF PV!Mishap, pvKeeps, pvLosesOne, pvLost, PV!Alive, PV!InHands, pvInside,
      pvRead, PV!Stopped, PV!Started
<1>22. CASE UNCHANGED pvVars
  BY <1>1, <1>2, <1>3, <1>4, <1>22
  DEF pvVars, pvOnly, pvKeeps, pvLosesOne, pvLost, PV!Alive, PV!InHands,
      pvInside, pvRead, PV!Stopped, PV!Started
<1> QED
  BY <1>5, <1>6, <1>7, <1>8, <1>9, <1>10, <1>11, <1>12, <1>13, <1>14, <1>15,
     <1>16, <1>17, <1>18, <1>19, <1>20, <1>21, <1>22 DEF PV!Next

(* So the forgotten servers are no more than the mishaps.                  *)
LEMMA PreviewForgotten ==
  ASSUME ServersAssumption, pvInv, PV!Next \/ UNCHANGED pvVars
  PROVE  pvForgotten'
<1>1. CASE lapsed'
  BY <1>1 DEF pvForgotten
<1>2. CASE ~lapsed'
  <2>1. ~lapsed /\ mishaps \in Nat
    BY <1>2
    DEF pvInv, pvTypes, pvCallType, pvVars, pvOnly, PV!Next, PV!Others,
        PV!Mishap, PV!Begin,
                PV!Renew, PV!Release, PV!Update, PV!Stop, PV!StopEnds, PV!StopFails, PV!CheckPort,
                PV!Copy, PV!Build, PV!Record, PV!Healthy, PV!Unhealthy, PV!Restore, PV!Server
  <2> DEFINE F == {x \in Call : pvLost(x)}
             G == {x \in Call : pvLost(x)'}
  <2>2. F = PV!Forgotten /\ G = PV!Forgotten'
    BY DEF PV!Forgotten, pvLost
  <2>3. IsFiniteSet(F) /\ Cardinality(F) <= mishaps
    BY <2>1, <2>2 DEF pvInv, pvForgotten
  <2>4. pvKeeps \/ pvLosesOne
    BY <1>2, <2>1, PreviewLoses
  <2>5. CASE pvKeeps
    <3>1. G \subseteq F /\ mishaps' = mishaps
      BY <2>5 DEF pvKeeps
    <3>2. IsFiniteSet(G) /\ Cardinality(G) <= mishaps'
      BY <2>1, <2>3, <3>1, FewerOnes
    <3> QED
      BY <2>2, <3>2 DEF pvForgotten
  <2>6. CASE pvLosesOne
    <3>1. PICK d \in Call : \A x \in Call \ {d} : pvLost(x)' => pvLost(x)
      BY <2>6 DEF pvLosesOne
    <3>2. G \subseteq F \cup {d} /\ mishaps' = mishaps + 1
      BY <2>6, <3>1 DEF pvLosesOne
    <3>3. IsFiniteSet(G) /\ Cardinality(G) <= mishaps'
      BY <2>1, <2>3, <3>2, OneMore
    <3> QED
      BY <2>2, <3>3 DEF pvForgotten
  <2> QED
    BY <2>4, <2>5, <2>6
<1> QED
  BY <1>1, <1>2

(* The invariant holds at the start: nothing runs and nothing is recorded. *)
LEMMA PreviewInit == ServersAssumption /\ PV!Init => pvInv
<1> SUFFICES ASSUME ServersAssumption, PV!Init PROVE pvInv
  OBVIOUS
<1>1. Nobody \notin Call /\ \A c \in Call : Repo[c] \in PV!Worktree
  BY DEF ServersAssumption, PV!PreviewAssumption, PV!Worktree
<1>2. pvTypes
  BY DEF PV!Init, PV!NoRecord, pvTypes, pvLockType, pvFileType, pvCallType,
         pvServerType, pvPlaces,
         pvRecord
<1>3. pvOrder
  BY <1>1
  DEF PV!Init, PV!NoRecord, pvOrder, pvNone, pvFiles, pvNamed, pvHands, pvBlame
<1>4. pvAlone /\ pvRead
  BY DEF PV!Init, pvAlone, pvRead, pvInside
<1>5. pvShown /\ pvCopied
  BY <1>1 DEF PV!Init, PV!NoRecord, pvShown, pvCopied, PV!Alive
<1>6. pvPort
  BY <1>1 DEF PV!Init, pvPort, PV!Building
<1>7. pvForgotten
  <2>1. PV!Forgotten = {}
    BY DEF PV!Init, PV!Forgotten, PV!Alive
  <2> QED
    BY <2>1, FS_EmptySet DEF PV!Init, pvForgotten
<1> QED
  BY <1>2, <1>3, <1>4, <1>5, <1>6, <1>7 DEF pvInv

(* A mishap is not undone.                                                 *)
LEMMA PreviewMishaps ==
  ASSUME PV!Next \/ UNCHANGED pvVars, mishaps \in Nat
  PROVE  mishaps' = 0 => mishaps = 0
BY DEF pvVars, pvOnly, PV!Next, PV!Others, PV!Mishap, PV!Begin, PV!Renew,
       PV!Release, PV!Update,
       PV!Stop, PV!StopEnds, PV!StopFails, PV!CheckPort, PV!Copy, PV!Build, PV!Record, PV!Healthy,
       PV!Unhealthy, PV!Restore, PV!Server

(* Every step keeps it.                                                    *)
LEMMA PreviewKeeps ==
  ASSUME ServersAssumption, pvInv, PV!Next \/ UNCHANGED pvVars
  PROVE  pvInv'
<1>1. pvTypes'
  BY PreviewTypes DEF pvTypes
<1>2. pvOrder'
  BY PreviewOrder DEF pvOrder
<1>3. pvAlone' /\ pvRead' /\ pvForgotten'
  BY PreviewAlone, PreviewRead, PreviewForgotten
<1>4. (pvShown /\ pvCopied /\ pvPort)'
  <2>1. CASE mishaps' = 0
    <3>1. mishaps = 0
      BY <2>1, PreviewMishaps DEF pvInv, pvTypes, pvCallType
    <3> QED
      BY <2>1, <3>1, PreviewShown, PreviewCopied, PreviewPort
  <2>2. CASE mishaps' # 0
    BY <2>2 DEF pvShown, pvCopied, pvPort
  <2> QED
    BY <2>1, <2>2
<1> QED
  BY <1>1, <1>2, <1>3, <1>4 DEF pvInv

(* It says that the servers are accounted for.                             *)
LEMMA PreviewAccounts == ServersAssumption /\ pvInv => PV!NoServerForgotten /\ PV!RecordIsTruthful
<1> SUFFICES ASSUME ServersAssumption, pvInv PROVE PV!NoServerForgotten /\ PV!RecordIsTruthful
  OBVIOUS
<1>1. PV!Cardinality(PV!Forgotten) = Cardinality(PV!Forgotten)
  BY DEF PV!Cardinality, Cardinality, PV!IsFiniteSet, IsFiniteSet
<1>2. PV!NoServerForgotten
  BY <1>1 DEF pvInv, pvForgotten, PV!NoServerForgotten
<1>3. PV!RecordIsTruthful
  BY DEF pvInv, pvShown, pvCopied, pvPort, PV!RecordIsTruthful
<1> QED
  BY <1>2, <1>3

(* Whatever the calls do and whatever the order: while no lease ran out,   *)
(* a server that runs is in the record of its worktree or in the hands of  *)
(* a call, but for one a mishap; and without a mishap, between two calls,  *)
(* the record names the last commit reported ready, its server runs from a *)
(* copy of that commit, and what was reported ready was that call's.       *)
THEOREM ServersAccounted == Spec => []ServersAreAccounted
<1> USE ServersAssumption
<1> DEFINE Inv == part = "preview" => pvInv
<1>1. Init => Inv
  BY PreviewInit DEF Init
<1>2. Inv /\ [Next]_vars => Inv'
  BY PreviewStep, PartStays, PreviewKeeps
<1>3. Inv => ServersAreAccounted
  BY PreviewAccounts DEF ServersAreAccounted
<1> QED
  BY <1>1, <1>2, <1>3, PTL DEF Spec

-----------------------------------------------------------------------------
(* BatchMerge.  What is merged is the beginning of the lot; what the batch *)
(* caused is merged, or is the member at hand; and of what it caused, one  *)
(* merge at most lands on a content that is not that of the lot.           *)
bmEarly == {"read", "base", "fetch", "vet", "whole", "bisect", "bisected", "final"}
bmMerging == {"recheck", "target", "call", "called", "look", "landed", "finish"}
bmCall == [list : SUBSET PR, next : 1..3, found : SUBSET PR, failed : BOOLEAN]
bmEntry == [pr : PR \cup {Other}, ours : BOOLEAN]

bmReadType ==
  /\ pc \in bmEarly \cup bmMerging \cup {"done", "stopped"}
  /\ seen \in 0..Len(Batch) /\ odd \in PR \cup {Nobody} /\ unfit \subseteq PR
  /\ pc = "read" => seen < Len(Batch)
bmFlagType ==
  /\ interaction \in BOOLEAN /\ accepted \in BOOLEAN /\ aborted \in BOOLEAN
  /\ stopped \in PR \cup {Nobody}
bmLotType == whole \subseteq PR /\ culprits \subseteq PR /\ proven \subseteq PR
bmCallType == calls \in Seq(bmCall) /\ (pc = "bisect" => Len(calls) > 0)
bmMergedType == merged \in Seq(PR) /\ (pc = "landed" => Len(merged) > 0)
bmRemoteType ==
  /\ base \subseteq PR /\ target \in Seq(bmEntry)
  /\ state \in [PR -> {"open", "merged", "closed"}]
  /\ moved \subseteq PR /\ queued \subseteq PR
bmTypes ==
  bmReadType /\ bmFlagType /\ bmLotType /\ bmCallType /\ bmMergedType /\ bmRemoteType

bmStage ==
  /\ pc \in bmEarly => proven = {} /\ merged = <<>>
  /\ pc \in bmEarly \ {"bisected", "final"} => culprits = {}
  /\ unfit # {} => pc = "stopped" /\ proven = {}
  /\ proven # {} => proven \in passed /\ proven \cap culprits = {}
bmOrder ==
  /\ BM!Merged \subseteq proven
  /\ \A p \in proven, q \in BM!Merged : BM!Place(p) < BM!Place(q) => p \in BM!Merged
  /\ \A j, k \in DOMAIN merged : j < k => BM!Place(merged[j]) < BM!Place(merged[k])
bmDone == pc = "finish" \/ (pc = "done" /\ Merge) => BM!Merged = proven

bmAtHand(p) == BM!Member(p) /\ (pc = "look" \/ (pc = "stopped" /\ stopped = p))
bmCaused ==
  /\ \A k \in BM!Ours : target[k].pr \in BM!Merged \/ bmAtHand(target[k].pr)
  /\ \A p \in queued : p \in BM!Merged \/ bmAtHand(p)
bmLanded ==
  /\ \A p \in BM!Merged : state[p] = "merged"
  /\ \A k \in DOMAIN target : target[k].pr \in PR => state[target[k].pr] = "merged"
  /\ \A j, k \in DOMAIN target : target[j].pr \in PR /\ target[j].pr = target[k].pr => j = k

bmSure(n) ==
  /\ n <= Len(target) /\ \A j \in 1..n : target[j].pr = merged[j]
  /\ pc \notin {"look", "landed", "stopped"} => \A k \in BM!Ours : k <= n
  /\ \A j, k \in BM!Ours : j > n /\ k > n => j = k
bmPrefix ==
  \/ bmSure(Len(merged))
  \/ /\ Len(merged) > 0 /\ bmSure(Len(merged) - 1)
     /\ pc = "landed" \/ (pc = "stopped" /\ stopped = merged[Len(merged)])

bmInv ==
  /\ bmTypes /\ bmStage /\ bmOrder /\ bmDone /\ bmCaused /\ bmLanded /\ bmPrefix

(* What a merge on GitHub leaves.                                          *)
LEMMA BatchLands ==
  ASSUME ServersAssumption, bmRemoteType, NEW p \in PR, NEW b \in BOOLEAN, BM!Lands(p, b)
  PROVE  /\ base' \subseteq PR /\ target' \in Seq(bmEntry)
         /\ state' \in [PR -> {"open", "merged", "closed"}]
         /\ queued' \subseteq PR
<1>1. base' \subseteq PR /\ queued' \subseteq PR
  BY DEF BM!Lands, bmRemoteType
<1>2. state' \in [PR -> {"open", "merged", "closed"}]
  BY DEF BM!Lands, bmRemoteType
<1> DEFINE e == [pr |-> IF p \in moved THEN Other ELSE p, ours |-> b]
<1>3. e \in bmEntry
  BY DEF bmEntry
<1>4. target' = target \/ target' = Append(target, e)
  BY DEF BM!Lands, BM!Grows
<1> HIDE DEF e
<1>5. target' \in Seq(bmEntry)
  BY <1>3, <1>4 DEF bmRemoteType
<1> QED
  BY <1>1, <1>2, <1>5

(* The innermost call, and those around it.                                *)
LEMMA BatchCalls ==
  ASSUME bmCallType, pc = "bisect"
  PROVE  /\ BM!Inner \in bmCall /\ BM!Outer \in Seq(bmCall)
         /\ Len(calls) \in Nat \ {0} /\ BM!Inner = calls[Len(calls)]
         /\ Len(BM!Outer) = Len(calls) - 1
         /\ \A k \in 1..(Len(calls) - 1) : BM!Outer[k] = calls[k]
<1>1. calls \in Seq(bmCall) /\ Len(calls) \in Nat \ {0}
  BY DEF bmCallType
<1>2. BM!Inner = calls[Len(calls)] /\ BM!Inner \in bmCall
  BY <1>1 DEF BM!Inner
<1>3. /\ BM!Outer \in Seq(bmCall) /\ Len(BM!Outer) = Len(calls) - 1
      /\ \A k \in 1..(Len(calls) - 1) : BM!Outer[k] = calls[k]
  <2>1. PICK n : n = Len(calls) - 1
    OBVIOUS
  <2>a. n \in Nat /\ n <= Len(calls)
    BY <1>1, <2>1
  <2>2. BM!Outer = SubSeq(calls, 1, n)
    BY <2>1 DEF BM!Outer
  <2>3. Len(BM!Outer) = n
    BY <1>1, <2>a, <2>2
  <2>4. BM!Outer \in Seq(bmCall)
    BY <1>1, <2>a, <2>2
  <2>5. \A k \in 1..n : BM!Outer[k] = calls[k]
    BY <1>1, <2>a, <2>2
  <2> QED
    BY <2>1, <2>3, <2>4, <2>5
<1> QED
  BY <1>1, <1>2, <1>3

(* The halves of a list hold it, and share nobody.                         *)
LEMMA BatchHalves ==
  ASSUME NEW list, NEW k \in 1..2
  PROVE  /\ BM!Halves(list)[k] \subseteq list
         /\ BM!Halves(list)[1] \cup BM!Halves(list)[2] = list
         /\ BM!Halves(list)[1] \cap BM!Halves(list)[2] = {}
<1> DEFINE first == BM!Start(list, BM!Half(list))
<1>1. first \subseteq list
  BY DEF BM!Start
<1>2. BM!Halves(list)[1] = first /\ BM!Halves(list)[2] = list \ first
  BY DEF BM!Halves
<1> QED
  BY <1>1, <1>2

(* A proof of a half, and what it leaves of the calls.                     *)
LEMMA BatchHalf ==
  ASSUME ServersAssumption, bmCallType, BM!ProveHalf
  PROVE  \E lot \in SUBSET PR, v \in {"passed", "failed", "refused"}, rest \in bmCall :
           /\ BM!Inner.next <= 2 /\ lot \in BM!Built(BM!Halves(BM!Inner.list)[BM!Inner.next])
           /\ BM!Verdict(lot, v)
           /\ rest = [BM!Inner EXCEPT !.next = @ + 1, !.failed = @ \/ v = "failed"]
           /\ \/ /\ v = "passed" /\ calls' = Append(BM!Outer, rest)
                 /\ UNCHANGED <<pc, stopped, culprits, interaction>>
              \/ /\ v = "failed" /\ BM!Cardinality(lot) <= 1
                 /\ \E last \in bmCall :
                      /\ last = [rest EXCEPT !.found = @ \cup lot]
                      /\ calls' = Append(BM!Outer, last)
                 /\ UNCHANGED <<pc, stopped, culprits, interaction>>
              \/ /\ v = "failed" /\ BM!Cardinality(lot) > 1 /\ BM!Called(lot) \in bmCall
                 /\ calls' = Append(Append(BM!Outer, rest), BM!Called(lot))
                 /\ UNCHANGED <<pc, stopped, culprits, interaction>>
              \/ /\ v = "refused" /\ BM!Stop(Nobody)
                 /\ calls' = <<>> /\ culprits' = {} /\ interaction' = FALSE
<1>1. pc = "bisect" /\ BM!Inner.next <= 2
  BY DEF BM!ProveHalf
<1>2. BM!Inner \in bmCall
  BY <1>1, BatchCalls
<1> DEFINE more(v) == [BM!Inner EXCEPT !.next = @ + 1, !.failed = @ \/ v = "failed"]
           full(v, lot) == [more(v) EXCEPT !.found = @ \cup lot]
<1>3. PICK lot \in BM!Built(BM!Halves(BM!Inner.list)[BM!Inner.next]),
           v \in {"passed", "failed", "refused"} :
        /\ BM!Verdict(lot, v)
        /\ \/ /\ v = "passed"
              /\ calls' = Append(BM!Outer, more(v))
              /\ UNCHANGED <<pc, stopped, culprits, interaction>>
           \/ /\ v = "failed" /\ BM!Cardinality(lot) <= 1
              /\ calls' = Append(BM!Outer, full(v, lot))
              /\ UNCHANGED <<pc, stopped, culprits, interaction>>
           \/ /\ v = "failed" /\ BM!Cardinality(lot) > 1
              /\ calls' = Append(Append(BM!Outer, more(v)), BM!Called(lot))
              /\ UNCHANGED <<pc, stopped, culprits, interaction>>
           \/ /\ v = "refused"
              /\ BM!Stop(Nobody)
              /\ calls' = <<>> /\ culprits' = {} /\ interaction' = FALSE
  BY DEF BM!ProveHalf
<1>4. BM!Inner.next \in 1..2 /\ BM!Inner.list \subseteq PR
  BY <1>1, <1>2 DEF bmCall
<1>5. lot \subseteq PR
  BY <1>3, <1>4, BatchHalves DEF BM!Built
<1>6. more(v) \in bmCall
  <2>1. PICK n \in 1..3 : n = BM!Inner.next + 1
    BY <1>4
  <2>2. PICK b \in BOOLEAN : b = (BM!Inner.failed \/ v = "failed")
    OBVIOUS
  <2>3. more(v) = [BM!Inner EXCEPT !.next = n, !.failed = b]
    BY <1>2, <2>1, <2>2 DEF bmCall
  <2> QED
    BY <1>2, <2>1, <2>2, <2>3 DEF bmCall
<1>7. full(v, lot) \in bmCall
  BY <1>5, <1>6 DEF bmCall
<1>8. BM!Called(lot) \in bmCall
  BY <1>5 DEF bmCall, BM!Called
<1> QED
  BY <1>1, <1>3, <1>5, <1>6, <1>7, <1>8

(* A call that returns, and what it leaves of the calls.                   *)
LEMMA BatchReturns ==
  ASSUME ServersAssumption, bmCallType, BM!Return
  PROVE  \E result \in SUBSET PR :
           /\ pc = "bisect" /\ BM!Inner.next = 3
           /\ result = IF BM!Inner.failed THEN BM!Inner.found ELSE BM!Inner.list
           /\ interaction' = (interaction \/ ~BM!Inner.failed)
           /\ \/ /\ Len(calls) > 1 /\ pc' = pc /\ culprits' = culprits
                 /\ \E last \in bmCall :
                      /\ last = [calls[Len(calls) - 1] EXCEPT !.found = @ \cup result]
                      /\ calls' = [BM!Outer EXCEPT ![Len(calls) - 1] = last]
              \/ /\ Len(calls) = 1
                 /\ calls' = <<>> /\ culprits' = result /\ pc' = "bisected"
<1> DEFINE result == IF BM!Inner.failed THEN BM!Inner.found ELSE BM!Inner.list
<1>1. /\ pc = "bisect" /\ BM!Inner.next > 2 /\ interaction' = (interaction \/ ~BM!Inner.failed)
      /\ \/ /\ BM!Outer # <<>>
            /\ calls' = [BM!Outer EXCEPT ![Len(BM!Outer)].found = @ \cup result]
            /\ UNCHANGED <<pc, culprits>>
         \/ /\ BM!Outer = <<>>
            /\ calls' = <<>> /\ culprits' = result /\ pc' = "bisected"
  BY DEF BM!Return
<1>2. /\ BM!Inner \in bmCall /\ BM!Outer \in Seq(bmCall)
      /\ Len(calls) \in Nat \ {0} /\ Len(BM!Outer) = Len(calls) - 1
      /\ \A k \in 1..(Len(calls) - 1) : BM!Outer[k] = calls[k]
  BY <1>1, BatchCalls
<1>3. BM!Inner.next = 3 /\ result \in SUBSET PR
  BY <1>1, <1>2 DEF bmCall
<1>4. CASE BM!Outer = <<>>
  BY <1>1, <1>2, <1>3, <1>4
<1>5. CASE BM!Outer # <<>>
  <2>1. Len(calls) > 1 /\ Len(calls) - 1 \in 1..(Len(calls) - 1)
    BY <1>2, <1>5
  <2>2. PICK last : last = [calls[Len(calls) - 1] EXCEPT !.found = @ \cup result]
    OBVIOUS
  <2>3. BM!Outer[Len(calls) - 1] = calls[Len(calls) - 1] /\ calls[Len(calls) - 1] \in bmCall
    BY <1>2, <2>1
  <2>4. last \in bmCall
    BY <1>3, <2>2, <2>3 DEF bmCall
  <2>5. calls' = [BM!Outer EXCEPT ![Len(calls) - 1] = last]
    BY <1>1, <1>2, <1>5, <2>2, <2>3
  <2> HIDE DEF result
  <2>6. pc' = pc /\ culprits' = culprits
    BY <1>1, <1>5
  <2> QED
    BY <1>1, <1>3, <2>1, <2>2, <2>4, <2>5, <2>6 DEF result
<1> QED
  BY <1>4, <1>5

(* Every step of the batch keeps the types.                               *)
LEMMA BatchTypes ==
  ASSUME ServersAssumption, bmInv, BM!Next \/ UNCHANGED bmVars
  PROVE  /\ bmReadType'
         /\ bmFlagType'
         /\ bmLotType'
         /\ bmCallType'
         /\ bmMergedType'
         /\ bmRemoteType'
<1> USE DEF BM!reading, BM!batchVars, BM!remoteVars, BM!suiteVars, BM!Stop
<1>1. /\ Batch \in Seq(PR) /\ Len(Batch) > 0 /\ Other \notin PR /\ Nobody \notin PR
      /\ bmReadType /\ bmFlagType /\ bmLotType /\ bmCallType /\ bmMergedType /\ bmRemoteType
  BY DEF ServersAssumption, BM!BatchAssumption, bmInv, bmTypes
<1>2. ASSUME BM!ReadPullRequest
      PROVE  /\ bmReadType'
             /\ bmFlagType'
             /\ bmLotType'
             /\ bmCallType'
             /\ bmMergedType'
             /\ bmRemoteType'
  <2>1. bmReadType'
    BY <1>1, <1>2 DEF BM!ReadPullRequest, BM!unread, bmReadType, bmEarly, bmMerging
  <2>2. bmFlagType'
    BY <1>1, <1>2 DEF BM!ReadPullRequest, BM!unread, bmFlagType
  <2>3. bmLotType'
    BY <1>1, <1>2
    DEF BM!ReadPullRequest, BM!unread, bmLotType, BM!Built, BM!Rest, bmCallType,
        bmCall
  <2>4. bmCallType'
    BY <1>1, <1>2 DEF BM!ReadPullRequest, BM!unread, bmCallType
  <2>5. bmMergedType'
    BY <1>1, <1>2 DEF BM!ReadPullRequest, BM!unread, bmMergedType, BM!Member
  <2>6. bmRemoteType'
    BY <1>1, <1>2 DEF BM!ReadPullRequest, BM!unread, bmRemoteType
  <2> QED
    BY <2>1, <2>2, <2>3, <2>4, <2>5, <2>6
<1>3. ASSUME BM!ReadBase
      PROVE  /\ bmReadType'
             /\ bmFlagType'
             /\ bmLotType'
             /\ bmCallType'
             /\ bmMergedType'
             /\ bmRemoteType'
  <2>1. bmReadType'
    BY <1>1, <1>3 DEF BM!ReadBase, BM!unread, bmReadType, bmEarly, bmMerging
  <2>2. bmFlagType'
    BY <1>1, <1>3 DEF BM!ReadBase, BM!unread, bmFlagType, bmReadType
  <2>3. bmLotType'
    BY <1>1, <1>3
    DEF BM!ReadBase, BM!unread, bmLotType, BM!Built, BM!Rest, bmCallType, bmCall
  <2>4. bmCallType'
    BY <1>1, <1>3 DEF BM!ReadBase, BM!unread, bmCallType
  <2>5. bmMergedType'
    BY <1>1, <1>3 DEF BM!ReadBase, BM!unread, bmMergedType, BM!Member
  <2>6. bmRemoteType'
    BY <1>1, <1>3 DEF BM!ReadBase, BM!unread, bmRemoteType
  <2> QED
    BY <2>1, <2>2, <2>3, <2>4, <2>5, <2>6
<1>4. ASSUME BM!FetchHeads
      PROVE  /\ bmReadType'
             /\ bmFlagType'
             /\ bmLotType'
             /\ bmCallType'
             /\ bmMergedType'
             /\ bmRemoteType'
  <2>1. bmReadType'
    BY <1>1, <1>4 DEF BM!FetchHeads, BM!unread, bmReadType, bmEarly, bmMerging
  <2>2. bmFlagType'
    BY <1>1, <1>4 DEF BM!FetchHeads, BM!unread, bmFlagType
  <2>3. bmLotType'
    BY <1>1, <1>4
    DEF BM!FetchHeads, BM!unread, bmLotType, BM!Built, BM!Rest, bmCallType,
        bmCall
  <2>4. bmCallType'
    BY <1>1, <1>4 DEF BM!FetchHeads, BM!unread, bmCallType
  <2>5. bmMergedType'
    BY <1>1, <1>4 DEF BM!FetchHeads, BM!unread, bmMergedType, BM!Member
  <2>6. bmRemoteType'
    BY <1>1, <1>4 DEF BM!FetchHeads, BM!unread, bmRemoteType
  <2> QED
    BY <2>1, <2>2, <2>3, <2>4, <2>5, <2>6
<1>5. ASSUME BM!Vet
      PROVE  /\ bmReadType'
             /\ bmFlagType'
             /\ bmLotType'
             /\ bmCallType'
             /\ bmMergedType'
             /\ bmRemoteType'
  <2>1. bmReadType'
    BY <1>1, <1>5 DEF BM!Vet, BM!unread, bmReadType, bmEarly, bmMerging
  <2>2. bmFlagType'
    BY <1>1, <1>5 DEF BM!Vet, BM!unread, bmFlagType
  <2>3. bmLotType'
    BY <1>1, <1>5
    DEF BM!Vet, BM!unread, bmLotType, BM!Built, BM!Rest, bmCallType, bmCall
  <2>4. bmCallType'
    BY <1>1, <1>5 DEF BM!Vet, BM!unread, bmCallType
  <2>5. bmMergedType'
    BY <1>1, <1>5 DEF BM!Vet, BM!unread, bmMergedType, BM!Member
  <2>6. bmRemoteType'
    BY <1>1, <1>5 DEF BM!Vet, BM!unread, bmRemoteType
  <2> QED
    BY <2>1, <2>2, <2>3, <2>4, <2>5, <2>6
<1>6. ASSUME BM!ProveWhole
      PROVE  /\ bmReadType'
             /\ bmFlagType'
             /\ bmLotType'
             /\ bmCallType'
             /\ bmMergedType'
             /\ bmRemoteType'
  <2>1. bmReadType'
    BY <1>1, <1>6
    DEF BM!ProveWhole, BM!Verdict, BM!Adopt, bmReadType, bmEarly, bmMerging
  <2>2. bmFlagType'
    BY <1>1, <1>6 DEF BM!ProveWhole, BM!Verdict, BM!Adopt, bmFlagType
  <2>3. bmLotType'
    BY <1>1, <1>6
    DEF BM!ProveWhole, BM!Verdict, BM!Adopt, bmLotType, BM!Built, BM!Rest,
        bmCallType, bmCall
  <2>4. bmCallType'
    <3>1. \/ pc' # "bisect" /\ calls' = calls
          \/ \E lot \in SUBSET PR : calls' = <<BM!Called(lot)>>
      BY <1>6 DEF BM!ProveWhole, BM!Adopt, BM!Stop, BM!Built
    <3>2. \A lot \in SUBSET PR : BM!Called(lot) \in bmCall
      BY DEF bmCall, BM!Called
    <3>3. CASE calls' = calls /\ pc' # "bisect"
      BY <1>1, <3>3 DEF bmCallType
    <3>4. CASE \E lot \in SUBSET PR : calls' = <<BM!Called(lot)>>
      <4>1. PICK c \in bmCall : calls' = <<c>>
        BY <3>2, <3>4
      <4>2. calls' \in Seq(bmCall) /\ Len(calls') = 1
        BY <4>1
      <4> QED
        BY <4>2 DEF bmCallType
    <3> QED
      BY <3>1, <3>3, <3>4
  <2>5. bmMergedType'
    BY <1>1, <1>6 DEF BM!ProveWhole, BM!Verdict, BM!Adopt, bmMergedType, BM!Member
  <2>6. bmRemoteType'
    BY <1>1, <1>6 DEF BM!ProveWhole, BM!Verdict, BM!Adopt, bmRemoteType
  <2> QED
    BY <2>1, <2>2, <2>3, <2>4, <2>5, <2>6
<1>7. ASSUME BM!ProveHalf
      PROVE  /\ bmReadType'
             /\ bmFlagType'
             /\ bmLotType'
             /\ bmCallType'
             /\ bmMergedType'
             /\ bmRemoteType'
  <2>1. bmReadType'
    BY <1>1, <1>7 DEF BM!ProveHalf, BM!Verdict, bmReadType, bmEarly, bmMerging
  <2>2. bmFlagType'
    BY <1>1, <1>7 DEF BM!ProveHalf, BM!Verdict, bmFlagType
  <2>3. bmLotType'
    BY <1>1, <1>7
    DEF BM!ProveHalf, BM!Verdict, bmLotType, BM!Built, BM!Rest, bmCallType,
        bmCall
  <2>4. bmCallType'
    <3>1. PICK lot \in SUBSET PR, rest \in bmCall :
           \/ calls' = Append(BM!Outer, rest) /\ pc' = pc
           \/ \E last \in bmCall : calls' = Append(BM!Outer, last) /\ pc' = pc
           \/ /\ BM!Called(lot) \in bmCall /\ pc' = pc
              /\ calls' = Append(Append(BM!Outer, rest), BM!Called(lot))
           \/ calls' = <<>> /\ pc' = "stopped"
      BY <1>1, <1>7, BatchHalf DEF BM!Stop
    <3>2. BM!Outer \in Seq(bmCall)
      BY <1>1, <1>7, BatchCalls DEF BM!ProveHalf
    <3>3. Len(BM!Outer) \in Nat
      BY <3>2
    <3>4. calls' \in Seq(bmCall) /\ (pc' = "bisect" => Len(calls') > 0)
      <4>1. CASE calls' = Append(BM!Outer, rest)
        BY <3>2, <3>3, <4>1
      <4>2. CASE \E last \in bmCall : calls' = Append(BM!Outer, last)
        BY <3>2, <3>3, <4>2
      <4>3. CASE BM!Called(lot) \in bmCall /\ calls' = Append(Append(BM!Outer, rest), BM!Called(lot))
        <5>1. PICK c \in bmCall : calls' = Append(Append(BM!Outer, rest), c)
          BY <4>3
        <5> QED
          BY <3>2, <3>3, <5>1
      <4>4. CASE calls' = <<>> /\ pc' = "stopped"
        BY <4>4
      <4> QED
        BY <3>1, <4>1, <4>2, <4>3, <4>4
    <3> QED
      BY <3>4 DEF bmCallType
  <2>5. bmMergedType'
    BY <1>1, <1>7 DEF BM!ProveHalf, BM!Verdict, bmMergedType, BM!Member
  <2>6. bmRemoteType'
    BY <1>1, <1>7 DEF BM!ProveHalf, BM!Verdict, bmRemoteType
  <2> QED
    BY <2>1, <2>2, <2>3, <2>4, <2>5, <2>6
<1>8. ASSUME BM!Return
      PROVE  /\ bmReadType'
             /\ bmFlagType'
             /\ bmLotType'
             /\ bmCallType'
             /\ bmMergedType'
             /\ bmRemoteType'
  <2>1. bmReadType'
    BY <1>1, <1>8 DEF BM!Return, bmReadType, bmEarly, bmMerging
  <2>2. bmFlagType'
    BY <1>1, <1>8 DEF BM!Return, bmFlagType
  <2>3. bmLotType'
    BY <1>1, <1>8, BatchReturns DEF BM!Return, bmLotType
  <2>4. bmCallType'
    <3>1. PICK result \in SUBSET PR :
           /\ pc = "bisect"
           /\ \/ /\ Len(calls) > 1 /\ pc' = pc
                 /\ \E last \in bmCall : calls' = [BM!Outer EXCEPT ![Len(calls) - 1] = last]
              \/ /\ Len(calls) = 1 /\ calls' = <<>> /\ pc' = "bisected"
      BY <1>1, <1>8, BatchReturns
    <3>2. BM!Outer \in Seq(bmCall) /\ Len(BM!Outer) = Len(calls) - 1 /\ Len(calls) \in Nat
      BY <1>1, <3>1, BatchCalls
    <3>3. CASE Len(calls) > 1 /\ pc' = pc /\ \E last \in bmCall : calls' = [BM!Outer EXCEPT ![Len(calls) - 1] = last]
      <4>1. PICK last \in bmCall : calls' = [BM!Outer EXCEPT ![Len(calls) - 1] = last]
        BY <3>3
      <4>2. PICK n \in 1..Len(BM!Outer) : n = Len(calls) - 1 /\ n > 0
        BY <3>2, <3>3
      <4>3. calls' = [BM!Outer EXCEPT ![n] = last]
        BY <4>1, <4>2
      <4>4. calls' \in Seq(bmCall) /\ Len(calls') = n
        BY <3>2, <4>2, <4>3
      <4> QED
        BY <4>2, <4>4 DEF bmCallType
    <3>4. CASE calls' = <<>> /\ pc' = "bisected"
      BY <3>4 DEF bmCallType
    <3> QED
      BY <3>1, <3>3, <3>4
  <2>5. bmMergedType'
    BY <1>1, <1>8 DEF BM!Return, bmMergedType, BM!Member
  <2>6. bmRemoteType'
    BY <1>1, <1>8 DEF BM!Return, bmRemoteType
  <2> QED
    BY <2>1, <2>2, <2>3, <2>4, <2>5, <2>6
<1>9. ASSUME BM!Conclude
      PROVE  /\ bmReadType'
             /\ bmFlagType'
             /\ bmLotType'
             /\ bmCallType'
             /\ bmMergedType'
             /\ bmRemoteType'
  <2>1. bmReadType'
    BY <1>1, <1>9 DEF BM!Conclude, bmReadType, bmEarly, bmMerging
  <2>2. bmFlagType'
    BY <1>1, <1>9 DEF BM!Conclude, bmFlagType
  <2>3. bmLotType'
    BY <1>1, <1>9 DEF BM!Conclude, bmLotType, BM!Built, BM!Rest, bmCallType, bmCall
  <2>4. bmCallType'
    BY <1>1, <1>9 DEF BM!Conclude, bmCallType
  <2>5. bmMergedType'
    BY <1>1, <1>9 DEF BM!Conclude, bmMergedType, BM!Member
  <2>6. bmRemoteType'
    BY <1>1, <1>9 DEF BM!Conclude, bmRemoteType
  <2> QED
    BY <2>1, <2>2, <2>3, <2>4, <2>5, <2>6
<1>10. ASSUME BM!ProveFinal
      PROVE  /\ bmReadType'
             /\ bmFlagType'
             /\ bmLotType'
             /\ bmCallType'
             /\ bmMergedType'
             /\ bmRemoteType'
  <2>1. bmReadType'
    BY <1>1, <1>10
    DEF BM!ProveFinal, BM!Verdict, BM!Adopt, bmReadType, bmEarly, bmMerging
  <2>2. bmFlagType'
    BY <1>1, <1>10 DEF BM!ProveFinal, BM!Verdict, BM!Adopt, bmFlagType
  <2>3. bmLotType'
    BY <1>1, <1>10
    DEF BM!ProveFinal, BM!Verdict, BM!Adopt, bmLotType, BM!Built, BM!Rest,
        bmCallType, bmCall
  <2>4. bmCallType'
    BY <1>1, <1>10 DEF BM!ProveFinal, BM!Verdict, BM!Adopt, bmCallType
  <2>5. bmMergedType'
    BY <1>1, <1>10 DEF BM!ProveFinal, BM!Verdict, BM!Adopt, bmMergedType, BM!Member
  <2>6. bmRemoteType'
    BY <1>1, <1>10 DEF BM!ProveFinal, BM!Verdict, BM!Adopt, bmRemoteType
  <2> QED
    BY <2>1, <2>2, <2>3, <2>4, <2>5, <2>6
<1>11. ASSUME BM!Fails
      PROVE  /\ bmReadType'
             /\ bmFlagType'
             /\ bmLotType'
             /\ bmCallType'
             /\ bmMergedType'
             /\ bmRemoteType'
  <2>1. bmReadType'
    BY <1>1, <1>11 DEF BM!Fails, bmReadType, bmEarly, bmMerging
  <2>2. bmFlagType'
    BY <1>1, <1>11 DEF BM!Fails, bmFlagType
  <2>3. bmLotType'
    BY <1>1, <1>11 DEF BM!Fails, bmLotType, BM!Built, BM!Rest, bmCallType, bmCall
  <2>4. bmCallType'
    BY <1>1, <1>11 DEF BM!Fails, bmCallType
  <2>5. bmMergedType'
    BY <1>1, <1>11 DEF BM!Fails, bmMergedType, BM!Member
  <2>6. bmRemoteType'
    BY <1>1, <1>11 DEF BM!Fails, bmRemoteType
  <2> QED
    BY <2>1, <2>2, <2>3, <2>4, <2>5, <2>6
<1>12. ASSUME BM!ReadLanded
      PROVE  /\ bmReadType'
             /\ bmFlagType'
             /\ bmLotType'
             /\ bmCallType'
             /\ bmMergedType'
             /\ bmRemoteType'
  <2>1. bmReadType'
    BY <1>1, <1>12
    DEF BM!ReadLanded, BM!unchangedMerging, bmReadType, bmEarly, bmMerging
  <2>2. bmFlagType'
    <3>1. BM!LastMember \in PR
      BY <1>1, <1>12 DEF BM!ReadLanded, BM!LastMember, bmMergedType
    <3> QED
      BY <1>1, <1>12, <3>1 DEF BM!ReadLanded, BM!unchangedMerging, bmFlagType
  <2>3. bmLotType'
    BY <1>1, <1>12
    DEF BM!ReadLanded, BM!unchangedMerging, bmLotType, BM!Built, BM!Rest,
        bmCallType, bmCall
  <2>4. bmCallType'
    BY <1>1, <1>12 DEF BM!ReadLanded, BM!unchangedMerging, bmCallType
  <2>5. bmMergedType'
    BY <1>1, <1>12 DEF BM!ReadLanded, BM!unchangedMerging, bmMergedType, BM!Member
  <2>6. bmRemoteType'
    BY <1>1, <1>12 DEF BM!ReadLanded, BM!unchangedMerging, bmRemoteType
  <2> QED
    BY <2>1, <2>2, <2>3, <2>4, <2>5, <2>6
<1>13. ASSUME BM!Finish
      PROVE  /\ bmReadType'
             /\ bmFlagType'
             /\ bmLotType'
             /\ bmCallType'
             /\ bmMergedType'
             /\ bmRemoteType'
  <2>1. bmReadType'
    BY <1>1, <1>13
    DEF BM!Finish, BM!unchangedMerging, bmReadType, bmEarly, bmMerging
  <2>2. bmFlagType'
    BY <1>1, <1>13 DEF BM!Finish, BM!unchangedMerging, bmFlagType
  <2>3. bmLotType'
    BY <1>1, <1>13
    DEF BM!Finish, BM!unchangedMerging, bmLotType, BM!Built, BM!Rest,
        bmCallType, bmCall
  <2>4. bmCallType'
    BY <1>1, <1>13 DEF BM!Finish, BM!unchangedMerging, bmCallType
  <2>5. bmMergedType'
    BY <1>1, <1>13 DEF BM!Finish, BM!unchangedMerging, bmMergedType, BM!Member
  <2>6. bmRemoteType'
    BY <1>1, <1>13 DEF BM!Finish, BM!unchangedMerging, bmRemoteType
  <2> QED
    BY <2>1, <2>2, <2>3, <2>4, <2>5, <2>6
<1>14. ASSUME NEW p \in PR, BM!Recheck(p)
      PROVE  /\ bmReadType'
             /\ bmFlagType'
             /\ bmLotType'
             /\ bmCallType'
             /\ bmMergedType'
             /\ bmRemoteType'
  <2>1. bmReadType'
    BY <1>1, <1>14
    DEF BM!Recheck, BM!unchangedMerging, bmReadType, bmEarly, bmMerging
  <2>2. bmFlagType'
    BY <1>1, <1>14 DEF BM!Recheck, BM!unchangedMerging, bmFlagType
  <2>3. bmLotType'
    BY <1>1, <1>14
    DEF BM!Recheck, BM!unchangedMerging, bmLotType, BM!Built, BM!Rest,
        bmCallType, bmCall
  <2>4. bmCallType'
    BY <1>1, <1>14 DEF BM!Recheck, BM!unchangedMerging, bmCallType
  <2>5. bmMergedType'
    BY <1>1, <1>14 DEF BM!Recheck, BM!unchangedMerging, bmMergedType, BM!Member
  <2>6. bmRemoteType'
    BY <1>1, <1>14 DEF BM!Recheck, BM!unchangedMerging, bmRemoteType
  <2> QED
    BY <2>1, <2>2, <2>3, <2>4, <2>5, <2>6
<1>15. ASSUME NEW p \in PR, BM!ReadTarget(p)
      PROVE  /\ bmReadType'
             /\ bmFlagType'
             /\ bmLotType'
             /\ bmCallType'
             /\ bmMergedType'
             /\ bmRemoteType'
  <2>1. bmReadType'
    BY <1>1, <1>15
    DEF BM!ReadTarget, BM!unchangedMerging, bmReadType, bmEarly, bmMerging
  <2>2. bmFlagType'
    BY <1>1, <1>15 DEF BM!ReadTarget, BM!unchangedMerging, bmFlagType
  <2>3. bmLotType'
    BY <1>1, <1>15
    DEF BM!ReadTarget, BM!unchangedMerging, bmLotType, BM!Built, BM!Rest,
        bmCallType, bmCall
  <2>4. bmCallType'
    BY <1>1, <1>15 DEF BM!ReadTarget, BM!unchangedMerging, bmCallType
  <2>5. bmMergedType'
    BY <1>1, <1>15 DEF BM!ReadTarget, BM!unchangedMerging, bmMergedType, BM!Member
  <2>6. bmRemoteType'
    BY <1>1, <1>15 DEF BM!ReadTarget, BM!unchangedMerging, bmRemoteType
  <2> QED
    BY <2>1, <2>2, <2>3, <2>4, <2>5, <2>6
<1>16. ASSUME NEW p \in PR, BM!CallMerge(p)
      PROVE  /\ bmReadType'
             /\ bmFlagType'
             /\ bmLotType'
             /\ bmCallType'
             /\ bmMergedType'
             /\ bmRemoteType'
  <2>1. bmReadType'
    BY <1>1, <1>16 DEF BM!CallMerge, BM!unchangedMerging, bmReadType, bmEarly, bmMerging
  <2>2. bmFlagType'
    BY <1>1, <1>16 DEF BM!CallMerge, BM!unchangedMerging, bmFlagType
  <2>3. bmLotType'
    BY <1>1, <1>16
    DEF BM!CallMerge, BM!unchangedMerging, bmLotType, BM!Built, BM!Rest, bmCallType,
        bmCall
  <2>4. bmCallType'
    BY <1>1, <1>16 DEF BM!CallMerge, BM!unchangedMerging, bmCallType
  <2>5. bmMergedType'
    BY <1>1, <1>16 DEF BM!CallMerge, BM!unchangedMerging, bmMergedType, BM!Member
  <2>6. bmRemoteType'
    BY <1>1, <1>16 DEF BM!CallMerge, BM!unchangedMerging, bmRemoteType
  <2> QED
    BY <2>1, <2>2, <2>3, <2>4, <2>5, <2>6
<1>17. ASSUME NEW p \in PR, BM!Look(p)
      PROVE  /\ bmReadType'
             /\ bmFlagType'
             /\ bmLotType'
             /\ bmCallType'
             /\ bmMergedType'
             /\ bmRemoteType'
  <2>1. bmReadType'
    BY <1>1, <1>17 DEF BM!Look, BM!unchangedMerging, bmReadType, bmEarly, bmMerging
  <2>2. bmFlagType'
    BY <1>1, <1>17 DEF BM!Look, BM!unchangedMerging, bmFlagType
  <2>3. bmLotType'
    BY <1>1, <1>17
    DEF BM!Look, BM!unchangedMerging, bmLotType, BM!Built, BM!Rest, bmCallType,
        bmCall
  <2>4. bmCallType'
    BY <1>1, <1>17 DEF BM!Look, BM!unchangedMerging, bmCallType
  <2>5. bmMergedType'
    BY <1>1, <1>17 DEF BM!Look, BM!unchangedMerging, bmMergedType, BM!Member
  <2>6. bmRemoteType'
    BY <1>1, <1>17 DEF BM!Look, BM!unchangedMerging, bmRemoteType
  <2> QED
    BY <2>1, <2>2, <2>3, <2>4, <2>5, <2>6
<1>18. ASSUME NEW p \in PR, BM!GitHubMerges(p)
      PROVE  /\ bmReadType'
             /\ bmFlagType'
             /\ bmLotType'
             /\ bmCallType'
             /\ bmMergedType'
             /\ bmRemoteType'
  <2>1. bmReadType'
    BY <1>1, <1>18
    DEF BM!GitHubMerges, BM!Lands, BM!Grows, BM!Early, BM!unchangedMerging,
        bmReadType, bmEarly, bmMerging
  <2>2. bmFlagType'
    BY <1>1, <1>18
    DEF BM!GitHubMerges, BM!Lands, BM!Grows, BM!Early, BM!unchangedMerging,
        bmFlagType
  <2>3. bmLotType'
    BY <1>1, <1>18
    DEF BM!GitHubMerges, BM!Lands, BM!Grows, BM!Early, BM!unchangedMerging,
        bmLotType, BM!Built, BM!Rest, bmCallType, bmCall
  <2>4. bmCallType'
    BY <1>1, <1>18
    DEF BM!GitHubMerges, BM!Lands, BM!Grows, BM!Early, BM!unchangedMerging,
        bmCallType
  <2>5. bmMergedType'
    BY <1>1, <1>18
    DEF BM!GitHubMerges, BM!Lands, BM!Grows, BM!Early, BM!unchangedMerging,
        bmMergedType, BM!Member
  <2>6. bmRemoteType'
    <3>1. base' \subseteq PR /\ target' \in Seq(bmEntry)
          /\ state' \in [PR -> {"open", "merged", "closed"}] /\ queued' \subseteq PR
      BY <1>1, <1>18, BatchLands DEF BM!GitHubMerges
    <3> QED
      BY <1>1, <1>18, <3>1 DEF BM!GitHubMerges, bmRemoteType
  <2> QED
    BY <2>1, <2>2, <2>3, <2>4, <2>5, <2>6
<1>19. ASSUME NEW p \in PR, BM!GitHubQueues(p)
      PROVE  /\ bmReadType'
             /\ bmFlagType'
             /\ bmLotType'
             /\ bmCallType'
             /\ bmMergedType'
             /\ bmRemoteType'
  <2>1. bmReadType'
    BY <1>1, <1>19
    DEF BM!GitHubQueues, BM!unchangedMerging, bmReadType, bmEarly, bmMerging
  <2>2. bmFlagType'
    BY <1>1, <1>19 DEF BM!GitHubQueues, BM!unchangedMerging, bmFlagType
  <2>3. bmLotType'
    BY <1>1, <1>19
    DEF BM!GitHubQueues, BM!unchangedMerging, bmLotType, BM!Built, BM!Rest,
        bmCallType, bmCall
  <2>4. bmCallType'
    BY <1>1, <1>19 DEF BM!GitHubQueues, BM!unchangedMerging, bmCallType
  <2>5. bmMergedType'
    BY <1>1, <1>19 DEF BM!GitHubQueues, BM!unchangedMerging, bmMergedType, BM!Member
  <2>6. bmRemoteType'
    BY <1>1, <1>19 DEF BM!GitHubQueues, BM!unchangedMerging, bmRemoteType
  <2> QED
    BY <2>1, <2>2, <2>3, <2>4, <2>5, <2>6
<1>20. ASSUME NEW p \in PR, BM!QueueLands(p)
      PROVE  /\ bmReadType'
             /\ bmFlagType'
             /\ bmLotType'
             /\ bmCallType'
             /\ bmMergedType'
             /\ bmRemoteType'
  <2>1. bmReadType'
    BY <1>1, <1>20
    DEF BM!QueueLands, BM!Lands, BM!Grows, BM!Early, bmReadType, bmEarly,
        bmMerging
  <2>2. bmFlagType'
    BY <1>1, <1>20 DEF BM!QueueLands, BM!Lands, BM!Grows, BM!Early, bmFlagType
  <2>3. bmLotType'
    BY <1>1, <1>20
    DEF BM!QueueLands, BM!Lands, BM!Grows, BM!Early, bmLotType, BM!Built,
        BM!Rest, bmCallType, bmCall
  <2>4. bmCallType'
    BY <1>1, <1>20 DEF BM!QueueLands, BM!Lands, BM!Grows, BM!Early, bmCallType
  <2>5. bmMergedType'
    BY <1>1, <1>20
    DEF BM!QueueLands, BM!Lands, BM!Grows, BM!Early, bmMergedType, BM!Member
  <2>6. bmRemoteType'
    <3>1. base' \subseteq PR /\ target' \in Seq(bmEntry)
          /\ state' \in [PR -> {"open", "merged", "closed"}] /\ queued' \subseteq PR
      BY <1>1, <1>20, BatchLands DEF BM!QueueLands
    <3> QED
      BY <1>1, <1>20, <3>1 DEF BM!QueueLands, bmRemoteType
  <2> QED
    BY <2>1, <2>2, <2>3, <2>4, <2>5, <2>6
<1>21. ASSUME BM!GitHubRefuses
      PROVE  /\ bmReadType'
             /\ bmFlagType'
             /\ bmLotType'
             /\ bmCallType'
             /\ bmMergedType'
             /\ bmRemoteType'
  <2>1. bmReadType'
    BY <1>1, <1>21
    DEF BM!GitHubRefuses, BM!unchangedMerging, bmReadType, bmEarly, bmMerging
  <2>2. bmFlagType'
    BY <1>1, <1>21 DEF BM!GitHubRefuses, BM!unchangedMerging, bmFlagType
  <2>3. bmLotType'
    BY <1>1, <1>21
    DEF BM!GitHubRefuses, BM!unchangedMerging, bmLotType, BM!Built, BM!Rest,
        bmCallType, bmCall
  <2>4. bmCallType'
    BY <1>1, <1>21 DEF BM!GitHubRefuses, BM!unchangedMerging, bmCallType
  <2>5. bmMergedType'
    BY <1>1, <1>21
    DEF BM!GitHubRefuses, BM!unchangedMerging, bmMergedType, BM!Member
  <2>6. bmRemoteType'
    BY <1>1, <1>21 DEF BM!GitHubRefuses, BM!unchangedMerging, bmRemoteType
  <2> QED
    BY <2>1, <2>2, <2>3, <2>4, <2>5, <2>6
<1>22. ASSUME BM!Abort
      PROVE  /\ bmReadType'
             /\ bmFlagType'
             /\ bmLotType'
             /\ bmCallType'
             /\ bmMergedType'
             /\ bmRemoteType'
  <2>1. bmReadType'
    BY <1>1, <1>22 DEF BM!Abort, bmReadType, bmEarly, bmMerging
  <2>2. bmFlagType'
    BY <1>1, <1>22 DEF BM!Abort, bmFlagType
  <2>3. bmLotType'
    BY <1>1, <1>22 DEF BM!Abort, bmLotType, BM!Built, BM!Rest, bmCallType, bmCall
  <2>4. bmCallType'
    BY <1>1, <1>22 DEF BM!Abort, bmCallType
  <2>5. bmMergedType'
    BY <1>1, <1>22 DEF BM!Abort, bmMergedType, BM!Member
  <2>6. bmRemoteType'
    BY <1>1, <1>22 DEF BM!Abort, bmRemoteType
  <2> QED
    BY <2>1, <2>2, <2>3, <2>4, <2>5, <2>6
<1>23. ASSUME BM!Outside
      PROVE  /\ bmReadType'
             /\ bmFlagType'
             /\ bmLotType'
             /\ bmCallType'
             /\ bmMergedType'
             /\ bmRemoteType'
  <2>1. bmReadType'
    BY <1>1, <1>23
    DEF BM!Outside, BM!Lands, BM!Grows, BM!Early, bmReadType, bmEarly, bmMerging
  <2>2. bmFlagType'
    BY <1>1, <1>23 DEF BM!Outside, BM!Lands, BM!Grows, BM!Early, bmFlagType
  <2>3. bmLotType'
    BY <1>1, <1>23
    DEF BM!Outside, BM!Lands, BM!Grows, BM!Early, bmLotType, BM!Built, BM!Rest,
        bmCallType, bmCall
  <2>4. bmCallType'
    BY <1>1, <1>23 DEF BM!Outside, BM!Lands, BM!Grows, BM!Early, bmCallType
  <2>5. bmMergedType'
    BY <1>1, <1>23
    DEF BM!Outside, BM!Lands, BM!Grows, BM!Early, bmMergedType, BM!Member
  <2>6. bmRemoteType'
    <3>1. CASE \E p \in PR : BM!Lands(p, FALSE) /\ UNCHANGED moved
      <4>1. PICK p \in PR : BM!Lands(p, FALSE) /\ UNCHANGED moved
        BY <3>1
      <4>2. base' \subseteq PR /\ target' \in Seq(bmEntry)
            /\ state' \in [PR -> {"open", "merged", "closed"}] /\ queued' \subseteq PR
        BY <1>1, <4>1, BatchLands
      <4> QED
        BY <1>1, <4>1, <4>2 DEF bmRemoteType
    <3>2. CASE BM!Grows([pr |-> Other, ours |-> FALSE]) /\ UNCHANGED <<base, state, moved, queued>>
      <4>1. PICK e : e = [pr |-> Other, ours |-> FALSE]
        OBVIOUS
      <4>2. e \in bmEntry
        BY <4>1 DEF bmEntry
      <4>3. target' = target \/ target' = Append(target, e)
        BY <3>2, <4>1 DEF BM!Grows
      <4> QED
        BY <1>1, <3>2, <4>2, <4>3 DEF bmRemoteType
    <3>3. CASE \/ \E p \in PR \ moved :
                    moved' = moved \cup {p} /\ UNCHANGED <<base, target, state, queued>>
               \/ \E p \in PR : state' = [state EXCEPT ![p] = "closed"]
                                /\ UNCHANGED <<base, target, moved, queued>>
      BY <1>1, <3>3 DEF bmRemoteType
    <3> QED
      BY <1>23, <3>1, <3>2, <3>3 DEF BM!Outside
  <2> QED
    BY <2>1, <2>2, <2>3, <2>4, <2>5, <2>6
<1>24. CASE UNCHANGED bmVars
  <2>1. bmReadType'
    BY <1>1, <1>24 DEF bmVars, bmOnly, bmReadType, bmEarly, bmMerging
  <2>2. bmFlagType'
    BY <1>1, <1>24 DEF bmVars, bmOnly, bmFlagType
  <2>3. bmLotType'
    BY <1>1, <1>24
    DEF bmVars, bmOnly, bmLotType, BM!Built, BM!Rest, bmCallType, bmCall
  <2>4. bmCallType'
    BY <1>1, <1>24 DEF bmVars, bmOnly, bmCallType
  <2>5. bmMergedType'
    BY <1>1, <1>24 DEF bmVars, bmOnly, bmMergedType, BM!Member
  <2>6. bmRemoteType'
    BY <1>1, <1>24 DEF bmVars, bmOnly, bmRemoteType
  <2> QED
    BY <2>1, <2>2, <2>3, <2>4, <2>5, <2>6
<1> QED
  BY <1>2, <1>3, <1>4, <1>5, <1>6, <1>7, <1>8, <1>9, <1>10, <1>11, <1>12, <1>13,
     <1>14, <1>15, <1>16, <1>17, <1>18, <1>19, <1>20, <1>21, <1>22, <1>23, <1>24
  DEF BM!Next, BM!BatchStep, BM!Merging, BM!GitHub

(* The place of a pull request in the request.                             *)
LEMMA BatchPlaces ==
  ASSUME ServersAssumption
  PROVE  /\ \A p \in PR : BM!Place(p) \in Nat /\ Batch[BM!Place(p)] = p
         /\ \A p, q \in PR : BM!Place(p) = BM!Place(q) => p = q
<1>1. Batch \in Seq(PR) /\ PR = {Batch[k] : k \in DOMAIN Batch}
  BY DEF ServersAssumption, BM!BatchAssumption
<1>2. ASSUME NEW p \in PR
      PROVE  BM!Place(p) \in DOMAIN Batch /\ Batch[BM!Place(p)] = p
  <2>1. \E k \in DOMAIN Batch : Batch[k] = p
    BY <1>1
  <2> QED
    BY <2>1 DEF BM!Place
<1>3. DOMAIN Batch \subseteq Nat
  BY <1>1
<1> QED
  BY <1>2, <1>3

(* The member at hand: only one, and all of the merged come before it.     *)
LEMMA BatchMember ==
  ASSUME ServersAssumption, bmLotType, bmOrder, NEW p, BM!Member(p)
  PROVE  /\ p \in PR /\ p \in proven /\ p \notin BM!Merged
         /\ \A q : BM!Member(q) => q = p
         /\ \A q \in BM!Merged : q \in PR /\ BM!Place(q) < BM!Place(p)
<1>1. p \in PR /\ p \in proven /\ p \notin BM!Merged
  BY DEF BM!Member, bmLotType
<1>2. ASSUME NEW q, BM!Member(q)
      PROVE  q = p
  <2>1. q \in PR /\ BM!Place(q) <= BM!Place(p) /\ BM!Place(p) <= BM!Place(q)
    BY <1>2 DEF BM!Member, bmLotType
  <2>2. BM!Place(q) = BM!Place(p)
    BY <1>1, <2>1, BatchPlaces
  <2> QED
    BY <1>1, <2>1, <2>2, BatchPlaces
<1>3. ASSUME NEW q \in BM!Merged
      PROVE  q \in PR /\ BM!Place(q) < BM!Place(p)
  <2>1. q \in PR /\ ~(BM!Place(p) < BM!Place(q)) /\ q # p
    BY <1>1 DEF bmOrder, bmLotType
  <2>2. BM!Place(q) # BM!Place(p) /\ BM!Place(q) \in Nat /\ BM!Place(p) \in Nat
    BY <1>1, <2>1, BatchPlaces
  <2> QED
    BY <2>1, <2>2
<1> QED
  BY <1>1, <1>2, <1>3

(* A pull request of the lot before the member at hand is merged.          *)
LEMMA BatchSmaller ==
  ASSUME NEW p, NEW q \in proven, BM!Member(p), ~(BM!Place(p) <= BM!Place(q))
  PROVE  q \in BM!Merged
BY DEF BM!Member

(* What a step does to the lot and to what is merged of it.                *)
bmSame == merged' = merged /\ proven' = proven
bmAdopted == merged = <<>> /\ merged' = <<>> /\ pc \in bmEarly
bmSeen(p) ==
  /\ pc = "look" /\ pc' = "landed" /\ BM!Member(p) /\ state[p] = "merged"
  /\ merged' = Append(merged, p) /\ proven' = proven /\ state' = state /\ target' = target
bmMoves == bmSame \/ bmAdopted \/ \E p \in PR : bmSeen(p)

(* ... of any step.                                                        *)
LEMMA BatchMoves ==
  ASSUME ServersAssumption, bmInv, BM!Next \/ UNCHANGED bmVars
  PROVE  bmMoves
<1> USE DEF BM!reading, BM!batchVars, BM!remoteVars, BM!suiteVars, BM!Stop
<1>1. bmStage /\ (pc \in bmEarly => merged = <<>>) /\ {"whole", "bisect", "bisected", "final"} \subseteq bmEarly
  BY DEF bmInv, bmStage, bmEarly
<1>2. ASSUME BM!ReadPullRequest
      PROVE  bmMoves
  BY <1>1, <1>2
  DEF BM!ReadPullRequest, BM!unread, bmMoves, bmSame, bmAdopted, bmSeen
<1>3. ASSUME BM!ReadBase
      PROVE  bmMoves
  BY <1>1, <1>3 DEF BM!ReadBase, BM!unread, bmMoves, bmSame, bmAdopted, bmSeen
<1>4. ASSUME BM!FetchHeads
      PROVE  bmMoves
  BY <1>1, <1>4 DEF BM!FetchHeads, BM!unread, bmMoves, bmSame, bmAdopted, bmSeen
<1>5. ASSUME BM!Vet
      PROVE  bmMoves
  BY <1>1, <1>5 DEF BM!Vet, BM!unread, bmMoves, bmSame, bmAdopted, bmSeen
<1>6. ASSUME BM!ProveWhole
      PROVE  bmMoves
  BY <1>1, <1>6
  DEF BM!ProveWhole, BM!Verdict, BM!Adopt, bmMoves, bmSame, bmAdopted, bmSeen
<1>7. ASSUME BM!ProveHalf
      PROVE  bmMoves
  BY <1>1, <1>7 DEF BM!ProveHalf, BM!Verdict, bmMoves, bmSame, bmAdopted, bmSeen
<1>8. ASSUME BM!Return
      PROVE  bmMoves
  BY <1>1, <1>8 DEF BM!Return, bmMoves, bmSame, bmAdopted, bmSeen
<1>9. ASSUME BM!Conclude
      PROVE  bmMoves
  BY <1>1, <1>9 DEF BM!Conclude, bmMoves, bmSame, bmAdopted, bmSeen
<1>10. ASSUME BM!ProveFinal
      PROVE  bmMoves
  BY <1>1, <1>10
  DEF BM!ProveFinal, BM!Verdict, BM!Adopt, bmMoves, bmSame, bmAdopted, bmSeen
<1>11. ASSUME BM!Fails
      PROVE  bmMoves
  BY <1>1, <1>11 DEF BM!Fails, bmMoves, bmSame, bmAdopted, bmSeen
<1>12. ASSUME BM!ReadLanded
      PROVE  bmMoves
  BY <1>1, <1>12
  DEF BM!ReadLanded, BM!unchangedMerging, bmMoves, bmSame, bmAdopted, bmSeen
<1>13. ASSUME BM!Finish
      PROVE  bmMoves
  BY <1>1, <1>13
  DEF BM!Finish, BM!unchangedMerging, bmMoves, bmSame, bmAdopted, bmSeen
<1>14. ASSUME NEW p \in PR, BM!Recheck(p)
      PROVE  bmMoves
  BY <1>1, <1>14
  DEF BM!Recheck, BM!unchangedMerging, bmMoves, bmSame, bmAdopted, bmSeen
<1>15. ASSUME NEW p \in PR, BM!ReadTarget(p)
      PROVE  bmMoves
  BY <1>1, <1>15
  DEF BM!ReadTarget, BM!unchangedMerging, bmMoves, bmSame, bmAdopted, bmSeen
<1>16. ASSUME NEW p \in PR, BM!CallMerge(p)
      PROVE  bmMoves
  BY <1>1, <1>16
  DEF BM!CallMerge, BM!unchangedMerging, bmMoves, bmSame, bmAdopted, bmSeen
<1>17. ASSUME NEW p \in PR, BM!Look(p)
      PROVE  bmMoves
  BY <1>1, <1>17
  DEF BM!Look, BM!unchangedMerging, bmMoves, bmSame, bmAdopted, bmSeen
<1>18. ASSUME NEW p \in PR, BM!GitHubMerges(p)
      PROVE  bmMoves
  BY <1>1, <1>18
  DEF BM!GitHubMerges, BM!Lands, BM!Grows, BM!Early, BM!unchangedMerging,
      bmMoves, bmSame, bmAdopted, bmSeen
<1>19. ASSUME NEW p \in PR, BM!GitHubQueues(p)
      PROVE  bmMoves
  BY <1>1, <1>19
  DEF BM!GitHubQueues, BM!unchangedMerging, bmMoves, bmSame, bmAdopted, bmSeen
<1>20. ASSUME NEW p \in PR, BM!QueueLands(p)
      PROVE  bmMoves
  BY <1>1, <1>20
  DEF BM!QueueLands, BM!Lands, BM!Grows, BM!Early, bmMoves, bmSame, bmAdopted,
      bmSeen
<1>21. ASSUME BM!GitHubRefuses
      PROVE  bmMoves
  BY <1>1, <1>21
  DEF BM!GitHubRefuses, BM!unchangedMerging, bmMoves, bmSame, bmAdopted, bmSeen
<1>22. ASSUME BM!Abort
      PROVE  bmMoves
  BY <1>1, <1>22 DEF BM!Abort, bmMoves, bmSame, bmAdopted, bmSeen
<1>23. ASSUME BM!Outside
      PROVE  bmMoves
  BY <1>1, <1>23
  DEF BM!Outside, BM!Lands, BM!Grows, BM!Early, bmMoves, bmSame, bmAdopted,
      bmSeen
<1>24. CASE UNCHANGED bmVars
  BY <1>1, <1>24 DEF bmVars, bmOnly, bmMoves, bmSame, bmAdopted, bmSeen
<1> QED
  BY <1>2, <1>3, <1>4, <1>5, <1>6, <1>7, <1>8, <1>9, <1>10, <1>11, <1>12, <1>13,
     <1>14, <1>15, <1>16, <1>17, <1>18, <1>19, <1>20, <1>21, <1>22, <1>23, <1>24
  DEF BM!Next, BM!BatchStep, BM!Merging, BM!GitHub

(* Every step keeps the stage of the lot.                                  *)
LEMMA BatchStage ==
  ASSUME ServersAssumption, bmInv, BM!Next \/ UNCHANGED bmVars
  PROVE  bmStage'
<1> USE DEF BM!reading, BM!batchVars, BM!remoteVars, BM!suiteVars, BM!Stop
<1>1. bmStage /\ bmReadType
  BY DEF bmInv, bmTypes
<1>2. ASSUME BM!ReadPullRequest
      PROVE  bmStage'
  BY <1>1, <1>2 DEF BM!ReadPullRequest, BM!unread, bmStage, bmEarly, bmMerging
<1>3. ASSUME BM!ReadBase
      PROVE  bmStage'
  BY <1>1, <1>3 DEF BM!ReadBase, BM!unread, bmStage, bmEarly, bmMerging
<1>4. ASSUME BM!FetchHeads
      PROVE  bmStage'
  BY <1>1, <1>4 DEF BM!FetchHeads, BM!unread, bmStage, bmEarly, bmMerging
<1>5. ASSUME BM!Vet
      PROVE  bmStage'
  BY <1>1, <1>5 DEF BM!Vet, BM!unread, bmStage, bmEarly, bmMerging
<1>6. ASSUME BM!ProveWhole
      PROVE  bmStage'
  BY <1>1, <1>6 DEF BM!ProveWhole, BM!Verdict, BM!Adopt, bmStage, bmEarly, bmMerging
<1>7. ASSUME BM!ProveHalf
      PROVE  bmStage'
  BY <1>1, <1>7 DEF BM!ProveHalf, BM!Verdict, bmStage, bmEarly, bmMerging
<1>8. ASSUME BM!Return
      PROVE  bmStage'
  BY <1>1, <1>8 DEF BM!Return, bmStage, bmEarly, bmMerging
<1>9. ASSUME BM!Conclude
      PROVE  bmStage'
  BY <1>1, <1>9 DEF BM!Conclude, bmStage, bmEarly, bmMerging
<1>10. ASSUME BM!ProveFinal
      PROVE  bmStage'
  BY <1>1, <1>10
  DEF BM!ProveFinal, BM!Verdict, BM!Adopt, bmStage, bmEarly, bmMerging,
      BM!Built, BM!Rest
<1>11. ASSUME BM!Fails
      PROVE  bmStage'
  BY <1>1, <1>11 DEF BM!Fails, bmStage, bmEarly, bmMerging
<1>12. ASSUME BM!ReadLanded
      PROVE  bmStage'
  BY <1>1, <1>12 DEF BM!ReadLanded, BM!unchangedMerging, bmStage, bmEarly, bmMerging
<1>13. ASSUME BM!Finish
      PROVE  bmStage'
  BY <1>1, <1>13 DEF BM!Finish, BM!unchangedMerging, bmStage, bmEarly, bmMerging
<1>14. ASSUME NEW p \in PR, BM!Recheck(p)
      PROVE  bmStage'
  BY <1>1, <1>14 DEF BM!Recheck, BM!unchangedMerging, bmStage, bmEarly, bmMerging
<1>15. ASSUME NEW p \in PR, BM!ReadTarget(p)
      PROVE  bmStage'
  BY <1>1, <1>15 DEF BM!ReadTarget, BM!unchangedMerging, bmStage, bmEarly, bmMerging
<1>16. ASSUME NEW p \in PR, BM!CallMerge(p)
      PROVE  bmStage'
  BY <1>1, <1>16 DEF BM!CallMerge, BM!unchangedMerging, bmStage, bmEarly, bmMerging
<1>17. ASSUME NEW p \in PR, BM!Look(p)
      PROVE  bmStage'
  BY <1>1, <1>17 DEF BM!Look, BM!unchangedMerging, bmStage, bmEarly, bmMerging
<1>18. ASSUME NEW p \in PR, BM!GitHubMerges(p)
      PROVE  bmStage'
  BY <1>1, <1>18
  DEF BM!GitHubMerges, BM!Lands, BM!Grows, BM!Early, BM!unchangedMerging,
      bmStage, bmEarly, bmMerging
<1>19. ASSUME NEW p \in PR, BM!GitHubQueues(p)
      PROVE  bmStage'
  BY <1>1, <1>19
  DEF BM!GitHubQueues, BM!unchangedMerging, bmStage, bmEarly, bmMerging
<1>20. ASSUME NEW p \in PR, BM!QueueLands(p)
      PROVE  bmStage'
  BY <1>1, <1>20
  DEF BM!QueueLands, BM!Lands, BM!Grows, BM!Early, bmStage, bmEarly, bmMerging
<1>21. ASSUME BM!GitHubRefuses
      PROVE  bmStage'
  BY <1>1, <1>21
  DEF BM!GitHubRefuses, BM!unchangedMerging, bmStage, bmEarly, bmMerging
<1>22. ASSUME BM!Abort
      PROVE  bmStage'
  BY <1>1, <1>22 DEF BM!Abort, bmStage, bmEarly, bmMerging
<1>23. ASSUME BM!Outside
      PROVE  bmStage'
  BY <1>1, <1>23
  DEF BM!Outside, BM!Lands, BM!Grows, BM!Early, bmStage, bmEarly, bmMerging
<1>24. CASE UNCHANGED bmVars
  BY <1>1, <1>24 DEF bmVars, bmOnly, bmStage, bmEarly, bmMerging
<1> QED
  BY <1>2, <1>3, <1>4, <1>5, <1>6, <1>7, <1>8, <1>9, <1>10, <1>11, <1>12, <1>13,
     <1>14, <1>15, <1>16, <1>17, <1>18, <1>19, <1>20, <1>21, <1>22, <1>23, <1>24
  DEF BM!Next, BM!BatchStep, BM!Merging, BM!GitHub

(* One more in the report.                                                 *)
LEMMA BatchAppend ==
  ASSUME bmMergedType, NEW p \in PR, merged' = Append(merged, p)
  PROVE  /\ Len(merged) \in Nat /\ DOMAIN merged = 1..Len(merged)
         /\ Len(merged') = Len(merged) + 1 /\ DOMAIN merged' = 1..(Len(merged) + 1)
         /\ \A k \in 1..Len(merged) : merged'[k] = merged[k]
         /\ merged'[Len(merged) + 1] = p
         /\ BM!Merged' = BM!Merged \cup {p}
<1>1. merged \in Seq(PR)
  BY DEF bmMergedType
<1>2. /\ Len(merged) \in Nat /\ DOMAIN merged = 1..Len(merged)
      /\ Len(merged') = Len(merged) + 1 /\ DOMAIN merged' = 1..(Len(merged) + 1)
  BY <1>1
<1>3. /\ \A k \in 1..Len(merged) : merged'[k] = merged[k]
      /\ merged'[Len(merged) + 1] = p
  BY <1>1
<1>4. BM!Merged' = BM!Merged \cup {p}
  BY <1>2, <1>3 DEF BM!Merged
<1> QED
  BY <1>2, <1>3, <1>4

(* What is merged is the beginning of the lot, in order.                   *)
LEMMA BatchOrder ==
  ASSUME ServersAssumption, bmInv, BM!Next \/ UNCHANGED bmVars
  PROVE  bmOrder'
<1>1. bmOrder /\ bmMergedType /\ bmLotType
  BY DEF bmInv, bmTypes
<1>2. CASE bmSame
  BY <1>1, <1>2 DEF bmSame, bmOrder, BM!Merged
<1>3. CASE bmAdopted
  BY <1>3 DEF bmAdopted, bmOrder, BM!Merged
<1>4. ASSUME NEW p \in PR, bmSeen(p)
      PROVE  bmOrder'
  <2>1. BM!Member(p) /\ merged' = Append(merged, p) /\ proven' = proven
    BY <1>4 DEF bmSeen
  <2>2. p \in proven /\ \A q \in BM!Merged : q \in PR /\ BM!Place(q) < BM!Place(p)
    BY <1>1, <2>1, BatchMember
  <2>3. /\ Len(merged) \in Nat /\ DOMAIN merged = 1..Len(merged)
        /\ Len(merged') = Len(merged) + 1 /\ DOMAIN merged' = 1..(Len(merged) + 1)
        /\ \A k \in 1..Len(merged) : merged'[k] = merged[k]
        /\ merged'[Len(merged) + 1] = p
        /\ BM!Merged' = BM!Merged \cup {p}
    BY <1>1, <2>1, BatchAppend
  <2>4. BM!Merged' \subseteq proven'
    BY <1>1, <2>1, <2>2, <2>3 DEF bmOrder
  <2>5. ASSUME NEW q \in proven, BM!Place(q) < BM!Place(p)
        PROVE  q \in BM!Merged
    <3>1. q \in PR /\ ~(BM!Place(p) <= BM!Place(q))
      BY <1>1, <2>5, BatchPlaces DEF bmLotType
    <3> QED
      BY <2>1, <2>5, <3>1, BatchSmaller
  <2>6. \A q \in proven', r \in BM!Merged' : BM!Place(q) < BM!Place(r) => q \in BM!Merged'
    BY <1>1, <2>1, <2>3, <2>5 DEF bmOrder
  <2>7. \A j, k \in DOMAIN merged' : j < k => BM!Place(merged'[j]) < BM!Place(merged'[k])
    <3> SUFFICES ASSUME NEW j \in 1..(Len(merged) + 1), NEW k \in 1..(Len(merged) + 1), j < k
                 PROVE  BM!Place(merged'[j]) < BM!Place(merged'[k])
      BY <2>3
    <3>1. j \in 1..Len(merged) /\ merged'[j] = merged[j] /\ merged[j] \in BM!Merged
      BY <2>3 DEF BM!Merged
    <3>2. CASE k \in 1..Len(merged)
      BY <1>1, <2>3, <3>1, <3>2 DEF bmOrder
    <3>3. CASE k = Len(merged) + 1
      BY <2>2, <2>3, <3>1, <3>3
    <3> QED
      BY <2>3, <3>2, <3>3
  <2> QED
    BY <2>4, <2>6, <2>7 DEF bmOrder
<1> QED
  BY <1>2, <1>3, <1>4, BatchMoves DEF bmMoves

(* Every step keeps what a batch that is done has merged.                  *)
LEMMA BatchDone ==
  ASSUME ServersAssumption, bmInv, BM!Next \/ UNCHANGED bmVars
  PROVE  bmDone'
<1> USE DEF BM!reading, BM!batchVars, BM!remoteVars, BM!suiteVars, BM!Stop
<1>1. bmDone /\ bmStage /\ bmReadType
  BY DEF bmInv, bmTypes
<1>2. ASSUME BM!ReadPullRequest
      PROVE  bmDone'
  BY <1>1, <1>2
  DEF BM!ReadPullRequest, BM!unread, bmDone, bmEarly, bmMerging, BM!Merged
<1>3. ASSUME BM!ReadBase
      PROVE  bmDone'
  BY <1>1, <1>3 DEF BM!ReadBase, BM!unread, bmDone, bmEarly, bmMerging, BM!Merged
<1>4. ASSUME BM!FetchHeads
      PROVE  bmDone'
  BY <1>1, <1>4 DEF BM!FetchHeads, BM!unread, bmDone, bmEarly, bmMerging, BM!Merged
<1>5. ASSUME BM!Vet
      PROVE  bmDone'
  BY <1>1, <1>5 DEF BM!Vet, BM!unread, bmDone, bmEarly, bmMerging, BM!Merged
<1>6. ASSUME BM!ProveWhole
      PROVE  bmDone'
  BY <1>1, <1>6
  DEF BM!ProveWhole, BM!Verdict, BM!Adopt, bmDone, bmEarly, bmMerging, BM!Merged
<1>7. ASSUME BM!ProveHalf
      PROVE  bmDone'
  BY <1>1, <1>7 DEF BM!ProveHalf, BM!Verdict, bmDone, bmEarly, bmMerging, BM!Merged
<1>8. ASSUME BM!Return
      PROVE  bmDone'
  BY <1>1, <1>8 DEF BM!Return, bmDone, bmEarly, bmMerging, BM!Merged
<1>9. ASSUME BM!Conclude
      PROVE  bmDone'
  BY <1>1, <1>9 DEF BM!Conclude, bmDone, bmEarly, bmMerging, BM!Merged
<1>10. ASSUME BM!ProveFinal
      PROVE  bmDone'
  BY <1>1, <1>10
  DEF BM!ProveFinal, BM!Verdict, BM!Adopt, bmDone, bmEarly, bmMerging, BM!Merged
<1>11. ASSUME BM!Fails
      PROVE  bmDone'
  BY <1>1, <1>11 DEF BM!Fails, bmDone, bmEarly, bmMerging, BM!Merged
<1>12. ASSUME BM!ReadLanded
      PROVE  bmDone'
  BY <1>1, <1>12
  DEF BM!ReadLanded, BM!unchangedMerging, bmDone, bmEarly, bmMerging, BM!Merged
<1>13. ASSUME BM!Finish
      PROVE  bmDone'
  BY <1>1, <1>13
  DEF BM!Finish, BM!unchangedMerging, bmDone, bmEarly, bmMerging, BM!Merged
<1>14. ASSUME NEW p \in PR, BM!Recheck(p)
      PROVE  bmDone'
  BY <1>1, <1>14
  DEF BM!Recheck, BM!unchangedMerging, bmDone, bmEarly, bmMerging, BM!Merged
<1>15. ASSUME NEW p \in PR, BM!ReadTarget(p)
      PROVE  bmDone'
  BY <1>1, <1>15
  DEF BM!ReadTarget, BM!unchangedMerging, bmDone, bmEarly, bmMerging, BM!Merged
<1>16. ASSUME NEW p \in PR, BM!CallMerge(p)
      PROVE  bmDone'
  BY <1>1, <1>16
  DEF BM!CallMerge, BM!unchangedMerging, bmDone, bmEarly, bmMerging, BM!Merged
<1>17. ASSUME NEW p \in PR, BM!Look(p)
      PROVE  bmDone'
  BY <1>1, <1>17
  DEF BM!Look, BM!unchangedMerging, bmDone, bmEarly, bmMerging, BM!Merged
<1>18. ASSUME NEW p \in PR, BM!GitHubMerges(p)
      PROVE  bmDone'
  BY <1>1, <1>18
  DEF BM!GitHubMerges, BM!Lands, BM!Grows, BM!Early, BM!unchangedMerging,
      bmDone, bmEarly, bmMerging, BM!Merged
<1>19. ASSUME NEW p \in PR, BM!GitHubQueues(p)
      PROVE  bmDone'
  BY <1>1, <1>19
  DEF BM!GitHubQueues, BM!unchangedMerging, bmDone, bmEarly, bmMerging,
      BM!Merged
<1>20. ASSUME NEW p \in PR, BM!QueueLands(p)
      PROVE  bmDone'
  BY <1>1, <1>20
  DEF BM!QueueLands, BM!Lands, BM!Grows, BM!Early, bmDone, bmEarly, bmMerging,
      BM!Merged
<1>21. ASSUME BM!GitHubRefuses
      PROVE  bmDone'
  BY <1>1, <1>21
  DEF BM!GitHubRefuses, BM!unchangedMerging, bmDone, bmEarly, bmMerging,
      BM!Merged
<1>22. ASSUME BM!Abort
      PROVE  bmDone'
  BY <1>1, <1>22 DEF BM!Abort, bmDone, bmEarly, bmMerging, BM!Merged
<1>23. ASSUME BM!Outside
      PROVE  bmDone'
  BY <1>1, <1>23
  DEF BM!Outside, BM!Lands, BM!Grows, BM!Early, bmDone, bmEarly, bmMerging,
      BM!Merged
<1>24. CASE UNCHANGED bmVars
  BY <1>1, <1>24 DEF bmVars, bmOnly, bmDone, bmEarly, bmMerging, BM!Merged
<1> QED
  BY <1>2, <1>3, <1>4, <1>5, <1>6, <1>7, <1>8, <1>9, <1>10, <1>11, <1>12, <1>13,
     <1>14, <1>15, <1>16, <1>17, <1>18, <1>19, <1>20, <1>21, <1>22, <1>23, <1>24
  DEF BM!Next, BM!BatchStep, BM!Merging, BM!GitHub

(* What a step does to the target: nothing, a push, or the arrival of a    *)
(* pull request, that of the batch when it called for it.                  *)
bmStill ==
  target' = target /\ \A q \in PR : state[q] = "merged" => state'[q] = "merged"
bmOnTop(x, b) ==
  /\ Len(target) \in Nat /\ DOMAIN target = 1..Len(target)
  /\ Len(target') = Len(target) + 1 /\ DOMAIN target' = 1..(Len(target) + 1)
  /\ \A k \in 1..Len(target) : target'[k] = target[k]
  /\ target'[Len(target) + 1].pr = x /\ target'[Len(target) + 1].ours = b
bmPushed == bmOnTop(Other, FALSE) /\ state' = state
bmBy(p, b) ==
  \/ b /\ pc = "called" /\ pc' = "look" /\ BM!Member(p)
  \/ b /\ p \in queued /\ pc' = pc /\ stopped' = stopped
  \/ ~b /\ pc' = pc /\ stopped' = stopped
bmArrives(p, x, b) ==
  /\ state[p] = "open" /\ state'[p] = "merged" /\ \A q \in PR \ {p} : state'[q] = state[q]
  /\ bmOnTop(x, b) /\ (b => x = p) /\ merged' = merged /\ proven' = proven
  /\ bmBy(p, b)

(* A push on top of what was there.                                        *)
LEMMA BatchOnTop ==
  ASSUME bmRemoteType, NEW x \in PR \cup {Other}, NEW b \in BOOLEAN,
         target' = Append(target, [pr |-> x, ours |-> b])
  PROVE  bmOnTop(x, b)
<1>1. target \in Seq(bmEntry)
  BY DEF bmRemoteType
<1>2. PICK e : e = [pr |-> x, ours |-> b]
  OBVIOUS
<1>3. e \in bmEntry /\ e.pr = x /\ e.ours = b
  BY <1>2 DEF bmEntry
<1> QED
  BY <1>1, <1>2, <1>3 DEF bmOnTop

(* What a merge brings to the target.                                      *)
LEMMA BatchArrives ==
  ASSUME bmRemoteType, NEW p \in PR, NEW b \in BOOLEAN, BM!Lands(p, b), b => p \notin moved,
         merged' = merged /\ proven' = proven /\ bmBy(p, b)
  PROVE  bmStill \/ \E x \in {p, Other} : bmArrives(p, x, b)
<1>1. state[p] = "open" /\ state' = [state EXCEPT ![p] = "merged"]
  BY DEF BM!Lands
<1>2. state'[p] = "merged" /\ \A q \in PR \ {p} : state'[q] = state[q]
  BY <1>1 DEF bmRemoteType
<1>3. CASE BM!Early
  <2>1. target' = target
    BY <1>3 DEF BM!Lands, BM!Grows
  <2> QED
    BY <1>2, <2>1 DEF bmStill
<1>4. CASE ~BM!Early
  <2>1. PICK x \in {p, Other} : x = IF p \in moved THEN Other ELSE p
    OBVIOUS
  <2>2. target' = Append(target, [pr |-> x, ours |-> b]) /\ (b => x = p)
    BY <1>4, <2>1 DEF BM!Lands, BM!Grows
  <2>3. bmOnTop(x, b)
    BY <2>2, BatchOnTop
  <2> QED
    BY <1>1, <1>2, <2>2, <2>3 DEF bmArrives
<1> QED
  BY <1>3, <1>4

bmRemote ==
  bmStill \/ bmPushed \/ \E p \in PR, b \in BOOLEAN : \E x \in {p, Other} : bmArrives(p, x, b)

(* ... of any step.                                                        *)
LEMMA BatchRemote ==
  ASSUME ServersAssumption, bmInv, BM!Next \/ UNCHANGED bmVars
  PROVE  bmRemote
<1> USE DEF BM!reading, BM!batchVars, BM!remoteVars, BM!suiteVars, BM!Stop
<1>1. bmRemoteType
  BY DEF bmInv, bmTypes
<1>2. ASSUME BM!ReadPullRequest
      PROVE  bmRemote
  BY <1>1, <1>2 DEF BM!ReadPullRequest, BM!unread, bmRemote, bmStill
<1>3. ASSUME BM!ReadBase
      PROVE  bmRemote
  BY <1>1, <1>3 DEF BM!ReadBase, BM!unread, bmRemote, bmStill
<1>4. ASSUME BM!FetchHeads
      PROVE  bmRemote
  BY <1>1, <1>4 DEF BM!FetchHeads, BM!unread, bmRemote, bmStill
<1>5. ASSUME BM!Vet
      PROVE  bmRemote
  BY <1>1, <1>5 DEF BM!Vet, BM!unread, bmRemote, bmStill
<1>6. ASSUME BM!ProveWhole
      PROVE  bmRemote
  BY <1>1, <1>6 DEF BM!ProveWhole, BM!Verdict, BM!Adopt, bmRemote, bmStill
<1>7. ASSUME BM!ProveHalf
      PROVE  bmRemote
  BY <1>1, <1>7 DEF BM!ProveHalf, BM!Verdict, bmRemote, bmStill
<1>8. ASSUME BM!Return
      PROVE  bmRemote
  BY <1>1, <1>8 DEF BM!Return, bmRemote, bmStill
<1>9. ASSUME BM!Conclude
      PROVE  bmRemote
  BY <1>1, <1>9 DEF BM!Conclude, bmRemote, bmStill
<1>10. ASSUME BM!ProveFinal
      PROVE  bmRemote
  BY <1>1, <1>10 DEF BM!ProveFinal, BM!Verdict, BM!Adopt, bmRemote, bmStill
<1>11. ASSUME BM!Fails
      PROVE  bmRemote
  BY <1>1, <1>11 DEF BM!Fails, bmRemote, bmStill
<1>12. ASSUME BM!ReadLanded
      PROVE  bmRemote
  BY <1>1, <1>12 DEF BM!ReadLanded, BM!unchangedMerging, bmRemote, bmStill
<1>13. ASSUME BM!Finish
      PROVE  bmRemote
  BY <1>1, <1>13 DEF BM!Finish, BM!unchangedMerging, bmRemote, bmStill
<1>14. ASSUME NEW p \in PR, BM!Recheck(p)
      PROVE  bmRemote
  BY <1>1, <1>14 DEF BM!Recheck, BM!unchangedMerging, bmRemote, bmStill
<1>15. ASSUME NEW p \in PR, BM!ReadTarget(p)
      PROVE  bmRemote
  BY <1>1, <1>15 DEF BM!ReadTarget, BM!unchangedMerging, bmRemote, bmStill
<1>16. ASSUME NEW p \in PR, BM!CallMerge(p)
      PROVE  bmRemote
  BY <1>1, <1>16 DEF BM!CallMerge, BM!unchangedMerging, bmRemote, bmStill
<1>17. ASSUME NEW p \in PR, BM!Look(p)
      PROVE  bmRemote
  BY <1>1, <1>17 DEF BM!Look, BM!unchangedMerging, bmRemote, bmStill
<1>18. ASSUME NEW p \in PR, BM!GitHubMerges(p)
      PROVE  bmRemote
  <2>1. BM!Lands(p, TRUE) /\ p \notin moved /\ merged' = merged /\ proven' = proven /\ bmBy(p, TRUE)
    BY <1>18 DEF BM!GitHubMerges, BM!unchangedMerging, bmBy
  <2> QED
    BY <1>1, <2>1, BatchArrives DEF bmRemote
<1>19. ASSUME NEW p \in PR, BM!GitHubQueues(p)
      PROVE  bmRemote
  BY <1>1, <1>19 DEF BM!GitHubQueues, BM!unchangedMerging, bmRemote, bmStill
<1>20. ASSUME NEW p \in PR, BM!QueueLands(p)
      PROVE  bmRemote
  <2>1. BM!Lands(p, TRUE) /\ p \notin moved /\ merged' = merged /\ proven' = proven /\ bmBy(p, TRUE)
    BY <1>20 DEF BM!QueueLands, bmBy
  <2> QED
    BY <1>1, <2>1, BatchArrives DEF bmRemote
<1>21. ASSUME BM!GitHubRefuses
      PROVE  bmRemote
  BY <1>1, <1>21 DEF BM!GitHubRefuses, BM!unchangedMerging, bmRemote, bmStill
<1>22. ASSUME BM!Abort
      PROVE  bmRemote
  BY <1>1, <1>22 DEF BM!Abort, bmRemote, bmStill
<1>23. ASSUME BM!Outside
      PROVE  bmRemote
  <2>1. pc' = pc /\ merged' = merged /\ proven' = proven /\ stopped' = stopped
    BY <1>23 DEF BM!Outside
  <2>2. CASE \E p \in PR : BM!Lands(p, FALSE) /\ UNCHANGED moved
    <3>1. PICK p \in PR : BM!Lands(p, FALSE)
      BY <2>2
    <3>2. bmBy(p, FALSE)
      BY <2>1 DEF bmBy
    <3>3. bmStill \/ \E x \in {p, Other} : bmArrives(p, x, FALSE)
      BY <1>1, <2>1, <3>1, <3>2, BatchArrives
    <3> QED
      BY <3>3 DEF bmRemote
  <2>3. CASE BM!Grows([pr |-> Other, ours |-> FALSE]) /\ UNCHANGED <<base, state, moved, queued>>
    <3>1. CASE BM!Early
      BY <2>3, <3>1 DEF BM!Grows, bmRemote, bmStill
    <3>2. CASE ~BM!Early
      <4>1. target' = Append(target, [pr |-> Other, ours |-> FALSE])
        BY <2>3, <3>2 DEF BM!Grows
      <4>2. bmOnTop(Other, FALSE)
        BY <1>1, <4>1, BatchOnTop
      <4> QED
        BY <2>3, <4>2 DEF bmRemote, bmPushed
    <3> QED
      BY <3>1, <3>2
  <2>4. CASE \E p \in PR \ moved :
               moved' = moved \cup {p} /\ UNCHANGED <<base, target, state, queued>>
    BY <2>4 DEF bmRemote, bmStill
  <2>5. CASE \E p \in PR : state[p] = "open" /\ state' = [state EXCEPT ![p] = "closed"]
                           /\ UNCHANGED <<base, target, moved, queued>>
    BY <1>1, <2>5 DEF bmRemote, bmStill, bmRemoteType
  <2> QED
    BY <1>23, <2>2, <2>3, <2>4, <2>5 DEF BM!Outside
<1>24. CASE UNCHANGED bmVars
  BY <1>1, <1>24 DEF bmVars, bmOnly, bmRemote, bmStill
<1> QED
  BY <1>2, <1>3, <1>4, <1>5, <1>6, <1>7, <1>8, <1>9, <1>10, <1>11, <1>12, <1>13,
     <1>14, <1>15, <1>16, <1>17, <1>18, <1>19, <1>20, <1>21, <1>22, <1>23, <1>24
  DEF BM!Next, BM!BatchStep, BM!Merging, BM!GitHub

(* Who merged stays merged, once on the target.                            *)
LEMMA BatchLanded ==
  ASSUME ServersAssumption, bmInv, BM!Next \/ UNCHANGED bmVars
  PROVE  bmLanded'
<1>1. bmLanded /\ bmOrder /\ bmMergedType /\ bmLotType /\ bmRemoteType /\ Other \notin PR
  BY DEF bmInv, bmTypes, ServersAssumption, BM!BatchAssumption
<1>2. ASSUME NEW q \in BM!Merged'
      PROVE  q \in PR /\ (q \in BM!Merged \/ (state[q] = "merged" /\ state' = state))
  <2>1. CASE bmSame
    BY <1>1, <2>1 DEF bmSame, BM!Merged, bmOrder, bmLotType
  <2>2. CASE bmAdopted
    BY <1>2, <2>2 DEF bmAdopted, BM!Merged
  <2>3. ASSUME NEW p \in PR, bmSeen(p)
        PROVE  q \in PR /\ (q \in BM!Merged \/ (state[q] = "merged" /\ state' = state))
    <3>1. BM!Merged' = BM!Merged \cup {p} /\ state[p] = "merged" /\ state' = state
      BY <1>1, <2>3, BatchAppend DEF bmSeen
    <3> QED
      BY <1>1, <1>2, <3>1 DEF bmOrder, bmLotType
  <2> QED
    BY <2>1, <2>2, <2>3, BatchMoves DEF bmMoves
<1>3. \A q \in BM!Merged' : q \in PR /\ state[q] = "merged"
  BY <1>1, <1>2 DEF bmLanded
<1>4. CASE bmStill
  BY <1>1, <1>3, <1>4 DEF bmStill, bmLanded
<1>5. CASE bmPushed
  <2>1. \A q \in BM!Merged' : state'[q] = "merged"
    BY <1>3, <1>5 DEF bmPushed
  <2>2. \A k \in DOMAIN target' : target'[k].pr \in PR => k \in DOMAIN target /\ target'[k] = target[k]
    BY <1>1, <1>5 DEF bmPushed, bmOnTop
  <2> QED
    BY <1>1, <1>5, <2>1, <2>2 DEF bmLanded, bmPushed
<1>6. ASSUME NEW p \in PR, NEW b \in BOOLEAN, NEW x \in {p, Other}, bmArrives(p, x, b)
      PROVE  bmLanded'
  <2>1. state[p] = "open" /\ state'[p] = "merged" /\ \A q \in PR \ {p} : state'[q] = state[q]
    BY <1>6 DEF bmArrives
  <2>2. \A q \in BM!Merged' : state'[q] = "merged"
    BY <1>3, <2>1
  <2>3. \A k \in DOMAIN target : k \in DOMAIN target' /\ target'[k] = target[k] /\ target[k].pr # p
    BY <1>1, <1>6, <2>1 DEF bmArrives, bmOnTop, bmLanded
  <2>4. \A k \in DOMAIN target' : k \in DOMAIN target \/ (k = Len(target) + 1 /\ target'[k].pr = x)
    BY <1>6 DEF bmArrives, bmOnTop
  <2>5. \A k \in DOMAIN target' : target'[k].pr \in PR => state'[target'[k].pr] = "merged"
    BY <1>1, <2>1, <2>3, <2>4 DEF bmLanded
  <2>6. \A j, k \in DOMAIN target' : target'[j].pr \in PR /\ target'[j].pr = target'[k].pr => j = k
    BY <1>1, <2>3, <2>4 DEF bmLanded
  <2> QED
    BY <2>2, <2>5, <2>6 DEF bmLanded
<1> QED
  BY <1>4, <1>5, <1>6, BatchRemote DEF bmRemote

(* A pull request the report names, or the one at hand.                    *)
bmMine(x) == x \in BM!Merged \/ bmAtHand(x)

(* It stays so.                                                            *)
LEMMA BatchMine ==
  ASSUME ServersAssumption, bmInv, NEW x, bmMine(x), BM!Next \/ UNCHANGED bmVars
  PROVE  bmMine(x)'
<1> USE DEF BM!reading, BM!batchVars, BM!remoteVars, BM!suiteVars, BM!Stop
<1>1. /\ bmStage /\ bmOrder /\ bmMergedType /\ bmLotType
      /\ (pc \in bmEarly => merged = <<>>) /\ (pc \notin {"look", "stopped"} => x \in BM!Merged)
      /\ {"whole", "bisect", "bisected", "final"} \subseteq bmEarly
  BY DEF bmInv, bmTypes, bmStage, bmMine, bmAtHand, bmEarly
<1>2. ASSUME BM!ReadPullRequest
      PROVE  bmMine(x)'
  BY <1>1, <1>2
  DEF BM!ReadPullRequest, BM!unread, bmMine, bmAtHand, BM!Member, BM!Merged
<1>3. ASSUME BM!ReadBase
      PROVE  bmMine(x)'
  BY <1>1, <1>3 DEF BM!ReadBase, BM!unread, bmMine, bmAtHand, BM!Member, BM!Merged
<1>4. ASSUME BM!FetchHeads
      PROVE  bmMine(x)'
  BY <1>1, <1>4 DEF BM!FetchHeads, BM!unread, bmMine, bmAtHand, BM!Member, BM!Merged
<1>5. ASSUME BM!Vet
      PROVE  bmMine(x)'
  BY <1>1, <1>5 DEF BM!Vet, BM!unread, bmMine, bmAtHand, BM!Member, BM!Merged
<1>6. ASSUME BM!ProveWhole
      PROVE  bmMine(x)'
  BY <1>1, <1>6
  DEF BM!ProveWhole, BM!Verdict, BM!Adopt, bmMine, bmAtHand, BM!Member,
      BM!Merged
<1>7. ASSUME BM!ProveHalf
      PROVE  bmMine(x)'
  BY <1>1, <1>7 DEF BM!ProveHalf, BM!Verdict, bmMine, bmAtHand, BM!Member, BM!Merged
<1>8. ASSUME BM!Return
      PROVE  bmMine(x)'
  BY <1>1, <1>8 DEF BM!Return, bmMine, bmAtHand, BM!Member, BM!Merged
<1>9. ASSUME BM!Conclude
      PROVE  bmMine(x)'
  BY <1>1, <1>9 DEF BM!Conclude, bmMine, bmAtHand, BM!Member, BM!Merged
<1>10. ASSUME BM!ProveFinal
      PROVE  bmMine(x)'
  BY <1>1, <1>10
  DEF BM!ProveFinal, BM!Verdict, BM!Adopt, bmMine, bmAtHand, BM!Member,
      BM!Merged
<1>11. ASSUME BM!Fails
      PROVE  bmMine(x)'
  BY <1>1, <1>11 DEF BM!Fails, bmMine, bmAtHand, BM!Member, BM!Merged
<1>12. ASSUME BM!ReadLanded
      PROVE  bmMine(x)'
  BY <1>1, <1>12
  DEF BM!ReadLanded, BM!unchangedMerging, bmMine, bmAtHand, BM!Member, BM!Merged
<1>13. ASSUME BM!Finish
      PROVE  bmMine(x)'
  BY <1>1, <1>13
  DEF BM!Finish, BM!unchangedMerging, bmMine, bmAtHand, BM!Member, BM!Merged
<1>14. ASSUME NEW p \in PR, BM!Recheck(p)
      PROVE  bmMine(x)'
  BY <1>1, <1>14
  DEF BM!Recheck, BM!unchangedMerging, bmMine, bmAtHand, BM!Member, BM!Merged
<1>15. ASSUME NEW p \in PR, BM!ReadTarget(p)
      PROVE  bmMine(x)'
  BY <1>1, <1>15
  DEF BM!ReadTarget, BM!unchangedMerging, bmMine, bmAtHand, BM!Member, BM!Merged
<1>16. ASSUME NEW p \in PR, BM!CallMerge(p)
      PROVE  bmMine(x)'
  BY <1>1, <1>16
  DEF BM!CallMerge, BM!unchangedMerging, bmMine, bmAtHand, BM!Member, BM!Merged
<1>17. ASSUME NEW p \in PR, BM!Look(p)
      PROVE  bmMine(x)'
  <2>1. x \in BM!Merged \/ x = p
    BY <1>1, <1>17, BatchMember DEF BM!Look, bmMine, bmAtHand
  <2>2. CASE merged' = Append(merged, p)
    <3>1. BM!Merged' = BM!Merged \cup {p}
      BY <1>1, <2>2, BatchAppend
    <3> QED
      BY <2>1, <3>1 DEF bmMine
  <2>3. CASE pc' = "stopped" /\ stopped' = p /\ merged' = merged
    BY <2>1, <2>3, <1>17
    DEF BM!Look, BM!unchangedMerging, bmMine, bmAtHand, BM!Member, BM!Merged
  <2> QED
    BY <1>17, <2>2, <2>3 DEF BM!Look
<1>18. ASSUME NEW p \in PR, BM!GitHubMerges(p)
      PROVE  bmMine(x)'
  BY <1>1, <1>18
  DEF BM!GitHubMerges, BM!Lands, BM!Grows, BM!Early, BM!unchangedMerging,
      bmMine, bmAtHand, BM!Member, BM!Merged
<1>19. ASSUME NEW p \in PR, BM!GitHubQueues(p)
      PROVE  bmMine(x)'
  BY <1>1, <1>19
  DEF BM!GitHubQueues, BM!unchangedMerging, bmMine, bmAtHand, BM!Member,
      BM!Merged
<1>20. ASSUME NEW p \in PR, BM!QueueLands(p)
      PROVE  bmMine(x)'
  BY <1>1, <1>20
  DEF BM!QueueLands, BM!Lands, BM!Grows, BM!Early, bmMine, bmAtHand, BM!Member,
      BM!Merged
<1>21. ASSUME BM!GitHubRefuses
      PROVE  bmMine(x)'
  BY <1>1, <1>21
  DEF BM!GitHubRefuses, BM!unchangedMerging, bmMine, bmAtHand, BM!Member,
      BM!Merged
<1>22. ASSUME BM!Abort
      PROVE  bmMine(x)'
  BY <1>1, <1>22 DEF BM!Abort, bmMine, bmAtHand, BM!Member, BM!Merged
<1>23. ASSUME BM!Outside
      PROVE  bmMine(x)'
  BY <1>1, <1>23
  DEF BM!Outside, BM!Lands, BM!Grows, BM!Early, bmMine, bmAtHand, BM!Member,
      BM!Merged
<1>24. CASE UNCHANGED bmVars
  BY <1>1, <1>24 DEF bmVars, bmOnly, bmMine, bmAtHand, BM!Member, BM!Merged
<1> QED
  BY <1>2, <1>3, <1>4, <1>5, <1>6, <1>7, <1>8, <1>9, <1>10, <1>11, <1>12, <1>13,
     <1>14, <1>15, <1>16, <1>17, <1>18, <1>19, <1>20, <1>21, <1>22, <1>23, <1>24
  DEF BM!Next, BM!BatchStep, BM!Merging, BM!GitHub

(* What is queued is what the batch called for.                            *)
LEMMA BatchQueued ==
  ASSUME ServersAssumption, bmInv, BM!Next \/ UNCHANGED bmVars, NEW x \in queued' \ queued
  PROVE  bmAtHand(x)'
<1> USE DEF BM!reading, BM!batchVars, BM!remoteVars, BM!suiteVars, BM!Stop
<1>1. bmRemoteType
  BY DEF bmInv, bmTypes
<1>2. ASSUME BM!ReadPullRequest
      PROVE  bmAtHand(x)'
  BY <1>1, <1>2
  DEF BM!ReadPullRequest, BM!unread, bmAtHand, BM!Member, BM!Merged, BM!Lands
<1>3. ASSUME BM!ReadBase
      PROVE  bmAtHand(x)'
  BY <1>1, <1>3 DEF BM!ReadBase, BM!unread, bmAtHand, BM!Member, BM!Merged, BM!Lands
<1>4. ASSUME BM!FetchHeads
      PROVE  bmAtHand(x)'
  BY <1>1, <1>4
  DEF BM!FetchHeads, BM!unread, bmAtHand, BM!Member, BM!Merged, BM!Lands
<1>5. ASSUME BM!Vet
      PROVE  bmAtHand(x)'
  BY <1>1, <1>5 DEF BM!Vet, BM!unread, bmAtHand, BM!Member, BM!Merged, BM!Lands
<1>6. ASSUME BM!ProveWhole
      PROVE  bmAtHand(x)'
  BY <1>1, <1>6
  DEF BM!ProveWhole, BM!Verdict, BM!Adopt, bmAtHand, BM!Member, BM!Merged,
      BM!Lands
<1>7. ASSUME BM!ProveHalf
      PROVE  bmAtHand(x)'
  BY <1>1, <1>7
  DEF BM!ProveHalf, BM!Verdict, bmAtHand, BM!Member, BM!Merged, BM!Lands
<1>8. ASSUME BM!Return
      PROVE  bmAtHand(x)'
  BY <1>1, <1>8 DEF BM!Return, bmAtHand, BM!Member, BM!Merged, BM!Lands
<1>9. ASSUME BM!Conclude
      PROVE  bmAtHand(x)'
  BY <1>1, <1>9 DEF BM!Conclude, bmAtHand, BM!Member, BM!Merged, BM!Lands
<1>10. ASSUME BM!ProveFinal
      PROVE  bmAtHand(x)'
  BY <1>1, <1>10
  DEF BM!ProveFinal, BM!Verdict, BM!Adopt, bmAtHand, BM!Member, BM!Merged,
      BM!Lands
<1>11. ASSUME BM!Fails
      PROVE  bmAtHand(x)'
  BY <1>1, <1>11 DEF BM!Fails, bmAtHand, BM!Member, BM!Merged, BM!Lands
<1>12. ASSUME BM!ReadLanded
      PROVE  bmAtHand(x)'
  BY <1>1, <1>12
  DEF BM!ReadLanded, BM!unchangedMerging, bmAtHand, BM!Member, BM!Merged,
      BM!Lands
<1>13. ASSUME BM!Finish
      PROVE  bmAtHand(x)'
  BY <1>1, <1>13
  DEF BM!Finish, BM!unchangedMerging, bmAtHand, BM!Member, BM!Merged, BM!Lands
<1>14. ASSUME NEW p \in PR, BM!Recheck(p)
      PROVE  bmAtHand(x)'
  BY <1>1, <1>14
  DEF BM!Recheck, BM!unchangedMerging, bmAtHand, BM!Member, BM!Merged, BM!Lands
<1>15. ASSUME NEW p \in PR, BM!ReadTarget(p)
      PROVE  bmAtHand(x)'
  BY <1>1, <1>15
  DEF BM!ReadTarget, BM!unchangedMerging, bmAtHand, BM!Member, BM!Merged,
      BM!Lands
<1>16. ASSUME NEW p \in PR, BM!CallMerge(p)
      PROVE  bmAtHand(x)'
  BY <1>1, <1>16
  DEF BM!CallMerge, BM!unchangedMerging, bmAtHand, BM!Member, BM!Merged, BM!Lands
<1>17. ASSUME NEW p \in PR, BM!Look(p)
      PROVE  bmAtHand(x)'
  BY <1>1, <1>17
  DEF BM!Look, BM!unchangedMerging, bmAtHand, BM!Member, BM!Merged, BM!Lands
<1>18. ASSUME NEW p \in PR, BM!GitHubMerges(p)
      PROVE  bmAtHand(x)'
  BY <1>1, <1>18
  DEF BM!GitHubMerges, BM!Lands, BM!Grows, BM!Early, BM!unchangedMerging,
      bmAtHand, BM!Member, BM!Merged, BM!Lands
<1>19. ASSUME NEW p \in PR, BM!GitHubQueues(p)
      PROVE  bmAtHand(x)'
  BY <1>1, <1>19
  DEF BM!GitHubQueues, BM!unchangedMerging, bmAtHand, BM!Member, BM!Merged,
      BM!Lands
<1>20. ASSUME NEW p \in PR, BM!QueueLands(p)
      PROVE  bmAtHand(x)'
  BY <1>1, <1>20
  DEF BM!QueueLands, BM!Lands, BM!Grows, BM!Early, bmAtHand, BM!Member,
      BM!Merged, BM!Lands
<1>21. ASSUME BM!GitHubRefuses
      PROVE  bmAtHand(x)'
  BY <1>1, <1>21
  DEF BM!GitHubRefuses, BM!unchangedMerging, bmAtHand, BM!Member, BM!Merged,
      BM!Lands
<1>22. ASSUME BM!Abort
      PROVE  bmAtHand(x)'
  BY <1>1, <1>22 DEF BM!Abort, bmAtHand, BM!Member, BM!Merged, BM!Lands
<1>23. ASSUME BM!Outside
      PROVE  bmAtHand(x)'
  BY <1>1, <1>23
  DEF BM!Outside, BM!Lands, BM!Grows, BM!Early, bmAtHand, BM!Member, BM!Merged,
      BM!Lands
<1>24. CASE UNCHANGED bmVars
  BY <1>1, <1>24 DEF bmVars, bmOnly, bmAtHand, BM!Member, BM!Merged, BM!Lands
<1> QED
  BY <1>2, <1>3, <1>4, <1>5, <1>6, <1>7, <1>8, <1>9, <1>10, <1>11, <1>12, <1>13,
     <1>14, <1>15, <1>16, <1>17, <1>18, <1>19, <1>20, <1>21, <1>22, <1>23, <1>24
  DEF BM!Next, BM!BatchStep, BM!Merging, BM!GitHub

(* Every step keeps what the batch caused.                                 *)
LEMMA BatchCaused ==
  ASSUME ServersAssumption, bmInv, BM!Next \/ UNCHANGED bmVars
  PROVE  bmCaused'
<1>1. /\ \A k \in BM!Ours : bmMine(target[k].pr)
      /\ \A x \in queued : bmMine(x)
      /\ BM!Ours = {k \in DOMAIN target : target[k].ours}
  BY DEF bmInv, bmCaused, bmMine, BM!Ours
<1>2. \A x : bmMine(x) => bmMine(x)'
  <2> TAKE x
  <2>1. CASE bmMine(x)
    BY <2>1, BatchMine
  <2> QED
    BY <2>1
<1>3. \A x \in queued' : bmMine(x)'
  <2>1. ASSUME NEW x \in queued', x \notin queued
        PROVE  bmMine(x)'
    BY <2>1, BatchQueued DEF bmMine
  <2> QED
    BY <1>1, <1>2, <2>1
<1>4. ASSUME NEW k \in BM!Ours', NEW y, y = target'[k].pr
      PROVE  bmMine(y)'
  <2>1. k \in DOMAIN target' /\ target'[k].ours
    BY DEF BM!Ours
  <2>2. CASE bmStill
    BY <1>1, <1>2, <1>4, <2>1, <2>2 DEF bmStill
  <2>3. CASE bmPushed
    <3>1. k \in DOMAIN target /\ target'[k] = target[k]
      BY <2>1, <2>3 DEF bmPushed, bmOnTop
    <3> QED
      BY <1>1, <1>2, <1>4, <2>1, <3>1
  <2>4. ASSUME NEW p \in PR, NEW b \in BOOLEAN, NEW x \in {p, Other}, bmArrives(p, x, b)
        PROVE  bmMine(y)'
    <3>1. CASE k \in DOMAIN target
      <4>1. target'[k] = target[k]
        BY <2>4, <3>1 DEF bmArrives, bmOnTop
      <4> QED
        BY <1>1, <1>2, <1>4, <2>1, <3>1, <4>1
    <3>2. CASE k \notin DOMAIN target
      <4>1. y = p /\ target'[k].ours = b
        <5>1. k = Len(target) + 1
          BY <2>1, <2>4, <3>2 DEF bmArrives, bmOnTop
        <5>2. target'[k].pr = x /\ target'[k].ours = b /\ (b => x = p)
          BY <2>4, <5>1 DEF bmArrives, bmOnTop
        <5> QED
          BY <1>4, <2>1, <5>2
      <4>2. (pc' = "look" /\ BM!Member(p) /\ merged' = merged /\ proven' = proven) \/ p \in queued
        BY <2>1, <2>4, <4>1 DEF bmArrives, bmBy
      <4>3. CASE pc' = "look" /\ BM!Member(p) /\ merged' = merged /\ proven' = proven
        BY <4>1, <4>3 DEF bmMine, bmAtHand, BM!Member, BM!Merged
      <4> QED
        BY <1>1, <1>2, <4>1, <4>2, <4>3
    <3> QED
      BY <3>1, <3>2
  <2> QED
    BY <2>2, <2>3, <2>4, BatchRemote DEF bmRemote
<1>5. \A k \in BM!Ours' : \E y : y = target'[k].pr /\ bmMine(y)'
  BY <1>4
<1> QED
  BY <1>3, <1>5 DEF bmCaused, bmMine

(* When the batch turns away from a look or an end.                        *)
bmTurns == pc = "landed" /\ BM!Content(target) = merged /\ target' = target /\ merged' = merged

(* It leaves a merge only when the target is as it must be, or stops there. *)
LEMMA BatchTurns ==
  ASSUME ServersAssumption, bmInv, BM!Next \/ UNCHANGED bmVars
  PROVE  /\ pc \in {"look", "landed", "stopped"} /\ pc' \notin {"look", "landed", "stopped"} => bmTurns
         /\ pc = "landed" => pc' = "landed" \/ (pc' = "stopped" /\ stopped' = BM!LastMember) \/ bmTurns
         /\ pc = "stopped" => pc' = "stopped" /\ stopped' = stopped
<1> USE DEF BM!reading, BM!batchVars, BM!remoteVars, BM!suiteVars, BM!Stop
<1>1. bmReadType
  BY DEF bmInv, bmTypes
<1>2. ASSUME BM!ReadPullRequest
      PROVE  /\ pc \in {"look", "landed", "stopped"} /\ pc' \notin {"look", "landed", "stopped"} => bmTurns
             /\ pc = "landed" => pc' = "landed" \/ (pc' = "stopped" /\ stopped' = BM!LastMember) \/ bmTurns
             /\ pc = "stopped" => pc' = "stopped" /\ stopped' = stopped
  <2>1. pc \in {"look", "landed", "stopped"} /\ pc' \notin {"look", "landed", "stopped"} => bmTurns
    BY <1>1, <1>2 DEF BM!ReadPullRequest, BM!unread, bmTurns, bmEarly
  <2>2. pc = "landed" => pc' = "landed" \/ (pc' = "stopped" /\ stopped' = BM!LastMember) \/ bmTurns
    BY <1>1, <1>2 DEF BM!ReadPullRequest, BM!unread, bmTurns, bmEarly
  <2>3. pc = "stopped" => pc' = "stopped" /\ stopped' = stopped
    BY <1>1, <1>2 DEF BM!ReadPullRequest, BM!unread, bmEarly
  <2> QED
    BY <2>1, <2>2, <2>3
<1>3. ASSUME BM!ReadBase
      PROVE  /\ pc \in {"look", "landed", "stopped"} /\ pc' \notin {"look", "landed", "stopped"} => bmTurns
             /\ pc = "landed" => pc' = "landed" \/ (pc' = "stopped" /\ stopped' = BM!LastMember) \/ bmTurns
             /\ pc = "stopped" => pc' = "stopped" /\ stopped' = stopped
  <2>1. pc \in {"look", "landed", "stopped"} /\ pc' \notin {"look", "landed", "stopped"} => bmTurns
    BY <1>1, <1>3 DEF BM!ReadBase, BM!unread, bmTurns, bmEarly
  <2>2. pc = "landed" => pc' = "landed" \/ (pc' = "stopped" /\ stopped' = BM!LastMember) \/ bmTurns
    BY <1>1, <1>3 DEF BM!ReadBase, BM!unread, bmTurns, bmEarly
  <2>3. pc = "stopped" => pc' = "stopped" /\ stopped' = stopped
    BY <1>1, <1>3 DEF BM!ReadBase, BM!unread, bmEarly
  <2> QED
    BY <2>1, <2>2, <2>3
<1>4. ASSUME BM!FetchHeads
      PROVE  /\ pc \in {"look", "landed", "stopped"} /\ pc' \notin {"look", "landed", "stopped"} => bmTurns
             /\ pc = "landed" => pc' = "landed" \/ (pc' = "stopped" /\ stopped' = BM!LastMember) \/ bmTurns
             /\ pc = "stopped" => pc' = "stopped" /\ stopped' = stopped
  <2>1. pc \in {"look", "landed", "stopped"} /\ pc' \notin {"look", "landed", "stopped"} => bmTurns
    BY <1>1, <1>4 DEF BM!FetchHeads, BM!unread, bmTurns, bmEarly
  <2>2. pc = "landed" => pc' = "landed" \/ (pc' = "stopped" /\ stopped' = BM!LastMember) \/ bmTurns
    BY <1>1, <1>4 DEF BM!FetchHeads, BM!unread, bmTurns, bmEarly
  <2>3. pc = "stopped" => pc' = "stopped" /\ stopped' = stopped
    BY <1>1, <1>4 DEF BM!FetchHeads, BM!unread, bmEarly
  <2> QED
    BY <2>1, <2>2, <2>3
<1>5. ASSUME BM!Vet
      PROVE  /\ pc \in {"look", "landed", "stopped"} /\ pc' \notin {"look", "landed", "stopped"} => bmTurns
             /\ pc = "landed" => pc' = "landed" \/ (pc' = "stopped" /\ stopped' = BM!LastMember) \/ bmTurns
             /\ pc = "stopped" => pc' = "stopped" /\ stopped' = stopped
  <2>1. pc \in {"look", "landed", "stopped"} /\ pc' \notin {"look", "landed", "stopped"} => bmTurns
    BY <1>1, <1>5 DEF BM!Vet, BM!unread, bmTurns, bmEarly
  <2>2. pc = "landed" => pc' = "landed" \/ (pc' = "stopped" /\ stopped' = BM!LastMember) \/ bmTurns
    BY <1>1, <1>5 DEF BM!Vet, BM!unread, bmTurns, bmEarly
  <2>3. pc = "stopped" => pc' = "stopped" /\ stopped' = stopped
    BY <1>1, <1>5 DEF BM!Vet, BM!unread, bmEarly
  <2> QED
    BY <2>1, <2>2, <2>3
<1>6. ASSUME BM!ProveWhole
      PROVE  /\ pc \in {"look", "landed", "stopped"} /\ pc' \notin {"look", "landed", "stopped"} => bmTurns
             /\ pc = "landed" => pc' = "landed" \/ (pc' = "stopped" /\ stopped' = BM!LastMember) \/ bmTurns
             /\ pc = "stopped" => pc' = "stopped" /\ stopped' = stopped
  <2>1. pc \in {"look", "landed", "stopped"} /\ pc' \notin {"look", "landed", "stopped"} => bmTurns
    BY <1>1, <1>6 DEF BM!ProveWhole, BM!Verdict, BM!Adopt, bmTurns, bmEarly
  <2>2. pc = "landed" => pc' = "landed" \/ (pc' = "stopped" /\ stopped' = BM!LastMember) \/ bmTurns
    BY <1>1, <1>6 DEF BM!ProveWhole, BM!Verdict, BM!Adopt, bmTurns, bmEarly
  <2>3. pc = "stopped" => pc' = "stopped" /\ stopped' = stopped
    BY <1>1, <1>6 DEF BM!ProveWhole, BM!Verdict, BM!Adopt, bmEarly
  <2> QED
    BY <2>1, <2>2, <2>3
<1>7. ASSUME BM!ProveHalf
      PROVE  /\ pc \in {"look", "landed", "stopped"} /\ pc' \notin {"look", "landed", "stopped"} => bmTurns
             /\ pc = "landed" => pc' = "landed" \/ (pc' = "stopped" /\ stopped' = BM!LastMember) \/ bmTurns
             /\ pc = "stopped" => pc' = "stopped" /\ stopped' = stopped
  <2>1. pc \in {"look", "landed", "stopped"} /\ pc' \notin {"look", "landed", "stopped"} => bmTurns
    BY <1>1, <1>7 DEF BM!ProveHalf, BM!Verdict, bmTurns, bmEarly
  <2>2. pc = "landed" => pc' = "landed" \/ (pc' = "stopped" /\ stopped' = BM!LastMember) \/ bmTurns
    BY <1>1, <1>7 DEF BM!ProveHalf, BM!Verdict, bmTurns, bmEarly
  <2>3. pc = "stopped" => pc' = "stopped" /\ stopped' = stopped
    BY <1>1, <1>7 DEF BM!ProveHalf, BM!Verdict, bmEarly
  <2> QED
    BY <2>1, <2>2, <2>3
<1>8. ASSUME BM!Return
      PROVE  /\ pc \in {"look", "landed", "stopped"} /\ pc' \notin {"look", "landed", "stopped"} => bmTurns
             /\ pc = "landed" => pc' = "landed" \/ (pc' = "stopped" /\ stopped' = BM!LastMember) \/ bmTurns
             /\ pc = "stopped" => pc' = "stopped" /\ stopped' = stopped
  <2>1. pc \in {"look", "landed", "stopped"} /\ pc' \notin {"look", "landed", "stopped"} => bmTurns
    BY <1>1, <1>8 DEF BM!Return, bmTurns, bmEarly
  <2>2. pc = "landed" => pc' = "landed" \/ (pc' = "stopped" /\ stopped' = BM!LastMember) \/ bmTurns
    BY <1>1, <1>8 DEF BM!Return, bmTurns, bmEarly
  <2>3. pc = "stopped" => pc' = "stopped" /\ stopped' = stopped
    BY <1>1, <1>8 DEF BM!Return, bmEarly
  <2> QED
    BY <2>1, <2>2, <2>3
<1>9. ASSUME BM!Conclude
      PROVE  /\ pc \in {"look", "landed", "stopped"} /\ pc' \notin {"look", "landed", "stopped"} => bmTurns
             /\ pc = "landed" => pc' = "landed" \/ (pc' = "stopped" /\ stopped' = BM!LastMember) \/ bmTurns
             /\ pc = "stopped" => pc' = "stopped" /\ stopped' = stopped
  <2>1. pc \in {"look", "landed", "stopped"} /\ pc' \notin {"look", "landed", "stopped"} => bmTurns
    BY <1>1, <1>9 DEF BM!Conclude, bmTurns, bmEarly
  <2>2. pc = "landed" => pc' = "landed" \/ (pc' = "stopped" /\ stopped' = BM!LastMember) \/ bmTurns
    BY <1>1, <1>9 DEF BM!Conclude, bmTurns, bmEarly
  <2>3. pc = "stopped" => pc' = "stopped" /\ stopped' = stopped
    BY <1>1, <1>9 DEF BM!Conclude, bmEarly
  <2> QED
    BY <2>1, <2>2, <2>3
<1>10. ASSUME BM!ProveFinal
      PROVE  /\ pc \in {"look", "landed", "stopped"} /\ pc' \notin {"look", "landed", "stopped"} => bmTurns
             /\ pc = "landed" => pc' = "landed" \/ (pc' = "stopped" /\ stopped' = BM!LastMember) \/ bmTurns
             /\ pc = "stopped" => pc' = "stopped" /\ stopped' = stopped
  <2>1. pc \in {"look", "landed", "stopped"} /\ pc' \notin {"look", "landed", "stopped"} => bmTurns
    BY <1>1, <1>10 DEF BM!ProveFinal, BM!Verdict, BM!Adopt, bmTurns, bmEarly
  <2>2. pc = "landed" => pc' = "landed" \/ (pc' = "stopped" /\ stopped' = BM!LastMember) \/ bmTurns
    BY <1>1, <1>10 DEF BM!ProveFinal, BM!Verdict, BM!Adopt, bmTurns, bmEarly
  <2>3. pc = "stopped" => pc' = "stopped" /\ stopped' = stopped
    BY <1>1, <1>10 DEF BM!ProveFinal, BM!Verdict, BM!Adopt, bmEarly
  <2> QED
    BY <2>1, <2>2, <2>3
<1>11. ASSUME BM!Fails
      PROVE  /\ pc \in {"look", "landed", "stopped"} /\ pc' \notin {"look", "landed", "stopped"} => bmTurns
             /\ pc = "landed" => pc' = "landed" \/ (pc' = "stopped" /\ stopped' = BM!LastMember) \/ bmTurns
             /\ pc = "stopped" => pc' = "stopped" /\ stopped' = stopped
  <2>1. pc \in {"look", "landed", "stopped"} /\ pc' \notin {"look", "landed", "stopped"} => bmTurns
    BY <1>1, <1>11 DEF BM!Fails, bmTurns, bmEarly
  <2>2. pc = "landed" => pc' = "landed" \/ (pc' = "stopped" /\ stopped' = BM!LastMember) \/ bmTurns
    BY <1>1, <1>11 DEF BM!Fails, bmTurns, bmEarly
  <2>3. pc = "stopped" => pc' = "stopped" /\ stopped' = stopped
    BY <1>1, <1>11 DEF BM!Fails, bmEarly
  <2> QED
    BY <2>1, <2>2, <2>3
<1>12. ASSUME BM!ReadLanded
      PROVE  /\ pc \in {"look", "landed", "stopped"} /\ pc' \notin {"look", "landed", "stopped"} => bmTurns
             /\ pc = "landed" => pc' = "landed" \/ (pc' = "stopped" /\ stopped' = BM!LastMember) \/ bmTurns
             /\ pc = "stopped" => pc' = "stopped" /\ stopped' = stopped
  <2>1. pc \in {"look", "landed", "stopped"} /\ pc' \notin {"look", "landed", "stopped"} => bmTurns
    BY <1>1, <1>12 DEF BM!ReadLanded, BM!unchangedMerging, bmTurns, bmEarly
  <2>2. pc = "landed" => pc' = "landed" \/ (pc' = "stopped" /\ stopped' = BM!LastMember) \/ bmTurns
    BY <1>1, <1>12 DEF BM!ReadLanded, BM!unchangedMerging, bmTurns, bmEarly
  <2>3. pc = "stopped" => pc' = "stopped" /\ stopped' = stopped
    BY <1>1, <1>12 DEF BM!ReadLanded, BM!unchangedMerging, bmEarly
  <2> QED
    BY <2>1, <2>2, <2>3
<1>13. ASSUME BM!Finish
      PROVE  /\ pc \in {"look", "landed", "stopped"} /\ pc' \notin {"look", "landed", "stopped"} => bmTurns
             /\ pc = "landed" => pc' = "landed" \/ (pc' = "stopped" /\ stopped' = BM!LastMember) \/ bmTurns
             /\ pc = "stopped" => pc' = "stopped" /\ stopped' = stopped
  <2>1. pc \in {"look", "landed", "stopped"} /\ pc' \notin {"look", "landed", "stopped"} => bmTurns
    BY <1>1, <1>13 DEF BM!Finish, BM!unchangedMerging, bmTurns, bmEarly
  <2>2. pc = "landed" => pc' = "landed" \/ (pc' = "stopped" /\ stopped' = BM!LastMember) \/ bmTurns
    BY <1>1, <1>13 DEF BM!Finish, BM!unchangedMerging, bmTurns, bmEarly
  <2>3. pc = "stopped" => pc' = "stopped" /\ stopped' = stopped
    BY <1>1, <1>13 DEF BM!Finish, BM!unchangedMerging, bmEarly
  <2> QED
    BY <2>1, <2>2, <2>3
<1>14. ASSUME NEW p \in PR, BM!Recheck(p)
      PROVE  /\ pc \in {"look", "landed", "stopped"} /\ pc' \notin {"look", "landed", "stopped"} => bmTurns
             /\ pc = "landed" => pc' = "landed" \/ (pc' = "stopped" /\ stopped' = BM!LastMember) \/ bmTurns
             /\ pc = "stopped" => pc' = "stopped" /\ stopped' = stopped
  <2>1. pc \in {"look", "landed", "stopped"} /\ pc' \notin {"look", "landed", "stopped"} => bmTurns
    BY <1>1, <1>14 DEF BM!Recheck, BM!unchangedMerging, bmTurns, bmEarly
  <2>2. pc = "landed" => pc' = "landed" \/ (pc' = "stopped" /\ stopped' = BM!LastMember) \/ bmTurns
    BY <1>1, <1>14 DEF BM!Recheck, BM!unchangedMerging, bmTurns, bmEarly
  <2>3. pc = "stopped" => pc' = "stopped" /\ stopped' = stopped
    BY <1>1, <1>14 DEF BM!Recheck, BM!unchangedMerging, bmEarly
  <2> QED
    BY <2>1, <2>2, <2>3
<1>15. ASSUME NEW p \in PR, BM!ReadTarget(p)
      PROVE  /\ pc \in {"look", "landed", "stopped"} /\ pc' \notin {"look", "landed", "stopped"} => bmTurns
             /\ pc = "landed" => pc' = "landed" \/ (pc' = "stopped" /\ stopped' = BM!LastMember) \/ bmTurns
             /\ pc = "stopped" => pc' = "stopped" /\ stopped' = stopped
  <2>1. pc \in {"look", "landed", "stopped"} /\ pc' \notin {"look", "landed", "stopped"} => bmTurns
    BY <1>1, <1>15 DEF BM!ReadTarget, BM!unchangedMerging, bmTurns, bmEarly
  <2>2. pc = "landed" => pc' = "landed" \/ (pc' = "stopped" /\ stopped' = BM!LastMember) \/ bmTurns
    BY <1>1, <1>15 DEF BM!ReadTarget, BM!unchangedMerging, bmTurns, bmEarly
  <2>3. pc = "stopped" => pc' = "stopped" /\ stopped' = stopped
    BY <1>1, <1>15 DEF BM!ReadTarget, BM!unchangedMerging, bmEarly
  <2> QED
    BY <2>1, <2>2, <2>3
<1>16. ASSUME NEW p \in PR, BM!CallMerge(p)
      PROVE  /\ pc \in {"look", "landed", "stopped"} /\ pc' \notin {"look", "landed", "stopped"} => bmTurns
             /\ pc = "landed" => pc' = "landed" \/ (pc' = "stopped" /\ stopped' = BM!LastMember) \/ bmTurns
             /\ pc = "stopped" => pc' = "stopped" /\ stopped' = stopped
  <2>1. pc \in {"look", "landed", "stopped"} /\ pc' \notin {"look", "landed", "stopped"} => bmTurns
    BY <1>1, <1>16 DEF BM!CallMerge, BM!unchangedMerging, bmTurns, bmEarly
  <2>2. pc = "landed" => pc' = "landed" \/ (pc' = "stopped" /\ stopped' = BM!LastMember) \/ bmTurns
    BY <1>1, <1>16 DEF BM!CallMerge, BM!unchangedMerging, bmTurns, bmEarly
  <2>3. pc = "stopped" => pc' = "stopped" /\ stopped' = stopped
    BY <1>1, <1>16 DEF BM!CallMerge, BM!unchangedMerging, bmEarly
  <2> QED
    BY <2>1, <2>2, <2>3
<1>17. ASSUME NEW p \in PR, BM!Look(p)
      PROVE  /\ pc \in {"look", "landed", "stopped"} /\ pc' \notin {"look", "landed", "stopped"} => bmTurns
             /\ pc = "landed" => pc' = "landed" \/ (pc' = "stopped" /\ stopped' = BM!LastMember) \/ bmTurns
             /\ pc = "stopped" => pc' = "stopped" /\ stopped' = stopped
  <2>1. pc \in {"look", "landed", "stopped"} /\ pc' \notin {"look", "landed", "stopped"} => bmTurns
    BY <1>1, <1>17 DEF BM!Look, BM!unchangedMerging, bmTurns, bmEarly
  <2>2. pc = "landed" => pc' = "landed" \/ (pc' = "stopped" /\ stopped' = BM!LastMember) \/ bmTurns
    BY <1>1, <1>17 DEF BM!Look, BM!unchangedMerging, bmTurns, bmEarly
  <2>3. pc = "stopped" => pc' = "stopped" /\ stopped' = stopped
    BY <1>1, <1>17 DEF BM!Look, BM!unchangedMerging, bmEarly
  <2> QED
    BY <2>1, <2>2, <2>3
<1>18. ASSUME NEW p \in PR, BM!GitHubMerges(p)
      PROVE  /\ pc \in {"look", "landed", "stopped"} /\ pc' \notin {"look", "landed", "stopped"} => bmTurns
             /\ pc = "landed" => pc' = "landed" \/ (pc' = "stopped" /\ stopped' = BM!LastMember) \/ bmTurns
             /\ pc = "stopped" => pc' = "stopped" /\ stopped' = stopped
  <2>1. pc \in {"look", "landed", "stopped"} /\ pc' \notin {"look", "landed", "stopped"} => bmTurns
    BY <1>1, <1>18
    DEF BM!GitHubMerges, BM!Lands, BM!Grows, BM!Early, BM!unchangedMerging,
        bmTurns, bmEarly
  <2>2. pc = "landed" => pc' = "landed" \/ (pc' = "stopped" /\ stopped' = BM!LastMember) \/ bmTurns
    BY <1>1, <1>18
    DEF BM!GitHubMerges, BM!Lands, BM!Grows, BM!Early, BM!unchangedMerging,
        bmTurns, bmEarly
  <2>3. pc = "stopped" => pc' = "stopped" /\ stopped' = stopped
    BY <1>1, <1>18
    DEF BM!GitHubMerges, BM!Lands, BM!Grows, BM!Early, BM!unchangedMerging,
        bmEarly
  <2> QED
    BY <2>1, <2>2, <2>3
<1>19. ASSUME NEW p \in PR, BM!GitHubQueues(p)
      PROVE  /\ pc \in {"look", "landed", "stopped"} /\ pc' \notin {"look", "landed", "stopped"} => bmTurns
             /\ pc = "landed" => pc' = "landed" \/ (pc' = "stopped" /\ stopped' = BM!LastMember) \/ bmTurns
             /\ pc = "stopped" => pc' = "stopped" /\ stopped' = stopped
  <2>1. pc \in {"look", "landed", "stopped"} /\ pc' \notin {"look", "landed", "stopped"} => bmTurns
    BY <1>1, <1>19 DEF BM!GitHubQueues, BM!unchangedMerging, bmTurns, bmEarly
  <2>2. pc = "landed" => pc' = "landed" \/ (pc' = "stopped" /\ stopped' = BM!LastMember) \/ bmTurns
    BY <1>1, <1>19 DEF BM!GitHubQueues, BM!unchangedMerging, bmTurns, bmEarly
  <2>3. pc = "stopped" => pc' = "stopped" /\ stopped' = stopped
    BY <1>1, <1>19 DEF BM!GitHubQueues, BM!unchangedMerging, bmEarly
  <2> QED
    BY <2>1, <2>2, <2>3
<1>20. ASSUME NEW p \in PR, BM!QueueLands(p)
      PROVE  /\ pc \in {"look", "landed", "stopped"} /\ pc' \notin {"look", "landed", "stopped"} => bmTurns
             /\ pc = "landed" => pc' = "landed" \/ (pc' = "stopped" /\ stopped' = BM!LastMember) \/ bmTurns
             /\ pc = "stopped" => pc' = "stopped" /\ stopped' = stopped
  <2>1. pc \in {"look", "landed", "stopped"} /\ pc' \notin {"look", "landed", "stopped"} => bmTurns
    BY <1>1, <1>20 DEF BM!QueueLands, BM!Lands, BM!Grows, BM!Early, bmTurns, bmEarly
  <2>2. pc = "landed" => pc' = "landed" \/ (pc' = "stopped" /\ stopped' = BM!LastMember) \/ bmTurns
    BY <1>1, <1>20 DEF BM!QueueLands, BM!Lands, BM!Grows, BM!Early, bmTurns, bmEarly
  <2>3. pc = "stopped" => pc' = "stopped" /\ stopped' = stopped
    BY <1>1, <1>20 DEF BM!QueueLands, BM!Lands, BM!Grows, BM!Early, bmEarly
  <2> QED
    BY <2>1, <2>2, <2>3
<1>21. ASSUME BM!GitHubRefuses
      PROVE  /\ pc \in {"look", "landed", "stopped"} /\ pc' \notin {"look", "landed", "stopped"} => bmTurns
             /\ pc = "landed" => pc' = "landed" \/ (pc' = "stopped" /\ stopped' = BM!LastMember) \/ bmTurns
             /\ pc = "stopped" => pc' = "stopped" /\ stopped' = stopped
  <2>1. pc \in {"look", "landed", "stopped"} /\ pc' \notin {"look", "landed", "stopped"} => bmTurns
    BY <1>1, <1>21 DEF BM!GitHubRefuses, BM!unchangedMerging, bmTurns, bmEarly
  <2>2. pc = "landed" => pc' = "landed" \/ (pc' = "stopped" /\ stopped' = BM!LastMember) \/ bmTurns
    BY <1>1, <1>21 DEF BM!GitHubRefuses, BM!unchangedMerging, bmTurns, bmEarly
  <2>3. pc = "stopped" => pc' = "stopped" /\ stopped' = stopped
    BY <1>1, <1>21 DEF BM!GitHubRefuses, BM!unchangedMerging, bmEarly
  <2> QED
    BY <2>1, <2>2, <2>3
<1>22. ASSUME BM!Abort
      PROVE  /\ pc \in {"look", "landed", "stopped"} /\ pc' \notin {"look", "landed", "stopped"} => bmTurns
             /\ pc = "landed" => pc' = "landed" \/ (pc' = "stopped" /\ stopped' = BM!LastMember) \/ bmTurns
             /\ pc = "stopped" => pc' = "stopped" /\ stopped' = stopped
  <2>1. pc \in {"look", "landed", "stopped"} /\ pc' \notin {"look", "landed", "stopped"} => bmTurns
    BY <1>1, <1>22 DEF BM!Abort, bmTurns, bmEarly
  <2>2. pc = "landed" => pc' = "landed" \/ (pc' = "stopped" /\ stopped' = BM!LastMember) \/ bmTurns
    BY <1>1, <1>22 DEF BM!Abort, bmTurns, bmEarly
  <2>3. pc = "stopped" => pc' = "stopped" /\ stopped' = stopped
    BY <1>1, <1>22 DEF BM!Abort, bmEarly
  <2> QED
    BY <2>1, <2>2, <2>3
<1>23. ASSUME BM!Outside
      PROVE  /\ pc \in {"look", "landed", "stopped"} /\ pc' \notin {"look", "landed", "stopped"} => bmTurns
             /\ pc = "landed" => pc' = "landed" \/ (pc' = "stopped" /\ stopped' = BM!LastMember) \/ bmTurns
             /\ pc = "stopped" => pc' = "stopped" /\ stopped' = stopped
  <2>1. pc \in {"look", "landed", "stopped"} /\ pc' \notin {"look", "landed", "stopped"} => bmTurns
    BY <1>1, <1>23 DEF BM!Outside, BM!Lands, BM!Grows, BM!Early, bmTurns, bmEarly
  <2>2. pc = "landed" => pc' = "landed" \/ (pc' = "stopped" /\ stopped' = BM!LastMember) \/ bmTurns
    BY <1>1, <1>23 DEF BM!Outside, BM!Lands, BM!Grows, BM!Early, bmTurns, bmEarly
  <2>3. pc = "stopped" => pc' = "stopped" /\ stopped' = stopped
    BY <1>1, <1>23 DEF BM!Outside, BM!Lands, BM!Grows, BM!Early, bmEarly
  <2> QED
    BY <2>1, <2>2, <2>3
<1>24. CASE UNCHANGED bmVars
  <2>1. pc \in {"look", "landed", "stopped"} /\ pc' \notin {"look", "landed", "stopped"} => bmTurns
    BY <1>1, <1>24 DEF bmVars, bmOnly, bmTurns, bmEarly
  <2>2. pc = "landed" => pc' = "landed" \/ (pc' = "stopped" /\ stopped' = BM!LastMember) \/ bmTurns
    BY <1>1, <1>24 DEF bmVars, bmOnly, bmTurns, bmEarly
  <2>3. pc = "stopped" => pc' = "stopped" /\ stopped' = stopped
    BY <1>1, <1>24 DEF bmVars, bmOnly, bmEarly
  <2> QED
    BY <2>1, <2>2, <2>3
<1> QED
  BY <1>2, <1>3, <1>4, <1>5, <1>6, <1>7, <1>8, <1>9, <1>10, <1>11, <1>12, <1>13,
     <1>14, <1>15, <1>16, <1>17, <1>18, <1>19, <1>20, <1>21, <1>22, <1>23, <1>24
  DEF BM!Next, BM!BatchStep, BM!Merging, BM!GitHub

(* How much of the report the beginning of the target is.                  *)
bmAt(n) ==
  \/ n = Len(merged)
  \/ /\ n = Len(merged) - 1
     /\ pc = "landed" \/ (pc = "stopped" /\ stopped = merged[Len(merged)])

(* The two cases of bmPrefix, with the length they are about.              *)
LEMMA BatchAt ==
  ASSUME bmMergedType
  PROVE  bmPrefix <=> \E n \in 0..Len(merged) : bmSure(n) /\ bmAt(n)
<1>1. Len(merged) \in Nat
  BY DEF bmMergedType
<1>2. ASSUME bmPrefix
      PROVE  \E n \in 0..Len(merged) : bmSure(n) /\ bmAt(n)
  <2>1. CASE bmSure(Len(merged))
    BY <1>1, <2>1 DEF bmAt
  <2>2. CASE ~bmSure(Len(merged))
    <3>1. PICK n : n = Len(merged) - 1
      OBVIOUS
    <3>2. bmSure(n) /\ bmAt(n) /\ Len(merged) > 0
      BY <1>2, <2>2, <3>1 DEF bmPrefix, bmAt
    <3>3. n \in 0..Len(merged)
      BY <1>1, <3>1, <3>2
    <3> QED
      BY <3>2, <3>3
  <2> QED
    BY <2>1, <2>2
<1>3. ASSUME NEW n \in 0..Len(merged), bmSure(n), bmAt(n)
      PROVE  bmPrefix
  <2>1. CASE n = Len(merged)
    BY <1>3, <2>1 DEF bmPrefix
  <2>2. CASE n # Len(merged)
    <3>1. n = Len(merged) - 1 /\ Len(merged) > 0
      BY <1>1, <1>3, <2>2 DEF bmAt
    <3> QED
      BY <1>3, <2>2, <3>1 DEF bmPrefix, bmAt
  <2> QED
    BY <2>1, <2>2
<1> QED
  BY <1>2, <1>3

(* ... after a step.                                                       *)
LEMMA BatchAtNext ==
  ASSUME bmMergedType', NEW n \in 0..Len(merged'), bmSure(n)', bmAt(n)'
  PROVE  bmPrefix'
<1>1. Len(merged') \in Nat
  BY DEF bmMergedType
<1>2. CASE n = Len(merged')
  BY <1>2 DEF bmPrefix
<1>3. CASE n # Len(merged')
  <2>1. n = Len(merged') - 1 /\ Len(merged') > 0
    BY <1>1, <1>3 DEF bmAt
  <2>2. (pc = "landed" \/ (pc = "stopped" /\ stopped = merged[Len(merged)]))'
    BY <1>3 DEF bmAt
  <2>3. bmSure(Len(merged) - 1)'
    BY <2>1
  <2> QED
    BY <2>1, <2>2, <2>3 DEF bmPrefix
<1> QED
  BY <1>2, <1>3

(* The pull request a queue merges is the one at hand, and nothing the     *)
(* batch caused is beyond the report yet.                                  *)
LEMMA BatchQueueLands ==
  ASSUME ServersAssumption, bmInv, NEW n \in 0..Len(merged), bmSure(n), bmAt(n),
         NEW p \in PR, state[p] = "open", p \in queued
  PROVE  /\ pc \in {"look", "stopped"} /\ n = Len(merged)
         /\ \A k \in BM!Ours : k <= n
<1>1. /\ bmCaused /\ bmLanded /\ bmOrder /\ bmLotType /\ bmMergedType
      /\ bmRemoteType /\ DOMAIN target = 1..Len(target) /\ Len(target) \in Nat
      /\ Len(merged) \in Nat /\ DOMAIN merged = 1..Len(merged)
  BY DEF bmInv, bmTypes, bmMergedType, bmRemoteType
<1>2. bmAtHand(p) /\ BM!Member(p)
  BY <1>1 DEF bmCaused, bmLanded, bmAtHand
<1>3. p \notin BM!Merged /\ \A q : BM!Member(q) => q = p
  BY <1>1, <1>2, BatchMember
<1>4. n = Len(merged)
  <2>1. Len(merged) > 0 => merged[Len(merged)] \in BM!Merged
    BY <1>1 DEF BM!Merged
  <2>2. ASSUME n # Len(merged)
        PROVE  FALSE
    <3>0. n = Len(merged) - 1
      BY <2>2 DEF bmAt
    <3>1. n = Len(merged) - 1 /\ Len(merged) > 0
      <4>1. Len(merged) \in Nat
        BY <1>1
      <4> QED
        BY <3>0, <4>1
    <3>2. pc = "landed" \/ (pc = "stopped" /\ stopped = merged[Len(merged)])
      BY <2>2 DEF bmAt
    <3>3. (pc = "look" \/ (pc = "stopped" /\ stopped = p)) /\ merged[Len(merged)] \in BM!Merged
      BY <1>2, <2>1, <3>1 DEF bmAtHand
    <3> QED
      BY <1>3, <3>2, <3>3
  <2> QED
    BY <2>2
<1>5. ASSUME NEW k \in BM!Ours
      PROVE  k <= n
  <2>1. k \in DOMAIN target /\ (target[k].pr \in BM!Merged \/ bmAtHand(target[k].pr))
    BY <1>1 DEF bmCaused, BM!Ours
  <2>2. target[k].pr # p
    BY <1>1, <2>1 DEF bmLanded
  <2>3. target[k].pr \in BM!Merged
    BY <1>3, <2>1, <2>2 DEF bmAtHand
  <2>4. PICK m \in 1..Len(merged) : target[k].pr = merged[m]
    BY <1>1, <2>3 DEF BM!Merged
  <2>5. m \in DOMAIN target /\ target[m].pr = merged[m] /\ target[k].pr \in PR
    BY <1>1, <1>4, <2>3, <2>4 DEF bmSure, bmOrder, bmLotType
  <2>6. k = m
    BY <1>1, <2>1, <2>4, <2>5 DEF bmLanded
  <2> QED
    BY <1>1, <1>4, <2>4, <2>6
<1> QED
  BY <1>2, <1>4, <1>5 DEF bmAtHand

(* What the batch caused beyond the report: one merge at most.             *)
LEMMA BatchSure ==
  ASSUME ServersAssumption, bmInv, BM!Next \/ UNCHANGED bmVars, merged' = merged, ~bmTurns,
         NEW n \in 0..Len(merged), bmSure(n), bmAt(n)
  PROVE  bmSure(n)'
<1>1. /\ bmRemoteType /\ DOMAIN target = 1..Len(target) /\ Len(target) \in Nat
      /\ bmMergedType /\ Len(merged) \in Nat /\ n \in Nat
  BY DEF bmInv, bmTypes, bmMergedType, bmRemoteType
<1>2. /\ n <= Len(target) /\ \A j \in 1..n : target[j].pr = merged[j]
      /\ pc \notin {"look", "landed", "stopped"} => \A k \in BM!Ours : k <= n
      /\ \A j, k \in BM!Ours : j > n /\ k > n => j = k
  BY DEF bmSure
<1>3. pc \in {"look", "landed", "stopped"} => pc' \in {"look", "landed", "stopped"}
  BY BatchTurns
<1>4. ASSUME Len(target') \in Nat, n <= Len(target'), \A j \in 1..n : target'[j].pr = target[j].pr,
             BM!Ours' \subseteq BM!Ours
      PROVE  bmSure(n)'
  <2>1. n <= Len(target') /\ \A j \in 1..n : target'[j].pr = merged'[j]
    BY <1>2, <1>4
  <2>2. pc' \notin {"look", "landed", "stopped"} => \A k \in BM!Ours' : k <= n
    BY <1>2, <1>3, <1>4
  <2>3. \A j, k \in BM!Ours' : j > n /\ k > n => j = k
    BY <1>2, <1>4
  <2> QED
    BY <2>1, <2>2, <2>3 DEF bmSure
<1>5. CASE bmStill
  BY <1>1, <1>2, <1>4, <1>5 DEF bmStill, BM!Ours
<1>6. CASE bmPushed
  <2>1. \A j \in 1..n : target'[j].pr = target[j].pr
    BY <1>1, <1>2, <1>6 DEF bmPushed, bmOnTop
  <2>2. BM!Ours' \subseteq BM!Ours
    BY <1>6 DEF bmPushed, bmOnTop, BM!Ours
  <2>3. Len(target') \in Nat /\ n <= Len(target')
    BY <1>1, <1>2, <1>6 DEF bmPushed, bmOnTop
  <2> QED
    BY <1>4, <2>1, <2>2, <2>3
<1>7. ASSUME NEW p \in PR, NEW b \in BOOLEAN, NEW x \in {p, Other}, bmArrives(p, x, b)
      PROVE  bmSure(n)'
  <2>1. \A j \in 1..n : target'[j].pr = target[j].pr
    BY <1>1, <1>2, <1>7 DEF bmArrives, bmOnTop
  <2>2. Len(target') \in Nat /\ n <= Len(target')
    BY <1>1, <1>2, <1>7 DEF bmArrives, bmOnTop
  <2>3. CASE ~b
    <3>1. BM!Ours' \subseteq BM!Ours
      BY <1>7, <2>3 DEF bmArrives, bmOnTop, BM!Ours
    <3> QED
      BY <1>4, <2>1, <2>2, <3>1
  <2>4. CASE b
    <3>1. pc' \in {"look", "stopped"} /\ \A k \in BM!Ours : k <= n
      <4>1. CASE pc = "called" /\ pc' = "look"
        BY <1>2, <4>1
      <4>2. CASE p \in queued /\ pc' = pc
        <5>1. state[p] = "open"
          BY <1>7 DEF bmArrives
        <5> QED
          BY <4>2, <5>1, BatchQueueLands
      <4> QED
        BY <1>7, <2>4, <4>1, <4>2 DEF bmArrives, bmBy
    <3>2. BM!Ours' \subseteq BM!Ours \cup {Len(target) + 1}
      BY <1>7 DEF bmArrives, bmOnTop, BM!Ours
    <3>3. \A j, k \in BM!Ours' : j > n /\ k > n => j = k
      <4> SUFFICES ASSUME NEW j \in BM!Ours', NEW k \in BM!Ours', j > n, k > n
                   PROVE  j = k
        OBVIOUS
      <4>1. \A m \in BM!Ours : m \in Nat /\ ~(m > n)
        BY <1>1, <3>1 DEF BM!Ours
      <4> QED
        BY <3>2, <4>1
    <3>4. n <= Len(target') /\ \A j \in 1..n : target'[j].pr = merged'[j]
      BY <1>2, <2>1, <2>2
    <3> QED
      BY <3>1, <3>3, <3>4 DEF bmSure
  <2> QED
    BY <2>3, <2>4
<1> QED
  BY <1>5, <1>6, <1>7, BatchRemote DEF bmRemote

(* Every step keeps it.                                                    *)
LEMMA BatchPrefix ==
  ASSUME ServersAssumption, bmInv, BM!Next \/ UNCHANGED bmVars
  PROVE  bmPrefix'
<1>1. /\ bmRemoteType /\ DOMAIN target = 1..Len(target) /\ Len(target) \in Nat
      /\ bmMergedType /\ Len(merged) \in Nat /\ merged \in Seq(PR) /\ bmPrefix
      /\ pc \in bmEarly => merged = <<>>
  BY DEF bmInv, bmTypes, bmMergedType, bmRemoteType, bmStage
<1>2. bmMergedType'
  BY BatchTypes
<1>3. PICK n \in 0..Len(merged) : bmSure(n) /\ bmAt(n)
  BY <1>1, BatchAt
<1>4. ASSUME NEW p \in PR, bmSeen(p)
      PROVE  bmPrefix'
  <2>1. pc = "look" /\ pc' = "landed" /\ merged' = Append(merged, p) /\ target' = target
    BY <1>4 DEF bmSeen
  <2>2. n = Len(merged)
    BY <1>3, <2>1 DEF bmAt
  <2>3. /\ Len(merged') = Len(merged) + 1
        /\ \A k \in 1..Len(merged) : merged'[k] = merged[k]
    BY <1>1, <2>1, BatchAppend
  <2>4. bmSure(n)'
    BY <1>3, <2>1, <2>2, <2>3 DEF bmSure, BM!Ours
  <2>5. n \in 0..Len(merged') /\ bmAt(n)'
    BY <1>1, <2>1, <2>2, <2>3 DEF bmAt
  <2> QED
    BY <1>2, <2>4, <2>5, BatchAtNext
<1>5. CASE merged' = merged /\ bmTurns
  <2>1. BM!Content(target) = merged /\ target' = target
    BY <1>5 DEF bmTurns
  <2>2. DOMAIN merged = DOMAIN target /\ \A j \in DOMAIN target : target[j].pr = merged[j]
    BY <2>1 DEF BM!Content
  <2>3. Len(target) = Len(merged) /\ DOMAIN merged = 1..Len(merged)
    BY <1>1, <2>2
  <2>4. \A k \in BM!Ours' : k \in 1..Len(merged)
    BY <1>1, <2>1, <2>3 DEF BM!Ours
  <2>5. \A j, k \in BM!Ours' : ~(j > Len(merged) /\ k > Len(merged))
    BY <1>1, <2>4
  <2>6. \A k \in BM!Ours' : k <= Len(merged)
    BY <1>1, <2>4
  <2>7. bmSure(Len(merged))'
    BY <1>1, <1>5, <2>1, <2>2, <2>3, <2>5, <2>6 DEF bmSure
  <2> QED
    BY <1>5, <2>7 DEF bmPrefix
<1>6. CASE merged' = merged /\ ~bmTurns
  <2>1. bmSure(n)'
    BY <1>3, <1>6, BatchSure
  <2>2. bmAt(n)'
    <3>1. CASE n = Len(merged)
      BY <1>6, <3>1 DEF bmAt
    <3>2. CASE n # Len(merged)
      <4>1. n = Len(merged) - 1 /\ (pc = "landed" \/ (pc = "stopped" /\ stopped = merged[Len(merged)]))
        BY <1>3, <3>2 DEF bmAt
      <4>2. pc' = "landed" \/ (pc' = "stopped" /\ stopped' = merged[Len(merged)])
        BY <1>6, <4>1, BatchTurns DEF BM!LastMember
      <4> QED
        BY <1>6, <4>1, <4>2 DEF bmAt
    <3> QED
      BY <3>1, <3>2
  <2>3. n \in 0..Len(merged')
    BY <1>6
  <2> QED
    BY <1>2, <2>1, <2>2, <2>3, BatchAtNext
<1>7. merged' = merged \/ \E p \in PR : bmSeen(p)
  BY BatchMoves DEF bmMoves, bmSame, bmAdopted
<1> QED
  BY <1>4, <1>5, <1>6, <1>7

(* It holds when the batch starts.                                         *)
LEMMA BatchInit == ServersAssumption /\ BM!Init => bmInv
<1> SUFFICES ASSUME ServersAssumption, BM!Init PROVE bmInv
  OBVIOUS
<1>1. Batch \in Seq(PR) /\ Len(Batch) > 0
  BY DEF ServersAssumption, BM!BatchAssumption
<1>2. bmFlagType /\ bmLotType /\ bmMergedType
  <2>1. bmFlagType
    BY DEF BM!Init, bmFlagType
  <2>2. bmLotType
    BY DEF BM!Init, bmLotType
  <2>3. bmMergedType
    BY DEF BM!Init, bmMergedType
  <2> QED
    BY <2>1, <2>2, <2>3
<1>9. bmReadType
  <2>1. 0 \in 0..Len(Batch) /\ 0 < Len(Batch)
    BY <1>1
  <2> QED
    BY <2>1 DEF BM!Init, bmReadType, bmEarly
<1>3. bmCallType
  BY DEF BM!Init, bmCallType
<1>4. bmRemoteType
  BY DEF BM!Init, bmRemoteType
<1>5. bmStage /\ bmDone
  BY DEF BM!Init, bmStage, bmDone, bmEarly
<1>6. BM!Merged = {} /\ BM!Ours = {} /\ merged = <<>> /\ target = <<>>
  BY DEF BM!Init, BM!Merged, BM!Ours
<1>7. bmOrder /\ bmCaused /\ bmLanded
  BY <1>6 DEF BM!Init, bmOrder, bmCaused, bmLanded
<1>8. bmSure(Len(merged))
  BY <1>6 DEF bmSure
<1> QED
  BY <1>2, <1>3, <1>4, <1>5, <1>7, <1>8, <1>9 DEF bmInv, bmTypes, bmPrefix

(* Every step of the batch keeps the invariant.                            *)
LEMMA BatchKeeps ==
  ASSUME ServersAssumption, bmInv, BM!Next \/ UNCHANGED bmVars
  PROVE  bmInv'
BY BatchTypes, BatchStage, BatchOrder, BatchDone, BatchCaused, BatchLanded,
   BatchPrefix
DEF bmInv, bmTypes

(* What the batch merges is what it proved, and as it proved it.           *)
LEMMA BatchProven ==
  ASSUME ServersAssumption, bmInv
  PROVE  BM!OnlyProvenLotsLand /\ BM!AStrayMergeIsTheLast
<1>1. /\ bmStage /\ bmCaused /\ bmLanded /\ bmOrder /\ bmLotType /\ bmMergedType
      /\ bmRemoteType /\ DOMAIN target = 1..Len(target) /\ Len(target) \in Nat
      /\ Len(merged) \in Nat /\ DOMAIN merged = 1..Len(merged)
  BY DEF bmInv, bmTypes, bmMergedType, bmRemoteType
<1>2. PICK n \in 0..Len(merged) : bmSure(n) /\ bmAt(n)
  BY <1>1, BatchAt DEF bmInv
<1>3. \A k \in 1..Len(merged) : merged[k] \in BM!Merged /\ merged[k] \in proven /\ merged[k] \in PR
  BY <1>1 DEF BM!Merged, bmOrder, bmLotType
<1>4. \A k \in 1..n : k \in DOMAIN target /\ target[k].pr = merged[k]
  BY <1>1, <1>2 DEF bmSure
<1>5. \A j, k \in 1..n : j < k => BM!Place(target[j].pr) < BM!Place(target[k].pr)
  BY <1>1, <1>4 DEF bmOrder
<1>6. ASSUME NEW k \in BM!Ours
      PROVE  k \in DOMAIN target /\ target[k].ours
             /\ (target[k].pr \in BM!Merged \/ bmAtHand(target[k].pr)) /\ target[k].pr \in proven
  BY <1>1 DEF BM!Ours, bmCaused, bmOrder, bmAtHand, BM!Member
<1>7. ASSUME NEW j \in 1..n, NEW k \in BM!Ours, k > n
      PROVE  BM!Place(target[j].pr) < BM!Place(target[k].pr)
  <2>1. target[j].pr = merged[j] /\ merged[j] \in BM!Merged
    BY <1>3, <1>4
  <2>2. CASE target[k].pr \in BM!Merged
    <3>1. PICK m \in 1..Len(merged) : target[k].pr = merged[m]
      BY <1>1, <2>2 DEF BM!Merged
    <3>2. m > n
      <4>1. ASSUME m \in 1..n
            PROVE  FALSE
        <5>1. target[m].pr = target[k].pr /\ m \in DOMAIN target /\ target[m].pr \in PR
          BY <1>3, <1>4, <3>1, <4>1
        <5>2. m = k
          BY <1>1, <1>6, <5>1 DEF bmLanded
        <5> QED
          BY <1>1, <1>6, <1>7, <4>1, <5>2
      <4> QED
        BY <1>1, <1>2, <4>1
    <3> QED
      BY <1>1, <2>1, <3>1, <3>2 DEF bmOrder
  <2>3. CASE bmAtHand(target[k].pr)
    <3>1. BM!Member(target[k].pr)
      BY <2>3 DEF bmAtHand
    <3> QED
      BY <1>1, <2>1, <3>1, BatchMember
  <2> QED
    BY <1>6, <2>2, <2>3
<1>8. \A j, k \in BM!Ours : j > n /\ k > n => j = k
  BY <1>2 DEF bmSure
<1>9. BM!OnlyProvenLotsLand
  <2> SUFFICES ASSUME BM!Ours # {}
               PROVE  /\ proven \in passed
                      /\ proven \cap (culprits \cup unfit) = {}
                      /\ \A k \in BM!Ours : target[k].pr \in proven
                      /\ \A j, k \in BM!Ours : j < k => BM!Place(target[j].pr) < BM!Place(target[k].pr)
    BY DEF BM!OnlyProvenLotsLand
  <2>1. proven # {}
    BY <1>6
  <2>2. proven \in passed /\ proven \cap (culprits \cup unfit) = {}
    BY <1>1, <2>1 DEF bmStage
  <2>3. ASSUME NEW j \in BM!Ours, NEW k \in BM!Ours, j < k
        PROVE  BM!Place(target[j].pr) < BM!Place(target[k].pr)
    <3>1. j \in 1..Len(target) /\ k \in 1..Len(target)
      BY <1>1, <1>6
    <3>2. CASE k <= n
      <4>1. j \in 1..n /\ k \in 1..n
        BY <1>1, <1>2, <2>3, <3>1, <3>2
      <4> QED
        BY <1>5, <2>3, <4>1
    <3>3. CASE ~(k <= n) /\ j <= n
      <4>1. j \in 1..n /\ k > n
        BY <1>1, <1>2, <3>1, <3>3
      <4> QED
        BY <1>7, <4>1
    <3>4. CASE ~(j <= n)
      <4>1. j > n /\ k > n
        BY <1>1, <1>2, <2>3, <3>1, <3>4
      <4>2. j = k
        BY <1>8, <4>1
      <4> QED
        BY <2>3, <3>1, <4>2
    <3> QED
      BY <3>2, <3>3, <3>4
  <2> QED
    BY <1>6, <2>2, <2>3
<1>10. ASSUME NEW m \in 1..n
       PROVE  BM!AsProven(m)
  <2>1. \A j \in 1..m : j \in 1..n
    BY <1>2
  <2>2. \A j \in 1..m : target[j].pr \in proven
    BY <1>1, <1>2, <1>3, <1>4, <2>1
  <2>3. \A j, k \in 1..m : j < k => BM!Place(target[j].pr) < BM!Place(target[k].pr)
    BY <1>5, <2>1
  <2>4. ASSUME NEW q \in proven, BM!Place(q) < BM!Place(target[m].pr)
        PROVE  \E j \in 1..m : target[j].pr = q
    <3>1. target[m].pr = merged[m] /\ merged[m] \in BM!Merged /\ m \in 1..Len(merged)
      BY <1>1, <1>2, <1>3, <1>4
    <3>2. q \in BM!Merged
      BY <1>1, <2>4, <3>1 DEF bmOrder
    <3>3. PICK k \in 1..Len(merged) : q = merged[k]
      BY <1>1, <3>2 DEF BM!Merged
    <3>4. BM!Place(q) \in Nat /\ BM!Place(merged[m]) \in Nat
      BY <1>3, <3>1, <3>3, BatchPlaces
    <3>5. ~(m < k) /\ m # k
      <4>1. m < k => BM!Place(merged[m]) < BM!Place(q)
        BY <1>1, <3>1, <3>3 DEF bmOrder
      <4>2. BM!Place(q) < BM!Place(merged[m])
        BY <2>4, <3>1
      <4>3. m # k
        BY <3>3, <3>4, <4>2
      <4> QED
        BY <3>4, <4>1, <4>2, <4>3
    <3>6. k \in 1..m
      BY <1>1, <3>1, <3>3, <3>5
    <3> QED
      BY <1>4, <2>1, <3>3, <3>6
  <2> QED
    BY <2>2, <2>3, <2>4 DEF BM!AsProven
<1>11. BM!AStrayMergeIsTheLast
  <2> SUFFICES ASSUME NEW k \in BM!Ours, ~BM!AsProven(k)
               PROVE  (\A j \in BM!Ours : j <= k) /\ pc # "done"
    BY DEF BM!AStrayMergeIsTheLast
  <2>1. k \in 1..Len(target)
    BY <1>1, <1>6
  <2>2. k > n
    BY <1>1, <1>2, <1>10, <2>1
  <2>3. ASSUME NEW j \in BM!Ours
        PROVE  j <= k
    <3>1. j \in 1..Len(target)
      BY <1>1, <1>6
    <3>2. CASE j > n
      BY <1>1, <1>8, <2>1, <2>2, <3>1, <3>2
    <3>3. CASE ~(j > n)
      BY <1>1, <1>2, <2>1, <2>2, <3>1, <3>3
    <3> QED
      BY <3>2, <3>3
  <2>4. pc # "done"
    <3>1. pc = "done" => \A j \in BM!Ours : j <= n
      BY <1>2 DEF bmSure
    <3> QED
      BY <1>1, <1>2, <2>1, <2>2, <3>1
  <2> QED
    BY <2>3, <2>4
<1> QED
  BY <1>9, <1>11

(* OnlyProvenLotsLand of Servers: what `gh pr merge` lands passed a full   *)
(* suite as the lot it is merged with, in its order and without anybody    *)
(* the bisection isolated; one that lands on a content nobody proved is    *)
(* the last, for any pull requests, verdicts and moves of others.          *)
THEOREM OnlyProvenLots == Spec => []OnlyProvenLotsLand
<1> USE ServersAssumption
<1> DEFINE Inv == part = "batch" => bmInv
<1>1. Init => Inv
  BY BatchInit DEF Init
<1>2. Inv /\ [Next]_vars => Inv'
  BY BatchStep, PartStays, BatchKeeps
<1>3. Inv => OnlyProvenLotsLand
  BY BatchProven DEF OnlyProvenLotsLand
<1> QED
  BY <1>1, <1>2, <1>3, PTL DEF Spec

(* What the report says of the merges.                                     *)
LEMMA BatchReports == bmInv => BM!ReportIsHonest
<1> SUFFICES ASSUME bmInv PROVE BM!ReportIsHonest
  OBVIOUS
<1>1. bmCaused /\ bmLanded /\ bmDone
  BY DEF bmInv
<1>2. \A p \in BM!Merged : state[p] = "merged"
  BY <1>1 DEF bmLanded
<1>3. pc = "stopped" => \A k \in BM!Ours : target[k].pr \in BM!Merged \cup {stopped}
  BY <1>1 DEF bmCaused, bmAtHand
<1>4. pc = "done" /\ Merge => BM!Merged = proven
  BY <1>1 DEF bmDone
<1> QED
  BY <1>2, <1>3, <1>4 DEF BM!ReportIsHonest

(* The bisection, while every verdict is that of the pull requests which   *)
(* break the suite alone: what a call has found, and the faulty ones of    *)
(* what it has not proved yet, are the faulty ones of its list.            *)
bmFaulty == {p \in PR : {p} \in breaks}
bmFair == faithful /\ base = {} /\ \A B \in breaks : \E p \in PR : B = {p}
bmLeft(c) == IF c.next = 1 THEN c.list ELSE IF c.next = 2 THEN BM!Halves(c.list)[2] ELSE {}
bmInside(k) == IF k < Len(calls) THEN calls[k + 1].list ELSE {}
bmCallFound(k) ==
  /\ calls[k].list \subseteq whole /\ bmFaulty \cap calls[k].list # {}
  /\ bmFaulty \cap calls[k].list =
       calls[k].found \cup (bmFaulty \cap (bmLeft(calls[k]) \cup bmInside(k)))
  /\ bmInside(k) \subseteq calls[k].list
  /\ ~calls[k].failed => k = Len(calls) /\ bmFaulty \cap calls[k].list \subseteq bmLeft(calls[k])
bmExact ==
  /\ pc \in {"read", "base", "fetch", "vet", "whole"} => ~interaction
  /\ bmFair => ~interaction
  /\ bmFair /\ pc = "bisect" =>
       /\ calls[1].list = whole /\ \A p \in whole : BM!Fits(whole, p)
       /\ \A k \in DOMAIN calls : bmCallFound(k)
  /\ bmFair /\ pc = "bisected" => culprits = bmFaulty \cap whole

(* What a suite that says the same thing every time says of a lot.         *)
LEMMA BatchTruth ==
  ASSUME bmFair, NEW lot \in SUBSET PR
  PROVE  /\ BM!Truth(lot) = "failed" => bmFaulty \cap lot # {}
         /\ BM!Truth(lot) = "passed" => bmFaulty \cap lot = {}
<1>1. ASSUME NEW p \in lot, p \in bmFaulty
      PROVE  BM!Truth(lot) = "failed"
  <2>1. {p} \in breaks /\ {p} \subseteq base \cup lot
    BY <1>1 DEF bmFaulty
  <2> QED
    BY <2>1 DEF BM!Truth
<1>2. ASSUME BM!Truth(lot) = "failed"
      PROVE  bmFaulty \cap lot # {}
  <2>1. PICK B \in breaks : B \subseteq base \cup lot
    BY <1>2 DEF BM!Truth
  <2>2. PICK p \in PR : B = {p}
    BY <2>1 DEF bmFair
  <2>3. p \in lot /\ p \in bmFaulty
    BY <2>1, <2>2 DEF bmFair, bmFaulty
  <2> QED
    BY <2>3
<1> QED
  BY <1>1, <1>2

(* A part of a lot without conflict is built whole.                        *)
LEMMA BatchBuilt ==
  ASSUME base = {}, \A p \in whole : BM!Fits(whole, p),
         NEW list \in SUBSET whole, NEW lot \in BM!Built(list)
  PROVE  lot = list
<1>1. lot \subseteq list /\ \A p \in list : p \in lot <=> BM!Fits(lot, p)
  BY DEF BM!Built
<1>2. ASSUME NEW p \in list
      PROVE  BM!Fits(lot, p)
  <2>1. BM!Fits(whole, p)
    OBVIOUS
  <2> QED
    BY <1>1, <2>1 DEF BM!Fits
<1> QED
  BY <1>1, <1>2

(* The verdicts do not become fair again, nor the target empty.            *)
bmCalm ==
  /\ calls' = calls /\ whole' = whole /\ culprits' = culprits /\ interaction' = interaction
  /\ pc' \in {"bisect", "bisected"} => pc' = pc
  /\ pc' \in {"read", "base", "fetch", "vet", "whole"} =>
       pc \in {"read", "base", "fetch", "vet", "whole"}

(* What a step leaves of the suite, of the base and of the bisection.      *)
LEMMA BatchCalm ==
  ASSUME ServersAssumption, bmInv, BM!Next \/ UNCHANGED bmVars
  PROVE  /\ breaks' = breaks /\ (faithful' => faithful)
         /\ pc \notin {"read", "base"} => base' = base
         /\ bmCalm \/ BM!ProveWhole \/ BM!ProveHalf \/ BM!Return
<1> USE DEF BM!reading, BM!batchVars, BM!remoteVars, BM!suiteVars, BM!Stop
<1>1. bmReadType
  BY DEF bmInv, bmTypes
<1>2. ASSUME BM!ReadPullRequest
      PROVE  /\ breaks' = breaks /\ (faithful' => faithful)
             /\ pc \notin {"read", "base"} => base' = base
             /\ bmCalm \/ BM!ProveWhole \/ BM!ProveHalf \/ BM!Return
  <2>1. breaks' = breaks /\ (faithful' => faithful)
    BY <1>1, <1>2 DEF BM!ReadPullRequest, BM!unread
  <2>2. pc \notin {"read", "base"} => base' = base
    BY <1>1, <1>2 DEF BM!ReadPullRequest, BM!unread, BM!Early, BM!Lands
  <2>3. bmCalm \/ BM!ProveWhole \/ BM!ProveHalf \/ BM!Return
    BY <1>1, <1>2 DEF BM!ReadPullRequest, BM!unread, bmCalm, bmEarly
  <2> QED
    BY <2>1, <2>2, <2>3
<1>3. ASSUME BM!ReadBase
      PROVE  /\ breaks' = breaks /\ (faithful' => faithful)
             /\ pc \notin {"read", "base"} => base' = base
             /\ bmCalm \/ BM!ProveWhole \/ BM!ProveHalf \/ BM!Return
  <2>1. breaks' = breaks /\ (faithful' => faithful)
    BY <1>1, <1>3 DEF BM!ReadBase, BM!unread
  <2>2. pc \notin {"read", "base"} => base' = base
    BY <1>1, <1>3 DEF BM!ReadBase, BM!unread, BM!Early, BM!Lands
  <2>3. bmCalm \/ BM!ProveWhole \/ BM!ProveHalf \/ BM!Return
    BY <1>1, <1>3 DEF BM!ReadBase, BM!unread, bmCalm, bmEarly
  <2> QED
    BY <2>1, <2>2, <2>3
<1>4. ASSUME BM!FetchHeads
      PROVE  /\ breaks' = breaks /\ (faithful' => faithful)
             /\ pc \notin {"read", "base"} => base' = base
             /\ bmCalm \/ BM!ProveWhole \/ BM!ProveHalf \/ BM!Return
  <2>1. breaks' = breaks /\ (faithful' => faithful)
    BY <1>1, <1>4 DEF BM!FetchHeads, BM!unread
  <2>2. pc \notin {"read", "base"} => base' = base
    BY <1>1, <1>4 DEF BM!FetchHeads, BM!unread, BM!Early, BM!Lands
  <2>3. bmCalm \/ BM!ProveWhole \/ BM!ProveHalf \/ BM!Return
    BY <1>1, <1>4 DEF BM!FetchHeads, BM!unread, bmCalm, bmEarly
  <2> QED
    BY <2>1, <2>2, <2>3
<1>5. ASSUME BM!Vet
      PROVE  /\ breaks' = breaks /\ (faithful' => faithful)
             /\ pc \notin {"read", "base"} => base' = base
             /\ bmCalm \/ BM!ProveWhole \/ BM!ProveHalf \/ BM!Return
  <2>1. breaks' = breaks /\ (faithful' => faithful)
    BY <1>1, <1>5 DEF BM!Vet, BM!unread
  <2>2. pc \notin {"read", "base"} => base' = base
    BY <1>1, <1>5 DEF BM!Vet, BM!unread, BM!Early, BM!Lands
  <2>3. bmCalm \/ BM!ProveWhole \/ BM!ProveHalf \/ BM!Return
    BY <1>1, <1>5 DEF BM!Vet, BM!unread, bmCalm, bmEarly
  <2> QED
    BY <2>1, <2>2, <2>3
<1>6. ASSUME BM!ProveWhole
      PROVE  /\ breaks' = breaks /\ (faithful' => faithful)
             /\ pc \notin {"read", "base"} => base' = base
             /\ bmCalm \/ BM!ProveWhole \/ BM!ProveHalf \/ BM!Return
  <2>1. breaks' = breaks /\ (faithful' => faithful)
    BY <1>1, <1>6 DEF BM!ProveWhole, BM!Verdict, BM!Adopt
  <2>2. pc \notin {"read", "base"} => base' = base
    BY <1>1, <1>6 DEF BM!ProveWhole, BM!Verdict, BM!Adopt, BM!Early, BM!Lands
  <2>3. bmCalm \/ BM!ProveWhole \/ BM!ProveHalf \/ BM!Return
    BY <1>1, <1>6 DEF BM!ProveWhole, BM!Verdict, BM!Adopt, bmCalm, bmEarly
  <2> QED
    BY <2>1, <2>2, <2>3
<1>7. ASSUME BM!ProveHalf
      PROVE  /\ breaks' = breaks /\ (faithful' => faithful)
             /\ pc \notin {"read", "base"} => base' = base
             /\ bmCalm \/ BM!ProveWhole \/ BM!ProveHalf \/ BM!Return
  <2>1. breaks' = breaks /\ (faithful' => faithful)
    BY <1>1, <1>7 DEF BM!ProveHalf, BM!Verdict
  <2>2. pc \notin {"read", "base"} => base' = base
    BY <1>1, <1>7 DEF BM!ProveHalf, BM!Verdict, BM!Early, BM!Lands
  <2>3. bmCalm \/ BM!ProveWhole \/ BM!ProveHalf \/ BM!Return
    BY <1>1, <1>7 DEF BM!ProveHalf, BM!Verdict, bmCalm, bmEarly
  <2> QED
    BY <2>1, <2>2, <2>3
<1>8. ASSUME BM!Return
      PROVE  /\ breaks' = breaks /\ (faithful' => faithful)
             /\ pc \notin {"read", "base"} => base' = base
             /\ bmCalm \/ BM!ProveWhole \/ BM!ProveHalf \/ BM!Return
  <2>1. breaks' = breaks /\ (faithful' => faithful)
    BY <1>1, <1>8 DEF BM!Return
  <2>2. pc \notin {"read", "base"} => base' = base
    BY <1>1, <1>8 DEF BM!Return, BM!Early, BM!Lands
  <2>3. bmCalm \/ BM!ProveWhole \/ BM!ProveHalf \/ BM!Return
    BY <1>1, <1>8 DEF BM!Return, bmCalm, bmEarly
  <2> QED
    BY <2>1, <2>2, <2>3
<1>9. ASSUME BM!Conclude
      PROVE  /\ breaks' = breaks /\ (faithful' => faithful)
             /\ pc \notin {"read", "base"} => base' = base
             /\ bmCalm \/ BM!ProveWhole \/ BM!ProveHalf \/ BM!Return
  <2>1. breaks' = breaks /\ (faithful' => faithful)
    BY <1>1, <1>9 DEF BM!Conclude
  <2>2. pc \notin {"read", "base"} => base' = base
    BY <1>1, <1>9 DEF BM!Conclude, BM!Early, BM!Lands
  <2>3. bmCalm \/ BM!ProveWhole \/ BM!ProveHalf \/ BM!Return
    BY <1>1, <1>9 DEF BM!Conclude, bmCalm, bmEarly
  <2> QED
    BY <2>1, <2>2, <2>3
<1>10. ASSUME BM!ProveFinal
      PROVE  /\ breaks' = breaks /\ (faithful' => faithful)
             /\ pc \notin {"read", "base"} => base' = base
             /\ bmCalm \/ BM!ProveWhole \/ BM!ProveHalf \/ BM!Return
  <2>1. breaks' = breaks /\ (faithful' => faithful)
    BY <1>1, <1>10 DEF BM!ProveFinal, BM!Verdict, BM!Adopt
  <2>2. pc \notin {"read", "base"} => base' = base
    BY <1>1, <1>10 DEF BM!ProveFinal, BM!Verdict, BM!Adopt, BM!Early, BM!Lands
  <2>3. bmCalm \/ BM!ProveWhole \/ BM!ProveHalf \/ BM!Return
    BY <1>1, <1>10 DEF BM!ProveFinal, BM!Verdict, BM!Adopt, bmCalm, bmEarly
  <2> QED
    BY <2>1, <2>2, <2>3
<1>11. ASSUME BM!Fails
      PROVE  /\ breaks' = breaks /\ (faithful' => faithful)
             /\ pc \notin {"read", "base"} => base' = base
             /\ bmCalm \/ BM!ProveWhole \/ BM!ProveHalf \/ BM!Return
  <2>1. breaks' = breaks /\ (faithful' => faithful)
    BY <1>1, <1>11 DEF BM!Fails
  <2>2. pc \notin {"read", "base"} => base' = base
    BY <1>1, <1>11 DEF BM!Fails, BM!Early, BM!Lands
  <2>3. bmCalm \/ BM!ProveWhole \/ BM!ProveHalf \/ BM!Return
    BY <1>1, <1>11 DEF BM!Fails, bmCalm, bmEarly
  <2> QED
    BY <2>1, <2>2, <2>3
<1>12. ASSUME BM!ReadLanded
      PROVE  /\ breaks' = breaks /\ (faithful' => faithful)
             /\ pc \notin {"read", "base"} => base' = base
             /\ bmCalm \/ BM!ProveWhole \/ BM!ProveHalf \/ BM!Return
  <2>1. breaks' = breaks /\ (faithful' => faithful)
    BY <1>1, <1>12 DEF BM!ReadLanded, BM!unchangedMerging
  <2>2. pc \notin {"read", "base"} => base' = base
    BY <1>1, <1>12 DEF BM!ReadLanded, BM!unchangedMerging, BM!Early, BM!Lands
  <2>3. bmCalm \/ BM!ProveWhole \/ BM!ProveHalf \/ BM!Return
    BY <1>1, <1>12 DEF BM!ReadLanded, BM!unchangedMerging, bmCalm, bmEarly
  <2> QED
    BY <2>1, <2>2, <2>3
<1>13. ASSUME BM!Finish
      PROVE  /\ breaks' = breaks /\ (faithful' => faithful)
             /\ pc \notin {"read", "base"} => base' = base
             /\ bmCalm \/ BM!ProveWhole \/ BM!ProveHalf \/ BM!Return
  <2>1. breaks' = breaks /\ (faithful' => faithful)
    BY <1>1, <1>13 DEF BM!Finish, BM!unchangedMerging
  <2>2. pc \notin {"read", "base"} => base' = base
    BY <1>1, <1>13 DEF BM!Finish, BM!unchangedMerging, BM!Early, BM!Lands
  <2>3. bmCalm \/ BM!ProveWhole \/ BM!ProveHalf \/ BM!Return
    BY <1>1, <1>13 DEF BM!Finish, BM!unchangedMerging, bmCalm, bmEarly
  <2> QED
    BY <2>1, <2>2, <2>3
<1>14. ASSUME NEW p \in PR, BM!Recheck(p)
      PROVE  /\ breaks' = breaks /\ (faithful' => faithful)
             /\ pc \notin {"read", "base"} => base' = base
             /\ bmCalm \/ BM!ProveWhole \/ BM!ProveHalf \/ BM!Return
  <2>1. breaks' = breaks /\ (faithful' => faithful)
    BY <1>1, <1>14 DEF BM!Recheck, BM!unchangedMerging
  <2>2. pc \notin {"read", "base"} => base' = base
    BY <1>1, <1>14 DEF BM!Recheck, BM!unchangedMerging, BM!Early, BM!Lands
  <2>3. bmCalm \/ BM!ProveWhole \/ BM!ProveHalf \/ BM!Return
    BY <1>1, <1>14 DEF BM!Recheck, BM!unchangedMerging, bmCalm, bmEarly
  <2> QED
    BY <2>1, <2>2, <2>3
<1>15. ASSUME NEW p \in PR, BM!ReadTarget(p)
      PROVE  /\ breaks' = breaks /\ (faithful' => faithful)
             /\ pc \notin {"read", "base"} => base' = base
             /\ bmCalm \/ BM!ProveWhole \/ BM!ProveHalf \/ BM!Return
  <2>1. breaks' = breaks /\ (faithful' => faithful)
    BY <1>1, <1>15 DEF BM!ReadTarget, BM!unchangedMerging
  <2>2. pc \notin {"read", "base"} => base' = base
    BY <1>1, <1>15 DEF BM!ReadTarget, BM!unchangedMerging, BM!Early, BM!Lands
  <2>3. bmCalm \/ BM!ProveWhole \/ BM!ProveHalf \/ BM!Return
    BY <1>1, <1>15 DEF BM!ReadTarget, BM!unchangedMerging, bmCalm, bmEarly
  <2> QED
    BY <2>1, <2>2, <2>3
<1>16. ASSUME NEW p \in PR, BM!CallMerge(p)
      PROVE  /\ breaks' = breaks /\ (faithful' => faithful)
             /\ pc \notin {"read", "base"} => base' = base
             /\ bmCalm \/ BM!ProveWhole \/ BM!ProveHalf \/ BM!Return
  <2>1. breaks' = breaks /\ (faithful' => faithful)
    BY <1>1, <1>16 DEF BM!CallMerge, BM!unchangedMerging
  <2>2. pc \notin {"read", "base"} => base' = base
    BY <1>1, <1>16 DEF BM!CallMerge, BM!unchangedMerging, BM!Early, BM!Lands
  <2>3. bmCalm \/ BM!ProveWhole \/ BM!ProveHalf \/ BM!Return
    BY <1>1, <1>16 DEF BM!CallMerge, BM!unchangedMerging, bmCalm, bmEarly
  <2> QED
    BY <2>1, <2>2, <2>3
<1>17. ASSUME NEW p \in PR, BM!Look(p)
      PROVE  /\ breaks' = breaks /\ (faithful' => faithful)
             /\ pc \notin {"read", "base"} => base' = base
             /\ bmCalm \/ BM!ProveWhole \/ BM!ProveHalf \/ BM!Return
  <2>1. breaks' = breaks /\ (faithful' => faithful)
    BY <1>1, <1>17 DEF BM!Look, BM!unchangedMerging
  <2>2. pc \notin {"read", "base"} => base' = base
    BY <1>1, <1>17 DEF BM!Look, BM!unchangedMerging, BM!Early, BM!Lands
  <2>3. bmCalm \/ BM!ProveWhole \/ BM!ProveHalf \/ BM!Return
    BY <1>1, <1>17 DEF BM!Look, BM!unchangedMerging, bmCalm, bmEarly
  <2> QED
    BY <2>1, <2>2, <2>3
<1>18. ASSUME NEW p \in PR, BM!GitHubMerges(p)
      PROVE  /\ breaks' = breaks /\ (faithful' => faithful)
             /\ pc \notin {"read", "base"} => base' = base
             /\ bmCalm \/ BM!ProveWhole \/ BM!ProveHalf \/ BM!Return
  <2>1. breaks' = breaks /\ (faithful' => faithful)
    BY <1>1, <1>18
    DEF BM!GitHubMerges, BM!Lands, BM!Grows, BM!Early, BM!unchangedMerging
  <2>2. pc \notin {"read", "base"} => base' = base
    BY <1>1, <1>18
    DEF BM!GitHubMerges, BM!Lands, BM!Grows, BM!Early, BM!unchangedMerging,
        BM!Early, BM!Lands
  <2>3. bmCalm \/ BM!ProveWhole \/ BM!ProveHalf \/ BM!Return
    BY <1>1, <1>18
    DEF BM!GitHubMerges, BM!Lands, BM!Grows, BM!Early, BM!unchangedMerging,
        bmCalm, bmEarly
  <2> QED
    BY <2>1, <2>2, <2>3
<1>19. ASSUME NEW p \in PR, BM!GitHubQueues(p)
      PROVE  /\ breaks' = breaks /\ (faithful' => faithful)
             /\ pc \notin {"read", "base"} => base' = base
             /\ bmCalm \/ BM!ProveWhole \/ BM!ProveHalf \/ BM!Return
  <2>1. breaks' = breaks /\ (faithful' => faithful)
    BY <1>1, <1>19 DEF BM!GitHubQueues, BM!unchangedMerging
  <2>2. pc \notin {"read", "base"} => base' = base
    BY <1>1, <1>19 DEF BM!GitHubQueues, BM!unchangedMerging, BM!Early, BM!Lands
  <2>3. bmCalm \/ BM!ProveWhole \/ BM!ProveHalf \/ BM!Return
    BY <1>1, <1>19 DEF BM!GitHubQueues, BM!unchangedMerging, bmCalm, bmEarly
  <2> QED
    BY <2>1, <2>2, <2>3
<1>20. ASSUME NEW p \in PR, BM!QueueLands(p)
      PROVE  /\ breaks' = breaks /\ (faithful' => faithful)
             /\ pc \notin {"read", "base"} => base' = base
             /\ bmCalm \/ BM!ProveWhole \/ BM!ProveHalf \/ BM!Return
  <2>1. breaks' = breaks /\ (faithful' => faithful)
    BY <1>1, <1>20 DEF BM!QueueLands, BM!Lands, BM!Grows, BM!Early
  <2>2. pc \notin {"read", "base"} => base' = base
    BY <1>1, <1>20
    DEF BM!QueueLands, BM!Lands, BM!Grows, BM!Early, BM!Early, BM!Lands
  <2>3. bmCalm \/ BM!ProveWhole \/ BM!ProveHalf \/ BM!Return
    BY <1>1, <1>20 DEF BM!QueueLands, BM!Lands, BM!Grows, BM!Early, bmCalm, bmEarly
  <2> QED
    BY <2>1, <2>2, <2>3
<1>21. ASSUME BM!GitHubRefuses
      PROVE  /\ breaks' = breaks /\ (faithful' => faithful)
             /\ pc \notin {"read", "base"} => base' = base
             /\ bmCalm \/ BM!ProveWhole \/ BM!ProveHalf \/ BM!Return
  <2>1. breaks' = breaks /\ (faithful' => faithful)
    BY <1>1, <1>21 DEF BM!GitHubRefuses, BM!unchangedMerging
  <2>2. pc \notin {"read", "base"} => base' = base
    BY <1>1, <1>21 DEF BM!GitHubRefuses, BM!unchangedMerging, BM!Early, BM!Lands
  <2>3. bmCalm \/ BM!ProveWhole \/ BM!ProveHalf \/ BM!Return
    BY <1>1, <1>21 DEF BM!GitHubRefuses, BM!unchangedMerging, bmCalm, bmEarly
  <2> QED
    BY <2>1, <2>2, <2>3
<1>22. ASSUME BM!Abort
      PROVE  /\ breaks' = breaks /\ (faithful' => faithful)
             /\ pc \notin {"read", "base"} => base' = base
             /\ bmCalm \/ BM!ProveWhole \/ BM!ProveHalf \/ BM!Return
  <2>1. breaks' = breaks /\ (faithful' => faithful)
    BY <1>1, <1>22 DEF BM!Abort
  <2>2. pc \notin {"read", "base"} => base' = base
    BY <1>1, <1>22 DEF BM!Abort, BM!Early, BM!Lands
  <2>3. bmCalm \/ BM!ProveWhole \/ BM!ProveHalf \/ BM!Return
    BY <1>1, <1>22 DEF BM!Abort, bmCalm, bmEarly
  <2> QED
    BY <2>1, <2>2, <2>3
<1>23. ASSUME BM!Outside
      PROVE  /\ breaks' = breaks /\ (faithful' => faithful)
             /\ pc \notin {"read", "base"} => base' = base
             /\ bmCalm \/ BM!ProveWhole \/ BM!ProveHalf \/ BM!Return
  <2>1. breaks' = breaks /\ (faithful' => faithful)
    BY <1>1, <1>23 DEF BM!Outside, BM!Lands, BM!Grows, BM!Early
  <2>2. pc \notin {"read", "base"} => base' = base
    BY <1>1, <1>23 DEF BM!Outside, BM!Lands, BM!Grows, BM!Early, BM!Early, BM!Lands
  <2>3. bmCalm \/ BM!ProveWhole \/ BM!ProveHalf \/ BM!Return
    BY <1>1, <1>23 DEF BM!Outside, BM!Lands, BM!Grows, BM!Early, bmCalm, bmEarly
  <2> QED
    BY <2>1, <2>2, <2>3
<1>24. CASE UNCHANGED bmVars
  <2>1. breaks' = breaks /\ (faithful' => faithful)
    BY <1>1, <1>24 DEF bmVars, bmOnly
  <2>2. pc \notin {"read", "base"} => base' = base
    BY <1>1, <1>24 DEF bmVars, bmOnly, BM!Early, BM!Lands
  <2>3. bmCalm \/ BM!ProveWhole \/ BM!ProveHalf \/ BM!Return
    BY <1>1, <1>24 DEF bmVars, bmOnly, bmCalm, bmEarly
  <2> QED
    BY <2>1, <2>2, <2>3
<1> QED
  BY <1>2, <1>3, <1>4, <1>5, <1>6, <1>7, <1>8, <1>9, <1>10, <1>11, <1>12, <1>13,
     <1>14, <1>15, <1>16, <1>17, <1>18, <1>19, <1>20, <1>21, <1>22, <1>23, <1>24
  DEF BM!Next, BM!BatchStep, BM!Merging, BM!GitHub

(* ... of what its exactness depends on.                                   *)
LEMMA BatchFair ==
  ASSUME ServersAssumption, bmInv, BM!Next \/ UNCHANGED bmVars
  PROVE  bmFaulty' = bmFaulty /\ (pc \notin {"read", "base"} /\ bmFair' => bmFair)
BY BatchCalm DEF bmFair, bmFaulty

(* The calls around the one a step is about.                               *)
LEMMA BatchAround ==
  ASSUME Len(calls) \in Nat, Len(calls') \in Nat, NEW n \in 1..Len(calls), n <= Len(calls'),
         \A k \in 1..(n - 1) : calls'[k] = calls[k],
         calls'[n].list = calls[n].list,
         whole' = whole, bmFaulty' = bmFaulty,
         \A k \in 1..Len(calls) : bmCallFound(k), calls[1].list = whole
  PROVE  (\A k \in 1..(n - 1) : bmCallFound(k)') /\ calls'[1].list = whole'
<1>1. calls'[1].list = whole'
  <2>1. CASE n = 1
    BY <2>1
  <2>2. CASE n # 1
    <3>1. 1 \in 1..(n - 1)
      BY <2>2
    <3> QED
      BY <3>1
  <2> QED
    BY <2>1, <2>2
<1>2. ASSUME NEW k \in 1..(n - 1)
      PROVE  bmCallFound(k)'
  <2>1. k \in 1..Len(calls) /\ k < Len(calls) /\ k < Len(calls') /\ k + 1 \in 1..n
    OBVIOUS
  <2>2. calls'[k] = calls[k] /\ calls'[k + 1].list = calls[k + 1].list
    <3>1. CASE k + 1 = n
      BY <3>1
    <3>2. CASE k + 1 # n
      <4>1. k + 1 \in 1..(n - 1)
        BY <2>1, <3>2
      <4> QED
        BY <4>1
    <3> QED
      BY <3>1, <3>2
  <2>3. bmInside(k)' = bmInside(k)
    BY <2>1, <2>2 DEF bmInside
  <2>4. bmCallFound(k) /\ calls[k].failed
    <3>1. bmCallFound(k)
      BY <2>1
    <3>2. k # Len(calls)
      BY <2>1
    <3> QED
      BY <3>1, <3>2 DEF bmCallFound
  <2> QED
    BY <2>2, <2>3, <2>4 DEF bmCallFound
<1> QED
  BY <1>1, <1>2

(* The innermost call after a step, when nothing is inside it.             *)
LEMMA BatchInnermost ==
  ASSUME Len(calls') \in Nat, NEW n, n = Len(calls'), NEW d, calls'[n] = d,
         d.list \subseteq whole', bmFaulty' = bmFaulty, bmFaulty \cap d.list # {},
         bmFaulty \cap d.list = d.found \cup (bmFaulty \cap bmLeft(d)),
         ~d.failed => bmFaulty \cap d.list \subseteq bmLeft(d)
  PROVE  bmCallFound(n)'
<1>1. bmInside(n)' = {}
  BY DEF bmInside
<1> QED
  BY <1>1 DEF bmCallFound

(* The bisection, at a step that is not one of its own.                    *)
LEMMA BatchExactCalm ==
  ASSUME ServersAssumption, bmInv, BM!Next \/ UNCHANGED bmVars, bmExact, bmCalm
  PROVE  bmExact'
<1>1. /\ bmFaulty' = bmFaulty /\ (pc \notin {"read", "base"} /\ bmFair' => bmFair)
      /\ pc \notin {"read", "base"} => base' = base
  BY BatchFair, BatchCalm
<1>2. /\ pc \in {"read", "base", "fetch", "vet", "whole"} => ~interaction
      /\ bmFair => ~interaction
  BY DEF bmExact
<1>3. pc' \in {"read", "base", "fetch", "vet", "whole"} => ~interaction'
  BY <1>2 DEF bmCalm
<1>4. bmFair' => ~interaction'
  BY <1>1, <1>2 DEF bmCalm
<1>5. ASSUME bmFair', pc' = "bisect"
      PROVE  /\ calls'[1].list = whole' /\ \A p \in whole' : BM!Fits(whole, p)'
             /\ \A k \in DOMAIN calls' : bmCallFound(k)'
  <2>1. pc = "bisect" /\ bmFair /\ base' = base /\ calls' = calls /\ whole' = whole
    BY <1>1, <1>5 DEF bmCalm
  <2>2. /\ calls[1].list = whole /\ \A p \in whole : BM!Fits(whole, p)
        /\ \A k \in DOMAIN calls : bmCallFound(k)
    BY <2>1 DEF bmExact
  <2>3. \A k \in DOMAIN calls : bmInside(k)' = bmInside(k)
    BY <2>1 DEF bmInside
  <2>4. \A k \in DOMAIN calls : bmCallFound(k)'
    BY <1>1, <2>1, <2>2, <2>3 DEF bmCallFound
  <2>5. \A p \in whole' : BM!Fits(whole, p)'
    BY <2>1, <2>2 DEF BM!Fits
  <2> QED
    BY <2>1, <2>2, <2>4, <2>5
<1>6. ASSUME bmFair', pc' = "bisected"
      PROVE  culprits' = bmFaulty' \cap whole'
  BY <1>1, <1>6 DEF bmCalm, bmExact
<1> QED
  BY <1>3, <1>4, <1>5, <1>6 DEF bmExact

(* ... when the first lot is proved.                                       *)
LEMMA BatchExactWhole ==
  ASSUME ServersAssumption, bmInv, BM!ProveWhole, bmExact
  PROVE  bmExact'
<1>1. /\ bmFaulty' = bmFaulty /\ (bmFair' => bmFair) /\ pc = "whole" /\ ~interaction
      /\ base' = base /\ interaction' = interaction
      /\ pc' \notin {"read", "base", "fetch", "vet", "whole", "bisected"}
  <2>1. pc = "whole" /\ ~interaction /\ base' = base /\ interaction' = interaction
    BY DEF BM!ProveWhole, BM!Verdict, BM!remoteVars, bmExact
  <2>2. pc' \notin {"read", "base", "fetch", "vet", "whole", "bisected"}
    BY DEF BM!ProveWhole, BM!Adopt, BM!Stop
  <2> QED
    BY <2>1, <2>2, BatchFair DEF BM!Next, BM!BatchStep
<1>2. ASSUME bmFair', pc' = "bisect"
      PROVE  /\ calls'[1].list = whole' /\ \A p \in whole' : BM!Fits(whole, p)'
             /\ \A k \in DOMAIN calls' : bmCallFound(k)'
  <2>1. PICK lot \in BM!Built(PR) :
          /\ whole' = lot /\ BM!Verdict(lot, "failed") /\ calls' = <<BM!Called(lot)>>
    BY <1>2 DEF BM!ProveWhole, BM!Adopt, BM!Stop
  <2>2. lot \subseteq PR /\ \A p \in lot : BM!Fits(lot, p)
    BY DEF BM!Built
  <2>3. BM!Truth(lot) = "failed"
    BY <1>2, <2>1 DEF BM!Verdict, bmFair
  <2>4. bmFaulty \cap lot # {}
    BY <1>1, <1>2, <2>2, <2>3, BatchTruth
  <2>5. PICK d : d = [list |-> lot, next |-> 1, found |-> {}, failed |-> FALSE]
    OBVIOUS
  <2>6. d.list = lot /\ d.next = 1 /\ d.found = {} /\ bmLeft(d) = lot
    BY <2>5 DEF bmLeft
  <2>7. Len(calls') = 1 /\ DOMAIN calls' = 1..1 /\ calls'[1] = d
    BY <2>1, <2>5 DEF BM!Called
  <2>8. bmCallFound(1)'
    BY <1>1, <2>1, <2>4, <2>6, <2>7, BatchInnermost
  <2>9. \A p \in whole' : BM!Fits(whole, p)'
    BY <1>1, <2>1, <2>2 DEF BM!Fits
  <2> QED
    BY <2>1, <2>6, <2>7, <2>8, <2>9
<1> QED
  BY <1>1, <1>2 DEF bmExact

(* The half to prove is what the call has not proved yet, but for the rest. *)
LEMMA BatchHalfLeft ==
  ASSUME NEW c, NEW d, c.next \in 1..2, d.list = c.list, d.next = c.next + 1
  PROVE  /\ bmLeft(c) = BM!Halves(c.list)[c.next] \cup bmLeft(d)
         /\ BM!Halves(c.list)[c.next] \subseteq c.list
<1>1. /\ BM!Halves(c.list)[1] \cup BM!Halves(c.list)[2] = c.list
      /\ BM!Halves(c.list)[c.next] \subseteq c.list
  BY BatchHalves
<1>2. CASE c.next = 1
  BY <1>1, <1>2 DEF bmLeft
<1>3. CASE c.next = 2
  BY <1>1, <1>3 DEF bmLeft
<1> QED
  BY <1>1, <1>2, <1>3

(* A lot of one at most, with somebody faulty, is that one.                *)
LEMMA BatchOne ==
  ASSUME ServersAssumption, NEW lot \in SUBSET PR, BM!Cardinality(lot) <= 1, bmFaulty \cap lot # {}
  PROVE  lot \subseteq bmFaulty
<1>1. BM!Cardinality(lot) = Cardinality(lot)
  BY DEF BM!Cardinality, Cardinality, BM!IsFiniteSet, IsFiniteSet
<1>2. IsFiniteSet(PR)
  <2>1. Batch \in Seq(PR) /\ PR = {Batch[k] : k \in DOMAIN Batch}
    BY DEF ServersAssumption, BM!BatchAssumption
  <2>2. Len(Batch) \in Nat /\ DOMAIN Batch = 1..Len(Batch) /\ Batch \in [1..Len(Batch) -> PR]
    BY <2>1
  <2>3. Batch \in Surjection(1..Len(Batch), PR)
    BY <2>1, <2>2 DEF Surjection
  <2>4. IsFiniteSet(1..Len(Batch))
    BY <2>2, FS_Interval
  <2> QED
    BY <2>3, <2>4, FS_Surjection
<1>3. IsFiniteSet(lot) /\ Cardinality(lot) \in Nat
  BY <1>2, FS_Subset, FS_CardinalityType
<1>4. PICK p \in lot : p \in bmFaulty
  OBVIOUS
<1>5. ASSUME NEW q \in lot, q # p
      PROVE  FALSE
  <2>1. IsFiniteSet({p}) /\ Cardinality({p}) = 1
    BY FS_Singleton
  <2>2. Cardinality({p} \cup {q}) = 2
    <3>1. PICK T : T = {p}
      OBVIOUS
    <3>2. IsFiniteSet(T) /\ Cardinality(T) = 1 /\ q \notin T
      BY <1>5, <2>1, <3>1
    <3>3. Cardinality(T \cup {q}) = Cardinality(T) + 1
      BY <3>2, FS_AddElement
    <3> QED
      BY <3>1, <3>2, <3>3
  <2>3. {p} \cup {q} \in SUBSET lot
    BY <1>4, <1>5
  <2>4. Cardinality({p} \cup {q}) <= Cardinality(lot)
    BY <1>3, <2>3, FS_Subset
  <2> QED
    BY <1>1, <1>3, <2>2, <2>4
<1> QED
  BY <1>4, <1>5

(* ... when a half is proved.                                              *)
LEMMA BatchExactHalf ==
  ASSUME ServersAssumption, bmInv, BM!ProveHalf, bmExact
  PROVE  bmExact'
<1>1. bmCallType /\ pc = "bisect"
  BY DEF bmInv, bmTypes, BM!ProveHalf
<1>2. /\ BM!Inner \in bmCall /\ BM!Outer \in Seq(bmCall)
      /\ Len(calls) \in Nat \ {0} /\ BM!Inner = calls[Len(calls)]
      /\ Len(BM!Outer) = Len(calls) - 1
      /\ \A k \in 1..(Len(calls) - 1) : BM!Outer[k] = calls[k]
      /\ DOMAIN calls = 1..Len(calls)
  BY <1>1, BatchCalls DEF bmCallType
<1>3. PICK lot \in SUBSET PR, v \in {"passed", "failed", "refused"}, rest \in bmCall :
           /\ BM!Inner.next <= 2 /\ lot \in BM!Built(BM!Halves(BM!Inner.list)[BM!Inner.next])
           /\ BM!Verdict(lot, v)
           /\ rest = [BM!Inner EXCEPT !.next = @ + 1, !.failed = @ \/ v = "failed"]
           /\ \/ /\ v = "passed" /\ calls' = Append(BM!Outer, rest)
                 /\ UNCHANGED <<pc, stopped, culprits, interaction>>
              \/ /\ v = "failed" /\ BM!Cardinality(lot) <= 1
                 /\ \E last \in bmCall :
                      /\ last = [rest EXCEPT !.found = @ \cup lot]
                      /\ calls' = Append(BM!Outer, last)
                 /\ UNCHANGED <<pc, stopped, culprits, interaction>>
              \/ /\ v = "failed" /\ BM!Cardinality(lot) > 1 /\ BM!Called(lot) \in bmCall
                 /\ calls' = Append(Append(BM!Outer, rest), BM!Called(lot))
                 /\ UNCHANGED <<pc, stopped, culprits, interaction>>
              \/ /\ v = "refused" /\ BM!Stop(Nobody)
                 /\ calls' = <<>> /\ culprits' = {} /\ interaction' = FALSE
  BY <1>1, BatchHalf
<1>4. /\ bmFaulty' = bmFaulty /\ (bmFair' => bmFair) /\ base' = base /\ whole' = whole
      /\ (interaction' = interaction \/ interaction' = FALSE) /\ pc' \in {"bisect", "stopped"}
  <2>1. whole' = whole
    BY DEF BM!ProveHalf
  <2>2. base' = base
    BY <1>3 DEF BM!Verdict, BM!remoteVars
  <2>3. (interaction' = interaction \/ interaction' = FALSE) /\ pc' \in {"bisect", "stopped"}
    BY <1>1, <1>3 DEF BM!Stop
  <2> QED
    BY <1>1, <2>1, <2>2, <2>3, BatchFair DEF BM!Next, BM!BatchStep
<1>a. PICK m \in Nat \ {0} : m = Len(calls)
  BY <1>2
<1> DEFINE c == calls[m]
           half == BM!Halves(c.list)[c.next]
<1>5. ASSUME bmFair', pc' = "bisect"
      PROVE  /\ calls'[1].list = whole' /\ \A p \in whole' : BM!Fits(whole, p)'
             /\ \A k \in DOMAIN calls' : bmCallFound(k)'
  <2>1. /\ bmFair /\ calls[1].list = whole /\ \A p \in whole : BM!Fits(whole, p)
        /\ \A k \in 1..m : bmCallFound(k)
    BY <1>1, <1>2, <1>a, <1>4, <1>5 DEF bmExact
  <2>2. \A p \in whole' : BM!Fits(whole, p)'
    BY <1>4, <2>1 DEF BM!Fits
  <2>3. /\ c \in bmCall /\ c.next \in 1..2 /\ c.list \subseteq whole /\ bmFaulty \cap c.list # {}
        /\ bmFaulty \cap c.list = c.found \cup (bmFaulty \cap bmLeft(c))
        /\ ~c.failed => bmFaulty \cap c.list \subseteq bmLeft(c)
    <3>1. c \in bmCall /\ c.next \in 1..2
      BY <1>2, <1>a, <1>3 DEF bmCall
    <3>2. bmCallFound(m) /\ bmInside(m) = {}
      BY <1>2, <1>a, <2>1 DEF bmInside
    <3> QED
      BY <3>1, <3>2 DEF bmCallFound
  <2>4. rest.list = c.list /\ rest.next = c.next + 1 /\ rest.found = c.found
        /\ (rest.failed <=> c.failed \/ v = "failed")
    BY <1>2, <1>a, <1>3 DEF bmCall
  <2>5. bmLeft(c) = half \cup bmLeft(rest) /\ half \subseteq c.list
    BY <2>3, <2>4, BatchHalfLeft
  <2>6. lot = half
    <3>1. half \in SUBSET whole /\ lot \in BM!Built(half)
      BY <1>2, <1>a, <1>3, <2>3, <2>5
    <3>2. base = {}
      BY <2>1 DEF bmFair
    <3> QED
      BY <2>1, <3>1, <3>2, BatchBuilt
  <2>7. v \in {BM!Truth(lot), "refused"}
    BY <1>3, <1>5 DEF BM!Verdict, bmFair
  <2>8. v # "refused"
    BY <1>3, <1>5 DEF BM!Stop
  <2>9. (v = "passed" => bmFaulty \cap half = {}) /\ (v = "failed" => bmFaulty \cap half # {})
    BY <2>1, <2>6, <2>7, <2>8, BatchTruth
  <2>10. ASSUME NEW d \in bmCall, calls' = Append(BM!Outer, d), d.list = c.list,
                bmFaulty \cap d.list = d.found \cup (bmFaulty \cap bmLeft(d)),
                ~d.failed => bmFaulty \cap d.list \subseteq bmLeft(d)
         PROVE  calls'[1].list = whole' /\ \A k \in DOMAIN calls' : bmCallFound(k)'
    <3>1. /\ Len(calls') = m /\ DOMAIN calls' = 1..m /\ calls'[m] = d
          /\ \A k \in 1..(m - 1) : calls'[k] = calls[k]
      BY <1>2, <1>a, <2>10
    <3>2. (\A k \in 1..(m - 1) : bmCallFound(k)') /\ calls'[1].list = whole'
      BY <1>2, <1>a, <1>4, <2>1, <2>10, <3>1, BatchAround
    <3>3. bmCallFound(m)'
      BY <1>2, <1>a, <1>4, <2>3, <2>10, <3>1, BatchInnermost
    <3> QED
      BY <1>2, <1>a, <3>1, <3>2, <3>3
  <2>11. CASE v = "passed"
    <3>1. calls' = Append(BM!Outer, rest)
      BY <1>3, <2>11
    <3>2. bmFaulty \cap half = {}
      BY <2>9, <2>11
    <3>3. bmFaulty \cap bmLeft(c) = bmFaulty \cap bmLeft(rest)
      BY <2>5, <3>2
    <3>4. ~rest.failed => bmFaulty \cap rest.list \subseteq bmLeft(rest)
      BY <2>3, <2>4, <3>3
    <3>5. bmFaulty \cap rest.list = rest.found \cup (bmFaulty \cap bmLeft(rest))
      BY <2>3, <2>4, <3>3
    <3> QED
      BY <2>2, <2>4, <2>10, <3>1, <3>4, <3>5
  <2>12. CASE /\ v = "failed" /\ BM!Cardinality(lot) <= 1
                /\ \E last \in bmCall :
                     last = [rest EXCEPT !.found = @ \cup lot] /\ calls' = Append(BM!Outer, last)
    <3>1. PICK last \in bmCall : last = [rest EXCEPT !.found = @ \cup lot] /\ calls' = Append(BM!Outer, last)
      BY <2>12
    <3>2. last.list = c.list /\ last.found = c.found \cup half /\ last.failed /\ last.next = rest.next
      BY <2>4, <2>6, <2>12, <3>1 DEF bmCall
    <3>3. half \subseteq bmFaulty
      BY <2>6, <2>9, <2>12, BatchOne
    <3>4. bmLeft(last) = bmLeft(rest)
      BY <2>4, <3>2 DEF bmLeft
    <3>5. bmFaulty \cap last.list = last.found \cup (bmFaulty \cap bmLeft(last))
      BY <2>3, <2>5, <3>2, <3>3, <3>4
    <3> QED
      BY <2>2, <2>10, <3>1, <3>2, <3>5
  <2>13. CASE /\ v = "failed" /\ BM!Called(lot) \in bmCall
                /\ calls' = Append(Append(BM!Outer, rest), BM!Called(lot))
    <3>1. calls' = Append(Append(BM!Outer, rest), BM!Called(lot)) /\ BM!Called(lot) \in bmCall
      BY <2>13
    <3>2. PICK e \in bmCall : e = BM!Called(lot)
      BY <3>1
    <3>3. e.list = half /\ e.next = 1 /\ e.found = {} /\ bmLeft(e) = half
      BY <2>6, <3>2 DEF BM!Called, bmLeft
    <3>4. /\ Len(calls') = m + 1 /\ DOMAIN calls' = 1..(m + 1) /\ calls'[m] = rest /\ calls'[m + 1] = e
          /\ \A k \in 1..(m - 1) : calls'[k] = calls[k]
      BY <1>2, <1>a, <3>1, <3>2
    <3>5. (\A k \in 1..(m - 1) : bmCallFound(k)') /\ calls'[1].list = whole'
      BY <1>2, <1>a, <1>4, <2>1, <2>4, <3>4, BatchAround
    <3>6. bmCallFound(m + 1)'
      BY <1>2, <1>a, <1>4, <2>3, <2>5, <2>9, <2>13, <3>3, <3>4, BatchInnermost
    <3>7. bmCallFound(m)'
      <4>1. bmInside(m)' = half
        BY <1>2, <1>a, <3>3, <3>4 DEF bmInside
      <4>2. rest.failed
        BY <2>4, <2>13
      <4>3. bmFaulty \cap c.list = c.found \cup (bmFaulty \cap (bmLeft(rest) \cup half))
        BY <2>3, <2>5
      <4> QED
        BY <1>4, <2>3, <2>4, <2>5, <3>4, <4>1, <4>2, <4>3 DEF bmCallFound
    <3> QED
      BY <1>2, <1>a, <2>2, <3>4, <3>5, <3>6, <3>7
  <2> QED
    BY <1>3, <2>8, <2>11, <2>12, <2>13
<1> QED
  BY <1>1, <1>4, <1>5 DEF bmExact

(* ... when a call of culprits() returns.                                  *)
LEMMA BatchExactReturn ==
  ASSUME ServersAssumption, bmInv, BM!Return, bmExact
  PROVE  bmExact'
<1>1. bmCallType /\ pc = "bisect"
  BY DEF bmInv, bmTypes, BM!Return
<1>2. /\ BM!Inner \in bmCall /\ BM!Outer \in Seq(bmCall)
      /\ Len(calls) \in Nat \ {0} /\ BM!Inner = calls[Len(calls)]
      /\ Len(BM!Outer) = Len(calls) - 1
      /\ \A k \in 1..(Len(calls) - 1) : BM!Outer[k] = calls[k]
      /\ DOMAIN calls = 1..Len(calls)
  BY <1>1, BatchCalls DEF bmCallType
<1>3. PICK m \in Nat \ {0} : m = Len(calls)
  BY <1>2
<1> DEFINE c == calls[m]
<1>4. PICK result \in SUBSET PR :
           /\ BM!Inner.next = 3
           /\ result = IF BM!Inner.failed THEN BM!Inner.found ELSE BM!Inner.list
           /\ interaction' = (interaction \/ ~BM!Inner.failed)
           /\ \/ /\ m > 1 /\ pc' = pc /\ culprits' = culprits
                 /\ \E last \in bmCall :
                      /\ last = [calls[m - 1] EXCEPT !.found = @ \cup result]
                      /\ calls' = [BM!Outer EXCEPT ![m - 1] = last]
              \/ /\ m = 1
                 /\ calls' = <<>> /\ culprits' = result /\ pc' = "bisected"
  BY <1>1, <1>3, BatchReturns
<1>5. /\ bmFaulty' = bmFaulty /\ (bmFair' => bmFair) /\ base' = base /\ whole' = whole
      /\ pc' \in {"bisect", "bisected"}
  <2>1. whole' = whole /\ base' = base
    BY DEF BM!Return, BM!remoteVars
  <2>2. pc' \in {"bisect", "bisected"}
    BY <1>1, <1>4
  <2> QED
    BY <1>1, <2>1, <2>2, BatchFair DEF BM!Next, BM!BatchStep
<1>6. ASSUME bmFair'
      PROVE  /\ bmFair /\ calls[1].list = whole /\ \A p \in whole : BM!Fits(whole, p)
             /\ \A k \in 1..m : bmCallFound(k)
             /\ c.failed /\ result = bmFaulty \cap c.list /\ ~interaction'
  <2>1. /\ bmFair /\ calls[1].list = whole /\ \A p \in whole : BM!Fits(whole, p)
        /\ \A k \in 1..m : bmCallFound(k)
        /\ ~interaction
    BY <1>1, <1>2, <1>3, <1>5, <1>6 DEF bmExact
  <2>2. bmLeft(c) = {} /\ bmInside(m) = {}
    BY <1>2, <1>3, <1>4 DEF bmLeft, bmInside
  <2>3. c.failed /\ bmFaulty \cap c.list = c.found
    <3>1. bmCallFound(m)
      BY <2>1
    <3> QED
      BY <2>2, <3>1 DEF bmCallFound
  <2>4. result = c.found /\ interaction' = interaction
    <3>1. BM!Inner = c /\ BM!Inner.failed
      BY <1>2, <1>3, <2>3
    <3>2. result = c.found
      BY <1>4, <3>1
    <3>3. ~interaction'
      BY <1>4, <2>1, <3>1
    <3>4. interaction \in BOOLEAN /\ interaction' \in BOOLEAN
      BY BatchTypes DEF bmInv, bmTypes, bmFlagType, BM!Next, BM!BatchStep
    <3> QED
      BY <2>1, <3>2, <3>3, <3>4
  <2> QED
    BY <2>1, <2>3, <2>4
<1>7. ASSUME bmFair', pc' = "bisect"
      PROVE  /\ calls'[1].list = whole' /\ \A p \in whole' : BM!Fits(whole, p)'
             /\ \A k \in DOMAIN calls' : bmCallFound(k)'
  <2>1. m > 1 /\ \E last \in bmCall :
          /\ last = [calls[m - 1] EXCEPT !.found = @ \cup result]
          /\ calls' = [BM!Outer EXCEPT ![m - 1] = last]
    BY <1>4, <1>7
  <2>2. PICK last \in bmCall :
          /\ last = [calls[m - 1] EXCEPT !.found = @ \cup result]
          /\ calls' = [BM!Outer EXCEPT ![m - 1] = last]
    BY <2>1
  <2>3. PICK n \in Nat : n = m - 1 /\ n > 0 /\ n + 1 = m
    BY <2>1
  <2>4. calls[n] \in bmCall
    BY <1>1, <1>2, <1>3, <2>3 DEF bmCallType
  <2>5. /\ last.list = calls[n].list /\ last.next = calls[n].next
        /\ last.failed = calls[n].failed /\ last.found = calls[n].found \cup result
    BY <2>2, <2>3, <2>4 DEF bmCall
  <2>6. /\ Len(calls') = n /\ DOMAIN calls' = 1..n /\ calls'[n] = last
        /\ \A k \in 1..(n - 1) : calls'[k] = calls[k]
    BY <1>2, <1>3, <2>2, <2>3
  <2>7. (\A k \in 1..(n - 1) : bmCallFound(k)') /\ calls'[1].list = whole'
    <3>1. Len(calls) \in Nat /\ Len(calls') \in Nat /\ n \in 1..Len(calls) /\ n <= Len(calls')
      BY <1>3, <2>3, <2>6
    <3>2. calls'[n].list = calls[n].list
      BY <2>5, <2>6
    <3>3. \A k \in 1..Len(calls) : bmCallFound(k)
      BY <1>3, <1>6, <1>7
    <3> QED
      BY <1>5, <1>6, <1>7, <2>6, <3>1, <3>2, <3>3, BatchAround
  <2>8. bmCallFound(n) /\ bmInside(n) = c.list /\ n # Len(calls)
    BY <1>3, <1>6, <1>7, <2>3 DEF bmInside
  <2>9. calls[n].failed /\ calls[n].list \subseteq whole /\ bmFaulty \cap calls[n].list # {}
        /\ bmFaulty \cap calls[n].list =
             calls[n].found \cup (bmFaulty \cap (bmLeft(calls[n]) \cup c.list))
    BY <2>8 DEF bmCallFound
  <2>10. bmLeft(last) = bmLeft(calls[n])
    BY <2>5 DEF bmLeft
  <2>11. bmFaulty \cap last.list = last.found \cup (bmFaulty \cap bmLeft(last))
    BY <1>6, <1>7, <2>5, <2>9, <2>10
  <2>12. bmCallFound(n)'
    BY <1>5, <2>5, <2>6, <2>9, <2>11, BatchInnermost
  <2>13. \A p \in whole' : BM!Fits(whole, p)'
    BY <1>5, <1>6, <1>7 DEF BM!Fits
  <2> QED
    BY <2>3, <2>6, <2>7, <2>12, <2>13
<1>8. ASSUME bmFair', pc' = "bisected"
      PROVE  culprits' = bmFaulty' \cap whole'
  <2>1. m = 1 /\ culprits' = result
    BY <1>1, <1>4, <1>8
  <2> QED
    BY <1>5, <1>6, <1>8, <2>1
<1> QED
  BY <1>5, <1>6, <1>7, <1>8 DEF bmExact

(* Every step keeps the bisection exact.                                   *)
LEMMA BatchExact ==
  ASSUME ServersAssumption, bmInv, bmExact, BM!Next \/ UNCHANGED bmVars
  PROVE  bmExact'
BY BatchCalm, BatchExactCalm, BatchExactWhole, BatchExactHalf, BatchExactReturn

(* BatchIsTruthful of Servers: the report of a batch tells what happened   *)
(* on GitHub, whatever others do and when; and its bisection isolates      *)
(* exactly the pull requests that break the suite alone, for any requests, *)
(* conflicts between them and breaks.                                      *)
THEOREM BatchTruthful == Spec => []BatchIsTruthful
<1> USE ServersAssumption
<1> DEFINE Inv == part = "batch" => bmInv /\ bmExact
<1>1. Init => Inv
  <2>1. BM!Init => bmExact
    BY DEF BM!Init, bmExact
  <2> QED
    BY <2>1, BatchInit DEF Init
<1>2. Inv /\ [Next]_vars => Inv'
  BY BatchStep, PartStays, BatchKeeps, BatchExact
<1>3. Inv => BatchIsTruthful
  <2>1. bmExact => BM!BisectionIsExact
    BY DEF bmExact, bmFair, bmFaulty, BM!BisectionIsExact
  <2> QED
    BY <2>1, BatchReports DEF BatchIsTruthful
<1> QED
  BY <1>1, <1>2, <1>3, PTL DEF Spec

-----------------------------------------------------------------------------
(* Rhythm.  An execution that is still where it was started has its state  *)
(* there; in the main checkout, no commit and nobody else has a copy.  So  *)
(* locateRunState finds that state, and what is written in it stays.       *)
rhFile == [step : RH!Steps \cup {"none", "broken"}, over : BOOLEAN]
rhTreeType ==
  /\ on \in [Checkout -> Branch \cup {RH!Gone, RH!Detached}]
  /\ spot \in [Checkout -> Nat \ {0}] /\ head \in [Branch -> Nat]
  /\ commits \in Seq([Id -> rhFile])
  /\ \A c \in Checkout : spot[c] <= Len(commits)
  /\ \A b \in Branch : head[b] <= Len(commits)
rhFileType ==
  /\ files \in [Checkout -> [Id -> rhFile]]
  /\ home \in [Id -> Checkout \cup {RH!Nowhere, RH!Unknown}]
rhCmd ==
  [pc : {"idle", "find", "judge", "go", "clean", "journal", "start", "running"},
   at : Checkout, named : BOOLEAN, id : Id \cup {RH!NoId}, holder : Checkout,
   sole : SUBSET Checkout, due : {"task", "unknown"}, missed : BOOLEAN, clean : BOOLEAN]
rhCmdType == cmd \in rhCmd
rhTypes == rhTreeType /\ rhFileType /\ rhCmdType

rhOnce == \A c, d \in Checkout : on[c] = on[d] /\ on[c] \in Branch => c = d
rhLone(c, id) ==
  /\ \A d \in Checkout \ {c} : files[d][id] = RH!NoFile
  /\ \A k \in DOMAIN commits : commits[k][id] = RH!NoFile
rhHome ==
  \A id \in Id :
    /\ home[id] \in Checkout =>
         /\ on[home[id]] # RH!Gone /\ files[home[id]][id] # RH!NoFile
         /\ on[home[id]] = <<"main">> => rhLone(home[id], id)
    /\ home[id] = RH!Nowhere =>
         /\ \A c \in Checkout : files[c][id] = RH!NoFile
         /\ \A k \in DOMAIN commits : commits[k][id] = RH!NoFile

rhSole ==
  /\ cmd.pc \in {"judge", "clean", "journal"} => cmd.id \in Id
  /\ \A c \in cmd.sole : c = cmd.holder /\ cmd.id \in Id /\ home[cmd.id] # RH!Nowhere
rhDue ==
  cmd.due = "task" => cmd.pc \in {"clean", "journal", "start", "running"}
rhOver ==
  cmd.due = "task" /\ cmd.pc \in {"start", "running"} =>
    \A c \in cmd.sole \cap RH!Home(cmd.id) : files[c][cmd.id] # RH!Unreadable => files[c][cmd.id].over
rhInv == rhTypes /\ rhOnce /\ rhHome /\ rhSole /\ rhDue /\ rhOver /\ cmd.missed = FALSE

(* The constants, and what their names tell apart.                         *)
LEMMA RhythmNames ==
  ASSUME ServersAssumption
  PROVE  /\ RH!Nowhere \notin Checkout /\ RH!Unknown \notin Checkout /\ RH!Nowhere # RH!Unknown
         /\ RH!Gone \notin Branch /\ RH!Detached \notin Branch /\ RH!Gone # RH!Detached
         /\ MainCheckout \in Checkout /\ <<"main">> \in Branch /\ RH!NoId \notin Id
         /\ \A id \in Id : RH!Own(id) \in Branch /\ RH!Own(id) # <<"main">>
         /\ OnFirst \in [Checkout -> Branch \cup {RH!Gone, RH!Detached}]
         /\ RH!NoFile \in rhFile /\ RH!Unreadable \in rhFile /\ RH!NoFile # RH!Unreadable
         /\ IsFiniteSet(Checkout)
<1>1. /\ RH!Nowhere \notin Checkout /\ RH!Unknown \notin Checkout /\ RH!Nowhere # RH!Unknown
      /\ RH!Gone \notin Branch /\ RH!Detached \notin Branch
      /\ MainCheckout \in Checkout /\ <<"main">> \in Branch /\ RH!NoId \notin Id
      /\ OnFirst \in [Checkout -> Branch \cup {RH!Gone, RH!Detached}]
  BY DEF ServersAssumption, RH!RhythmAssumption, RH!Nowhere, RH!Unknown
<1>2. RH!Gone # RH!Detached
  BY DEF RH!Gone, RH!Detached
<1>3. /\ RH!NoFile \in rhFile /\ RH!Unreadable \in rhFile /\ RH!NoFile # RH!Unreadable
  BY DEF RH!NoFile, RH!Unreadable, rhFile
<1>4. ASSUME NEW id \in Id
      PROVE  RH!Own(id) \in Branch /\ RH!Own(id) # <<"main">>
  <2>1. RH!Own(id) \in Branch /\ id \in Seq(STRING) /\ id # <<>>
    BY DEF ServersAssumption, RH!RhythmAssumption, RH!Own, RH!NoId
  <2>2. Len(id) > 0 /\ Len(id) \in Nat
    BY <2>1
  <2>3. Len(RH!Own(id)) = 1 + Len(id)
    BY <2>1 DEF RH!Own
  <2>4. Len(RH!Own(id)) # 1
    BY <2>2, <2>3
  <2>5. Len(<<"main">>) = 1
    OBVIOUS
  <2> QED
    BY <2>1, <2>4, <2>5
<1>5. IsFiniteSet(Checkout)
  <2>1. RH!IsFiniteSet(Checkout)
    BY DEF ServersAssumption, RH!RhythmAssumption
  <2> QED
    BY <2>1 DEF RH!IsFiniteSet, IsFiniteSet
<1> QED
  BY <1>1, <1>2, <1>3, <1>4, <1>5

(* A commit, and what it leaves of the others.                             *)
rhNewCommit(content) ==
  /\ Len(commits) \in Nat /\ DOMAIN commits = 1..Len(commits)
  /\ Len(commits') = Len(commits) + 1 /\ DOMAIN commits' = 1..(Len(commits) + 1)
  /\ \A k \in 1..Len(commits) : commits'[k] = commits[k]
  /\ commits'[Len(commits) + 1] = content /\ on' = on
(* A commit adds its content and keeps the types.                          *)
LEMMA RhythmCommit ==
  ASSUME ServersAssumption, rhTreeType, NEW c \in Checkout, NEW content \in [Id -> rhFile],
         RH!CommitAs(c, content)
  PROVE  rhTreeType' /\ rhNewCommit(content)
<1>1. /\ commits' = Append(commits, content) /\ commits \in Seq([Id -> rhFile])
      /\ on' = on /\ spot' = [spot EXCEPT ![c] = Len(commits')]
      /\ head' = head \/ head' = [head EXCEPT ![on[c]] = Len(commits')]
  BY DEF RH!CommitAs, rhTreeType
<1>2. rhNewCommit(content)
  BY <1>1 DEF rhNewCommit
<1>3. commits' \in Seq([Id -> rhFile])
  BY <1>1
<1>4. /\ spot' \in [Checkout -> Nat \ {0}] /\ \A d \in Checkout : spot'[d] <= Len(commits')
      /\ head' \in [Branch -> Nat] /\ \A b \in Branch : head'[b] <= Len(commits')
  <2>1. PICK n \in Nat \ {0} : n = Len(commits') /\ n = Len(commits) + 1
    BY <1>2 DEF rhNewCommit
  <2>2. \A d \in Checkout : spot[d] \in Nat /\ spot[d] <= n
    BY <1>2, <2>1 DEF rhNewCommit, rhTreeType
  <2>3. \A b \in Branch : head[b] \in Nat /\ head[b] <= n
    BY <1>2, <2>1 DEF rhNewCommit, rhTreeType
  <2>4. spot' \in [Checkout -> Nat \ {0}] /\ \A d \in Checkout : spot'[d] <= n
    BY <1>1, <2>1, <2>2 DEF rhTreeType
  <2>5. head' \in [Branch -> Nat] /\ \A b \in Branch : head'[b] <= n
    <3>1. CASE head' = head
      BY <2>3, <3>1 DEF rhTreeType
    <3>2. CASE head' = [head EXCEPT ![on[c]] = n]
      <4>1. CASE on[c] \in Branch
        BY <2>1, <2>3, <3>2, <4>1 DEF rhTreeType
      <4>2. CASE on[c] \notin Branch
        <5>1. head' = head
          BY <3>2, <4>2 DEF rhTreeType
        <5> QED
          BY <3>1, <5>1
      <4> QED
        BY <4>1, <4>2
    <3> QED
      BY <1>1, <2>1, <3>1, <3>2
  <2> QED
    BY <2>1, <2>4, <2>5
<1> QED
  BY <1>1, <1>2, <1>3, <1>4 DEF rhTreeType

(* A state written in a checkout.                                          *)
rhWritten(c, id, x) ==
  \A d \in Checkout, j \in Id : files'[d][j] = IF d = c /\ j = id THEN x ELSE files[d][j]
(* What is written is what a checkout then has, and the rest stays.        *)
LEMMA RhythmWrite ==
  ASSUME rhFileType, NEW c \in Checkout, NEW id \in Id, NEW x \in rhFile,
         files' = [files EXCEPT ![c][id] = x]
  PROVE  files' \in [Checkout -> [Id -> rhFile]] /\ rhWritten(c, id, x)
BY DEF rhFileType, rhWritten

(* A set of one at most is that of any of its elements.                    *)
LEMMA AtMostOne ==
  ASSUME NEW F, IsFiniteSet(F), Cardinality(F) <= 1, NEW x \in F
  PROVE  F = {x}
<1>1. Cardinality(F) \in Nat
  BY FS_CardinalityType
<1>2. ASSUME NEW y \in F, y # x
      PROVE  FALSE
  <2>1. IsFiniteSet({x}) /\ Cardinality({x}) = 1
    BY FS_Singleton
  <2>2. PICK T : T = {x}
    OBVIOUS
  <2>3. Cardinality(T \cup {y}) = Cardinality(T) + 1
    BY <1>2, <2>1, <2>2, FS_AddElement
  <2>4. T \cup {y} \in SUBSET F
    BY <1>2, <2>2
  <2>5. Cardinality(T \cup {y}) <= Cardinality(F)
    BY <2>4, FS_Subset
  <2> QED
    BY <1>1, <2>1, <2>2, <2>3, <2>5
<1> QED
  BY <1>2

(* What locateRunState finds, for one execution.                           *)
rhHolders(id) == {c \in RH!Present : files[c][id] # RH!NoFile}
(* The holders of a state are checkouts: finitely many.                    *)
LEMMA RhythmHolders ==
  ASSUME ServersAssumption, NEW id \in Id
  PROVE  /\ rhHolders(id) \subseteq Checkout /\ IsFiniteSet(rhHolders(id))
         /\ \A F : RH!Cardinality(F) = Cardinality(F)
         /\ Cardinality(rhHolders(id)) \in Nat /\ Cardinality(Checkout) \in Nat
         /\ Cardinality(rhHolders(id)) <= Cardinality(Checkout)
<1>1. rhHolders(id) \subseteq Checkout
  BY DEF rhHolders, RH!Present
<1>2. IsFiniteSet(Checkout)
  BY RhythmNames
<1>3. \A F : RH!Cardinality(F) = Cardinality(F)
  BY DEF RH!Cardinality, Cardinality, RH!IsFiniteSet, IsFiniteSet
<1> QED
  BY <1>1, <1>2, <1>3, FS_Subset, FS_CardinalityType

(* Unless it refuses, what it finds holds a state.                         *)
LEMMA RhythmFinds ==
  ASSUME ServersAssumption, NEW id \in Id, ~RH!Ambiguous(RH!Located(id))
  PROVE  RH!Located(id) \subseteq rhHolders(id)
<1>1. /\ rhHolders(id) \subseteq Checkout
      /\ \A F : RH!Cardinality(F) = Cardinality(F)
      /\ Cardinality(rhHolders(id)) \in Nat /\ Cardinality(Checkout) \in Nat
      /\ Cardinality(rhHolders(id)) <= Cardinality(Checkout)
  BY RhythmHolders
<1> DEFINE own == {c \in rhHolders(id) : on[c] = RH!Own(id)}
<1>2. RH!Located(id) = IF RH!Cardinality(rhHolders(id)) <= 1 THEN rhHolders(id)
                       ELSE IF RH!Cardinality(own) = 1 THEN own
                       ELSE IF own = {} /\ MainCheckout \in rhHolders(id) THEN {MainCheckout}
                       ELSE Checkout
  BY DEF RH!Located, rhHolders
<1>3. CASE RH!Cardinality(rhHolders(id)) <= 1
  BY <1>2, <1>3
<1>4. CASE ~(RH!Cardinality(rhHolders(id)) <= 1)
  <2>1. Cardinality(Checkout) > 1
    BY <1>1, <1>4
  <2>2. RH!Located(id) # Checkout
    BY <1>1, <2>1 DEF RH!Ambiguous
  <2> QED
    BY <1>2, <1>4, <2>2
<1> QED
  BY <1>3, <1>4

(* The copy a command of the engine reads and writes is a state.           *)
LEMMA RhythmCopies ==
  ASSUME ServersAssumption, NEW id \in Id, NEW c \in RH!Present,
         ~RH!Ambiguous(RH!StateCheckout(c, id)), NEW h \in RH!StateCheckout(c, id)
  PROVE  h \in Checkout /\ on[h] # RH!Gone /\ files[h][id] # RH!NoFile
<1>1. CASE files[c][id] # RH!NoFile
  BY <1>1 DEF RH!StateCheckout, RH!Present
<1>2. CASE files[c][id] = RH!NoFile
  <2>1. RH!StateCheckout(c, id) = RH!Located(id)
    BY <1>2 DEF RH!StateCheckout
  <2>2. h \in rhHolders(id)
    BY <2>1, RhythmFinds
  <2> QED
    BY <2>2 DEF rhHolders, RH!Present
<1> QED
  BY <1>1, <1>2

(* The home of an execution is where its state is found.                   *)
LEMMA RhythmLocated ==
  ASSUME ServersAssumption, rhTypes, rhOnce, rhHome, NEW id \in Id, NEW c \in RH!Home(id)
  PROVE  /\ RH!Located(id) = {c} /\ ~RH!Ambiguous(RH!Located(id))
         /\ c \in Checkout /\ home[id] = c /\ files[c][id] # RH!NoFile
<1>1. /\ c \in RH!Present /\ c \in Checkout /\ home[id] = c
      /\ on[c] = RH!Own(id) \/ (c = MainCheckout /\ on[c] = <<"main">>)
  BY DEF RH!Home, RH!Present
<1>2. files[c][id] # RH!NoFile /\ (on[c] = <<"main">> => rhLone(c, id)) /\ c \in rhHolders(id)
  BY <1>1 DEF rhHome, rhHolders
<1>3. /\ rhHolders(id) \subseteq Checkout /\ IsFiniteSet(rhHolders(id))
      /\ \A F : RH!Cardinality(F) = Cardinality(F)
  BY RhythmHolders
<1> DEFINE own == {d \in rhHolders(id) : on[d] = RH!Own(id)}
<1>4. RH!Located(id) = IF RH!Cardinality(rhHolders(id)) <= 1 THEN rhHolders(id)
                       ELSE IF RH!Cardinality(own) = 1 THEN own
                       ELSE IF own = {} /\ MainCheckout \in rhHolders(id) THEN {MainCheckout}
                       ELSE Checkout
  BY DEF RH!Located, rhHolders
<1>5. RH!Located(id) = {c}
  <2>1. CASE RH!Cardinality(rhHolders(id)) <= 1
    BY <1>2, <1>3, <1>4, <2>1, AtMostOne
  <2>2. CASE on[c] = RH!Own(id) /\ ~(RH!Cardinality(rhHolders(id)) <= 1)
    <3>1. RH!Own(id) \in Branch
      BY RhythmNames
    <3>2. own = {c}
      BY <1>1, <1>2, <1>3, <2>2, <3>1 DEF rhOnce
    <3>3. RH!Cardinality(own) = 1
      BY <1>3, <3>2, FS_Singleton
    <3> QED
      BY <1>4, <2>2, <3>2, <3>3
  <2>3. CASE on[c] = <<"main">>
    <3>1. \A d \in Checkout : d # c => files[d][id] = RH!NoFile
      BY <1>2, <2>3 DEF rhLone
    <3>2. rhHolders(id) = {c}
      BY <1>1, <1>2, <1>3, <3>1 DEF rhHolders
    <3>3. RH!Cardinality(rhHolders(id)) = 1
      BY <1>3, <3>2, FS_Singleton
    <3> QED
      BY <2>1, <3>3
  <2> QED
    BY <1>1, <2>1, <2>2, <2>3
<1>6. ~RH!Ambiguous(RH!Located(id))
  <2>1. RH!Cardinality({c}) = 1
    BY <1>3, FS_Singleton
  <2> QED
    BY <1>5, <2>1 DEF RH!Ambiguous
<1> QED
  BY <1>1, <1>2, <1>5, <1>6

(* Committing the state of an execution.                                   *)
rhCommitted(c, id) ==
  \/ UNCHANGED RH!tree
  \/ /\ on[c] # <<"main">>
     /\ \E content \in [Id -> rhFile] :
          /\ RH!CommitAs(c, content)
          /\ \A j \in Id \ {id} : content[j] = commits[spot[c]][j]
(* commitRunState commits the file of the execution only, or nothing.      *)
LEMMA RhythmCommitState ==
  ASSUME ServersAssumption, rhTreeType, NEW c \in Checkout, NEW id \in Id, NEW x \in rhFile,
         RH!CommitState(c, id, x)
  PROVE  rhCommitted(c, id)
<1>1. CASE UNCHANGED RH!tree
  BY <1>1 DEF rhCommitted
<1>2. CASE /\ Len(on[c]) > Len(id) /\ SubSeq(on[c], 1, Len(id) + 1) = RH!Own(id)
           /\ RH!CommitAs(c, [commits[spot[c]] EXCEPT ![id] = x])
  <2>1. commits[spot[c]] \in [Id -> rhFile]
    BY DEF rhTreeType
  <2>2. PICK content : content = [commits[spot[c]] EXCEPT ![id] = x]
    OBVIOUS
  <2>3. content \in [Id -> rhFile] /\ \A j \in Id \ {id} : content[j] = commits[spot[c]][j]
    BY <2>1, <2>2
  <2>4. on[c] # <<"main">>
    <3>1. id \in Seq(STRING) /\ id # <<>>
      BY DEF ServersAssumption, RH!RhythmAssumption, RH!NoId
    <3>2. Len(id) > 0 /\ Len(id) \in Nat
      BY <3>1
    <3>3. ~(1 > Len(id))
      BY <3>2
    <3>4. Len(<<"main">>) = 1
      OBVIOUS
    <3> QED
      BY <1>2, <3>3, <3>4
  <2> QED
    BY <1>2, <2>2, <2>3, <2>4 DEF rhCommitted
<1> QED
  BY <1>1, <1>2 DEF RH!CommitState

(* A commit of the state, or none, keeps the types of the tree.            *)
LEMMA RhythmCommitted ==
  ASSUME ServersAssumption, rhTreeType, NEW c \in Checkout, NEW id \in Id, rhCommitted(c, id)
  PROVE  /\ rhTreeType' /\ on' = on
         /\ \/ commits' = commits /\ spot' = spot /\ head' = head
            \/ \E content \in [Id -> rhFile] :
                 /\ rhNewCommit(content) /\ on[c] # <<"main">>
                 /\ \A j \in Id \ {id} : content[j] = commits[spot[c]][j]
<1>1. CASE UNCHANGED RH!tree
  BY <1>1 DEF RH!tree, rhTreeType
<1>2. ASSUME NEW content \in [Id -> rhFile], RH!CommitAs(c, content), on[c] # <<"main">>,
             \A j \in Id \ {id} : content[j] = commits[spot[c]][j]
      PROVE  /\ rhTreeType' /\ on' = on /\ rhNewCommit(content)
  BY <1>2, RhythmCommit DEF rhNewCommit
<1> QED
  BY <1>1, <1>2 DEF rhCommitted

(* What a step of a suite makes of its command.                            *)
LEMMA RhythmIdle == ServersAssumption => RH!Idle \in rhCmd
BY RhythmNames DEF RH!Idle, rhCmd

(* ... when it goes on.                                                    *)
LEMMA RhythmGoes ==
  ASSUME rhCmdType, NEW p \in {"idle", "find", "judge", "go", "clean", "journal", "start", "running"},
         NEW b \in {"task", "unknown"}, cmd' = [cmd EXCEPT !.pc = p, !.due = b]
  PROVE  /\ cmd' \in rhCmd /\ cmd'.pc = p /\ cmd'.due = b /\ cmd'.id = cmd.id
         /\ cmd'.holder = cmd.holder /\ cmd'.sole = cmd.sole /\ cmd'.missed = cmd.missed
BY DEF rhCmdType, rhCmd

(* ... when it only goes on to the next step.                              *)
LEMMA RhythmPasses ==
  ASSUME rhCmdType, NEW p \in {"idle", "find", "judge", "go", "clean", "journal", "start", "running"},
         \/ cmd' = [cmd EXCEPT !.pc = p]
         \/ \E b \in BOOLEAN : cmd' = [cmd EXCEPT !.pc = p, !.clean = b]
  PROVE  /\ cmd' \in rhCmd /\ cmd'.pc = p /\ cmd'.due = cmd.due /\ cmd'.id = cmd.id
         /\ cmd'.holder = cmd.holder /\ cmd'.sole = cmd.sole /\ cmd'.missed = cmd.missed
BY DEF rhCmdType, rhCmd

(* The home of an execution is a checkout.                                 *)
LEMMA RhythmHomes == \A id \in Id : RH!Home(id) \subseteq Checkout
BY DEF RH!Home, RH!Present

(* Every step of the executions keeps the types.                          *)
LEMMA RhythmTypes ==
  ASSUME ServersAssumption, rhInv, RH!Next \/ UNCHANGED rhVars
  PROVE  /\ rhTreeType'
         /\ rhFileType'
         /\ rhCmdType'
<1>1. rhTreeType /\ rhFileType /\ rhCmdType
  BY DEF rhInv, rhTypes
<1>2. /\ MainCheckout \in Checkout /\ RH!NoFile \in rhFile /\ RH!Unreadable \in rhFile
      /\ OnFirst \in [Checkout -> Branch \cup {RH!Gone, RH!Detached}]
  BY RhythmNames
<1>3. ASSUME RH!JournalOverride
      PROVE  /\ rhTreeType'
             /\ rhFileType'
             /\ rhCmdType'
  <2>1. rhTreeType'
    BY <1>1, <1>2, <1>3
    DEF RH!JournalOverride, RH!Suite, RH!Goto, RH!Refuse, rhTreeType, RH!tree,
        RH!Present
  <2>2. rhFileType'
    <3>1. CASE files' = files
      BY <1>1, <1>3, <3>1 DEF RH!JournalOverride, RH!Suite, rhFileType
    <3>2. CASE files' = [files EXCEPT ![cmd.holder][cmd.id].over = TRUE]
      <4>1. cmd.holder \in Checkout /\ cmd.id \in Id
        BY <1>1, <1>3 DEF RH!JournalOverride, rhInv, rhSole, rhCmdType, rhCmd
      <4>2. PICK x : x = [files[cmd.holder][cmd.id] EXCEPT !.over = TRUE]
        OBVIOUS
      <4>3. x \in rhFile
        <5>1. files[cmd.holder][cmd.id] \in rhFile
          BY <1>1, <4>1 DEF rhFileType
        <5> QED
          BY <4>2, <5>1 DEF rhFile
      <4>4. files' = [files EXCEPT ![cmd.holder][cmd.id] = x]
        BY <1>1, <3>2, <4>1, <4>2 DEF rhFileType
      <4> QED
        BY <1>1, <1>3, <4>1, <4>3, <4>4, RhythmWrite
        DEF RH!JournalOverride, RH!Suite, rhFileType
    <3> QED
      BY <1>3, <3>1, <3>2 DEF RH!JournalOverride
  <2>3. rhCmdType'
    <3>1. cmd' = RH!Idle \/ cmd' = [cmd EXCEPT !.pc = "journal"] \/ cmd' = [cmd EXCEPT !.pc = "start"]
          \/ \E b \in BOOLEAN : cmd' = [cmd EXCEPT !.pc = "running", !.clean = b]
      BY <1>3 DEF RH!JournalOverride, RH!Goto, RH!Refuse
    <3> QED
      BY <1>1, <3>1, RhythmIdle, RhythmPasses DEF rhCmdType
  <2> QED
    BY <2>1, <2>2, <2>3
<1>4. ASSUME NEW yes \in BOOLEAN, RH!Judge(yes)
      PROVE  /\ rhTreeType'
             /\ rhFileType'
             /\ rhCmdType'
  <2>1. rhTreeType'
    BY <1>1, <1>2, <1>4
    DEF RH!Judge, RH!Suite, RH!Refuse, rhTreeType, RH!tree, RH!Present
  <2>2. rhFileType'
    BY <1>1, <1>2, <1>4 DEF RH!Judge, RH!Suite, RH!Refuse, rhFileType, RH!Present
  <2>3. rhCmdType'
    <3>1. PICK b \in {"task", "unknown"} :
            \/ cmd' = RH!Idle
            \/ cmd' = [cmd EXCEPT !.pc = "go", !.due = b]
            \/ cmd' = [cmd EXCEPT !.pc = "clean", !.due = b]
      BY <1>4 DEF RH!Judge, RH!Refuse
    <3> QED
      BY <1>1, <3>1, RhythmIdle, RhythmGoes DEF rhCmdType
  <2> QED
    BY <2>1, <2>2, <2>3
<1>5. ASSUME NEW yes \in BOOLEAN, RH!CleanForOverride(yes)
      PROVE  /\ rhTreeType'
             /\ rhFileType'
             /\ rhCmdType'
  <2>1. rhTreeType'
    BY <1>1, <1>2, <1>5
    DEF RH!CleanForOverride, RH!Suite, RH!Goto, RH!Refuse, rhTreeType, RH!tree,
        RH!Present
  <2>2. rhFileType'
    BY <1>1, <1>2, <1>5
    DEF RH!CleanForOverride, RH!Suite, RH!Goto, RH!Refuse, rhFileType,
        RH!Present
  <2>3. rhCmdType'
    <3>1. cmd' = RH!Idle \/ cmd' = [cmd EXCEPT !.pc = "journal"] \/ cmd' = [cmd EXCEPT !.pc = "start"]
          \/ \E b \in BOOLEAN : cmd' = [cmd EXCEPT !.pc = "running", !.clean = b]
      BY <1>5 DEF RH!CleanForOverride, RH!Goto, RH!Refuse
    <3> QED
      BY <1>1, <3>1, RhythmIdle, RhythmPasses DEF rhCmdType
  <2> QED
    BY <2>1, <2>2, <2>3
<1>6. ASSUME NEW yes \in BOOLEAN, RH!StartSuite(yes)
      PROVE  /\ rhTreeType'
             /\ rhFileType'
             /\ rhCmdType'
  <2>1. rhTreeType'
    BY <1>1, <1>2, <1>6
    DEF RH!StartSuite, RH!Suite, RH!Refuse, rhTreeType, RH!tree, RH!Present
  <2>2. rhFileType'
    BY <1>1, <1>2, <1>6
    DEF RH!StartSuite, RH!Suite, RH!Refuse, rhFileType, RH!Present
  <2>3. rhCmdType'
    <3>1. cmd' = RH!Idle \/ cmd' = [cmd EXCEPT !.pc = "journal"] \/ cmd' = [cmd EXCEPT !.pc = "start"]
          \/ \E b \in BOOLEAN : cmd' = [cmd EXCEPT !.pc = "running", !.clean = b]
      BY <1>6 DEF RH!StartSuite, RH!Goto, RH!Refuse
    <3> QED
      BY <1>1, <3>1, RhythmIdle, RhythmPasses DEF rhCmdType
  <2> QED
    BY <2>1, <2>2, <2>3
<1>7. ASSUME NEW yes \in BOOLEAN, RH!EndSuite(yes)
      PROVE  /\ rhTreeType'
             /\ rhFileType'
             /\ rhCmdType'
  <2>1. rhTreeType'
    BY <1>1, <1>2, <1>7 DEF RH!EndSuite, RH!Suite, rhTreeType, RH!tree, RH!Present
  <2>2. rhFileType'
    BY <1>1, <1>2, <1>7 DEF RH!EndSuite, RH!Suite, rhFileType, RH!Present
  <2>3. rhCmdType'
    BY <1>7, RhythmIdle DEF RH!EndSuite, rhCmdType
  <2> QED
    BY <2>1, <2>2, <2>3
<1>8. ASSUME NEW option \in Id \cup {RH!NoId}, RH!FindRun(option)
      PROVE  /\ rhTreeType'
             /\ rhFileType'
             /\ rhCmdType'
  <2>1. rhTreeType'
    BY <1>1, <1>2, <1>8
    DEF RH!FindRun, RH!Suite, RH!Refuse, rhTreeType, RH!tree, RH!Present
  <2>2. rhFileType'
    BY <1>1, <1>2, <1>8 DEF RH!FindRun, RH!Suite, RH!Refuse, rhFileType, RH!Present
  <2>3. rhCmdType'
    <3>1. \/ cmd' = RH!Idle
          \/ \E b \in BOOLEAN : cmd' = [cmd EXCEPT !.pc = "go", !.missed = b]
          \/ \E id \in Id, b \in BOOLEAN : \E h \in RH!Located(id) :
               /\ ~RH!Ambiguous(RH!Located(id))
               /\ cmd' = [cmd EXCEPT !.pc = "judge", !.named = b, !.id = id,
                                    !.holder = h, !.sole = RH!Home(id)]
      BY <1>8
      DEF RH!FindRun, RH!Refuse, RH!FoundByBranch, RH!Known, RH!BranchSpecIds
    <3>2. CASE \E b \in BOOLEAN : cmd' = [cmd EXCEPT !.pc = "go", !.missed = b]
      BY <1>1, <3>2 DEF rhCmdType, rhCmd
    <3>3. ASSUME NEW id \in Id, NEW b \in BOOLEAN, NEW h \in RH!Located(id), ~RH!Ambiguous(RH!Located(id)),
                 cmd' = [cmd EXCEPT !.pc = "judge", !.named = b, !.id = id,
                                    !.holder = h, !.sole = RH!Home(id)]
          PROVE  cmd' \in rhCmd
      <4>1. h \in Checkout /\ RH!Home(id) \in SUBSET Checkout
        BY <3>3, RhythmFinds, RhythmHomes, RhythmHolders
      <4>2. PICK F \in SUBSET Checkout : F = RH!Home(id)
        BY <4>1
      <4> QED
        BY <1>1, <3>3, <4>1, <4>2 DEF rhCmdType, rhCmd
    <3> QED
      BY <3>1, <3>2, <3>3, RhythmIdle DEF rhCmdType
  <2> QED
    BY <2>1, <2>2, <2>3
<1>9. ASSUME NEW c \in RH!Present, NEW skip \in BOOLEAN, RH!GatesRun(c, skip)
      PROVE  /\ rhTreeType'
             /\ rhFileType'
             /\ rhCmdType'
  <2>1. rhTreeType'
    BY <1>1, <1>2, <1>9 DEF RH!GatesRun, RH!Suite, rhTreeType, RH!tree, RH!Present
  <2>2. rhFileType'
    BY <1>1, <1>2, <1>9 DEF RH!GatesRun, RH!Suite, rhFileType, RH!Present
  <2>3. rhCmdType'
    <3>1. PICK q : q = RH!Idle
      OBVIOUS
    <3>2. q \in rhCmd /\ c \in Checkout /\ cmd' = [q EXCEPT !.pc = "find", !.at = c]
      BY <3>1, <1>9, RhythmIdle DEF RH!GatesRun, RH!Present
    <3> QED
      BY <3>2 DEF rhCmdType, rhCmd
  <2> QED
    BY <2>1, <2>2, <2>3
<1>10. ASSUME NEW c \in RH!Present, RH!RemoveWorktree(c)
      PROVE  /\ rhTreeType'
             /\ rhFileType'
             /\ rhCmdType'
  <2>1. rhTreeType'
    BY <1>1, <1>2, <1>10
    DEF RH!RemoveWorktree, RH!Move, RH!Leave, rhTreeType, RH!tree, RH!Present
  <2>2. rhFileType'
    <3>1. home' \in [Id -> Checkout \cup {RH!Nowhere, RH!Unknown}]
      BY <1>1, <1>10 DEF RH!RemoveWorktree, RH!Leave, rhFileType
    <3>2. \E g \in [Id -> rhFile] : files' = [files EXCEPT ![c] = g]
      BY <1>2, <1>10 DEF RH!RemoveWorktree, RH!NoStates
    <3> QED
      BY <1>1, <3>1, <3>2 DEF rhFileType
  <2>3. rhCmdType'
    BY <1>1, <1>2, <1>10
    DEF RH!RemoveWorktree, RH!Move, RH!Leave, rhCmdType, RH!Present, RH!Idle
  <2> QED
    BY <2>1, <2>2, <2>3
<1>11. ASSUME NEW c \in RH!Present, NEW id \in Id, RH!Start(c, id)
      PROVE  /\ rhTreeType'
             /\ rhFileType'
             /\ rhCmdType'
  <2>1. rhTreeType'
    BY <1>1, <1>2, <1>11 DEF RH!Start, RH!Move, rhTreeType, RH!tree, RH!Present
  <2>2. rhFileType'
    <3>1. c \in Checkout
      BY DEF RH!Present
    <3>2. PICK x \in rhFile : x = [step |-> "waves", over |-> FALSE]
      BY DEF rhFile, RH!Steps
    <3>3. files' \in [Checkout -> [Id -> rhFile]]
      BY <1>1, <1>11, <3>1, <3>2, RhythmWrite DEF RH!Start
    <3> QED
      BY <1>1, <1>11, <3>1, <3>3 DEF RH!Start, rhFileType
  <2>3. rhCmdType'
    BY <1>1, <1>2, <1>11 DEF RH!Start, RH!Move, rhCmdType, RH!Present, RH!Idle
  <2> QED
    BY <2>1, <2>2, <2>3
<1>12. ASSUME NEW c \in RH!Present, NEW id \in Id, RH!Save(c, id)
      PROVE  /\ rhTreeType'
             /\ rhFileType'
             /\ rhCmdType'
  <2>1. rhTreeType'
    <3>1. PICK h \in RH!StateCheckout(c, id) : RH!CommitState(h, id, files[h][id])
      BY <1>12 DEF RH!Save
    <3>2. h \in Checkout
      BY <1>12, <3>1, RhythmCopies DEF RH!Save
    <3>3. files[h][id] \in rhFile
      BY <1>1, <3>2 DEF rhFileType
    <3> QED
      BY <1>1, <3>1, <3>2, <3>3, RhythmCommitState, RhythmCommitted
  <2>2. rhFileType'
    BY <1>1, <1>2, <1>12 DEF RH!Save, RH!Move, rhFileType, RH!Present
  <2>3. rhCmdType'
    BY <1>1, <1>2, <1>12 DEF RH!Save, RH!Move, rhCmdType, RH!Present, RH!Idle
  <2> QED
    BY <2>1, <2>2, <2>3
<1>13. ASSUME NEW c \in RH!Present, NEW id \in Id, RH!Spoil(c, id)
      PROVE  /\ rhTreeType'
             /\ rhFileType'
             /\ rhCmdType'
  <2>1. rhTreeType'
    BY <1>1, <1>2, <1>13 DEF RH!Spoil, RH!Move, rhTreeType, RH!tree, RH!Present
  <2>2. rhFileType'
    BY <1>1, <1>2, <1>13 DEF RH!Spoil, RH!Move, rhFileType, RH!Present
  <2>3. rhCmdType'
    BY <1>1, <1>2, <1>13 DEF RH!Spoil, RH!Move, rhCmdType, RH!Present, RH!Idle
  <2> QED
    BY <2>1, <2>2, <2>3
<1>14. ASSUME NEW c \in RH!Present, NEW id \in Id, NEW step \in RH!Steps, RH!Set(c, id, step)
      PROVE  /\ rhTreeType'
             /\ rhFileType'
             /\ rhCmdType'
  <2>1. rhTreeType'
    <3>1. PICK h \in RH!StateCheckout(c, id) :
            /\ files' = [files EXCEPT ![h][id].step = step]
            /\ RH!CommitState(h, id, files'[h][id]) \/ UNCHANGED RH!tree
      BY <1>14 DEF RH!Set
    <3>2. h \in Checkout
      BY <1>14, <3>1, RhythmCopies DEF RH!Set
    <3>3. files'[h][id] \in rhFile
      <4>1. PICK x : x = [files[h][id] EXCEPT !.step = step]
        OBVIOUS
      <4>2. x \in rhFile
        BY <1>1, <3>2, <4>1 DEF rhFileType, rhFile
      <4>3. files' = [files EXCEPT ![h][id] = x]
        BY <1>1, <3>1, <3>2, <4>1 DEF rhFileType
      <4> QED
        BY <1>1, <3>2, <4>2, <4>3, RhythmWrite DEF rhWritten
    <3>4. CASE UNCHANGED RH!tree
      BY <1>1, <3>4 DEF RH!tree, rhTreeType
    <3>5. CASE RH!CommitState(h, id, files'[h][id])
      BY <1>1, <3>2, <3>3, <3>5, RhythmCommitState, RhythmCommitted
    <3> QED
      BY <3>1, <3>4, <3>5
  <2>2. rhFileType'
    <3>1. PICK h \in RH!StateCheckout(c, id) : files' = [files EXCEPT ![h][id].step = step]
      BY <1>14 DEF RH!Set
    <3>2. h \in Checkout
      BY <1>14, <3>1, RhythmCopies DEF RH!Set
    <3>3. PICK x : x = [files[h][id] EXCEPT !.step = step]
      OBVIOUS
    <3>4. x \in rhFile
      BY <1>1, <3>2, <3>3 DEF rhFileType, rhFile
    <3>5. files' = [files EXCEPT ![h][id] = x]
      BY <1>1, <3>1, <3>2, <3>3 DEF rhFileType
    <3> QED
      BY <1>1, <1>14, <3>2, <3>4, <3>5, RhythmWrite DEF RH!Set, rhFileType
  <2>3. rhCmdType'
    BY <1>1, <1>2, <1>14 DEF RH!Set, RH!Move, rhCmdType, RH!Present, RH!Idle
  <2> QED
    BY <2>1, <2>2, <2>3
<1>15. ASSUME NEW c \in Checkout \ RH!Present, NEW b \in Branch \cup {RH!Detached}, NEW from \in RH!Present, RH!AddWorktree(c, b, from)
      PROVE  /\ rhTreeType'
             /\ rhFileType'
             /\ rhCmdType'
  <2>1. rhTreeType'
    BY <1>1, <1>2, <1>15
    DEF RH!AddWorktree, RH!Move, rhTreeType, RH!tree, RH!Present
  <2>2. rhFileType'
    <3>1. PICK at \in 1..Len(commits) : files' = [files EXCEPT ![c] = commits[at]]
      <4>1. spot[from] \in 1..Len(commits)
        BY <1>1 DEF rhTreeType, RH!Present
      <4>2. b # RH!Detached /\ head[b] # 0 => head[b] \in 1..Len(commits)
        BY <1>1 DEF rhTreeType
      <4> QED
        BY <1>15, <4>1, <4>2 DEF RH!AddWorktree
    <3>2. commits[at] \in [Id -> rhFile]
      BY <1>1 DEF rhTreeType
    <3> QED
      BY <1>1, <1>15, <3>1, <3>2 DEF RH!AddWorktree, rhFileType
  <2>3. rhCmdType'
    BY <1>1, <1>2, <1>15 DEF RH!AddWorktree, RH!Move, rhCmdType, RH!Present, RH!Idle
  <2> QED
    BY <2>1, <2>2, <2>3
<1>16. ASSUME NEW c \in RH!Present, NEW b \in Branch, RH!Switch(c, b)
      PROVE  /\ rhTreeType'
             /\ rhFileType'
             /\ rhCmdType'
  <2>1. rhTreeType'
    BY <1>1, <1>2, <1>16
    DEF RH!Switch, RH!Move, RH!Leave, rhTreeType, RH!tree, RH!Present
  <2>2. rhFileType'
    <3>1. home' \in [Id -> Checkout \cup {RH!Nowhere, RH!Unknown}]
      BY <1>1, <1>16 DEF RH!Switch, RH!Leave, rhFileType
    <3>2. \E g \in [Id -> rhFile] : files' = [files EXCEPT ![c] = g]
      <4>1. head'[b] \in 1..Len(commits)
        BY <1>1, <1>16 DEF RH!Switch, rhTreeType, RH!Present
      <4>2. commits[head'[b]] \in [Id -> rhFile]
        BY <1>1, <4>1 DEF rhTreeType
      <4> QED
        BY <1>16, <4>2 DEF RH!Switch
    <3> QED
      BY <1>1, <3>1, <3>2 DEF rhFileType
  <2>3. rhCmdType'
    BY <1>1, <1>2, <1>16
    DEF RH!Switch, RH!Move, RH!Leave, rhCmdType, RH!Present, RH!Idle
  <2> QED
    BY <2>1, <2>2, <2>3
<1>17. ASSUME NEW b \in Branch, RH!Deliver(b)
      PROVE  /\ rhTreeType'
             /\ rhFileType'
             /\ rhCmdType'
  <2>1. rhTreeType'
    <3>1. PICK content : content = [j \in Id |-> IF commits[head[b]][j] # RH!NoFile THEN commits[head[b]][j]
                                                ELSE commits[spot[MainCheckout]][j]]
      OBVIOUS
    <3>2. content \in [Id -> rhFile]
      <4>1. head[b] \in 1..Len(commits) /\ spot[MainCheckout] \in 1..Len(commits)
        BY <1>1, <1>2, <1>17 DEF RH!Deliver, rhTreeType
      <4>2. commits[head[b]] \in [Id -> rhFile] /\ commits[spot[MainCheckout]] \in [Id -> rhFile]
        BY <1>1, <4>1 DEF rhTreeType
      <4> QED
        BY <3>1, <4>2
    <3>3. RH!CommitAs(MainCheckout, content) /\ files' = [files EXCEPT ![MainCheckout] = content] /\ home' = home
      BY <1>17, <3>1 DEF RH!Deliver
    <3> QED
      BY <1>1, <1>2, <3>2, <3>3, RhythmCommit
  <2>2. rhFileType'
    <3>1. PICK content : content = [j \in Id |-> IF commits[head[b]][j] # RH!NoFile THEN commits[head[b]][j]
                                                ELSE commits[spot[MainCheckout]][j]]
      OBVIOUS
    <3>2. content \in [Id -> rhFile]
      <4>1. head[b] \in 1..Len(commits) /\ spot[MainCheckout] \in 1..Len(commits)
        BY <1>1, <1>2, <1>17 DEF RH!Deliver, rhTreeType
      <4>2. commits[head[b]] \in [Id -> rhFile] /\ commits[spot[MainCheckout]] \in [Id -> rhFile]
        BY <1>1, <4>1 DEF rhTreeType
      <4> QED
        BY <3>1, <4>2
    <3>3. RH!CommitAs(MainCheckout, content) /\ files' = [files EXCEPT ![MainCheckout] = content] /\ home' = home
      BY <1>17, <3>1 DEF RH!Deliver
    <3> QED
      BY <1>1, <1>2, <3>2, <3>3 DEF rhFileType
  <2>3. rhCmdType'
    BY <1>1, <1>2, <1>17 DEF RH!Deliver, RH!Move, rhCmdType, RH!Present, RH!Idle
  <2> QED
    BY <2>1, <2>2, <2>3
<1>18. CASE UNCHANGED rhVars
  <2>1. rhTreeType'
    BY <1>1, <1>2, <1>18 DEF rhVars, rhOnly, rhTreeType, RH!tree, RH!Present
  <2>2. rhFileType'
    BY <1>1, <1>2, <1>18 DEF rhVars, rhOnly, rhFileType, RH!Present
  <2>3. rhCmdType'
    BY <1>1, <1>2, <1>18 DEF rhVars, rhOnly, rhCmdType, RH!Present, RH!Idle
  <2> QED
    BY <2>1, <2>2, <2>3
<1> QED
  BY <1>3, <1>4, <1>5, <1>6, <1>7, <1>8, <1>9, <1>10, <1>11, <1>12, <1>13,
     <1>14, <1>15, <1>16, <1>17, <1>18 DEF RH!Next, RH!Suites, RH!Moves

(* Nobody goes to a branch where a checkout is.                            *)
LEMMA RhythmOnce ==
  ASSUME ServersAssumption, rhInv, RH!Next \/ UNCHANGED rhVars
  PROVE  rhOnce'
<1>1. /\ rhOnce /\ on \in [Checkout -> Branch \cup {RH!Gone, RH!Detached}]
      /\ RH!Gone \notin Branch /\ RH!Detached \notin Branch
  BY RhythmNames DEF rhInv, rhTypes, rhTreeType
<1>2. ASSUME RH!JournalOverride
      PROVE  rhOnce'
  BY <1>1, <1>2
  DEF RH!JournalOverride, RH!Suite, RH!Goto, RH!Refuse, rhOnce, RH!tree
<1>3. ASSUME NEW yes \in BOOLEAN, RH!Judge(yes)
      PROVE  rhOnce'
  BY <1>1, <1>3 DEF RH!Judge, RH!Suite, RH!Refuse, rhOnce, RH!tree
<1>4. ASSUME NEW yes \in BOOLEAN, RH!CleanForOverride(yes)
      PROVE  rhOnce'
  BY <1>1, <1>4
  DEF RH!CleanForOverride, RH!Suite, RH!Goto, RH!Refuse, rhOnce, RH!tree
<1>5. ASSUME NEW yes \in BOOLEAN, RH!StartSuite(yes)
      PROVE  rhOnce'
  BY <1>1, <1>5 DEF RH!StartSuite, RH!Suite, RH!Refuse, rhOnce, RH!tree
<1>6. ASSUME NEW yes \in BOOLEAN, RH!EndSuite(yes)
      PROVE  rhOnce'
  BY <1>1, <1>6 DEF RH!EndSuite, RH!Suite, rhOnce, RH!tree
<1>7. ASSUME NEW option \in Id \cup {RH!NoId}, RH!FindRun(option)
      PROVE  rhOnce'
  BY <1>1, <1>7 DEF RH!FindRun, RH!Suite, RH!Refuse, rhOnce, RH!tree
<1>8. ASSUME NEW c \in RH!Present, NEW skip \in BOOLEAN, RH!GatesRun(c, skip)
      PROVE  rhOnce'
  BY <1>1, <1>8 DEF RH!GatesRun, RH!Suite, rhOnce, RH!tree
<1>9. ASSUME NEW c \in RH!Present, RH!RemoveWorktree(c)
      PROVE  rhOnce'
  <2>1. on' = [on EXCEPT ![c] = RH!Gone] /\ c \in Checkout
    BY <1>9 DEF RH!RemoveWorktree, RH!Present
  <2>2. \A d \in Checkout : FALSE => on[d] # RH!Gone
    BY <1>9 DEF RH!RemoveWorktree
  <2> QED
    BY <1>1, <2>1, <2>2 DEF rhOnce
<1>10. ASSUME NEW c \in RH!Present, NEW id \in Id, RH!Start(c, id)
      PROVE  rhOnce'
  BY <1>1, <1>10 DEF RH!Start, RH!Move, rhOnce, RH!tree
<1>11. ASSUME NEW c \in RH!Present, NEW id \in Id, RH!Save(c, id)
      PROVE  rhOnce'
  BY <1>1, <1>11
  DEF RH!Save, RH!Move, rhOnce, RH!tree, RH!CommitState, RH!CommitAs, RH!tree
<1>12. ASSUME NEW c \in RH!Present, NEW id \in Id, RH!Spoil(c, id)
      PROVE  rhOnce'
  BY <1>1, <1>12 DEF RH!Spoil, RH!Move, rhOnce, RH!tree
<1>13. ASSUME NEW c \in RH!Present, NEW id \in Id, NEW step \in RH!Steps, RH!Set(c, id, step)
      PROVE  rhOnce'
  BY <1>1, <1>13
  DEF RH!Set, RH!Move, rhOnce, RH!tree, RH!CommitState, RH!CommitAs, RH!tree
<1>14. ASSUME NEW c \in Checkout \ RH!Present, NEW b \in Branch \cup {RH!Detached}, NEW from \in RH!Present, RH!AddWorktree(c, b, from)
      PROVE  rhOnce'
  <2>1. on' = [on EXCEPT ![c] = b] /\ c \in Checkout
    BY <1>14 DEF RH!AddWorktree, RH!Present
  <2>2. \A d \in Checkout : b # RH!Detached => on[d] # b
    BY <1>14 DEF RH!AddWorktree
  <2> QED
    BY <1>1, <2>1, <2>2 DEF rhOnce
<1>15. ASSUME NEW c \in RH!Present, NEW b \in Branch, RH!Switch(c, b)
      PROVE  rhOnce'
  <2>1. on' = [on EXCEPT ![c] = b] /\ c \in Checkout
    BY <1>15 DEF RH!Switch, RH!Present
  <2>2. \A d \in Checkout : TRUE => on[d] # b
    BY <1>15 DEF RH!Switch
  <2> QED
    BY <1>1, <2>1, <2>2 DEF rhOnce
<1>16. ASSUME NEW b \in Branch, RH!Deliver(b)
      PROVE  rhOnce'
  BY <1>1, <1>16
  DEF RH!Deliver, RH!Move, rhOnce, RH!tree, RH!CommitState, RH!CommitAs, RH!tree
<1>17. CASE UNCHANGED rhVars
  BY <1>1, <1>17 DEF rhVars, rhOnly, rhOnce, RH!tree
<1> QED
  BY <1>2, <1>3, <1>4, <1>5, <1>6, <1>7, <1>8, <1>9, <1>10, <1>11, <1>12, <1>13,
     <1>14, <1>15, <1>16, <1>17 DEF RH!Next, RH!Suites, RH!Moves

(* A state written where there was one, whether it is committed or not.    *)
rhSaved(h, id) ==
  \/ commits' = commits
  \/ \E content \in [Id -> rhFile] :
       /\ rhNewCommit(content) /\ on[h] # <<"main">>
       /\ \A j \in Id \ {id} : content[j] = commits[spot[h]][j]
(* It keeps the homes.                                                     *)
LEMMA RhythmHomeWritten ==
  ASSUME ServersAssumption, rhInv, NEW h \in Checkout, NEW id \in Id, NEW x \in rhFile,
         x # RH!NoFile, files[h][id] # RH!NoFile, rhWritten(h, id, x),
         home' = home, on' = on, rhSaved(h, id)
  PROVE  rhHome'
<1>1. /\ rhHome /\ RH!Nowhere \notin Checkout
      /\ spot[h] \in DOMAIN commits
  BY RhythmNames DEF rhInv, rhTypes, rhTreeType
<1> SUFFICES ASSUME NEW j \in Id
             PROVE  /\ home[j] \in Checkout =>
                         /\ on[home[j]] # RH!Gone /\ files'[home[j]][j] # RH!NoFile
                         /\ on[home[j]] = <<"main">> => rhLone(home[j], j)'
                    /\ home[j] = RH!Nowhere =>
                         /\ \A c \in Checkout : files'[c][j] = RH!NoFile
                         /\ \A k \in DOMAIN commits' : commits'[k][j] = RH!NoFile
  BY DEF rhHome, rhLone
<1>2. ASSUME home[j] \in Checkout
      PROVE  /\ on[home[j]] # RH!Gone /\ files'[home[j]][j] # RH!NoFile
             /\ on[home[j]] = <<"main">> => rhLone(home[j], j)'
  <2>1. /\ on[home[j]] # RH!Gone /\ files[home[j]][j] # RH!NoFile
        /\ on[home[j]] = <<"main">> => rhLone(home[j], j)
    BY <1>1, <1>2 DEF rhHome
  <2>2. files'[home[j]][j] # RH!NoFile
    BY <1>2, <2>1 DEF rhWritten
  <2>3. ASSUME on[home[j]] = <<"main">>
        PROVE  rhLone(home[j], j)'
    <3>1. PICK d \in Checkout : d = home[j]
      BY <1>2
    <3>2. /\ \A e \in Checkout \ {d} : files[e][j] = RH!NoFile
          /\ \A k \in DOMAIN commits : commits[k][j] = RH!NoFile
      BY <2>1, <2>3, <3>1 DEF rhLone
    <3>3. j = id => h = d
      BY <3>2
    <3>4. \A e \in Checkout \ {d} : files'[e][j] = RH!NoFile
      BY <3>2, <3>3 DEF rhWritten
    <3>5. \A k \in DOMAIN commits' : commits'[k][j] = RH!NoFile
      <4>1. CASE commits' = commits
        BY <3>2, <4>1
      <4>2. ASSUME NEW content \in [Id -> rhFile], rhNewCommit(content), on[h] # <<"main">>,
                   \A e \in Id \ {id} : content[e] = commits[spot[h]][e]
            PROVE  \A k \in DOMAIN commits' : commits'[k][j] = RH!NoFile
        <5>1. content[j] = RH!NoFile
          BY <1>1, <2>3, <3>1, <3>2, <3>3, <4>2
        <5> QED
          BY <3>2, <4>2, <5>1 DEF rhNewCommit
      <4> QED
        BY <4>1, <4>2 DEF rhSaved
    <3> QED
      BY <3>1, <3>4, <3>5 DEF rhLone
  <2> QED
    BY <2>1, <2>2, <2>3
<1>3. ASSUME home[j] = RH!Nowhere
      PROVE  /\ \A c \in Checkout : files'[c][j] = RH!NoFile
             /\ \A k \in DOMAIN commits' : commits'[k][j] = RH!NoFile
  <2>1. /\ \A e \in Checkout : files[e][j] = RH!NoFile
        /\ \A k \in DOMAIN commits : commits[k][j] = RH!NoFile
    BY <1>1, <1>3 DEF rhHome
  <2>2. j # id
    BY <2>1
  <2>3. \A k \in DOMAIN commits' : commits'[k][j] = RH!NoFile
    <3>1. CASE commits' = commits
      BY <2>1, <3>1
    <3>2. ASSUME NEW content \in [Id -> rhFile], rhNewCommit(content),
                 \A e \in Id \ {id} : content[e] = commits[spot[h]][e]
          PROVE  \A k \in DOMAIN commits' : commits'[k][j] = RH!NoFile
      <4>1. content[j] = RH!NoFile
        BY <1>1, <2>1, <2>2, <3>2
      <4> QED
        BY <2>1, <3>2, <4>1 DEF rhNewCommit
    <3> QED
      BY <3>1, <3>2 DEF rhSaved
  <2> QED
    BY <2>1, <2>2, <2>3 DEF rhWritten
<1> QED
  BY <1>2, <1>3

(* A checkout goes to another branch, or goes.                             *)
LEMMA RhythmHomeMoved ==
  ASSUME ServersAssumption, rhInv, NEW c \in Checkout, NEW b, NEW g,
         \A j \in Id : g[j] = RH!NoFile \/ \E k \in DOMAIN commits : g[j] = commits[k][j],
         files' = [files EXCEPT ![c] = g], on' = [on EXCEPT ![c] = b], commits' = commits,
         \/ home' = home /\ on[c] = RH!Gone
         \/ home' = [j \in Id |-> IF home[j] = c THEN RH!Unknown ELSE home[j]]
  PROVE  rhHome'
<1>1. /\ rhHome /\ RH!Nowhere \notin Checkout /\ RH!Unknown \notin Checkout /\ RH!Unknown # RH!Nowhere
      /\ on \in [Checkout -> Branch \cup {RH!Gone, RH!Detached}]
      /\ files \in [Checkout -> [Id -> rhFile]]
  BY RhythmNames DEF rhInv, rhTypes, rhTreeType, rhFileType
<1>2. /\ \A d \in Checkout : files'[d] = IF d = c THEN g ELSE files[d]
      /\ \A d \in Checkout : d # c => on'[d] = on[d]
  BY <1>1
<1> SUFFICES ASSUME NEW j \in Id
             PROVE  /\ home'[j] \in Checkout =>
                         /\ on'[home'[j]] # RH!Gone /\ files'[home'[j]][j] # RH!NoFile
                         /\ on'[home'[j]] = <<"main">> => rhLone(home[j], j)'
                    /\ home'[j] = RH!Nowhere =>
                         /\ \A d \in Checkout : files'[d][j] = RH!NoFile
                         /\ \A k \in DOMAIN commits : commits[k][j] = RH!NoFile
  BY DEF rhHome, rhLone
<1>3. /\ home'[j] \in Checkout => home'[j] = home[j] /\ home[j] # c
      /\ home'[j] = RH!Nowhere => home[j] = RH!Nowhere
  BY <1>1 DEF rhHome
<1>4. ASSUME NEW d \in Checkout, home'[j] = d
      PROVE  /\ on'[d] # RH!Gone /\ files'[d][j] # RH!NoFile
             /\ on'[d] = <<"main">> => rhLone(home[j], j)'
  <2>1. /\ home[j] = d /\ d # c /\ on'[d] = on[d] /\ files'[d] = files[d]
        /\ on[d] # RH!Gone /\ files[d][j] # RH!NoFile
        /\ on[d] = <<"main">> => rhLone(d, j)
    BY <1>1, <1>2, <1>3, <1>4 DEF rhHome
  <2>2. ASSUME on[d] = <<"main">>
        PROVE  rhLone(home[j], j)'
    <3>1. /\ \A e \in Checkout \ {d} : files[e][j] = RH!NoFile
          /\ \A k \in DOMAIN commits : commits[k][j] = RH!NoFile
      BY <2>1, <2>2 DEF rhLone
    <3>2. \A e \in Checkout \ {d} : files'[e][j] = RH!NoFile
      BY <1>2, <3>1
    <3> QED
      BY <1>4, <3>1, <3>2 DEF rhLone
  <2> QED
    BY <2>1, <2>2
<1>5. ASSUME home'[j] = RH!Nowhere
      PROVE  /\ \A d \in Checkout : files'[d][j] = RH!NoFile
             /\ \A k \in DOMAIN commits : commits[k][j] = RH!NoFile
  BY <1>1, <1>2, <1>3, <1>5 DEF rhHome
<1> QED
  BY <1>4, <1>5

(* A state where none was: the first one makes the home.                   *)
LEMMA RhythmHomeStarted ==
  ASSUME ServersAssumption, rhInv, NEW c \in Checkout, NEW id \in Id, NEW x \in rhFile,
         x # RH!NoFile, on[c] # RH!Gone, rhWritten(c, id, x), on' = on, commits' = commits,
         home' = [home EXCEPT ![id] = IF @ = RH!Nowhere THEN c ELSE RH!Unknown]
  PROVE  rhHome'
<1>1. /\ rhHome /\ RH!Nowhere \notin Checkout /\ RH!Unknown \notin Checkout /\ RH!Unknown # RH!Nowhere
      /\ home \in [Id -> Checkout \cup {RH!Nowhere, RH!Unknown}]
  BY RhythmNames DEF rhInv, rhTypes, rhFileType
<1>2. /\ \A j \in Id \ {id} : home'[j] = home[j]
      /\ home'[id] = IF home[id] = RH!Nowhere THEN c ELSE RH!Unknown
  BY <1>1
<1>3. ASSUME NEW j \in Id, j # id
      PROVE  /\ home'[j] \in Checkout =>
                  /\ on[home'[j]] # RH!Gone /\ files'[home'[j]][j] # RH!NoFile
                  /\ on[home'[j]] = <<"main">> =>
                       /\ \A d \in Checkout \ {home'[j]} : files'[d][j] = RH!NoFile
                       /\ \A k \in DOMAIN commits : commits[k][j] = RH!NoFile
             /\ home'[j] = RH!Nowhere =>
                  /\ \A d \in Checkout : files'[d][j] = RH!NoFile
                  /\ \A k \in DOMAIN commits : commits[k][j] = RH!NoFile
  BY <1>1, <1>2, <1>3 DEF rhHome, rhLone, rhWritten
<1>4. /\ home'[id] \in Checkout =>
           /\ on[home'[id]] # RH!Gone /\ files'[home'[id]][id] # RH!NoFile
           /\ \A d \in Checkout \ {home'[id]} : files'[d][id] = RH!NoFile
           /\ \A k \in DOMAIN commits : commits[k][id] = RH!NoFile
      /\ home'[id] # RH!Nowhere
  BY <1>1, <1>2 DEF rhHome, rhWritten
<1> QED
  BY <1>3, <1>4 DEF rhHome, rhLone

(* A delivery brings the main checkout no state of an execution of its own.*)
LEMMA RhythmHomeDelivered ==
  ASSUME ServersAssumption, rhInv, NEW b \in Branch, RH!Deliver(b)
  PROVE  rhHome'
<1>1. /\ rhHome /\ rhOnce /\ RH!Nowhere \notin Checkout /\ MainCheckout \in Checkout /\ <<"main">> \in Branch
      /\ rhTreeType /\ files \in [Checkout -> [Id -> rhFile]]
  BY RhythmNames DEF rhInv, rhTypes, rhFileType
<1>2. PICK content : content = [j \in Id |-> IF commits[head[b]][j] # RH!NoFile THEN commits[head[b]][j]
                                            ELSE commits[spot[MainCheckout]][j]]
  OBVIOUS
<1>3. /\ head[b] \in DOMAIN commits /\ spot[MainCheckout] \in DOMAIN commits
      /\ on[MainCheckout] = <<"main">> /\ files[MainCheckout] = commits[spot[MainCheckout]]
      /\ RH!CommitAs(MainCheckout, content) /\ files' = [files EXCEPT ![MainCheckout] = content] /\ home' = home
  BY <1>1, <1>2 DEF RH!Deliver, RH!Dirty, rhTreeType
<1>4. content \in [Id -> rhFile]
  <2>1. commits[head[b]] \in [Id -> rhFile] /\ commits[spot[MainCheckout]] \in [Id -> rhFile]
    BY <1>1, <1>3 DEF rhTreeType
  <2> QED
    BY <1>2, <2>1
<1>5. rhNewCommit(content)
  BY <1>1, <1>3, <1>4, RhythmCommit
<1>6. \A d \in Checkout : files'[d] = IF d = MainCheckout THEN content ELSE files[d]
  BY <1>1, <1>3
<1> SUFFICES ASSUME NEW j \in Id
             PROVE  /\ home[j] \in Checkout =>
                         /\ on[home[j]] # RH!Gone /\ files'[home[j]][j] # RH!NoFile
                         /\ on[home[j]] # <<"main">>
                    /\ home[j] = RH!Nowhere =>
                         /\ \A c \in Checkout : files'[c][j] = RH!NoFile
                         /\ \A k \in DOMAIN commits' : commits'[k][j] = RH!NoFile
  BY <1>3, <1>5 DEF rhHome, rhNewCommit
<1>7. ASSUME NEW d \in Checkout, home[j] = d
      PROVE  /\ on[d] # RH!Gone /\ files'[d][j] # RH!NoFile
             /\ on[d] # <<"main">>
  <2>1. /\ on[d] # RH!Gone /\ files[d][j] # RH!NoFile
        /\ on[d] = <<"main">> => rhLone(d, j)
    BY <1>1, <1>7 DEF rhHome
  <2>2. on[d] # <<"main">>
    <3>1. SUFFICES ASSUME on[d] = <<"main">>
                   PROVE  FALSE
      OBVIOUS
    <3>2. d = MainCheckout
      BY <1>1, <1>3, <3>1 DEF rhOnce
    <3> QED
      BY <1>3, <2>1, <3>1, <3>2 DEF rhLone
  <2> QED
    BY <1>3, <1>6, <2>1, <2>2
<1>8. ASSUME home[j] = RH!Nowhere
      PROVE  /\ \A c \in Checkout : files'[c][j] = RH!NoFile
             /\ \A k \in DOMAIN commits' : commits'[k][j] = RH!NoFile
  <2>1. /\ \A c \in Checkout : files[c][j] = RH!NoFile
        /\ \A k \in DOMAIN commits : commits[k][j] = RH!NoFile
    BY <1>1, <1>8 DEF rhHome
  <2>2. content[j] = RH!NoFile
    BY <1>2, <1>3, <2>1
  <2> QED
    BY <1>5, <1>6, <2>1, <2>2 DEF rhNewCommit
<1> QED
  BY <1>7, <1>8

(* A write of the state of an execution: it was read before, and keeps its *)
(* override unless it becomes unreadable.                                  *)
rhEdited(h, id, x) ==
  /\ x # RH!NoFile /\ files[h][id] # RH!NoFile
  /\ x = RH!Unreadable \/ (files[h][id] # RH!Unreadable /\ (files[h][id].over => x.over))
  /\ rhWritten(h, id, x) /\ rhSaved(h, id) /\ home' = home /\ on' = on
(* A step set by hand is such a write.                                     *)
LEMMA RhythmSetEdits ==
  ASSUME ServersAssumption, rhTypes, NEW c \in RH!Present, NEW id \in Id, NEW step \in RH!Steps,
         RH!Set(c, id, step)
  PROVE  \E h \in Checkout, x \in rhFile : rhEdited(h, id, x)
<1>1. PICK h \in RH!StateCheckout(c, id) :
        /\ files[h][id] # RH!Unreadable /\ files' = [files EXCEPT ![h][id].step = step]
        /\ RH!CommitState(h, id, files'[h][id]) \/ UNCHANGED RH!tree
  BY DEF RH!Set
<1>2. h \in Checkout /\ files[h][id] # RH!NoFile /\ home' = home
  BY <1>1, RhythmCopies DEF RH!Set
<1>3. PICK x : x = [files[h][id] EXCEPT !.step = step]
  OBVIOUS
<1>4. x \in rhFile /\ x # RH!NoFile /\ x.over = files[h][id].over
  <2>1. files[h][id] \in rhFile
    BY <1>2 DEF rhTypes, rhFileType
  <2>2. x.step = step /\ x \in rhFile /\ x.over = files[h][id].over
    BY <1>3, <2>1 DEF rhFile
  <2>3. RH!NoFile.step \notin RH!Steps
    BY DEF RH!NoFile, RH!Steps
  <2> QED
    BY <2>2, <2>3
<1>5. files' = [files EXCEPT ![h][id] = x]
  BY <1>1, <1>2, <1>3 DEF rhTypes, rhFileType
<1>6. rhWritten(h, id, x) /\ files'[h][id] = x
  <2>1. rhWritten(h, id, x)
    BY <1>2, <1>4, <1>5, RhythmWrite DEF rhTypes
  <2> QED
    BY <1>2, <2>1 DEF rhWritten
<1>7. on' = on /\ rhSaved(h, id)
  <2>1. CASE UNCHANGED RH!tree
    BY <2>1 DEF RH!tree, rhSaved
  <2>2. CASE RH!CommitState(h, id, files'[h][id])
    BY <1>2, <1>4, <1>6, <2>2, RhythmCommitState, RhythmCommitted
    DEF rhTypes, rhSaved
  <2> QED
    BY <1>1, <2>1, <2>2
<1> QED
  BY <1>1, <1>2, <1>4, <1>6, <1>7 DEF rhEdited

(* The same for a save, which writes nothing new.                          *)
LEMMA RhythmSaveEdits ==
  ASSUME ServersAssumption, rhTypes, NEW c \in RH!Present, NEW id \in Id, RH!Save(c, id)
  PROVE  \E h \in Checkout, x \in rhFile : rhEdited(h, id, x)
<1>1. PICK h \in RH!StateCheckout(c, id) :
        files[h][id] # RH!Unreadable /\ RH!CommitState(h, id, files[h][id])
  BY DEF RH!Save
<1>2. h \in Checkout /\ files[h][id] # RH!NoFile /\ home' = home /\ files' = files
  BY <1>1, RhythmCopies DEF RH!Save
<1>3. files[h][id] \in rhFile
  BY <1>2 DEF rhTypes, rhFileType
<1>4. on' = on /\ rhSaved(h, id)
  BY <1>1, <1>2, <1>3, RhythmCommitState, RhythmCommitted DEF rhTypes, rhSaved
<1>5. rhWritten(h, id, files[h][id])
  BY <1>2 DEF rhWritten
<1> QED
  BY <1>1, <1>2, <1>3, <1>4, <1>5 DEF rhEdited

(* The same for a state spoilt.                                            *)
LEMMA RhythmSpoilEdits ==
  ASSUME ServersAssumption, rhTypes, NEW c \in RH!Present, NEW id \in Id, RH!Spoil(c, id)
  PROVE  \E h \in Checkout, x \in rhFile : rhEdited(h, id, x)
<1>1. /\ c \in Checkout /\ files[c][id] # RH!NoFile /\ files' = [files EXCEPT ![c][id] = RH!Unreadable]
      /\ home' = home /\ on' = on /\ commits' = commits
  BY DEF RH!Spoil, RH!Present, RH!tree
<1>2. RH!Unreadable \in rhFile /\ RH!Unreadable # RH!NoFile
  BY RhythmNames
<1>3. rhWritten(c, id, RH!Unreadable)
  BY <1>1, <1>2, RhythmWrite DEF rhTypes
<1> QED
  BY <1>1, <1>2, <1>3 DEF rhEdited, rhSaved

(* The same for the override, which the journal keeps.                     *)
LEMMA RhythmOverrides ==
  ASSUME ServersAssumption, rhTypes, rhSole, RH!JournalOverride
  PROVE  \/ cmd' = RH!Idle /\ files' = files /\ home' = home /\ on' = on /\ commits' = commits
         \/ /\ cmd' = [cmd EXCEPT !.pc = "start"] /\ cmd.holder \in Checkout /\ cmd.id \in Id
            /\ \E x \in rhFile : rhEdited(cmd.holder, cmd.id, x) /\ x.over
<1>1. cmd.holder \in Checkout /\ cmd.id \in Id
  BY DEF RH!JournalOverride, rhSole, rhTypes, rhCmdType, rhCmd
<1>2. home' = home /\ on' = on /\ commits' = commits
  BY DEF RH!JournalOverride, RH!Suite, RH!tree
<1>3. CASE RH!Refuse /\ files' = files
  BY <1>2, <1>3 DEF RH!Refuse
<1>4. CASE /\ files[cmd.holder][cmd.id] \notin {RH!NoFile, RH!Unreadable} /\ RH!Goto("start")
           /\ files' = [files EXCEPT ![cmd.holder][cmd.id].over = TRUE]
  <2>1. PICK x : x = [files[cmd.holder][cmd.id] EXCEPT !.over = TRUE]
    OBVIOUS
  <2>2. files[cmd.holder][cmd.id] \in rhFile
    BY <1>1 DEF rhTypes, rhFileType
  <2>3. x \in rhFile /\ x.over
    BY <2>1, <2>2 DEF rhFile
  <2>4. x # RH!NoFile
    BY <2>3 DEF RH!NoFile
  <2>5. files' = [files EXCEPT ![cmd.holder][cmd.id] = x]
    BY <1>1, <1>4, <2>1 DEF rhTypes, rhFileType
  <2>6. rhWritten(cmd.holder, cmd.id, x)
    BY <1>1, <2>3, <2>5, RhythmWrite DEF rhTypes
  <2> QED
    BY <1>1, <1>2, <1>4, <2>3, <2>4, <2>6 DEF rhEdited, rhSaved, RH!Goto
<1> QED
  BY <1>3, <1>4 DEF RH!JournalOverride

(* Every step keeps the homes.                                             *)
LEMMA RhythmHomeKept ==
  ASSUME ServersAssumption, rhInv, RH!Next \/ UNCHANGED rhVars
  PROVE  rhHome'
<1>1. rhTypes /\ rhTreeType /\ rhFileType /\ rhSole /\ rhHome
  BY DEF rhInv, rhTypes
<1>2. ASSUME RH!JournalOverride
      PROVE  rhHome'
  <2>1. CASE files' = files /\ home' = home /\ on' = on /\ commits' = commits
    BY <1>1, <2>1 DEF rhHome, rhLone
  <2>2. ASSUME NEW x \in rhFile, cmd.holder \in Checkout, cmd.id \in Id, rhEdited(cmd.holder, cmd.id, x)
        PROVE  rhHome'
    BY <1>1, <2>2, RhythmHomeWritten DEF rhEdited
  <2> QED
    BY <1>1, <1>2, <2>1, <2>2, RhythmOverrides
<1>3. ASSUME NEW yes \in BOOLEAN, RH!Judge(yes)
      PROVE  rhHome'
  BY <1>1, <1>3 DEF RH!Judge, RH!Suite, RH!Refuse, rhHome, rhLone, RH!tree
<1>4. ASSUME NEW yes \in BOOLEAN, RH!CleanForOverride(yes)
      PROVE  rhHome'
  BY <1>1, <1>4
  DEF RH!CleanForOverride, RH!Suite, RH!Goto, RH!Refuse, rhHome, rhLone, RH!tree
<1>5. ASSUME NEW yes \in BOOLEAN, RH!StartSuite(yes)
      PROVE  rhHome'
  BY <1>1, <1>5 DEF RH!StartSuite, RH!Suite, RH!Refuse, rhHome, rhLone, RH!tree
<1>6. ASSUME NEW yes \in BOOLEAN, RH!EndSuite(yes)
      PROVE  rhHome'
  BY <1>1, <1>6 DEF RH!EndSuite, RH!Suite, rhHome, rhLone, RH!tree
<1>7. ASSUME NEW option \in Id \cup {RH!NoId}, RH!FindRun(option)
      PROVE  rhHome'
  BY <1>1, <1>7 DEF RH!FindRun, RH!Suite, RH!Refuse, rhHome, rhLone, RH!tree
<1>8. ASSUME NEW c \in RH!Present, NEW skip \in BOOLEAN, RH!GatesRun(c, skip)
      PROVE  rhHome'
  BY <1>1, <1>8 DEF RH!GatesRun, RH!Suite, rhHome, rhLone, RH!tree
<1>9. ASSUME NEW c \in RH!Present, RH!RemoveWorktree(c)
      PROVE  rhHome'
  <2>1. c \in Checkout /\ on' = [on EXCEPT ![c] = RH!Gone] /\ commits' = commits
        /\ home' = [j \in Id |-> IF home[j] = c THEN RH!Unknown ELSE home[j]]
    BY <1>9 DEF RH!RemoveWorktree, RH!Leave, RH!Present
  <2>2. PICK g : files' = [files EXCEPT ![c] = g] /\ \A j \in Id : g[j] = RH!NoFile \/ \E k \in DOMAIN commits : g[j] = commits[k][j]
    <3>1. PICK g : g = RH!NoStates
      OBVIOUS
    <3>2. files' = [files EXCEPT ![c] = g] /\ \A j \in Id : g[j] = RH!NoFile
      BY <1>9, <3>1 DEF RH!RemoveWorktree, RH!NoStates
    <3> QED
      BY <3>2
  <2> QED
    BY <1>1, <2>1, <2>2, RhythmHomeMoved
<1>10. ASSUME NEW c \in RH!Present, NEW id \in Id, RH!Start(c, id)
      PROVE  rhHome'
  <2>1. c \in Checkout /\ on[c] # RH!Gone /\ RH!Nowhere \notin Checkout
    BY RhythmNames DEF RH!Present
  <2>2. PICK x \in rhFile : x = [step |-> "waves", over |-> FALSE] /\ x # RH!NoFile
    <3>1. PICK x : x = [step |-> "waves", over |-> FALSE]
      OBVIOUS
    <3>2. x \in rhFile
      BY <3>1 DEF rhFile, RH!Steps
    <3>3. x.step = "waves"
      BY <3>1
    <3>4. RH!NoFile.step = "none"
      BY DEF RH!NoFile
    <3>5. x # RH!NoFile
      BY <3>3, <3>4
    <3> QED
      BY <3>1, <3>2, <3>5
  <2>3. files' = [files EXCEPT ![c][id] = x]
    BY <1>10, <2>2 DEF RH!Start
  <2>4. rhWritten(c, id, x)
    BY <1>1, <2>1, <2>2, <2>3, RhythmWrite
  <2> QED
    BY <1>1, <1>10, <2>1, <2>2, <2>4, RhythmHomeStarted DEF RH!Start, RH!tree
<1>11. ASSUME NEW c \in RH!Present, NEW id \in Id, RH!Save(c, id)
      PROVE  rhHome'
  <2>1. PICK h \in Checkout, x \in rhFile : rhEdited(h, id, x)
    BY <1>1, <1>11, RhythmSaveEdits
  <2> QED
    BY <1>1, <2>1, RhythmHomeWritten DEF rhEdited
<1>12. ASSUME NEW c \in RH!Present, NEW id \in Id, RH!Spoil(c, id)
      PROVE  rhHome'
  <2>1. PICK h \in Checkout, x \in rhFile : rhEdited(h, id, x)
    BY <1>1, <1>12, RhythmSpoilEdits
  <2> QED
    BY <1>1, <2>1, RhythmHomeWritten DEF rhEdited
<1>13. ASSUME NEW c \in RH!Present, NEW id \in Id, NEW step \in RH!Steps, RH!Set(c, id, step)
      PROVE  rhHome'
  <2>1. PICK h \in Checkout, x \in rhFile : rhEdited(h, id, x)
    BY <1>1, <1>13, RhythmSetEdits
  <2> QED
    BY <1>1, <2>1, RhythmHomeWritten DEF rhEdited
<1>14. ASSUME NEW c \in Checkout \ RH!Present, NEW b \in Branch \cup {RH!Detached}, NEW from \in RH!Present, RH!AddWorktree(c, b, from)
      PROVE  rhHome'
  <2>1. c \in Checkout /\ on[c] = RH!Gone /\ on' = [on EXCEPT ![c] = b] /\ commits' = commits /\ home' = home
    BY <1>14 DEF RH!AddWorktree, RH!Present
  <2>2. PICK g : files' = [files EXCEPT ![c] = g] /\ \A j \in Id : g[j] = RH!NoFile \/ \E k \in DOMAIN commits : g[j] = commits[k][j]
    <3>1. PICK n : /\ n = (IF b # RH!Detached /\ head[b] # 0 THEN head[b] ELSE spot[from])
                   /\ files' = [files EXCEPT ![c] = commits[n]]
      BY <1>14 DEF RH!AddWorktree
    <3>2. spot[from] \in DOMAIN commits
      BY <1>1 DEF rhTreeType, RH!Present
    <3>3. b # RH!Detached /\ head[b] # 0 => head[b] \in DOMAIN commits
      BY <1>1 DEF rhTreeType
    <3>4. n \in DOMAIN commits
      BY <3>1, <3>2, <3>3
    <3> QED
      BY <3>1, <3>4
  <2> QED
    BY <1>1, <2>1, <2>2, RhythmHomeMoved
<1>15. ASSUME NEW c \in RH!Present, NEW b \in Branch, RH!Switch(c, b)
      PROVE  rhHome'
  <2>1. c \in Checkout /\ on' = [on EXCEPT ![c] = b] /\ commits' = commits
        /\ home' = [j \in Id |-> IF home[j] = c THEN RH!Unknown ELSE home[j]]
    BY <1>15 DEF RH!Switch, RH!Leave, RH!Present
  <2>2. PICK g : files' = [files EXCEPT ![c] = g] /\ \A j \in Id : g[j] = RH!NoFile \/ \E k \in DOMAIN commits : g[j] = commits[k][j]
    <3>1. PICK n : n = head'[b]
      OBVIOUS
    <3>2. files' = [files EXCEPT ![c] = commits[n]]
      BY <1>15, <3>1 DEF RH!Switch
    <3>3. n \in DOMAIN commits
      BY <1>1, <1>15, <3>1 DEF RH!Switch, rhTreeType, RH!Present
    <3> QED
      BY <3>2, <3>3
  <2> QED
    BY <1>1, <2>1, <2>2, RhythmHomeMoved
<1>16. ASSUME NEW b \in Branch, RH!Deliver(b)
      PROVE  rhHome'
  BY <1>1, <1>16, RhythmHomeDelivered
  DEF RH!Deliver, RH!Move, rhHome, rhLone, RH!tree
<1>17. CASE UNCHANGED rhVars
  BY <1>1, <1>17 DEF rhVars, rhOnly, rhHome, rhLone, RH!tree
<1> QED
  BY <1>2, <1>3, <1>4, <1>5, <1>6, <1>7, <1>8, <1>9, <1>10, <1>11, <1>12, <1>13,
     <1>14, <1>15, <1>16, <1>17 DEF RH!Next, RH!Suites, RH!Moves

(* What a step leaves to a home: its branch, and the override.              *)
rhStill ==
  \A id \in Id : home[id] # RH!Nowhere =>
    /\ home'[id] # RH!Nowhere
    /\ \A c \in Checkout : home'[id] = c =>
         /\ home[id] = c /\ on'[c] = on[c] /\ on[c] # RH!Gone
         /\ \/ files'[c][id] = RH!Unreadable
            \/ files[c][id] # RH!Unreadable /\ (files[c][id].over => files'[c][id].over)
(* An edit leaves it.                                                       *)
LEMMA RhythmStillEdited ==
  ASSUME ServersAssumption, rhHome, NEW h \in Checkout, NEW id \in Id, NEW x \in rhFile, rhEdited(h, id, x)
  PROVE  rhStill
BY DEF rhStill, rhEdited, rhWritten, rhHome

(* Every step leaves it.                                                   *)
LEMMA RhythmStays ==
  ASSUME ServersAssumption, rhInv, RH!Next \/ UNCHANGED rhVars
  PROVE  rhStill
<1>1. rhTypes /\ rhTreeType /\ rhFileType /\ rhSole /\ rhHome
  BY DEF rhInv, rhTypes
<1>2. ASSUME RH!JournalOverride
      PROVE  rhStill
  <2>1. CASE files' = files /\ home' = home /\ on' = on
    BY <1>1, <2>1 DEF rhHome, rhStill
  <2>2. ASSUME NEW x \in rhFile, cmd.holder \in Checkout, cmd.id \in Id, rhEdited(cmd.holder, cmd.id, x)
        PROVE  rhStill
    BY <1>1, <2>2, RhythmStillEdited
  <2> QED
    BY <1>1, <1>2, <2>1, <2>2, RhythmOverrides
<1>3. ASSUME NEW yes \in BOOLEAN, RH!Judge(yes)
      PROVE  rhStill
  BY <1>1, <1>3 DEF RH!Judge, RH!Suite, RH!Refuse, rhStill, rhHome, RH!tree
<1>4. ASSUME NEW yes \in BOOLEAN, RH!CleanForOverride(yes)
      PROVE  rhStill
  BY <1>1, <1>4
  DEF RH!CleanForOverride, RH!Suite, RH!Goto, RH!Refuse, rhStill, rhHome,
      RH!tree
<1>5. ASSUME NEW yes \in BOOLEAN, RH!StartSuite(yes)
      PROVE  rhStill
  BY <1>1, <1>5 DEF RH!StartSuite, RH!Suite, RH!Refuse, rhStill, rhHome, RH!tree
<1>6. ASSUME NEW yes \in BOOLEAN, RH!EndSuite(yes)
      PROVE  rhStill
  BY <1>1, <1>6 DEF RH!EndSuite, RH!Suite, rhStill, rhHome, RH!tree
<1>7. ASSUME NEW option \in Id \cup {RH!NoId}, RH!FindRun(option)
      PROVE  rhStill
  BY <1>1, <1>7 DEF RH!FindRun, RH!Suite, RH!Refuse, rhStill, rhHome, RH!tree
<1>8. ASSUME NEW c \in RH!Present, NEW skip \in BOOLEAN, RH!GatesRun(c, skip)
      PROVE  rhStill
  BY <1>1, <1>8 DEF RH!GatesRun, RH!Suite, rhStill, rhHome, RH!tree
<1>9. ASSUME NEW c \in RH!Present, RH!RemoveWorktree(c)
      PROVE  rhStill
  <2>1. /\ c \in Checkout /\ RH!Unknown \notin Checkout /\ RH!Nowhere # RH!Unknown
        /\ home' = [j \in Id |-> IF home[j] = c THEN RH!Unknown ELSE home[j]]
    BY <1>9, RhythmNames DEF RH!RemoveWorktree, RH!Leave, RH!Present
  <2>2. \A d \in Checkout \ {c} : files'[d] = files[d] /\ on'[d] = on[d]
    BY <1>1, <1>9 DEF RH!RemoveWorktree, rhTreeType, rhFileType
  <2> QED
    BY <1>1, <2>1, <2>2 DEF rhStill, rhHome
<1>10. ASSUME NEW c \in RH!Present, NEW id \in Id, RH!Start(c, id)
      PROVE  rhStill
  <2>1. c \in Checkout /\ RH!Unknown \notin Checkout /\ RH!Nowhere # RH!Unknown
    BY RhythmNames DEF RH!Present
  <2>2. /\ \A j \in Id \ {id} : home'[j] = home[j] /\ \A d \in Checkout : files'[d][j] = files[d][j]
        /\ home[id] # RH!Nowhere => home'[id] = RH!Unknown
        /\ on' = on
    BY <1>1, <1>10 DEF RH!Start, RH!tree, rhFileType
  <2> QED
    BY <1>1, <2>1, <2>2 DEF rhStill, rhHome
<1>11. ASSUME NEW c \in RH!Present, NEW id \in Id, RH!Save(c, id)
      PROVE  rhStill
  <2>1. PICK h \in Checkout, x \in rhFile : rhEdited(h, id, x)
    BY <1>1, <1>11, RhythmSaveEdits
  <2> QED
    BY <1>1, <2>1, RhythmStillEdited
<1>12. ASSUME NEW c \in RH!Present, NEW id \in Id, RH!Spoil(c, id)
      PROVE  rhStill
  <2>1. PICK h \in Checkout, x \in rhFile : rhEdited(h, id, x)
    BY <1>1, <1>12, RhythmSpoilEdits
  <2> QED
    BY <1>1, <2>1, RhythmStillEdited
<1>13. ASSUME NEW c \in RH!Present, NEW id \in Id, NEW step \in RH!Steps, RH!Set(c, id, step)
      PROVE  rhStill
  <2>1. PICK h \in Checkout, x \in rhFile : rhEdited(h, id, x)
    BY <1>1, <1>13, RhythmSetEdits
  <2> QED
    BY <1>1, <2>1, RhythmStillEdited
<1>14. ASSUME NEW c \in Checkout \ RH!Present, NEW b \in Branch \cup {RH!Detached}, NEW from \in RH!Present, RH!AddWorktree(c, b, from)
      PROVE  rhStill
  <2>1. c \in Checkout /\ on[c] = RH!Gone /\ home' = home
    BY <1>14 DEF RH!AddWorktree, RH!Present
  <2>2. \A d \in Checkout \ {c} : files'[d] = files[d] /\ on'[d] = on[d]
    BY <1>1, <1>14 DEF RH!AddWorktree, rhTreeType, rhFileType
  <2> QED
    BY <1>1, <2>1, <2>2 DEF rhStill, rhHome
<1>15. ASSUME NEW c \in RH!Present, NEW b \in Branch, RH!Switch(c, b)
      PROVE  rhStill
  <2>1. /\ c \in Checkout /\ RH!Unknown \notin Checkout /\ RH!Nowhere # RH!Unknown
        /\ home' = [j \in Id |-> IF home[j] = c THEN RH!Unknown ELSE home[j]]
    BY <1>15, RhythmNames DEF RH!Switch, RH!Leave, RH!Present
  <2>2. \A d \in Checkout \ {c} : files'[d] = files[d] /\ on'[d] = on[d]
    BY <1>1, <1>15 DEF RH!Switch, rhTreeType, rhFileType
  <2> QED
    BY <1>1, <2>1, <2>2 DEF rhStill, rhHome
<1>16. ASSUME NEW b \in Branch, RH!Deliver(b)
      PROVE  rhStill
  <2>1. /\ home' = home /\ on' = on /\ MainCheckout \in Checkout /\ on[MainCheckout] = <<"main">>
        /\ files[MainCheckout] = commits[spot[MainCheckout]]
    BY <1>16, RhythmNames DEF RH!Deliver, RH!CommitAs, RH!Dirty
  <2>2. \A d \in Checkout \ {MainCheckout} : files'[d] = files[d]
    BY <1>1, <1>16 DEF RH!Deliver, rhFileType
  <2>3. spot[MainCheckout] \in DOMAIN commits
    BY <1>1, <2>1 DEF rhTreeType
  <2>4. \A id \in Id : home[id] # MainCheckout
    BY <1>1, <2>1, <2>3 DEF rhHome, rhLone
  <2> QED
    BY <1>1, <2>1, <2>2, <2>4 DEF rhStill, rhHome
<1>17. CASE UNCHANGED rhVars
  BY <1>1, <1>17 DEF rhVars, rhOnly, rhStill, rhHome, RH!tree
<1> QED
  BY <1>2, <1>3, <1>4, <1>5, <1>6, <1>7, <1>8, <1>9, <1>10, <1>11, <1>12, <1>13,
     <1>14, <1>15, <1>16, <1>17 DEF RH!Next, RH!Suites, RH!Moves

(* So a command that stays the same keeps what it knows.                   *)
rhKnows == rhSole /\ rhDue /\ rhOver /\ cmd.missed = FALSE
(* It keeps it after any such step.                                        *)
LEMMA RhythmSameCommand ==
  ASSUME ServersAssumption, rhInv, rhStill, cmd'.due = cmd.due, cmd'.id = cmd.id, cmd'.holder = cmd.holder,
         cmd'.sole = cmd.sole, cmd'.missed = cmd.missed, cmd'.pc = cmd.pc \/ (cmd'.pc = "running" /\ cmd.pc = "start")
  PROVE  rhKnows'
<1>1. rhSole /\ rhDue /\ rhOver /\ cmd.missed = FALSE /\ cmd \in rhCmd
  BY DEF rhInv, rhTypes, rhCmdType
<1>2. rhSole'
  BY <1>1 DEF rhSole, rhStill
<1>3. rhDue'
  BY <1>1 DEF rhDue
<1>4. ASSUME cmd.due = "task", cmd'.pc \in {"start", "running"}, NEW c \in cmd.sole, c \in RH!Home(cmd.id)',
             files'[c][cmd.id] # RH!Unreadable
      PROVE  files'[c][cmd.id].over
  <2>1. c \in Checkout /\ cmd.id \in Id /\ home[cmd.id] # RH!Nowhere
    BY <1>1, <1>4 DEF rhSole, rhCmd
  <2>2. /\ home'[cmd.id] = c /\ on'[c] \in {RH!Own(cmd.id), IF c = MainCheckout THEN <<"main">> ELSE RH!Own(cmd.id)}
    BY <1>4 DEF RH!Home
  <2>3. /\ home[cmd.id] = c /\ on'[c] = on[c] /\ on[c] # RH!Gone
        /\ files[c][cmd.id] # RH!Unreadable /\ (files[c][cmd.id].over => files'[c][cmd.id].over)
    BY <1>4, <2>1, <2>2 DEF rhStill
  <2>4. c \in RH!Home(cmd.id)
    BY <2>1, <2>2, <2>3 DEF RH!Home, RH!Present
  <2>5. cmd.pc \in {"start", "running"}
    BY <1>4
  <2> QED
    BY <1>1, <1>4, <2>3, <2>4, <2>5 DEF rhOver
<1>5. rhOver'
  BY <1>4 DEF rhOver
<1> QED
  BY <1>1, <1>2, <1>3, <1>5 DEF rhKnows

(* Where nothing is expected, nothing is required.                         *)
LEMMA RhythmUnknown ==
  ASSUME ServersAssumption, rhInv, rhStill, cmd'.due = "unknown",
         cmd'.pc \notin {"judge", "clean", "journal"} \/ cmd'.id \in Id, cmd'.missed = FALSE,
         cmd'.sole = {} \/ (cmd'.sole = cmd.sole /\ cmd'.holder = cmd.holder /\ cmd'.id = cmd.id)
           \/ (cmd'.id \in Id /\ home' = home /\ \A c \in cmd'.sole : c = cmd'.holder /\ home[cmd'.id] # RH!Nowhere)
  PROVE  rhKnows'
<1>1. rhSole
  BY DEF rhInv
<1>2. rhSole'
  BY <1>1 DEF rhSole, rhStill
<1> QED
  BY <1>2 DEF rhKnows, rhDue, rhOver

(* An idle command knows nothing.                                          *)
LEMMA RhythmIdleKnows ==
  ASSUME ServersAssumption, rhInv, rhStill,
         cmd' = RH!Idle \/ \E c \in Checkout : cmd' = [RH!Idle EXCEPT !.pc = "find", !.at = c]
  PROVE  rhKnows'
<1>1. PICK q : q = RH!Idle
  OBVIOUS
<1>2. q \in rhCmd /\ q.due = "unknown" /\ q.pc = "idle" /\ q.missed = FALSE /\ q.sole = {}
  BY <1>1, RhythmIdle DEF RH!Idle
<1>3. cmd' = q \/ \E c \in Checkout : cmd' = [q EXCEPT !.pc = "find", !.at = c]
  BY <1>1
<1>4. cmd'.due = "unknown" /\ cmd'.pc \in {"idle", "find"} /\ cmd'.missed = FALSE /\ cmd'.sole = {}
  BY <1>2, <1>3 DEF rhCmd
<1> QED
  BY <1>4, RhythmUnknown

(* What the command knows, after every step.                               *)
LEMMA RhythmKnows ==
  ASSUME ServersAssumption, rhInv, RH!Next \/ UNCHANGED rhVars
  PROVE  rhKnows'
<1>1. /\ rhInv /\ rhTypes /\ rhCmdType /\ rhSole /\ rhHome /\ rhOnce /\ rhDue /\ rhOver
      /\ cmd.missed = FALSE /\ rhStill
  BY RhythmStays DEF rhInv, rhTypes
<1>2. ASSUME RH!JournalOverride
      PROVE  rhKnows'
  <2>1. CASE cmd' = RH!Idle
    BY <1>1, <2>1, RhythmIdleKnows
  <2>2. ASSUME cmd' = [cmd EXCEPT !.pc = "start"], cmd.holder \in Checkout, cmd.id \in Id,
               NEW x \in rhFile, rhEdited(cmd.holder, cmd.id, x), x.over
        PROVE  rhKnows'
    <3>1. /\ cmd'.pc = "start" /\ cmd'.due = cmd.due /\ cmd'.id = cmd.id
          /\ cmd'.holder = cmd.holder /\ cmd'.sole = cmd.sole /\ cmd'.missed = cmd.missed
      BY <1>1, <2>2, RhythmPasses
    <3>2. files'[cmd.holder][cmd.id].over
      BY <2>2 DEF rhEdited, rhWritten
    <3>3. rhSole'
      BY <1>1, <3>1 DEF rhSole, rhStill
    <3>4. rhOver'
      BY <1>1, <3>1, <3>2, <3>3 DEF rhOver, rhSole
    <3> QED
      BY <1>1, <3>1, <3>3, <3>4 DEF rhKnows, rhDue
  <2> QED
    BY <1>1, <1>2, <2>1, <2>2, RhythmOverrides
<1>3. ASSUME NEW yes \in BOOLEAN, RH!Judge(yes)
      PROVE  rhKnows'
  <2> DEFINE sure == {d \in cmd.sole \cap RH!Home(cmd.id) : files[d][cmd.id] # RH!Unreadable}
  <2>0. PICK b : b = IF \E d \in sure : RH!Expected(d, cmd.id) = "task" THEN "task" ELSE "unknown"
    OBVIOUS
  <2>1. /\ b \in {"task", "unknown"}
        /\ \/ cmd' = RH!Idle
           \/ cmd' = [cmd EXCEPT !.pc = "clean", !.due = b]
           \/ /\ cmd' = [cmd EXCEPT !.pc = "go", !.due = b]
              /\ \/ files[cmd.holder][cmd.id] \in {RH!NoFile, RH!Unreadable}
                 \/ RH!Expected(cmd.holder, cmd.id) # "task"
    BY <1>3, <2>0 DEF RH!Judge, RH!Refuse
  <2>2. CASE cmd' = RH!Idle
    BY <1>1, <2>2, RhythmIdleKnows
  <2>3. cmd.id \in Id
    BY <1>1, <1>3 DEF RH!Judge, rhSole
  <2>4. CASE /\ cmd' = [cmd EXCEPT !.pc = "go", !.due = b]
             /\ \/ files[cmd.holder][cmd.id] \in {RH!NoFile, RH!Unreadable}
                \/ RH!Expected(cmd.holder, cmd.id) # "task"
    <3>1. b = "unknown"
      <4>1. SUFFICES ASSUME NEW d \in cmd.sole, d \in RH!Home(cmd.id), files[d][cmd.id] # RH!Unreadable,
                            RH!Expected(d, cmd.id) = "task"
                     PROVE  FALSE
        BY <2>0
      <4>2. d = cmd.holder /\ files[d][cmd.id] # RH!NoFile
        BY <1>1, <2>3, <4>1 DEF rhSole, RH!Home, RH!Present, rhHome
      <4> QED
        BY <2>1, <2>4, <4>1, <4>2
    <3>2. /\ cmd'.pc = "go" /\ cmd'.due = "unknown" /\ cmd'.id = cmd.id
          /\ cmd'.holder = cmd.holder /\ cmd'.sole = cmd.sole /\ cmd'.missed = cmd.missed
      BY <1>1, <2>4, <3>1, RhythmGoes
    <3> QED
      BY <1>1, <3>2, RhythmUnknown
  <2>5. CASE cmd' = [cmd EXCEPT !.pc = "clean", !.due = b]
    <3>1. /\ cmd'.pc = "clean" /\ cmd'.id = cmd.id
          /\ cmd'.holder = cmd.holder /\ cmd'.sole = cmd.sole /\ cmd'.missed = cmd.missed
      BY <1>1, <2>5, RhythmGoes
    <3> QED
      BY <1>1, <2>3, <3>1 DEF rhKnows, rhDue, rhOver, rhSole, rhStill
  <2> QED
    BY <2>1, <2>2, <2>4, <2>5
<1>4. ASSUME NEW yes \in BOOLEAN, RH!CleanForOverride(yes)
      PROVE  rhKnows'
  <2>1. CASE cmd' = RH!Idle
    BY <1>1, <2>1, RhythmIdleKnows
  <2>2. CASE cmd' = [cmd EXCEPT !.pc = "journal"]
    <3>1. /\ cmd'.pc = "journal" /\ cmd'.due = cmd.due /\ cmd'.id = cmd.id
          /\ cmd'.holder = cmd.holder /\ cmd'.sole = cmd.sole /\ cmd'.missed = cmd.missed
      BY <1>1, <2>2, RhythmPasses
    <3>2. cmd.pc = "clean"
      BY <1>4 DEF RH!CleanForOverride
    <3> QED
      BY <1>1, <3>1, <3>2 DEF rhKnows, rhDue, rhOver, rhSole, rhStill
  <2> QED
    BY <1>4, <2>1, <2>2 DEF RH!CleanForOverride, RH!Goto, RH!Refuse
<1>5. ASSUME NEW yes \in BOOLEAN, RH!StartSuite(yes)
      PROVE  rhKnows'
  <2>1. CASE cmd' = RH!Idle
    BY <1>1, <2>1, RhythmIdleKnows
  <2>2. ASSUME NEW z \in BOOLEAN, cmd' = [cmd EXCEPT !.pc = "running", !.clean = z]
        PROVE  rhKnows'
    <3>1. /\ cmd'.pc = "running" /\ cmd'.due = cmd.due /\ cmd'.id = cmd.id
          /\ cmd'.holder = cmd.holder /\ cmd'.sole = cmd.sole /\ cmd'.missed = cmd.missed
      BY <1>1, <2>2, RhythmPasses
    <3>2. CASE cmd.pc = "start"
      BY <1>1, <3>1, <3>2, RhythmSameCommand
    <3>3. CASE cmd.pc = "go"
      <4>1. cmd.due = "unknown"
        BY <1>1, <3>3 DEF rhDue, rhCmdType, rhCmd
      <4> QED
        BY <1>1, <3>1, <4>1, RhythmUnknown
    <3> QED
      BY <1>5, <3>2, <3>3 DEF RH!StartSuite
  <2> QED
    BY <1>5, <2>1, <2>2 DEF RH!StartSuite, RH!Refuse
<1>6. ASSUME NEW yes \in BOOLEAN, RH!EndSuite(yes)
      PROVE  rhKnows'
  BY <1>1, <1>6, RhythmIdleKnows DEF RH!EndSuite
<1>7. ASSUME NEW option \in Id \cup {RH!NoId}, RH!FindRun(option)
      PROVE  rhKnows'
  <2>1. cmd.pc = "find" /\ cmd.due = "unknown" /\ home' = home
    BY <1>1, <1>7 DEF RH!FindRun, RH!Suite, rhDue, rhCmdType, rhCmd
  <2>2. CASE cmd' = RH!Idle
    BY <1>1, <2>2, RhythmIdleKnows
  <2>3. CASE /\ RH!Known(cmd.at) = {}
             /\ cmd' = [cmd EXCEPT !.pc = "go", !.missed = \E id \in RH!BranchSpecIds(on[cmd.at]) : RH!Home(id) # {}]
    <3>1. ~(\E id \in RH!BranchSpecIds(on[cmd.at]) : RH!Home(id) # {})
      <4>1. SUFFICES ASSUME NEW id \in RH!BranchSpecIds(on[cmd.at]), NEW c \in RH!Home(id)
                     PROVE  FALSE
        OBVIOUS
      <4>2. id \in Id
        BY DEF RH!BranchSpecIds
      <4>3. RH!Located(id) = {c}
        BY <1>1, <4>2, RhythmLocated
      <4> QED
        BY <2>3, <4>3 DEF RH!Known
    <3>2. cmd' = [cmd EXCEPT !.pc = "go", !.missed = FALSE]
      BY <2>3, <3>1
    <3>3. /\ cmd'.pc = "go" /\ cmd'.due = cmd.due /\ cmd'.id = cmd.id
          /\ cmd'.holder = cmd.holder /\ cmd'.sole = cmd.sole /\ cmd'.missed = FALSE
      BY <1>1, <3>2 DEF rhCmdType, rhCmd
    <3> QED
      BY <1>1, <2>1, <3>3, RhythmUnknown
  <2>4. ASSUME NEW id \in Id, NEW b \in BOOLEAN, NEW h \in RH!Located(id),
               cmd' = [cmd EXCEPT !.pc = "judge", !.named = b, !.id = id, !.holder = h, !.sole = RH!Home(id)]
        PROVE  rhKnows'
    <3>1. PICK F : F = RH!Home(id)
      OBVIOUS
    <3>2. \A c \in F : c = h /\ home[id] # RH!Nowhere
      BY <1>1, <2>4, <3>1, RhythmLocated, RhythmNames
    <3>3. /\ cmd'.pc = "judge" /\ cmd'.due = cmd.due /\ cmd'.id = id
          /\ cmd'.holder = h /\ cmd'.sole = F /\ cmd'.missed = cmd.missed
      BY <1>1, <2>4, <3>1 DEF rhCmdType, rhCmd
    <3> QED
      BY <1>1, <2>1, <3>2, <3>3, RhythmUnknown
  <2> QED
    BY <1>7, <2>2, <2>3, <2>4
    DEF RH!FindRun, RH!Refuse, RH!FoundByBranch, RH!Known, RH!BranchSpecIds
<1>8. ASSUME NEW c \in RH!Present, NEW skip \in BOOLEAN, RH!GatesRun(c, skip)
      PROVE  rhKnows'
  BY <1>1, <1>8, RhythmIdleKnows DEF RH!GatesRun, RH!Present
<1>9. ASSUME NEW c \in RH!Present, RH!RemoveWorktree(c)
      PROVE  rhKnows'
  BY <1>1, <1>9, RhythmSameCommand
  DEF RH!RemoveWorktree, RH!Move, RH!Leave, rhKnows, rhCmdType
<1>10. ASSUME NEW c \in RH!Present, NEW id \in Id, RH!Start(c, id)
      PROVE  rhKnows'
  BY <1>1, <1>10, RhythmSameCommand DEF RH!Start, RH!Move, rhKnows, rhCmdType
<1>11. ASSUME NEW c \in RH!Present, NEW id \in Id, RH!Save(c, id)
      PROVE  rhKnows'
  BY <1>1, <1>11, RhythmSameCommand DEF RH!Save, RH!Move, rhKnows, rhCmdType
<1>12. ASSUME NEW c \in RH!Present, NEW id \in Id, RH!Spoil(c, id)
      PROVE  rhKnows'
  BY <1>1, <1>12, RhythmSameCommand DEF RH!Spoil, RH!Move, rhKnows, rhCmdType
<1>13. ASSUME NEW c \in RH!Present, NEW id \in Id, NEW step \in RH!Steps, RH!Set(c, id, step)
      PROVE  rhKnows'
  BY <1>1, <1>13, RhythmSameCommand DEF RH!Set, RH!Move, rhKnows, rhCmdType
<1>14. ASSUME NEW c \in Checkout \ RH!Present, NEW b \in Branch \cup {RH!Detached}, NEW from \in RH!Present, RH!AddWorktree(c, b, from)
      PROVE  rhKnows'
  BY <1>1, <1>14, RhythmSameCommand DEF RH!AddWorktree, RH!Move, rhKnows, rhCmdType
<1>15. ASSUME NEW c \in RH!Present, NEW b \in Branch, RH!Switch(c, b)
      PROVE  rhKnows'
  BY <1>1, <1>15, RhythmSameCommand
  DEF RH!Switch, RH!Move, RH!Leave, rhKnows, rhCmdType
<1>16. ASSUME NEW b \in Branch, RH!Deliver(b)
      PROVE  rhKnows'
  BY <1>1, <1>16, RhythmSameCommand DEF RH!Deliver, RH!Move, rhKnows, rhCmdType
<1>17. CASE UNCHANGED rhVars
  BY <1>1, <1>17, RhythmSameCommand DEF rhVars, rhOnly, rhKnows, rhCmdType
<1> QED
  BY <1>2, <1>3, <1>4, <1>5, <1>6, <1>7, <1>8, <1>9, <1>10, <1>11, <1>12, <1>13,
     <1>14, <1>15, <1>16, <1>17 DEF RH!Next, RH!Suites, RH!Moves

(* At first, nothing was started.                                          *)
LEMMA RhythmInit ==
  ASSUME ServersAssumption, RH!Init
  PROVE  rhInv
<1>1. RH!NoStates \in [Id -> rhFile] /\ \A id \in Id : RH!NoStates[id] = RH!NoFile
  BY RhythmNames DEF RH!NoStates
<1>2. commits = <<RH!NoStates>> /\ commits \in Seq([Id -> rhFile]) /\ Len(commits) = 1 /\ commits[1] = RH!NoStates
  BY <1>1 DEF RH!Init
<1>3. rhTreeType
  <2>1. on \in [Checkout -> Branch \cup {RH!Gone, RH!Detached}]
    BY RhythmNames DEF RH!Init
  <2>2. /\ spot \in [Checkout -> Nat \ {0}] /\ head \in [Branch -> Nat]
        /\ \A c \in Checkout : spot[c] <= 1
        /\ \A b \in Branch : head[b] <= 1
    BY DEF RH!Init
  <2> QED
    BY <1>2, <2>1, <2>2 DEF rhTreeType
<1>4. rhFileType
  BY <1>1 DEF RH!Init, rhFileType
<1>5. rhOnce
  BY DEF RH!Init, rhOnce, ServersAssumption, RH!RhythmAssumption
<1>6. rhHome
  <2>1. /\ \A id \in Id : home[id] = RH!Nowhere
        /\ \A c \in Checkout, id \in Id : files[c][id] = RH!NoFile
    BY <1>1 DEF RH!Init
  <2>2. \A k \in DOMAIN commits, id \in Id : commits[k][id] = RH!NoFile
    BY <1>1, <1>2
  <2> QED
    BY <2>1, <2>2, RhythmNames DEF rhHome
<1>7. /\ cmd = RH!Idle /\ rhCmdType
  BY RhythmIdle DEF RH!Init, rhCmdType
<1>8. cmd.pc = "idle" /\ cmd.sole = {} /\ cmd.due = "unknown" /\ cmd.missed = FALSE
  BY <1>7 DEF RH!Idle
<1> QED
  BY <1>3, <1>4, <1>5, <1>6, <1>7, <1>8 DEF rhInv, rhTypes, rhSole, rhDue, rhOver

(* SuitesInRhythm of Servers: whatever the checkouts, the branches and the *)
(* commits that bring copies of the states, a full suite where the state   *)
(* of an execution at home expects the level of a task starts only with    *)
(* its override in that state, and no such execution goes unseen.          *)
THEOREM RhythmSuites == Spec => []SuitesInRhythm
<1> USE ServersAssumption
<1> DEFINE Inv == part = "rhythm" => rhInv
<1>1. Init => Inv
  BY RhythmInit DEF Init
<1>2. Inv /\ [Next]_vars => Inv'
  <2>1. rhInv /\ (RH!Next \/ UNCHANGED rhVars) => rhInv'
    BY RhythmTypes, RhythmOnce, RhythmHomeKept, RhythmKnows
    DEF rhInv, rhTypes, rhKnows
  <2> QED
    BY <2>1, RhythmStep, PartStays
<1>3. Inv => SuitesInRhythm
  BY DEF rhInv, rhOver, RH!SuitesInRhythm, SuitesInRhythm
<1> QED
  BY <1>1, <1>2, <1>3, PTL DEF Spec
=============================================================================
