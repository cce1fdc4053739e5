------------------------------- MODULE Reviews -------------------------------
(***************************************************************************)
(* The reviews of a branch: `apv review plan` (review/plan.ts) proposes    *)
(* the domains from the diff, the lead launches the workflow               *)
(* (workflows/revues.js), whose agents work in parallel, and the workflow  *)
(* consolidates what they return.                                          *)
(*                                                                         *)
(* A file is a sequence of lines and a line is an import, a mention of a   *)
(* path or a statement; the diff is read as Git gives it, lines removed    *)
(* and lines added without their context.  What the tokens of a line mean  *)
(* (Meaning) is known to the model, and only their text to the code.       *)
(***************************************************************************)
EXTENDS Naturals, Sequences, FiniteSets, SequencesExt, FiniteSetsExt, Functions, TLC

CONSTANTS
  Path, ClassesOf,  \* the paths a changed file may have; their path classes
  Design,           \* those under the folder of the validated mockups
  Lines,            \* the lines a file may have
  MaxLines,         \* bound: lines of a file of `Path1`
  Path1,            \* the path whose contents are tried up to MaxLines
  Texts,            \* lines, binary, or a patch that is not found
  Forces,           \* sets of domains review.always and --force may hold
  Launches,         \* sets of reviews the lead may launch, whatever the plan
  Shapes,           \* findings an agent may report: severity, required, confidence
  MaxFindings       \* bound: findings of a report

Domains == {"securite", "fidelite", "donnees", "rgpd"}      \* REVIEW_DOMAINS
PathClasses == {"ui", "data", "migrations", "personal", "legal", "neutral"}

ReviewsAssumption ==
  /\ ClassesOf \in [Path -> SUBSET PathClasses] /\ Design \subseteq Path
  /\ Path1 \in Path /\ MaxLines \in Nat
  /\ Forces \subseteq SUBSET Domains

Forgotten == [reviews |-> {}]

VARIABLES
  pc,        \* diff, planned, read, running, collected, grouped, done, refused
  file,      \* the changed file, beside a module that moved
  plan,      \* the domains the plan retains
  input,     \* parameters of the workflow: reviews, skipped
  results,   \* what the agent of each domain returned
  collected, \* reports, incomplete, refused, findings
  groups, consolidated

vars == <<pc, file, plan, input, results, collected, groups, consolidated>>
-----------------------------------------------------------------------------
(* Lines and what they mean.  A reference is a path from the root of the   *)
(* sources: `full` when it is resolved (relative specifier), otherwise an  *)
(* alias, which names a file by the end of its path.                       *)

Moved == [from |-> <<"a", "x">>, path |-> <<"b", "x">>]      \* the renames of the diff
At(side) == IF side = "from" THEN Moved.from ELSE Moved.path

\* What a reference leads to on a side of the diff: a moved module stays itself,
\* and its old name, where it is left, still means it.
Meaning(l, side) ==
  IF l.kind = "code" THEN <<"code", l.ref>>
  ELSE <<l.kind, IF l.ref \in {Moved.from, At(side)} THEN Moved.path ELSE l.ref>>
Ambiguous(l, side) == /\ l.kind # "code" /\ ~l.full /\ l.ref # At(side)
                      /\ IsSuffix(l.ref, At(side))

\* canonicalToken: the name of the moved module, the resolved path, or the text.
Canonical(l, side) ==
  LET found == IF l.full THEN l.ref = At(side) ELSE IsSuffix(l.ref, At(side))
  IN IF l.kind = "code" THEN <<"raw", l.ref>>
     ELSE IF found THEN <<"named", Moved.path>>
     ELSE IF l.full THEN <<"resolved", l.ref>> ELSE <<"raw", l.ref>>

\* Without the marks that follow another one.
Collapsed(s) == FoldLeft(LAMBDA r, x : IF r # <<>> /\ Last(r) = x /\ x = <<"mark">>
                                       THEN r ELSE Append(r, x), <<>>, s)
CountOf(s, x) == Cardinality({k \in DOMAIN s : s[k] = x})
SameBag(s, t) == \A x \in Range(s) \cup Range(t) : CountOf(s, x) = CountOf(t, x)

\* normalized: the module statements as a bag, the rest in its order.
Statements(ls, side) ==
  [k \in DOMAIN SelectSeq(ls, LAMBDA l : l.kind = "import") |->
     Canonical(SelectSeq(ls, LAMBDA l : l.kind = "import")[k], side)]
Rest(ls, side) ==
  Collapsed([k \in DOMAIN ls |-> IF ls[k].kind = "import" THEN <<"mark">>
                                 ELSE Canonical(ls[k], side)])
ReferencesOnly(removed, added) ==
  /\ removed # <<>> \/ added # <<>>
  /\ SameBag(Statements(removed, "from"), Statements(added, "path"))
  /\ Rest(removed, "from") = Rest(added, "path")

\* Git: what a shortest edit script removes and adds, by the text of the lines.
At1(s, K) == LET k == SetToSortSeq(K, <) IN [n \in DOMAIN k |-> s[k[n]]]
Scripts(before, after) ==
  LET Common == {<<K, L>> \in (SUBSET DOMAIN before) \X (SUBSET DOMAIN after) :
                   At1(before, K) = At1(after, L)}
      longest == Max({Cardinality(c[1]) : c \in Common})
  IN {[removed |-> At1(before, DOMAIN before \ c[1]), added |-> At1(after, DOMAIN after \ c[2])] :
        c \in {x \in Common : Cardinality(x[1]) = longest}}
-----------------------------------------------------------------------------
(* The plan.                                                                *)

\* `text` is what the patch of the file is: lines, binary, or not found.
Change(f, p) ==
  CASE f.status = "R100" -> "none"
    [] f.text # "lines" -> "content"
    [] f.text = "lines" /\ f.status # "R100" /\ p.removed = <<>> /\ p.added = <<>> ->
         IF f.status \in {"M", "R"} THEN "none" ELSE "content"
    [] OTHER -> IF ReferencesOnly(p.removed, p.added) THEN "paths" ELSE "content"

ClassesOfNewName(f) == ClassesOf[f.path]            \* mutated form of Classes
\* The classes of both names of a renamed file.
Classes(f) == ClassesOf[f.path] \cup ClassesOf[f.from]
Terms == ("sql" :> {"donnees"}) @@ ("cookie" :> {"rgpd"})    \* review.terms
Says(l) == IF l.kind = "code" /\ l.ref[1] \in DOMAIN Terms THEN Terms[l.ref[1]] ELSE {}

FileKeeps(f, p) ==
  LET classes == Classes(f)
      inDesign == {f.path, f.from} \cap Design # {}
      If(c, ds) == IF c THEN ds ELSE {}
      touched == If("migrations" \in classes, {"donnees", "rgpd"}) \cup If(inDesign, {"fidelite"})
      words == If(f.text = "lines", UNION {Says(l) : l \in Range(p.added) \cup Range(p.removed)})
      others == Domains \ {"securite"}
  IN CASE Change(f, p) # "content" -> touched
       [] Change(f, p) = "content" /\ classes \subseteq {"neutral"} /\ ~inDesign ->
            If(classes = {}, others)
       [] OTHER -> touched \cup If("ui" \in classes, {"fidelite"}) \cup If("data" \in classes, {"donnees"})
                   \cup If({"personal", "legal"} \cap classes # {}, {"rgpd"}) \cup words

PlanReviews ==
  /\ pc = "diff"
  /\ \E p \in Scripts(file.before, file.after), forced \in Forces :
       plan' = [change |-> Change(file, p), patch |-> p, forced |-> forced,
                retained |-> {"securite"} \cup FileKeeps(file, p) \cup forced]
  /\ pc' = "planned"
  /\ UNCHANGED <<file, input, results, collected, groups, consolidated>>
-----------------------------------------------------------------------------
(* The workflow.                                                            *)

\* The lead reads the plan, and nothing keeps it.
LeadReads ==
  /\ pc = "planned" /\ pc' = "read"
  /\ file' = Forgotten /\ plan' = Forgotten
  /\ UNCHANGED <<input, results, collected, groups, consolidated>>

\* The lead launches it, as the plan says or with mistakes of its own.
InputIsRight(reviews, skipped) ==
  /\ reviews # {}
  /\ "securite" \notin skipped
  /\ reviews \cap skipped = {}
  /\ skipped # {} => "securite" \in reviews
Launch ==
  /\ pc = "read"
  /\ \E reviews \in Launches, skipped \in SUBSET Domains :
       IF InputIsRight(reviews, skipped)
       THEN /\ pc' = "running" /\ input' = [reviews |-> reviews, skipped |-> skipped]
            /\ results' = [d \in reviews |-> <<"running">>]
       ELSE pc' = "refused" /\ UNCHANGED <<input, results>>
  /\ UNCHANGED <<file, plan, collected, groups, consolidated>>

\* An agent ends: without a report, without findings in it, with a claim
\* without its level or its proof, or with findings.
Agent(d) ==
  /\ pc = "running" /\ results[d] = <<"running">>
  /\ \E r \in {<<"nothing">>, <<"absent">>, <<"unproved">>}
              \cup {<<"findings", fs>> : fs \in BoundedSeq(Shapes, MaxFindings)} :
       results' = [results EXCEPT ![d] = r]
  /\ UNCHANGED <<pc, file, plan, input, collected, groups, consolidated>>

Ids(d) == [n \in DOMAIN results[d][2] |-> <<d, n>>]
Finding(id) == results[id[1]][2][id[2]]
Alone(ids) == [n \in DOMAIN ids |-> <<ids[n]>>]
Collect ==
  /\ pc = "running" /\ \A d \in input.reviews : results[d] # <<"running">>
  /\ LET By(k) == {d \in input.reviews : results[d][1] \in k}
         ids == FlattenSeq([k \in 1..Cardinality(By({"findings"})) |->
                             Ids(SetToSeq(By({"findings"}))[k])])
     IN /\ collected' = [reports |-> By({"findings"}), incomplete |-> By({"nothing"}),
                         refused |-> By({"absent", "unproved"}), findings |-> ids]
        /\ groups' = Alone(ids)
        /\ pc' = IF Len(ids) > 1 /\ Cardinality(By({"findings"})) > 1 THEN "collected" ELSE "grouped"
  /\ UNCHANGED <<file, plan, input, results, consolidated>>

CleanedWithoutUsed(gs, known) ==                    \* mutated form of Cleaned
  LET ids == [k \in DOMAIN gs |-> SelectSeq(gs[k], LAMBDA id : id \in known)]
  IN [used |-> UNION {Range(ids[k]) : k \in DOMAIN ids}, clean |-> SelectSeq(ids, LAMBDA g : g # <<>>)]

\* What is left of the groups an agent returns: known identifiers, each in the
\* first group that has it (`used` grows after each group).
Cleaned(gs, known) ==
  LET Step(acc, g) ==
        LET ids == SelectSeq(g, LAMBDA id : id \in known \ acc.used)
        IN [used |-> acc.used \cup Range(ids),
            clean |-> IF ids = <<>> THEN acc.clean ELSE Append(acc.clean, ids)]
  IN FoldLeft(Step, [used |-> {}, clean |-> <<>>], gs)
\* The agent of the consolidation may drop, repeat and invent identifiers.
Group ==
  /\ pc = "collected"
  /\ LET ids == collected.findings IN
     \/ UNCHANGED groups                                  \* no answer
     \/ \E gs \in BoundedSeq(BoundedSeq(Range(ids) \cup {<<"invented", 1>>}, 2), 2) :
          LET c == Cleaned(gs, Range(ids)) IN
          groups' = c.clean \o Alone(SelectSeq(ids, LAMBDA id : id \notin c.used))
  /\ pc' = "grouped"
  /\ UNCHANGED <<file, plan, input, results, collected, consolidated>>

Consolidate ==
  /\ pc = "grouped"
  /\ consolidated' = {
       LET members == {Finding(id) : id \in Range(g)}
       IN [ids |-> Range(g), severity |-> Min({m.severity : m \in members}),
           required |-> \E m \in members : m.required,
           confidence |-> Min({m.confidence : m \in members})] : g \in Range(groups)}
  /\ pc' = "done"
  /\ UNCHANGED <<file, plan, input, results, collected, groups>>

\* Escalation: what is likely is checked, what is supposed goes to the operator.
Verify == {c \in consolidated : c.confidence = 1}
Operator == {c \in consolidated : c.confidence = 2}
-----------------------------------------------------------------------------
\* The status Git gives to a file with these names and contents.
Status(path, from, before, after) ==
  IF from # path THEN IF before = after THEN {"R100"} ELSE {"R"}
  ELSE {"M"} \cup (IF before = <<>> THEN {"A"} ELSE {}) \cup (IF after = <<>> THEN {"D"} ELSE {})

Init ==
  /\ \E path \in Path, from \in Path, before, after \in BoundedSeq(Lines, MaxLines), text \in Texts :
       /\ path # Path1 \/ from # path \/ text # "lines" => Len(before) <= 1 /\ Len(after) <= 1
       /\ \E status \in Status(path, from, before, after) :
            file = [path |-> path, from |-> from, status |-> status, text |-> text,
                    before |-> before, after |-> after]
  /\ pc = "diff" /\ plan = Forgotten /\ input = Forgotten /\ results = <<>>
  /\ collected = Forgotten /\ groups = <<>> /\ consolidated = {}

Next ==
  \/ PlanReviews \/ LeadReads \/ Launch \/ Collect \/ Group \/ Consolidate
  \/ \E d \in DOMAIN results : Agent(d)

Spec == Init /\ [][Next]_vars
-----------------------------------------------------------------------------
(* What changed in a file, by the meaning of its lines: the modules it      *)
(* imports, and the order of the rest.                                      *)
Imports(ls, side) ==
  LET is == SelectSeq(ls, LAMBDA l : l.kind = "import") IN [k \in DOMAIN is |-> Meaning(is[k], side)]
Others(ls, side) ==
  LET os == SelectSeq(ls, LAMBDA l : l.kind # "import") IN [k \in DOMAIN os |-> Meaning(os[k], side)]
SameImports(f) == SameBag(Imports(f.before, "from"), Imports(f.after, "path"))
SameOrder(f) == Others(f.before, "from") = Others(f.after, "path")
ContentChanged(f) ==
  \/ f.text = "binary" /\ f.status # "R100"
  \/ f.status \in {"A", "D"}
  \/ ~SameImports(f) \/ ~SameOrder(f)

\* Where the code does not see a change: a line that moved is removed and
\* added, and an alias may end the path of the moved module by chance.
Unseen(f, p) ==
  \/ ~SameOrder(f) /\ SameBag(Others(f.before, "from"), Others(f.after, "path"))
  \/ \E l \in Range(p.removed) : Ambiguous(l, "from")
  \/ \E l \in Range(p.added) : Ambiguous(l, "path")

Concerns == [ui |-> {"fidelite"}, data |-> {"donnees"}, migrations |-> {"donnees", "rgpd"},
             personal |-> {"rgpd"}, legal |-> {"rgpd"}, neutral |-> {}]

(* A domain is skipped only on the proof that it has nothing to read: no   *)
(* migration nor mockup of its own was touched, and if the meaning of the  *)
(* file changed, it is classified, none of its names is of the domain, and *)
(* unless it is neutral nor does a line speak of it - except for the two   *)
(* changes the code does not see (planReviews, referencesOnly).            *)
SkippedOnProof ==
  pc = "planned" =>
    \A d \in Domains \ plan.retained :
      /\ d # "securite" /\ d \notin plan.forced
      /\ \A n \in {file.path, file.from} :
           /\ d = "fidelite" => n \notin Design
           /\ d \in {"donnees", "rgpd"} => "migrations" \notin ClassesOf[n]
      /\ ContentChanged(file) /\ ~Unseen(file, plan.patch) =>
           LET classes == ClassesOf[file.path] \cup ClassesOf[file.from] IN
           /\ classes # {} \/ {file.path, file.from} \cap Design # {}
           /\ \A c \in classes : d \notin Concerns[c]
           /\ classes \ {"neutral"} # {} /\ file.text = "lines" =>
                \A l \in Range(file.before) \cup Range(file.after) :
                  CountOf(file.before, l) # CountOf(file.after, l) => d \notin Says(l)

(* The order of the statements of a file is content: two of them swapped   *)
(* are never taken for a rewritten reference (referencesOnly).             *)
SwappedStatementsAreContent ==
  pc = "planned" /\ plan.change = "paths" => SameOrder(file)

(* Nothing an agent found is lost: every review launched is a report, is   *)
(* incomplete or refused, one of them only; every finding of a report is   *)
(* in one consolidated finding, which is as severe, as required and as     *)
(* sure as the strongest of its members; and none was invented.            *)
EveryFindingKept ==
  pc = "done" =>
    /\ LET c == collected IN
       /\ c.reports \cup c.incomplete \cup c.refused = input.reviews
       /\ c.reports \cap c.incomplete = {} /\ c.refused \cap (c.reports \cup c.incomplete) = {}
    /\ \A d \in collected.reports : \A n \in DOMAIN results[d][2] :
         LET f == results[d][2][n]
             homes == {c \in consolidated : <<d, n>> \in c.ids}
         IN /\ Cardinality(homes) = 1
            /\ \A c \in homes : /\ c.severity <= f.severity /\ c.confidence <= f.confidence
                                /\ f.required => c.required
                                /\ f.confidence = 2 => c \in Operator \/ \E o \in c.ids : Finding(o).confidence < 2
    /\ \A c \in consolidated : \A id \in c.ids : id[1] \in collected.reports
=============================================================================
