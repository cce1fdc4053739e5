-------------------------------- MODULE Specs --------------------------------
(***************************************************************************)
(* The specification of a change: written, checked against the ledger of   *)
(* decisions and the security minimum of its request (lifecycle/           *)
(* contracts.ts, spec/check.ts, security/owasp.ts), launched (commands/    *)
(* run.ts), and the scope of the changes of its tasks (commands/scope.ts). *)
(* The author edits the file, the ledger and the stored request under a    *)
(* command that reads them one after the other.                            *)
(***************************************************************************)
EXTENDS Integers, Sequences, FiniteSets, SequencesExt, FiniteSetsExt

-----------------------------------------------------------------------------
(* The portable globs of the scopes of tasks and decisions: whether a path *)
(* matches one (policy/policy.ts) and whether two of them can match a      *)
(* common path (policy/overlap.ts).  Paths and globs are sequences of      *)
(* characters.                                                             *)
\* A path of the repository: no empty segment, and no . or .. (not among the characters here).
RelativePath(p) ==
  /\ p # <<>> /\ p[1] # "/" /\ p[Len(p)] # "/"
  /\ \A i \in 1..Len(p) - 1 : <<p[i], p[i + 1]>> # <<"/", "/">>
Supported(glob) ==
  /\ RelativePath(glob)
  /\ \A i \in 1..Len(glob) : /\ glob[i] \notin {"{", "}"}
                             /\ glob[i] = "!" => i > 1 /\ glob[i - 1] # "/"

\* The parts of a glob: "**/", "**", "*", "?" or one character.
Tokens(glob) ==
  LET n == Len(glob)
      from[i \in 1..n + 1] ==
        IF i > n THEN <<>>
        ELSE IF i = n \/ <<glob[i], glob[i + 1]>> # <<"*", "*">> THEN <<glob[i]>> \o from[i + 1]
        ELSE IF i + 1 < n /\ glob[i + 2] = "/" THEN <<"**/">> \o from[i + 3]
        ELSE <<"**">> \o from[i + 2]
  IN from[1]

(* The regular expression of matches: does the path match the whole glob? *)
Matches(path, glob) ==
  LET t == Tokens(glob)
      n == Len(path)
      Plain(i, j) == \A h \in i..j : path[h] # "/"
      rest[k \in 1..Len(t) + 1, i \in 1..n + 1] ==
        IF k > Len(t) THEN i = n + 1
        ELSE CASE t[k] = "**/" -> rest[k + 1, i] \/ \E j \in i..n : path[j] = "/" /\ rest[k + 1, j + 1]
               [] t[k] = "**"  -> \E j \in i..n + 1 : rest[k + 1, j]
               [] t[k] = "*"   -> \E j \in i..n + 1 : Plain(i, j - 1) /\ rest[k + 1, j]
               [] t[k] = "?"   -> i <= n /\ path[i] # "/" /\ rest[k + 1, i + 1]
               [] OTHER        -> i <= n /\ path[i] = t[k] /\ rest[k + 1, i + 1]
  IN rest[1, 1]

-----------------------------------------------------------------------------
\* automaton: node k stands after k parts of the glob, node -k inside the part "**/" number k.
Edge(from, on, to) == [from |-> from, on |-> on, to |-> to]
Edges(t) ==
  UNION {CASE t[k] = "**/" -> {Edge(k - 1, "any", -k), Edge(-k, "any", -k), Edge(k - 1, "/", k), Edge(-k, "/", k)}
           [] t[k] = "**"  -> {Edge(k - 1, "any", k - 1)}
           [] t[k] = "*"   -> {Edge(k - 1, "segment", k - 1)}
           [] t[k] = "?"   -> {Edge(k - 1, "segment", k)}
           [] OTHER        -> {Edge(k - 1, t[k], k)} : k \in 1..Len(t)}

\* closure: parts that may match nothing.
Closure(t, node) ==
  {node} \cup {k \in 0..Len(t) : node >= 0 /\ k > node /\ \A j \in node + 1..k : t[j] \in {"**/", "**", "*"}}

Compatible(a, b) ==
  \/ a = b \/ "any" \in {a, b}
  \/ "segment" \in {a, b} /\ "/" \notin {a, b}

\* globsOverlap: the pairs of nodes reached by one path, until no other is.
RECURSIVE Reached(_, _, _)
Reached(x, y, pairs) ==
  LET steps == {ef \in Edges(x) \X Edges(y) :
                  <<ef[1].from, ef[2].from>> \in pairs /\ Compatible(ef[1].on, ef[2].on)}
      all == pairs \cup UNION {Closure(x, ef[1].to) \X Closure(y, ef[2].to) : ef \in steps}
  IN IF all = pairs THEN pairs ELSE Reached(x, y, all)

Overlap(a, b) ==
  LET x == Tokens(a)
      y == Tokens(b)
  IN <<Len(x), Len(y)>> \in Reached(x, y, Closure(x, 0) \X Closure(y, 0))
-----------------------------------------------------------------------------

CONSTANTS
  First,          \* the specification the author writes first
  Alternatives,   \* field of a specification -> the values an edit may give it
  Ledgers,        \* ledgers of decisions
  Requests,       \* requests of the operator, and the absence of one
  SurfacesOf,     \* tracked or literal path -> the security surfaces its name shows
  Searched,       \* the tracked paths a mention is looked for among: relevant files,
                  \* manifests and security files (inspectRepository)
  Paths,          \* the paths a task may change
  SpecId,
  MaxEdits, MaxCalls   \* bounds: edits of the author, commands

Nothing == [shape |-> "absent"]
NoRun == [doc |-> Nothing, sha |-> Nothing, ledger |-> {}, request |-> {}, torn |-> FALSE,
          waves |-> <<>>, chain |-> <<>>, foundations |-> {}]
NoRequest == [given |-> FALSE, clauses |-> {}, quotes |-> {}]
Idle == [pc |-> "idle", kind |-> "ready", option |-> NoRequest, doc |-> Nothing, bytes |-> Nothing,
         ledger |-> {}, request |-> NoRequest, torn |-> FALSE]
NoAcceptance == [doc |-> Nothing, files |-> {}]

SpecsAssumption ==
  /\ First.shape = "spec" /\ DOMAIN Alternatives \subseteq DOMAIN First
  /\ NoRequest \in Requests /\ Paths \subseteq {p \in Paths : RelativePath(p)}
  /\ Searched \subseteq DOMAIN SurfacesOf
  /\ MaxEdits \in Nat /\ MaxCalls \in Nat

VARIABLES
  spec,      \* the file of the specification, or Nothing
  stored,    \* the request stored beside it
  ledger,    \* the ledger of the working copy
  cmd,       \* the command that runs, and what it has read
  run,       \* the state of the execution, or NoRun
  changed,   \* the paths the branch of a task changes since its base
  accepted,  \* the last changes found in scope, with the specification read
  edits, calls

vars == <<spec, stored, ledger, cmd, run, changed, accepted, edits, calls>>

Launched == run.doc # Nothing
Ids(items) == {items[i].id : i \in DOMAIN items}
Once(s) == Cardinality(ToSet(s)) = Len(s)
IdsOnce(items) == Cardinality(Ids(items)) = Len(items)
Criteria(d) == Ids(d.acceptance)

-----------------------------------------------------------------------------
(* assessSecurity: what the words and the paths of a request show.  A      *)
(* clause asks, excludes, forbids (an obligation, as "never leak") or      *)
(* mixes an exclusion with a second action.                                *)
ScopeText(request) == UNION {c.names : c \in {x \in request.clauses : x.kind # "exclude"}}
ChangeText(request) == UNION {c.names : c \in {x \in request.clauses : x.kind = "ask"}}
PathsMentioned(request) ==
  Searched \cap UNION {c.paths : c \in {x \in request.clauses : x.kind = "ask"}}

Infrastructure == {"ciCd", "dependencyChange"}
Critical == {"authentication", "sessionState", "authorization", "sensitiveData", "fileUploads",
             "externalRequests", "multiTenant", "secrets", "aiAgent", "mcp"}
Tested == {"authentication", "sessionState", "authorization", "fileUploads", "externalRequests", "api", "database"}

Profile(request, paths) ==
  LET words == (ScopeText(request) \ Infrastructure) \cup (ChangeText(request) \cap Infrastructure)
      seen == words \cup UNION {SurfacesOf[p] : p \in paths}
      with == {<<"password", "sensitiveData">>, <<"authentication", "sessionState">>, <<"mcp", "aiAgent">>}
  IN seen \cup {w[2] : w \in {x \in with : x[1] \in seen}}

TopicsOf ==
  [authentication |-> {"authentication", "logging-monitoring"}, password |-> {"password-storage"},
   sessionState |-> {"session-management"}, authorization |-> {"authorization", "input-validation", "logging-monitoring"},
   multiTenant |-> {"authorization"}, api |-> {"rest-security", "input-validation", "injection-prevention"},
   webUi |-> {"xss", "content-security-policy", "input-validation"},
   fileUploads |-> {"file-upload", "input-validation", "injection-prevention"},
   externalRequests |-> {"ssrf", "input-validation"}, sensitiveData |-> {"data-protection", "logging-monitoring"},
   secrets |-> {"secrets-management", "logging-monitoring"}, database |-> {"input-validation", "injection-prevention"},
   dependencyChange |-> {"software-supply-chain"}, ciCd |-> {"github-actions", "software-supply-chain"},
   aiAgent |-> {"ai-agent-security", "llm-prompt-injection", "secure-coding-with-ai"}, mcp |-> {"mcp-security"}]

Topics(profile) ==
  (UNION {TopicsOf[s] : s \in profile})
    \cup (IF {"webUi", "sessionState"} \subseteq profile THEN {"csrf"} ELSE {})
    \cup (IF profile \cap Critical # {} THEN {"threat-modeling"} ELSE {})

-----------------------------------------------------------------------------
\* decisionReason: no scope, this specification named, or a path that both may name.
Applies(decision, d) ==
  \/ decision.scope = {}
  \/ \E s \in decision.scope :
       \/ s.specs # {} /\ SpecId \in s.specs
       \/ \E p \in s.paths, i \in DOMAIN d.tasks : \E q \in d.tasks[i].paths : Overlap(p, q)

Product(l, status) == {x \in l.decisions : x.status = status /\ x.enforcement = "product"}
Resolved(d) == {d.resolutions[i].decision : i \in DOMAIN d.resolutions}
CoverageOf(d, decision) == SelectSeq(d.coverage, LAMBDA c : c.decision = decision)

(* The decisions of the ledger: known, unambiguous or resolved by words of *)
(* the operator, covered by criteria when they concern the specification;  *)
(* an ambiguous one is asked.                                              *)
DecisionIssues(d, l, request, security) ==
  LET known == {x.id : x \in l.decisions}
      ambiguous == Product(l, "ambiguous")
      required == {x.id : x \in {y \in Product(l, "confirmed") : Applies(y, d)}} \cup Resolved(d)
      ok ==
        /\ Cardinality({d.coverage[i].decision : i \in DOMAIN d.coverage}) = Len(d.coverage)
        /\ Cardinality(Resolved(d)) = Len(d.resolutions)
        /\ \A i \in DOMAIN d.coverage : d.coverage[i].decision \in known /\ d.coverage[i].criteria \subseteq Criteria(d)
        /\ \A i \in DOMAIN d.resolutions :
             /\ d.resolutions[i].decision \in {x.id : x \in ambiguous}
             /\ request.given => d.resolutions[i].quote \in request.quotes
        /\ \A id \in required : CoverageOf(d, id) # <<>> /\ CoverageOf(d, id)[1].criteria # {}
        /\ \A x \in ambiguous :
             x.id \notin Resolved(d) /\ Applies(x, d) => \E i \in DOMAIN d.questions : d.questions[i].asks = x.id
  IN IF ok THEN {} ELSE {"SPEC_DECISIONS"}

\* The minimum of the request: no topic, no surface and no negative test dropped; a threat model.
SecurityIssues(d, l, request, security) ==
  LET topics == Topics(security)
      surfaces == security \ {"password"}
      Mapped(t) == \E i \in DOMAIN d.requirements : t \in ToSet(d.requirements[i].topics)
      ok ==
        /\ \A t \in topics : t \in d.topics /\ Mapped(t)
        /\ surfaces \subseteq d.profile
        /\ IdsOnce(d.requirements)
        /\ \A i \in DOMAIN d.requirements :
             d.requirements[i].criteria \subseteq Criteria(d) /\ Once(d.requirements[i].topics)
        /\ security \cap Tested # {} => \E i \in DOMAIN d.requirements : "test" \in d.requirements[i].negative
        /\ security \cap Critical # {} => d.threats.required /\ d.threats.named /\ d.threats.list # <<>>
        /\ IdsOnce(d.threats.list)
        /\ \A i \in DOMAIN d.threats.list : d.threats.list[i].criteria \subseteq Criteria(d)
  IN IF ok THEN {} ELSE {"SPEC_SECURITY"}

TaskAt(d, id) == Last(SelectSeq(d.tasks, LAMBDA t : t.id = id))

(* visit: depth first, a task met again while it is visited closes a cycle *)
(* and a task nobody declares is missing.                                  *)
RECURSIVE Visit(_, _, _), VisitAll(_, _, _)
Visit(d, id, walk) ==
  IF id \in walk.done THEN walk
  ELSE IF id \in walk.visiting \/ id \notin Ids(d.tasks) THEN [walk EXCEPT !.wrong = TRUE]
  ELSE LET inside == VisitAll(d, TaskAt(d, id).deps, [walk EXCEPT !.visiting = @ \cup {id}])
       IN [inside EXCEPT !.visiting = @ \ {id}, !.done = @ \cup {id}]
VisitAll(d, ids, walk) == IF ids = <<>> THEN walk ELSE VisitAll(d, Tail(ids), Visit(d, Head(ids), walk))

TaskIssues(d) ==
  LET t == d.tasks
      walk == VisitAll(d, [i \in DOMAIN t |-> t[i].id], [done |-> {}, visiting |-> {}, wrong |-> FALSE])
  IN (IF walk.wrong \/ \E i \in DOMAIN t : ~Once(t[i].deps) THEN {"SPEC_DAG"} ELSE {})
       \cup (IF \A i \in DOMAIN t : Once(t[i].criteria) /\ ToSet(t[i].criteria) \subseteq Criteria(d)
               THEN {} ELSE {"SPEC"})
       \cup (IF \A i \in DOMAIN t : \A p \in t[i].paths : Supported(p) THEN {} ELSE {"GLOB"})

\* specReadinessIssues, and the questions still open.
ReadyIssues(d, l) ==
  LET open == {x \in Product(l, "ambiguous") : x.id \notin Resolved(d) /\ Applies(x, d)}
      covered == UNION {ToSet(d.tasks[i].criteria) : i \in DOMAIN d.tasks}
  IN (IF d.questions = <<>> /\ open = {} THEN {} ELSE {"OPEN_QUESTIONS"})
       \cup (IF d.tasks = <<>> THEN {"SPEC"} ELSE {})
       \cup (IF Criteria(d) \subseteq covered THEN {} ELSE {"SPEC_COVERAGE"})

\* specRuleIssues.  An unsupported glob ends the check where a scope is compared with it.
SpecIssues(d, l, request, ready) ==
  LET literal == {p \in UNION {d.tasks[i].paths : i \in DOMAIN d.tasks} : \A i \in DOMAIN p : p[i] \notin {"*", "?"}}
      text == IF request.given THEN request ELSE [given |-> FALSE, clauses |-> d.says, quotes |-> {}]
      security == Profile(text, PathsMentioned(text) \cup (literal \cap DOMAIN SurfacesOf))
      book == IF l.sound THEN l ELSE [l EXCEPT !.decisions = {}]
      tasks == TaskIssues(d)
  IN (IF l.sound THEN {} ELSE {"DECISION"})
       \cup (IF d.texts /\ IdsOnce(d.acceptance) /\ IdsOnce(d.questions) /\ IdsOnce(d.tasks) THEN {} ELSE {"SPEC"})
       \cup tasks
       \cup (IF "GLOB" \in tasks THEN {} ELSE DecisionIssues(d, book, request, security)
                                               \cup (IF ready THEN ReadyIssues(d, book) ELSE {}))
       \cup SecurityIssues(d, book, request, security)

-----------------------------------------------------------------------------
(* What an execution is created with (createRunState): the depth of a task *)
(* is one more than that of its deepest dependency, and each depth a wave. *)
RECURSIVE Depth(_, _)
Depth(d, id) ==
  IF TaskAt(d, id).deps = <<>> THEN 0
  ELSE 1 + Max({Depth(d, dep) : dep \in ToSet(TaskAt(d, id).deps)})

Depths(d) == [id \in Ids(d.tasks) |-> Depth(d, id)]
InOrder(d, ids) ==
  LET kept == SelectSeq(d.tasks, LAMBDA t : t.id \in ids) IN [i \in DOMAIN kept |-> kept[i].id]

\* Mutated form of Waves: a task is in every wave its depth allows.
WavesFromTheDepth(d, depths) ==
  LET indexes == SetToSortSeq(Range(depths), <)
  IN [i \in DOMAIN indexes |->
        [index |-> indexes[i], tasks |-> InOrder(d, {id \in DOMAIN depths : depths[id] <= indexes[i]})]]

Waves(d, depths) ==
  LET indexes == SetToSortSeq(Range(depths), <)
  IN [i \in DOMAIN indexes |->
        [index |-> indexes[i], tasks |-> InOrder(d, {id \in DOMAIN depths : depths[id] = indexes[i]})]]

\* longestChain, from the first task of the deepest wave to the first of its deepest dependencies.
RECURSIVE ChainTo(_, _, _)
ChainTo(d, depths, id) ==
  LET deepest == SelectSeq(TaskAt(d, id).deps, LAMBDA dep : depths[dep] = depths[id] - 1)
  IN IF deepest = <<>> THEN <<id>> ELSE Append(ChainTo(d, depths, deepest[1]), id)
Chain(d, depths) == ChainTo(d, depths, Last(Waves(d, depths)).tasks[1])

\* computeFoundations: what at least two tasks depend on directly.
Foundations(d) ==
  LET Dependents(id) == {i \in DOMAIN d.tasks : id \in ToSet(d.tasks[i].deps)}
  IN {id \in Ids(d.tasks) : Cardinality(Dependents(id)) >= 2}

Created(c) ==
  LET depths == Depths(c.doc)
  IN [doc |-> c.doc, sha |-> c.bytes, ledger |-> c.ledger, request |-> c.request, torn |-> c.torn,
      waves |-> Waves(c.doc, depths), chain |-> Chain(c.doc, depths), foundations |-> Foundations(c.doc)]

-----------------------------------------------------------------------------
Template == [First EXCEPT !.questions = <<[id |-> "Q-REDACTION", asks |-> "none"]>>]

Init ==
  /\ spec = Nothing /\ stored \in Requests /\ ledger \in Ledgers
  /\ cmd = Idle /\ run = NoRun /\ changed = {} /\ accepted = NoAcceptance
  /\ edits = 0 /\ calls = 0

\* apv spec new: a skeleton with a question, never over a file.
NewSpec ==
  /\ spec = Nothing /\ spec' = Template
  /\ UNCHANGED <<stored, ledger, cmd, run, changed, accepted, edits, calls>>

Write ==
  /\ spec = Template /\ cmd.pc = "idle" /\ spec' = First
  /\ UNCHANGED <<stored, ledger, cmd, run, changed, accepted, edits, calls>>

\* The author, before the first command and under a start; what a command does not read yet may be any.
EditField == spec # Nothing /\ \E f \in DOMAIN Alternatives : \E v \in Alternatives[f] : spec' = [spec EXCEPT ![f] = v]
EditSpec == spec # Template /\ EditField /\ spec' # spec /\ UNCHANGED <<stored, ledger>>
EditStored == stored' \in Requests \ {stored} /\ UNCHANGED <<spec, ledger>>
EditLedger == ledger' \in Ledgers \ {ledger} /\ UNCHANGED <<spec, stored>>
Author ==
  /\ edits < MaxEdits /\ edits' = edits + 1
  /\ cmd.kind = "start" \/ calls = 0
  /\ EditSpec \/ (cmd.pc # "idle" /\ (EditStored \/ EditLedger))
  /\ UNCHANGED <<cmd, run, changed, accepted, calls>>

\* readSpecDocument, by apv spec validate and apv run start; the one without --draft may be given a request.
Call(kind, option) ==
  /\ cmd.pc = "idle" /\ calls < MaxCalls /\ spec # Nothing
  /\ kind # "ready" => ~option.given
  /\ calls' = calls + 1
  /\ cmd' = [Idle EXCEPT !.pc = IF kind = "start" THEN "bytes" ELSE "sources", !.kind = kind,
                          !.option = option, !.doc = spec]
  /\ UNCHANGED <<spec, stored, ledger, run, changed, accepted, edits>>

\* apv run start reads the file a second time, for its digest.
ReadBytes ==
  /\ cmd.pc = "bytes"
  /\ cmd' = [cmd EXCEPT !.pc = "sources", !.bytes = spec, !.torn = spec # cmd.doc]
  /\ UNCHANGED <<spec, stored, ledger, run, changed, accepted, edits, calls>>

\* checkSpec, after the head is read: the ledger of the working copy, and the request it has most say in.
ReadSources ==
  LET d == cmd.doc
  IN /\ cmd.pc = "sources"
     /\ cmd' = [cmd EXCEPT !.pc = "rules", !.ledger = ledger,
                  !.request = IF cmd.option.given THEN cmd.option ELSE IF d.request.given THEN d.request ELSE stored]
     /\ UNCHANGED <<spec, stored, ledger, run, changed, accepted, edits, calls>>

\* Mutated form of Valid: a start keeps the rules of a draft.
ValidAsDraft(c) == c.doc.shape = "spec" /\ SpecIssues(c.doc, c.ledger, c.request, FALSE) = {}

Valid(c) == c.doc.shape = "spec" /\ SpecIssues(c.doc, c.ledger, c.request, c.kind # "draft") = {}

\* The rest of checkSpec, once the repository is inspected.  A start creates the state unless there is one.
Rules ==
  /\ cmd.pc = "rules"
  /\ cmd' = [cmd EXCEPT !.pc = IF Valid(cmd) THEN "valid" ELSE "refused"]
  /\ run' = IF cmd'.pc = "valid" /\ cmd.kind = "start" /\ ~Launched
              THEN Created(cmd) ELSE run
  /\ UNCHANGED <<spec, stored, ledger, changed, accepted, edits, calls>>

Return ==
  /\ cmd.pc \in {"valid", "refused"} /\ cmd' = Idle
  /\ UNCHANGED <<spec, stored, ledger, run, changed, accepted, edits, calls>>

\* The agent of a task commits a change of a path.
Commit(p) ==
  /\ Launched /\ cmd.pc = "idle" /\ p \notin changed /\ changed' = changed \cup {p}
  /\ UNCHANGED <<spec, stored, ledger, cmd, run, accepted, edits, calls>>

\* scopeReport, for a task of a specification: it names no path that may be created beside.
Rejected(files, task) == {f \in files : ~\E p \in task.paths : Matches(f, p)}

\* apv scope check reads the specification as it is now.
ScopeCheck(id) ==
  /\ cmd.pc = "idle" /\ changed # {} /\ spec.shape = "spec" /\ id \in Ids(spec.tasks)
  /\ LET task == spec.tasks[CHOOSE i \in DOMAIN spec.tasks :
                               spec.tasks[i].id = id /\ \A j \in 1..i - 1 : spec.tasks[j].id # id]
     IN /\ \A p \in task.paths : Supported(p)
        /\ Rejected(changed, task) = {}
  /\ accepted' = [doc |-> spec, files |-> changed]
  /\ UNCHANGED <<spec, stored, ledger, cmd, run, changed, edits, calls>>

Done == cmd.pc = "idle" /\ UNCHANGED vars

Next ==
  \/ NewSpec \/ Write \/ Author \/ ReadBytes \/ ReadSources \/ Rules \/ Return \/ Done
  \/ \E kind \in {"draft", "ready", "start"}, option \in Requests : Call(kind, option)
  \/ \E p \in Paths : Commit(p)
  \/ \E id \in {"t1", "t2"} : ScopeCheck(id)

-----------------------------------------------------------------------------
\* What the rules stand for, said without them.
Executable(d) ==
  \E rank \in [Ids(d.tasks) -> 1..Len(d.tasks)] :
    \A i \in DOMAIN d.tasks : \A j \in DOMAIN d.tasks[i].deps :
      LET dep == d.tasks[i].deps[j] IN dep \in Ids(d.tasks) /\ rank[dep] < rank[d.tasks[i].id]

Concerned(decision, d) ==
  \/ decision.scope = {}
  \/ \E s \in decision.scope : SpecId \in s.specs
  \/ \E f \in Paths, s \in decision.scope, i \in DOMAIN d.tasks :
       (\E p \in s.paths : Matches(f, p)) /\ (\E q \in d.tasks[i].paths : Matches(f, q))

\* Some criteria, each demonstrated by a task unless the specification is a draft.
Demonstrated(d, criteria, ready) ==
  /\ criteria # {} /\ criteria \subseteq Criteria(d)
  /\ ready => \A c \in criteria : \E i \in DOMAIN d.tasks : c \in ToSet(d.tasks[i].criteria)

Answered(d, l, ready) ==
  \A x \in {y \in l.decisions : y.enforcement = "product" /\ y.status \in {"confirmed", "ambiguous"}} :
    Concerned(x, d) =>
      \/ \E i \in DOMAIN d.coverage : d.coverage[i].decision = x.id /\ Demonstrated(d, d.coverage[i].criteria, ready)
      \/ x.status = "ambiguous" /\ ~ready /\ \E i \in DOMAIN d.questions : d.questions[i].asks = x.id

\* What the operator asked for in words, or by a path that is searched, on a surface that matters, is a criterion.
Secured(d, request, ready) ==
  \A c \in {x \in request.clauses : x.kind = "ask"} :
    \A s \in c.names \cup UNION {SurfacesOf[p] : p \in c.paths \cap Searched} :
      /\ s \in Tested => \E i \in DOMAIN d.requirements : "test" \in d.requirements[i].negative
      /\ \A t \in TopicsOf[s] : \E i \in DOMAIN d.requirements :
           t \in ToSet(d.requirements[i].topics) /\ Demonstrated(d, d.requirements[i].criteria, ready)

Sound(d, l, request, ready) == Executable(d) /\ Answered(d, l, ready) /\ Secured(d, request, ready)

(* A specification found valid can be executed in an order of its tasks,   *)
(* every decision that concerns a path it may change is demonstrated by    *)
(* its criteria or asked, and so is every surface the request asks for;    *)
(* and so is the one an execution started from, whatever was edited while  *)
(* the command read.  Its digest is the one of that specification, unless  *)
(* the file was edited between the two reads of it.                        *)
CheckedSpecIsSound ==
  /\ cmd.pc = "valid" => Sound(cmd.doc, cmd.ledger, cmd.request, cmd.kind # "draft")
  /\ Launched => Sound(run.doc, run.ledger, run.request, TRUE) /\ (run.torn \/ run.sha = run.doc)

(* As long as the specification is the one the execution started from, a   *)
(* change found in scope is of paths whose decisions are demonstrated.     *)
ScopeKeepsDecisions ==
  accepted # NoAcceptance /\ accepted.doc = run.doc =>
    \A f \in accepted.files, x \in Product(run.ledger, "confirmed") :
      (\E s \in x.scope : \E p \in s.paths : Matches(f, p)) =>
        \E i \in DOMAIN run.doc.coverage :
          run.doc.coverage[i].decision = x.id /\ Demonstrated(run.doc, run.doc.coverage[i].criteria, TRUE)

(* The waves of an execution: every task is in one of them, after those it *)
(* depends on and as early as they let it; the longest chain has one task  *)
(* of each, each depending on the one before.  A foundation is waited for  *)
(* by two tasks of later waves; a task two tasks wait for is one.          *)
WavesRespectDependencies ==
  Launched =>
    LET d == run.doc
        Wave(id) == CHOOSE w \in DOMAIN run.waves : id \in ToSet(run.waves[w].tasks)
        Deps(id) == ToSet(TaskAt(d, id).deps)
        Later(id) == {x \in Ids(d.tasks) : id \in Deps(x)}
    IN /\ \A w \in DOMAIN run.waves : run.waves[w].index = w - 1 /\ Once(run.waves[w].tasks)
       /\ \A id \in Ids(d.tasks) :
            /\ \E w \in DOMAIN run.waves : id \in ToSet(run.waves[w].tasks)
            /\ \A v, w \in DOMAIN run.waves : id \in ToSet(run.waves[v].tasks) \cap ToSet(run.waves[w].tasks) => v = w
       /\ \A id \in Ids(d.tasks) :
            /\ \A x \in Deps(id) : Wave(x) < Wave(id)
            /\ Wave(id) # 1 => \E x \in Deps(id) : Wave(x) = Wave(id) - 1
            /\ id \in run.foundations <=> \E x, y \in Later(id) : x # y
       /\ Len(run.chain) = Len(run.waves)
       /\ \A i \in DOMAIN run.chain :
            /\ run.chain[i] \in ToSet(run.waves[i].tasks)
            /\ i > 1 => run.chain[i - 1] \in Deps(run.chain[i])
=============================================================================
