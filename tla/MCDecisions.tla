---------------------------- MODULE MCDecisions -----------------------------
(* Parts that do not interact, side by side: those of Decisions, and       *)
(* DbSchema, Reviews, Wave, Guards, Specs, WebAudit, Readiness and         *)
(* Structure. A behaviour is one of the part chosen at the start; the      *)
(* variables of the others keep the value Idle.                            *)
EXTENDS Decisions, TLC

VARIABLES
  plan, edits, left,
  model, db, blurred, step, subject,
  pc, input, results, collected, groups, consolidated,
  agent, printed, report, sorted,
  script, here, around, decision,
  spec, stored, ledger, run, changed, accepted, calls,
  homes, queue, plock, server, suite, aud, measured,
  site,
  tracked, ok

dbOnly == <<model, db, blurred, step, subject>>
rvOnly == <<pc, input, results, collected, groups, consolidated>>
wvOnly == <<agent, printed, report, sorted>>
gdOnly == <<script, here, around, decision>>
spOnly == <<spec, stored, ledger, run, changed, accepted, calls>>
waOnly == <<homes, queue, plock, server, suite, aud, measured>>
rsOnly == <<site>>
stOnly == <<tracked, ok>>
mcVars == <<vars, plan, edits, left, dbOnly, rvOnly, wvOnly, gdOnly, spOnly,
            waOnly, rsOnly, stOnly>>

Nobody == "nobody"
-----------------------------------------------------------------------------
(* Two checks, one that depends on the other; the list of files of the     *)
(* second changes with the configuration.                                  *)
MCDependsOn == [a |-> {}, b |-> {"a"}]
MCLists == [a |-> (0 :> {"doc", "note"}) @@ (1 :> {"doc"}), b |-> (0 :> {"doc"}) @@ (1 :> {"doc"})]

(* Three checks at most, four configurations of which the last two are     *)
(* refused; two calls, two commits, two stacks.                            *)
Declare(id, needs, stage, affected, skips, stack) ==
  [id |-> id, command |-> 1, dependsOn |-> needs, stage |-> stage, affected |-> affected,
   skips |-> skips, stack |-> stack]
MCDocuments ==
  {[valid |-> TRUE, sound |-> TRUE, gates |-> gates] : gates \in
    {<<Declare("a", <<>>, "task", FALSE, FALSE, "none"),
       Declare("b", <<"a">>, "full", TRUE, TRUE, "told"),
       Declare("c", <<>>, "full", FALSE, TRUE, "told")>>,
     <<Declare("a", <<>>, "full", FALSE, TRUE, "none"),
       Declare("b", <<"a">>, "full", FALSE, TRUE, "told")>>,
     <<Declare("a", <<>>, "full", FALSE, FALSE, "none"),
       Declare("b", <<"a">>, "full", TRUE, FALSE, "none")>>,
     <<Declare("a", <<"b">>, "task", FALSE, FALSE, "none"),
       Declare("b", <<"a">>, "task", FALSE, FALSE, "none")>>}}
MCNothing == [valid |-> FALSE, sound |-> FALSE, gates |-> <<>>]
Ask(explicit, only, stage, over) ==
  [explicit |-> explicit, only |-> only, stage |-> stage, base |-> 1, anyway |-> TRUE, stacks |-> over]
MCOptions ==
  {Ask(FALSE, {"b"}, "full", <<>>), Ask(FALSE, {}, "full", <<"s", "t">>), Ask(TRUE, {}, "task", <<>>)}

(* Migrations of three statements, on tables and on functions.             *)
DB == INSTANCE DbSchema WITH
        MaxStatements <- 3, Subjects <- {"tables", "functions"}

(* Nine paths, one per class or pair of classes; a page of at most two     *)
(* lines. Two sets of reviews, and agents that report at most two          *)
(* findings.                                                               *)
ClassOf ==
  ("page" :> {"ui"}) @@ ("repository" :> {"data"}) @@ ("migration" :> {"migrations"}) @@
  ("tracker" :> {"personal"}) @@ ("terms" :> {"legal"}) @@ ("page test" :> {"ui", "neutral"}) @@
  ("test" :> {"neutral"}) @@ ("mockup" :> {"neutral"}) @@ ("other" :> {})
Ref(kind, ref, full) == [kind |-> kind, ref |-> ref, full |-> full]
Line ==
  {Ref("code", <<w>>, TRUE) : w \in {"check", "sql", "cookie"}} \cup
  {Ref("import", r, TRUE) : r \in {<<"a", "x">>, <<"b", "x">>}} \cup
  {Ref("import", r, FALSE) : r \in {<<"a", "x">>, <<"b", "x">>, <<"x">>, <<"c", "x">>}} \cup
  {Ref("mention", r, FALSE) : r \in {<<"a", "x">>, <<"b", "x">>}}
RV == INSTANCE Reviews WITH
        Path <- DOMAIN ClassOf, ClassesOf <- ClassOf, Design <- {"mockup"},
        Lines <- Line, MaxLines <- 2, Path1 <- "page", Texts <- {"lines", "binary", "absent"},
        Forces <- {{}, {"rgpd"}},
        Launches <- {{"securite", "donnees"}, {"fidelite", "concurrence"}},
        Shapes <- {[severity |-> 0, required |-> FALSE, confidence |-> 2],
                   [severity |-> 4, required |-> TRUE, confidence |-> 0]},
        MaxFindings <- 2

(* Two tasks, one commit each.                                             *)
WV == INSTANCE Wave WITH
        Task <- {"t1", "t2"}, MaxCommits <- 1

(* Two users, one of them perhaps the one who registers mockups; three     *)
(* updates, of which the last two replace the first; two contents of the   *)
(* mockup.                                                                 *)
D(n, s, quote, supersedes) ==
  [id |-> <<"d", n>>, source |-> s, status |-> IF n = 1 THEN "confirmed" ELSE "proposed",
   quote |-> quote, supersedes |-> supersedes, sha |-> 0]
MCTeams == {{}, {"v"}}
MCUpdates ==
  {{D(1, "operator", TRUE, {})}, {D(2, "derived", FALSE, {<<"d", 1>>})},
   {D(2, "operator", TRUE, {<<"d", 1>>})}}

(* A session and its parent, two stacks declared with a lock and one       *)
(* without, a copy whose node_modules is a link.                           *)
GuardProcesses ==
  ("7" :> [parent |-> "6", group |-> "-7", name |-> "claude"]) @@
  ("6" :> [parent |-> "1", group |-> "-6", name |-> "code"]) @@
  ("8" :> [parent |-> "7", group |-> "-8", name |-> "vite"])
GuardStack(id, lock, held, database) ==
  [id |-> id, lockFile |-> lock, resource |-> held, project |-> database,
   lockCommand |-> "lock.sh", env |-> {IF id = "a" THEN "STACK=a" ELSE "STACK=b"}]
GuardConfig ==
  {GuardStack("a", "/locks/a", "", "pa"), GuardStack("b", "", "rb", "pb"), GuardStack("c", "", "", "pc")}
GD == INSTANCE Guards WITH
        Processes <- GuardProcesses, Packages <- {<<"main">>, <<"copy">>}, Linked <- {<<"copy">>},
        ProjectAt <- (<<"main">> :> "pa") @@ (<<"copy">> :> "pb"), Config <- GuardConfig,
        MaxNesting <- 3, Session <- "7", LeaseLists <- {{"rb"}},
        Flocks <- {[file |-> "/locks/a", pid |-> "6"], [file |-> "/locks/b", pid |-> "8"]},
        Places <- {<<"main">>, <<"copy", "src">>}, MaxNested <- 3

(* A specification of two tasks about a database, what an edit may make of *)
(* each of its fields, and a ledger of one decision.                       *)
SpecNoRequest == [given |-> FALSE, clauses |-> {}, quotes |-> {}]
SpecClause(kind, names, paths) == [kind |-> kind, names |-> names, paths |-> paths]
SpecDb == <<"d", "/", "b">>
SpecIn == <<"a", "/", "b">>
SpecTask(id, deps, criteria, paths) == [id |-> id, deps |-> deps, criteria |-> criteria, paths |-> paths]
SpecCover(criteria) == [decision |-> "d", criteria |-> criteria]
SpecNeed(id, topics, criteria, negative) == [id |-> id, topics |-> topics, criteria |-> criteria, negative |-> negative]
SpecTopics == {"input-validation", "injection-prevention"}
SpecFirst ==
  [shape |-> "spec", request |-> SpecNoRequest, texts |-> TRUE, says |-> {}, acceptance |-> <<[id |-> "c1"], [id |-> "c2"]>>,
   coverage |-> <<SpecCover({"c1"})>>, resolutions |-> <<>>, questions |-> <<>>,
   tasks |-> <<SpecTask("t1", <<>>, <<"c1">>, {<<"a", "/", "*">>}), SpecTask("t2", <<"t1">>, <<"c2">>, {SpecDb})>>,
   topics |-> SpecTopics,
   requirements |-> <<SpecNeed("r", <<"input-validation", "injection-prevention">>, {"c2"}, {"test"})>>,
   profile |-> {"database"}, threats |-> [required |-> FALSE, named |-> FALSE, list |-> <<>>]]
SpecEdits ==
  [shape |-> {"other"},
   says |-> {{SpecClause("mixed", {"api"}, {})}},
   acceptance |-> {<<[id |-> "c1"]>>},
   coverage |-> {<<>>, <<SpecCover({"c1", "c3"})>>, <<SpecCover({"c2"}), SpecCover({"c1"})>>},
   resolutions |-> {<<[decision |-> "d", quote |-> "q"]>>},
   questions |-> {<<[id |-> "q1", asks |-> "d"]>>},
   tasks |-> {<<>>,
     <<SpecTask("t1", <<"t2">>, <<"c1">>, {<<"a", "/", "*">>}), SpecTask("t2", <<"t1">>, <<"c2">>, {SpecDb})>>,
     <<SpecTask("t1", <<"t3">>, <<"c1">>, {<<"b">>}), SpecTask("t2", <<>>, <<"c2">>, {SpecDb})>>,
     <<SpecTask("t1", <<>>, <<"c1">>, {<<"a", "/", "*">>}), SpecTask("t1", <<"t1">>, <<"c2">>, {SpecDb})>>,
     <<SpecTask("t1", <<"t2">>, <<"c1">>, {<<"*", "*">>}), SpecTask("t2", <<>>, <<"c1">>, {SpecDb})>>,
     <<SpecTask("t1", <<>>, <<"c1", "c2">>, {<<"?", "/", "b">>}), SpecTask("t2", <<"t1", "t1">>, <<>>, {SpecDb})>>,
     <<SpecTask("t4", <<"t1", "t2">>, <<>>, {SpecDb}), SpecTask("t2", <<"t3", "t1">>, <<"c2">>, {<<"b">>}),
       SpecTask("t1", <<>>, <<"c1">>, {SpecDb}), SpecTask("t3", <<"t1">>, <<>>, {<<"b">>})>>,
     <<SpecTask("t2", <<"t1">>, <<"c2">>, {<<"*", "/", "b">>}), SpecTask("t1", <<>>, <<"c1">>, {<<"a", "{">>})>>},
   requirements |-> {<<>>, <<SpecNeed("r", <<"input-validation">>, {"c2"}, {"test"}),
                             SpecNeed("s", <<"injection-prevention">>, {"c3"}, {"review"})>>,
                     <<SpecNeed("r", <<"input-validation", "injection-prevention">>, {"c2"}, {"review"})>>},
   profile |-> {{}},
   threats |-> {[required |-> TRUE, named |-> TRUE, list |-> <<[id |-> "x", criteria |-> {"c3"}]>>]}]
SpecDecision(status, scope) ==
  [id |-> "d", status |-> status, enforcement |-> "product", scope |-> scope]
SpecScope(paths, specs) == {[paths |-> paths, specs |-> specs]}
SpecLedgers ==
  {[sound |-> TRUE, decisions |-> ds] : ds \in
     {{SpecDecision("confirmed", {})}, {SpecDecision("confirmed", SpecScope({<<"*", "*", "/", "b">>}, {"other"}))},
      {SpecDecision("confirmed", SpecScope({<<"c">>}, {"me"}))}, {SpecDecision("ambiguous", {})}}}
   \cup {[sound |-> FALSE, decisions |-> {SpecDecision("confirmed", {})}]}
SpecRequests ==
  {SpecNoRequest, [given |-> TRUE, clauses |-> {SpecClause("ask", {}, {SpecDb, SpecIn}), SpecClause("exclude", {"api"}, {})}, quotes |-> {"q"}],
   [given |-> TRUE, clauses |-> {SpecClause("ask", {"password"}, {})}, quotes |-> {}]}
SP == INSTANCE Specs WITH
        First <- SpecFirst, Alternatives <- SpecEdits, Ledgers <- SpecLedgers, Requests <- SpecRequests,
        SurfacesOf <- (SpecDb :> {"database"}) @@ (SpecIn :> {"ciCd"}), Searched <- {SpecDb}, Paths <- {SpecDb, SpecIn, <<"b">>}, SpecId <- "me",
        MaxEdits <- 2, MaxCalls <- 1

(* Three files: a page, a document that counts although its folder is      *)
(* neutral, a note; one page and device to measure, three times.           *)
WebBounds(c, o, a, p, s, k) ==
  [commits |-> c, others |-> o, alone |-> a, previews |-> p, suites |-> s, kills |-> k]
WebLimits ==
  {WebBounds(2, 0, 0, 0, 2, 0), WebBounds(1, 0, 1, 0, 1, 0), WebBounds(0, 0, 1, 1, 1, 1),
   WebBounds(1, 0, 0, 1, 1, 0), WebBounds(1, 1, 0, 0, 1, 0), WebBounds(1, 0, 2, 0, 0, 1)}
WA == INSTANCE WebAudit WITH
        File <- {"page", "doc", "note"}, Neutral <- {"doc", "note"}, Always <- {"doc"},
        OnSite <- {"page", "doc"}, Item <- {1}, Runs <- 3, Scores <- {1, 3}, Threshold <- 2,
        Limits <- WebLimits

(* Two pages, three sitemaps of which two are read at most; one page is    *)
(* closed to all agents but one.                                           *)
SiteLine(key, value) == [key |-> key, value |-> value]
SitePage(path) ==
  [status |-> "200", noindex |-> {}, title |-> <<path[2]>>, description |-> <<path[2]>>, canonicals |-> <<path>>,
   wellFormed |-> TRUE, alternates |-> <<>>]
SiteA == <<"/", "a">>
SiteB == <<"/", "b">>
SiteMap == <<"/", "s">>
SitePart == <<"/", "p">>
SiteExtra == <<"/", "q">>
SiteFirst ==
  [robots |-> [status |-> 200,
     lines |-> <<SiteLine("user-agent", <<"*">>), SiteLine("disallow", <<"/", "b">>), SiteLine("user-agent", <<"g">>),
                 SiteLine("allow", <<"/", "b", "$">>), SiteLine("sitemap", SiteMap)>>],
   maps |-> (SiteMap :> [kind |-> "index", locs |-> <<SitePart>>])
            @@ (SitePart :> [kind |-> "urlset", locs |-> <<SiteA, SiteB>>])
            @@ (SiteExtra :> [kind |-> "urlset", locs |-> <<SiteB>>]),
   pages |-> (SiteA :> SitePage(SiteA)) @@ (SiteB :> SitePage(SiteB))]
SiteLines ==
  {SiteLine("user-agent", <<"*">>), SiteLine("user-agent", <<"g">>), SiteLine("sitemap", SiteExtra), SiteLine("disallow", <<>>),
   SiteLine("allow", <<"/", "b">>), SiteLine("disallow", <<"/">>), SiteLine("disallow", <<"/", "*", "b">>)}
SiteMaps ==
  {[kind |-> "none", locs |-> <<>>], [kind |-> "urlset", locs |-> <<SiteA, SiteB>>], [kind |-> "urlset", locs |-> <<SiteB>>],
   [kind |-> "index", locs |-> <<SiteMap, SiteExtra>>], [kind |-> "index", locs |-> <<SitePart, SiteExtra>>]}
SiteAlternate(lang, href) == [lang |-> lang, href |-> href]
SiteFields ==
  [status |-> {"404"}, noindex |-> {{"header"}, {"meta"}}, title |-> {<<"", "b">>, <<"">>}, description |-> {<<"a">>},
   canonicals |-> {<<>>, <<SiteB>>}, wellFormed |-> {FALSE},
   alternates |-> {<<SiteAlternate("fr", SiteA), SiteAlternate("en", SiteB)>>, <<SiteAlternate("fr", SiteB), SiteAlternate("fr", SiteB)>>}]
SiteLimits ==
  {[robots |-> 2, maps |-> 0, pages |-> 0], [robots |-> 1, maps |-> 2, pages |-> 0], [robots |-> 1, maps |-> 0, pages |-> 2]}
RS == INSTANCE Readiness WITH
        Agents <- {"*", "g"}, Page <- {SiteA, SiteB}, Sitemap <- DOMAIN SiteFirst.maps,
        Default <- SiteMap, MaxSitemaps <- 2, FirstSite <- SiteFirst, Lines <- SiteLines,
        MapsOf <- SiteMaps, FieldsOf <- SiteFields, Limits <- SiteLimits

(* Eleven words; an action with its test at the root, up to four more      *)
(* files there and in the folder of the same word, and one somebody adds   *)
(* or removes.                                                             *)
Words ==
  <<"actions", "card", "cookie", "http", "index", "invoice", "list", "note", "order", "orders", "repository">>
WordRank == [w \in {Words[k] : k \in DOMAIN Words} |-> CHOOSE k \in DOMAIN Words : Words[k] = w]
SingularOf == [w \in DOMAIN WordRank |-> IF w = "orders" THEN "order" ELSE w]
File(dir, stem, suffix) == [dir |-> dir, stem |-> stem, cap |-> FALSE, suffix |-> suffix]
OrdersFolder == <<<<"orders">>>>
FirstTrees ==
  {{File(<<>>, <<"order", "actions">>, "ts"), File(<<>>, <<"order", "actions">>, "test.ts")} \cup x : x \in SUBSET
     {File(<<>>, <<"order", "list">>, "ts"), File(<<>>, <<"invoice", "repository">>, "ts"),
      File(<<>>, <<"http", "cookie">>, "ts"), File(OrdersFolder, <<"actions">>, "ts")}}
AddedFiles ==
  {File(<<>>, <<"orders", "actions">>, "ts"), File(<<>>, <<"list", "note">>, "ts"), File(<<>>, <<"http", "note">>, "ts"),
   [dir |-> <<>>, stem |-> <<"order", "card">>, cap |-> TRUE, suffix |-> "svelte"]}
RoleList ==
  <<[key |-> <<"actions">>, suffix |-> TRUE, name |-> "actions"],
    [key |-> <<"repository">>, suffix |-> TRUE, name |-> "repository"],
    [key |-> <<"http">>, suffix |-> FALSE, name |-> "http"], [key |-> <<"cookie">>, suffix |-> FALSE, name |-> "http"]>>
DeclaredDomains == <<<<"invoice">>>>
CheckedFolders == {{}, {OrdersFolder}}
ST == INSTANCE Structure WITH
        Rank <- WordRank, Singular <- SingularOf, Participles <- {},
        Sources <- <<"ts", "d.ts", "svelte">>, Tests <- {"test.ts"}, UI <- {"svelte"},
        Entries <- {"index"}, Ignored <- {}, Domains <- DeclaredDomains, Roles <- RoleList, MaxFlat <- 3,
        Errors <- {"flat-folder"}, Path <- AddedFiles, Trees <- FirstTrees, Scopes <- CheckedFolders, MaxEdits <- 1

ASSUME DB!DbAssumption
ASSUME RV!ReviewsAssumption
ASSUME WV!WaveAssumption
ASSUME GD!GuardAssumption
ASSUME SP!SpecsAssumption
ASSUME WA!WebAssumption
ASSUME RS!ReadinessAssumption
ASSUME ST!StructureAssumption
-----------------------------------------------------------------------------
dbIdle ==
  /\ model = Idle /\ db = Idle /\ blurred = Idle /\ step = Idle
  /\ subject = Idle
rvIdle ==
  /\ pc = Idle /\ input = Idle /\ results = Idle /\ collected = Idle
  /\ groups = Idle /\ consolidated = Idle
wvIdle == agent = Idle /\ printed = Idle /\ report = Idle /\ sorted = Idle
gdIdle == script = Idle /\ here = Idle /\ around = Idle /\ decision = Idle
spIdle ==
  /\ spec = Idle /\ stored = Idle /\ ledger = Idle /\ run = Idle
  /\ changed = Idle /\ accepted = Idle /\ calls = Idle
waIdle ==
  /\ homes = Idle /\ queue = Idle /\ plock = Idle /\ server = Idle
  /\ suite = Idle /\ aud = Idle /\ measured = Idle
rsIdle == site = Idle
stIdle == tracked = Idle /\ ok = Idle

MCInit ==
  \/ /\ Init
     /\ plan = Idle /\ edits = Idle /\ left = Idle /\ dbIdle /\ rvIdle
     /\ wvIdle /\ gdIdle /\ spIdle /\ waIdle /\ rsIdle /\ stIdle
  \/ /\ part = "db" /\ DB!Init
     /\ commits = Idle /\ main = Idle /\ fetched = Idle
     /\ receipt = Idle /\ head = Idle /\ file = Idle /\ cmd = Idle
     /\ psIdle /\ gcIdle /\ lgIdle /\ plan = Idle /\ edits = Idle
     /\ left = Idle /\ rvIdle /\ wvIdle /\ gdIdle /\ spIdle /\ waIdle
     /\ rsIdle /\ stIdle
  \/ /\ part = "review" /\ RV!Init
     /\ commits = Idle /\ main = Idle /\ fetched = Idle
     /\ receipt = Idle /\ head = Idle /\ cmd = Idle /\ psIdle /\ gcIdle
     /\ lgIdle /\ edits = Idle /\ left = Idle /\ dbIdle /\ wvIdle
     /\ gdIdle /\ spIdle /\ waIdle /\ rsIdle /\ stIdle
  \/ /\ part = "wave" /\ WV!Init
     /\ commits = Idle /\ main = Idle /\ fetched = Idle
     /\ receipt = Idle /\ file = Idle /\ cmd = Idle /\ psIdle /\ gcIdle
     /\ lgIdle /\ plan = Idle /\ edits = Idle /\ left = Idle /\ dbIdle
     /\ rvIdle /\ gdIdle /\ spIdle /\ waIdle /\ rsIdle /\ stIdle
  \/ /\ part = "guard" /\ GD!Init
     /\ commits = Idle /\ main = Idle /\ fetched = Idle
     /\ receipt = Idle /\ head = Idle /\ file = Idle /\ cmd = Idle
     /\ psIdle /\ gcIdle /\ lgIdle /\ plan = Idle /\ edits = Idle
     /\ left = Idle /\ dbIdle /\ rvIdle /\ wvIdle /\ spIdle /\ waIdle
     /\ rsIdle /\ stIdle
  \/ /\ part = "spec" /\ SP!Init
     /\ commits = Idle /\ main = Idle /\ fetched = Idle
     /\ receipt = Idle /\ head = Idle /\ file = Idle /\ psIdle
     /\ gcIdle /\ lgIdle /\ plan = Idle /\ left = Idle /\ dbIdle
     /\ rvIdle /\ wvIdle /\ gdIdle /\ waIdle /\ rsIdle /\ stIdle
  \/ /\ part = "web" /\ WA!Init
     /\ commits = Idle /\ file = Idle /\ cmd = Idle /\ psIdle /\ gcIdle
     /\ lgIdle /\ plan = Idle /\ edits = Idle /\ dbIdle /\ rvIdle
     /\ wvIdle /\ gdIdle /\ spIdle /\ rsIdle /\ stIdle
  \/ /\ part = "site" /\ RS!Init
     /\ commits = Idle /\ main = Idle /\ fetched = Idle
     /\ receipt = Idle /\ head = Idle /\ file = Idle /\ cmd = Idle
     /\ psIdle /\ gcIdle /\ lgIdle /\ plan = Idle /\ edits = Idle
     /\ dbIdle /\ rvIdle /\ wvIdle /\ gdIdle /\ spIdle /\ waIdle
     /\ stIdle
  \/ /\ part = "structure" /\ ST!Init
     /\ commits = Idle /\ main = Idle /\ fetched = Idle
     /\ receipt = Idle /\ head = Idle /\ file = Idle /\ cmd = Idle
     /\ psIdle /\ gcIdle /\ lgIdle /\ left = Idle /\ dbIdle /\ rvIdle
     /\ wvIdle /\ gdIdle /\ spIdle /\ waIdle /\ rsIdle

StepDecisions ==
  /\ Next
  /\ UNCHANGED <<plan, edits, left, dbOnly, rvOnly, wvOnly, gdOnly, spOnly,
                  waOnly, rsOnly, stOnly>>
StepDB ==
  /\ part = "db" /\ DB!Next
  /\ UNCHANGED <<part, commits, main, fetched, receipt, head, file, plan,
                  cmd, edits, left, psOnly, gcOnly, rvOnly, wvOnly, lgOnly,
                  gdOnly, spOnly, waOnly, rsOnly, stOnly>>
StepRV ==
  /\ part = "review" /\ RV!Next
  /\ UNCHANGED <<part, commits, main, fetched, receipt, head, cmd, edits,
                  left, psOnly, gcOnly, dbOnly, wvOnly, lgOnly, gdOnly,
                  spOnly, waOnly, rsOnly, stOnly>>
StepWV ==
  /\ part = "wave" /\ WV!Next
  /\ UNCHANGED <<part, commits, main, fetched, receipt, file, plan, cmd,
                  edits, left, psOnly, gcOnly, dbOnly, rvOnly, lgOnly,
                  gdOnly, spOnly, waOnly, rsOnly, stOnly>>
StepGD ==
  /\ part = "guard" /\ GD!Next
  /\ UNCHANGED <<part, commits, main, fetched, receipt, head, file, plan,
                  cmd, edits, left, psOnly, gcOnly, dbOnly, rvOnly, wvOnly,
                  lgOnly, spOnly, waOnly, rsOnly, stOnly>>
StepSP ==
  /\ part = "spec" /\ SP!Next
  /\ UNCHANGED <<part, commits, main, fetched, receipt, head, file, plan,
                  left, psOnly, gcOnly, dbOnly, rvOnly, wvOnly, lgOnly,
                  gdOnly, waOnly, rsOnly, stOnly>>
StepWA ==
  /\ part = "web" /\ WA!Next
  /\ UNCHANGED <<part, commits, file, plan, cmd, edits, psOnly, gcOnly,
                  dbOnly, rvOnly, wvOnly, lgOnly, gdOnly, spOnly, rsOnly,
                  stOnly>>
StepRS ==
  /\ part = "site" /\ RS!Next
  /\ UNCHANGED <<part, commits, main, fetched, receipt, head, file, plan,
                  cmd, edits, psOnly, gcOnly, dbOnly, rvOnly, wvOnly,
                  lgOnly, gdOnly, spOnly, waOnly, stOnly>>
StepST ==
  /\ part = "structure" /\ ST!Next
  /\ UNCHANGED <<part, commits, main, fetched, receipt, head, file, cmd,
                  left, psOnly, gcOnly, dbOnly, rvOnly, wvOnly, lgOnly,
                  gdOnly, spOnly, waOnly, rsOnly>>

MCNext ==
  StepDecisions \/ StepDB \/ StepRV \/ StepWV \/ StepGD \/ StepSP \/
    StepWA \/ StepRS \/ StepST

MCSpec == MCInit /\ [][MCNext]_mcVars
-----------------------------------------------------------------------------
(* DbSchema and Structure: as long as no statement made the tracked model  *)
(* and the catalogue differ for a listed reason, the checks of the         *)
(* migrations find the findings the rules would find in the schema         *)
(* PostgreSQL ends with; and the rules asked of the live database, in SQL, *)
(* agree with the same rules asked of its schema. The moves that the check *)
(* of the tracked files proposes lose nothing, keep tests and companions   *)
(* with their file and every word of a name, and are those of a check      *)
(* limited to a folder.                                                    *)
ChecksSeeTheSchema ==
  /\ part = "db" => DB!ChecksSeeTheSchema /\ DB!LiveAgrees
  /\ part = "structure" => ST!PlanIsSafe

(* Reviews and Wave: a domain is skipped only on the proof that it has     *)
(* nothing to read, and every finding of a report is in one consolidated   *)
(* finding, as severe, required and sure as its strongest member. A commit *)
(* of a task that the wave does not doubt was on its branch, and what no   *)
(* report tells is told as lost or refused.                                *)
ReviewsMissNothing ==
  /\ part = "review" => RV!SkippedOnProof /\ RV!EveryFindingKept
  /\ part = "wave" => WV!UndoubtedCommitsExist

(* Guards: an allowed command has no effect the rules of the hook are      *)
(* against, through its wrappers, options, changes of directory, locks and *)
(* scripts; a refused one has an effect the rule that refuses it is        *)
(* against, or a kill that a search may feed.                              *)
GuardsJudgeRight == part = "guard" => GD!GuardsJudgeRight

(* Specs: a specification found valid, and the one an execution started    *)
(* from, can be executed in an order of its tasks, which the waves of the  *)
(* execution respect; every decision that concerns a path it may change is *)
(* demonstrated by its criteria, and so is every surface its request asks  *)
(* for. A change found in scope of it is of paths whose decisions are      *)
(* demonstrated.                                                           *)
SpecMeansWhatItSays == part = "spec" => SP!CheckedSpecIsSound /\ SP!WavesRespectDependencies /\ SP!ScopeKeepsDecisions

(* WebAudit and Readiness: every version of a file of the site that is     *)
(* published was measured and accepted, whatever the receipts left out as  *)
(* not required; an accepted audit measured everything as often as asked,  *)
(* at least half of the runs of each above the threshold, while nothing    *)
(* else measured and no other suite ran, on the server of its commit; no   *)
(* server or lock of an audit is left after it, unless it was killed, and  *)
(* then whoever comes takes over. A page is refused for robots.txt exactly *)
(* when a crawler may not read it, one that is not refused for the         *)
(* sitemaps is in one a crawler comes to, and the pages of an accepted     *)
(* site are distinct and name each other.                                  *)
AuditsAreHonest ==
  /\ part = "web" => WA!PublishedWasMeasured /\ WA!AcceptedIsMeasured /\ WA!MeasuredInPeace
  /\ part = "site" => RS!RobotsMeanWhatTheySay /\ RS!SitemapsListThePages /\ RS!AcceptedPagesAreDistinct

(* Reviews: the part of the reviews alone.                                 *)
ReviewsSpec == MCInit /\ part = "review" /\ [][MCNext]_mcVars

(* Reviews: two statements of a file that change places are no change of   *)
(* references only.                                                        *)
SwappedStatementsAreContent == part = "review" => RV!SwappedStatementsAreContent
=============================================================================
