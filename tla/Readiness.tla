----------------------------- MODULE Readiness -----------------------------
(***************************************************************************)
(* The readiness of a site for search engines, as `apv web audit` judges   *)
(* it (web/readiness.ts, checkReadiness of web/audit.ts): what robots.txt, *)
(* the sitemaps and the head of each page say, after any edits of them.    *)
(* Every check refuses; llms.txt is not expected.  A URL is its path: one  *)
(* of another host is read on the origin audited.                          *)
(***************************************************************************)
EXTENDS Naturals, Sequences, FiniteSets, SequencesExt, FiniteSetsExt

CONSTANTS
  Agents,        \* web.robotsAgents, "*" among them
  Page,          \* the pages audited, by their path
  Sitemap,       \* the addresses of sitemaps, /sitemap.xml among them
  Default,       \* /sitemap.xml
  MaxSitemaps,   \* how many are read at most
  FirstSite,     \* [robots, maps, pages]
  Lines,         \* the lines an edit may add to robots.txt
  MapsOf, FieldsOf, \* what an edit may make of a sitemap, of a field of a page
  Limits         \* bounds, of which one is chosen: edits of the robots, of the sitemaps, of the pages

VARIABLES site, left

vars == <<site, left>>

ReadinessAssumption ==
  /\ "*" \in Agents /\ Default \in Sitemap /\ MaxSitemaps \in Nat
  /\ DOMAIN FirstSite.maps = Sitemap /\ DOMAIN FirstSite.pages = Page
  /\ Limits \subseteq [{"robots", "maps", "pages"} -> Nat]

-----------------------------------------------------------------------------
(* parseRobots, line by line: a user-agent line after another kind of line *)
(* begins a group.  An empty rule is no rule.                              *)
LastGroup(r) == r.groups[Len(r.groups)]
InLastGroup(r, g) == [r EXCEPT !.groups[Len(r.groups)] = g]

\* Mutated form of ReadLine: every user-agent line begins a group.
ReadLineAlone(r, line) ==
  CASE line.key = "user-agent" ->
         [r EXCEPT !.groups = Append(@, [agents |-> {line.value}, rules |-> {}]), !.agent = TRUE]
    [] line.key = "sitemap" -> [r EXCEPT !.sitemaps = Append(@, line.value), !.agent = FALSE]
    [] line.key \in {"allow", "disallow"} /\ line.value # <<>> /\ r.groups # <<>> ->
         [InLastGroup(r, [LastGroup(r) EXCEPT !.rules = @ \cup {line}]) EXCEPT !.agent = FALSE]
    [] OTHER -> [r EXCEPT !.agent = FALSE]

ReadLine(r, line) ==
  CASE line.key = "user-agent" /\ r.agent ->
         InLastGroup(r, [LastGroup(r) EXCEPT !.agents = @ \cup {line.value}])
    [] line.key = "user-agent" /\ ~r.agent ->
         [r EXCEPT !.groups = Append(@, [agents |-> {line.value}, rules |-> {}]), !.agent = TRUE]
    [] line.key = "sitemap" -> [r EXCEPT !.sitemaps = Append(@, line.value), !.agent = FALSE]
    [] line.key \in {"allow", "disallow"} /\ line.value # <<>> /\ r.groups # <<>> ->
         [InLastGroup(r, [LastGroup(r) EXCEPT !.rules = @ \cup {line}]) EXCEPT !.agent = FALSE]
    [] OTHER -> [r EXCEPT !.agent = FALSE]

ParseRobots(lines) == FoldLeft(ReadLine, [groups |-> <<>>, sitemaps |-> <<>>, agent |-> FALSE], lines)

\* robotsGroup: the groups that name the agent, else those of all.
RulesFor(robots, agent) ==
  LET Naming(a) == {g \in ToSet(robots.groups) : <<a>> \in g.agents}
  IN UNION {g.rules : g \in IF agent # "*" /\ Naming(agent) # {} THEN Naming(agent) ELSE Naming("*")}

\* ruleMatches: a prefix, with * for anything and $ for the end.
RECURSIVE RuleMatches(_, _)
RuleMatches(pattern, path) ==
  \/ pattern = <<>>
  \/ pattern = <<"$">> /\ path = <<>>
  \/ /\ pattern # <<>> /\ Head(pattern) = "*"
     /\ \E i \in 0..Len(path) : RuleMatches(Tail(pattern), SubSeq(path, i + 1, Len(path)))
  \/ /\ pattern # <<>> /\ path # <<>> /\ Head(pattern) = Head(path) /\ Head(path) # "*"
     /\ RuleMatches(Tail(pattern), Tail(path))

\* robotsAllows: the longest rule that matches, allow on a tie.
Allows(robots, agent, path) ==
  LET matching == {r \in RulesFor(robots, agent) : RuleMatches(r.value, path)}
      longest == {r \in matching : \A s \in matching : Len(s.value) <= Len(r.value)}
  IN matching = {} \/ \E r \in longest : r.key = "allow"

-----------------------------------------------------------------------------
(* The sitemaps read: those robots.txt declares, or the default one, and   *)
(* those an index lists, each once and so many at most.                    *)
RECURSIVE Crawl(_, _, _)
Crawl(maps, queue, read) ==
  IF queue = <<>> \/ Len(read) = MaxSitemaps THEN read
  ELSE LET url == Head(queue)  map == maps[url]
       IN IF url \in ToSet(read) THEN Crawl(maps, Tail(queue), read)
          ELSE Crawl(maps, IF map.kind = "index" THEN Tail(queue) \o map.locs ELSE Tail(queue), Append(read, url))

Served(s) == s.robots.status = 200
Robots(s) == ParseRobots(IF Served(s) THEN s.robots.lines ELSE <<>>)
Start(sitemaps) == IF sitemaps = <<>> THEN <<Default>> ELSE sitemaps

SitemapFindings(s) ==
  LET declared == Robots(s).sitemaps
      read == ToSet(Crawl(s.maps, Start(declared), <<>>))
      readable == {u \in read : s.maps[u].kind \in {"urlset", "index"}}
      listed == UNION {ToSet(s.maps[u].locs) : u \in {x \in read : s.maps[x].kind = "urlset"}}
  IN (IF Served(s) /\ declared = <<>> THEN {<<"sitemap", <<>>>>} ELSE {})
       \cup (IF read = readable THEN {} ELSE {<<"sitemap", <<>>>>})
       \cup (IF readable = {} THEN {} ELSE {<<"sitemap", p>> : p \in Page \ listed})

\* A page with its head, when it is served without redirect.
HasHead(s, p) == s.pages[p].status = "200"
Heads(s) == {p \in Page : HasHead(s, p)}

RobotsFindings(s) ==
  LET robots == Robots(s)
      closed == {p \in Page : \E a \in Agents : ~Allows(robots, a, p)}
      marked == {p \in Page : "header" \in s.pages[p].noindex \/ (HasHead(s, p) /\ "meta" \in s.pages[p].noindex)}
  IN (IF Served(s) THEN {<<"robots", p>> : p \in closed} ELSE {<<"robots", <<>>>>})
       \cup {<<"robots", p>> : p \in marked}

-----------------------------------------------------------------------------
(* The head of a page: one text of each kind that no other page has, one   *)
(* canonical address that is its own, alternatives that answer each other. *)
Text(s, k, p) == SelectSeq(s.pages[p][k], LAMBDA x : x # "")
TextFindings(s, k) ==
  {<<k, p>> : p \in {x \in Heads(s) : Text(s, k, x) = <<>> \/ Len(s.pages[x][k]) > 1}}
    \cup {<<k, <<>>>> : q \in {x \in Heads(s) \X Heads(s) :
            x[1] # x[2] /\ Text(s, k, x[1]) # <<>> /\ Text(s, k, x[2]) # <<>> /\ Text(s, k, x[1])[1] = Text(s, k, x[2])[1]}}

Alternates(s, p) == s.pages[p].alternates
Targets(s, p) == {Alternates(s, p)[i].href : i \in DOMAIN Alternates(s, p)}

\* Mutated form of Unanswered: that the page names itself is enough.
UnansweredNever(s, p) == {}

Unanswered(s, p) == {q \in (Targets(s, p) \cap Heads(s)) \ {p} : p \notin Targets(s, q)}

AlternateFindings(s) ==
  {<<"hreflang", p>> : p \in {x \in Heads(s) :
     LET alts == Alternates(s, x)
     IN alts # <<>> /\ \/ Cardinality({alts[i].lang : i \in DOMAIN alts}) < Len(alts)
                       \/ x \notin Targets(s, x)
                       \/ Unanswered(s, x) # {}}}

Findings(s) ==
  {<<"status", p>> : p \in Page \ Heads(s)}
    \cup RobotsFindings(s) \cup SitemapFindings(s)
    \cup TextFindings(s, "title") \cup TextFindings(s, "description")
    \cup {<<"canonical", p>> : p \in {x \in Heads(s) : s.pages[x].canonicals # <<x>>}}
    \cup {<<"head", p>> : p \in {x \in Heads(s) : ~s.pages[x].wellFormed}}   \* lang, JSON-LD
    \cup AlternateFindings(s)

-----------------------------------------------------------------------------
Init == site = FirstSite /\ left \in Limits

Spend(what) == left[what] > 0 /\ left' = [left EXCEPT ![what] = @ - 1]

EditRobots ==
  /\ Spend("robots")
  /\ \/ site' = [site EXCEPT !.robots.status = 404]
     \/ \E i \in DOMAIN site.robots.lines : site' = [site EXCEPT !.robots.lines = RemoveAt(@, i)]
     \/ \E i \in 1..Len(site.robots.lines) + 1, l \in Lines : site' = [site EXCEPT !.robots.lines = InsertAt(@, i, l)]

EditMap ==
  /\ Spend("maps")
  /\ \E u \in Sitemap : \E m \in MapsOf \ {site.maps[u]} : site' = [site EXCEPT !.maps[u] = m]

EditPage ==
  /\ Spend("pages")
  /\ \E p \in Page, f \in DOMAIN FieldsOf : \E v \in FieldsOf[f] \ {site.pages[p][f]} :
       site' = [site EXCEPT !.pages[p][f] = v]

Next == EditRobots \/ EditMap \/ EditPage \/ UNCHANGED vars

-----------------------------------------------------------------------------
(* What a crawler makes of it, said of the lines and not of the groups.    *)
Line(i) == site.robots.lines[i]
IsRule(i) == Line(i).key \in {"allow", "disallow"}

\* The agents a rule is written for: those named above it, with no rule in between that closes their group.
Names(i, j, a) ==
  /\ i < j /\ Line(i).key = "user-agent" /\ Line(i).value = <<a>>
  /\ ~\E k, m \in i + 1..j - 1 : k < m /\ IsRule(k) /\ Line(m).key = "user-agent"

Speaks(a) == \E i \in DOMAIN site.robots.lines : Line(i).key = "user-agent" /\ Line(i).value = <<a>>
Written(a) ==
  LET who == IF Speaks(a) THEN a ELSE "*"
  IN {j \in DOMAIN site.robots.lines : IsRule(j) /\ \E i \in DOMAIN site.robots.lines : Names(i, j, who)}
Closed(a, path) ==
  \E j \in Written(a) :
    /\ Line(j).key = "disallow" /\ Line(j).value # <<>> /\ RuleMatches(Line(j).value, path)
    /\ ~\E k \in Written(a) : Line(k).key = "allow" /\ RuleMatches(Line(k).value, path) /\ Len(Line(k).value) >= Len(Line(j).value)

\* A line that is neither a rule nor a user-agent stands between the agents of one group.
GroupBroken ==
  \E i, j, k \in DOMAIN site.robots.lines :
    /\ i < j /\ j < k /\ Line(i).key = "user-agent" /\ Line(k).key = "user-agent"
    /\ ~IsRule(j) /\ Line(j).key # "user-agent" /\ ~\E m \in i..k : IsRule(m)

Refuses(findings, p) == \E f \in findings : f[2] \in {p, <<>>}

(* Unless a line breaks a group, a page is refused for robots.txt exactly  *)
(* when a crawler of the list may not read it or is told not to list it.   *)
RobotsMeanWhatTheySay ==
  Served(site) /\ ~GroupBroken =>
    LET findings == RobotsFindings(site)
    IN \A p \in Page :
         Refuses(findings, p) <=> \/ \E a \in Agents : Closed(a, p)
                                  \/ "header" \in site.pages[p].noindex
                                  \/ HasHead(site, p) /\ "meta" \in site.pages[p].noindex

\* The sitemaps a crawler comes to from these, in so many steps.
RECURSIVE Reached(_, _)
Reached(urls, steps) ==
  IF steps = 0 THEN urls
  ELSE Reached(urls \cup UNION {ToSet(site.maps[u].locs) : u \in {x \in urls : site.maps[x].kind = "index"}}, steps - 1)

(* A page the sitemaps do not refuse is in one a crawler comes to; and     *)
(* when all of those can be read and are few enough, no page in one of     *)
(* them is refused.                                                        *)
SitemapsListThePages ==
  LET findings == SitemapFindings(site)
      reached == Reached(ToSet(Start(Robots(site).sitemaps)), Cardinality(Sitemap))
      Listed(p) == \E u \in reached : site.maps[u].kind = "urlset" /\ p \in ToSet(site.maps[u].locs)
  IN \A p \in Page :
       /\ ~Refuses(findings, p) => Listed(p)
       /\ Listed(p) /\ Cardinality(reached) <= MaxSitemaps => <<"sitemap", p>> \notin findings

(* A site without refusal is served page by page, each under its own       *)
(* address and its own texts, and its alternatives answer each other.      *)
AcceptedPagesAreDistinct ==
  Findings(site) = {} =>
    /\ Heads(site) = Page
    /\ \A p, q \in Page : p # q =>
         /\ \A k \in {"title", "description"} : Text(site, k, p)[1] # Text(site, k, q)[1]
         /\ site.pages[p].canonicals # site.pages[q].canonicals
         /\ q \in Targets(site, p) <=> p \in Targets(site, q)
=============================================================================
