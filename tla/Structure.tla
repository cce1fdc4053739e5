------------------------------- MODULE Structure -----------------------------
(***************************************************************************)
(* `apv structure check` (src/commands/structure.ts, src/structure): what  *)
(* it finds in the folders of the tracked files, and the plan of moves it  *)
(* proposes.  The tool applies nothing: whoever follows the plan moves the *)
(* files one by one, in any order, while others work in the same tree.     *)
(*                                                                         *)
(* A name is its words; how they are joined and spelled is abstracted, but *)
(* for the capital of a UI component.  The roots of the analysis are those *)
(* by default, the ignored paths whole folders, the texts left out.        *)
(***************************************************************************)
EXTENDS Naturals, FiniteSets, Sequences, SequencesExt

CONSTANTS
  Rank,          \* the words, each by its place in the order of the names
  Singular,      \* the singular of each by its regular ending
  Participles,   \* the pairs of a word and its regular participle
  Sources,       \* suffixes of sources: fewest infixes first, then by name
  Tests,         \* suffixes of tests
  UI,            \* suffixes whose capitalised files are components
  Entries,       \* words that are entry points (index, main)
  Ignored,       \* folders left out
  Domains,       \* the declared domains, longest first
  Roles,         \* [key, suffix, name], in the order they are tried in
  MaxFlat,       \* structure.maxFlatFiles
  Errors,        \* findings configured as errors
  Path,          \* paths somebody may add
  Trees,         \* what the tree holds at first
  Scopes,        \* folders the check may be limited to: sets of folders
  MaxEdits       \* bound: files added or removed

(* A path: the folders from the root, each a name; the words of the stem,   *)
(* its capital; what follows the stem.                                      *)
Named == [dir : Seq(Seq(DOMAIN Rank)), stem : Seq(DOMAIN Rank), cap : BOOLEAN,
          suffix : STRING]

StructureAssumption ==
  /\ IsInjective(Rank) /\ IsInjective(Sources)
  /\ Singular \in [DOMAIN Rank -> DOMAIN Rank]
  /\ \A files \in Trees \cup {Path} : files \subseteq Named
  /\ MaxFlat \in Nat \ {0, 1} /\ MaxEdits \in Nat

VARIABLES
  tracked,   \* the files Git tracks
  plan,      \* the moves of the last check, those already made left out
  ok,        \* whether it found no error
  edits

vars == <<tracked, plan, ok, edits>>
-----------------------------------------------------------------------------
Lower(a, b) ==
  \E k \in 0..Len(a) :
    /\ k < Len(b) /\ SubSeq(a, 1, k) = SubSeq(b, 1, k)
    /\ k = Len(a) \/ (k < Len(a) /\ Rank[a[k + 1]] < Rank[b[k + 1]])

(* A set as a sequence, in a total order.                                   *)
InOrder(set, Less(_, _)) ==
  LET place == [x \in set |-> Cardinality({y \in set : Less(y, x)}) + 1]
  IN [k \in 1..Cardinality(set) |-> CHOOSE x \in set : place[x] = k]

(* The same thing: equal, singular and plural, or a regular participle.     *)
Related(a, b) ==
  \E x \in {a, Singular[a]}, y \in {b, Singular[b]} :
    x = y \/ <<x, y>> \in Participles \/ <<y, x>> \in Participles

StartsWith(words, prefix) ==
  /\ prefix # <<>> /\ Len(prefix) <= Len(words)
  /\ \A k \in DOMAIN prefix : Related(words[k], prefix[k])

Own(e) == [stem |-> e.stem, cap |-> e.cap]

(* A name without its first words.                                          *)
From(e, first) ==
  IF first = 1 THEN Own(e)
  ELSE [stem |-> SubSeq(e.stem, first, Len(e.stem)), cap |-> FALSE]

Says(drop, w) == \E d \in Range(drop) : Related(w, d)

(* Mutated form of ShortName: every word the folder says goes.              *)
BareName(e, drop) ==
  [stem |-> SelectSeq(e.stem, LAMBDA w : ~Says(drop, w)), cap |-> FALSE]

(* The name without the leading words the folder says, the last one kept.   *)
ShortName(e, drop) ==
  From(e, Min({k \in DOMAIN e.stem : ~Says(drop, e.stem[k])} \cup {Len(e.stem)}))

(* Of the spellings of a word: a plural, then the shortest, which among     *)
(* related words is the first in the order of the names.                    *)
Plural(w) == Singular[w] # w
Spelling(words) ==
  CHOOSE w \in words :
    \A v \in words : IF Plural(v) <=> Plural(w)
                     THEN Rank[w] <= Rank[v] ELSE Plural(w)

(* Words every name starts with, compared with the first one.               *)
CommonPrefix(names) ==
  Max({k \in 0..Len(names[1]) :
         \A n \in Range(names) :
           k <= Len(n) /\ \A j \in 1..k : Related(n[j], names[1][j])})

(* The groups of those linked (`linked` gives what each is linked to), each *)
(* in the order of `list`, by their first.                                  *)
Grouped(list, groups) ==
  LET first == [g \in groups |-> SelectInSeq(list, LAMBDA x : x \in g)]
      sorted == InOrder(groups, LAMBDA g, h : first[g] < first[h])
  IN [k \in DOMAIN sorted |-> SelectSeq(list, LAMBDA x : x \in sorted[k])]

Clusters(list, linked) ==
  LET merge(groups, x) ==
        LET touched == {g \in groups : g \cap linked[x] # {}}
        IN (groups \ touched) \cup {(UNION touched) \cup {x}}
  IN Grouped(list, FoldLeft(merge, {}, list))
-----------------------------------------------------------------------------
Inside(d, folder) == IsPrefix(folder, d)
Kept(files) == {f \in files : \A k \in DOMAIN f.dir : f.dir[k] \notin Ignored}
Code(files) == {f \in Kept(files) : f.suffix \in Range(Sources) \cup Tests}
Folders(files) ==
  UNION {{SubSeq(f.dir, 1, k) : k \in 1..Len(f.dir)} : f \in Kept(files)}

(* A main file with the tests and companions that share its stem.           *)
Group(files, e) ==
  {f \in Code(files) : f.dir = e.dir /\ f.stem = e.stem /\ f.cap = e.cap}

SourceRank(f) == CHOOSE k \in DOMAIN Sources : Sources[k] = f.suffix

Component(f) == f.cap /\ f.suffix \in UI
Reserved(f) == Len(f.stem) = 1 /\ f.stem[1] \in Entries

NoRole == [name |-> "none", suffix |-> FALSE, domain |-> <<>>]

Has(r, stem) ==
  IF r.suffix THEN IsSuffix(r.key, stem)
  ELSE \E k \in 0..Len(stem) - Len(r.key) : SubSeq(stem, k + 1, k + Len(r.key)) = r.key

(* The first role the name has: a suffix, or words anywhere in it.          *)
RoleOf(stem, found) ==
  IF found = {} THEN NoRole
  ELSE LET r == Roles[Min(found)]
           before == SubSeq(stem, 1, Len(stem) - Len(r.key))
       IN [name |-> r.name, suffix |-> r.suffix,
           domain |-> IF r.suffix THEN before ELSE <<>>]

Entry(files, f) ==
  [stem |-> f.stem, cap |-> f.cap, files |-> Group(files, f), ui |-> Component(f),
   reserved |-> Reserved(f),
   role |-> RoleOf(f.stem, IF Component(f) \/ Reserved(f) THEN {}
                           ELSE {k \in DOMAIN Roles : Has(Roles[k], f.stem)})]

Before(a, b) == Lower(a.stem, b.stem) \/ (a.stem = b.stem /\ ~a.cap /\ b.cap)

EntriesOf(files, d) ==
  InOrder(
    {Entry(files, f) : f \in
       {f \in Code(files) :
          /\ f.dir = d /\ f.suffix \notin Tests
          /\ \A g \in Group(files, f) :
               g.suffix \in Tests \/ SourceRank(f) <= SourceRank(g)}},
    Before)
-----------------------------------------------------------------------------
(* An analysis under way: the moves and the findings.                       *)
Blank == [moves |-> {}, findings |-> {}]

Renamed(f, folder, name) == [f EXCEPT !.dir = folder, !.stem = name.stem, !.cap = name.cap]
Moves(e, folder, name) == {[from |-> f, to |-> Renamed(f, folder, name)] : f \in e.files}
Targets(moves) == {m.to : m \in moves}
Placed(st, e) == \E m \in st.moves : m.from \in e.files

Record(st, busy, renaming, keeping) ==
  IF Targets(renaming) \cap busy = {}
  THEN [st EXCEPT !.moves = @ \cup renaming]
  ELSE [st EXCEPT !.moves =
          @ \cup IF Targets(keeping) \cap busy = {} THEN keeping ELSE {}]

(* Mutated form of Place: the targets of the other moves are not looked at. *)
PlaceOver(files, st, folder, e, name) ==
  Record(st, files, Moves(e, folder, name), Moves(e, folder, Own(e)))

(* An entry goes to a folder with all its files, under that name or its     *)
(* own; it stays when both are taken by a tracked file or another move.     *)
Place(files, st, folder, e, name) ==
  Record(st, files \cup Targets(st.moves), Moves(e, folder, name), Moves(e, folder, Own(e)))

PlaceAll(files, st, folder, entries, names) ==
  FoldLeft(LAMBDA s, e : Place(files, s, folder, e, names[e]), st, entries)

Found(st, code, d) == [st EXCEPT !.findings = @ \cup {<<code, d>>}]

Free(st, list) == SelectSeq(list, LAMBDA e : ~e.reserved /\ ~Placed(st, e))
OwnWord(d, w) == d # <<>> /\ Says(Last(d), w)

(* stray-file: the name starts with that of a neighbouring folder, of which *)
(* the longest is taken.                                                    *)
Near(siblings, e) == {s \in siblings : Len(e.stem) > Len(s) /\ StartsWith(e.stem, s)}
Nearest(near) ==
  CHOOSE s \in near : \A o \in near : Len(o) < Len(s) \/ (Len(o) = Len(s) /\ ~Lower(o, s))

StrayFile(files, d, st, e, near) ==
  IF near = {} THEN st
  ELSE Found(Place(files, st, Append(d, Nearest(near)), e,
                   IF e.ui THEN Own(e) ELSE ShortName(e, Nearest(near))), "stray-file", d)

Stray(files, d, st0, entries, siblings) ==
  FoldLeft(LAMBDA st, e : StrayFile(files, d, st, e, Near(siblings, e)), st0, Free(st0, entries))

(* The declared domain the name starts with, or its first word.             *)
KeyOf(e) ==
  LET declared == SelectSeq(Domains, LAMBDA d : Len(e.stem) > Len(d) /\ StartsWith(e.stem, d))
  IN IF declared # <<>> THEN declared[1] ELSE <<e.stem[1]>>

SameKey(a, b) == Len(a) = Len(b) /\ StartsWith(a, b)

(* Whether something says that what these names start with is a domain.     *)
Qualifies(members, key, ui, flat, names) ==
  IF ui THEN flat /\ Len(members) >= 3
  ELSE \/ Len(key) > 1 \/ Len(members) >= 3
       \/ \E n \in names : Len(n) = 1 /\ Related(n[1], key[1])
       \/ Len(SelectSeq(members, LAMBDA e : e.role.suffix)) >= 2

DomainWords(key, stems) ==
  IF Len(key) > 1 THEN key
  ELSE <<Spelling({s[1] : s \in Range(stems)})>> \o SubSeq(stems[1], 2, CommonPrefix(stems))

IntoDomain(files, d, st, members, words, ui) ==
  PlaceAll(files, st, Append(d, words), members,
           [e \in Range(members) |-> IF ui THEN Own(e) ELSE ShortName(e, words)])

Repeated(files, d, st, members, ui, flat, names) ==
  IF Len(members) < 2 \/ ~Qualifies(members, KeyOf(members[1]), ui, flat, names) THEN st
  ELSE Found(
         IntoDomain(files, d, st, members,
           DomainWords(KeyOf(members[1]), [k \in DOMAIN members |-> members[k].stem]), ui),
         "repeated-prefix", d)

SameDomain(list) ==
  [a \in Range(list) |-> {b \in Range(list) : SameKey(KeyOf(a), KeyOf(b))}]
Unowned(d, free) == SelectSeq(free, LAMBDA e : ~OwnWord(d, KeyOf(e)[1]))
DomainGroups(list) == Clusters(list, SameDomain(list))

(* repeated-prefix, among the entries whose domain is not that of the       *)
(* folder.                                                                  *)
Prefixed(files, d, st0, entries, flat, names) ==
  FoldLeft(LAMBDA st, members :
                Repeated(files, d, st, members, \E e \in Range(members) : e.ui, flat, names),
              st0,
              DomainGroups(Unowned(d, Free(st0, entries))))
-----------------------------------------------------------------------------
(* A file whose name says a domain and the role it has for it.              *)
Serves(d, e) == e.role.suffix /\ e.role.domain # <<>> /\ ~OwnWord(d, e.role.domain[1])

(* mixed-roles: three files with a role, two roles, two domains.            *)
Mixed(d, roled) ==
  /\ Cardinality(roled) >= 3
  /\ Cardinality({e.role.name : e \in roled}) >= 2
  /\ Cardinality({[k \in DOMAIN e.role.domain |-> Singular[e.role.domain[k]]] :
                    e \in {x \in roled : Serves(d, x)}}) >= 2

Unit(words, e, roled) == <<[words |-> words, entries |-> <<e>>, roled |-> roled]>>
JoinUnit(units, k, e) == [units EXCEPT ![k].entries = Append(@, e)]
InUnit(units, e) == \E u \in Range(units) : e \in Range(u.entries)

(* The subjects of a folder: the files of a domain, ...                     *)
ByDomain(d, units, e, k) ==
  IF ~Serves(d, e) THEN units
  ELSE IF k # 0 THEN JoinUnit(units, k, e) ELSE units \o Unit(e.role.domain, e, TRUE)
(* ... those named after it, ...                                            *)
Plain(units, e, k) ==
  IF e.role # NoRole \/ InUnit(units, e) \/ k = 0 THEN units ELSE JoinUnit(units, k, e)
(* ... then the compound names.                                             *)
Compound(units, e) ==
  IF e.role # NoRole \/ Len(e.stem) < 2 \/ InUnit(units, e) THEN units
  ELSE units \o Unit(e.stem, e, FALSE)

DomainUnits(d, free) ==
  FoldLeft(LAMBDA us, e : Plain(us, e,
             SelectInSeq(us, LAMBDA u : Len(e.stem) > Len(u.words) /\ StartsWith(e.stem, u.words))),
    FoldLeft(LAMBDA us, e : ByDomain(d, us, e,
               SelectInSeq(us, LAMBDA u : SameKey(u.words, e.role.domain))), <<>>, free), free)

Units(d, free, mixed) ==
  FoldLeft(Compound, IF mixed THEN DomainUnits(d, free) ELSE <<>>, free)

(* Compound names that chain are one subject.                               *)
Chained(a, b) == Len(a.words) >= 2 /\ Len(b.words) >= 2 /\ Related(Last(a.words), b.words[1])

ChainsOf(list) ==
  Clusters(list, [a \in Range(list) |-> {b \in Range(list) : Chained(a, b) \/ Chained(b, a)}])

(* The folder is named after the unit nothing chains to.                    *)
RootWords(members) ==
  LET roots == SelectSeq(members, LAMBDA u : \A v \in Range(members) : v # u => ~Chained(v, u))
      root == (roots \o members)[1]
  IN IF root.roled THEN root.words ELSE SubSeq(root.words, 1, 1)

SubjectIn(files, d, st, members, words, mixed) ==
  IF Len(members) < 2 /\ ~(mixed /\ members[1].roled) THEN st
  ELSE IntoDomain(files, d, st, FlattenSeq([k \in DOMAIN members |-> members[k].entries]),
                  words, FALSE)
Subject(files, d, st, members, mixed) == SubjectIn(files, d, st, members, RootWords(members), mixed)

Subjects(files, d, st0, entries, mixed, flat) ==
  IF ~mixed /\ ~flat THEN st0
  ELSE FoldLeft(
         LAMBDA st, group :
           Subject(files, d, st, SortSeq(group, LAMBDA a, b : Lower(a.words, b.words)), mixed),
         st0,
         ChainsOf(Units(d, SelectSeq(Free(st0, entries), LAMBDA e : ~e.ui), mixed)))

(* Helpers of no domain, in a mixed folder: a folder per role.              *)
HelpersOf(files, d, st, role, members) ==
  IF Len(members) < 2 THEN st ELSE PlaceAll(files, st, Append(d, <<role>>), members,
                [e \in Range(members) |-> Own(e)])

Helpers(files, d, st0, entries, mixed) ==
  FoldLeft(LAMBDA st, role :
             HelpersOf(files, d, st, role,
               SelectSeq(Free(st0, entries), LAMBDA e : e.role.name = role /\ ~e.role.suffix)),
           st0,
           InOrder({e.role.name : e \in {x \in Range(entries) : mixed /\ x.role # NoRole}},
                   LAMBDA r, s : Rank[r] < Rank[s]))

(* The steps of a folder, each on what those before left.                   *)
Subfolders(files, d) ==
  {Last(f) : f \in {g \in Folders(files) : Len(g) = Len(d) + 1 /\ Inside(g, d)}}

Noted(st, d, mixed, flat) ==
  [st EXCEPT !.findings = @ \cup {<<"mixed-roles", d>> : x \in {mixed} \cap {TRUE}}
                            \cup {<<"flat-folder", d>> : x \in {flat} \cap {TRUE}}]

FolderSteps(files, d, st, entries, mixed, flat) ==
  Helpers(files, d,
    Subjects(files, d,
      Prefixed(files, d,
        Stray(files, d, Noted(st, d, mixed, flat), entries, Subfolders(files, d)),
        entries, flat, Range(Domains) \cup {Last(f) : f \in Folders(files)}),
      entries, mixed, flat),
    entries, mixed)

AnalyzeFolder(files, d, st, entries) ==
  FolderSteps(files, d, st, entries,
              Mixed(d, {e \in Range(entries) : e.role # NoRole}), Len(entries) > MaxFlat)

FolderBefore(a, b) ==
  \E k \in 0..Len(a) :
    /\ k < Len(b) /\ SubSeq(a, 1, k) = SubSeq(b, 1, k)
    /\ k = Len(a) \/ Lower(a[k + 1], b[k + 1])

Wanted(d, scope) == scope = {} \/ \E s \in scope : Inside(d, s)

Analyze(files, scope) ==
  FoldLeft(LAMBDA st, d : AnalyzeFolder(files, d, st, EntriesOf(files, d)), Blank,
           InOrder({d \in {f.dir : f \in Code(files)} : Wanted(d, scope)}, FolderBefore))
-----------------------------------------------------------------------------
Init == tracked \in Trees /\ plan = {} /\ ok = TRUE /\ edits = 0

(* The command: a plan, and exit code 1 for an error.                       *)
Report(report) ==
  /\ plan' = report.moves
  /\ ok' = \A f \in report.findings : f[1] \notin Errors
  /\ UNCHANGED <<tracked, edits>>

Check(scope) == Report(Analyze(tracked, scope))

(* `git mv` of the plan: refused when the target exists.                    *)
Move(m) ==
  /\ m \in plan /\ m.from \in tracked /\ m.to \notin tracked
  /\ tracked' = (tracked \ {m.from}) \cup {m.to}
  /\ plan' = plan \ {m}
  /\ UNCHANGED <<ok, edits>>

(* Somebody adds a file, or removes one.                                    *)
Edit(f) ==
  /\ edits < MaxEdits
  /\ tracked' = SymDiff(tracked, {f})
  /\ edits' = edits + 1
  /\ UNCHANGED <<plan, ok>>

Next ==
  \/ \E scope \in Scopes : Check(scope)
  \/ \E m \in plan : Move(m)
  \/ \E f \in Path : Edit(f)

Spec == Init /\ [][Next]_vars
-----------------------------------------------------------------------------
(* Nothing is lost or overwritten whatever the order of the moves; a test   *)
(* and a companion stay with their file, under its name and in its folder;  *)
(* each word of the name is still in it, or the folder says it.             *)
MovesAreSafe(moves) ==
  /\ \A m, n \in moves : m.from = n.from \/ m.to = n.to => m = n
  /\ \A m \in moves :
       /\ m.from \in tracked /\ m.to \notin tracked /\ ~Reserved(m.from)
       /\ Len(m.to.dir) = Len(m.from.dir) + 1 /\ Inside(m.to.dir, m.from.dir)
       /\ \A f \in Group(tracked, m.from) :
            [from |-> f, to |-> Renamed(f, m.to.dir, m.to)] \in moves
       /\ m.to.stem # <<>> /\ IsSuffix(m.to.stem, m.from.stem)
       /\ \A k \in 1..(Len(m.from.stem) - Len(m.to.stem)) : OwnWord(m.to.dir, m.from.stem[k])

(* A check limited to folders proposes what the whole check proposes there. *)
SameInScope(moves) ==
  \A scope \in Scopes \ {{}} :
    Analyze(tracked, scope).moves = {m \in moves : Wanted(m.from.dir, scope)}

SafePlan(moves) == MovesAreSafe(moves) /\ SameInScope(moves)

(* Whatever the tree, the plan is safe to follow.                           *)
PlanIsSafe == SafePlan(Analyze(tracked, {}).moves)
=============================================================================
